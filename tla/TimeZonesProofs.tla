--------------------------- MODULE TimeZonesProofs ----------------------------
(***************************************************************************)
(* For any number of goroutines and keys: every successful call of the     *)
(* lazy cache returns the one cached pointer, a published pointer is never *)
(* replaced, and each step of the cache is a step of InternTable or        *)
(* invisible. Resolution of time zones drives this cache and nothing else, *)
(* so all of it holds for it; and for any registry, any names and any      *)
(* number of goroutines, names that mean one zone resolve to one pointer.  *)
(***************************************************************************)
EXTENDS TimeZones, TLAPS

-------------------------------------------------------------------------------
(* The cache. *)

IInv == CacheTypeOK /\ PointersFit /\ OnePointer

\* A pointer is neither nil nor the mark of a failed construction.
LEMMA PointerIsValue ==
  ASSUME NEW k \in Keys, NEW p \in Pointers(k)
  PROVE  p # None /\ p # Failed
BY CacheConstants DEF Pointers, Pointer

LEMMA PointersAll ==
  ASSUME NEW k \in Keys, NEW p \in Pointers(k)
  PROVE  p \in AllPointers
BY DEF AllPointers

LEMMA InitIInv == CacheInit => IInv
BY CacheConstants DEF CacheInit, IInv, CacheTypeOK, PointersFit, OnePointer

LEMMA NextIInv ==
  ASSUME IInv, CacheNext
  PROVE  IInv' /\ \A k \in Keys : cache[k] # None => cache'[k] = cache[k]
<1> USE DEF IInv, CacheTypeOK, PointersFit, OnePointer
<1>1. PICK g \in Goroutines : (\E k \in Keys : Ask(g, k)) \/ CacheStep(g) \/ Return(g)
  BY DEF CacheNext
<1>2. CASE \E k \in Keys : Ask(g, k)
  BY <1>2, CacheConstants DEF Ask
<1>3. CASE LoadHit(g)
  BY <1>3 DEF LoadHit
<1>4. CASE LoadMiss(g)
  BY <1>4 DEF LoadMiss
<1>5. CASE Build(g)
  <2>1. key[g] \in Keys /\ Pointer(key[g], g) \in Pointers(key[g])
    BY <1>5 DEF Build, Pointers
  <2>2. Pointer(key[g], g) \in AllPointers
    BY <2>1, PointersAll
  <2> QED
    BY <1>5, <2>1, <2>2 DEF Build
<1>6. CASE BuildFails(g)
  BY <1>6 DEF BuildFails
<1>7. CASE LoadOrStore(g)
  <2>1. key[g] \in Keys /\ built[g] \in Pointers(key[g]) /\ built[g] # None
    BY <1>7, PointerIsValue DEF LoadOrStore
  <2>2. \A k \in Keys : cache[k] # None => cache'[k] = cache[k]
    BY <1>7 DEF LoadOrStore
  <2>3. cache'[key[g]] \in Pointers(key[g]) /\ result'[g] = cache'[key[g]]
    BY <1>7, <2>1 DEF LoadOrStore
  <2>4. CacheTypeOK' /\ PointersFit'
    BY <1>7, <2>1, <2>3, PointersAll DEF LoadOrStore
  <2>5. ASSUME NEW h \in Goroutines, pc'[h] = "done", result'[h] # Failed
        PROVE  result'[h] = cache'[key'[h]]
    <3>1. CASE h = g
      BY <1>7, <2>3, <3>1 DEF LoadOrStore
    <3>2. CASE h # g
      <4>1. pc[h] = "done" /\ result[h] = cache[key[h]] /\ key[h] \in Keys
        BY <1>7, <2>5, <3>2 DEF LoadOrStore
      <4>2. cache[key[h]] # None
        BY <1>7, <2>5, <3>2, <4>1, PointerIsValue DEF LoadOrStore
      <4> QED
        BY <1>7, <2>2, <3>2, <4>1, <4>2 DEF LoadOrStore
    <3> QED
      BY <3>1, <3>2
  <2> QED
    BY <2>2, <2>4, <2>5
<1>8. CASE Return(g)
  BY <1>8 DEF Return
<1> QED
  BY <1>1, <1>2, <1>3, <1>4, <1>5, <1>6, <1>7, <1>8 DEF CacheStep

THEOREM Invariance == CacheSpec => []IInv
<1>1. IInv /\ UNCHANGED cacheVars => IInv'
  BY DEF IInv, CacheTypeOK, PointersFit, OnePointer, cacheVars
<1> QED
  BY InitIInv, NextIInv, <1>1, PTL DEF CacheSpec

\* Each goroutine holds a key, a construction and a result exactly where the
\* code has them, and the cache maps every key to a pointer made for it.
THEOREM TypeCorrect == CacheSpec => []CacheTypeOK
BY Invariance, PTL DEF IInv

\* Two calls of Resolve for one zone never return different pointers, however
\* many goroutines constructed one.
THEOREM OnePointerPerKey == CacheSpec => []OnePointer
BY Invariance, PTL DEF IInv

\* LoadOrStore never replaces what another goroutine has published.
THEOREM Stability == CacheSpec => CacheStable
<1>1. ASSUME IInv, [CacheNext]_cacheVars
      PROVE  [\A k \in Keys : cache[k] # None => cache'[k] = cache[k]]_cacheVars
  BY <1>1, NextIInv
<1> QED
  BY Invariance, <1>1, PTL DEF CacheSpec, CacheStable

-------------------------------------------------------------------------------
(* Refinement of InternTable *)

LEMMA InitRefines == CacheInit => Table!Init
BY DEF CacheInit, Table!Init

LEMMA NextRefines ==
  ASSUME IInv, IInv', CacheNext
  PROVE  Table!Next \/ UNCHANGED Table!vars
<1> USE DEF IInv, CacheTypeOK, PointersFit
<1>1. PICK g \in Goroutines : (\E k \in Keys : Ask(g, k)) \/ CacheStep(g) \/ Return(g)
  BY DEF CacheNext
<1>2. CASE \E k \in Keys : Ask(g, k)
  <2>1. PICK k \in Keys : Ask(g, k)
    BY <1>2
  <2>2. Table!Ask(g, k)
    BY <2>1 DEF Ask, Table!Ask
  <2> QED
    BY <2>2 DEF Table!Next
<1>3. CASE LoadHit(g)
  <2>1. Table!Found(g)
    BY <1>3 DEF LoadHit, Table!Found, Table!Reply
  <2> QED
    BY <2>1 DEF Table!Next
<1>4. CASE LoadMiss(g) \/ Build(g)
  <2>1. UNCHANGED <<key, result, cache>>
    BY <1>4 DEF LoadMiss, Build
  <2>2. /\ pc[g] \in {"load", "build"} /\ pc'[g] \in {"build", "publish"}
        /\ \A h \in Goroutines \ {g} : pc'[h] = pc[h]
    BY <1>4 DEF LoadMiss, Build
  <2> QED
    BY <2>1, <2>2 DEF Table!vars
<1>5. CASE BuildFails(g)
  <2>1. Table!Fail(g)
    BY <1>5 DEF BuildFails, Table!Fail, Table!Reply
  <2> QED
    BY <2>1 DEF Table!Next
<1>6. CASE LoadOrStore(g)
  <2>1. /\ pc' = [pc EXCEPT ![g] = "done"] /\ pc[g] = "publish" /\ UNCHANGED key
        /\ key[g] \in Keys /\ built[g] \in Pointers(key[g])
    BY <1>6 DEF LoadOrStore
  <2>2. Table!Reply(g)
    BY <2>1 DEF Table!Reply
  <2>3. CASE cache[key[g]] # None
    <3>1. cache' = cache /\ result' = [result EXCEPT ![g] = cache[key[g]]]
      BY <1>6, <2>1, <2>3 DEF LoadOrStore
    <3>2. Table!Found(g)
      BY <2>2, <2>3, <3>1 DEF Table!Found
    <3> QED
      BY <3>2 DEF Table!Next
  <2>4. CASE cache[key[g]] = None
    <3>1. /\ cache' = [cache EXCEPT ![key[g]] = built[g]]
          /\ result' = [result EXCEPT ![g] = built[g]]
      BY <1>6, <2>1, <2>4 DEF LoadOrStore
    <3>2. Table!Intern(g)
      BY <2>1, <2>2, <2>4, <3>1 DEF Table!Intern
    <3> QED
      BY <3>2 DEF Table!Next
  <2> QED
    BY <2>3, <2>4
<1>7. CASE Return(g)
  <2>1. Table!Return(g)
    BY <1>7 DEF Return, Table!Return
  <2> QED
    BY <2>1 DEF Table!Next
<1> QED
  BY <1>1, <1>2, <1>3, <1>4, <1>5, <1>6, <1>7 DEF CacheStep

\* To its callers the sync.Map with its racing constructions is a table whose
\* entries are made once, and a failed construction leaves it as it was.
THEOREM Refinement == CacheSpec => ImplementsTable
<1>1. UNCHANGED cacheVars => UNCHANGED Table!vars
  BY DEF cacheVars, Table!vars
<1> QED
  BY Invariance, InitRefines, NextRefines, <1>1, PTL DEF CacheSpec, ImplementsTable, Table!Safety

-------------------------------------------------------------------------------
(* The zones. *)

\* Names that mean one zone or one offset are cached under one key.
LEMMA CanonicalByMeaning ==
  ASSUME NEW m \in AnyName, NEW n \in AnyName, Meaning(m) = Meaning(n),
         CanonicalName(m) # Unsupported, CanonicalName(n) # Unsupported
  PROVE  CanonicalName(m) = CanonicalName(n)
<1>1. CASE m[1] = "zone" /\ n[1] = "zone"
  BY <1>1 DEF Meaning, CanonicalName
<1>2. CASE m[1] = "offset" /\ n[1] = "offset"
  <2>1. PICK s \in {1, -1}, h \in Nat, k \in Nat : m = <<"offset", s, h, k>>
    BY <1>2 DEF AnyName
  <2>2. PICK t \in {1, -1}, i \in Nat, l \in Nat : n = <<"offset", t, i, l>>
    BY <1>2 DEF AnyName
  <2>3. h \in 0 .. 23 /\ k \in 0 .. 59 /\ i \in 0 .. 23 /\ l \in 0 .. 59
    BY <2>1, <2>2 DEF CanonicalName
  <2>4. Minutes(s, h, k) = Minutes(t, i, l)
    BY <2>1, <2>2 DEF Meaning
  <2>5. h = i /\ k = l /\ (s = t \/ (h = 0 /\ k = 0))
    <3>1. CASE s = 1 /\ t = 1
      BY <2>3, <2>4, <3>1 DEF Minutes
    <3>2. CASE s = -1 /\ t = -1
      BY <2>3, <2>4, <3>2 DEF Minutes
    <3>3. CASE s # t
      <4>1. 60 * h + k = -(60 * i + l)
        BY <2>3, <2>4, <3>3 DEF Minutes
      <4> QED
        BY <2>3, <4>1
    <3> QED
      BY <3>1, <3>2, <3>3
  <2> QED
    BY <2>1, <2>2, <2>3, <2>5 DEF CanonicalName, CanonicalOffset
<1>3. m[1] = "zone" /\ n[1] = "offset" => Meaning(m) # Meaning(n)
  BY DEF Meaning
<1>4. m[1] = "offset" /\ n[1] = "zone" => Meaning(m) # Meaning(n)
  BY DEF Meaning
<1>5. m[1] \in {"zone", "offset"} /\ n[1] \in {"zone", "offset"}
  BY DEF AnyName
<1> QED
  BY <1>1, <1>2, <1>3, <1>4, <1>5

-------------------------------------------------------------------------------
\* A call, with the answer it was given without the cache, an error or time.UTC.
Calls ==
  [op : {"resolve", "default", "override"}, name : AnyName,
   answer : {None, Failed} \cup Pointers(UTC)]

CallsTyped == asked \in [Goroutines -> Calls \cup {None}]

\* What g asked for fits where it is: its key is the canonical form of its name.
CallFits(g) == asked[g] # None =>
  IF asked[g].answer = None
  THEN pc[g] # "idle" /\ key[g] = CanonicalName(asked[g].name)
  ELSE asked[g].answer # Failed => asked[g].name = UTC

CallsFit == CallsTyped /\ \A g \in Goroutines : CallFits(g)

\* The providers are time.Local and locations of the cache.
Providers == {Local} \cup AllPointers

ProvidersFit == provider \in Providers /\ saved \in Seq(Providers)

ZInv == IInv /\ CallsFit /\ ProvidersFit

\* The names a call may pass on to Lookup.
Passed == Names \cup Keys \cup (HostNames \ {NoName})

LEMMA DefaultName ==
  ASSUME ProvidersFit, NEW name \in DefaultNames, name # NoName
  PROVE  name \in Passed
<1>1. CASE provider = Local
  BY <1>1 DEF DefaultNames, Passed
<1>2. CASE provider # Local
  <2>1. provider.of \in Keys
    BY <1>2 DEF ProvidersFit, Providers, AllPointers, Pointers, Pointer
  <2> QED
    BY <1>2, <2>1 DEF DefaultNames, Passed
<1> QED
  BY <1>1, <1>2

\* What starts a call: a name to look up, or a host zone that has none.
LEMMA CallBegins ==
  ASSUME ProvidersFit, NEW g \in Goroutines, Resolve(g) \/ Default(g) \/ Override(g)
  PROVE  \/ \E op \in {"resolve", "default", "override"}, name \in Passed : Lookup(g, op, name)
         \/ AnswerNow(g, "default", UTC, Pointer(UTC, g))
<1>1. CASE Resolve(g)
  BY <1>1 DEF Resolve, Passed
<1>2. CASE Default(g)
  BY <1>2, DefaultName DEF Default
<1>3. CASE Override(g)
  BY <1>3 DEF Override, Passed
<1> QED
  BY <1>1, <1>2, <1>3

\* Each step is a step of the cache or leaves it alone.
LEMMA StepInCache ==
  ASSUME ProvidersFit, Next
  PROVE  CacheNext \/ UNCHANGED cacheVars
<1>1. CASE Restore
  BY <1>1 DEF Restore
<1>2. ASSUME NEW g \in Goroutines, Resolve(g) \/ Default(g) \/ Override(g)
      PROVE  CacheNext \/ UNCHANGED cacheVars
  <2>1. CASE AnswerNow(g, "default", UTC, Pointer(UTC, g))
    BY <2>1 DEF AnswerNow
  <2>2. ASSUME NEW op \in {"resolve", "default", "override"}, NEW name \in Passed,
               Lookup(g, op, name)
        PROVE  CacheNext \/ UNCHANGED cacheVars
    <3>1. CASE CanonicalName(name) = Unsupported
      BY <2>2, <3>1 DEF Lookup, AnswerNow
    <3>2. CASE CanonicalName(name) \in Keys
      BY <2>2, <3>2, NamesShape DEF Lookup, CacheNext
    <3> QED
      BY <3>1, <3>2, KeysAreCanonical DEF Passed
  <2> QED
    BY <1>2, <2>1, <2>2, CallBegins
<1>3. ASSUME NEW g \in Goroutines, InCache(g)
      PROVE  CacheNext
  BY <1>3 DEF InCache, CacheNext
<1>4. ASSUME NEW g \in Goroutines, Finish(g)
      PROVE  CacheNext \/ UNCHANGED cacheVars
  BY <1>4 DEF Finish, CacheNext
<1> QED
  BY <1>1, <1>2, <1>3, <1>4 DEF Next

LEMMA InitZInv == Init => ZInv
<1>1. Init => IInv
  BY InitIInv DEF Init
<1>2. Init => CallsFit /\ ProvidersFit
  BY DEF Init, CallsFit, CallsTyped, CallFits, ProvidersFit, Providers
<1> QED
  BY <1>1, <1>2 DEF ZInv

\* A call that begins.
LEMMA BeginKeepsZInv ==
  ASSUME ZInv, NEW g \in Goroutines, Resolve(g) \/ Default(g) \/ Override(g)
  PROVE  CallsFit' /\ ProvidersFit'
<1> USE DEF ZInv, CallsFit, CallsTyped, ProvidersFit
<1>0. ProvidersFit
  OBVIOUS
<1>1. ASSUME NEW op \in {"resolve", "default", "override"}, NEW name \in AnyName,
             NEW answer \in {None, Failed} \cup Pointers(UTC), Call(g, op, name, answer),
             \A h \in Goroutines \ {g} : pc'[h] = pc[h] /\ key'[h] = key[h],
             answer = None => pc'[g] # "idle" /\ key'[g] = CanonicalName(name),
             answer \in Pointers(UTC) => name = UTC
      PROVE  CallsFit' /\ ProvidersFit'
  <2>1. CallsTyped'
    BY <1>1 DEF Call, Calls
  <2>2. CallFits(g)'
    BY <1>1 DEF Call, CallFits
  <2>3. ASSUME NEW h \in Goroutines \ {g}
        PROVE  CallFits(h)'
    BY <1>1, <2>3 DEF Call, CallFits
  <2> QED
    BY <1>1, <2>1, <2>2, <2>3 DEF Call
<1>2. CASE AnswerNow(g, "default", UTC, Pointer(UTC, g))
  <2>1. UTC \in AnyName /\ Pointer(UTC, g) \in Pointers(UTC) /\ Pointer(UTC, g) # None
    BY NamesShape, RegistryShape, PointerIsValue DEF Pointers
  <2> QED
    BY <1>1, <1>2, <2>1 DEF AnswerNow, cacheVars
<1>3. ASSUME NEW op \in {"resolve", "default", "override"}, NEW name \in Passed,
             Lookup(g, op, name)
      PROVE  CallsFit' /\ ProvidersFit'
  <2>1. name \in AnyName
    BY NamesShape DEF Passed
  <2>2. None \notin Pointers(UTC) /\ Failed \notin Pointers(UTC) /\ None # Failed
    BY RegistryShape, PointerIsValue, CacheConstants
  <2>3. CASE CanonicalName(name) = Unsupported
    BY <1>1, <1>3, <2>1, <2>2, <2>3 DEF Lookup, AnswerNow, cacheVars
  <2>4. CASE CanonicalName(name) # Unsupported
    <3>1. Call(g, op, name, None) /\ Ask(g, CanonicalName(name))
      BY <1>3, <2>4 DEF Lookup
    <3>2. /\ \A h \in Goroutines \ {g} : pc'[h] = pc[h] /\ key'[h] = key[h]
          /\ pc'[g] = "load" /\ key'[g] = CanonicalName(name)
      BY <3>1 DEF Ask, IInv, CacheTypeOK
    <3> QED
      BY <1>1, <2>1, <2>2, <3>1, <3>2
  <2> QED
    BY <2>3, <2>4
<1> QED
  BY <1>0, <1>2, <1>3, CallBegins

\* A step in the cache keeps its goroutine in its call and at its key.
LEMMA CacheKeepsZInv ==
  ASSUME ZInv, NEW g \in Goroutines, InCache(g)
  PROVE  CallsFit' /\ ProvidersFit'
<1> USE DEF ZInv, CallsFit, CallsTyped, ProvidersFit
<1>1. /\ key' = key
      /\ \A h \in Goroutines : pc[h] # "idle" => pc'[h] # "idle"
  BY DEF InCache, CacheStep, LoadHit, LoadMiss, Build, BuildFails, LoadOrStore, IInv, CacheTypeOK
<1>2. UNCHANGED <<asked, provider, saved>>
  BY DEF InCache
<1> QED
  BY <1>1, <1>2 DEF CallFits

\* The location an override installs is one of the cache.
LEMMA AnswerTyped ==
  ASSUME ZInv, NEW g \in Goroutines, Answered(g), Answer(g) # Failed
  PROVE  Answer(g) \in AllPointers
<1> USE DEF ZInv, CallsFit, CallsTyped
<1>1. asked[g] \in Calls
  BY DEF Answered
<1>2. CASE asked[g].answer # None
  BY <1>1, <1>2, RegistryShape, PointersAll DEF Answer, Calls
<1>3. CASE asked[g].answer = None
  BY <1>3, PointersAll DEF Answered, Answer, IInv, CacheTypeOK, PointersFit
<1> QED
  BY <1>2, <1>3

LEMMA FinishKeepsZInv ==
  ASSUME ZInv, NEW g \in Goroutines, Finish(g)
  PROVE  CallsFit' /\ ProvidersFit'
<1> USE DEF ZInv, CallsFit, CallsTyped, ProvidersFit
<1>1. asked' = [asked EXCEPT ![g] = None]
  BY DEF Finish
<1>2. \A h \in Goroutines \ {g} : pc'[h] = pc[h] /\ key'[h] = key[h]
  BY DEF Finish, Return, cacheVars, IInv, CacheTypeOK
<1>3. CallsFit'
  BY <1>1, <1>2 DEF CallFits
<1>4. CASE asked[g].op = "override" /\ Answer(g) # Failed
  <2>1. saved' = <<provider>> \o saved /\ provider' = Answer(g)
    BY <1>4 DEF Finish
  <2>2. Answer(g) \in Providers
    BY <1>4, AnswerTyped DEF Finish, Providers
  <2> QED
    BY <1>3, <2>1, <2>2
<1>5. CASE ~(asked[g].op = "override" /\ Answer(g) # Failed)
  BY <1>3, <1>5 DEF Finish
<1> QED
  BY <1>4, <1>5

LEMMA NextZInv ==
  ASSUME ZInv, Next
  PROVE  ZInv'
<1> USE DEF ZInv
<1>1. IInv'
  <2>1. CASE CacheNext
    BY <2>1, NextIInv
  <2>2. CASE UNCHANGED cacheVars
    BY <2>2 DEF IInv, CacheTypeOK, PointersFit, OnePointer, cacheVars
  <2> QED
    BY <2>1, <2>2, StepInCache
<1>2. CallsFit' /\ ProvidersFit'
  <2>1. CASE Restore
    <3>1. CallsFit'
      BY <2>1 DEF Restore, cacheVars, CallsFit, CallsTyped, CallFits
    <3>2. ProvidersFit'
      BY <2>1 DEF Restore, ProvidersFit
    <3> QED
      BY <3>1, <3>2
  <2>2. ASSUME NEW g \in Goroutines, Resolve(g) \/ Default(g) \/ Override(g)
        PROVE  CallsFit' /\ ProvidersFit'
    BY <2>2, BeginKeepsZInv
  <2>3. ASSUME NEW g \in Goroutines, InCache(g)
        PROVE  CallsFit' /\ ProvidersFit'
    BY <2>3, CacheKeepsZInv
  <2>4. ASSUME NEW g \in Goroutines, Finish(g)
        PROVE  CallsFit' /\ ProvidersFit'
    BY <2>4, FinishKeepsZInv
  <2> QED
    BY <2>1, <2>2, <2>3, <2>4 DEF Next
<1> QED
  BY <1>1, <1>2

THEOREM ZonesInvariant == Spec => []ZInv
<1>1. ZInv /\ UNCHANGED vars => ZInv'
  BY DEF ZInv, IInv, CacheTypeOK, PointersFit, OnePointer, CallsFit, CallsTyped, CallFits,
         ProvidersFit, vars
<1> QED
  BY InitZInv, NextZInv, <1>1, PTL DEF Spec

\* Whoever resolves, takes the default or overrides it uses the cache as its
\* callers do: one step of the cache at a time, from its initial state.
THEOREM ZonesUseCache == Spec => CacheSpec
<1>1. Init => CacheInit
  BY DEF Init
<1>2. ASSUME ZInv, [Next]_vars
      PROVE  [CacheNext]_cacheVars
  <2>1. CASE Next
    BY <1>2, <2>1, StepInCache DEF ZInv
  <2>2. CASE UNCHANGED vars
    BY <2>2 DEF vars, cacheVars
  <2> QED
    BY <1>2, <2>1, <2>2
<1> QED
  BY <1>1, <1>2, ZonesInvariant, PTL DEF Spec, CacheSpec

\* What the cache promises its callers holds for the resolution of time zones:
\* its type, one pointer per key, and the write-once table it looks like.
THEOREM ZonesKeepCache == Spec => [](CacheTypeOK /\ OnePointer) /\ ImplementsTable
BY ZonesUseCache, TypeCorrect, OnePointerPerKey, Refinement, PTL

\* A call that does not fail holds the cached pointer of its canonical name, and
\* for UTC, which is answered with and without the cache, the one there is.
LEMMA OneAnswerPerKey ==
  ASSUME ZInv, NEW g \in Goroutines, Answered(g), Answer(g) # Failed
  PROVE  /\ asked[g].name \in AnyName
         /\ CanonicalName(asked[g].name) \in Keys
         /\ IF CanonicalName(asked[g].name) = UTC
            THEN Answer(g) = [of |-> UTC, by |-> None]
            ELSE Answer(g) = cache[CanonicalName(asked[g].name)]
<1> USE DEF ZInv, CallsFit, CallsTyped
<1>1. asked[g] # None /\ asked[g] \in Calls /\ CallFits(g)
  BY DEF Answered
<1>2. \A p \in Pointers(UTC) : p = [of |-> UTC, by |-> None]
  BY RegistryShape DEF Pointers, Pointer
<1>3. CASE asked[g].answer # None
  <2>1. asked[g].name = UTC /\ Answer(g) \in Pointers(UTC)
    BY <1>1, <1>3 DEF Answer, Calls, CallFits
  <2>2. CanonicalName(UTC) = UTC /\ UTC \in Keys
    BY RegistryShape DEF CanonicalName, UTC
  <2> QED
    BY <1>1, <1>2, <2>1, <2>2 DEF Calls
<1>4. CASE asked[g].answer = None
  <2>1. pc[g] = "done" /\ Answer(g) = result[g] /\ key[g] = CanonicalName(asked[g].name)
    BY <1>1, <1>4 DEF Answered, Answer, CallFits
  <2>2. result[g] \in Pointers(key[g]) /\ result[g] = cache[key[g]] /\ key[g] \in Keys
    BY <2>1 DEF IInv, CacheTypeOK, PointersFit, OnePointer
  <2> QED
    BY <1>1, <1>2, <2>1, <2>2 DEF Calls
<1> QED
  BY <1>3, <1>4

\* For any registry and any number of goroutines, names that mean one zone or
\* one offset are answered with one *time.Location.
THEOREM SamePointer == Spec => []SameZoneSamePointer
<1>1. ASSUME ZInv
      PROVE  SameZoneSamePointer
  <2>1. ASSUME NEW g \in Goroutines, NEW h \in Goroutines,
               Answered(g), Answer(g) # Failed, Answered(h), Answer(h) # Failed,
               Meaning(asked[g].name) = Meaning(asked[h].name)
        PROVE  Answer(g) = Answer(h)
    <3>1. CanonicalName(asked[g].name) = CanonicalName(asked[h].name)
      BY <1>1, <2>1, OneAnswerPerKey, CanonicalByMeaning, NamesShape
    <3> QED
      BY <1>1, <2>1, <3>1, OneAnswerPerKey
  <2> QED
    BY <2>1 DEF SameZoneSamePointer
<1> QED
  BY <1>1, ZonesInvariant, PTL
===============================================================================
