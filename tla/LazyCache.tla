------------------------------ MODULE LazyCache ------------------------------
(***************************************************************************)
(* A package-level sync.Map that many goroutines fill on demand:           *)
(* cachedLocation of internal/tz/resolve.go, and without failures          *)
(* gregorianDataFor and patternDataFor of datetimeformat/pattern_data.go.  *)
(* Load, the construction of the value and LoadOrStore are separate steps; *)
(* the construction holds no lock, so several goroutines may be in it for  *)
(* one key.  A value is a pointer, told from the others for its key by the *)
(* goroutine that made it: once a goroutine has published a value for a    *)
(* key, it never makes another one for it.                                 *)
(***************************************************************************)
CONSTANTS
  Goroutines,
  Keys,
  Fallible,     \* keys whose construction may return an error
  Unique,       \* keys for which it always returns the same pointer (time.UTC)
  None, Failed  \* nil, and a nil value with an error

ASSUME CacheConstants ==
  /\ Fallible \subseteq Keys
  /\ None # Failed
  /\ \A p \in [of : Keys, by : Goroutines \cup {None}] : p # None /\ p # Failed
  /\ None \notin Keys

VARIABLES
  pc,           \* pc[g]: where g is
  key,          \* key[g]: the key it asks for
  built,        \* built[g]: the value it has constructed and not published
  result,       \* result[g]: what the call returns
  cache         \* the sync.Map

cacheVars == <<pc, key, built, result, cache>>

Pointer(k, g) == [of |-> k, by |-> IF k \in Unique THEN None ELSE g]
Pointers(k)   == {Pointer(k, g) : g \in Goroutines}

CacheInit ==
  /\ pc = [g \in Goroutines |-> "idle"]
  /\ key = [g \in Goroutines |-> None]
  /\ built = [g \in Goroutines |-> None]
  /\ result = [g \in Goroutines |-> None]
  /\ cache = [k \in Keys |-> None]

Ask(g, k) ==
  /\ pc[g] = "idle"
  /\ pc' = [pc EXCEPT ![g] = "load"]
  /\ key' = [key EXCEPT ![g] = k]
  /\ UNCHANGED <<built, result, cache>>

LoadHit(g) ==
  /\ pc[g] = "load"
  /\ cache[key[g]] # None
  /\ result' = [result EXCEPT ![g] = cache[key[g]]]
  /\ pc' = [pc EXCEPT ![g] = "done"]
  /\ UNCHANGED <<key, built, cache>>

LoadMiss(g) ==
  /\ pc[g] = "load"
  /\ cache[key[g]] = None
  /\ pc' = [pc EXCEPT ![g] = "build"]
  /\ UNCHANGED <<key, built, result, cache>>

Build(g) ==
  /\ pc[g] = "build"
  /\ built' = [built EXCEPT ![g] = Pointer(key[g], g)]
  /\ pc' = [pc EXCEPT ![g] = "publish"]
  /\ UNCHANGED <<key, result, cache>>

BuildFailsRetry(g) ==
  /\ pc[g] = "build"
  /\ key[g] \in Fallible
  /\ pc' = [pc EXCEPT ![g] = "load"]
  /\ UNCHANGED <<key, built, result, cache>>

BuildFailsRemembered(g) ==
  /\ pc[g] = "build"
  /\ key[g] \in Fallible
  /\ result' = [result EXCEPT ![g] = Failed]
  /\ cache' = [cache EXCEPT ![key[g]] = Failed]
  /\ pc' = [pc EXCEPT ![g] = "done"]
  /\ UNCHANGED <<key, built>>

BuildFails(g) ==
  /\ pc[g] = "build"
  /\ key[g] \in Fallible
  /\ result' = [result EXCEPT ![g] = Failed]
  /\ pc' = [pc EXCEPT ![g] = "done"]
  /\ UNCHANGED <<key, built, cache>>

KeepOwn(g) ==
  /\ pc[g] = "publish"
  /\ cache' = [cache EXCEPT ![key[g]] = IF @ = None THEN built[g] ELSE @]
  /\ result' = [result EXCEPT ![g] = built[g]]
  /\ built' = [built EXCEPT ![g] = None]
  /\ pc' = [pc EXCEPT ![g] = "done"]
  /\ UNCHANGED key

\* The first construction to be published wins; the others are dropped for it.
LoadOrStore(g) ==
  /\ pc[g] = "publish"
  /\ cache' = [cache EXCEPT ![key[g]] = IF @ = None THEN built[g] ELSE @]
  /\ result' = [result EXCEPT ![g] = cache'[key[g]]]
  /\ built' = [built EXCEPT ![g] = None]
  /\ pc' = [pc EXCEPT ![g] = "done"]
  /\ UNCHANGED key

Return(g) ==
  /\ pc[g] = "done"
  /\ pc' = [pc EXCEPT ![g] = "idle"]
  /\ key' = [key EXCEPT ![g] = None]
  /\ result' = [result EXCEPT ![g] = None]
  /\ UNCHANGED <<built, cache>>

\* The steps of a call: none of them waits for another goroutine.
CacheStep(g) ==
  LoadHit(g) \/ LoadMiss(g) \/ Build(g) \/ BuildFails(g) \/ LoadOrStore(g)

CacheNext ==
  \E g \in Goroutines : (\E k \in Keys : Ask(g, k)) \/ CacheStep(g) \/ Return(g)

CacheSpec == CacheInit /\ [][CacheNext]_cacheVars

-------------------------------------------------------------------------------
AllPointers == UNION {Pointers(k) : k \in Keys}

CacheTypeOK ==
  /\ pc \in [Goroutines -> {"idle", "load", "build", "publish", "done"}]
  /\ key \in [Goroutines -> Keys \cup {None}]
  /\ built \in [Goroutines -> AllPointers \cup {None}]
  /\ result \in [Goroutines -> AllPointers \cup {None, Failed}]
  /\ cache \in [Keys -> AllPointers \cup {None}]

\* What a goroutine holds fits the place it is at, and every pointer, held or
\* cached, was made for the key it is found under.
PointersFit ==
  /\ \A g \in Goroutines :
       /\ pc[g] = "idle" <=> key[g] = None
       /\ IF pc[g] = "publish" THEN built[g] \in Pointers(key[g]) ELSE built[g] = None
       /\ IF pc[g] = "done" THEN result[g] \in Pointers(key[g]) \cup {Failed}
                            ELSE result[g] = None
  /\ \A k \in Keys : cache[k] # None => cache[k] \in Pointers(k)

\* However many goroutines construct a value for a key at the same time, each
\* call that does not fail returns the one pointer that is cached: two callers
\* of Resolve never hold different *time.Location values for one zone.
OnePointer ==
  \A g \in Goroutines : pc[g] = "done" /\ result[g] # Failed => result[g] = cache[key[g]]

\* A published value is never replaced and never removed.
CacheStable == [][\A k \in Keys : cache[k] # None => cache'[k] = cache[k]]_cacheVars

\* Every call returns: no goroutine waits for the construction of another. What
\* uses the cache states the fairness of its steps.
EveryCallReturns == \A g \in Goroutines : pc[g] = "load" ~> pc[g] = "done"

\* Callers see a table of values that are made once: the race between two
\* constructions is invisible, and a failure leaves no trace.
Table == INSTANCE InternTable WITH
  Callers <- Goroutines,
  Values  <- Pointers,
  status  <- [g \in Goroutines |-> IF pc[g] \in {"load", "build", "publish"} THEN "pending"
                                   ELSE IF pc[g] = "done" THEN "answered" ELSE "idle"],
  asked   <- key,
  answer  <- result,
  table   <- cache

ImplementsTable == Table!Safety
===============================================================================
