------------------------------ MODULE TimeZones ------------------------------
(***************************************************************************)
(* internal/tz: names of time zones and fixed offsets resolve to shared    *)
(* *time.Location values through the cache of LazyCache; a constructor     *)
(* without a timeZone option takes the default provider's zone, which      *)
(* tests override and restore.                                             *)
(***************************************************************************)
EXTENDS LazyCache, Integers, Sequences

CONSTANTS
  Names,        \* what callers ask for: <<"zone", identifier>> (case folded)
                \* or <<"offset", sign, hour, minute>>
  Primary,      \* the registry: identifier -> its primary identifier
  HostNames,    \* what time.Local and /etc/localtime may name, NoName for none
  NoName,
  Local,        \* time.Local
  MaxOverrides  \* bound on nested overrides of the default provider

Unsupported == <<"unsupported">>
UTC == <<"zone", "UTC">>

AnyName == ({"zone"} \X STRING) \cup ({"offset"} \X {1, -1} \X Nat \X Nat)

ASSUME RegistryShape ==
  /\ \A id \in DOMAIN Primary : Primary[id] \in DOMAIN Primary
  /\ \A id \in DOMAIN Primary : Primary[Primary[id]] = Primary[id]
  /\ "UTC" \in DOMAIN Primary /\ Primary["UTC"] = "UTC"
  /\ UTC \in Unique /\ UTC \in Keys

ASSUME NamesShape ==
  /\ Names \cup Keys \cup (HostNames \ {NoName}) \subseteq AnyName
  /\ Unsupported \notin Keys

VARIABLES
  asked,        \* asked[g]: g's call, or None: [op, name, answer], the answer
                \* None unless it was given without the cache
  provider,     \* what defaultProvider.location returns: Local or a location
  saved         \* the providers the pending restore functions hold, last first

vars == <<pc, key, built, result, cache, asked, provider, saved>>

CanonicalOffsetUnnormalized(sign, hour, minute) == <<"offset", sign, hour, minute>>

\* There is no offset -00:00.
CanonicalOffset(sign, hour, minute) ==
  <<"offset", IF hour = 0 /\ minute = 0 THEN 1 ELSE sign, hour, minute>>

\* The canonical name a name is cached under: Resolve up to its cache.
CanonicalName(name) ==
  IF name[1] = "offset"
  THEN IF name[3] > 23 \/ name[4] > 59 THEN Unsupported
       ELSE CanonicalOffset(name[2], name[3], name[4])
  ELSE IF name[2] \in DOMAIN Primary THEN <<"zone", Primary[name[2]]>> ELSE Unsupported

ASSUME KeysAreCanonical ==
  \A name \in Names \cup Keys \cup (HostNames \ {NoName}) :
    CanonicalName(name) \in Keys \cup {Unsupported}

Init ==
  /\ CacheInit
  /\ asked = [g \in Goroutines |-> None]
  /\ provider = Local
  /\ saved = <<>>

-------------------------------------------------------------------------------
Call(g, op, name, answer) ==
  /\ asked[g] = None
  /\ asked' = [asked EXCEPT ![g] = [op |-> op, name |-> name, answer |-> answer]]
  /\ UNCHANGED <<provider, saved>>

\* A call that is answered without the cache.
AnswerNow(g, op, name, answer) == Call(g, op, name, answer) /\ UNCHANGED cacheVars

\* An unsupported name is an error at once, any other goes to the cache.
Lookup(g, op, name) ==
  IF CanonicalName(name) = Unsupported
  THEN AnswerNow(g, op, name, Failed)
  ELSE Call(g, op, name, None) /\ Ask(g, CanonicalName(name))

Resolve(g) == \E name \in Names : Lookup(g, "resolve", name)

\* The names defaultLocation may derive from the location the provider
\* returns: the link of /etc/localtime is read at every call.
DefaultNames == IF provider = Local THEN HostNames ELSE {provider.of}

\* Default reads the provider under its lock, then resolves its name like any
\* other; a host zone without a name is time.UTC.
Default(g) == \E name \in DefaultNames :
  IF name = NoName THEN AnswerNow(g, "default", UTC, Pointer(UTC, g))
                   ELSE Lookup(g, "default", name)

\* OverrideDefaultForTest resolves its name before it takes the lock.
Override(g) ==
  /\ Len(saved) < MaxOverrides
  /\ \E name \in Names : Lookup(g, "override", name)

\* A call that has its answer, and the answer.
Answered(g) == asked[g] # None /\ (asked[g].answer # None \/ pc[g] = "done")
Answer(g)   == IF asked[g].answer # None THEN asked[g].answer ELSE result[g]

\* The call returns; an override that did not fail swaps the provider under
\* the lock and keeps the previous one for its restore function.
Finish(g) ==
  /\ Answered(g)
  /\ IF asked[g].op = "override" /\ Answer(g) # Failed
     THEN saved' = <<provider>> \o saved /\ provider' = Answer(g)
     ELSE UNCHANGED <<provider, saved>>
  /\ IF asked[g].answer = None THEN Return(g) ELSE UNCHANGED cacheVars
  /\ asked' = [asked EXCEPT ![g] = None]

\* Tests restore in the reverse order of their overrides (t.Cleanup).
Restore ==
  /\ saved # <<>>
  /\ provider' = Head(saved)
  /\ saved' = Tail(saved)
  /\ UNCHANGED <<cacheVars, asked>>

InCache(g) == CacheStep(g) /\ UNCHANGED <<asked, provider, saved>>

Next ==
  \/ Restore
  \/ \E g \in Goroutines : Resolve(g) \/ Default(g) \/ Override(g) \/ InCache(g) \/ Finish(g)

Spec == Init /\ [][Next]_vars /\ \A g \in Goroutines : WF_vars(InCache(g))

-------------------------------------------------------------------------------
\* The zone, or the offset in minutes, that a name means.
Minutes(sign, hour, minute) == sign * (60 * hour + minute)

Meaning(name) ==
  IF name[1] = "offset" THEN <<"minutes", Minutes(name[2], name[3], name[4])>>
                        ELSE <<"zone", Primary[name[2]]>>

\* Names that mean the same zone, links and spellings of an offset included,
\* resolve to the same *time.Location, whether it was asked for, is the
\* default or was put there by an override.
SameZoneSamePointer ==
  \A g, h \in Goroutines :
       /\ Answered(g) /\ Answer(g) # Failed
       /\ Answered(h) /\ Answer(h) # Failed
       /\ Meaning(asked[g].name) = Meaning(asked[h].name)
    => Answer(g) = Answer(h)
===============================================================================
