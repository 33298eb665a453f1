----------------------------- MODULE MatcherCalls -----------------------------
(***************************************************************************)
(* Goroutines that call Match on one compiled Matcher (compiled.go).  The  *)
(* indexes of a Matcher never change; the only shared state is lastMatch,  *)
(* an atomic pointer to the last single request that needed a search and   *)
(* the result of that search.  Each Load and Store of it is a step; the    *)
(* search between them reads nothing that another goroutine writes.        *)
(***************************************************************************)
EXTENDS LocaleMatching

CONSTANTS
  Callers,        \* goroutines
  Resources,      \* the tags of the available locales, in order
  Calls,          \* the arguments they pass: requested locales and algorithm
  LongTags,       \* tags of more than 256 bytes, never retained
  Default,        \* the default locale
  None            \* the nil pointer

ASSUME CallShape ==
  \A a \in Calls : /\ a.algorithm \in Algorithms
                   /\ a.requests \in Seq(ToSet(a.requests))

VARIABLES
  pc,             \* pc[c]: where goroutine c is in Match
  call,           \* call[c]: the arguments of its last call
  best,           \* best[c]: its local bestMatchResult
  answer,         \* answer[c]: what its last call returned
  lastMatch       \* the cached match, or None

vars == <<pc, call, best, answer, lastMatch>>

States == {"idle", "match", "load", "search", "store", "result", "done"}

\* The compiled Matcher the goroutines share.
Matcher == NewExactMatcher(Resources)

NoCall   == [none |-> "call"]
NoAnswer == [none |-> "answer"]

Init ==
  /\ pc = [c \in Callers |-> "idle"]
  /\ call = [c \in Callers |-> NoCall]
  /\ best = [c \in Callers |-> NoMatch]
  /\ answer = [c \in Callers |-> NoAnswer]
  /\ lastMatch = None

\* The requests without their extensions.
Requested(c) == Tags(call[c].requests)

\* findBestMatch reads only the immutable indexes: for one Matcher it is a
\* function of the requested tags.
BestMatchOf == [requested \in {Tags(a.requests) : a \in Calls} |->
                  FindBestMatch(Matcher, requested)]

\* The requests matchRequested keeps a cached match for.
CacheableIfShort(requested) == requested # <<>> /\ requested[1] \notin LongTags
Cacheable(requested) == Len(requested) = 1 /\ requested[1] \notin LongTags

-------------------------------------------------------------------------------
Begin(c) ==
  /\ pc[c] = "idle"
  /\ \E a \in Calls : call' = [call EXCEPT ![c] = a]
  /\ pc' = [pc EXCEPT ![c] = "match"]
  /\ UNCHANGED <<best, answer, lastMatch>>

LookupOf == [requests \in {a.requests : a \in Calls} |->
               LookupMatch(Matcher, requests, Default)]

\* A lookup touches no shared state.
Lookup(c) ==
  /\ pc[c] = "match"
  /\ call[c].algorithm = "lookup"
  /\ answer' = [answer EXCEPT ![c] = LookupOf[call[c].requests]]
  /\ pc' = [pc EXCEPT ![c] = "done"]
  /\ UNCHANGED <<call, best, lastMatch>>

\* Several requests, none, or a long one: always a search of its own.
MatchUncached(c) ==
  /\ pc[c] = "match"
  /\ call[c].algorithm = "best fit"
  /\ ~Cacheable(Requested(c))
  /\ best' = [best EXCEPT ![c] = BestMatchOf[Requested(c)]]
  /\ pc' = [pc EXCEPT ![c] = "result"]
  /\ UNCHANGED <<call, answer, lastMatch>>

\* One short request for an available locale is answered from the index.
MatchExact(c) ==
  /\ pc[c] = "match"
  /\ call[c].algorithm = "best fit"
  /\ Cacheable(Requested(c))
  /\ Requested(c)[1] \in Matcher.exact
  /\ best' = [best EXCEPT ![c] = BestMatch(0, Requested(c)[1], 0)]
  /\ pc' = [pc EXCEPT ![c] = "result"]
  /\ UNCHANGED <<call, answer, lastMatch>>

MissExact(c) ==
  /\ pc[c] = "match"
  /\ call[c].algorithm = "best fit"
  /\ Cacheable(Requested(c))
  /\ Requested(c)[1] \notin Matcher.exact
  /\ pc' = [pc EXCEPT ![c] = "load"]
  /\ UNCHANGED <<call, best, answer, lastMatch>>

LoadHitAny(c) ==
  /\ pc[c] = "load"
  /\ lastMatch # None
  /\ best' = [best EXCEPT ![c] = lastMatch.result]
  /\ pc' = [pc EXCEPT ![c] = "result"]
  /\ UNCHANGED <<call, answer, lastMatch>>

\* lastMatch.Load and the comparison of the cached request with this one.
LoadHit(c) ==
  /\ pc[c] = "load"
  /\ lastMatch # None
  /\ lastMatch.requested = Requested(c)[1]
  /\ best' = [best EXCEPT ![c] = lastMatch.result]
  /\ pc' = [pc EXCEPT ![c] = "result"]
  /\ UNCHANGED <<call, answer, lastMatch>>

LoadMiss(c) ==
  /\ pc[c] = "load"
  /\ lastMatch # None => lastMatch.requested # Requested(c)[1]
  /\ pc' = [pc EXCEPT ![c] = "search"]
  /\ UNCHANGED <<call, best, answer, lastMatch>>

Search(c) ==
  /\ pc[c] = "search"
  /\ best' = [best EXCEPT ![c] = BestMatchOf[Requested(c)]]
  /\ pc' = [pc EXCEPT ![c] = "store"]
  /\ UNCHANGED <<call, answer, lastMatch>>

StoreInPlace(c) ==
  /\ pc[c] = "store"
  /\ lastMatch' = [requested |-> Requested(c)[1],
                   result |-> IF lastMatch = None THEN best[c] ELSE lastMatch.result]
  /\ pc' = [pc EXCEPT ![c] = "result"]
  /\ UNCHANGED <<call, best, answer>>

\* lastMatch.Store publishes request and result in one record.
Store(c) ==
  /\ pc[c] = "store"
  /\ lastMatch' = [requested |-> Requested(c)[1], result |-> best[c]]
  /\ pc' = [pc EXCEPT ![c] = "result"]
  /\ UNCHANGED <<call, best, answer>>

FinishWithoutExtension(c) ==
  /\ pc[c] = "result"
  /\ answer' = [answer EXCEPT ![c] =
                  [BestFitResult(Matcher, call[c].requests, Default, best[c])
                     EXCEPT !.extension = NoExtension]]
  /\ pc' = [pc EXCEPT ![c] = "done"]
  /\ UNCHANGED <<call, best, lastMatch>>

\* The rest of bestFit: the default, or the extension of the matched request.
Finish(c) ==
  /\ pc[c] = "result"
  /\ answer' = [answer EXCEPT ![c] =
                  BestFitResult(Matcher, call[c].requests, Default, best[c])]
  /\ pc' = [pc EXCEPT ![c] = "done"]
  /\ UNCHANGED <<call, best, lastMatch>>

Return(c) ==
  /\ pc[c] = "done"
  /\ pc' = [pc EXCEPT ![c] = "idle"]
  /\ call' = [call EXCEPT ![c] = NoCall]
  /\ best' = [best EXCEPT ![c] = NoMatch]
  /\ answer' = [answer EXCEPT ![c] = NoAnswer]
  /\ UNCHANGED lastMatch

\* What a goroutine does inside Match: no step waits for another goroutine.
Step(c) ==
  \/ Lookup(c) \/ MatchUncached(c) \/ MatchExact(c) \/ MissExact(c)
  \/ LoadHit(c) \/ LoadMiss(c) \/ Search(c) \/ Store(c) \/ Finish(c)

Next == \E c \in Callers : Begin(c) \/ Step(c) \/ Return(c)

Spec == Init /\ [][Next]_vars /\ \A c \in Callers : WF_vars(Step(c))

-------------------------------------------------------------------------------
TypeOK ==
  /\ pc \in [Callers -> States]
  /\ DOMAIN call = Callers
  /\ \A c \in Callers : IF pc[c] = "idle" THEN call[c] = NoCall ELSE call[c] \in Calls
  /\ DOMAIN best = Callers
  /\ DOMAIN answer = Callers
  /\ lastMatch # None => <<lastMatch.requested>> \in DOMAIN BestMatchOf

\* The cached match is the match of its own request: no interleaving of two
\* searches stores one caller's result under another caller's request, and an
\* exact or a long request is never retained.
CacheCoherent ==
  lastMatch # None =>
    /\ lastMatch.result = BestMatchOf[<<lastMatch.requested>>]
    /\ lastMatch.requested \notin Matcher.exact \cup LongTags

\* A call that is back in bestFit, over whichever path, has the result a
\* search of its own requests gives.
ResultIsOwn ==
  \A c \in Callers : pc[c] \in {"store", "result"} =>
    best[c] = BestMatchOf[Requested(c)]

\* What Match answers for each of the calls, computed by nobody's cache.
AnswerTo == [a \in Calls |-> Match(Matcher, a.requests, Default, a.algorithm)]

\* A call that returned has the answer of the algorithm it asked for.
AnswersCorrect ==
  \A c \in Callers : pc[c] = "done" =>
    answer[c] = AnswerTo[call[c]]

\* Only a best fit of one short request that is not available gets as far as
\* the cache, and what is cached was such a request.
CachePath ==
  \A c \in Callers :
    /\ pc[c] \in {"load", "search", "store", "result"} => call[c].algorithm = "best fit"
    /\ pc[c] \in {"load", "search", "store"} =>
         Cacheable(Requested(c)) /\ Requested(c)[1] \notin Matcher.exact

\* The inductive invariant.
IInv == TypeOK /\ CachePath /\ CacheCoherent /\ ResultIsOwn /\ AnswersCorrect

\* To its callers the cache is invisible: the Matcher is a MatcherService, which
\* answers every question, so no caller waits for another.
Service == INSTANCE MatcherService WITH
  Questions <- Calls,
  Answer    <- AnswerTo,
  status    <- [c \in Callers |-> IF pc[c] = "idle" THEN "idle"
                                  ELSE IF pc[c] = "done" THEN "answered" ELSE "pending"],
  question  <- call

ImplementsService == Service!Spec
===============================================================================
