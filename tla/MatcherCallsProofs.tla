-------------------------- MODULE MatcherCallsProofs --------------------------
(***************************************************************************)
(* For every set of goroutines, of available locales and of calls, and for *)
(* every matching data: the cache of MatcherCalls is coherent, every call  *)
(* answers what the algorithm gives for its own arguments, and every step  *)
(* is a step of MatcherService or changes nothing its callers see.         *)
(***************************************************************************)
EXTENDS MatcherCalls, TLAPS

\* One request for an available locale is matched with it: the shortcut that
\* matchRequested takes before the cache agrees with findBestMatch.
LEMMA ExactIsBest ==
  ASSUME NEW tag \in Matcher.exact
  PROVE  FindBestMatch(Matcher, <<tag>>) = BestMatch(0, tag, 0)
BY DEF FindBestMatch

\* The tags of a call are a sequence that BestMatchOf is defined for.
LEMMA RequestedShape ==
  ASSUME NEW a \in Calls
  PROVE  /\ Tags(a.requests) \in Seq({a.requests[i].tag : i \in DOMAIN a.requests})
         /\ BestMatchOf[Tags(a.requests)] = FindBestMatch(Matcher, Tags(a.requests))
         /\ Tags(a.requests) \in DOMAIN BestMatchOf
         /\ Cacheable(Tags(a.requests)) => Tags(a.requests) = <<Tags(a.requests)[1]>>
<1>1. Tags(a.requests) \in Seq({a.requests[i].tag : i \in DOMAIN a.requests})
  BY CallShape DEF Tags
<1>2. Cacheable(Tags(a.requests)) => Tags(a.requests) = <<Tags(a.requests)[1]>>
  BY <1>1 DEF Cacheable
<1> QED
  BY <1>1, <1>2 DEF BestMatchOf

LEMMA InitIInv == Init => IInv
BY DEF Init, IInv, TypeOK, CachePath, CacheCoherent, ResultIsOwn, AnswersCorrect, States


\* One step per action.  Only the caller that takes the step changes its entry
\* of pc, call, best and answer, so each conjunct is about that caller alone.
LEMMA NextIInv ==
  ASSUME IInv, Next
  PROVE  IInv'
<1> USE DEF IInv, TypeOK, CachePath, CacheCoherent, ResultIsOwn, AnswersCorrect, States, Requested
<1>1. PICK c \in Callers : Begin(c) \/ Step(c) \/ Return(c)
  BY DEF Next
<1>2. CASE Begin(c)
  BY <1>2 DEF Begin
<1>3. CASE Lookup(c)
  <2>1. LookupOf[call[c].requests] = AnswerTo[call[c]]
    BY <1>3 DEF Lookup, LookupOf, AnswerTo, Match
  <2> QED
    BY <1>3, <2>1 DEF Lookup
<1>4. CASE MatchUncached(c)
  BY <1>4 DEF MatchUncached
<1>5. CASE MatchExact(c)
  <2>1. /\ Requested(c) = <<Requested(c)[1]>>
        /\ BestMatchOf[Requested(c)] = FindBestMatch(Matcher, Requested(c))
        /\ Requested(c)[1] \in Matcher.exact
    BY <1>5, RequestedShape DEF MatchExact
  <2>2. best'[c] = BestMatchOf[Requested(c)]
    BY <1>5, <2>1, ExactIsBest DEF MatchExact
  <2> QED
    BY <1>5, <2>2 DEF MatchExact
<1>6. CASE MissExact(c)
  BY <1>6 DEF MissExact
<1>7. CASE LoadHit(c)
  <2>1. best'[c] = BestMatchOf[Requested(c)]
    BY <1>7, RequestedShape DEF LoadHit
  <2> QED
    BY <1>7, <2>1 DEF LoadHit
<1>8. CASE LoadMiss(c)
  BY <1>8 DEF LoadMiss
<1>9. CASE Search(c)
  BY <1>9 DEF Search
<1>10. CASE Store(c)
  <2>1. /\ Requested(c) = <<Requested(c)[1]>>
        /\ Requested(c)[1] \notin Matcher.exact \cup LongTags
        /\ Requested(c) \in DOMAIN BestMatchOf
        /\ best[c] = BestMatchOf[Requested(c)]
    BY <1>10, RequestedShape DEF Store, Cacheable
  <2> QED
    BY <1>10, <2>1 DEF Store
<1>11. CASE Finish(c)
  <2>1. call[c] \in Calls /\ call[c].algorithm = "best fit"
    BY <1>11 DEF Finish
  <2>2. best[c] = FindBestMatch(Matcher, Tags(call[c].requests))
    BY <1>11, <2>1, RequestedShape DEF Finish
  <2>3. answer'[c] = AnswerTo[call[c]]
    BY <1>11, <2>1, <2>2 DEF Finish, AnswerTo, Match, BestFit
  <2> QED
    BY <1>11, <2>3 DEF Finish
<1>12. CASE Return(c)
  BY <1>12 DEF Return
<1> QED
  BY <1>1, <1>2, <1>3, <1>4, <1>5, <1>6, <1>7, <1>8, <1>9, <1>10, <1>11, <1>12 DEF Step

-------------------------------------------------------------------------------
\* The inductive invariant holds in every reachable state.
THEOREM Invariance == Spec => []IInv
<1>1. IInv /\ UNCHANGED vars => IInv'
  BY DEF IInv, TypeOK, CachePath, CacheCoherent, ResultIsOwn, AnswersCorrect, Requested, vars
<1> QED
  BY InitIInv, NextIInv, <1>1, PTL DEF Spec

\* Every goroutine is at a place of Match that fits its call, and the cached
\* request is one that matchRequested may cache.
THEOREM TypeCorrect == Spec => []TypeOK
BY Invariance, PTL DEF IInv

\* What lastMatch holds is the match of the request it is stored under, however
\* the searches of the goroutines interleave.
THEOREM CacheCoherence == Spec => []CacheCoherent
BY Invariance, PTL DEF IInv

\* Every call of Match returns what the algorithm gives for its own arguments,
\* whether it was answered from the index, from lastMatch or by a search.
THEOREM Correctness == Spec => []AnswersCorrect
BY Invariance, PTL DEF IInv

-------------------------------------------------------------------------------
(* Refinement: the steps inside Match are invisible up to the return. *)

LEMMA InitRefines == Init => Service!Init
BY DEF Init, Service!Init, NoCall, NoAnswer, Service!NoQuestion, Service!NoAnswer

LEMMA NextRefines ==
  ASSUME IInv, IInv', Next
  PROVE  Service!Next \/ UNCHANGED Service!vars
<1> USE DEF IInv, TypeOK, AnswersCorrect, States
<1>1. PICK c \in Callers : Begin(c) \/ Step(c) \/ Return(c)
  BY DEF Next
<1>2. CASE Begin(c)
  <2>1. Service!Ask(c)
    BY <1>2 DEF Begin, Service!Ask
  <2> QED
    BY <2>1 DEF Service!Next
<1>3. CASE Lookup(c) \/ Finish(c)
  <2>1. answer' = [answer EXCEPT ![c] = AnswerTo[call[c]]]
    BY <1>3 DEF Lookup, Finish
  <2>2. /\ pc[c] \notin {"idle", "done"}
        /\ pc' = [pc EXCEPT ![c] = "done"]
        /\ UNCHANGED call
    BY <1>3 DEF Lookup, Finish
  <2>3. Service!Reply(c)
    BY <2>1, <2>2 DEF Service!Reply
  <2> QED
    BY <2>3 DEF Service!Next
<1>4. CASE Return(c)
  <2>1. Service!Return(c)
    BY <1>4 DEF Return, Service!Return, NoCall, NoAnswer, Service!NoQuestion, Service!NoAnswer
  <2> QED
    BY <2>1 DEF Service!Next
<1>5. CASE \/ MatchUncached(c) \/ MatchExact(c) \/ MissExact(c) \/ LoadHit(c)
          \/ LoadMiss(c) \/ Search(c) \/ Store(c)
  <2>1. /\ UNCHANGED <<call, answer>>
        /\ pc[c] \notin {"idle", "done"} /\ pc'[c] \notin {"idle", "done"}
        /\ \A d \in Callers \ {c} : pc'[d] = pc[d]
    BY <1>5 DEF MatchUncached, MatchExact, MissExact, LoadHit, LoadMiss, Search, Store
  <2> QED
    BY <2>1 DEF Service!vars
<1> QED
  BY <1>1, <1>2, <1>3, <1>4, <1>5 DEF Step

\* A Matcher shared by goroutines is a MatcherService, up to fairness: each step
\* is a question, its reply, a return, or nothing the callers can see.
THEOREM Refinement == Spec => Service!Safety
<1>1. UNCHANGED vars => UNCHANGED Service!vars
  BY DEF vars, Service!vars
<1> QED
  BY Invariance, InitRefines, NextRefines, <1>1, PTL DEF Spec, Service!Safety

===============================================================================
