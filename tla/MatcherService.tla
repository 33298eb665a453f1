---------------------------- MODULE MatcherService ----------------------------
(***************************************************************************)
(* What a shared Matcher promises its callers: every call of Match is      *)
(* answered, with the value the matching algorithm gives for its own       *)
(* arguments, whatever other calls are under way or went before.           *)
(***************************************************************************)
CONSTANTS
  Callers,      \* goroutines that call Match
  Questions,    \* the arguments they pass
  Answer        \* a function from questions to their answers

VARIABLES
  status,       \* status[c]: "idle", "pending" or "answered"
  question,     \* question[c]: the arguments of c's last call
  answer        \* answer[c]: what that call returns

vars == <<status, question, answer>>

NoQuestion == [none |-> "call"]
NoAnswer   == [none |-> "answer"]

Init ==
  /\ status = [c \in Callers |-> "idle"]
  /\ question = [c \in Callers |-> NoQuestion]
  /\ answer = [c \in Callers |-> NoAnswer]

Ask(c) ==
  /\ status[c] = "idle"
  /\ status' = [status EXCEPT ![c] = "pending"]
  /\ \E q \in Questions : question' = [question EXCEPT ![c] = q]
  /\ UNCHANGED answer

Reply(c) ==
  /\ status[c] = "pending"
  /\ status' = [status EXCEPT ![c] = "answered"]
  /\ answer' = [answer EXCEPT ![c] = Answer[question[c]]]
  /\ UNCHANGED question

Return(c) ==
  /\ status[c] = "answered"
  /\ status' = [status EXCEPT ![c] = "idle"]
  /\ question' = [question EXCEPT ![c] = NoQuestion]
  /\ answer' = [answer EXCEPT ![c] = NoAnswer]

Next == \E c \in Callers : Ask(c) \/ Reply(c) \/ Return(c)

Safety == Init /\ [][Next]_vars

Spec == Safety /\ \A c \in Callers : WF_vars(Reply(c))
===============================================================================
