----------------------------- MODULE InternTable -----------------------------
(***************************************************************************)
(* A write-once table of values: whoever asks for a key is answered with   *)
(* the one value the table holds for it, or learns that no value could be  *)
(* made, which is not remembered.                                          *)
(***************************************************************************)
CONSTANTS
  Callers,
  Keys,
  Fallible,     \* the keys whose value may fail to be made
  Values(_),    \* the values a key may be given
  None, Failed

VARIABLES
  status,       \* status[c]: "idle", "pending" or "answered"
  asked,        \* asked[c]: the key of c's last question
  answer,       \* answer[c]: its answer
  table         \* table[k]: the value of k, or None

vars == <<status, asked, answer, table>>

Init ==
  /\ status = [c \in Callers |-> "idle"]
  /\ asked = [c \in Callers |-> None]
  /\ answer = [c \in Callers |-> None]
  /\ table = [k \in Keys |-> None]

Ask(c, k) ==
  /\ status[c] = "idle"
  /\ status' = [status EXCEPT ![c] = "pending"]
  /\ asked' = [asked EXCEPT ![c] = k]
  /\ UNCHANGED <<answer, table>>

Reply(c) ==
  /\ status[c] = "pending"
  /\ status' = [status EXCEPT ![c] = "answered"]
  /\ UNCHANGED asked

Found(c) ==
  /\ Reply(c)
  /\ table[asked[c]] # None
  /\ answer' = [answer EXCEPT ![c] = table[asked[c]]]
  /\ UNCHANGED table

Intern(c) ==
  /\ Reply(c)
  /\ table[asked[c]] = None
  /\ \E v \in Values(asked[c]) :
       /\ table' = [table EXCEPT ![asked[c]] = v]
       /\ answer' = [answer EXCEPT ![c] = v]

Fail(c) ==
  /\ Reply(c)
  /\ asked[c] \in Fallible
  /\ answer' = [answer EXCEPT ![c] = Failed]
  /\ UNCHANGED table

Return(c) ==
  /\ status[c] = "answered"
  /\ status' = [status EXCEPT ![c] = "idle"]
  /\ asked' = [asked EXCEPT ![c] = None]
  /\ answer' = [answer EXCEPT ![c] = None]
  /\ UNCHANGED table

Next ==
  \E c \in Callers : \/ \E k \in Keys : Ask(c, k)
                     \/ Found(c) \/ Intern(c) \/ Fail(c) \/ Return(c)

Safety == Init /\ [][Next]_vars
===============================================================================
