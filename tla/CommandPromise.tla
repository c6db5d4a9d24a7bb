--------------------------- MODULE CommandPromise ---------------------------
(***************************************************************************)
(* What a synchronous command call promises (Worker::Execute): the caller  *)
(* waits, it is answered at most once and only after the command has got   *)
(* its one result, and it returns after the answer or on its timeout.      *)
(***************************************************************************)
CONSTANTS Calls, Timed

VARIABLES
  result,     (* "none", "done" or "refused"                               *)
  waiting,    (* calls whose caller waits                                  *)
  answered    (* calls that were answered                                  *)

vars == <<result, waiting, answered>>

Init ==
  /\ result = [c \in Calls |-> "none"]
  /\ waiting = {} /\ answered = {}

Call(c) ==
  /\ c \notin waiting /\ c \notin answered
  /\ waiting' = waiting \cup {c}
  /\ \/ UNCHANGED result
     \/ result' = [result EXCEPT ![c] = "refused"]
  /\ UNCHANGED answered

Complete(c) ==
  /\ result[c] = "none"
  /\ \E r \in {"done", "refused"} : result' = [result EXCEPT ![c] = r]
  /\ UNCHANGED <<waiting, answered>>

Answer(c) ==
  /\ result[c] # "none" /\ c \notin answered
  /\ answered' = answered \cup {c}
  /\ UNCHANGED <<result, waiting>>

Return(c) ==
  /\ c \in waiting /\ c \in answered \cup Timed
  /\ waiting' = waiting \ {c}
  /\ UNCHANGED <<result, answered>>

Next == \E c \in Calls : Call(c) \/ Complete(c) \/ Answer(c) \/ Return(c)

Spec == Init /\ [][Next]_vars
=============================================================================
