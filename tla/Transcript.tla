----------------------------- MODULE Transcript -----------------------------
(***************************************************************************)
(* What the chat endpoints promise about the messages of a deployment,     *)
(* whatever transactions, generators and background tasks they are built   *)
(* from.  A request leaves at most one question and at most one answer.    *)
(* A question is never stored without an answer row beside it; an answer   *)
(* is settled at most once and stays as it was settled; a retry adds a     *)
(* complete answer and leaves the answer it replaces alone; only deleting  *)
(* the conversations takes messages away.                                  *)
(***************************************************************************)
CONSTANT Requests

VARIABLES asked,    \* the requests whose question is stored
          status    \* request -> the state of its answer row

vars == <<asked, status>>

Terminal == {"complete", "cancelled", "failed"}
Status == {"absent", "streaming", "deleted"} \cup Terminal

Init == /\ asked = {}
        /\ status = [r \in Requests |-> "absent"]

(* A question and its answer row appear together: the answer is complete   *)
(* (POST /chat) or still being generated (POST /chat/stream).              *)
Turn(r) ==
  /\ status[r] = "absent"
  /\ asked' = asked \cup {r}
  /\ \E s \in {"streaming", "complete"} : status' = [status EXCEPT ![r] = s]

(* An answer being generated reaches one of the terminal states.           *)
Settle(r) ==
  /\ status[r] = "streaming"
  /\ \E s \in Terminal : status' = [status EXCEPT ![r] = s]
  /\ UNCHANGED asked

(* A retry of an answer that was cancelled or failed adds another answer.  *)
Branch(r) ==
  /\ status[r] = "absent"
  /\ \E o \in Requests : status[o] \in {"cancelled", "failed"}
  /\ status' = [status EXCEPT ![r] = "complete"]
  /\ UNCHANGED asked

(* Conversations are deleted, with every message in them.                  *)
Erase ==
  \E gone \in SUBSET {r \in Requests : status[r] # "absent"} :
    /\ asked' = asked \ gone
    /\ status' = [r \in Requests |-> IF r \in gone THEN "deleted" ELSE status[r]]

Next == Erase \/ \E r \in Requests : Turn(r) \/ Settle(r) \/ Branch(r)

Spec == Init /\ [][Next]_vars
=============================================================================
