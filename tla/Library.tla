------------------------------ MODULE Library ------------------------------
(***************************************************************************)
(* What knowledge bases promise about their documents, whatever requests,  *)
(* queues and workers they are built from.  A document appears in a base   *)
(* that is there, as the only one with its content; one answer of the      *)
(* ingestion makes it searchable, entire, or fails it, and there is no     *)
(* other answer unless an operator asked for one; a deleted base takes its *)
(* documents and their indexes away, and nothing of it ever comes back.    *)
(***************************************************************************)
CONSTANTS Bases, Documents, Contents,
          Indexes, \* what a document may be searched through
          None     \* no base and content

VARIABLES base,   \* base -> absent, present or deleted
          place,  \* document -> its base and content, once it is registered
          status, \* document -> absent, pending, ready, failed or deleted
          index,  \* document -> the indexes it is searched through
          again   \* documents that an operator had ingested again

vars == <<base, place, status, index, again>>

Rows == {"pending", "ready", "failed"}

Init == /\ base = [b \in Bases |-> "absent"]
        /\ place = [d \in Documents |-> None]
        /\ status = [d \in Documents |-> "absent"]
        /\ index = [d \in Documents |-> {}]
        /\ again = {}

Create(b) ==
  /\ base[b] = "absent"
  /\ base' = [base EXCEPT ![b] = "present"]
  /\ UNCHANGED <<place, status, index, again>>

Register(d, b, c) ==
  /\ status[d] = "absent" /\ base[b] = "present"
  /\ \A e \in Documents : status[e] \in Rows => place[e] # <<b, c>>
  /\ status' = [status EXCEPT ![d] = "pending"]
  /\ place' = [place EXCEPT ![d] = <<b, c>>]
  /\ UNCHANGED <<base, index, again>>

Repeat(d) ==
  /\ status[d] \in Rows /\ d \notin again
  /\ again' = again \cup {d}
  /\ UNCHANGED <<base, place, status, index>>

(* The document becomes searchable, or fails, which may cost an index that *)
(* an earlier answer gave it.                                              *)
Settle(d) ==
  /\ status[d] = "pending" \/ (status[d] \in Rows /\ d \in again)
  /\ \/ /\ status' = [status EXCEPT ![d] = "ready"]
        /\ \E i \in Indexes : index' = [index EXCEPT ![d] = {i}]
     \/ /\ status' = [status EXCEPT ![d] = "failed"]
        /\ index' \in {index, [index EXCEPT ![d] = {}]}
  /\ UNCHANGED <<base, place, again>>

Erase(b) ==
  LET gone == {d \in Documents : status[d] \in Rows /\ place[d][1] = b} IN
  /\ base[b] = "present"
  /\ base' = [base EXCEPT ![b] = "deleted"]
  /\ status' = [d \in Documents |-> IF d \in gone THEN "deleted" ELSE status[d]]
  /\ index' = [d \in Documents |-> IF d \in gone THEN {} ELSE index[d]]
  /\ UNCHANGED <<place, again>>

Next ==
  \/ \E b \in Bases : Create(b) \/ Erase(b)
  \/ \E d \in Documents :
       \/ \E b \in Bases, c \in Contents : Register(d, b, c)
       \/ Repeat(d) \/ Settle(d)

Spec == Init /\ [][Next]_vars
=============================================================================
