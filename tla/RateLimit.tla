----------------------------- MODULE RateLimit -----------------------------
(***************************************************************************)
(* The fixed window of sign-in and sign-up attempts of one client address  *)
(* (RedisRateLimiter in security/rate_limit.py, used by the middleware for *)
(* POST /auth/register and /auth/login).                                   *)
(*                                                                         *)
(* A request increments the counter of its client; the one that finds 1    *)
(* sets the expiry, in a command of its own; any of the commands may fail  *)
(* and the process may die between them.  Redis takes a counter away when  *)
(* its expiry has passed.                                                  *)
(***************************************************************************)
EXTENDS Naturals, FiniteSets

CONSTANTS Clients,    \* client addresses
          Requests,   \* requests to the protected endpoints, each made once
          Limit,      \* auth_rate_limit_attempts
          FAIL_CLOSED \* staging and production refuse when Redis fails

VARIABLES
  counter,  \* client -> the number in Redis, 0 when there is none
  expires,  \* client -> whether the number has an expiry
  gate,     \* request -> where it stands
  seen,     \* request -> the count its increment returned
  window,   \* history: client -> the requests counted since the number appeared
  orphaned  \* history: the clients whose number lost the request that sets its expiry

vars == <<counter, expires, gate, seen, window, orphaned>>

TypeOK ==
  /\ counter \in [Clients -> Nat]
  /\ expires \in [Clients -> BOOLEAN]
  /\ gate \in [Requests -> {"outside", "counted", "timed", "admitted", "refused"}]
  /\ seen \in [Requests -> Nat]
  /\ window \in [Clients -> SUBSET Requests]
  /\ orphaned \subseteq Clients

Init ==
  /\ counter = [c \in Clients |-> 0]
  /\ expires = [c \in Clients |-> FALSE]
  /\ gate = [r \in Requests |-> "outside"]
  /\ seen = [r \in Requests |-> 0]
  /\ window = [c \in Clients |-> {}]
  /\ orphaned = {}

(* INCR.                                                                   *)
Count(r, c) ==
  /\ gate[r] = "outside"
  /\ counter' = [counter EXCEPT ![c] = @ + 1]
  /\ seen' = [seen EXCEPT ![r] = counter'[c]]
  /\ gate' = [gate EXCEPT ![r] = "counted"]
  /\ window' = [window EXCEPT ![c] = @ \cup {r}]
  /\ UNCHANGED <<expires, orphaned>>

(* EXPIRE, by the request that found 1.                                    *)
SetExpiry(r, c) ==
  /\ gate[r] = "counted" /\ seen[r] = 1 /\ r \in window[c]
  /\ expires' = [expires EXCEPT ![c] = TRUE]
  /\ gate' = [gate EXCEPT ![r] = "timed"]
  /\ UNCHANGED <<counter, seen, window, orphaned>>

(* Fault: the comparison lets one too many through.                        *)
DecideOneMore(r) ==
  /\ gate[r] = "timed" \/ (gate[r] = "counted" /\ seen[r] # 1)
  /\ gate' = [gate EXCEPT ![r] = IF seen[r] <= Limit + 1 THEN "admitted" ELSE "refused"]
  /\ UNCHANGED <<counter, expires, seen, window, orphaned>>

(* TTL, and the decision.                                                  *)
Decide(r) ==
  /\ gate[r] = "timed" \/ (gate[r] = "counted" /\ seen[r] # 1)
  /\ gate' = [gate EXCEPT ![r] = IF seen[r] <= Limit THEN "admitted" ELSE "refused"]
  /\ UNCHANGED <<counter, expires, seen, window, orphaned>>

(* A command of Redis fails, or the process dies, which answers nothing.   *)
Break(r) ==
  /\ gate[r] \in {"outside", "counted", "timed"}
  /\ \E end \in IF FAIL_CLOSED THEN {"refused"} ELSE {"refused", "admitted"} :
       gate' = [gate EXCEPT ![r] = end]
  /\ orphaned' = orphaned \cup
       {c \in Clients : gate[r] = "counted" /\ seen[r] = 1 /\ r \in window[c]}
  /\ UNCHANGED <<counter, expires, seen, window>>

(* Redis takes the number away.                                            *)
Elapse(c) ==
  /\ expires[c]
  /\ counter' = [counter EXCEPT ![c] = 0]
  /\ expires' = [expires EXCEPT ![c] = FALSE]
  /\ window' = [window EXCEPT ![c] = {}]
  /\ UNCHANGED <<gate, seen, orphaned>>

Next ==
  \/ \E c \in Clients : Elapse(c)
  \/ \E r \in Requests :
       \/ \E c \in Clients : Count(r, c) \/ SetExpiry(r, c)
       \/ Decide(r) \/ Break(r)

Spec == Init /\ [][Next]_vars

-----------------------------------------------------------------------------
(* Properties                                                              *)

(* In production no window admits more attempts than the limit, however    *)
(* the commands of its requests interleave; and every window ends: a       *)
(* number without an expiry has a request about to set one, unless that    *)
(* request broke down, which leaves the client counted for ever.           *)
LimitHolds ==
  \A c \in Clients :
    /\ FAIL_CLOSED => Cardinality({r \in window[c] : gate[r] = "admitted"}) <= Limit
    /\ counter[c] > 0 /\ ~expires[c] /\ c \notin orphaned =>
         \E r \in window[c] : gate[r] = "counted" /\ seen[r] = 1
=============================================================================
