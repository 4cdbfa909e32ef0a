------------------------------ MODULE Accounts ------------------------------
(***************************************************************************)
(* The rows of users and of integration_connections, under overlapping     *)
(* calls: registration (auth/routes.py) behind the rate limit, the change  *)
(* of the email address and the deletion of the account                    *)
(* (settings/routes.py), connecting and disconnecting an external provider *)
(* (integrations.py).                                                      *)
(*                                                                         *)
(* Every call reads what it needs, decides, and writes at its commit; an   *)
(* UPDATE holds only the columns whose value differs from the one that was *)
(* loaded.  PostgreSQL runs at READ COMMITTED and its unique constraints   *)
(* wait for a conflicting row that is not committed yet.                   *)
(*                                                                         *)
(* A call that its checks refuse changes nothing and has no action.        *)
(* Display names go with the address; of a provider's row the label and    *)
(* the time of the last check are left out, so that verify_integration     *)
(* changes nothing.                                                        *)
(***************************************************************************)
EXTENDS Naturals, FiniteSets

CONSTANTS Accounts, Emails,
          Tokens,      \* secrets of the provider, no two with the same hint
          Calls,       \* calls of these endpoints, each made once
          None,        \* no address ("deleted+...@invalid.local"), no row, nothing wanted
          Clients, Limit, FAIL_CLOSED \* of RateLimit

Row == [id : Calls \cup {None}, secret : Tokens, hint : Tokens]

ASSUME LimitAssumption == Limit \in Nat \ {0}
ASSUME FailureAssumption == FAIL_CLOSED \in BOOLEAN
ASSUME NoneAssumption == None \notin Accounts \cup Emails \cup Tokens \cup Calls \cup Row

VARIABLES
  counter, expires, gate, seen, window, orphaned, \* RateLimit, a call a request
  state,  \* account -> absent, active or deleted
  email,  \* account -> its address
  link,   \* account -> its row of integration_connections
  kind, step, who, want, \* call -> what it is, where it stands, its account and argument
  held,   \* call -> the row of integration_connections it loaded
  late,   \* history: the accounts that took an address after they were deleted
  mixed   \* history: the accounts whose row was updated from an outdated copy

limiter == <<counter, expires, gate, seen, window, orphaned>>
rows == <<state, email, link>>
task == <<kind, step, who, want, held>>
vars == <<limiter, rows, task, late, mixed>>

Limiter == INSTANCE RateLimit WITH Requests <- Calls

TypeOK ==
  /\ Limiter!TypeOK
  /\ state \in [Accounts -> {"absent", "active", "deleted"}]
  /\ email \in [Accounts -> Emails \cup {None}]
  /\ \A a \in Accounts : state[a] = "active" => email[a] # None
  /\ link \in [Accounts -> Row \cup {None}]
  /\ kind \in [Calls -> {"none", "register", "email", "delete", "connect", "disconnect"}]
  /\ step \in [Calls -> {"idle", "checked", "inserted", "done"}]
  /\ who \in [Calls -> Accounts \cup {None}]
  /\ want \in [Calls -> Emails \cup Tokens \cup {None}]
  /\ held \in [Calls -> Row \cup {None}]
  /\ late \subseteq Accounts /\ mixed \subseteq Accounts

(* Some accounts exist, with addresses of their own and a provider or none.*)
Init ==
  /\ Limiter!Init
  /\ state \in [Accounts -> {"absent", "active"}]
  /\ email \in {e \in [Accounts -> Emails \cup {None}] :
                  /\ \A a \in Accounts : (e[a] = None) <=> (state[a] = "absent")
                  /\ \A a, b \in Accounts : a # b /\ e[a] = e[b] => e[a] = None}
  /\ link \in {l \in [Accounts -> {None} \cup {[id |-> None, secret |-> t, hint |-> t] : t \in Tokens}] :
                 \A a \in Accounts : state[a] = "absent" => l[a] = None}
  /\ kind = [r \in Calls |-> "none"] /\ step = [r \in Calls |-> "idle"]
  /\ who = [r \in Calls |-> None] /\ want = [r \in Calls |-> None]
  /\ held = [r \in Calls |-> None]
  /\ late = {} /\ mixed = {}

-----------------------------------------------------------------------------
(* What a statement sees, and how a call goes on                           *)

Taken(e) == \E a \in Accounts : email[a] = e

(* A row that is inserted and not committed makes others wait.             *)
Claimed(e) == \E s \in Calls : step[s] = "inserted" /\ want[s] = e

(* current_user lets the call in.  Calls that are not counted stay outside *)
(* of the limiter.                                                         *)
Begin(r, what, a, w) ==
  /\ step[r] = "idle" /\ gate[r] = "outside" /\ state[a] = "active"
  /\ kind' = [kind EXCEPT ![r] = what]
  /\ step' = [step EXCEPT ![r] = "checked"]
  /\ who' = [who EXCEPT ![r] = a]
  /\ want' = [want EXCEPT ![r] = w]
  /\ held' = [held EXCEPT ![r] = link[a]]
  /\ UNCHANGED <<limiter, rows, late, mixed>>

Commits(r, what) ==
  /\ kind[r] = what /\ step[r] = "checked"
  /\ step' = [step EXCEPT ![r] = "done"]
  /\ UNCHANGED <<limiter, kind, who, want, held>>

(* A value is refused, a constraint is violated, the database fails.       *)
Fail(r) ==
  /\ step[r] \in {"checked", "inserted"}
  /\ step' = [step EXCEPT ![r] = "done"]
  /\ UNCHANGED <<limiter, rows, kind, who, want, held, late, mixed>>

-----------------------------------------------------------------------------
(* Accounts                                                                *)

(* The limiter decides on sign-ups (and sign-ins, which change no row of   *)
(* these) before anything else happens.                                    *)
Attempt(r) ==
  /\ step[r] = "idle"
  /\ \/ \E c \in Clients : Limiter!Count(r, c) \/ Limiter!SetExpiry(r, c)
     \/ Limiter!Decide(r) \/ Limiter!Break(r)
  /\ UNCHANGED <<rows, task, late, mixed>>

Elapse == (\E c \in Clients : Limiter!Elapse(c)) /\ UNCHANGED <<rows, task, late, mixed>>

(* register looks the address up.                                          *)
Register(r) ==
  /\ gate[r] = "admitted" /\ step[r] = "idle"
  /\ \E e \in Emails : ~Taken(e) /\ want' = [want EXCEPT ![r] = e]
  /\ kind' = [kind EXCEPT ![r] = "register"]
  /\ step' = [step EXCEPT ![r] = "checked"]
  /\ UNCHANGED <<limiter, rows, who, held, late, mixed>>

(* Fault: the address has no unique constraint.                            *)
InsertAnyway(r) ==
  /\ kind[r] = "register" /\ step[r] = "checked"
  /\ \E a \in Accounts :
       /\ state[a] = "absent" /\ \A s \in Calls : who[s] # a
       /\ who' = [who EXCEPT ![r] = a]
  /\ step' = [step EXCEPT ![r] = "inserted"]
  /\ UNCHANGED <<limiter, rows, kind, want, held, late, mixed>>

(* The flush that inserts the user.                                        *)
Insert(r) ==
  /\ kind[r] = "register" /\ step[r] = "checked"
  /\ ~Taken(want[r]) /\ ~Claimed(want[r])
  /\ \E a \in Accounts :
       /\ state[a] = "absent" /\ \A s \in Calls : who[s] # a
       /\ who' = [who EXCEPT ![r] = a]
  /\ step' = [step EXCEPT ![r] = "inserted"]
  /\ UNCHANGED <<limiter, rows, kind, want, held, late, mixed>>

CommitRegister(r) ==
  /\ step[r] = "inserted"
  /\ state' = [state EXCEPT ![who[r]] = "active"]
  /\ email' = [email EXCEPT ![who[r]] = want[r]]
  /\ step' = [step EXCEPT ![r] = "done"]
  /\ UNCHANGED <<limiter, link, kind, who, want, held, late, mixed>>

(* update_profile looks the new address up.                                *)
ChangeEmail(r, a) == \E e \in Emails : ~Taken(e) /\ Begin(r, "email", a, e)

(* The UPDATE finds the row by its id, whatever has become of the account. *)
CommitEmail(r) ==
  /\ Commits(r, "email")
  /\ ~Taken(want[r]) /\ ~Claimed(want[r])
  /\ email' = [email EXCEPT ![who[r]] = want[r]]
  /\ late' = IF state[who[r]] = "deleted" THEN late \cup {who[r]} ELSE late
  /\ UNCHANGED <<state, link, mixed>>

DeleteAccount(r, a) == Begin(r, "delete", a, None)

(* Fault: the address is given up and the account stays active.            *)
CommitDeleteStillActive(r) ==
  /\ Commits(r, "delete")
  /\ email' = [email EXCEPT ![who[r]] = None]
  /\ UNCHANGED <<state, link, late, mixed>>

(* The row stays, without an address; the provider's row stays as it is.   *)
CommitDelete(r) ==
  /\ Commits(r, "delete")
  /\ state' = [state EXCEPT ![who[r]] = "deleted"]
  /\ email' = [email EXCEPT ![who[r]] = None]
  /\ UNCHANGED <<link, late, mixed>>

-----------------------------------------------------------------------------
(* Integrations                                                            *)

Connect(r, a) == \E t \in Tokens : Begin(r, "connect", a, t)

(* Whether the row that was loaded is still there.                         *)
Found(r) == held[r] # None /\ link[who[r]] # None /\ link[who[r]].id = held[r].id

(* Fault: a new secret keeps the hint of the row.                          *)
CommitConnectSecret(r) ==
  LET a == who[r] IN
  /\ Commits(r, "connect")
  /\ \/ /\ held[r] = None /\ link[a] = None
        /\ link' = [link EXCEPT ![a] = [id |-> r, secret |-> want[r], hint |-> want[r]]]
     \/ /\ Found(r)
        /\ link' = [link EXCEPT ![a].secret = want[r]]
  /\ mixed' = IF link[a] = held[r] THEN mixed \ {a} ELSE mixed \cup {a}
  /\ UNCHANGED <<state, email, late>>

(* An insert, where no row was found; else an update of the secret, and of *)
(* the hint where it is not the one that was loaded.                       *)
CommitConnect(r) ==
  LET a == who[r] IN
  /\ Commits(r, "connect")
  /\ \/ /\ held[r] = None /\ link[a] = None
        /\ link' = [link EXCEPT ![a] = [id |-> r, secret |-> want[r], hint |-> want[r]]]
     \/ /\ Found(r)
        /\ link' = [link EXCEPT ![a].secret = want[r],
                                ![a].hint = IF held[r].hint # want[r] THEN want[r] ELSE @]
  /\ mixed' = IF link[a] = held[r] THEN mixed \ {a} ELSE mixed \cup {a}
  /\ UNCHANGED <<state, email, late>>

Disconnect(r, a) == link[a] # None /\ Begin(r, "disconnect", a, None)

(* A DELETE of a row that is gone deletes nothing.                         *)
CommitDisconnect(r) ==
  /\ Commits(r, "disconnect")
  /\ link' = IF Found(r) THEN [link EXCEPT ![who[r]] = None] ELSE link
  /\ UNCHANGED <<state, email, late, mixed>>

Next ==
  \/ Elapse
  \/ \E r \in Calls :
       \/ Attempt(r) \/ Register(r) \/ Insert(r) \/ CommitRegister(r)
       \/ \E a \in Accounts : ChangeEmail(r, a) \/ DeleteAccount(r, a) \/ Connect(r, a) \/ Disconnect(r, a)
       \/ CommitEmail(r) \/ CommitDelete(r) \/ CommitConnect(r) \/ CommitDisconnect(r) \/ Fail(r)

Spec == Init /\ [][Next]_vars

-----------------------------------------------------------------------------
(* Properties                                                              *)

(* An address leads to one account, and to one that can be signed in to,   *)
(* so that whoever deleted an account can register again: registrations,   *)
(* changes and deletions check what others have not committed yet.  Not so *)
(* for a change of the address that overlapped the deletion of its         *)
(* account: it is stored in the deleted row, and nobody can use it again.  *)
EmailLeadsToAccount ==
  \A a \in Accounts : email[a] # None =>
    /\ state[a] = "active" \/ a \in late
    /\ \A b \in Accounts \ {a} : email[b] # email[a]

(* The hint a user sees is that of the secret that is stored, though a     *)
(* connect writes only what it changed: unless the row was changed between *)
(* its read and its commit, which a later connect on its own makes good.   *)
HintIsOfSecret ==
  \A a \in Accounts : link[a] # None /\ a \notin mixed => link[a].hint = link[a].secret

(* No window admits more attempts than the limit, and every window ends.   *)
LimitHolds == Limiter!LimitHolds
=============================================================================
