------------------------------ MODULE Sessions ------------------------------
(***************************************************************************)
(* Refresh sessions (auth/routes.py, auth/dependencies.py,                 *)
(* db/repositories.py and the session endpoints of settings/routes.py).    *)
(*                                                                         *)
(* A session row holds the hash of one refresh token; the rows that a      *)
(* login and its refreshes create form a family, to which access tokens    *)
(* are bound by their sid claim.  Every call below is one HTTP request and *)
(* one READ COMMITTED transaction: it reads, a statement takes a snapshot  *)
(* of the rows it revokes, waits for the locks on them, and commits.  A    *)
(* call creates at most one row, so rows and families are named by calls.  *)
(***************************************************************************)
CONSTANTS Users,   \* accounts
          Calls,   \* logins, refreshes, logouts and revocations, each made once
          None     \* no user, no call

ASSUME NoneAssumption == None \notin Users \cup Calls

VARIABLES
  account,   \* user -> active or deleted
  row,       \* call -> absent, live, or dead (revoked or expired): its row
  owner,     \* call -> the user it acts for, and of its row
  family,    \* call -> the family it acts on, or keeps, and of its row
  kind,      \* call -> the endpoint called
  pc,        \* call -> where it stands
  token,     \* call -> the row whose token a refresh exchanges
  snap,      \* call -> the rows its revoking statement saw
  held,      \* call -> the rows it has locked to revoke them
  beside,    \* call -> the refreshes of its family it started beside, if a refresh
  ended      \* families that were signed out (not merely rotated)

call == <<owner, family, kind, token, beside>>
vars == <<account, row, call, pc, snap, held, ended>>

Kinds == {"login", "refresh", "cleanup", "logout", "one", "others", "delete"}
Running == {"read", "waiting", "holding"}

TypeOK ==
  /\ account \in [Users -> {"active", "deleted"}]
  /\ row \in [Calls -> {"absent", "live", "dead"}]
  /\ owner \in [Calls -> Users \cup {None}]
  /\ family \in [Calls -> Calls \cup {None}]
  /\ kind \in [Calls -> Kinds \cup {"none"}]
  /\ pc \in [Calls -> {"idle", "done"} \cup Running]
  /\ token \in [Calls -> Calls \cup {None}]
  /\ snap \in [Calls -> SUBSET Calls]
  /\ held \in [Calls -> SUBSET Calls]
  /\ beside \in [Calls -> SUBSET Calls]
  /\ ended \in SUBSET Calls

Init ==
  /\ account = [u \in Users |-> "active"]
  /\ row = [c \in Calls |-> "absent"]
  /\ owner = [c \in Calls |-> None]
  /\ family = [c \in Calls |-> None]
  /\ kind = [c \in Calls |-> "none"]
  /\ pc = [c \in Calls |-> "idle"]
  /\ token = [c \in Calls |-> None]
  /\ snap = [c \in Calls |-> {}]
  /\ held = [c \in Calls |-> {}]
  /\ beside = [c \in Calls |-> {}]
  /\ ended = {}

Live == {s \in Calls : row[s] = "live"}

(* session_family_is_active: what current_user asks of an access token.    *)
FamilyIsActive(f) == \E s \in Live : family[s] = f

(* An access token of family f passes current_user.                        *)
Admitted(f, u) ==
  \E s \in Live : family[s] = f /\ owner[s] = u /\ account[u] = "active"

-----------------------------------------------------------------------------
(* The reads a call starts with                                            *)

RefreshesOf(f) == {c \in Calls : kind[c] = "refresh" /\ pc[c] \in Running /\ family[c] = f}

Start(c, k, u, f, t, where) ==
  /\ pc[c] = "idle"
  /\ kind' = [kind EXCEPT ![c] = k]
  /\ owner' = [owner EXCEPT ![c] = u]
  /\ family' = [family EXCEPT ![c] = f]
  /\ token' = [token EXCEPT ![c] = t]
  /\ beside' = [beside EXCEPT ![c] = IF k = "refresh" THEN RefreshesOf(f) ELSE {}]
  /\ pc' = [pc EXCEPT ![c] = where]
  /\ UNCHANGED <<account, row, snap, held, ended>>

(* Fault: a login goes on with a family that is there.                     *)
LoginIntoFamily(c, u) ==
  /\ account[u] = "active"
  /\ \E f \in {c} \cup {family[s] : s \in Live} : Start(c, "login", u, f, None, "holding")

(* The password matches an active account: a family of its own.            *)
Login(c, u) ==
  /\ account[u] = "active"
  /\ Start(c, "login", u, c, None, "holding")

(* Fault: the token is looked up by its hash alone, used ones included.    *)
RefreshAnyToken(c, t) ==
  /\ row[t] # "absent"
  /\ Start(c, IF account[owner[t]] = "active" THEN "refresh" ELSE "cleanup",
           owner[t], family[t], t, "read")

(* The token is good; if its account is not, the family is only revoked.   *)
Refresh(c, t) ==
  /\ row[t] = "live"
  /\ Start(c, IF account[owner[t]] = "active" THEN "refresh" ELSE "cleanup",
           owner[t], family[t], t, "read")

(* A logout with a token that is not good finds nothing to revoke.         *)
Logout(c, t) ==
  /\ row[t] = "live"
  /\ Start(c, "logout", owner[t], family[t], None, "read")

(* DELETE /settings/sessions/{id}, id one of the caller's own sessions.    *)
RevokeSession(c, s) ==
  /\ row[s] = "live"
  /\ \E f \in Calls : Admitted(f, owner[s])
  /\ Start(c, "one", owner[s], family[s], None, "read")

(* revoke-others, and change_password once the password is verified.       *)
RevokeOthers(c, f) ==
  \E u \in Users : Admitted(f, u) /\ Start(c, "others", u, f, None, "read")

DeleteAccount(c, f) ==
  \E u \in Users : Admitted(f, u) /\ Start(c, "delete", u, f, None, "read")

-----------------------------------------------------------------------------
(* Fault: the caller's own family is not spared.                           *)
DoomedWithCaller(c) ==
  CASE kind[c] \in {"others", "delete"} -> {s \in Live : owner[s] = owner[c]}
    [] OTHER                            -> {s \in Live : family[s] = family[c]}

(* The rows a call revokes                                                 *)
Doomed(c) ==
  CASE kind[c] = "others" -> {s \in Live : owner[s] = owner[c] /\ family[s] # family[c]}
    [] kind[c] = "delete" -> {s \in Live : owner[s] = owner[c]}
    [] OTHER              -> {s \in Live : family[s] = family[c]}

(* Fault: only the row whose token was given is revoked.                   *)
SnapshotOfToken(c) ==
  /\ pc[c] = "read"
  /\ snap' = [snap EXCEPT ![c] = IF kind[c] = "refresh" THEN Live \cap {token[c]} ELSE Doomed(c)]
  /\ pc' = [pc EXCEPT ![c] = "waiting"]
  /\ UNCHANGED <<account, row, call, held, ended>>

Snapshot(c) ==
  /\ pc[c] = "read"
  /\ snap' = [snap EXCEPT ![c] = Doomed(c)]
  /\ pc' = [pc EXCEPT ![c] = "waiting"]
  /\ UNCHANGED <<account, row, call, held, ended>>

(* Fault: the rows seen are never written.                                 *)
LockNothing(c) ==
  /\ pc[c] = "waiting"
  /\ \A d \in Calls \ {c} : held[d] \cap snap[c] = {}
  /\ pc' = [pc EXCEPT ![c] = "holding"]
  /\ UNCHANGED <<account, row, call, snap, held, ended>>

(* The statement waits for every row another call has locked; then it      *)
(* finds out which of the rows of its snapshot are still to be revoked.    *)
Lock(c) ==
  /\ pc[c] = "waiting"
  /\ \A d \in Calls \ {c} : held[d] \cap snap[c] = {}
  /\ held' = [held EXCEPT ![c] = snap[c] \cap Live]
  /\ pc' = [pc EXCEPT ![c] = "holding"]
  /\ UNCHANGED <<account, row, call, snap, ended>>

(* The families a commit signs out.                                        *)
SignedOut(c) ==
  CASE kind[c] \in {"logout", "one"}    -> {family[c]}
    [] kind[c] \in {"others", "delete"} -> {family[s] : s \in snap[c]}
    [] OTHER                            -> {}

Creates(c) == kind[c] \in {"login", "refresh"}

Commit(c) ==
  /\ pc[c] = "holding"
  /\ row' = [s \in Calls |-> IF s = c /\ Creates(c) THEN "live"
                             ELSE IF s \in held[c] THEN "dead" ELSE row[s]]
  /\ account' = [u \in Users |-> IF kind[c] = "delete" /\ u = owner[c]
                                 THEN "deleted" ELSE account[u]]
  /\ ended' = ended \cup SignedOut(c)
  /\ snap' = [snap EXCEPT ![c] = {}]
  /\ held' = [held EXCEPT ![c] = {}]
  /\ pc' = [pc EXCEPT ![c] = "done"]
  /\ UNCHANGED call

(* A call that raises, or whose process dies, rolls back.                  *)
Abort(c) ==
  /\ pc[c] \in Running
  /\ snap' = [snap EXCEPT ![c] = {}]
  /\ held' = [held EXCEPT ![c] = {}]
  /\ pc' = [pc EXCEPT ![c] = "done"]
  /\ UNCHANGED <<account, row, call, ended>>

(* Fault: expiry gets a state of its own, which no query knows.            *)
ExpireMarked(s) ==
  /\ row[s] = "live"
  /\ row' = [row EXCEPT ![s] = "expired"]
  /\ UNCHANGED <<account, call, pc, snap, held, ended>>

(* The lifetime of a refresh token ends.                                   *)
Expire(s) ==
  /\ row[s] = "live"
  /\ row' = [row EXCEPT ![s] = "dead"]
  /\ UNCHANGED <<account, call, pc, snap, held, ended>>

Progress(c) == Snapshot(c) \/ Lock(c) \/ Commit(c)

Begin(c) ==
  \/ \E u \in Users : Login(c, u)
  \/ \E t \in Calls : \/ Refresh(c, t) \/ Logout(c, t) \/ RevokeSession(c, t)
                      \/ RevokeOthers(c, t) \/ DeleteAccount(c, t)

Next == \E c \in Calls : Begin(c) \/ Progress(c) \/ Abort(c) \/ Expire(c)

Spec == Init /\ [][Next]_vars

-----------------------------------------------------------------------------
(* Properties                                                              *)

Exchanged(c) == kind[c] = "refresh" /\ row[c] # "absent" => row[token[c]] = "dead"

(* Rotation: once a refresh has created its row, the token it was given is *)
(* dead, whatever refreshes and revocations ran beside it (refresh revokes *)
(* the family before it adds to it).                                       *)
ExchangedIsDead == \A c \in Calls : Exchanged(c)

(* All the rows of a family are of one user, so that the sid of an access  *)
(* token never admits another account (refresh copies the owner of the     *)
(* record, session_family_is_active asks for both).                        *)
FamilyHasOneOwner ==
  \A s, t \in Calls :
    row[s] # "absent" /\ row[t] # "absent" /\ family[s] = family[t] => owner[s] = owner[t]

Overlapped(s, t) == s \in beside[t] \/ t \in beside[s]

(* A family has two good refresh tokens only if the refreshes that issued  *)
(* them overlapped (two tabs, or a client that asks again before it has an *)
(* answer), since refresh looks the token up without a lock.  One that     *)
(* starts later replaces every token of its family and adds none: asking   *)
(* again after the answer was lost never multiplies them.                  *)
SecondTokenWasRaced ==
  \A s, t \in Live : s # t /\ family[s] = family[t] => Overlapped(s, t)

RefreshUnderWay(f) == RefreshesOf(f) # {}

(* A family that was signed out with no refresh of it under way stays      *)
(* signed out: with none of its tokens does a later refresh even start.    *)
QuietSignOutIsFinal ==
  [][\A f \in ended :
       ~FamilyIsActive(f) /\ ~RefreshUnderWay(f) =>
         ~FamilyIsActive(f)' /\ ~RefreshUnderWay(f)']_vars

(* revoke-others and change_password leave the caller signed in: the       *)
(* commit of such a call takes no row of the family it was made from.      *)
CallerKeepsSession ==
  [][\A c \in Calls :
       kind[c] = "others" /\ pc[c] = "holding" /\ pc'[c] = "done" =>
         \A s \in Live : family[s] = family[c] => row'[s] = "live"]_vars

(* docs/API.md:79 says that revoking a session invalidates its access      *)
(* tokens immediately, and so does the comment in current_user: once a     *)
(* family is signed out, its access tokens are refused.                    *)
SignedOutStaysOut == \A f \in ended : ~FamilyIsActive(f)
=============================================================================
