--------------------------- MODULE Sessions_proofs ---------------------------
(***************************************************************************)
(* Theorems about Sessions, for any sets of users and calls.  The          *)
(* invariant says what a call knows between its statements: in particular, *)
(* that a refresh that holds its locks holds the row it exchanges, unless  *)
(* another call has revoked it, that every row belongs to the owner of the *)
(* login its family is named after, that only a login ever acts on a       *)
(* family that has no row yet: its own, and that a refresh is about to     *)
(* revoke every token of its family that no overlapping refresh issued.    *)
(***************************************************************************)
EXTENDS Sessions, TLAPS

CallAt(c) ==
  /\ pc[c] = "idle" => kind[c] = "none" /\ snap[c] = {} /\ held[c] = {}
  /\ pc[c] # "idle" => owner[c] \in Users /\ family[c] \in Calls
  /\ row[c] # "absent" => pc[c] = "done" /\ Creates(c)
  /\ Creates(c) => /\ family[c] \in Calls /\ kind[family[c]] = "login"
                   /\ owner[family[c]] = owner[c]
  /\ kind[c] = "refresh" =>
       /\ token[c] \in Calls /\ row[token[c]] # "absent"
       /\ family[token[c]] = family[c]
       /\ pc[c] = "waiting" /\ row[token[c]] = "live" => token[c] \in snap[c]
       /\ pc[c] = "holding" /\ row[token[c]] = "live" => token[c] \in held[c]
  /\ kind[c] = "login" => family[c] = c
  /\ pc[c] # "idle" => kind[c] = "login" \/ row[family[c]] # "absent"
  /\ \A s \in snap[c] \cup held[c] : row[s] # "absent"
  /\ kind[c] = "others" => \A s \in snap[c] \cup held[c] : family[s] # family[c]

(* What a refresh c knows of another row d of its family: it overlapped    *)
(* the refresh that made it, or is about to revoke it.                     *)
RaceAt(c, d) ==
  kind[c] = "refresh" /\ family[c] = family[d] /\ ~Overlapped(c, d) =>
    /\ ~(kind[d] = "refresh" /\ pc[c] \in Running /\ pc[d] \in Running)
    /\ row[d] = "live" =>
         /\ row[c] # "live"
         /\ (pc[c] = "waiting" => d \in snap[c])
         /\ (pc[c] = "holding" => d \in held[c])

IInv ==
  /\ TypeOK
  /\ \A c \in Calls : CallAt(c)
  /\ \A c, d \in Calls : c # d => RaceAt(c, d)
  /\ \A f \in ended : row[f] # "absent"
  /\ ExchangedIsDead

LEMMA TypeInductive == IInv /\ [Next]_vars => TypeOK'
<1> USE DEF TypeOK, Kinds, Running, call
<1> SUFFICES ASSUME IInv, TypeOK, [Next]_vars PROVE TypeOK'
  BY DEF IInv
<1>1. ASSUME NEW c \in Calls, Begin(c) PROVE TypeOK'
  <2>1. ASSUME NEW k \in Kinds, NEW u \in Users \cup {None}, NEW f \in Calls \cup {None},
               NEW t \in Calls \cup {None}, NEW w \in Running, Start(c, k, u, f, t, w)
        PROVE  TypeOK'
    BY <2>1 DEF Start, RefreshesOf
  <2>2. ASSUME NEW u \in Users, Login(c, u) PROVE TypeOK'
    BY <2>1, <2>2 DEF Login
  <2>3. ASSUME NEW t \in Calls, Refresh(c, t) PROVE TypeOK'
    BY <2>1, <2>3 DEF Refresh
  <2>4. ASSUME NEW t \in Calls, Logout(c, t) \/ RevokeSession(c, t) PROVE TypeOK'
    BY <2>1, <2>4 DEF Logout, RevokeSession
  <2>5. ASSUME NEW f \in Calls, RevokeOthers(c, f) \/ DeleteAccount(c, f) PROVE TypeOK'
    BY <2>1, <2>5 DEF RevokeOthers, DeleteAccount
  <2> QED
    BY <1>1, <2>2, <2>3, <2>4, <2>5 DEF Begin
<1>2. ASSUME NEW c \in Calls, Snapshot(c) PROVE TypeOK'
  <2>1. Doomed(c) \subseteq Calls
    BY DEF Doomed, Live
  <2> QED
    BY <1>2, <2>1 DEF Snapshot
<1>3. ASSUME NEW c \in Calls, Lock(c) PROVE TypeOK'
  BY <1>3 DEF Lock
<1>4. ASSUME NEW c \in Calls, Commit(c) PROVE TypeOK'
  <2>1. family[c] \in Calls /\ \A s \in snap[c] : family[s] \in Calls
    BY <1>4 DEF IInv, CallAt, Commit
  <2>2. SignedOut(c) \subseteq Calls
    BY <2>1 DEF SignedOut
  <2> QED
    BY <1>4, <2>2 DEF Commit
<1>5. ASSUME NEW c \in Calls, Abort(c) PROVE TypeOK'
  BY <1>5 DEF Abort
<1>6. ASSUME NEW c \in Calls, Expire(c) PROVE TypeOK'
  BY <1>6 DEF Expire
<1>7. CASE UNCHANGED vars
  BY <1>7 DEF vars
<1> QED
  BY <1>1, <1>2, <1>3, <1>4, <1>5, <1>6, <1>7 DEF Next, Progress

(* What is known of a call survives the reads another call, or the same    *)
(* call, starts with.                                                      *)
LEMMA StartKeeps ==
  ASSUME IInv, NEW c \in Calls, NEW q \in Calls, Begin(c)
  PROVE  CallAt(q)'
<1> USE NoneAssumption DEF IInv, TypeOK, Kinds, Creates, Start, Live
<1>1. pc[c] = "idle" /\ row[c] = "absent" /\ kind[c] = "none"
  BY DEF Begin, Login, Refresh, Logout, RevokeSession, RevokeOthers, DeleteAccount, CallAt
<1>2. CASE q # c
  <2>2. CallAt(q)
    OBVIOUS
  <2>1. /\ Creates(q) => family[q] # c
        /\ kind[q] = "refresh" => token[q] # c
        /\ c \notin snap[q] \cup held[q]
    BY <1>1, <2>2 DEF CallAt
  <2>3. /\ UNCHANGED <<row, snap, held>>
        /\ \A d \in Calls \ {c} : /\ pc'[d] = pc[d] /\ kind'[d] = kind[d]
                                 /\ owner'[d] = owner[d] /\ family'[d] = family[d]
                                 /\ token'[d] = token[d]
    BY DEF Begin, Login, Refresh, Logout, RevokeSession, RevokeOthers, DeleteAccount
  <2> QED
    BY <1>2, <2>1, <2>2, <2>3 DEF CallAt
<1>3. CASE q = c
  <2>0. CallAt(c)
    OBVIOUS
  <2>1. ASSUME NEW u \in Users, Login(c, u) PROVE CallAt(c)'
    BY <1>1, <2>0, <2>1 DEF Login, CallAt
  <2>2. ASSUME NEW t \in Calls, Refresh(c, t) PROVE CallAt(c)'
    <3>1. CallAt(t) /\ t # c /\ family[t] # c
      BY <1>1, <2>2 DEF Refresh, CallAt
    <3> QED
      BY <1>1, <2>0, <2>2, <3>1 DEF Refresh, CallAt
  <2>3. ASSUME NEW t \in Calls, Logout(c, t) \/ RevokeSession(c, t) PROVE CallAt(c)'
    <3>1. CallAt(t)
      OBVIOUS
    <3> QED
      BY <1>1, <2>0, <2>3, <3>1 DEF Logout, RevokeSession, CallAt
  <2>4. ASSUME NEW f \in Calls, RevokeOthers(c, f) \/ DeleteAccount(c, f) PROVE CallAt(c)'
    <3>1. \A u \in Users : Admitted(f, u) => row[f] # "absent"
      BY DEF Admitted, CallAt
    <3> QED
      BY <1>1, <2>0, <2>4, <3>1 DEF RevokeOthers, DeleteAccount, CallAt
  <2> QED
    BY <1>3, <2>1, <2>2, <2>3, <2>4 DEF Begin
<1> QED
  BY <1>2, <1>3

LEMMA CallInductive == IInv /\ [Next]_vars => \A q \in Calls : CallAt(q)'
<1> SUFFICES ASSUME IInv, [Next]_vars, NEW q \in Calls PROVE CallAt(q)'
  OBVIOUS
<1>1. ASSUME NEW c \in Calls, Begin(c) PROVE CallAt(q)'
  BY <1>1, StartKeeps
<1>0. CallAt(q) /\ TypeOK
  BY DEF IInv
<1> USE <1>0 DEF TypeOK, Kinds, Creates, CallAt, call
<1>2. ASSUME NEW c \in Calls, Snapshot(c) PROVE CallAt(q)'
  <2>1. \A s \in Doomed(c) : row[s] # "absent"
    BY DEF Doomed, Live
  <2>2. kind[c] = "refresh" /\ row[token[c]] = "live" => token[c] \in Doomed(c)
    BY DEF IInv, Doomed, Live
  <2>3. kind[c] = "others" => \A s \in Doomed(c) : family[s] # family[c]
    BY DEF Doomed
  <2> QED
    BY <1>2, <2>1, <2>2, <2>3 DEF Snapshot
<1>3. ASSUME NEW c \in Calls, Lock(c) PROVE CallAt(q)'
  BY <1>3 DEF Lock, Live
<1>4. ASSUME NEW c \in Calls, Commit(c) PROVE CallAt(q)'
  BY <1>4 DEF Commit, IInv
<1>5. ASSUME NEW c \in Calls, Abort(c) PROVE CallAt(q)'
  BY <1>5 DEF Abort, Running
<1>6. ASSUME NEW c \in Calls, Expire(c) PROVE CallAt(q)'
  BY <1>6 DEF Expire
<1>7. CASE UNCHANGED vars
  BY <1>7 DEF vars
<1> QED
  BY <1>1, <1>2, <1>3, <1>4, <1>5, <1>6, <1>7 DEF Next, Progress

LEMMA ExchangedInductive == IInv /\ [Next]_vars => ExchangedIsDead'
<1> SUFFICES ASSUME IInv, [Next]_vars, NEW q \in Calls PROVE Exchanged(q)'
  BY DEF ExchangedIsDead
<1>0. CallAt(q) /\ Exchanged(q) /\ TypeOK
  BY DEF IInv, ExchangedIsDead
<1> USE <1>0 DEF TypeOK, Kinds, Creates, CallAt, Exchanged, call
<1>1. ASSUME NEW c \in Calls, Begin(c) PROVE Exchanged(q)'
  <2>1. CallAt(c) /\ pc[c] = "idle" /\ UNCHANGED row
    BY <1>1 DEF IInv, Begin, Login, Refresh, Logout, RevokeSession, RevokeOthers,
                DeleteAccount, Start
  <2>2. q # c => kind'[q] = kind[q] /\ token'[q] = token[q]
    BY <1>1 DEF Begin, Login, Refresh, Logout, RevokeSession, RevokeOthers,
                DeleteAccount, Start
  <2> QED
    BY <2>1, <2>2
<1>2. ASSUME NEW c \in Calls, Snapshot(c) \/ Lock(c) \/ Abort(c) PROVE Exchanged(q)'
  BY <1>2 DEF Snapshot, Lock, Abort
<1>3. ASSUME NEW c \in Calls, Commit(c) PROVE Exchanged(q)'
  <2>1. row[c] = "absent" /\ (\A s \in held[c] : row[s] # "absent")
    BY <1>3 DEF Commit, IInv
  <2>2. CASE q = c
    BY <1>3, <2>1, <2>2 DEF Commit
  <2>3. CASE q # c
    <3>1. row'[q] # "absent" => row[q] # "absent"
      BY <1>3, <2>1, <2>3 DEF Commit
    <3>2. \A s \in Calls : row[s] = "dead" => row'[s] = "dead"
      BY <1>3, <2>1 DEF Commit
    <3> QED
      BY <1>3, <3>1, <3>2 DEF Commit
  <2> QED
    BY <2>2, <2>3
<1>4. ASSUME NEW c \in Calls, Expire(c) PROVE Exchanged(q)'
  BY <1>4 DEF Expire
<1>5. CASE UNCHANGED vars
  BY <1>5 DEF vars
<1> QED
  BY <1>1, <1>2, <1>3, <1>4, <1>5 DEF Next, Progress

LEMMA RaceInductive == IInv /\ [Next]_vars => \A p, q \in Calls : p # q => RaceAt(p, q)'
<1> SUFFICES ASSUME IInv, [Next]_vars, NEW p \in Calls, NEW q \in Calls, p # q
             PROVE  RaceAt(p, q)'
  OBVIOUS
<1>0. CallAt(p) /\ CallAt(q) /\ RaceAt(p, q) /\ RaceAt(q, p) /\ TypeOK
  BY DEF IInv
<1> USE <1>0 DEF TypeOK, RaceAt, Overlapped, Running, call
<1>1. ASSUME NEW c \in Calls, Begin(c) PROVE RaceAt(p, q)'
  <2>1. /\ pc[c] = "idle" /\ row[c] = "absent" /\ UNCHANGED <<row, snap, held>>
        /\ \A d \in Calls \ {c} : /\ pc'[d] = pc[d] /\ kind'[d] = kind[d]
                                 /\ family'[d] = family[d] /\ beside'[d] = beside[d]
        /\ pc'[c] \in {"read", "holding"} /\ (kind'[c] = "refresh" => pc'[c] = "read")
        /\ kind'[c] = "refresh" => beside'[c] = RefreshesOf(family'[c])
    <3>1. CallAt(c)
      BY DEF IInv
    <3> QED
      BY <1>1, <3>1 DEF CallAt, Creates, Begin, Login, Refresh, Logout, RevokeSession,
                        RevokeOthers, DeleteAccount, Start
  <2>2. CASE p = c
    BY <2>1, <2>2 DEF RefreshesOf
  <2>3. CASE q = c
    BY <2>1, <2>3 DEF RefreshesOf
  <2>4. CASE p # c /\ q # c
    BY <2>1, <2>4
  <2> QED
    BY <2>2, <2>3, <2>4
<1>2. ASSUME NEW c \in Calls, Snapshot(c) PROVE RaceAt(p, q)'
  BY <1>2 DEF Snapshot, Doomed, Live
<1>3. ASSUME NEW c \in Calls, Lock(c) PROVE RaceAt(p, q)'
  BY <1>3 DEF Lock, Live
<1>4. ASSUME NEW c \in Calls, Commit(c) PROVE RaceAt(p, q)'
  <2>1. /\ kind' = kind /\ family' = family /\ beside' = beside
        /\ pc[c] = "holding" /\ pc'[c] = "done"
        /\ \A d \in Calls \ {c} : /\ pc'[d] = pc[d] /\ snap'[d] = snap[d]
                                 /\ held'[d] = held[d]
                                 /\ (row'[d] = "live" => row[d] = "live" /\ d \notin held[c])
    BY <1>4 DEF Commit
  <2>2. row[c] = "absent" /\ (row'[c] = "live" => Creates(c))
    <3>1. CallAt(c)
      BY DEF IInv
    <3> QED
      BY <1>4, <3>1 DEF Commit, CallAt
  <2>3. CASE p = c
    BY <2>1, <2>3
  <2>4. CASE q = c
    <3>1. kind[c] = "login" => family[c] = c
      BY <2>4 DEF CallAt
    <3>2. kind[p] = "refresh" /\ family[p] = c => row[p] # "live" /\ pc[p] = "idle"
      BY <2>2, <2>4 DEF CallAt
    <3> QED
      BY <2>1, <2>2, <2>4, <3>1, <3>2 DEF Creates
  <2>5. CASE p # c /\ q # c
    BY <2>1, <2>5
  <2> QED
    BY <2>3, <2>4, <2>5
<1>5. ASSUME NEW c \in Calls, Abort(c) PROVE RaceAt(p, q)'
  BY <1>5 DEF Abort
<1>6. ASSUME NEW c \in Calls, Expire(c) PROVE RaceAt(p, q)'
  BY <1>6 DEF Expire
<1>7. CASE UNCHANGED vars
  BY <1>7 DEF vars
<1> QED
  BY <1>1, <1>2, <1>3, <1>4, <1>5, <1>6, <1>7 DEF Next, Progress

LEMMA EndedInductive == IInv /\ [Next]_vars => \A f \in ended' : row'[f] # "absent"
<1> SUFFICES ASSUME IInv, [Next]_vars PROVE \A f \in ended' : row'[f] # "absent"
  OBVIOUS
<1> USE DEF IInv, TypeOK, call
<1>1. ASSUME NEW c \in Calls, Begin(c) PROVE UNCHANGED <<row, ended>>
  BY <1>1 DEF Begin, Login, Refresh, Logout, RevokeSession, RevokeOthers,
              DeleteAccount, Start
<1>2. ASSUME NEW c \in Calls, Snapshot(c) \/ Lock(c) \/ Abort(c)
      PROVE  UNCHANGED <<row, ended>>
  BY <1>2 DEF Snapshot, Lock, Abort
<1>3. ASSUME NEW c \in Calls, Commit(c) PROVE \A f \in ended' : row'[f] # "absent"
  <2>1. \A s \in snap[c] : s \in Calls /\ row[family[s]] # "absent"
    BY DEF CallAt, Creates
  <2>2. kind[c] \in {"logout", "one"} => row[family[c]] # "absent"
    BY <1>3 DEF CallAt, Commit
  <2>3. \A f \in SignedOut(c) : f \in Calls /\ row[f] # "absent"
    BY <2>1, <2>2, <1>3 DEF SignedOut, CallAt, Commit
  <2>4. \A f \in Calls : row[f] # "absent" => row'[f] # "absent"
    BY <1>3 DEF Commit
  <2> QED
    BY <2>3, <2>4, <1>3 DEF Commit
<1>4. ASSUME NEW c \in Calls, Expire(c) PROVE \A f \in ended' : row'[f] # "absent"
  BY <1>4 DEF Expire
<1>5. CASE UNCHANGED vars
  BY <1>5 DEF vars
<1> QED
  BY <1>1, <1>2, <1>3, <1>4, <1>5 DEF Next, Progress

LEMMA InitIInv == Init => IInv
  BY DEF Init, IInv, TypeOK, Kinds, Running, CallAt, Creates, ExchangedIsDead, Exchanged, RaceAt

LEMMA NextIInv == IInv /\ [Next]_vars => IInv'
  BY TypeInductive, CallInductive, RaceInductive, EndedInductive, ExchangedInductive DEF IInv

THEOREM Invariance == Spec => []IInv
  BY InitIInv, NextIInv, PTL DEF Spec

(* The variables of Sessions keep their types.                             *)
THEOREM TypeCorrect == Spec => []TypeOK
<1>1. IInv => TypeOK
  BY DEF IInv
<1> QED
  BY <1>1, Invariance, PTL

(* A refresh token that was exchanged is dead, however many refreshes and  *)
(* revocations interleave with its exchange: refresh rotates.              *)
THEOREM Rotation == Spec => []ExchangedIsDead
<1>1. IInv => ExchangedIsDead
  BY DEF IInv
<1> QED
  BY <1>1, Invariance, PTL

(* A second good token of a family comes of an exchange that overlapped    *)
(* the one the first comes of.                                             *)
THEOREM OneTokenUnlessRaced == Spec => []SecondTokenWasRaced
<1>1. IInv => SecondTokenWasRaced
  BY DEF IInv, CallAt, Creates, RaceAt, Live, SecondTokenWasRaced, Overlapped
<1> QED
  BY <1>1, Invariance, PTL

(* A family never mixes accounts: the owner of a row is the owner of the   *)
(* login that started its family.                                          *)
THEOREM OneOwner == Spec => []FamilyHasOneOwner
<1>1. IInv => FamilyHasOneOwner
  BY DEF IInv, CallAt, FamilyHasOneOwner
<1> QED
  BY <1>1, Invariance, PTL

(* A family that is signed out while none of its refreshes is under way is *)
(* signed out for good.                                                    *)
THEOREM FinalSignOut == Spec => QuietSignOutIsFinal
<1>1. ASSUME IInv, [Next]_vars, NEW f \in ended, ~FamilyIsActive(f), ~RefreshUnderWay(f)
      PROVE  ~FamilyIsActive(f)' /\ ~RefreshUnderWay(f)'
  <2> USE <1>1 DEF IInv, TypeOK, FamilyIsActive, RefreshUnderWay, RefreshesOf, Live, Running, call
  <2>1. ASSUME NEW c \in Calls, Begin(c) PROVE ~FamilyIsActive(f)' /\ ~RefreshUnderWay(f)'
    <3>1. /\ row[c] = "absent" /\ UNCHANGED row
          /\ \A d \in Calls \ {c} : /\ pc'[d] = pc[d] /\ kind'[d] = kind[d]
                                   /\ family'[d] = family[d]
      BY <2>1 DEF Begin, Login, Refresh, Logout, RevokeSession, RevokeOthers,
                  DeleteAccount, Start, CallAt
    <3>2. kind'[c] = "refresh" => family'[c] # f
      BY <2>1 DEF Begin, Login, Refresh, Logout, RevokeSession, RevokeOthers,
                  DeleteAccount, Start
    <3> QED
      BY <3>1, <3>2
  <2>2. ASSUME NEW c \in Calls, Snapshot(c) \/ Lock(c) \/ Abort(c) \/ Expire(c)
        PROVE  ~FamilyIsActive(f)' /\ ~RefreshUnderWay(f)'
    BY <2>2 DEF Snapshot, Lock, Abort, Expire
  <2>3. ASSUME NEW c \in Calls, Commit(c)
        PROVE  ~FamilyIsActive(f)' /\ ~RefreshUnderWay(f)'
    <3>1. Creates(c) => family[c] # f
      BY <2>3 DEF Commit, Creates, CallAt
    <3> QED
      BY <2>3, <3>1 DEF Commit
  <2>4. CASE UNCHANGED vars
    BY <2>4 DEF vars
  <2> QED
    BY <2>1, <2>2, <2>3, <2>4 DEF Next, Progress
<1>2. IInv /\ [Next]_vars =>
        [\A f \in ended :
           ~FamilyIsActive(f) /\ ~RefreshUnderWay(f) =>
             ~FamilyIsActive(f)' /\ ~RefreshUnderWay(f)']_vars
  BY <1>1
<1> QED
  BY <1>2, Invariance, PTL DEF Spec, QuietSignOutIsFinal

(* Revoking the other sessions, and changing the password, takes no row of *)
(* the family the caller came with.                                        *)
THEOREM CallerStaysIn == Spec => CallerKeepsSession
<1>1. ASSUME IInv, [Next]_vars, NEW c \in Calls, kind[c] = "others",
             pc[c] = "holding", pc'[c] = "done", NEW s \in Live, family[s] = family[c]
      PROVE  row'[s] = "live"
  <2> USE <1>1 DEF IInv, TypeOK, Live, call
  <2>1. ASSUME NEW d \in Calls, Begin(d) \/ Snapshot(d) \/ Lock(d) \/ Expire(d) PROVE FALSE
    <3>1. pc'[c] = "holding"
      BY <2>1 DEF Begin, Login, Refresh, Logout, RevokeSession, RevokeOthers,
                  DeleteAccount, Start, Snapshot, Lock, Expire
    <3> QED
      BY <3>1
  <2>2. ASSUME NEW d \in Calls, Abort(d) PROVE row'[s] = "live"
    BY <2>2 DEF Abort
  <2>3. ASSUME NEW d \in Calls, Commit(d) PROVE row'[s] = "live"
    <3>1. d = c
      BY <2>3 DEF Commit
    <3>2. s \notin held[c]
      BY DEF CallAt
    <3> QED
      BY <2>3, <3>1, <3>2 DEF Commit, CallAt
  <2> QED
    BY <2>1, <2>2, <2>3 DEF Next, Progress, vars
<1>2. IInv /\ [Next]_vars =>
        [\A c \in Calls :
           kind[c] = "others" /\ pc[c] = "holding" /\ pc'[c] = "done" =>
             \A s \in Live : family[s] = family[c] => row'[s] = "live"]_vars
  BY <1>1
<1> QED
  BY <1>2, Invariance, PTL DEF Spec, CallerKeepsSession
=============================================================================
