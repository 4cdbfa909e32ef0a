-------------------------- MODULE Accounts_proofs --------------------------
(***************************************************************************)
(* Theorems about Accounts, and about the rate limit in front of it, for   *)
(* any sets of accounts, addresses, calls and clients and any limit.       *)
(***************************************************************************)
EXTENDS Accounts, Integers, FiniteSetTheorems, TLAPS

(* The numbers that INCR returned to the requests of a window are          *)
(* different and at most the counter; a request is in one window.          *)
WindowIsCounted ==
  /\ \A c \in Clients : \A r \in window[c] :
       gate[r] # "outside" /\ seen[r] \in 1..counter[c]
  /\ \A c \in Clients : \A r, s \in window[c] : seen[r] = seen[s] => r = s
  /\ \A c, d \in Clients : \A r \in Calls : r \in window[c] /\ r \in window[d] => c = d

AdmittedWithin ==
  FAIL_CLOSED => \A c \in Clients : \A r \in window[c] :
    gate[r] = "admitted" => seen[r] <= Limit

WindowEnds ==
  \A c \in Clients : counter[c] > 0 /\ ~expires[c] /\ c \notin orphaned =>
    \E r \in window[c] : gate[r] = "counted" /\ seen[r] = 1

(* What a call holds: a user that is inserted and not committed has an     *)
(* address that nobody else has or is about to have.                       *)
CallAt(r) ==
  /\ step[r] = "checked" /\ kind[r] # "register" => who[r] \in Accounts /\ state[who[r]] # "absent"
  /\ step[r] = "checked" /\ kind[r] \in {"register", "email"} => want[r] \in Emails
  /\ step[r] = "checked" /\ kind[r] = "connect" => want[r] \in Tokens
  /\ step[r] = "inserted" =>
       /\ want[r] \in Emails /\ who[r] \in Accounts
       /\ state[who[r]] = "absent" /\ ~Taken(want[r])

InsertsDiffer ==
  \A r, s \in Calls :
    step[r] = "inserted" /\ step[s] = "inserted" /\ r # s => want[r] # want[s] /\ who[r] # who[s]

AbsentIsBlank == \A a \in Accounts : state[a] = "absent" => email[a] = None

IInv ==
  /\ TypeOK
  /\ WindowIsCounted /\ AdmittedWithin /\ WindowEnds
  /\ \A r \in Calls : CallAt(r)
  /\ InsertsDiffer /\ AbsentIsBlank
  /\ EmailLeadsToAccount /\ HintIsOfSecret

LimiterTypeOK == Limiter!TypeOK

(* The steps of the limiter, which everything else leaves as it is.        *)
LimiterStep ==
  \/ \E c \in Clients : Limiter!Elapse(c)
  \/ \E r \in Calls, c \in Clients : Limiter!Count(r, c) \/ Limiter!SetExpiry(r, c)
  \/ \E r \in Calls : Limiter!Decide(r) \/ Limiter!Break(r)

-----------------------------------------------------------------------------
(* Lemmas about the limiter                                                *)

LEMMA LimiterSteps ==
  ASSUME [Next]_vars
  PROVE  (LimiterStep /\ UNCHANGED <<rows, task, late, mixed>>) \/ UNCHANGED limiter
<1>1. CASE Elapse
  BY <1>1 DEF Elapse, LimiterStep
<1>2. ASSUME NEW r \in Calls, Attempt(r)
      PROVE  LimiterStep /\ UNCHANGED <<rows, task, late, mixed>>
  BY <1>2 DEF Attempt, LimiterStep
<1>3. ASSUME NEW r \in Calls, Register(r) \/ Insert(r) \/ CommitRegister(r) \/ Fail(r)
      PROVE  UNCHANGED limiter
  BY <1>3 DEF Register, Insert, CommitRegister, Fail
<1>4. ASSUME NEW r \in Calls, NEW a \in Accounts,
             ChangeEmail(r, a) \/ DeleteAccount(r, a) \/ Connect(r, a) \/ Disconnect(r, a)
      PROVE  UNCHANGED limiter
  BY <1>4 DEF ChangeEmail, DeleteAccount, Connect, Disconnect, Begin
<1>5. ASSUME NEW r \in Calls,
             CommitEmail(r) \/ CommitDelete(r) \/ CommitConnect(r) \/ CommitDisconnect(r)
      PROVE  UNCHANGED limiter
  BY <1>5 DEF CommitEmail, CommitDelete, CommitConnect, CommitDisconnect, Commits
<1>6. CASE UNCHANGED vars
  BY <1>6 DEF vars
<1> QED
  BY <1>1, <1>2, <1>3, <1>4, <1>5, <1>6 DEF Next

LEMMA LimiterTypeInductive ==
  ASSUME LimiterTypeOK, LimiterStep \/ UNCHANGED limiter PROVE LimiterTypeOK'
<1> USE DEF LimiterTypeOK, Limiter!TypeOK
<1>1. ASSUME NEW c \in Clients, Limiter!Elapse(c) PROVE LimiterTypeOK'
  BY <1>1 DEF Limiter!Elapse
<1>2. ASSUME NEW r \in Calls, NEW c \in Clients, Limiter!Count(r, c) PROVE LimiterTypeOK'
  BY <1>2 DEF Limiter!Count
<1>3. ASSUME NEW r \in Calls, NEW c \in Clients, Limiter!SetExpiry(r, c) PROVE LimiterTypeOK'
  BY <1>3 DEF Limiter!SetExpiry
<1>4. ASSUME NEW r \in Calls, Limiter!Decide(r) PROVE LimiterTypeOK'
  BY <1>4 DEF Limiter!Decide
<1>5. ASSUME NEW r \in Calls, Limiter!Break(r) PROVE LimiterTypeOK'
  BY <1>5 DEF Limiter!Break
<1>6. CASE UNCHANGED limiter
  BY <1>6 DEF limiter
<1> QED
  BY <1>1, <1>2, <1>3, <1>4, <1>5, <1>6 DEF LimiterStep

LEMMA CountedInductive ==
  ASSUME LimiterTypeOK, WindowIsCounted, LimiterStep \/ UNCHANGED limiter
  PROVE  WindowIsCounted'
<1> USE DEF LimiterTypeOK, Limiter!TypeOK, WindowIsCounted
<1>1. ASSUME NEW c \in Clients, Limiter!Elapse(c) PROVE WindowIsCounted'
  BY <1>1 DEF Limiter!Elapse
<1>2. ASSUME NEW r \in Calls, NEW c \in Clients, Limiter!Count(r, c) PROVE WindowIsCounted'
  <2>1. \A d \in Clients : r \notin window[d]
    BY <1>2 DEF Limiter!Count
  <2>2. /\ counter' = [counter EXCEPT ![c] = @ + 1]
        /\ seen' = [seen EXCEPT ![r] = counter[c] + 1]
        /\ gate' = [gate EXCEPT ![r] = "counted"]
        /\ window' = [window EXCEPT ![c] = @ \cup {r}]
    BY <1>2 DEF Limiter!Count
  <2>3. ASSUME NEW d \in Clients, NEW s \in window'[d]
        PROVE  gate'[s] # "outside" /\ seen'[s] \in 1..counter'[d]
    <3>1. CASE s = r
      BY <3>1, <2>1, <2>2, <2>3
    <3>2. CASE s # r
      BY <3>2, <2>1, <2>2, <2>3
    <3> QED
      BY <3>1, <3>2
  <2>4. ASSUME NEW d \in Clients, NEW s \in window'[d], NEW t \in window'[d], seen'[s] = seen'[t]
        PROVE  s = t
    <3>1. CASE s # r /\ t # r
      BY <3>1, <2>1, <2>2, <2>4
    <3>2. ASSUME NEW x \in window[c] PROVE x \in Calls /\ x # r /\ seen'[x] <= counter[c]
      BY <3>2, <2>1, <2>2
    <3>3. seen'[r] = counter[c] + 1 /\ counter[c] \in Nat
      BY <2>2
    <3>4. s = r \/ t = r => d = c
      BY <2>1, <2>2, <2>4
    <3>5. d = c => s \in window[c] \cup {r} /\ t \in window[c] \cup {r}
      BY <2>2, <2>4
    <3> HIDE DEF LimiterTypeOK, Limiter!TypeOK, WindowIsCounted
    <3>6. \A x \in window[c] : seen'[x] # counter[c] + 1
      <4> TAKE x \in window[c]
      <4>1. seen'[x] \in Nat
        BY <3>2, <2>2 DEF LimiterTypeOK, Limiter!TypeOK
      <4> QED
        BY <4>1, <3>2, <3>3
    <3> QED
      BY <3>1, <3>3, <3>4, <3>5, <3>6, <2>4
  <2>5. ASSUME NEW d \in Clients, NEW e \in Clients, NEW s \in Calls,
               s \in window'[d], s \in window'[e]
        PROVE  d = e
    BY <2>1, <2>2, <2>5
  <2> QED
    BY <2>3, <2>4, <2>5
<1>3. ASSUME NEW r \in Calls, NEW c \in Clients, Limiter!SetExpiry(r, c) PROVE WindowIsCounted'
  BY <1>3 DEF Limiter!SetExpiry
<1>4. ASSUME NEW r \in Calls, Limiter!Decide(r) PROVE WindowIsCounted'
  BY <1>4 DEF Limiter!Decide
<1>5. ASSUME NEW r \in Calls, Limiter!Break(r) PROVE WindowIsCounted'
  BY <1>5 DEF Limiter!Break
<1>6. CASE UNCHANGED limiter
  BY <1>6 DEF limiter
<1> QED
  BY <1>1, <1>2, <1>3, <1>4, <1>5, <1>6 DEF LimiterStep

LEMMA AdmittedInductive ==
  ASSUME LimiterTypeOK, WindowIsCounted, AdmittedWithin, LimiterStep \/ UNCHANGED limiter
  PROVE  AdmittedWithin'
<1> USE DEF LimiterTypeOK, Limiter!TypeOK, AdmittedWithin
<1> SUFFICES ASSUME FAIL_CLOSED PROVE AdmittedWithin'
  OBVIOUS
<1>1. ASSUME NEW c \in Clients, Limiter!Elapse(c) PROVE AdmittedWithin'
  BY <1>1 DEF Limiter!Elapse
<1>2. ASSUME NEW r \in Calls, NEW c \in Clients, Limiter!Count(r, c) PROVE AdmittedWithin'
  BY <1>2 DEF Limiter!Count
<1>3. ASSUME NEW r \in Calls, NEW c \in Clients, Limiter!SetExpiry(r, c) PROVE AdmittedWithin'
  BY <1>3 DEF Limiter!SetExpiry
<1>4. ASSUME NEW r \in Calls, Limiter!Decide(r) PROVE AdmittedWithin'
  BY <1>4, LimitAssumption DEF Limiter!Decide
<1>5. ASSUME NEW r \in Calls, Limiter!Break(r) PROVE AdmittedWithin'
  BY <1>5 DEF Limiter!Break
<1>6. CASE UNCHANGED limiter
  BY <1>6 DEF limiter
<1> QED
  BY <1>1, <1>2, <1>3, <1>4, <1>5, <1>6 DEF LimiterStep

LEMMA EndsInductive ==
  ASSUME LimiterTypeOK, WindowIsCounted, WindowEnds, LimiterStep \/ UNCHANGED limiter
  PROVE  WindowEnds'
<1> USE DEF LimiterTypeOK, Limiter!TypeOK
<1>1. ASSUME NEW c \in Clients, Limiter!Elapse(c) PROVE WindowEnds'
  BY <1>1 DEF Limiter!Elapse, WindowEnds
<1>2. ASSUME NEW r \in Calls, NEW c \in Clients, Limiter!Count(r, c) PROVE WindowEnds'
  <2>1. /\ counter' = [counter EXCEPT ![c] = @ + 1]
        /\ seen' = [seen EXCEPT ![r] = counter[c] + 1]
        /\ gate' = [gate EXCEPT ![r] = "counted"]
        /\ window' = [window EXCEPT ![c] = @ \cup {r}]
        /\ UNCHANGED <<expires, orphaned>>
        /\ gate[r] = "outside"
    BY <1>2 DEF Limiter!Count
  <2> SUFFICES ASSUME NEW d \in Clients, counter'[d] > 0, ~expires[d], d \notin orphaned
               PROVE  \E s \in window'[d] : gate'[s] = "counted" /\ seen'[s] = 1
    BY <2>1 DEF WindowEnds
  <2>2. CASE d = c /\ counter[c] = 0
    BY <2>1, <2>2
  <2>3. CASE d # c \/ counter[c] # 0
    <3>1. counter[d] > 0
      BY <2>1, <2>3
    <3>2. PICK s \in window[d] : gate[s] = "counted" /\ seen[s] = 1
      BY <3>1 DEF WindowEnds
    <3> QED
      BY <3>2, <2>1
  <2> QED
    BY <2>2, <2>3
<1>3. ASSUME NEW r \in Calls, NEW c \in Clients, Limiter!SetExpiry(r, c) PROVE WindowEnds'
  <2>1. \A d \in Clients \ {c} : r \notin window[d]
    BY <1>3 DEF Limiter!SetExpiry, WindowIsCounted
  <2> QED
    BY <1>3, <2>1 DEF Limiter!SetExpiry, WindowEnds
<1>4. ASSUME NEW r \in Calls, Limiter!Decide(r) PROVE WindowEnds'
  BY <1>4 DEF Limiter!Decide, WindowEnds
<1>5. ASSUME NEW r \in Calls, Limiter!Break(r) PROVE WindowEnds'
  <2> SUFFICES ASSUME NEW c \in Clients, counter[c] > 0, ~expires[c], c \notin orphaned'
               PROVE  \E s \in window[c] : gate'[s] = "counted" /\ seen[s] = 1
    BY <1>5 DEF Limiter!Break, WindowEnds
  <2>1. PICK s \in window[c] : gate[s] = "counted" /\ seen[s] = 1
    BY <1>5 DEF Limiter!Break, WindowEnds
  <2>2. s # r
    BY <1>5, <2>1 DEF Limiter!Break
  <2> QED
    BY <1>5, <2>1, <2>2 DEF Limiter!Break
<1>6. CASE UNCHANGED limiter
  BY <1>6 DEF limiter, WindowEnds
<1> QED
  BY <1>1, <1>2, <1>3, <1>4, <1>5, <1>6 DEF LimiterStep

(* As many as there are numbers up to the limit.                           *)
LEMMA CountBounds ==
  ASSUME LimiterTypeOK, WindowIsCounted, AdmittedWithin, WindowEnds
  PROVE  LimitHolds
<1>0. \A T : Limiter!Cardinality(T) = Cardinality(T)
  BY DEF Limiter!Cardinality, Cardinality
<1> SUFFICES ASSUME NEW c \in Clients, FAIL_CLOSED
             PROVE  Cardinality({r \in window[c] : gate[r] = "admitted"}) <= Limit
  BY <1>0 DEF LimitHolds, Limiter!LimitHolds, WindowEnds
<1> DEFINE S == {r \in window[c] : gate[r] = "admitted"}
           f == [r \in S |-> seen[r]]
<1>1. \A r \in S : seen[r] \in 1..Limit
  BY LimitAssumption DEF LimiterTypeOK, Limiter!TypeOK, WindowIsCounted, AdmittedWithin
<1>2. f \in Injection(S, 1..Limit)
  BY <1>1 DEF WindowIsCounted, Injection, IsInjective
<1>3. IsFiniteSet(1..Limit) /\ Cardinality(1..Limit) = Limit
  BY FS_Interval, LimitAssumption
<1> HIDE DEF S, f
<1>4. Cardinality(S) <= Cardinality(1..Limit)
  BY <1>2, <1>3, FS_Injection
<1> QED
  BY <1>3, <1>4 DEF S

-----------------------------------------------------------------------------
(* Lemmas about the rows                                                   *)

LEMMA TypeInductive == TypeOK /\ (\A r \in Calls : CallAt(r)) /\ [Next]_vars => TypeOK'
<1> SUFFICES ASSUME TypeOK, \A r \in Calls : CallAt(r), [Next]_vars PROVE TypeOK'
  OBVIOUS
<1> USE NoneAssumption
<1>0. LimiterTypeOK'
  BY LimiterSteps, LimiterTypeInductive DEF TypeOK, LimiterTypeOK
<1> DEFINE RowsOK ==
             /\ state \in [Accounts -> {"absent", "active", "deleted"}]
             /\ email \in [Accounts -> Emails \cup {None}]
             /\ \A a \in Accounts : state[a] = "active" => email[a] # None
             /\ link \in [Accounts -> Row \cup {None}]
             /\ kind \in [Calls -> {"none", "register", "email", "delete", "connect", "disconnect"}]
             /\ step \in [Calls -> {"idle", "checked", "inserted", "done"}]
             /\ who \in [Calls -> Accounts \cup {None}]
             /\ want \in [Calls -> Emails \cup Tokens \cup {None}]
             /\ held \in [Calls -> Row \cup {None}]
             /\ late \subseteq Accounts /\ mixed \subseteq Accounts
<1>1. RowsOK
  BY DEF TypeOK
<1>2. SUFFICES RowsOK'
  BY <1>0 DEF TypeOK, LimiterTypeOK
<1>3. CASE UNCHANGED <<rows, task, late, mixed>>
  BY <1>1, <1>3 DEF rows, task
<1>4. ASSUME NEW r \in Calls, Register(r) \/ Insert(r) \/ Fail(r) PROVE RowsOK'
  BY <1>1, <1>4 DEF Register, Insert, Fail, rows
<1>5. ASSUME NEW r \in Calls, CommitRegister(r) PROVE RowsOK'
  BY <1>1, <1>5 DEF CommitRegister, CallAt
<1>6. ASSUME NEW r \in Calls, NEW a \in Accounts,
             ChangeEmail(r, a) \/ DeleteAccount(r, a) \/ Connect(r, a) \/ Disconnect(r, a)
      PROVE  RowsOK'
  <2>1. \E w \in Emails \cup Tokens \cup {None},
           k \in {"email", "delete", "connect", "disconnect"} : Begin(r, k, a, w)
    BY <1>6 DEF ChangeEmail, DeleteAccount, Connect, Disconnect
  <2> QED
    BY <1>1, <2>1 DEF Begin, rows
<1>7. ASSUME NEW r \in Calls, CommitEmail(r) PROVE RowsOK'
  BY <1>1, <1>7 DEF CommitEmail, Commits, CallAt
<1>8. ASSUME NEW r \in Calls, CommitDelete(r) PROVE RowsOK'
  BY <1>1, <1>8 DEF CommitDelete, Commits, CallAt
<1>9. ASSUME NEW r \in Calls, CommitConnect(r) PROVE RowsOK'
  <2>1. who[r] \in Accounts /\ want[r] \in Tokens
    BY <1>9 DEF CommitConnect, Commits, CallAt
  <2>2. [id |-> r, secret |-> want[r], hint |-> want[r]] \in Row
    BY <2>1 DEF Row
  <2>3. CASE held[r] = None /\ link' = [link EXCEPT ![who[r]] =
                                        [id |-> r, secret |-> want[r], hint |-> want[r]]]
    <3>1. link' \in [Accounts -> Row \cup {None}]
      BY <1>1, <2>2, <2>3
    <3> QED
      BY <1>1, <1>9, <2>1, <3>1 DEF CommitConnect, Commits
  <2>4. CASE Found(r) /\ \E h \in {want[r], link[who[r]].hint} :
               link' = [link EXCEPT ![who[r]] = [@ EXCEPT !.secret = want[r], !.hint = h]]
    <3>1. link[who[r]] \in Row
      BY <1>1, <2>1, <2>4 DEF Found
    <3>2. PICK h \in {want[r], link[who[r]].hint} :
            link' = [link EXCEPT ![who[r]] = [@ EXCEPT !.secret = want[r], !.hint = h]]
      BY <2>4
    <3>3. h \in Tokens
      BY <2>1, <3>1 DEF Row
    <3> DEFINE changed == [link[who[r]] EXCEPT !.secret = want[r], !.hint = h]
    <3>4. changed \in Row
      BY <2>1, <3>1, <3>3 DEF Row
    <3>5. link' = [link EXCEPT ![who[r]] = changed]
      BY <3>2
    <3> HIDE DEF changed
    <3>6. link' \in [Accounts -> Row \cup {None}]
      BY <1>1, <2>1, <3>4, <3>5
    <3> QED
      BY <1>1, <1>9, <2>1, <3>6 DEF CommitConnect, Commits
  <2> QED
    BY <1>9, <2>3, <2>4 DEF CommitConnect
<1>10. ASSUME NEW r \in Calls, CommitDisconnect(r) PROVE RowsOK'
  BY <1>1, <1>10 DEF CommitDisconnect, Commits, CallAt
<1> HIDE DEF RowsOK
<1>11. CASE UNCHANGED vars
  BY <1>3, <1>11 DEF vars
<1> QED
  BY <1>3, <1>4, <1>5, <1>6, <1>7, <1>8, <1>9, <1>10, <1>11 DEF Next, Elapse, Attempt

LEMMA CallsInductive ==
  ASSUME TypeOK, \A r \in Calls : CallAt(r), InsertsDiffer, [Next]_vars
  PROVE  (\A r \in Calls : CallAt(r))'
<1> USE DEF TypeOK
<1> USE NoneAssumption
<1> DEFINE Goal == \A s \in Calls : CallAt(s)
<1>1. ASSUME UNCHANGED <<rows, task, late, mixed>> PROVE Goal'
  BY <1>1 DEF rows, task, CallAt, Taken
<1>2. ASSUME NEW r \in Calls, Register(r) PROVE Goal'
  BY <1>2 DEF Register, rows, CallAt, Taken
<1>3. ASSUME NEW r \in Calls, Insert(r) PROVE Goal'
  BY <1>3 DEF Insert, rows, CallAt, Taken
<1>4. ASSUME NEW r \in Calls, Fail(r) PROVE Goal'
  BY <1>4 DEF Fail, rows, CallAt, Taken
<1>5. ASSUME NEW r \in Calls, CommitRegister(r) PROVE Goal'
  BY <1>5 DEF CommitRegister, CallAt, Taken, InsertsDiffer
<1>6. ASSUME NEW r \in Calls, NEW a \in Accounts,
             ChangeEmail(r, a) \/ DeleteAccount(r, a) \/ Connect(r, a) \/ Disconnect(r, a)
      PROVE  Goal'
  <2>1. PICK w \in Emails \cup Tokens \cup {None},
             k \in {"email", "delete", "connect", "disconnect"} :
          /\ Begin(r, k, a, w)
          /\ k = "email" => w \in Emails
          /\ k = "connect" => w \in Tokens
    BY <1>6 DEF ChangeEmail, DeleteAccount, Connect, Disconnect
  <2> QED
    BY <2>1 DEF Begin, rows, CallAt, Taken
<1>7. ASSUME NEW r \in Calls, CommitEmail(r) PROVE Goal'
  <2>1. /\ step[r] = "checked" /\ kind[r] = "email" /\ who[r] \in Accounts /\ want[r] \in Emails
        /\ \A s \in Calls : step[s] = "inserted" => want[s] # want[r]
        /\ step' = [step EXCEPT ![r] = "done"] /\ email' = [email EXCEPT ![who[r]] = want[r]]
        /\ UNCHANGED <<kind, who, want, state>>
    BY <1>7 DEF CommitEmail, Commits, Claimed, CallAt
  <2> QED
    BY <2>1 DEF CallAt, Taken
<1>8. ASSUME NEW r \in Calls, CommitDelete(r) PROVE Goal'
  BY <1>8 DEF CommitDelete, Commits, CallAt, Taken
<1>9. ASSUME NEW r \in Calls, CommitConnect(r) \/ CommitDisconnect(r) PROVE Goal'
  BY <1>9 DEF CommitConnect, CommitDisconnect, Commits, CallAt, Taken
<1>10. ASSUME UNCHANGED vars PROVE Goal'
  BY <1>1, <1>10 DEF vars
<1> HIDE DEF Goal
<1>11. Goal'
  BY <1>1, <1>2, <1>3, <1>4, <1>5, <1>6, <1>7, <1>8, <1>9, <1>10 DEF Next, Elapse, Attempt
<1> QED
  BY <1>11 DEF Goal

LEMMA InsertsInductive ==
  ASSUME TypeOK, \A r \in Calls : CallAt(r), InsertsDiffer, [Next]_vars
  PROVE  InsertsDiffer'
<1> USE DEF TypeOK, InsertsDiffer
<1>1. CASE UNCHANGED <<rows, task, late, mixed>>
  BY <1>1 DEF task
<1>2. ASSUME NEW r \in Calls, Register(r) \/ Fail(r) \/ CommitRegister(r) PROVE InsertsDiffer'
  BY <1>2 DEF Register, Fail, CommitRegister
<1>3. ASSUME NEW r \in Calls, Insert(r) PROVE InsertsDiffer'
  BY <1>3 DEF Insert, Claimed
<1>4. ASSUME NEW r \in Calls, NEW a \in Accounts,
             ChangeEmail(r, a) \/ DeleteAccount(r, a) \/ Connect(r, a) \/ Disconnect(r, a)
      PROVE  InsertsDiffer'
  BY <1>4 DEF ChangeEmail, DeleteAccount, Connect, Disconnect, Begin
<1>5. ASSUME NEW r \in Calls,
             CommitEmail(r) \/ CommitDelete(r) \/ CommitConnect(r) \/ CommitDisconnect(r)
      PROVE  InsertsDiffer'
  BY <1>5 DEF CommitEmail, CommitDelete, CommitConnect, CommitDisconnect, Commits
<1>6. CASE UNCHANGED vars
  BY <1>1, <1>6 DEF vars
<1> QED
  BY <1>1, <1>2, <1>3, <1>4, <1>5, <1>6 DEF Next, Elapse, Attempt

LEMMA AddressesInductive ==
  ASSUME TypeOK, \A r \in Calls : CallAt(r), AbsentIsBlank, EmailLeadsToAccount, [Next]_vars
  PROVE  AbsentIsBlank' /\ EmailLeadsToAccount'
<1> USE DEF TypeOK
<1> USE NoneAssumption
<1> DEFINE Goal == AbsentIsBlank /\ EmailLeadsToAccount
<1>1. ASSUME UNCHANGED <<state, email, late>> PROVE Goal'
  BY <1>1 DEF AbsentIsBlank, EmailLeadsToAccount
<1>2. ASSUME NEW r \in Calls, CommitRegister(r) PROVE Goal'
  <2>1. /\ who[r] \in Accounts /\ want[r] \in Emails /\ \A a \in Accounts : email[a] # want[r]
        /\ state' = [state EXCEPT ![who[r]] = "active"]
        /\ email' = [email EXCEPT ![who[r]] = want[r]] /\ late' = late
    BY <1>2 DEF CommitRegister, CallAt, Taken
  <2> QED
    BY <2>1 DEF AbsentIsBlank, EmailLeadsToAccount
<1>3. ASSUME NEW r \in Calls, CommitEmail(r) PROVE Goal'
  <2>1. /\ who[r] \in Accounts /\ want[r] \in Emails /\ \A a \in Accounts : email[a] # want[r]
        /\ state[who[r]] # "absent" /\ state' = state
        /\ email' = [email EXCEPT ![who[r]] = want[r]]
        /\ late \subseteq late' /\ (state[who[r]] = "deleted" => who[r] \in late')
    BY <1>3 DEF CommitEmail, Commits, CallAt, Taken
  <2> QED
    BY <2>1 DEF AbsentIsBlank, EmailLeadsToAccount
<1>4. ASSUME NEW r \in Calls, CommitDelete(r) PROVE Goal'
  <2>1. /\ who[r] \in Accounts /\ late' = late
        /\ state' = [state EXCEPT ![who[r]] = "deleted"]
        /\ email' = [email EXCEPT ![who[r]] = None]
    BY <1>4 DEF CommitDelete, Commits, CallAt
  <2> QED
    BY <2>1 DEF AbsentIsBlank, EmailLeadsToAccount
<1> HIDE DEF Goal
<1>5. ASSUME NEW r \in Calls,
             \/ Attempt(r) \/ Register(r) \/ Insert(r) \/ CommitConnect(r)
             \/ CommitDisconnect(r) \/ Fail(r)
      PROVE  Goal'
  BY <1>1, <1>5 DEF Attempt, Register, Insert, CommitConnect, CommitDisconnect, Fail, rows
<1>6. ASSUME NEW r \in Calls, NEW a \in Accounts,
             ChangeEmail(r, a) \/ DeleteAccount(r, a) \/ Connect(r, a) \/ Disconnect(r, a)
      PROVE  Goal'
  BY <1>1, <1>6 DEF ChangeEmail, DeleteAccount, Connect, Disconnect, Begin, rows
<1>7. ASSUME Elapse \/ UNCHANGED vars PROVE Goal'
  BY <1>1, <1>7 DEF Elapse, vars, rows
<1>8. Goal'
  BY <1>2, <1>3, <1>4, <1>5, <1>6, <1>7 DEF Next
<1> QED
  BY <1>8 DEF Goal

LEMMA HintInductive ==
  ASSUME TypeOK, \A r \in Calls : CallAt(r), HintIsOfSecret, [Next]_vars PROVE HintIsOfSecret'
<1> USE DEF TypeOK
<1> USE NoneAssumption
<1>1. ASSUME UNCHANGED <<link, mixed>> PROVE HintIsOfSecret'
  BY <1>1 DEF HintIsOfSecret
<1>2. ASSUME NEW r \in Calls, CommitConnect(r) PROVE HintIsOfSecret'
  <2> DEFINE a == who[r]
  <2>1. a \in Accounts /\ want[r] \in Tokens
    BY <1>2 DEF CommitConnect, Commits, CallAt
  <2>2. \A b \in Accounts \ {a} : link'[b] = link[b] /\ (b \in mixed' <=> b \in mixed)
    BY <1>2, <2>1 DEF CommitConnect
  <2>3. ASSUME link[a] = held[r] PROVE link'[a].hint = link'[a].secret
    <3>1. CASE link' = [link EXCEPT ![a] = [id |-> r, secret |-> want[r], hint |-> want[r]]]
      BY <2>1, <3>1
    <3>2. CASE /\ Found(r)
               /\ link' = [link EXCEPT ![a].secret = want[r],
                          ![a].hint = IF held[r].hint # want[r] THEN want[r] ELSE @]
      <4>1. link[a] \in Row
        BY <2>1, <3>2 DEF Found
      <4>2. link'[a].secret = want[r]
        BY <2>1, <3>2, <4>1 DEF Row
      <4>3. link'[a].hint = want[r]
        BY <2>1, <2>3, <3>2, <4>1 DEF Row
      <4> QED
        BY <4>2, <4>3
    <3> QED
      BY <1>2, <3>1, <3>2 DEF CommitConnect
  <2>4. a \notin mixed' => link[a] = held[r]
    BY <1>2 DEF CommitConnect
  <2> HIDE DEF a
  <2> QED
    BY <2>2, <2>3, <2>4 DEF HintIsOfSecret
<1>3. ASSUME NEW r \in Calls, CommitDisconnect(r) PROVE HintIsOfSecret'
  BY <1>3 DEF CommitDisconnect, HintIsOfSecret, Found
<1>4. ASSUME NEW r \in Calls,
             \/ Attempt(r) \/ Register(r) \/ Insert(r) \/ CommitRegister(r)
             \/ CommitEmail(r) \/ CommitDelete(r) \/ Fail(r)
      PROVE  HintIsOfSecret'
  BY <1>1, <1>4
     DEF Attempt, Register, Insert, CommitRegister, CommitEmail, CommitDelete, Fail, rows
<1>5. ASSUME NEW r \in Calls, NEW a \in Accounts,
             ChangeEmail(r, a) \/ DeleteAccount(r, a) \/ Connect(r, a) \/ Disconnect(r, a)
      PROVE  HintIsOfSecret'
  BY <1>1, <1>5 DEF ChangeEmail, DeleteAccount, Connect, Disconnect, Begin, rows
<1>6. ASSUME Elapse \/ UNCHANGED vars PROVE HintIsOfSecret'
  BY <1>1, <1>6 DEF Elapse, vars, rows
<1> QED
  BY <1>2, <1>3, <1>4, <1>5, <1>6 DEF Next

LEMMA IInvInit == Init => IInv
<1> SUFFICES ASSUME Init PROVE IInv
  OBVIOUS
<1> USE NoneAssumption DEF Init
<1>1. LimiterTypeOK /\ WindowIsCounted /\ AdmittedWithin /\ WindowEnds
  BY DEF LimiterTypeOK, Limiter!TypeOK, Limiter!Init, WindowIsCounted, AdmittedWithin, WindowEnds
<1>2. link \in [Accounts -> Row \cup {None}] /\ HintIsOfSecret
  <2>1. link \in [Accounts -> {None} \cup {[id |-> None, secret |-> t, hint |-> t] : t \in Tokens}]
    OBVIOUS
  <2>2. \A t \in Tokens : [id |-> None, secret |-> t, hint |-> t] \in Row
    BY DEF Row
  <2>3. \A a \in Accounts : link[a] = None \/ (link[a] \in Row /\ link[a].hint = link[a].secret)
    BY <2>1, <2>2
  <2> QED
    BY <2>1, <2>3 DEF HintIsOfSecret
<1>3. TypeOK
  BY <1>1, <1>2 DEF TypeOK, LimiterTypeOK
<1>4. (\A r \in Calls : CallAt(r)) /\ InsertsDiffer /\ AbsentIsBlank
  BY DEF CallAt, InsertsDiffer, AbsentIsBlank
<1>5. EmailLeadsToAccount
  BY DEF EmailLeadsToAccount
<1> QED
  BY <1>1, <1>2, <1>3, <1>4, <1>5 DEF IInv

LEMMA IInvInductive == IInv /\ [Next]_vars => IInv'
<1> SUFFICES ASSUME IInv, [Next]_vars PROVE IInv'
  OBVIOUS
<1>1. LimiterTypeOK /\ (LimiterStep \/ UNCHANGED limiter)
  BY LimiterSteps DEF IInv, TypeOK, LimiterTypeOK
<1>2. WindowIsCounted' /\ AdmittedWithin' /\ WindowEnds'
  BY <1>1, CountedInductive, AdmittedInductive, EndsInductive DEF IInv
<1>3. TypeOK'
  BY TypeInductive DEF IInv
<1>4. (\A r \in Calls : CallAt(r))' /\ InsertsDiffer'
  BY CallsInductive, InsertsInductive DEF IInv
<1>5. AbsentIsBlank' /\ EmailLeadsToAccount' /\ HintIsOfSecret'
  BY AddressesInductive, HintInductive DEF IInv
<1> QED
  BY <1>2, <1>3, <1>4, <1>5 DEF IInv

LEMMA IInvAlways == Spec => []IInv
<1> QED
  BY IInvInit, IInvInductive, PTL DEF Spec

-----------------------------------------------------------------------------
(* Theorems                                                                *)

(* Every variable of the rows, of the calls and of the limiter keeps its   *)
(* type; an active account has an address.                                 *)
THEOREM TypeCorrect == Spec => []TypeOK
<1>1. IInv => TypeOK
  BY DEF IInv
<1> QED
  BY <1>1, IInvAlways, PTL

(* Registrations, changes of address and deletions of accounts that        *)
(* overlap (register, update_profile, delete_account) never give one       *)
(* address to two accounts, nor leave it with a deleted one, but for the   *)
(* change that commits after the deletion.                                 *)
THEOREM OneAccountEach == Spec => []EmailLeadsToAccount
<1>1. IInv => EmailLeadsToAccount
  BY DEF IInv
<1> QED
  BY <1>1, IInvAlways, PTL

(* connect_integration leaves a row whose hint is that of its secret,      *)
(* unless the row was changed between its read and its commit.             *)
THEOREM HintFollowsSecret == Spec => []HintIsOfSecret
<1>1. IInv => HintIsOfSecret
  BY DEF IInv
<1> QED
  BY <1>1, IInvAlways, PTL

(* However the commands of RedisRateLimiter interleave and fail, a window  *)
(* admits no more attempts than the limit where failures are closed, and a *)
(* number without an expiry has a request about to set one, or lost it.    *)
THEOREM LimitIsKept == Spec => []LimitHolds
<1>1. IInv => LimitHolds
  BY CountBounds DEF IInv, TypeOK, LimiterTypeOK
<1> QED
  BY <1>1, IInvAlways, PTL
=============================================================================
