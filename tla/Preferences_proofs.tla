------------------------ MODULE Preferences_proofs ------------------------
(***************************************************************************)
(* Theorems about Preferences, for any sets of fields, values, memories,   *)
(* patches, tabs and calls and any limit.                                  *)
(***************************************************************************)
EXTENDS Preferences, Integers, SequenceLemmas

(* What a call holds.                                                      *)
CallAt(c) ==
  /\ pc[c] # "idle" => op[c] \in Operation
  /\ pc[c] = "idle" => caller[c] = None
  /\ caller[c] # None =>
       before[c] \in Document /\ (op[c].kind = "patch" => op[c].memories = None)
  /\ pc[c] \in {"loaded", "answered"} => read[c] \in Document
  /\ pc[c] = "loaded" => ~NothingToDo(op[c], read[c]) /\ ~Refused(op[c], read[c])

(* What its only call may leave a tab with.                                *)
OnlyCall(c) ==
  /\ pc[c] # "answered" =>
       /\ before[c] = doc
       /\ shown[caller[c]] = IF op[c].kind = "patch" THEN Applied(op[c], doc) ELSE doc
  /\ pc[c] \in {"loaded", "answered"} => read[c] = doc

(* A tab that nothing blurred has one call on its way at most, and shows   *)
(* the document when there is none.                                        *)
TabAt(t) ==
  blurred[t] = {} =>
    /\ \A c, d \in Others(t) : c = d
    /\ Others(t) = {} => shown[t] = doc
    /\ \A c \in Others(t) : OnlyCall(c)

IInv ==
  /\ TypeOK
  /\ \A c \in Calls : CallAt(c)
  /\ \A t \in Tabs : TabAt(t)

-----------------------------------------------------------------------------
(* Lemmas about memories                                                   *)

LEMMA MemoriesAreSequences ==
  ASSUME NEW m \in Memories
  PROVE  m \in Seq(Texts) /\ Len(m) \in 0..MAX_MEMORIES /\ DOMAIN m = 1..Len(m)
<1>1. PICK n \in 0..MAX_MEMORIES : m \in [1..n -> Texts]
  BY DEF Memories, SeqOf
<1>2. m \in Seq(Texts) /\ Len(m) = n
  BY <1>1, LimitAssumption
<1> QED
  BY <1>1, <1>2

LEMMA SequencesAreMemories ==
  ASSUME NEW m \in Seq(Texts), Len(m) <= MAX_MEMORIES
  PROVE  m \in Memories
<1>1. Len(m) \in 0..MAX_MEMORIES /\ m \in [1..Len(m) -> Texts]
  BY LimitAssumption
<1>2. m \in SeqOf(Texts, MAX_MEMORIES)
  BY <1>1 DEF SeqOf
<1> QED
  BY <1>2 DEF Memories

LEMMA EmptyIsMemories == <<>> \in Memories
<1> DEFINE empty == <<>>
<1>1. empty \in Seq(Texts) /\ Len(empty) = 0
  OBVIOUS
<1> HIDE DEF empty
<1>2. Len(empty) <= MAX_MEMORIES
  BY <1>1, LimitAssumption
<1>3. empty \in Memories
  BY <1>1, <1>2, SequencesAreMemories
<1> QED
  BY <1>3 DEF empty

LEMMA AppendStays ==
  ASSUME NEW m \in Memories, NEW x \in Texts, Len(m) < MAX_MEMORIES
  PROVE  Append(m, x) \in Memories
<1> DEFINE longer == Append(m, x)
<1>1. longer \in Seq(Texts) /\ Len(longer) = Len(m) + 1 /\ Len(m) \in Nat
  BY MemoriesAreSequences, LimitAssumption
<1> HIDE DEF longer
<1>2. longer \in Memories
  BY <1>1, SequencesAreMemories, LimitAssumption
<1> QED
  BY <1>2 DEF longer

LEMMA RemoveStays ==
  ASSUME NEW m \in Memories, NEW i \in 1..Len(m)
  PROVE  RemoveAt(m, i) \in Memories
<1>1. m \in Seq(Texts) /\ Len(m) \in Nat /\ Len(m) <= MAX_MEMORIES /\ i \in DOMAIN m
  BY MemoriesAreSequences, LimitAssumption
<1>2. RemoveAt(m, i) \in Seq(Texts) /\ Len(RemoveAt(m, i)) = Len(m) - 1
  BY <1>1, RemoveAtTypes
<1> QED
  BY <1>1, <1>2, SequencesAreMemories, LimitAssumption

-----------------------------------------------------------------------------
(* Lemmas about the document                                               *)

(* What each kind of operation carries.                                    *)
LEMMA OperationParts ==
  ASSUME NEW o \in Operation
  PROVE  /\ o.kind \in {"patch", "add", "forget", "clear", "get"}
         /\ o.kind = "patch" => o \in PreferencesUpdate
         /\ o.kind = "add" => o.text \in Texts
         /\ o.kind = "forget" => o.index \in 1..MAX_MEMORIES
  BY PatchesAssumption DEF Operation, PreferencesUpdate

LEMMA MergedStays ==
  ASSUME NEW p \in PreferencesUpdate, NEW d \in Document
  PROVE  Merged(p, d) \in Document
<1>1. /\ p.settings \in [Fields -> Values \cup {None}] /\ p.memories \in Memories \cup {None}
      /\ d.settings \in [Fields -> Values] /\ d.memories \in Memories
  BY DEF PreferencesUpdate, Document
<1>2. Merged(p, d).settings \in [Fields -> Values] /\ Merged(p, d).memories \in Memories
  BY <1>1 DEF Merged
<1> QED
  BY <1>2 DEF Merged, Document

LEMMA AppliedStays ==
  ASSUME NEW o \in Operation, NEW d \in Document, ~NothingToDo(o, d), ~Refused(o, d)
  PROVE  Applied(o, d) \in Document
<1>1. d.settings \in [Fields -> Values] /\ d.memories \in Memories
  BY DEF Document
<1>2. /\ Len(d.memories) \in Nat
      /\ d = [settings |-> d.settings, memories |-> d.memories]
  BY <1>1, MemoriesAreSequences DEF Document
<1>3. \A m \in Memories : [d EXCEPT !.memories = m] \in Document
  BY DEF Document
<1>4. CASE o.kind = "patch"
  BY <1>4, OperationParts, MergedStays DEF Applied
<1>5. CASE o.kind = "add"
  <2>1. o.text \in Texts
    BY <1>5, OperationParts
  <2>2. Len(d.memories) < MAX_MEMORIES
    BY <1>2, <1>5, LimitAssumption DEF Refused
  <2>3. Append(d.memories, o.text) \in Memories
    BY <1>1, <2>1, <2>2, AppendStays
  <2>4. Applied(o, d) = [d EXCEPT !.memories = Append(d.memories, o.text)]
    BY <1>5 DEF Applied
  <2> QED
    BY <1>3, <2>3, <2>4
<1>6. CASE o.kind = "forget"
  <2>1. o.index \in 1..MAX_MEMORIES
    BY <1>6, OperationParts
  <2>2. o.index \in 1..Len(d.memories)
    BY <1>2, <1>6, <2>1, LimitAssumption DEF Refused
  <2>3. RemoveAt(d.memories, o.index) \in Memories
    BY <1>1, <2>2, RemoveStays
  <2>4. Applied(o, d) = [d EXCEPT !.memories = RemoveAt(d.memories, o.index)]
    BY <1>6 DEF Applied
  <2> QED
    BY <1>3, <2>3, <2>4
<1>7. CASE o.kind = "clear"
  <2>1. Applied(o, d) = [d EXCEPT !.memories = <<>>]
    BY <1>7 DEF Applied
  <2> QED
    BY <1>3, <2>1, EmptyIsMemories
<1>8. o.kind # "get"
  BY DEF NothingToDo
<1> QED
  BY <1>4, <1>5, <1>6, <1>7, <1>8, OperationParts

LEMMA PatchStays ==
  ASSUME NEW o \in Operation, NEW d \in Document, o.kind = "patch"
  PROVE  Applied(o, d) \in Document
<1>1. ~NothingToDo(o, d) /\ ~Refused(o, d)
  BY DEF NothingToDo, Refused
<1> QED
  BY <1>1, AppliedStays

LEMMA DefaultsAreDocument == Defaults \in Document
<1> QED
  BY DefaultAssumption, EmptyIsMemories DEF Defaults, Document

(* What the change of a quiet tab does to the document.                    *)
LEMMA ChangeIsExact ==
  ASSUME NEW o \in Operation, NEW d \in Document, ~NothingToDo(o, d)
  PROVE  /\ \A f \in Fields : Applied(o, d).settings[f] # d.settings[f] =>
              o.kind = "patch" /\ o.settings[f] # None
         /\ o.kind = "forget" => Applied(o, d).memories = RemoveAt(d.memories, o.index)
         /\ o.kind = "patch" /\ o.memories = None => Applied(o, d).memories = d.memories
<1>1. d = [settings |-> d.settings, memories |-> d.memories]
  BY DEF Document
<1>2. CASE o.kind = "patch"
  BY <1>2 DEF Applied, Merged
<1>3. CASE o.kind = "forget"
  <2>1. Applied(o, d) = [settings |-> d.settings, memories |-> RemoveAt(d.memories, o.index)]
    BY <1>1, <1>3 DEF Applied, Document
  <2> QED
    BY <1>3, <2>1
<1>4. CASE o.kind \in {"add", "clear"}
  <2>1. \E m : Applied(o, d) = [settings |-> d.settings, memories |-> m]
    BY <1>1, <1>4 DEF Applied, Document
  <2> QED
    BY <1>4, <2>1
<1>5. o.kind # "get"
  BY DEF NothingToDo
<1> QED
  BY <1>2, <1>3, <1>4, <1>5, OperationParts

-----------------------------------------------------------------------------
(* Lemmas about the steps                                                  *)

LEMMA CallsInductive ==
  ASSUME TypeOK, \A c \in Calls : CallAt(c), [Next]_vars
  PROVE  TypeOK' /\ (\A c \in Calls : CallAt(c))'
<1> DEFINE Goal == TypeOK /\ \A c \in Calls : CallAt(c)
<1> USE DEF TypeOK, InFlight, Causes
<1>1. ASSUME ResetSettings PROVE Goal'
  BY <1>1, DefaultsAreDocument DEF ResetSettings, CallAt
<1>2. ASSUME NEW c \in Calls, NEW t \in Tabs, NEW o \in Operation, Send(c, t, o) PROVE Goal'
  <2>1. (IF o.kind = "patch" THEN Applied(o, shown[t]) ELSE shown[t]) \in Document
    BY PatchStays
  <2>2. shown' \in [Tabs -> Document]
    BY <1>2, <2>1 DEF Send
  <2> QED
    BY <1>2, <2>2 DEF Send, Offered, CallAt
<1>3. ASSUME NEW c \in Calls, Load(c) \/ \E o \in Operation : SendOther(c, o) PROVE Goal'
  <2>1. CASE Load(c)
    BY <2>1 DEF Load, CallAt
  <2>2. ASSUME NEW o \in Operation, SendOther(c, o) PROVE Goal'
    BY <2>2 DEF SendOther, CallAt
  <2> HIDE DEF Goal
  <2> QED
    BY <1>3, <2>1, <2>2
<1>4. ASSUME NEW c \in Calls, Save(c) PROVE Goal'
  <2>1. doc' \in Document
    BY <1>4, AppliedStays DEF Save, CallAt
  <2>2. /\ pc' = [pc EXCEPT ![c] = "answered"] /\ read' = [read EXCEPT ![c] = doc']
        /\ UNCHANGED <<shown, op, caller, before>>
    BY <1>4 DEF Save
  <2>3. blurred' \in [Tabs -> SUBSET Causes]
    BY <1>4 DEF Save
  <2>4. TypeOK'
    BY <2>1, <2>2, <2>3
  <2>5. ASSUME NEW d \in Calls PROVE CallAt(d)'
    <3>1. CASE d = c
      BY <1>4, <2>1, <2>2, <3>1 DEF Save, CallAt
    <3>2. CASE d # c
      BY <2>2, <3>2 DEF CallAt
    <3> QED
      BY <3>1, <3>2
  <2> QED
    BY <2>4, <2>5
<1>5. ASSUME NEW c \in Calls, Fail(c) PROVE Goal'
  BY <1>5 DEF Fail, CallAt
<1>6. ASSUME NEW c \in Calls, LoseAnswer(c) PROVE Goal'
  BY <1>6 DEF LoseAnswer, CallAt
<1>7. ASSUME NEW c \in Calls, Deliver(c) PROVE Goal'
  BY <1>7 DEF Deliver, CallAt
<1>8. ASSUME NEW c \in Calls, Rollback(c) PROVE Goal'
  <2>1. (IF op[c].kind = "patch" THEN before[c] ELSE shown[caller[c]]) \in Document
    BY <1>8 DEF Rollback, CallAt
  <2>2. shown' \in [Tabs -> Document]
    BY <1>8, <2>1 DEF Rollback
  <2> QED
    BY <1>8, <2>2 DEF Rollback, CallAt
<1>9. ASSUME UNCHANGED vars PROVE Goal'
  BY <1>9 DEF vars, CallAt
<1> HIDE DEF Goal
<1>10. Goal'
  BY <1>1, <1>2, <1>3, <1>4, <1>5, <1>6, <1>7, <1>8, <1>9 DEF Next
<1> QED
  BY <1>10 DEF Goal

LEMMA TabsInductive ==
  ASSUME TypeOK, \A c \in Calls : CallAt(c), \A t \in Tabs : TabAt(t), [Next]_vars
  PROVE  (\A t \in Tabs : TabAt(t))'
<1> DEFINE Goal == \A t \in Tabs : TabAt(t)
<1>1. ASSUME ResetSettings PROVE Goal'
  BY <1>1 DEF TypeOK, ResetSettings, TabAt
<1>2. ASSUME NEW c \in Calls, NEW t \in Tabs, NEW o \in Operation, Send(c, t, o) PROVE Goal'
  <2>1. /\ pc[c] = "idle" /\ doc' = doc /\ read' = read
        /\ op' = [op EXCEPT ![c] = o] /\ caller' = [caller EXCEPT ![c] = t]
        /\ before' = [before EXCEPT ![c] = shown[t]] /\ pc' = [pc EXCEPT ![c] = "sent"]
        /\ shown' = [shown EXCEPT ![t] = IF o.kind = "patch" THEN Applied(o, shown[t]) ELSE shown[t]]
        /\ \A u \in Tabs \ {t} : blurred'[u] = blurred[u]
        /\ blurred[t] \subseteq blurred'[t] /\ (blurred'[t] = {} => Others(t) = {})
    BY <1>2 DEF Send, TypeOK
  <2>2. Others(t)' = Others(t) \cup {c}
    BY <2>1 DEF Others, TypeOK, InFlight
  <2>3. \A u \in Tabs \ {t} : Others(u)' = Others(u) /\ c \notin Others(u)
    BY <2>1 DEF Others, TypeOK, InFlight
  <2>4. TabAt(t)'
    BY <2>1, <2>2 DEF TabAt, OnlyCall, TypeOK
  <2>5. ASSUME NEW u \in Tabs \ {t} PROVE TabAt(u)'
    <3>1. \A d \in Others(u) : d \in Calls /\ d # c /\ caller[d] = u
      BY <2>3 DEF Others
    <3>2. \A d \in Others(u) : OnlyCall(d)' <=> OnlyCall(d)
      BY <2>1, <3>1 DEF OnlyCall, TypeOK
    <3> QED
      BY <2>1, <2>3, <3>2 DEF TabAt, TypeOK
  <2> QED
    BY <2>4, <2>5
<1>13. ASSUME NEW c \in Calls, NEW o \in Operation, SendOther(c, o) PROVE Goal'
  <2>1. /\ pc[c] = "idle" /\ caller[c] = None
        /\ op' = [op EXCEPT ![c] = o] /\ pc' = [pc EXCEPT ![c] = "sent"]
        /\ UNCHANGED <<doc, shown, caller, before, read, blurred>>
    BY <1>13 DEF SendOther, CallAt
  <2>2. \A u \in Tabs : Others(u)' = Others(u)
    BY <2>1, NoneAssumption DEF Others, TypeOK, InFlight
  <2>3. \A d \in Calls \ {c} : OnlyCall(d) => OnlyCall(d)'
    BY <2>1 DEF OnlyCall, TypeOK
  <2>4. \A u \in Tabs : c \notin Others(u)
    BY <2>1, NoneAssumption DEF Others
  <2> QED
    BY <2>1, <2>2, <2>3, <2>4 DEF TabAt, Others
<1>3. ASSUME NEW c \in Calls, Load(c) PROVE Goal'
  <2>1. /\ pc[c] = "sent" /\ pc'[c] \in {"answered", "failed", "loaded"}
        /\ pc' = [pc EXCEPT ![c] = pc'[c]] /\ read' = [read EXCEPT ![c] = doc]
        /\ UNCHANGED <<doc, shown, op, caller, before, blurred>>
    BY <1>3 DEF Load, TypeOK
  <2>2. \A u \in Tabs : Others(u)' = Others(u)
    BY <2>1 DEF Others, TypeOK, InFlight
  <2>3. \A d \in Calls : OnlyCall(d) => OnlyCall(d)'
    BY <2>1 DEF OnlyCall, TypeOK
  <2> QED
    BY <2>1, <2>2, <2>3 DEF TabAt, Others
<1>4. ASSUME NEW c \in Calls, Save(c) PROVE Goal'
  <2>1. /\ pc[c] = "loaded" /\ pc' = [pc EXCEPT ![c] = "answered"]
        /\ read' = [read EXCEPT ![c] = doc'] /\ UNCHANGED <<shown, op, caller, before>>
        /\ \A u \in Tabs : blurred'[u] = {} => u = caller[c] /\ blurred[u] = {}
    BY <1>4 DEF Save, TypeOK
  <2>2. \A u \in Tabs : Others(u)' = Others(u)
    BY <2>1 DEF Others, TypeOK, InFlight
  <2>3. c \in Others(caller[c])
    BY <2>1 DEF Others, InFlight
  <2>4. OnlyCall(c)'
    BY <2>1 DEF OnlyCall, TypeOK
  <2> QED
    BY <2>1, <2>2, <2>3, <2>4 DEF TabAt
<1>5. ASSUME NEW c \in Calls, Fail(c) PROVE Goal'
  <2>1. /\ pc[c] \in {"sent", "loaded"} /\ pc' = [pc EXCEPT ![c] = "failed"]
        /\ UNCHANGED <<doc, shown, op, caller, before, read, blurred>>
    BY <1>5 DEF Fail
  <2>2. \A u \in Tabs : Others(u)' = Others(u)
    BY <2>1 DEF Others, TypeOK, InFlight
  <2>3. \A d \in Calls : OnlyCall(d) => OnlyCall(d)'
    BY <2>1 DEF OnlyCall, TypeOK
  <2> QED
    BY <2>1, <2>2, <2>3 DEF TabAt, Others
<1>6. ASSUME NEW c \in Calls, LoseAnswer(c) PROVE Goal'
  <2>1. /\ pc[c] = "answered" /\ pc' = [pc EXCEPT ![c] = "failed"]
        /\ UNCHANGED <<doc, shown, op, caller, before, read>>
        /\ caller[c] \in Tabs
    BY <1>6 DEF LoseAnswer, TypeOK
  <2>2. \A u \in Tabs : blurred'[u] = {} => u # caller[c] /\ blurred[u] = {}
    BY <1>6, <2>1 DEF LoseAnswer, TypeOK
  <2>3. \A u \in Tabs : Others(u)' = Others(u)
    BY <2>1 DEF Others, TypeOK, InFlight
  <2>4. \A d \in Calls \ {c} : OnlyCall(d) => OnlyCall(d)'
    BY <2>1 DEF OnlyCall, TypeOK
  <2>5. ASSUME NEW u \in Tabs, blurred'[u] = {} PROVE TabAt(u)'
    <3>1. \A d \in Others(u) : d \in Calls \ {c}
      BY <2>2, <2>5 DEF Others
    <3> QED
      BY <2>1, <2>2, <2>3, <2>4, <2>5, <3>1 DEF TabAt
  <2> QED
    BY <2>5 DEF TabAt
<1>7. ASSUME NEW c \in Calls, NEW x \in {"answered", "failed"},
             pc[c] = x, pc' = [pc EXCEPT ![c] = "done"],
             UNCHANGED <<doc, op, caller, before, read, blurred>>, caller[c] \in Tabs,
             \A u \in Tabs \ {caller[c]} : shown'[u] = shown[u],
             blurred[caller[c]] = {} => shown'[caller[c]] = doc
      PROVE  Goal'
  <2>1. c \in Others(caller[c]) /\ \A u \in Tabs : Others(u)' = Others(u) \ {c}
    BY <1>7 DEF Others, TypeOK, InFlight
  <2>2. TabAt(caller[c])'
    <3> SUFFICES ASSUME blurred[caller[c]] = {}
                 PROVE  Others(caller[c])' = {} /\ shown'[caller[c]] = doc'
      BY <1>7 DEF TabAt
    <3> QED
      BY <1>7, <2>1 DEF TabAt
  <2>3. ASSUME NEW u \in Tabs, u # caller[c] PROVE TabAt(u)'
    <3>1. Others(u)' = Others(u) /\ \A d \in Others(u) : d \in Calls /\ d # c /\ caller[d] = u
      BY <2>1, <2>3 DEF Others
    <3>2. \A d \in Others(u) : OnlyCall(d) => OnlyCall(d)'
      BY <1>7, <2>3, <3>1 DEF OnlyCall, TypeOK
    <3> QED
      BY <1>7, <2>3, <3>1, <3>2 DEF TabAt
  <2> QED
    BY <1>7, <2>2, <2>3
<1>8. ASSUME NEW c \in Calls, Deliver(c) PROVE Goal'
  <2>1. c \in Others(caller[c]) /\ caller[c] \in Tabs
    BY <1>8 DEF Deliver, TypeOK, Others, InFlight
  <2>2. blurred[caller[c]] = {} => read[c] = doc
    BY <1>8, <2>1 DEF Deliver, TabAt, OnlyCall
  <2>3. /\ pc[c] = "answered" /\ pc' = [pc EXCEPT ![c] = "done"]
        /\ UNCHANGED <<doc, op, caller, before, read, blurred>>
        /\ shown' = [shown EXCEPT ![caller[c]] = read[c]]
    BY <1>8 DEF Deliver
  <2> HIDE DEF Goal
  <2> QED
    BY <1>7, <2>1, <2>2, <2>3 DEF TypeOK
<1>9. ASSUME NEW c \in Calls, Rollback(c) PROVE Goal'
  <2>1. c \in Others(caller[c]) /\ caller[c] \in Tabs
    BY <1>9 DEF Rollback, TypeOK, Others, InFlight
  <2>2. ASSUME blurred[caller[c]] = {}
        PROVE  (IF op[c].kind = "patch" THEN before[c] ELSE shown[caller[c]]) = doc
    <3>1. OnlyCall(c) /\ pc[c] = "failed"
      BY <1>9, <2>1, <2>2 DEF Rollback, TabAt
    <3> QED
      BY <3>1 DEF OnlyCall
  <2>3. /\ pc[c] = "failed" /\ pc' = [pc EXCEPT ![c] = "done"]
        /\ UNCHANGED <<doc, op, caller, before, read, blurred>>
        /\ shown' = [shown EXCEPT ![caller[c]] =
                       IF op[c].kind = "patch" THEN before[c] ELSE shown[caller[c]]]
    BY <1>9 DEF Rollback
  <2> HIDE DEF Goal
  <2> QED
    BY <1>7, <2>1, <2>2, <2>3 DEF TypeOK
<1>10. ASSUME UNCHANGED vars PROVE Goal'
  BY <1>10 DEF vars, TabAt, Others, OnlyCall
<1> HIDE DEF Goal
<1>11. Goal'
  BY <1>1, <1>2, <1>13, <1>3, <1>4, <1>5, <1>6, <1>8, <1>9, <1>10 DEF Next
<1> QED
  BY <1>11 DEF Goal

LEMMA IInvInit == Init => IInv
<1> SUFFICES ASSUME Init PROVE IInv
  OBVIOUS
<1>1. TypeOK
  BY DEF Init, TypeOK
<1>2. \A c \in Calls : CallAt(c)
  BY DEF Init, CallAt
<1>3. \A t \in Tabs : TabAt(t)
  BY DEF Init, TabAt, Others, InFlight
<1> QED
  BY <1>1, <1>2, <1>3 DEF IInv

LEMMA IInvInductive == IInv /\ [Next]_vars => IInv'
<1> QED
  BY CallsInductive, TabsInductive DEF IInv

LEMMA IInvAlways == Spec => []IInv
<1> QED
  BY IInvInit, IInvInductive, PTL DEF Spec

-----------------------------------------------------------------------------
(* Theorems                                                                *)

(* Every variable keeps its type.                                          *)
THEOREM TypeCorrect == Spec => []TypeOK
<1>1. IInv => TypeOK
  BY DEF IInv
<1> QED
  BY <1>1, IInvAlways, PTL

(* The optimistic changes of SettingsPage and their rollback: a tab that   *)
(* nothing blurred shows the document once its calls were answered.        *)
THEOREM QuietTabIsTrue == Spec => []QuietTabShowsDocument
<1>1. ASSUME IInv PROVE QuietTabShowsDocument
  <2> SUFFICES ASSUME AllAnswered, NEW t \in Tabs, blurred[t] = {} PROVE shown[t] = doc
    BY DEF QuietTabShowsDocument
  <2>1. Others(t) = {}
    BY NoneAssumption DEF AllAnswered, Others, InFlight
  <2> QED
    BY <1>1, <2>1 DEF IInv, TabAt
<1> QED
  BY <1>1, IInvAlways, PTL

(* A call of such a tab changes the field, or takes the memory, that its   *)
(* user pointed at, and nothing else.                                      *)
THEOREM QuietCallsAreExact == Spec => QuietCallIsExact
<1> DEFINE Exact(c) ==
      pc[c] = "loaded" /\ pc'[c] = "answered" /\ caller[c] # None /\ blurred[caller[c]] = {} =>
        /\ \A f \in Fields : doc'.settings[f] # doc.settings[f] =>
             op[c].kind = "patch" /\ op[c].settings[f] # None
        /\ op[c].kind = "forget" => doc'.memories = RemoveAt(before[c].memories, op[c].index)
        /\ op[c].kind = "patch" => doc'.memories = before[c].memories
<1>1. ASSUME IInv, Next PROVE \A c \in Calls : Exact(c)
  <2> SUFFICES ASSUME NEW c \in Calls, pc[c] = "loaded", pc'[c] = "answered",
                      caller[c] # None, blurred[caller[c]] = {}
               PROVE  Exact(c)
    OBVIOUS
  <2>1. Save(c)
    <3> USE <1>1 DEF IInv, TypeOK
    <3>1. ~ResetSettings
      BY DEF ResetSettings
    <3>2. ASSUME NEW d \in Calls, NEW t \in Tabs, NEW o \in Operation, Send(d, t, o) PROVE FALSE
      BY <3>2 DEF Send
    <3>5. ASSUME NEW d \in Calls, NEW o \in Operation, SendOther(d, o) PROVE FALSE
      BY <3>5 DEF SendOther
    <3>3. ASSUME NEW d \in Calls,
                 Load(d) \/ Fail(d) \/ LoseAnswer(d) \/ Deliver(d) \/ Rollback(d)
          PROVE  FALSE
      BY <3>3 DEF Load, Fail, LoseAnswer, Deliver, Rollback
    <3>4. ASSUME NEW d \in Calls, Save(d) PROVE d = c
      BY <3>4 DEF Save
    <3> QED
      BY <3>1, <3>2, <3>3, <3>4, <3>5 DEF Next
  <2>2. /\ op[c] \in Operation /\ read[c] \in Document /\ caller[c] \in Tabs
        /\ ~NothingToDo(op[c], read[c])
        /\ op[c].kind = "patch" => op[c].memories = None
    BY <1>1 DEF IInv, TypeOK, CallAt
  <2>3. c \in Others(caller[c])
    BY DEF Others, InFlight
  <2>4. read[c] = doc /\ before[c] = doc
    BY <1>1, <2>2, <2>3 DEF IInv, TabAt, OnlyCall
  <2>5. doc' = Applied(op[c], doc)
    BY <2>1, <2>4 DEF Save
  <2> QED
    BY <2>2, <2>4, <2>5, ChangeIsExact
<1>2. ASSUME IInv, UNCHANGED vars PROVE \A c \in Calls : Exact(c)
  BY <1>2 DEF vars
<1>3. IInv /\ [Next]_vars => [\A c \in Calls : Exact(c)]_vars
  BY <1>1, <1>2
<1> QED
  BY <1>3, IInvAlways, PTL DEF Spec, QuietCallIsExact
=============================================================================
