--------------------------- MODULE ChatView_proofs ---------------------------
(***************************************************************************)
(* Theorems about ChatView, for any sets of conversations and calls and    *)
(* any number of lists on their way: the types, the sidebar, what is shown *)
(* of a conversation, and whose tokens an answer is made of.               *)
(*                                                                         *)
(* Each has its own strengthening, proved on top of those before it: Types,*)
(* LInv for the sidebar, VInv for the messages on display and TInv for     *)
(* their tokens.                                                           *)
(***************************************************************************)
EXTENDS ChatView, SequenceLemmas

-----------------------------------------------------------------------------
(* Types                                                                   *)

(* Messages none of which has tokens of another call.                      *)
Own == {m \in Item : m.heard \subseteq {m.call}}
Load == [of : Known, seen : Seq(Own) \cup {None}]

(* The parts of TypeOK, of a list that was read with the above, and that a *)
(* call whose answer is to be shown has a conversation.                    *)
ServerTypes ==
  /\ asked \subseteq Calls /\ status \in [Calls -> Server!Status]
  /\ conv \in [Conversations -> {"unused", "open", "archived", "erased"}]
  /\ log \in [Conversations -> Seq(Calls)]
ViewTypes ==
  /\ listed \subseteq Object /\ doubled \subseteq Known /\ active \in Object \cup {None}
  /\ messages \in Seq(Item)
  /\ loads \in Seq(Load) /\ Len(loads) <= MaxLoads
CallTypes ==
  /\ kind \in [Calls -> {"none", "select", "new", "edit", "remove", "wipe"} \cup Sends]
  /\ step \in [Calls -> Steps]
  /\ target \in [Calls -> Known \cup {None}]
  /\ jump \in [Calls -> SUBSET (Object \cup {None})]
  /\ got \in [Calls -> SUBSET Known]
  /\ post \in [Calls -> {"none", "sent", "served"}]
  /\ stopped \subseteq Calls
  /\ \A k \in Calls : /\ step[k] \in {"patching", "removing"} => target[k] # None
                      /\ step[k] = "creating" /\ post[k] = "served" => target[k] # None
HistoryTypes == moved \subseteq Calls /\ blurred \subseteq ListCauses \cup ViewCauses
Types == ServerTypes /\ ViewTypes /\ CallTypes /\ HistoryTypes

LEMMA TypesImplyTypeOK == Types => TypeOK
<1> SUFFICES ASSUME Types PROVE TypeOK
  OBVIOUS
<1>1. Seq(Own) \subseteq Seq(Item)
  BY SeqMonotonic DEF Own
<1>2. Load \subseteq [of : Known, seen : Seq(Item) \cup {None}]
  BY <1>1 DEF Load
<1>3. loads \in Seq([of : Known, seen : Seq(Item) \cup {None}])
  BY <1>2, SeqMonotonic DEF Types, ViewTypes
<1> QED
  BY <1>3 DEF TypeOK, Types, ServerTypes, ViewTypes, CallTypes, HistoryTypes

LEMMA ItemTypes ==
  ASSUME NEW k \in Calls, NEW s \in BOOLEAN, NEW h \in SUBSET Calls
  PROVE  /\ Question(k, s) \in Own /\ Reply(k, s, h) \in Item
         /\ h \subseteq {k} => Reply(k, s, h) \in Own
BY DEF Own, Item, Question, Reply

(* What the server stores has the types of what the tab shows.             *)
LEMMA ListingTypes ==
  ASSUME ServerTypes, NEW c \in Conversations
  PROVE  Listing(c) \in Seq(Own)
<1> DEFINE Turns == [i \in DOMAIN log[c] |->
    <<Question(log[c][i], TRUE)>> \o
    (IF status[log[c][i]] = "complete" THEN <<Reply(log[c][i], TRUE, {log[c][i]})>> ELSE <<>>)]
<1>1. log[c] \in Seq(Calls)
  BY DEF ServerTypes
<1>2. ASSUME NEW i \in DOMAIN log[c] PROVE Turns[i] \in Seq(Own)
  <2>1. log[c][i] \in Calls
    BY <1>1
  <2>2. <<Question(log[c][i], TRUE)>> \in Seq(Own) /\ <<Reply(log[c][i], TRUE, {log[c][i]})>> \in Seq(Own)
    <3>1. Question(log[c][i], TRUE) \in Own /\ Reply(log[c][i], TRUE, {log[c][i]}) \in Own
      BY <2>1, ItemTypes
    <3> QED
      BY <3>1, OneElement
  <2>3. (IF status[log[c][i]] = "complete" THEN <<Reply(log[c][i], TRUE, {log[c][i]})>> ELSE <<>>) \in Seq(Own)
    BY <2>2, EmptySeq
  <2> QED
    BY <2>2, <2>3, ConcatProperties
<1>3. Turns \in Seq(Seq(Own))
  <2> HIDE DEF Turns
  <2>1. DOMAIN Turns = 1..Len(log[c]) /\ Len(log[c]) \in Nat
    BY <1>1 DEF Turns
  <2>2. Turns = [i \in DOMAIN Turns |-> Turns[i]]
    BY DEF Turns
  <2>3. \A i \in 1..Len(log[c]) : Turns[i] \in Seq(Own)
    BY <1>2, <2>1 DEF Turns
  <2> QED
    BY <2>1, <2>2, <2>3
<1>4. FlattenSeq(Turns) \in Seq(Own)
  <2> HIDE DEF Turns
  <2> QED
    BY <1>3, FlattenElements
<1> QED
  BY <1>4 DEF Listing

(* Objects name conversations, and are no conversation themselves.         *)
LEMMA ObjectTypes ==
  ASSUME NEW o \in Object
  PROVE  o.of \in Known /\ o.of \in Conversations /\ o # None
<1>1. o \in ObjectsOf(Conversations)
  BY DEF Object, ObjectsOf, Known
<1> QED
  BY <1>1, NoneAssumption DEF Object, ObjectsOf, Known

LEMMA NewObject ==
  ASSUME NEW k \in Calls, NEW c \in Known
  PROVE  /\ Returned(k, c) \in Object /\ Returned(k, c).of = c
         /\ InList(k, c) \in Object /\ InList(k, c).of = c
BY DEF Object, ObjectsOf, Returned, InList

LEMMA ShowTypes ==
  ASSUME Types, NEW o \in Object \cup {None}, Show(o)
  PROVE  active' = o /\ loads' \in Seq(Load) /\ Len(loads') \in Nat /\ Len(loads') <= MaxLoads
<1>1. loads \in Seq(Load) /\ Len(loads) \in Nat /\ Len(loads) < MaxLoads /\ MaxLoads \in Nat
  BY LoadsAssumption DEF Types, ViewTypes, Show
<1>2. CASE o = None
  BY <1>1, <1>2 DEF Show
<1>3. CASE o # None
  <2>1. [of |-> o.of, seen |-> None] \in Load
    BY <1>3, ObjectTypes DEF Load
  <2>2. loads' = Append(loads, [of |-> o.of, seen |-> None])
    BY <1>3 DEF Show
  <2>3. loads' \in Seq(Load) /\ Len(loads') = Len(loads) + 1
    BY <1>1, <2>1, <2>2, AppendProperties
  <2> QED
    BY <1>1, <2>3 DEF Show
<1> QED
  BY <1>2, <1>3 DEF Show

LEMMA OpenTypes ==
  ASSUME Types, NEW o \in Object \cup {None}, Open(o)
  PROVE  active' \in Object \cup {None} /\ loads' \in Seq(Load) /\ Len(loads') <= MaxLoads
BY ShowTypes DEF Open, Types, ViewTypes

LEMMA PlaceholderTypes ==
  ASSUME NEW k \in Calls, NEW shown \in Seq(Item), NEW how
  PROVE  Placeholder(k, shown, how) \in Seq(Item)
BY ItemTypes, AppendProperties DEF Placeholder

(* A conversation keeps its name.                                          *)
LEMMA KnownGrows ==
  ASSUME \A c \in Conversations : conv[c] # "unused" => conv'[c] # "unused"
  PROVE  Known \subseteq Known' /\ Object \subseteq Object' /\ Seq(Load) \subseteq Seq(Load')
<1>1. Known \subseteq Known'
  BY DEF Known
<1>2. Load \subseteq Load' /\ Object \subseteq Object'
  BY <1>1 DEF Load, Own, Item, Object, ObjectsOf
<1> QED
  BY <1>1, <1>2, SeqMonotonic

LEMMA ServeTypes ==
  ASSUME Types, NEW k \in Calls, Serve(k) PROVE Types'
<1>1. /\ post' = [post EXCEPT ![k] = "served"]
      /\ UNCHANGED <<listed, doubled, active, messages, loads, kind, step, jump, got, stopped, moved>>
      /\ blurred' \subseteq blurred \cup {"wiped", "erased"}
  BY DEF Serve, view
<1>2. /\ ServerTypes' /\ target' \in [Calls -> Known' \cup {None}]
      /\ \A c \in Conversations : conv[c] # "unused" => conv'[c] # "unused"
      /\ UNCHANGED target \/ (\E c \in Known' : target' = [target EXCEPT ![k] = c])
      /\ step[k] = "creating" => target'[k] # None
  <2> USE DEF Types, ServerTypes, CallTypes
  <2>1. CASE Create(k)
    <3>1. PICK c \in Conversations :
            conv[c] = "unused" /\ conv' = [conv EXCEPT ![c] = "open"] /\ target' = [target EXCEPT ![k] = c]
      BY <2>1 DEF Create
    <3>2. UNCHANGED <<asked, status, log>>
      BY <2>1 DEF Create
    <3>3. conv' \in [Conversations -> {"unused", "open", "archived", "erased"}] /\ conv'[c] = "open"
          /\ \A d \in Conversations : conv[d] # "unused" => conv'[d] # "unused"
      BY <3>1
    <3>4. Known \subseteq Known' /\ c \in Known' /\ c # None
      BY <3>3, NoneAssumption DEF Known
    <3> QED
      BY <3>1, <3>2, <3>3, <3>4
  <2>2. CASE Archive(k)
    <3>1. UNCHANGED <<asked, status, log, target>> /\ conv[target[k]] = "open"
          /\ conv' = [conv EXCEPT ![target[k]] = "archived"] /\ step[k] = "removing"
      BY <2>2 DEF Archive
    <3>2. conv' \in [Conversations -> {"unused", "open", "archived", "erased"}]
          /\ \A d \in Conversations : conv[d] # "unused" => conv'[d] # "unused"
      BY <3>1
    <3>3. Known \subseteq Known'
      BY <3>2 DEF Known
    <3> QED
      BY <3>1, <3>2, <3>3
  <2>3. CASE Change(k)
    <3>1. UNCHANGED <<asked, status, conv, log, target>> /\ step[k] = "patching"
      BY <2>3 DEF Change, server
    <3> QED
      BY <3>1 DEF Known
  <2>4. CASE Chat(k)
    <3>1. UNCHANGED <<conv, target>> /\ asked' = asked \cup {k} /\ step[k] \in {"chatting", "done"}
          /\ log' = [log EXCEPT ![target[k]] = Append(@, k)]
      BY <2>4 DEF Chat, Server!Turn
    <3>2. status' \in [Calls -> Server!Status]
      BY <2>4 DEF Chat, Server!Turn, Server!Status, Server!Terminal
    <3>3. log' \in [Conversations -> Seq(Calls)]
      <4>1. target[k] \in Conversations => Append(log[target[k]], k) \in Seq(Calls)
        BY AppendProperties
      <4>2. log \in [Conversations -> Seq(Calls)]
        OBVIOUS
      <4> QED
        BY <3>1, <4>1, <4>2
    <3> QED
      BY <3>1, <3>2, <3>3 DEF Known
  <2>5. CASE Erase(k)
    <3>1. UNCHANGED target /\ step[k] = "wiping" /\ log' = [c \in Conversations |-> <<>>]
          /\ conv' = [c \in Conversations |-> IF conv[c] = "unused" THEN "unused" ELSE "erased"]
      BY <2>5 DEF Erase
    <3>2. asked' \subseteq Calls /\ status' \in [Calls -> Server!Status]
      BY <2>5 DEF Erase, Server!Erase, Server!Status
    <3>3. log' \in [Conversations -> Seq(Calls)]
      BY <3>1, EmptySeq
    <3>4. Known' = Known
      BY <3>1 DEF Known
    <3> QED
      BY <3>1, <3>2, <3>3, <3>4
  <2> QED
    BY <2>1, <2>2, <2>3, <2>4, <2>5 DEF Serve
<1>3. Known \subseteq Known' /\ Object \subseteq Object' /\ Seq(Load) \subseteq Seq(Load')
  BY <1>2, KnownGrows
<1>4. ViewTypes'
  BY <1>1, <1>3 DEF Types, ViewTypes, Item
<1>5. CallTypes'
  <2>1. jump' \in [Calls -> SUBSET (Object' \cup {None})]
    BY <1>1, <1>3 DEF Types, CallTypes
  <2>2. got' \in [Calls -> SUBSET Known'] /\ post' \in [Calls -> {"none", "sent", "served"}]
    BY <1>1, <1>3 DEF Types, CallTypes
  <2>3. ASSUME NEW j \in Calls
        PROVE  /\ step'[j] \in {"patching", "removing"} => target'[j] # None
               /\ step'[j] = "creating" /\ post'[j] = "served" => target'[j] # None
    <3>1. CASE j = k
      BY <1>1, <1>2, <3>1, NoneAssumption DEF Types, CallTypes, Known
    <3>2. CASE j # k
      BY <1>1, <1>2, <3>2 DEF Types, CallTypes
    <3> QED
      BY <3>1, <3>2
  <2> QED
    BY <1>1, <1>2, <2>1, <2>2, <2>3 DEF Types, CallTypes
<1>6. HistoryTypes'
  BY <1>1 DEF Types, HistoryTypes, ListCauses, ViewCauses
<1> QED
  BY <1>2, <1>4, <1>5, <1>6 DEF Types

LEMMA SettleTypes ==
  ASSUME Types, NEW k \in Calls, Settle(k) PROVE Types'
<1>1. UNCHANGED <<asked, conv, log, view, calls, post, moved, blurred>>
  BY DEF Settle, Server!Settle
<1>2. status' \in [Calls -> Server!Status]
  BY DEF Settle, Server!Settle, Server!Status, Server!Terminal, Types, ServerTypes
<1>3. Known' = Known /\ Load' = Load /\ Object' = Object
  BY <1>1 DEF Known, Load, Own, Item, Object, ObjectsOf
<1> QED
  BY <1>1, <1>2, <1>3
  DEF Types, ServerTypes, ViewTypes, CallTypes, HistoryTypes, view, calls, Item

(* Requests for messages, from the reading of a list to its arrival.       *)
LEMMA LoadTypes ==
  ASSUME Types, ReadMessages \/ LandMessages \/ LoseMessages PROVE Types'
<1> USE DEF Types, ViewTypes
<1>1. UNCHANGED <<server, listed, doubled, active, calls, post>>
  BY DEF ReadMessages, LandMessages, LoseMessages
<1>2. Known' = Known /\ Load' = Load /\ Object' = Object /\ ServerTypes' /\ CallTypes'
  BY <1>1 DEF server, calls, Known, Load, Own, Item, Object, ObjectsOf, ServerTypes, CallTypes
<1>3. PICK i \in DOMAIN loads :
        /\ loads' = RemoveAt(loads, i)
           \/ (conv[loads[i].of] = "open" /\ loads' = [loads EXCEPT ![i].seen = Listing(loads[i].of)])
        /\ messages' = messages \/ (loads[i].seen # None /\ messages' = loads[i].seen)
  BY DEF ReadMessages, LandMessages, LoseMessages
<1>4. i \in 1..Len(loads) /\ Len(loads) \in Nat /\ loads[i] \in Load /\ MaxLoads \in Nat
  BY LoadsAssumption
<1>5. messages' \in Seq(Item)
  <2>1. Seq(Own) \subseteq Seq(Item)
    BY SeqMonotonic DEF Own
  <2> QED
    BY <1>3, <1>4, <2>1 DEF Load
<1>6. loads' \in Seq(Load) /\ Len(loads') <= MaxLoads
  <2>1. CASE loads' = RemoveAt(loads, i)
    <3>1. loads' \in Seq(Load) /\ Len(loads') = Len(loads) - 1
      BY <2>1, RemoveAtTypes
    <3> QED
      BY <1>4, <3>1
  <2>2. CASE loads' = [loads EXCEPT ![i].seen = Listing(loads[i].of)]
    <3>1. loads[i].of \in Conversations
      BY <1>4 DEF Load, Known
    <3>2. [loads[i] EXCEPT !.seen = Listing(loads[i].of)] \in Load
      BY <1>4, <3>1, ListingTypes DEF Load
    <3>3. loads' = [loads EXCEPT ![i] = [loads[i] EXCEPT !.seen = Listing(loads[i].of)]]
      BY <2>2
    <3>4. loads' \in Seq(Load) /\ Len(loads') = Len(loads)
      BY <1>4, <3>2, <3>3, ExceptSeq
    <3> QED
      BY <3>4
  <2> QED
    BY <1>3, <2>1, <2>2
<1>7. HistoryTypes'
  BY DEF HistoryTypes, ReadMessages, LandMessages, LoseMessages, InProgress, ViewCauses
<1> QED
  BY <1>1, <1>2, <1>5, <1>6, <1>7

LEMMA ClickTypes ==
  ASSUME Types, NEW k \in Calls,
         \/ Select(k) \/ NewConversation(k) \/ Edit(k) \/ DeleteConversation(k)
         \/ WipeConversations(k) \/ Send(k) \/ Stop(k)
  PROVE  Types'
<1>1. UNCHANGED <<server, listed, doubled>>
  BY DEF Select, NewConversation, Edit, DeleteConversation, WipeConversations, Send, Stop, view
<1>2. Known' = Known /\ Load' = Load /\ Object' = Object /\ ServerTypes'
  BY <1>1 DEF server, Known, Load, Own, Item, Object, ObjectsOf, ServerTypes, Types
<1>3. CallTypes'
  <2>1. ASSUME NEW c \in Known \cup {None}, NEW j \in SUBSET (Object \cup {None}),
               NEW m \in {"none", "select", "new", "edit", "remove", "wipe"} \cup Sends,
               NEW s \in Steps, NEW p \in {"none", "sent"},
               kind' = [kind EXCEPT ![k] = m], step' = [step EXCEPT ![k] = s],
               target' = [target EXCEPT ![k] = c], jump' = [jump EXCEPT ![k] = j],
               post' = [post EXCEPT ![k] = p], UNCHANGED <<got, stopped>>,
               s \in {"patching", "removing"} => c # None
        PROVE  CallTypes'
    <3>1. /\ kind' \in [Calls -> {"none", "select", "new", "edit", "remove", "wipe"} \cup Sends]
          /\ step' \in [Calls -> Steps] /\ post' \in [Calls -> {"none", "sent", "served"}]
          /\ target' \in [Calls -> Known \cup {None}] /\ jump' \in [Calls -> SUBSET (Object \cup {None})]
      BY <2>1 DEF Types, CallTypes
    <3>2. ASSUME NEW i \in Calls
          PROVE  /\ step'[i] \in {"patching", "removing"} => target'[i] # None
                 /\ step'[i] = "creating" /\ post'[i] = "served" => target'[i] # None
      BY <2>1 DEF Types, CallTypes
    <3> QED
      BY <1>2, <2>1, <3>1, <3>2 DEF Types, CallTypes
  <2>2. CASE Select(k)
    <3>1. /\ kind' = [kind EXCEPT ![k] = "select"] /\ step' = [step EXCEPT ![k] = "done"]
          /\ UNCHANGED <<target, jump, got, stopped, post>>
      BY <2>2 DEF Select
    <3> QED
      BY <1>2, <3>1 DEF Types, CallTypes, Steps
  <2>3. target[k] \in Known \cup {None} /\ jump[k] \in SUBSET (Object \cup {None})
        /\ (UNCHANGED target => target' = [target EXCEPT ![k] = target[k]])
        /\ (UNCHANGED jump => jump' = [jump EXCEPT ![k] = jump[k]])
    BY DEF Types, CallTypes
  <2>4. CASE NewConversation(k) \/ WipeConversations(k)
    <3>1. PICK m \in {"new", "wipe"}, s \in {"creating", "wiping"} :
            kind' = [kind EXCEPT ![k] = m] /\ step' = [step EXCEPT ![k] = s]
      BY <2>4 DEF NewConversation, WipeConversations
    <3>2. post' = [post EXCEPT ![k] = "sent"] /\ UNCHANGED <<got, stopped>>
          /\ target' = [target EXCEPT ![k] = target[k]] /\ jump' = [jump EXCEPT ![k] = jump[k]]
      BY <2>3, <2>4 DEF NewConversation, WipeConversations
    <3> QED
      BY <2>1, <2>3, <3>1, <3>2 DEF Steps
  <2>6. ASSUME NEW o \in listed \cup ({active} \ {None})
        PROVE  o.of \in Known /\ o.of # None
    BY ObjectTypes, NoneAssumption DEF Types, ViewTypes
  <2>7. CASE Edit(k)
    <3>1. PICK o \in listed \cup ({active} \ {None}) :
            /\ target' = [target EXCEPT ![k] = o.of]
            /\ \E j \in {{}, {active}} : jump' = [jump EXCEPT ![k] = j]
      BY <2>7 DEF Edit
    <3>2. {active} \in SUBSET (Object \cup {None})
      BY DEF Types, ViewTypes
    <3> QED
      BY <2>1, <2>6, <2>7, <3>1, <3>2 DEF Edit, Steps
  <2>8. CASE DeleteConversation(k)
    <3>1. PICK o \in listed \cup ({active} \ {None}) :
            target' = [target EXCEPT ![k] = o.of]
      BY <2>8 DEF DeleteConversation
    <3>5. target' = [target EXCEPT ![k] = o.of]
      BY <3>1
    <3>6. \/ jump' = [jump EXCEPT ![k] = {}]
          \/ \E n \in listed \cup {None} : jump' = [jump EXCEPT ![k] = {n}]
      BY <2>8 DEF DeleteConversation, Without
    <3>2. PICK j \in SUBSET (Object \cup {None}) : jump' = [jump EXCEPT ![k] = j]
      <4>1. \A n \in listed \cup {None} : {n} \in SUBSET (Object \cup {None})
        BY DEF Types, ViewTypes
      <4> QED
        BY <3>6, <4>1
    <3>3. /\ kind' = [kind EXCEPT ![k] = "remove"] /\ step' = [step EXCEPT ![k] = "removing"]
          /\ post' = [post EXCEPT ![k] = "sent"] /\ UNCHANGED <<got, stopped>>
      BY <2>8 DEF DeleteConversation
    <3>4. o.of \in Known /\ o.of # None
      BY <2>6
    <3> QED
      BY <2>1, <3>2, <3>3, <3>4, <3>5 DEF Steps
  <2>9. CASE Send(k)
    <3>1. PICK how \in Sends, first \in {"creating", "patching", "chatting"} :
            /\ (first = "creating") <=> (active = None)
            /\ kind' = [kind EXCEPT ![k] = how] /\ step' = [step EXCEPT ![k] = first]
      BY <2>9 DEF Send
    <3> DEFINE c == IF active = None THEN None ELSE active.of
    <3>2. /\ post' = [post EXCEPT ![k] = "sent"] /\ UNCHANGED <<got, stopped>>
          /\ target' = [target EXCEPT ![k] = c] /\ jump' = [jump EXCEPT ![k] = jump[k]]
      BY <2>3, <2>9 DEF Send
    <3>3. c \in Known \cup {None} /\ (first \in {"patching", "removing"} => c # None)
      BY <3>1, ObjectTypes, NoneAssumption DEF Types, ViewTypes
    <3> HIDE DEF c
    <3> QED
      BY <2>1, <2>3, <3>1, <3>2, <3>3 DEF Steps
  <2>10. CASE Stop(k)
    <3>1. /\ step' = [step EXCEPT ![k] = IF @ = "chatting" THEN "done" ELSE @]
          /\ UNCHANGED <<kind, target, jump, got, post>> /\ stopped' = stopped \cup {k}
      BY <2>10 DEF Stop
    <3> QED
      BY <1>2, <3>1 DEF Types, CallTypes, Steps
  <2> QED
    BY <2>2, <2>4, <2>7, <2>8, <2>9, <2>10
<1>4. messages' \in Seq(Item)
  <2>1. CASE Send(k)
    <3>1. Append(messages, Question(k, FALSE)) \in Seq(Item)
      <4>1. Question(k, FALSE) \in Item /\ messages \in Seq(Item)
        BY ItemTypes DEF Own, Types, ViewTypes
      <4> QED
        BY <4>1, AppendProperties
    <3>2. \A how : Placeholder(k, Append(messages, Question(k, FALSE)), how) \in Seq(Item)
      BY <3>1, PlaceholderTypes
    <3> QED
      BY <2>1, <3>1, <3>2 DEF Send
  <2>2. CASE ~Send(k)
    <3>1. messages' \in {messages, <<>>}
      BY <2>2 DEF Select, Open, NewConversation, Edit, DeleteConversation, WipeConversations, Stop, view
    <3> QED
      BY <3>1, EmptySeq DEF Types, ViewTypes
  <2> QED
    BY <2>1, <2>2
<1>5. active' \in Object \cup {None} /\ loads' \in Seq(Load) /\ Len(loads') <= MaxLoads
  <2>1. CASE Select(k)
    BY <2>1, OpenTypes DEF Select, Types, ViewTypes
  <2>2. CASE ~Select(k)
    BY <2>2 DEF NewConversation, Edit, DeleteConversation, WipeConversations, Send, Stop, view, Types, ViewTypes
  <2> QED
    BY <2>1, <2>2
<1>6. ViewTypes'
  BY <1>1, <1>2, <1>4, <1>5 DEF Types, ViewTypes, Item
<1>7. HistoryTypes'
  BY DEF Types, HistoryTypes, Select, Open, Blanked, NewConversation, Edit, DeleteConversation,
         WipeConversations, Send, Stop, InProgress, ViewCauses
<1> QED
  BY <1>2, <1>3, <1>6, <1>7 DEF Types

LEMMA AnswerTypes ==
  ASSUME Types, NEW k \in Calls, Answer(k) PROVE Types'
<1>1. UNCHANGED <<server, target, jump, stopped, kind>>
  BY DEF Answer, Created, Updated, Removed, Wiped, Answered, ReadList, Refreshed
<1>2. Known' = Known /\ Load' = Load /\ Object' = Object /\ ServerTypes'
  BY <1>1 DEF server, Known, Load, Own, Item, Object, ObjectsOf, ServerTypes, Types
<1>3. CallTypes'
  <2>1. /\ \E s \in {"chatting", "refreshing", "refreshed", "done"} : step' = [step EXCEPT ![k] = s]
        /\ UNCHANGED post \/ \E p \in {"none", "sent"} : post' = [post EXCEPT ![k] = p]
        /\ UNCHANGED got \/ \E g \in SUBSET Known : got' = [got EXCEPT ![k] = g]
    BY DEF Answer, Created, Updated, Removed, Wiped, Answered, ReadList, Refreshed, Proceed, Finish, calls, view, Known
  <2>2. ASSUME NEW i \in Calls
        PROVE  /\ step'[i] \in {"patching", "removing"} => target'[i] # None
               /\ step'[i] = "creating" /\ post'[i] = "served" => target'[i] # None
    BY <1>1, <2>1 DEF Types, CallTypes
  <2>3. step' \in [Calls -> Steps] /\ post' \in [Calls -> {"none", "sent", "served"}]
        /\ got' \in [Calls -> SUBSET Known]
    BY <2>1 DEF Types, CallTypes, Steps
  <2> QED
    BY <1>1, <1>2, <2>2, <2>3 DEF Types, CallTypes
<1>4. messages' \in Seq(Item)
  <2>1. messages \in Seq(Item) /\ Placeholder(k, messages, kind[k]) \in Seq(Item)
    BY PlaceholderTypes DEF Types, ViewTypes
  <2>2. Append(messages, Reply(k, TRUE, {k})) \in Seq(Item)
    <3>1. Reply(k, TRUE, {k}) \in Item
      BY ItemTypes
    <3> QED
      BY <2>1, <3>1, AppendProperties
  <2>3. messages' \in {messages, <<>>, Placeholder(k, messages, kind[k]), Append(messages, Reply(k, TRUE, {k}))}
    <3>1. Created(k) \/ Updated(k) =>
            messages' \in {messages, <<>>, Placeholder(k, messages, kind[k])}
      BY DEF Created, Updated, Proceed
    <3>2. Removed(k) \/ Wiped(k) \/ ReadList(k) \/ Refreshed(k) => messages' \in {messages, <<>>}
      BY DEF Removed, Open, Wiped, ReadList, Refreshed, view
    <3>3. Answered(k) => messages' \in {messages, Append(messages, Reply(k, TRUE, {k}))}
      BY DEF Answered
    <3> QED
      BY <3>1, <3>2, <3>3 DEF Answer
  <2> QED
    BY <2>1, <2>2, <2>3, EmptySeq
<1>5. /\ jump[k] \subseteq Object \cup {None} /\ got[k] \subseteq Known
      /\ (step[k] = "creating" /\ post[k] = "served") \/ step[k] = "patching" => target[k] \in Known
      /\ target[k] \in got[k] => target[k] \in Known
  BY DEF Types, CallTypes
<1>6. /\ active' \in Object \cup {None} /\ loads' \in Seq(Load) /\ Len(loads') <= MaxLoads
      /\ listed' \subseteq Object /\ doubled' \subseteq Known
  <2> USE DEF Types, ViewTypes
  <2>1. CASE Created(k)
    <3>1. target[k] \in Known /\ Returned(k, target[k]) \in Object
      BY <1>5, <2>1, NewObject DEF Created
    <3>2. Returned(k, target[k]).of = target[k]
      BY <3>1, NewObject
    <3> QED
      BY <2>1, <3>1, <3>2, ShowTypes DEF Created, List
  <2>2. CASE Updated(k)
    <3>1. Returned(k, target[k]) \in Object
      BY <1>5, <2>2, NewObject DEF Updated
    <3>2. UNCHANGED listed \/ Replace(Returned(k, target[k]))
      BY <2>2 DEF Updated
    <3>3. UNCHANGED <<active, loads>> \/ Show(Returned(k, target[k]))
      BY <2>2 DEF Updated
    <3>4. UNCHANGED doubled
      BY <2>2 DEF Updated
    <3> QED
      BY <3>1, <3>2, <3>3, <3>4, ShowTypes DEF Replace
  <2>3. CASE Removed(k)
    <3>1. listed' \subseteq listed /\ doubled' \subseteq doubled
      BY <2>3 DEF Removed, Without
    <3>2. UNCHANGED <<active, loads>> \/ \E n \in jump[k] : Open(n)
      BY <2>3 DEF Removed
    <3> QED
      BY <1>5, <3>1, <3>2, OpenTypes
  <2>4. CASE Refreshed(k)
    <3>1. listed' = {InList(k, c) : c \in got[k]} /\ doubled' = {}
      BY <2>4 DEF Refreshed
    <3>2. UNCHANGED <<active, loads>> \/ (target[k] \in got[k] /\ Show(InList(k, target[k])))
      BY <2>4 DEF Refreshed
    <3> QED
      BY <1>5, <3>1, <3>2, NewObject, ShowTypes
  <2>5. CASE Wiped(k) \/ Answered(k) \/ ReadList(k)
    BY <2>5 DEF Wiped, Answered, ReadList, view
  <2> QED
    BY <2>1, <2>2, <2>3, <2>4, <2>5 DEF Answer
<1>7. ViewTypes'
  BY <1>2, <1>4, <1>6 DEF ViewTypes, Item
<1>8. HistoryTypes'
  BY DEF Types, HistoryTypes, Answer, Created, Updated, Removed, Open, Blanked, Wiped, Answered, ReadList,
         Refreshed, Early, Proceed, Outdated, InProgress, ViewCauses, ListCauses
<1> QED
  BY <1>2, <1>3, <1>7, <1>8 DEF Types

LEMMA OtherTypes ==
  ASSUME Types, NEW k \in Calls, Token(k) \/ Fail(k) PROVE Types'
<1>1. UNCHANGED <<server, listed, doubled, active, loads, kind, target, jump, stopped>>
  BY DEF Token, Fail, calls
<1>2. Known' = Known /\ Load' = Load /\ Object' = Object /\ ServerTypes'
  BY <1>1 DEF server, Known, Load, Own, Item, Object, ObjectsOf, ServerTypes, Types
<1>3. CallTypes'
  <2>1. UNCHANGED <<step, post, got>>
        \/ /\ step' = [step EXCEPT ![k] = "done"] /\ post' = [post EXCEPT ![k] = "none"]
           /\ got' = [got EXCEPT ![k] = {}]
    BY DEF Token, Fail, Finish, calls
  <2>2. ASSUME NEW i \in Calls
        PROVE  /\ step'[i] \in {"patching", "removing"} => target'[i] # None
               /\ step'[i] = "creating" /\ post'[i] = "served" => target'[i] # None
    BY <1>1, <2>1 DEF Types, CallTypes
  <2> QED
    BY <1>1, <1>2, <2>1, <2>2 DEF Types, CallTypes, Steps
<1>4. messages' \in Seq(Item)
  <2>1. messages \in Seq(Item)
    BY DEF Types, ViewTypes
  <2>2. CASE Fail(k)
    <3>1. Reply(k, FALSE, {}) \in Item
      BY ItemTypes
    <3>2. Append(messages, Reply(k, FALSE, {})) \in Seq(Item)
      BY <2>1, <3>1, AppendProperties
    <3> QED
      BY <2>1, <2>2, <3>2 DEF Fail
  <2>3. CASE Token(k)
    <3> DEFINE n == Len(messages)
    <3>1. n \in 1..Len(messages)
      BY <2>1, <2>3, EmptySeq DEF Token
    <3>2. [messages[n] EXCEPT !.heard = @ \cup {k}] \in Item
      <4>1. \A m \in Item : [m EXCEPT !.heard = @ \cup {k}] \in Item
        BY DEF Item
      <4>2. messages[n] \in Item
        BY <2>1, <3>1, ElementOfSeq
      <4> QED
        BY <4>1, <4>2
    <3>3. messages' = [messages EXCEPT ![n] = [messages[n] EXCEPT !.heard = @ \cup {k}]]
      BY <2>3 DEF Token
    <3> HIDE DEF n
    <3> QED
      BY <2>1, <3>1, <3>2, <3>3, ExceptSeq
  <2> QED
    BY <2>2, <2>3
<1>5. HistoryTypes'
  BY DEF Types, HistoryTypes, Token, Fail, ViewCauses, ListCauses
<1> QED
  BY <1>1, <1>2, <1>3, <1>4, <1>5 DEF Types, ViewTypes, Item

LEMMA TypesInit == Init => Types
<1> SUFFICES ASSUME Init PROVE Types
  OBVIOUS
<1>1. ServerTypes
  <2>1. \A k \in Past : <<k>> \in Seq(Calls)
    BY PastAssumption, OneElement
  <2>2. log \in [Conversations -> Seq(Calls)]
    <3>1. {<<>>} \cup {<<k>> : k \in Past} \subseteq Seq(Calls)
      BY <2>1, EmptySeq
    <3>2. log \in [Conversations -> {<<>>} \cup {<<k>> : k \in Past}]
      BY DEF Init
    <3> QED
      BY <3>1, <3>2
  <2>3. asked \subseteq Calls /\ status \in [Calls -> Server!Status]
    BY PastAssumption DEF Init, Server!Status, Server!Terminal
  <2>4. conv \in [Conversations -> {"unused", "open", "archived", "erased"}]
    BY DEF Init
  <2> QED
    BY <2>2, <2>3, <2>4 DEF ServerTypes
<1>2. CallTypes /\ HistoryTypes
  BY DEF Init, CallTypes, HistoryTypes, Steps
<1>3. ViewTypes
  <2>1. listed \subseteq Object /\ active \in Object \cup {None}
    BY DEF Init, Object, ObjectsOf, InList
  <2>2. active # None => [of |-> active.of, seen |-> None] \in Load
    BY <2>1, ObjectTypes DEF Load
  <2>3. loads \in Seq(Load) /\ Len(loads) <= 1
    BY <2>2, OneElement, EmptySeq DEF Init
  <2> QED
    BY <2>1, <2>3, LoadsAssumption, EmptySeq DEF Init, ViewTypes
<1> QED
  BY <1>1, <1>2, <1>3 DEF Types

LEMMA TypesInductive == Types /\ [Next]_vars => Types'
<1> SUFFICES ASSUME Types, [Next]_vars PROVE Types'
  OBVIOUS
<1>1. CASE UNCHANGED vars
  <2>1. Known' = Known /\ Load' = Load /\ Object' = Object
    BY <1>1 DEF vars, server, Known, Load, Own, Item, Object, ObjectsOf
  <2> QED
    BY <1>1, <2>1 DEF vars, server, view, calls, Types, ServerTypes, ViewTypes, CallTypes, HistoryTypes, Item
<1> QED
  BY <1>1, ServeTypes, SettleTypes, LoadTypes, ClickTypes, AnswerTypes, OtherTypes DEF Next

-----------------------------------------------------------------------------
(* The sidebar                                                             *)

(* Changes the server made and the tab has not heard of.                   *)
Unlisted(k) == step[k] = "creating" /\ post[k] = "served"
Unheard(k) == step[k] \in {"creating", "removing"} /\ post[k] = "served"
Pending == {x \in Conversations : \E k \in Calls : Unheard(k) /\ target[k] = x}

(* What is known of the conversations that calls created and archived.     *)
CallsAt ==
  /\ \A k \in Calls : step[k] = "removing" /\ post[k] = "served" => conv[target[k]] # "open"
  /\ \A j, k \in Calls : Unlisted(j) /\ Unlisted(k) /\ target[j] = target[k] => j = k

(* A list says of every other conversation whether it is open.             *)
Agrees(list) == \A x \in Conversations \ Pending : x \in list <=> conv[x] = "open"

ListsAgree == Agrees(Listed) /\ \A k \in Calls : step[k] = "refreshed" => Agrees(got[k])

(* What is created will be listed once.                                    *)
ListsOnce == doubled = {} /\ \A k \in Calls : Unlisted(k) => target[k] \notin Listed

LInv == CallsAt /\ (blurred \cap ListCauses = {} => ListsAgree /\ ListsOnce)

LEMMA ListedTypes == Types => Listed \subseteq Known /\ Known \subseteq Conversations
BY ObjectTypes DEF Types, ViewTypes, Listed, Ids, Known

(* A step that changes no conversation and no list, neither makes a call   *)
(* refreshed nor touches one that creates or archives.                     *)
LEMMA ListsElsewhere ==
  ASSUME LInv, UNCHANGED <<conv, Listed, doubled>>, blurred \cap ListCauses \subseteq blurred',
         \A k \in Calls :
           /\ Unheard(k)' <=> Unheard(k)
           /\ Unheard(k) => step'[k] = step[k] /\ target'[k] = target[k]
           /\ step'[k] = "refreshed" => step[k] = "refreshed" /\ got'[k] = got[k]
  PROVE  LInv'
<1>1. \A k \in Calls : Unlisted(k)' => Unlisted(k) /\ target'[k] = target[k]
  BY DEF Unlisted, Unheard
<1>2. CallsAt'
  BY <1>1 DEF LInv, CallsAt, Unheard
<1>3. Pending' = Pending
  BY DEF Pending
<1>4. ASSUME ListsAgree PROVE ListsAgree'
  BY <1>3, <1>4 DEF ListsAgree, Agrees
<1>5. ASSUME ListsOnce PROVE ListsOnce'
  BY <1>1, <1>5 DEF ListsOnce
<1> QED
  BY <1>2, <1>4, <1>5 DEF LInv

LEMMA ServeLists ==
  ASSUME Types, LInv, NEW k \in Calls, Serve(k) PROVE LInv'
<1> USE DEF LInv
<1>1. /\ post[k] = "sent" /\ post' = [post EXCEPT ![k] = "served"]
      /\ UNCHANGED <<listed, doubled, step, got>> /\ blurred \subseteq blurred'
      /\ post \in [Calls -> {"none", "sent", "served"}] /\ target \in [Calls -> Known \cup {None}]
      /\ conv \in [Conversations -> {"unused", "open", "archived", "erased"}]
  BY DEF Serve, view, Types, CallTypes, ServerTypes
<1>2. Listed' = Listed
  BY <1>1 DEF Listed, Ids
<1>3. CASE Create(k)
  <2>1. PICK c \in Conversations :
          /\ conv[c] = "unused" /\ step[k] = "creating"
          /\ conv' = [conv EXCEPT ![c] = "open"] /\ target' = [target EXCEPT ![k] = c]
    BY <1>3 DEF Create
  <2>2. c \notin Listed /\ \A j \in Calls : target[j] # c
    BY <1>1, <2>1, ListedTypes, NoneAssumption DEF Known
  <2>3. CallsAt'
    BY <1>1, <2>1, <2>2 DEF CallsAt, Unlisted
  <2>4. Pending' = Pending \cup {c}
    BY <1>1, <2>1 DEF Pending, Unheard
  <2>5. ASSUME ListsAgree PROVE ListsAgree'
    BY <1>1, <1>2, <2>1, <2>4, <2>5 DEF ListsAgree, Agrees
  <2>6. ASSUME ListsOnce PROVE ListsOnce'
    BY <1>1, <1>2, <2>1, <2>2, <2>6 DEF ListsOnce, Unlisted
  <2> QED
    BY <1>1, <2>3, <2>5, <2>6
<1>4. CASE Archive(k)
  <2>1. /\ step[k] = "removing" /\ target[k] \in Conversations /\ target' = target
        /\ conv' = [conv EXCEPT ![target[k]] = "archived"]
    BY <1>4 DEF Archive, Types, CallTypes, Known
  <2>2. CallsAt'
    BY <1>1, <2>1 DEF CallsAt, Unlisted
  <2>3. Pending' = Pending \cup {target[k]}
    BY <1>1, <2>1 DEF Pending, Unheard
  <2>4. ASSUME ListsAgree PROVE ListsAgree'
    BY <1>1, <1>2, <2>1, <2>3, <2>4 DEF ListsAgree, Agrees
  <2>5. ASSUME ListsOnce PROVE ListsOnce'
    BY <1>1, <1>2, <2>1, <2>5 DEF ListsOnce, Unlisted
  <2> QED
    BY <1>1, <2>2, <2>4, <2>5
<1>5. CASE Erase(k)
  <2>1. /\ step[k] = "wiping" /\ target' = target /\ "wiped" \in blurred'
        /\ \A c \in Conversations : conv'[c] # "open"
    BY <1>5 DEF Serve, Erase, Create, Change, Archive, Chat
  <2>2. target \in [Calls -> Conversations \cup {None}] /\ \A j \in Calls : step[j] = "removing" => target[j] # None
    BY DEF Types, CallTypes, Known
  <2>3. CallsAt'
    BY <1>1, <2>1, <2>2 DEF CallsAt, Unlisted
  <2> QED
    BY <2>1, <2>3 DEF ListCauses
<1>6. CASE Change(k) \/ Chat(k)
  <2>1. UNCHANGED <<conv, target>> /\ step[k] \notin {"creating", "removing"}
    BY <1>6 DEF Change, Chat, server
  <2> HIDE DEF LInv
  <2> QED
    BY <1>1, <1>2, <2>1, ListsElsewhere DEF Unheard
<1> QED
  BY <1>3, <1>4, <1>5, <1>6 DEF Serve

(* The call whose answer arrives is heard of, the others are where they were. *)
LEMMA Heard ==
  ASSUME Types, NEW k \in Calls, Unheard(k),
         UNCHANGED target, NEW s \in {"done", "chatting"}, NEW p \in {"none", "sent"},
         step' = [step EXCEPT ![k] = s], post' = [post EXCEPT ![k] = p]
  PROVE  /\ Pending \subseteq Pending' \cup {target[k]} /\ Pending' \subseteq Pending
         /\ \A j \in Calls : Unlisted(j)' <=> Unlisted(j) /\ j # k
         /\ \A j \in Calls : j # k => step'[j] = step[j] /\ post'[j] = post[j]
         /\ step'[k] = s /\ post'[k] = p
<1>1. step \in [Calls -> Steps] /\ post \in [Calls -> {"none", "sent", "served"}]
  BY DEF Types, CallTypes
<1> QED
  BY <1>1 DEF Pending, Unheard, Unlisted

LEMMA CreatedLists ==
  ASSUME Types, LInv, NEW k \in Calls, Created(k) PROVE LInv'
<1> DEFINE new == Returned(k, target[k])
<1>1. /\ Unheard(k) /\ Unlisted(k) /\ UNCHANGED <<conv, target, got>> /\ List(new)
      /\ blurred' = blurred \cup Outdated(k)
  BY DEF Created, Unheard, Unlisted, server
<1>2. new.of = target[k]
  BY DEF Returned
<1>3. Listed' = Listed \cup {target[k]}
  BY <1>1, <1>2 DEF List, Listed, Ids
<1>4. PICK s \in {"done", "chatting"}, p \in {"none", "sent"} :
        step' = [step EXCEPT ![k] = s] /\ post' = [post EXCEPT ![k] = p]
  BY DEF Created, Proceed, Finish
<1>5. /\ Pending \subseteq Pending' \cup {target[k]} /\ Pending' \subseteq Pending
      /\ \A j \in Calls : Unlisted(j)' <=> Unlisted(j) /\ j # k
      /\ \A j \in Calls : j # k => step'[j] = step[j] /\ post'[j] = post[j]
      /\ step'[k] = s /\ post'[k] = p
  BY <1>1, <1>4, Heard
<1>6. CallsAt'
  BY <1>1, <1>5 DEF LInv, CallsAt
<1>7. ASSUME blurred' \cap ListCauses = {}
      PROVE  /\ conv[target[k]] = "open" /\ \A j \in Calls : step[j] # "refreshed"
             /\ ListsAgree /\ ListsOnce
  BY <1>1, <1>7 DEF Created, Outdated, ListCauses, LInv
<1>8. ASSUME blurred' \cap ListCauses = {} PROVE ListsAgree'
  BY <1>1, <1>3, <1>5, <1>7, <1>8 DEF ListsAgree, Agrees
<1>9. ASSUME blurred' \cap ListCauses = {} PROVE ListsOnce'
  <2>1. target[k] \notin Listed /\ doubled' = {}
    BY <1>1, <1>2, <1>7, <1>9 DEF ListsOnce, List
  <2>2. \A j \in Calls : Unlisted(j)' => target[j] \notin Listed /\ target[j] # target[k]
    BY <1>1, <1>5, <1>7, <1>9 DEF ListsOnce, LInv, CallsAt
  <2> QED
    BY <1>1, <1>3, <2>1, <2>2 DEF ListsOnce
<1> QED
  BY <1>6, <1>8, <1>9 DEF LInv

LEMMA RemovedLists ==
  ASSUME Types, LInv, NEW k \in Calls, Removed(k) PROVE LInv'
<1>1. /\ Unheard(k) /\ UNCHANGED <<conv, target, got>> /\ conv[target[k]] # "open"
      /\ listed' = Without(target[k]) /\ doubled' = doubled \ {target[k]}
      /\ blurred \cup Outdated(k) \subseteq blurred'
      /\ step' = [step EXCEPT ![k] = "done"] /\ post' = [post EXCEPT ![k] = "none"]
  BY DEF Removed, Unheard, Finish, server, LInv, CallsAt
<1>2. Listed' = Listed \ {target[k]}
  BY <1>1 DEF Without, Listed, Ids
<1>3. /\ Pending \subseteq Pending' \cup {target[k]} /\ Pending' \subseteq Pending
      /\ \A j \in Calls : Unlisted(j)' <=> Unlisted(j) /\ j # k
      /\ \A j \in Calls : j # k => step'[j] = step[j] /\ post'[j] = post[j]
      /\ step'[k] = "done" /\ post'[k] = "none"
  BY <1>1, Heard
<1>4. CallsAt'
  BY <1>1, <1>3 DEF LInv, CallsAt
<1>5. ASSUME blurred' \cap ListCauses = {}
      PROVE  (\A j \in Calls : step[j] # "refreshed") /\ ListsAgree /\ ListsOnce
  BY <1>1, <1>5 DEF Outdated, ListCauses, LInv
<1>6. ASSUME blurred' \cap ListCauses = {} PROVE ListsAgree'
  BY <1>1, <1>2, <1>3, <1>5, <1>6 DEF ListsAgree, Agrees
<1>7. ASSUME blurred' \cap ListCauses = {} PROVE ListsOnce'
  BY <1>1, <1>2, <1>3, <1>5, <1>7 DEF ListsOnce
<1> QED
  BY <1>4, <1>6, <1>7 DEF LInv

LEMMA RefreshLists ==
  ASSUME Types, LInv, NEW k \in Calls, ReadList(k) \/ Refreshed(k) PROVE LInv'
<1>1. /\ UNCHANGED <<conv, target>> /\ blurred \subseteq blurred'
      /\ step \in [Calls -> Steps] /\ post \in [Calls -> {"none", "sent", "served"}]
      /\ got \in [Calls -> SUBSET Known]
  BY DEF ReadList, Refreshed, server, Types, CallTypes
<1>2. /\ step[k] \in {"refreshing", "refreshed"} /\ step'[k] \in {"refreshed", "done"}
      /\ \A j \in Calls : j # k => step'[j] = step[j] /\ post'[j] = post[j] /\ got'[j] = got[j]
  BY <1>1 DEF ReadList, Refreshed, Finish
<1>3. \A j \in Calls : (Unheard(j)' <=> Unheard(j)) /\ (Unlisted(j)' <=> Unlisted(j))
  BY <1>2 DEF Unheard, Unlisted
<1>4. Pending' = Pending
  BY <1>1, <1>3 DEF Pending
<1>5. CallsAt'
  BY <1>1, <1>2, <1>3 DEF LInv, CallsAt
<1>6. CASE ReadList(k)
  <2>1. UNCHANGED <<listed, doubled, blurred>> /\ got'[k] = {c \in Conversations : conv[c] = "open"}
    BY <1>1, <1>6 DEF ReadList, view
  <2>2. Listed' = Listed
    BY <2>1 DEF Listed, Ids
  <2>3. ASSUME ListsAgree PROVE ListsAgree'
    BY <1>1, <1>2, <1>4, <2>1, <2>2, <2>3 DEF ListsAgree, Agrees
  <2>4. ASSUME ListsOnce PROVE ListsOnce'
    BY <1>1, <1>3, <2>1, <2>2, <2>4 DEF ListsOnce
  <2> QED
    BY <1>5, <2>1, <2>3, <2>4 DEF LInv
<1>7. CASE Refreshed(k)
  <2>1. /\ step[k] = "refreshed" /\ step'[k] = "done" /\ doubled' = {}
        /\ listed' = {InList(k, c) : c \in got[k]} /\ blurred \cup Early(k) \subseteq blurred'
    BY <1>1, <1>7 DEF Refreshed, Finish
  <2>2. Listed' = got[k]
    <3>1. Listed' = Ids({InList(k, c) : c \in got[k]})
      BY <2>1 DEF Listed, Ids
    <3>2. \A c \in got[k] : InList(k, c).of = c
      BY DEF InList
    <3> QED
      BY <3>1, <3>2 DEF Ids
  <2>3. ASSUME ListsAgree PROVE ListsAgree'
    BY <1>1, <1>2, <1>4, <2>1, <2>2, <2>3 DEF ListsAgree, Agrees
  <2>4. ASSUME blurred' \cap ListCauses = {} PROVE ListsOnce'
    <3>1. "early" \notin Early(k)
      BY <2>1, <2>4 DEF ListCauses
    <3>2. \A j \in Calls : Unlisted(j) => target[j] \notin got[k]
      BY <3>1 DEF Early, Unlisted
    <3> QED
      BY <1>1, <1>3, <2>1, <2>2, <3>2 DEF ListsOnce
  <2> QED
    BY <1>1, <1>5, <2>3, <2>4 DEF LInv
<1> QED
  BY <1>6, <1>7

LEMMA FailLists ==
  ASSUME Types, LInv, NEW k \in Calls, Fail(k) PROVE LInv'
<1>1. /\ UNCHANGED <<conv, target>> /\ "unlisted" \in blurred'
      /\ step' = [step EXCEPT ![k] = "done"] /\ post' = [post EXCEPT ![k] = "none"]
      /\ step \in [Calls -> Steps] /\ post \in [Calls -> {"none", "sent", "served"}]
  BY DEF Fail, Finish, server, Types, CallTypes
<1>2. CallsAt'
  BY <1>1 DEF LInv, CallsAt, Unlisted
<1> QED
  BY <1>1, <1>2 DEF LInv, ListCauses

LEMMA ClickLists ==
  ASSUME Types, LInv, NEW k \in Calls,
         \/ Select(k) \/ NewConversation(k) \/ Edit(k) \/ DeleteConversation(k)
         \/ WipeConversations(k) \/ Send(k) \/ Stop(k)
  PROVE  LInv'
<1>1. /\ UNCHANGED <<conv, listed, doubled, got>> /\ blurred \cap ListCauses \subseteq blurred'
      /\ step \in [Calls -> Steps] /\ post \in [Calls -> {"none", "sent", "served"}]
      /\ target \in [Calls -> Known \cup {None}]
  BY DEF Select, NewConversation, Edit, DeleteConversation, WipeConversations, Send, Stop, server, view,
         ListCauses, ViewCauses, Types, CallTypes
<1>2. Listed' = Listed
  BY <1>1 DEF Listed, Ids
<1>3. PICK s \in Steps \ {"refreshed"} : step' = [step EXCEPT ![k] = s]
  <2>1. CASE Stop(k)
    BY <1>1, <2>1 DEF Stop, InProgress, Steps
  <2>2. CASE Send(k)
    <3>1. \E first \in {"creating", "patching", "chatting"} : step' = [step EXCEPT ![k] = first]
      BY <2>2 DEF Send
    <3> QED
      BY <3>1 DEF Steps
  <2>3. CASE Select(k) \/ NewConversation(k) \/ Edit(k) \/ DeleteConversation(k) \/ WipeConversations(k)
    <3>1. \E s \in {"done", "creating", "patching", "removing", "wiping"} : step' = [step EXCEPT ![k] = s]
      BY <2>3 DEF Select, NewConversation, Edit, DeleteConversation, WipeConversations
    <3> QED
      BY <3>1 DEF Steps
  <2> QED
    BY <2>1, <2>2, <2>3
<1>4. /\ \/ step'[k] \notin {"creating", "removing"} /\ step[k] \notin {"creating", "removing"}
         \/ step[k] = "idle" /\ post'[k] = "sent"
         \/ step'[k] = step[k] /\ UNCHANGED <<post, target>>
      /\ \A j \in Calls : j # k => post'[j] = post[j] /\ target'[j] = target[j]
  <2>1. CASE Select(k)
    BY <1>1, <2>1 DEF Select
  <2>2. CASE NewConversation(k) \/ WipeConversations(k)
    BY <1>1, <2>2 DEF NewConversation, WipeConversations
  <2>3. CASE Edit(k) \/ DeleteConversation(k)
    <3>1. step[k] = "idle" /\ post' = [post EXCEPT ![k] = "sent"] /\ \E c : target' = [target EXCEPT ![k] = c]
      BY <2>3 DEF Edit, DeleteConversation
    <3> QED
      BY <1>1, <3>1
  <2>4. CASE Send(k)
    <3>1. step[k] = "idle" /\ post' = [post EXCEPT ![k] = "sent"] /\ \E c : target' = [target EXCEPT ![k] = c]
      BY <2>4 DEF Send
    <3> QED
      BY <1>1, <3>1
  <2>5. CASE Stop(k)
    BY <1>1, <1>3, <2>5 DEF Stop, InProgress
  <2> QED
    BY <2>1, <2>2, <2>3, <2>4, <2>5
<1>5. ASSUME NEW j \in Calls
      PROVE  /\ Unheard(j)' <=> Unheard(j)
             /\ Unheard(j) => step'[j] = step[j] /\ target'[j] = target[j]
             /\ step'[j] = "refreshed" => step[j] = "refreshed" /\ got'[j] = got[j]
  BY <1>1, <1>3, <1>4 DEF Unheard
<1> QED
  BY <1>1, <1>2, <1>5, ListsElsewhere

LEMMA OtherLists ==
  ASSUME Types, LInv,
         \/ ReadMessages \/ LandMessages \/ LoseMessages
         \/ \E k \in Calls : Settle(k) \/ Updated(k) \/ Wiped(k) \/ Answered(k) \/ Token(k)
         \/ UNCHANGED vars
  PROVE  LInv'
<1>1. ASSUME UNCHANGED <<conv, listed, doubled, step, target, got, post>>, blurred \subseteq blurred'
      PROVE  LInv'
  <2>1. Listed' = Listed
    BY <1>1 DEF Listed, Ids
  <2> QED
    BY <1>1, <2>1, ListsElsewhere DEF Unheard
<1>2. CASE ReadMessages \/ LandMessages \/ LoseMessages
  BY <1>1, <1>2 DEF ReadMessages, LandMessages, LoseMessages, server, calls
<1>3. ASSUME NEW k \in Calls, Settle(k) \/ Token(k) PROVE LInv'
  BY <1>1, <1>3 DEF Settle, Token, server, view, calls
<1>4. ASSUME NEW k \in Calls, Updated(k) \/ Wiped(k) \/ Answered(k) PROVE LInv'
  <2>1. /\ UNCHANGED <<conv, doubled, target, got, blurred>>
        /\ step[k] \in {"patching", "wiping", "chatting"}
        /\ \E s \in {"done", "chatting", "refreshing"} : step' = [step EXCEPT ![k] = s]
        /\ UNCHANGED post \/ \E p \in {"none", "sent"} : post' = [post EXCEPT ![k] = p]
    BY <1>4 DEF Updated, Wiped, Answered, Proceed, Finish, server, view
  <2>2. step \in [Calls -> Steps] /\ post \in [Calls -> {"none", "sent", "served"}]
    BY DEF Types, CallTypes
  <2>3. Listed' = Listed
    <3>1. CASE UNCHANGED listed
      BY <3>1 DEF Listed, Ids
    <3>2. CASE Replace(Returned(k, target[k]))
      <4>1. Listed' = Ids({IF o.of = Returned(k, target[k]).of THEN Returned(k, target[k]) ELSE o : o \in listed})
        BY <3>2 DEF Replace, Listed, Ids
      <4> QED
        BY <4>1 DEF Listed, Ids
    <3> QED
      BY <1>4, <3>1, <3>2 DEF Updated, Wiped, Answered, view
  <2> QED
    BY <2>1, <2>2, <2>3, ListsElsewhere DEF Unheard
<1>5. CASE UNCHANGED vars
  BY <1>1, <1>5 DEF vars, server, view, calls
<1> QED
  BY <1>2, <1>3, <1>4, <1>5

LEMMA LInvInit == Init => LInv
<1> SUFFICES ASSUME Init PROVE LInv
  OBVIOUS
<1>1. \A k \in Calls : step[k] \in {"idle", "done"}
  BY DEF Init
<1>2. Listed = Known
  <2>1. \A c \in Known : InList(None, c).of = c
    BY DEF InList
  <2>2. Listed = {o.of : o \in {InList(None, c) : c \in Known}}
    BY DEF Init, Listed, Ids
  <2> QED
    BY <2>1, <2>2
<1>3. ListsAgree
  BY <1>1, <1>2 DEF Init, ListsAgree, Agrees, Known
<1> QED
  BY <1>1, <1>3 DEF Init, LInv, CallsAt, Unlisted, ListsOnce

LEMMA LInvInductive == Types /\ LInv /\ [Next]_vars => LInv'
<1> SUFFICES ASSUME Types, LInv, [Next]_vars PROVE LInv'
  OBVIOUS
<1>1. ASSUME NEW k \in Calls, Answer(k) PROVE LInv'
  BY <1>1, CreatedLists, RemovedLists, RefreshLists, OtherLists DEF Answer
<1> QED
  BY <1>1, ServeLists, ClickLists, FailLists, OtherLists DEF Next

-----------------------------------------------------------------------------
(* The messages on display                                                 *)

(* Nothing happened that the view need not recover from.                   *)
Clean == blurred \cap ViewCauses = {}
(* Sends that will ask for the messages again when they end.               *)
UnderWay == {k \in Calls : kind[k] \in Sends /\ step[k] \notin {"idle", "done"}}

(* How far a call is, and what its state says of why the view may differ.  *)
CallStands(k) ==
  /\ step[k] \in {"chatting", "refreshing", "refreshed"} => kind[k] \in Sends
  /\ step[k] \in {"removing", "wiping"} => kind[k] \notin Sends
  /\ k \in stopped => step[k] = "done" \/ (step[k] # "idle" /\ ~Clean)
  /\ step[k] \in {"idle", "done"} /\ post[k] = "sent" => ~Clean
  /\ status[k] = "streaming" => step[k] = "chatting" \/ ~Clean

(* The list asked for last is that of the active conversation, and none is *)
(* missing: what it has read is what the server still stores.              *)
Latest ==
  Clean /\ UnderWay = {} =>
    /\ loads = <<>> => messages = IF active = None THEN <<>> ELSE Listing(active.of)
    /\ loads # <<>> /\ active # None => /\ Last(loads).of = active.of
                                        /\ Last(loads).seen \in {None, Listing(active.of)}

VInv == (\A k \in Calls : CallStands(k)) /\ Latest

LEMMA ListingSame ==
  ASSUME UNCHANGED <<log, status, active>> PROVE Listing(active.of)' = Listing(active.of)
BY DEF Listing

LEMMA LatestElsewhere ==
  ASSUME Latest, UNCHANGED <<log, status, active, loads, messages>>,
         ~Clean => ~Clean', UnderWay # {} => UnderWay' # {}
  PROVE  Latest'
BY ListingSame DEF Latest

LEMMA LatestShown ==
  ASSUME Types, NEW o \in Object, Show(o) PROVE Latest'
<1>1. loads \in Seq(Load) /\ o # None
  BY ObjectTypes DEF Types, ViewTypes
<1>2. active' = o /\ loads' = Append(loads, [of |-> o.of, seen |-> None])
  BY <1>1 DEF Show
<1>3. /\ Len(loads) \in Nat /\ loads' # <<>> /\ Len(loads') = Len(loads) + 1
      /\ loads'[Len(loads) + 1] = [of |-> o.of, seen |-> None]
  <2>1. loads \in Seq(Load \cup {[of |-> o.of, seen |-> None]})
    BY <1>1, SeqMonotonic
  <2> QED
    BY <1>2, <2>1, AppendProperties
<1>4. Last(loads)' = [of |-> o.of, seen |-> None]
  BY <1>3 DEF Last
<1> QED
  BY <1>2, <1>3, <1>4 DEF Latest

(* What is active already is not asked for again, and is not shown either. *)
LEMMA LatestOpened ==
  ASSUME Types, NEW o \in Object \cup {None}, Open(o), Blanked(o) \subseteq blurred' PROVE Latest'
<1>1. CASE o = active /\ o # None
  BY <1>1 DEF Blanked, Latest, Clean, ViewCauses
<1>2. CASE o = None
  <2>1. active' = None /\ messages' = <<>>
    BY <1>2 DEF Open, Show
  <2> QED
    BY <2>1 DEF Latest
<1>3. CASE o # active /\ o # None
  BY <1>3, LatestShown DEF Open
<1> QED
  BY <1>1, <1>2, <1>3

LEMMA StandsElsewhere ==
  ASSUME NEW k \in Calls, \A j \in Calls : CallStands(j), ~Clean => ~Clean',
         \A j \in Calls \ {k} :
           /\ UNCHANGED <<kind[j], step[j], post[j], status[j]>>
           /\ j \in stopped' => j \in stopped,
         CallStands(k)'
  PROVE  (\A j \in Calls : CallStands(j))'
BY DEF CallStands

LEMMA ServeStands ==
  ASSUME Types, VInv, NEW k \in Calls, Serve(k) PROVE VInv'
<1>1. /\ post' = [post EXCEPT ![k] = "served"] /\ post[k] = "sent"
      /\ UNCHANGED <<active, messages, loads, kind, step, stopped>> /\ blurred \subseteq blurred'
      /\ post \in [Calls -> {"none", "sent", "served"}]
  BY DEF Serve, view, Types, CallTypes
<1>2. (~Clean => ~Clean') /\ UnderWay' = UnderWay /\ CallStands(k)
  BY <1>1 DEF Clean, UnderWay, VInv
<1>3. CASE UNCHANGED <<status, log>>
  <2>1. Latest'
    BY <1>1, <1>2, <1>3, LatestElsewhere DEF VInv
  <2>2. CallStands(k)'
    BY <1>1, <1>2, <1>3 DEF CallStands, Types, CallTypes
  <2>3. \A j \in Calls \ {k} :
           /\ UNCHANGED <<kind[j], step[j], post[j], status[j]>>
           /\ j \in stopped' => j \in stopped
    BY <1>1, <1>3 DEF Types, CallTypes
  <2> QED
    BY <1>2, <2>1, <2>2, <2>3, StandsElsewhere DEF VInv
<1>4. CASE Chat(k)
  <2>1. step[k] = "chatting" \/ (step[k] = "done" /\ ~Clean)
    BY <1>1, <1>2, <1>4 DEF Chat, CallStands
  <2>2. PICK s : status' = [status EXCEPT ![k] = s]
    BY <1>4 DEF Chat, Server!Turn
  <2>3. CallStands(k)'
    BY <1>1, <1>2, <2>1 DEF CallStands, Types, CallTypes
  <2>4. \A j \in Calls \ {k} :
           /\ UNCHANGED <<kind[j], step[j], post[j], status[j]>>
           /\ j \in stopped' => j \in stopped
    BY <1>1, <2>2 DEF Types, CallTypes, ServerTypes
  <2>5. Latest'
    BY <1>2, <2>1 DEF CallStands, UnderWay, Latest
  <2> QED
    BY <1>2, <2>3, <2>4, <2>5, StandsElsewhere DEF VInv
<1>5. CASE Erase(k)
  <2>1. "erased" \in blurred' /\ \A j \in Calls : status'[j] # "streaming"
    BY <1>5 DEF Serve, Erase, Create, Change, Archive, Chat
  <2>2. ~Clean'
    BY <2>1 DEF Clean, ViewCauses
  <2>3. ASSUME NEW j \in Calls PROVE CallStands(j)'
    BY <1>1, <2>1, <2>2 DEF VInv, CallStands
  <2> QED
    BY <2>2, <2>3 DEF VInv, Latest
<1> QED
  BY <1>3, <1>4, <1>5 DEF Serve, Create, Archive, Change, server

LEMMA SettleStands ==
  ASSUME Types, VInv, NEW k \in Calls, Settle(k) PROVE VInv'
<1>1. /\ status[k] = "streaming"
      /\ UNCHANGED <<log, active, messages, loads, kind, step, post, stopped, blurred>>
  BY DEF Settle, Server!Settle, view, calls
<1>2. PICK s \in Server!Terminal : status' = [status EXCEPT ![k] = s]
  BY DEF Settle, Server!Settle
<1>3. Clean' = Clean /\ UnderWay' = UnderWay /\ CallStands(k)
  BY <1>1 DEF Clean, UnderWay, VInv
<1>4. status'[k] # "streaming"
  BY <1>2 DEF Types, ServerTypes, Server!Terminal
<1>5. CallStands(k)'
  BY <1>1, <1>3, <1>4 DEF CallStands
<1>6. \A j \in Calls \ {k} : status'[j] = status[j]
  BY <1>2 DEF Types, ServerTypes
<1>7. Latest'
  BY <1>1, <1>3 DEF CallStands, UnderWay, Latest
<1> QED
  BY <1>1, <1>3, <1>5, <1>6, <1>7, StandsElsewhere DEF VInv

LEMMA LoadsStand ==
  ASSUME Types, VInv, ReadMessages \/ LandMessages \/ LoseMessages PROVE VInv'
<1>1. /\ UNCHANGED <<log, status, active, kind, step, post, stopped>>
      /\ blurred \subseteq blurred'
  BY DEF ReadMessages, LandMessages, LoseMessages, server, calls
<1>2. (~Clean => ~Clean') /\ UnderWay' = UnderWay /\ Listing(active.of)' = Listing(active.of)
  BY <1>1, ListingSame DEF Clean, UnderWay
<1>3. (\A k \in Calls : CallStands(k))'
  BY <1>1, <1>2 DEF VInv, CallStands
<1>4. /\ loads \in Seq(Load) /\ Len(loads) \in Nat
      /\ \A i \in 1..Len(loads) : loads[i] \in Load
  BY DEF Types, ViewTypes
<1>5. ASSUME Clean', UnderWay' = {}, loads # <<>>, active # None
      PROVE  /\ Last(loads).of = active.of
             /\ Last(loads).seen \in {None, Listing(active.of)}
  BY <1>2, <1>5 DEF VInv, Latest
<1>6. CASE LoseMessages
  BY <1>3, <1>6 DEF LoseMessages, Latest, VInv, Clean, ViewCauses
<1>7. CASE ReadMessages
  <2>1. PICK i \in 1..Len(loads) :
          loads' = [loads EXCEPT ![i] = [loads[i] EXCEPT !.seen = Listing(loads[i].of)]]
    <3>1. PICK i \in DOMAIN loads : loads' = [loads EXCEPT ![i].seen = Listing(loads[i].of)]
      BY <1>7 DEF ReadMessages
    <3>2. i \in 1..Len(loads)
      BY <1>4
    <3> QED
      BY <3>1, <3>2
  <2>2. /\ loads # <<>> /\ loads' # <<>> /\ Len(loads') = Len(loads)
        /\ loads'[Len(loads)] = IF i = Len(loads) THEN [loads[i] EXCEPT !.seen = Listing(loads[i].of)]
                                ELSE loads[Len(loads)]
    BY <1>4, <2>1, EmptySeq
  <2>3. loads[i].of = active.of => [loads[i] EXCEPT !.seen = Listing(loads[i].of)].seen = Listing(active.of)
    BY <1>4 DEF Load
  <2>4. [loads[i] EXCEPT !.seen = Listing(loads[i].of)].of = loads[i].of
    BY <1>4 DEF Load
  <2>5. ASSUME Clean', UnderWay' = {}, active # None
        PROVE  /\ Last(loads').of = active.of
               /\ Last(loads').seen \in {None, Listing(active.of)}
    BY <1>5, <2>2, <2>3, <2>4, <2>5 DEF Last
  <2>6. Latest'
    BY <1>1, <1>2, <2>2, <2>5 DEF Latest
  <2> QED
    BY <1>3, <2>6 DEF VInv
<1>8. CASE LandMessages
  <2>1. PICK i \in DOMAIN loads :
          /\ loads[i].seen # None /\ messages' = loads[i].seen /\ loads' = RemoveAt(loads, i)
          /\ blurred' = blurred \cup (IF i # 1 \/ active = None THEN {"overtaken"} ELSE {})
    BY <1>8 DEF LandMessages
  <2>2. /\ loads' \in Seq(Load) /\ Len(loads') = Len(loads) - 1
        /\ \A j \in 1..Len(loads) - 1 : loads'[j] = IF j < i THEN loads[j] ELSE loads[j + 1]
    BY <1>4, <2>1, RemoveAtTypes
  <2>3. loads # <<>> /\ i \in 1..Len(loads)
    BY <1>4, <2>1, EmptySeq
  <2>4. SUFFICES ASSUME Clean', UnderWay' = {} PROVE Latest'
    BY <1>3 DEF Latest, VInv
  <2>5. i = 1 /\ active # None
    BY <2>1, <2>4 DEF Clean, ViewCauses
  <2>6. CASE Len(loads) = 1
    <3>1. loads' = <<>>
      BY <2>2, <2>6, EmptySeq
    <3>2. messages' = Listing(active.of)
      BY <1>5, <2>1, <2>3, <2>4, <2>5, <2>6 DEF Last
    <3> QED
      BY <1>1, <1>2, <2>5, <3>1, <3>2 DEF Latest
  <2>7. CASE Len(loads) # 1
    <3>1. Len(loads) - 1 \in 1..Len(loads) - 1 /\ (Len(loads) - 1) + 1 = Len(loads)
      <4>1. \A n \in Nat : 1 \in 1..n /\ n # 1 => n - 1 \in 1..n - 1 /\ (n - 1) + 1 = n
        OBVIOUS
      <4>2. 1 \in 1..Len(loads)
        BY <1>4, <2>3
      <4> QED
        BY <1>4, <2>7, <4>1, <4>2
    <3>2. loads'[Len(loads) - 1] = loads[Len(loads)]
      BY <2>2, <2>5, <3>1
    <3>3. loads' # <<>>
      BY <2>2, <3>1, EmptySeq
    <3>4. Last(loads') = Last(loads)
      BY <2>2, <3>2 DEF Last
    <3> QED
      BY <1>1, <1>2, <1>5, <2>3, <2>4, <2>5, <3>3, <3>4 DEF Latest
  <2> QED
    BY <2>6, <2>7
<1> QED
  BY <1>3, <1>6, <1>7, <1>8 DEF VInv

LEMMA ClicksStand ==
  ASSUME Types, VInv, NEW k \in Calls,
         \/ Select(k) \/ NewConversation(k) \/ Edit(k) \/ DeleteConversation(k)
         \/ WipeConversations(k) \/ Send(k) \/ Stop(k)
  PROVE  VInv'
<1> DEFINE Others == \A j \in Calls \ {k} :
             /\ UNCHANGED <<kind[j], step[j], post[j], status[j]>>
             /\ j \in stopped' => j \in stopped
<1> HIDE DEF Others
<1>1. UNCHANGED <<log, status>> /\ CallStands(k) /\ \A j \in Calls : CallStands(j)
  BY DEF Select, NewConversation, Edit, DeleteConversation, WipeConversations, Send, Stop, server, VInv
<1>2. CASE Select(k)
  <2>1. /\ step[k] = "idle" /\ kind' = [kind EXCEPT ![k] = "select"]
        /\ step' = [step EXCEPT ![k] = "done"] /\ UNCHANGED <<post, stopped>>
    BY <1>2 DEF Select
  <2>2. Others /\ kind'[k] = "select" /\ step'[k] = "done"
    BY <1>1, <2>1 DEF Others, Types, CallTypes
  <2>3. Latest'
    <3>1. PICK o \in listed : Open(o) /\ Blanked(o) \subseteq blurred'
      BY <1>2 DEF Select
    <3> QED
      BY <3>1, LatestOpened DEF Types, ViewTypes
  <2>4. CASE Quiet
    <3>1. ASSUME NEW j \in Calls PROVE CallStands(j)'
      BY <1>1, <2>1, <2>2, <2>4 DEF Others, Quiet, CallStands, Sends
    <3> QED
      BY <2>3, <3>1 DEF VInv
  <2>5. CASE ~Quiet
    <3>1. ~Clean => ~Clean'
      BY <1>2, <2>5 DEF Select, Clean
    <3>2. CallStands(k)'
      BY <1>1, <2>1, <2>2, <3>1 DEF CallStands, Sends
    <3> QED
      BY <1>1, <2>2, <2>3, <3>1, <3>2, StandsElsewhere DEF Others, VInv
  <2> QED
    BY <2>4, <2>5
<1>3. CASE NewConversation(k) \/ Edit(k) \/ DeleteConversation(k) \/ WipeConversations(k)
  <2>1. /\ step[k] = "idle" /\ UNCHANGED <<active, messages, loads, stopped, blurred>>
        /\ \E s \in {"creating", "patching", "removing", "wiping"} : step' = [step EXCEPT ![k] = s]
        /\ \E m \in {"new", "edit", "remove", "wipe"} : kind' = [kind EXCEPT ![k] = m]
        /\ post' = [post EXCEPT ![k] = "sent"]
    BY <1>3 DEF NewConversation, Edit, DeleteConversation, WipeConversations, view
  <2>2. Others
    BY <1>1, <2>1 DEF Others, Types, CallTypes
  <2>3. /\ step'[k] \in {"creating", "patching", "removing", "wiping"}
        /\ kind'[k] \in {"new", "edit", "remove", "wipe"} /\ Clean' = Clean
    BY <2>1 DEF Types, CallTypes, Clean
  <2>4. CallStands(k)'
    BY <1>1, <2>1, <2>3 DEF CallStands, Sends
  <2>5. UnderWay \subseteq UnderWay'
    BY <2>1, <2>2 DEF UnderWay, Others
  <2>6. Latest'
    BY <1>1, <2>1, <2>3, <2>5, LatestElsewhere DEF VInv
  <2> QED
    BY <1>1, <2>2, <2>3, <2>4, <2>6, StandsElsewhere DEF VInv, Others
<1>4. CASE Send(k)
  <2>1. /\ step[k] = "idle" /\ UNCHANGED <<stopped, blurred>>
        /\ \E s \in {"creating", "patching", "chatting"} : step' = [step EXCEPT ![k] = s]
        /\ \E m \in Sends : kind' = [kind EXCEPT ![k] = m]
        /\ post' = [post EXCEPT ![k] = "sent"]
    BY <1>4 DEF Send
  <2>2. Others /\ step'[k] \in {"creating", "patching", "chatting"} /\ kind'[k] \in Sends /\ Clean' = Clean
    BY <1>1, <2>1 DEF Others, Types, CallTypes, Clean
  <2>3. CallStands(k)'
    BY <1>1, <2>1, <2>2 DEF CallStands, Sends
  <2>4. Latest'
    BY <2>2 DEF Latest, UnderWay
  <2> QED
    BY <1>1, <2>2, <2>3, <2>4, StandsElsewhere DEF VInv, Others
<1>5. CASE Stop(k)
  <2>1. /\ stopped' = stopped \cup {k} /\ UNCHANGED <<kind, post>> /\ ~Clean'
        /\ \E s : step' = [step EXCEPT ![k] = s]
        /\ step[k] \in {"creating", "patching", "chatting"}
        /\ step'[k] = IF step[k] = "chatting" THEN "done" ELSE step[k]
    BY <1>5 DEF Stop, InProgress, Clean, ViewCauses, Types, CallTypes
  <2>2. Others
    BY <1>1, <2>1 DEF Others, Types, CallTypes
  <2>3. CallStands(k)'
    BY <1>1, <2>1 DEF CallStands
  <2> QED
    BY <1>1, <2>1, <2>2, <2>3, StandsElsewhere DEF VInv, Others, Latest
<1> QED
  BY <1>2, <1>3, <1>4, <1>5

LEMMA AnswersStand ==
  ASSUME Types, VInv, NEW k \in Calls, Answer(k) \/ Token(k) \/ Fail(k)
  PROVE  VInv'
<1> DEFINE Others == \A j \in Calls \ {k} :
             /\ UNCHANGED <<kind[j], step[j], post[j], status[j]>>
             /\ j \in stopped' => j \in stopped
<1> HIDE DEF Others
<1>1. /\ UNCHANGED <<log, status, kind, stopped>> /\ CallStands(k)
      /\ \A j \in Calls : CallStands(j)
      /\ blurred \subseteq blurred'
  BY DEF Answer, Created, Updated, Removed, Wiped, Answered, ReadList, Refreshed, Token, Fail, server, calls, VInv
<1>2. ~Clean => ~Clean'
  BY <1>1 DEF Clean
<1>3. Others
  <2>1. /\ UNCHANGED step \/ \E s : step' = [step EXCEPT ![k] = s]
        /\ UNCHANGED post \/ \E p : post' = [post EXCEPT ![k] = p]
    BY DEF Answer, Created, Updated, Removed, Wiped, Answered, ReadList, Refreshed, Token, Fail,
           Proceed, Finish, calls
  <2> QED
    BY <1>1, <2>1 DEF Others, Types, CallTypes
<1>4. SUFFICES CallStands(k)' /\ Latest'
  BY <1>1, <1>2, <1>3, StandsElsewhere DEF VInv, Others
<1>5. step \in [Calls -> Steps] /\ post \in [Calls -> {"none", "sent", "served"}]
  BY DEF Types, CallTypes
<1>6. ASSUME step[k] \in {"creating", "patching"}, Proceed(k), kind[k] \in Sends
      PROVE  CallStands(k)' /\ (Latest' \/ UnderWay' # {})
  <2>1. CASE kind[k] = "streamed" /\ k \in stopped
    <3>1. step'[k] = "done" /\ post'[k] = "none" /\ ~Clean'
      BY <1>1, <1>2, <1>5, <1>6, <2>1 DEF Proceed, CallStands
    <3> QED
      BY <1>1, <3>1 DEF CallStands, Latest
  <2>2. CASE ~(kind[k] = "streamed" /\ k \in stopped)
    <3>1. step'[k] = "chatting" /\ post'[k] = "sent"
      BY <1>5, <1>6, <2>2 DEF Proceed
    <3> QED
      BY <1>1, <1>2, <1>6, <3>1 DEF CallStands, UnderWay
  <2> QED
    BY <2>1, <2>2
<1>7. ASSUME step[k] \notin {"idle", "done", "chatting"}, step'[k] = "done", post'[k] = "none"
      PROVE  CallStands(k)'
  BY <1>1, <1>2, <1>7 DEF CallStands
<1>8. CASE Created(k)
  <2>1. step[k] = "creating" /\ post[k] = "served" /\ Show(Returned(k, target[k]))
    BY <1>8 DEF Created
  <2>2. Returned(k, target[k]) \in Object
    BY <2>1, NewObject DEF Types, CallTypes
  <2>3. Latest'
    BY <2>1, <2>2, LatestShown
  <2>4. CASE kind[k] \in Sends
    BY <1>6, <1>8, <2>1, <2>3, <2>4 DEF Created
  <2>5. CASE kind[k] \notin Sends
    BY <1>5, <1>7, <1>8, <2>1, <2>3, <2>5 DEF Created, Finish
  <2> QED
    BY <2>4, <2>5
<1>9. CASE Updated(k)
  <2>1. step[k] = "patching"
    BY <1>9 DEF Updated
  <2>2. CASE kind[k] \in Sends
    <3>1. Proceed(k)
      BY <1>9, <2>2 DEF Updated, Sends
    <3>2. UnderWay' # {} => Latest'
      BY DEF Latest
    <3> QED
      BY <1>6, <2>1, <2>2, <3>1, <3>2
  <2>3. CASE kind[k] \notin Sends
    <3>1. kind[k] = "edit" /\ step'[k] = "done" /\ post'[k] = "none"
      BY <1>5, <1>9, <2>3 DEF Updated, Finish
    <3>2. CallStands(k)'
      BY <1>7, <2>1, <3>1
    <3>3. CASE jump[k] # {}
      <4>1. Show(Returned(k, target[k]))
        BY <1>9, <2>3, <3>3 DEF Updated
      <4>2. Returned(k, target[k]) \in Object
        BY <2>1, NewObject DEF Types, CallTypes
      <4> QED
        BY <3>2, <4>1, <4>2, LatestShown
    <3>4. CASE jump[k] = {}
      <4>1. UNCHANGED <<active, loads, messages>>
        BY <1>9, <2>3, <3>4 DEF Updated
      <4>2. UnderWay \subseteq UnderWay'
        BY <1>1, <1>3, <2>3 DEF UnderWay, Others
      <4> QED
        BY <1>1, <1>2, <3>2, <4>1, <4>2, LatestElsewhere DEF VInv
    <3> QED
      BY <3>3, <3>4
  <2> QED
    BY <2>2, <2>3
<1>10. CASE Removed(k)
  <2>1. step[k] = "removing" /\ step'[k] = "done" /\ post'[k] = "none"
    BY <1>5, <1>10 DEF Removed, Finish
  <2>2. CallStands(k)'
    BY <1>7, <2>1
  <2>3. UnderWay \subseteq UnderWay'
    BY <1>1, <1>3, <2>1 DEF UnderWay, Others, CallStands
  <2>4. CASE UNCHANGED <<active, loads, messages>>
    BY <1>1, <1>2, <2>2, <2>3, <2>4, LatestElsewhere DEF VInv
  <2>5. CASE \E n \in jump[k] : Open(n) /\ Blanked(n) \subseteq blurred'
    <3>1. PICK n \in Object \cup {None} : Open(n) /\ Blanked(n) \subseteq blurred'
      BY <2>5 DEF Types, CallTypes
    <3> QED
      BY <2>2, <3>1, LatestOpened
  <2> QED
    BY <1>10, <2>4, <2>5 DEF Removed
<1>11. CASE Answered(k) \/ ReadList(k)
  <2>1. /\ step[k] \in {"chatting", "refreshing"} /\ step'[k] \in {"refreshing", "refreshed"}
        /\ UNCHANGED post
        /\ step[k] = "chatting" => status[k] # "streaming"
    BY <1>5, <1>11 DEF Answered, ReadList
  <2>2. kind[k] \in Sends
    BY <1>1, <2>1 DEF CallStands
  <2>3. k \in UnderWay'
    BY <1>1, <2>1, <2>2 DEF UnderWay
  <2> QED
    BY <1>1, <1>2, <2>1, <2>2, <2>3 DEF CallStands, Latest
<1>12. CASE Refreshed(k)
  <2>1. step[k] = "refreshed" /\ step'[k] = "done" /\ post'[k] = "none"
    BY <1>5, <1>12 DEF Refreshed, Finish
  <2>2. CASE target[k] \in got[k]
    <3>1. Show(InList(k, target[k])) /\ InList(k, target[k]) \in Object
      BY <1>12, <2>2, NewObject DEF Refreshed, Types, CallTypes
    <3> QED
      BY <1>7, <2>1, <3>1, LatestShown
  <2>3. CASE target[k] \notin got[k]
    <3>1. "deleted" \in blurred'
      BY <1>12, <2>3 DEF Refreshed
    <3> QED
      BY <1>7, <2>1, <3>1 DEF Latest, Clean, ViewCauses
  <2> QED
    BY <2>2, <2>3
<1>13. CASE Token(k)
  <2>1. /\ UNCHANGED <<step, post, blurred>> /\ step[k] = "chatting"
    BY <1>13 DEF Token, calls
  <2>2. k \in UnderWay'
    BY <1>1, <2>1 DEF UnderWay, CallStands
  <2> QED
    BY <1>1, <1>2, <2>1, <2>2 DEF CallStands, Latest
<1>14. CASE Fail(k)
  <2>1. step'[k] = "done" /\ post'[k] = "none" /\ "lost" \in blurred'
    BY <1>5, <1>14 DEF Fail, Finish
  <2> QED
    BY <1>1, <2>1 DEF CallStands, Latest, Clean, ViewCauses
<1>15. CASE Wiped(k)
  <2>1. /\ step[k] = "wiping" /\ step'[k] = "done" /\ post'[k] = "none"
        /\ UNCHANGED <<active, loads, messages>>
    BY <1>5, <1>15 DEF Wiped, Finish, view
  <2>2. kind[k] \notin Sends
    BY <1>1, <2>1 DEF CallStands
  <2>3. UnderWay \subseteq UnderWay'
    BY <1>1, <1>3, <2>2 DEF UnderWay, Others
  <2> QED
    BY <1>1, <1>2, <1>7, <2>1, <2>3, LatestElsewhere DEF VInv
<1> QED
  BY <1>8, <1>9, <1>10, <1>11, <1>12, <1>13, <1>14, <1>15 DEF Answer

LEMMA VInvInit == Init => VInv
<1> SUFFICES ASSUME Init PROVE VInv
  OBVIOUS
<1>1. ASSUME NEW k \in Calls PROVE CallStands(k)
  BY DEF Init, CallStands, Sends
<1>2. loads = <<>> \/ Last(loads) = [of |-> active.of, seen |-> None]
  BY DEF Init, Last
<1>3. loads = <<>> => active = None
  BY DEF Init
<1> QED
  BY <1>1, <1>2, <1>3 DEF Init, VInv, Latest

LEMMA VInvInductive == Types /\ VInv /\ [Next]_vars => VInv'
<1> SUFFICES ASSUME Types, VInv, [Next]_vars PROVE VInv'
  OBVIOUS
<1>1. CASE UNCHANGED vars
  <2>1. UNCHANGED <<log, status, active, loads, messages, kind, step, post, stopped, blurred>>
    BY <1>1 DEF vars, server, view, calls
  <2>2. Clean' = Clean /\ UnderWay' = UnderWay
    BY <2>1 DEF Clean, UnderWay
  <2> QED
    BY <2>1, <2>2, LatestElsewhere DEF VInv, CallStands
<1> QED
  BY <1>1, ServeStands, SettleStands, LoadsStand, ClicksStand, AnswersStand DEF Next

-----------------------------------------------------------------------------
(* Tokens                                                                  *)

(* Answers that are being streamed on to the display.                      *)
Streaming == {k \in Calls : step[k] = "chatting" /\ kind[k] = "streamed"}
(* One send at a time, whose answer is the last message.                   *)
OneSend == \A j, k \in InProgress : j = k
LastIsOwn == \A k \in Streaming \ moved : messages # <<>> /\ Last(messages).call = k

TInv == OwnTokens /\ OneSend /\ LastIsOwn

LEMMA TokensReplaced ==
  ASSUME Types, TInv, messages' \in Seq(Own), InProgress' \subseteq InProgress,
         moved' = moved \cup InProgress
  PROVE  TInv'
<1>1. OwnTokens'
  <2>1. \A i \in DOMAIN messages' : messages'[i] \in Own
    OBVIOUS
  <2> QED
    BY <2>1 DEF OwnTokens, Own
<1>2. Streaming' \subseteq InProgress'
  BY DEF Streaming, InProgress, Sends
<1> QED
  BY <1>1, <1>2 DEF TInv, OneSend, LastIsOwn

LEMMA TokensElsewhere ==
  ASSUME TInv, UNCHANGED messages, InProgress' \subseteq InProgress, Streaming' \subseteq Streaming,
         moved \subseteq moved'
  PROVE  TInv'
BY DEF TInv, OwnTokens, OneSend, LastIsOwn

LEMMA AppendOwn ==
  ASSUME NEW s \in Seq(Item), NEW x \in Own, NEW m,
         \A i \in DOMAIN s : s[i].heard \subseteq {s[i].call} \cup m
  PROVE  /\ \A i \in DOMAIN Append(s, x) :
              Append(s, x)[i].heard \subseteq {Append(s, x)[i].call} \cup m
         /\ Append(s, x) # <<>> /\ Last(Append(s, x)) = x /\ Append(s, x) \in Seq(Item)
<1>1. /\ Append(s, x) \in Seq(Item) /\ Append(s, x) # <<>> /\ Len(s) \in Nat
      /\ Len(Append(s, x)) = Len(s) + 1
      /\ \A i \in 1..Len(s) : Append(s, x)[i] = s[i]
      /\ Append(s, x)[Len(s) + 1] = x
  BY AppendProperties DEF Own
<1>2. DOMAIN Append(s, x) = 1..Len(s) + 1 /\ DOMAIN s = 1..Len(s)
  BY <1>1
<1>3. ASSUME NEW i \in 1..Len(s) + 1
      PROVE  Append(s, x)[i].heard \subseteq {Append(s, x)[i].call} \cup m
  <2>1. CASE i = Len(s) + 1
    BY <1>1, <2>1 DEF Own
  <2>2. CASE i # Len(s) + 1
    <3>1. i \in 1..Len(s)
      BY <1>1, <2>2
    <3> QED
      BY <1>1, <1>2, <3>1
  <2> QED
    BY <2>1, <2>2
<1> QED
  BY <1>1, <1>2, <1>3 DEF Last

(* Messages are added for the one send in progress.                        *)
LEMMA TokensAdded ==
  ASSUME NEW k \in Calls, OwnTokens', InProgress' \subseteq {k},
         k \in Streaming' \ moved' => messages' # <<>> /\ Last(messages').call = k
  PROVE  TInv'
<1>1. Streaming' \subseteq InProgress'
  BY DEF Streaming, InProgress, Sends
<1> QED
  BY <1>1 DEF TInv, OneSend, LastIsOwn

LEMMA LoadsKeepTokens ==
  ASSUME Types, TInv, ReadMessages \/ LandMessages \/ LoseMessages PROVE TInv'
<1>1. InProgress' = InProgress /\ Streaming' = Streaming
  BY DEF ReadMessages, LandMessages, LoseMessages, calls, InProgress, Streaming
<1>2. CASE LandMessages
  <2>1. PICK i \in DOMAIN loads : loads[i].seen # None /\ messages' = loads[i].seen
    BY <1>2 DEF LandMessages
  <2>2. loads[i] \in Load
    BY DEF Types, ViewTypes
  <2>3. messages' \in Seq(Own) /\ moved' = moved \cup InProgress
    BY <1>2, <2>1, <2>2 DEF LandMessages, Load
  <2> QED
    BY <1>1, <2>3, TokensReplaced
<1>3. CASE ReadMessages \/ LoseMessages
  BY <1>1, <1>3, TokensElsewhere DEF ReadMessages, LoseMessages
<1> QED
  BY <1>2, <1>3

LEMMA ClicksKeepTokens ==
  ASSUME Types, TInv, NEW k \in Calls,
         \/ Select(k) \/ NewConversation(k) \/ Edit(k) \/ DeleteConversation(k)
         \/ WipeConversations(k) \/ Send(k) \/ Stop(k)
  PROVE  TInv'
<1> USE DEF Types, CallTypes
<1>1. CASE Select(k)
  <2>1. InProgress' \subseteq InProgress
    BY <1>1 DEF Select, InProgress
  <2>2. messages' \in Seq(Own) /\ moved' = moved \cup InProgress
    BY <1>1, EmptySeq DEF Select, Open
  <2> HIDE DEF Types, CallTypes
  <2> QED
    BY <2>1, <2>2, TokensReplaced
<1>2. CASE NewConversation(k) \/ Edit(k) \/ DeleteConversation(k) \/ WipeConversations(k) \/ Stop(k)
  <2>1. UNCHANGED <<messages, moved>>
    BY <1>2 DEF NewConversation, Edit, DeleteConversation, WipeConversations, Stop, view
  <2>2. InProgress' \subseteq InProgress /\ Streaming' \subseteq Streaming
    BY <1>2 DEF NewConversation, Edit, DeleteConversation, WipeConversations, Stop, InProgress, Streaming, Sends
  <2> QED
    BY <2>1, <2>2, TokensElsewhere
<1>3. CASE Send(k)
  <2>1. /\ InProgress = {} /\ moved \subseteq moved'
        /\ \E how \in Sends, first \in {"creating", "patching", "chatting"} :
             /\ kind' = [kind EXCEPT ![k] = how] /\ step' = [step EXCEPT ![k] = first]
             /\ messages' = IF first = "chatting"
                            THEN Placeholder(k, Append(messages, Question(k, FALSE)), how)
                            ELSE Append(messages, Question(k, FALSE))
    BY <1>3 DEF Send
  <2>2. InProgress' \subseteq {k}
    BY <2>1 DEF InProgress
  <2> DEFINE shown == Append(messages, Question(k, FALSE))
             m == moved'
  <2>3. /\ messages \in Seq(Item) /\ Question(k, FALSE) \in Own /\ Reply(k, FALSE, {}) \in Own
        /\ \A i \in DOMAIN messages : messages[i].heard \subseteq {messages[i].call} \cup m
    BY <2>1, ItemTypes DEF TInv, OwnTokens, ViewTypes
  <2>4. /\ shown \in Seq(Item) 
        /\ \A i \in DOMAIN shown : shown[i].heard \subseteq {shown[i].call} \cup m
    <3> HIDE DEF m
    <3> QED
      BY <2>3, AppendOwn
  <2> DEFINE more == Append(shown, Reply(k, FALSE, {}))
  <2>5. /\ \A i \in DOMAIN more : more[i].heard \subseteq {more[i].call} \cup m
        /\ more # <<>> /\ Last(more) = Reply(k, FALSE, {})
    <3> HIDE DEF m, shown
    <3> QED
      BY <2>3, <2>4, AppendOwn
  <2>6. /\ messages' \in {shown, more}
        /\ k \in Streaming' => messages' = more
    BY <2>1 DEF Placeholder, Streaming
  <2>7. OwnTokens'
    BY <2>4, <2>5, <2>6 DEF OwnTokens
  <2>8. k \in Streaming' => messages' # <<>> /\ Last(messages').call = k
    <3>1. Reply(k, FALSE, {}).call = k
      BY DEF Reply
    <3> HIDE DEF more
    <3> QED
      BY <2>5, <2>6, <3>1
  <2> QED
    BY <2>2, <2>7, <2>8, TokensAdded
<1> QED
  BY <1>1, <1>2, <1>3

LEMMA AnswersKeepTokens ==
  ASSUME Types, VInv, TInv, NEW k \in Calls, Answer(k) \/ Token(k) \/ Fail(k)
  PROVE  TInv'
<1>1. messages \in Seq(Item) /\ CallStands(k)
  BY DEF Types, ViewTypes, VInv
<1>2. UNCHANGED kind
  BY DEF Answer, Created, Updated, Removed, Wiped, Answered, ReadList, Refreshed, Token, Fail, calls
<1>3. step \in [Calls -> Steps] /\ (UNCHANGED step \/ \E s : step' = [step EXCEPT ![k] = s])
  BY DEF Types, CallTypes, Answer, Created, Updated, Removed, Wiped, Answered, ReadList, Refreshed, Token, Fail,
         Proceed, Finish, calls
<1>4. k \in InProgress => InProgress = {k}
  BY DEF TInv, OneSend
<1>5. ASSUME k \in InProgress, Proceed(k) PROVE TInv'
  <2>1. InProgress' \subseteq {k}
    BY <1>2, <1>3, <1>4, <1>5 DEF InProgress
  <2>2. Reply(k, FALSE, {}) \in Own /\ Reply(k, FALSE, {}).call = k
    BY ItemTypes DEF Reply
  <2>3. \A i \in DOMAIN messages : messages[i].heard \subseteq {messages[i].call} \cup moved'
    BY <1>5 DEF TInv, OwnTokens, Proceed
  <2>4. messages' = IF kind[k] = "streamed" THEN Append(messages, Reply(k, FALSE, {})) ELSE messages
    BY <1>5 DEF Proceed, Placeholder
  <2>5. OwnTokens'
    BY <1>1, <2>2, <2>3, <2>4, AppendOwn DEF OwnTokens
  <2>6. k \in Streaming' => messages' # <<>> /\ Last(messages').call = k
    BY <1>1, <1>2, <2>2, <2>3, <2>4, AppendOwn DEF Streaming
  <2> QED
    BY <2>1, <2>5, <2>6, TokensAdded
<1>6. ASSUME InProgress' \subseteq InProgress, messages' = <<>>, moved' = moved \cup InProgress
      PROVE  TInv'
  BY <1>6, TokensReplaced, EmptySeq
<1>7. ASSUME step'[k] \notin {"creating", "patching", "chatting"}, k \in InProgress,
             UNCHANGED moved,
             messages' = messages \/ \E x \in Own : messages' = Append(messages, x)
      PROVE  TInv'
  <2>1. InProgress' = {} 
    BY <1>2, <1>3, <1>4, <1>7 DEF InProgress
  <2>2. OwnTokens'
    BY <1>1, <1>7, AppendOwn DEF TInv, OwnTokens
  <2>3. Streaming' \subseteq InProgress'
    BY DEF Streaming, InProgress, Sends
  <2> QED
    BY <2>1, <2>2, <2>3 DEF TInv, OneSend, LastIsOwn
<1>8. ASSUME step'[k] \notin {"creating", "patching", "chatting"} PROVE
        InProgress' \subseteq InProgress /\ Streaming' \subseteq Streaming
  BY <1>2, <1>3, <1>8 DEF InProgress, Streaming
<1>9. CASE Created(k) \/ Updated(k)
  <2>1. step[k] \in {"creating", "patching"}
    BY <1>9 DEF Created, Updated
  <2>2. CASE kind[k] \in Sends
    <3>1. k \in InProgress /\ Proceed(k)
      BY <1>9, <2>1, <2>2 DEF InProgress, Created, Updated, Sends
    <3> QED
      BY <1>5, <3>1
  <2>3. CASE kind[k] \notin Sends
    <3>1. step'[k] = "done" 
      BY <1>3, <1>9, <2>3 DEF Created, Updated, Finish
    <3>2. InProgress' \subseteq InProgress /\ Streaming' \subseteq Streaming
      BY <1>8, <3>1
    <3>3. (messages' = <<>> /\ moved' = moved \cup InProgress) \/ UNCHANGED <<messages, moved>>
      BY <1>9, <2>3 DEF Created, Updated
    <3> QED
      BY <1>6, <3>2, <3>3, TokensElsewhere
  <2> QED
    BY <2>2, <2>3
<1>10. CASE Removed(k)
  <2>1. step'[k] = "done"
    BY <1>3, <1>10 DEF Removed, Finish
  <2>2. InProgress' \subseteq InProgress /\ Streaming' \subseteq Streaming
    BY <1>8, <2>1
  <2>3. (messages' = <<>> /\ moved' = moved \cup InProgress) \/ UNCHANGED <<messages, moved>>
    BY <1>10 DEF Removed, Open
  <2> QED
    BY <1>6, <2>2, <2>3, TokensElsewhere
<1>11. CASE Wiped(k) \/ ReadList(k) \/ Refreshed(k)
  <2>1. step'[k] \in {"refreshed", "done"} /\ UNCHANGED <<messages, moved>>
    BY <1>3, <1>11 DEF Wiped, ReadList, Refreshed, Finish, view
  <2> QED
    BY <1>8, <2>1, TokensElsewhere
<1>12. CASE Answered(k)
  <2>1. /\ step[k] = "chatting" /\ step'[k] = "refreshing" /\ UNCHANGED moved
        /\ messages' = messages \/ messages' = Append(messages, Reply(k, TRUE, {k}))
    BY <1>3, <1>12 DEF Answered
  <2>2. k \in InProgress
    BY <1>1, <2>1 DEF CallStands, InProgress
  <2>3. Reply(k, TRUE, {k}) \in Own
    BY ItemTypes
  <2> QED
    BY <1>7, <2>1, <2>2, <2>3
<1>13. CASE Fail(k)
  <2>1. /\ step'[k] = "done" /\ UNCHANGED moved
        /\ messages' = IF k \in InProgress THEN Append(messages, Reply(k, FALSE, {})) ELSE messages
    BY <1>3, <1>13 DEF Fail, Finish
  <2>2. Reply(k, FALSE, {}) \in Own
    BY ItemTypes
  <2>3. CASE k \in InProgress
    BY <1>7, <2>1, <2>2, <2>3
  <2>4. CASE k \notin InProgress
    BY <1>8, <2>1, <2>4, TokensElsewhere
  <2> QED
    BY <2>3, <2>4
<1>14. CASE Token(k)
  <2> DEFINE n == Len(messages)
  <2>1. /\ k \in Streaming /\ UNCHANGED <<step, moved>>
        /\ messages # <<>>
        /\ messages' = [messages EXCEPT ![n] = [messages[n] EXCEPT !.heard = @ \cup {k}]]
    BY <1>14 DEF Token, Streaming, calls
  <2>2. n \in Nat /\ n \in 1..n /\ messages[n] \in Item
    BY <1>1, <2>1, EmptySeq, ElementOfSeq
  <2>3. k \notin moved => messages[n].call = k
    BY <2>1 DEF TInv, LastIsOwn, Last
  <2>4. InProgress' = InProgress /\ Streaming' = Streaming
    BY <1>2, <2>1 DEF InProgress, Streaming
  <2>5. /\ [messages[n] EXCEPT !.heard = @ \cup {k}].call = messages[n].call
        /\ [messages[n] EXCEPT !.heard = @ \cup {k}].heard = messages[n].heard \cup {k}
    BY <2>2 DEF Item
  <2>6. /\ DOMAIN messages' = 1..n /\ Len(messages') = n /\ messages' # <<>>
        /\ messages'[n] = [messages[n] EXCEPT !.heard = @ \cup {k}]
        /\ \A i \in 1..n : i # n => messages'[i] = messages[i]
    <3> DEFINE m == [messages[n] EXCEPT !.heard = @ \cup {k}]
    <3>1. m \in Item
      BY <2>2 DEF Item
    <3> HIDE DEF m
    <3>2. messages' = [messages EXCEPT ![n] = m]
      BY <2>1 DEF m
    <3>3. /\ messages' \in Seq(Item) /\ Len(messages') = n
          /\ \A i \in 1..n : messages'[i] = IF i = n THEN m ELSE messages[i]
      BY <1>1, <2>2, <3>1, <3>2, ExceptSeq
    <3>4. messages' # <<>>
      BY <2>2, <3>3, EmptySeq
    <3>5. DOMAIN messages' = 1..Len(messages')
      BY <3>3
    <3> HIDE DEF n
    <3>6. DOMAIN messages' = 1..n /\ messages'[n] = m
      BY <2>2, <3>3, <3>5
    <3> QED
      BY <3>3, <3>4, <3>6 DEF m
  <2>7. OwnTokens'
    <3>1. \A i \in 1..n : messages[i].heard \subseteq {messages[i].call} \cup moved
      BY <1>1 DEF TInv, OwnTokens
    <3> HIDE DEF n
    <3> QED
      BY <2>1, <2>2, <2>3, <2>5, <2>6, <3>1 DEF OwnTokens
  <2>8. LastIsOwn'
    <3>1. Last(messages').call = Last(messages).call
      BY <2>5, <2>6 DEF Last
    <3> QED
      BY <2>1, <2>4, <2>6, <3>1 DEF TInv, LastIsOwn
  <2> QED
    BY <2>4, <2>7, <2>8 DEF TInv, OneSend
<1> QED
  BY <1>9, <1>10, <1>11, <1>12, <1>13, <1>14 DEF Answer

LEMMA TInvInit == Init => TInv
BY DEF Init, TInv, OwnTokens, OneSend, LastIsOwn, InProgress, Streaming, Sends

LEMMA TInvInductive == Types /\ VInv /\ TInv /\ [Next]_vars => TInv'
<1> SUFFICES ASSUME Types, VInv, TInv, [Next]_vars PROVE TInv'
  OBVIOUS
<1>1. ASSUME UNCHANGED <<messages, moved, kind, step>> PROVE TInv'
  BY <1>1, TokensElsewhere DEF InProgress, Streaming
<1>2. CASE UNCHANGED vars
  BY <1>1, <1>2 DEF vars, view, calls
<1>3. ASSUME NEW k \in Calls, Serve(k) \/ Settle(k) PROVE TInv'
  BY <1>1, <1>3 DEF Serve, Settle, view, calls
<1> QED
  BY <1>2, <1>3, LoadsKeepTokens, ClicksKeepTokens, AnswersKeepTokens DEF Next

-----------------------------------------------------------------------------
(* Theorems                                                                *)

(* Every variable keeps its type: what is listed, shown, asked for and     *)
(* targeted are conversations that exist, and lists of messages stay lists *)
(* of messages, at most MaxLoads of them on their way.                     *)
THEOREM TypesHold == Spec => []TypeOK
BY TypesInit, TypesInductive, TypesImplyTypeOK, PTL DEF Spec

(* The sidebar, which newConversation and deleteConversation patch and     *)
(* refreshConversations replaces, lists the open conversations when no     *)
(* call is under way, each of them once: unless a request failed, a list   *)
(* came too late or ahead of the answer to a creation, or all of them were *)
(* deleted in the settings.                                                *)
THEOREM QuietListIsTrue == Spec => []QuietListShowsServer
<1>1. ASSUME Types, LInv PROVE QuietListShowsServer
  <2> SUFFICES ASSUME Quiet, blurred \cap ListCauses = {}
               PROVE  Listed = {c \in Conversations : conv[c] = "open"} /\ doubled = {}
    BY DEF QuietListShowsServer
  <2>1. Pending = {}
    BY DEF Quiet, Pending, Unheard
  <2>2. Agrees(Listed) /\ doubled = {} /\ Listed \subseteq Conversations
    BY <1>1, ListedTypes DEF LInv, ListsAgree, ListsOnce
  <2> QED
    BY <2>1, <2>2 DEF Agrees
<1> QED
  BY <1>1, TypesInit, TypesInductive, LInvInit, LInvInductive, PTL DEF Spec

(* At rest the tab shows what the server stores of the active conversation, *)
(* however selecting, renaming, deleting, sending and stopping interleaved *)
(* with the lists of messages that were asked for: unless a list overtook  *)
(* another, a request failed, a stream was stopped, what was deleted was   *)
(* in use, or the view was set to the object it showed.                    *)
THEOREM QuietViewIsTrue == Spec => []QuietViewShowsServer
<1>1. VInv => QuietViewShowsServer
  <2> SUFFICES ASSUME VInv, Quiet, Clean
               PROVE  messages = IF active = None THEN <<>> ELSE Listing(active.of)
    BY DEF QuietViewShowsServer, Clean
  <2>1. UnderWay = {} /\ loads = <<>>
    BY DEF Quiet, UnderWay
  <2> QED
    BY <2>1 DEF VInv, Latest
<1> QED
  BY <1>1, TypesInit, TypesInductive, VInvInit, VInvInductive, PTL DEF Spec

(* onToken adds to whatever message is last, and yet an answer never has   *)
(* tokens of another call, except of a send under which the view was       *)
(* replaced.                                                               *)
THEOREM TokensAreOwn == Spec => []OwnTokens
<1>1. TInv => OwnTokens
  BY DEF TInv
<1> QED
  BY <1>1, TypesInit, TypesInductive, VInvInit, VInvInductive, TInvInit, TInvInductive, PTL DEF Spec
=============================================================================
