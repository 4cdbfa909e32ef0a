------------------------------ MODULE ChatView ------------------------------
(***************************************************************************)
(* One tab of the chat workspace (Workspace in App.tsx, chatApi and        *)
(* conversationApi in api.ts) in front of the chat endpoints.              *)
(*                                                                         *)
(* The tab keeps a copy of the list of conversations, an active one, and a *)
(* copy of that one's messages.  Conversations are objects, a new one with *)
(* each answer that tells of them: when the active object becomes another  *)
(* an effect asks for its messages, and whatever list arrives replaces the *)
(* copy; nothing cancels a request or compares an answer with what is      *)
(* active by then.  Calls are captured functions: what was listed and      *)
(* active when the user clicked decides where the answer leads.            *)
(*                                                                         *)
(* What the server stores is the state of Transcript, of which the steps   *)
(* Turn and Settle are taken here; ChatTurns refines it.                   *)
(***************************************************************************)
EXTENDS Naturals, Sequences, SequencesExt

CONSTANTS Conversations, \* ids of conversations
          Calls,         \* what the user asks for, each made once
          Past,          \* calls of earlier sessions
          MaxLoads,      \* bound: message lists on their way at a time
          None           \* no conversation, nothing read yet

(* The objects of conversations: each came with the answer to a call, with *)
(* the list a call asked for, or with the first list.                      *)
ObjectsOf(ids) == [of : ids, from : (Calls \cup {None}) \X {"item", "list"}]

ASSUME LoadsAssumption == MaxLoads \in Nat \ {0}
ASSUME NoneAssumption == None \notin Conversations \cup Calls \cup ObjectsOf(Conversations)
ASSUME PastAssumption == Past \subseteq Calls

VARIABLES
  asked, status, \* the stored questions and answers: Transcript, a call a request
  conv,      \* conversation -> unused, open, archived or erased
  log,       \* conversation -> the calls whose questions it holds, in order
  listed,    \* the objects of the sidebar
  doubled,   \* the conversations the sidebar lists twice
  active,    \* the object on display
  messages,  \* the messages on display
  loads,     \* the message lists asked for and not yet arrived, in order of asking
  kind, step, target, \* call -> what it is, where it stands, its conversation
  jump,      \* call -> the object its success leads to, if any, fixed at the click
  got,       \* call -> the list of conversations it read
  post,      \* call -> its request at the server
  stopped,   \* the calls whose AbortController was aborted
  moved,     \* history: the sends under which the view was replaced
  blurred    \* history: why the view may differ from the server

server == <<asked, status, conv, log>>
view == <<listed, doubled, active, messages, loads>>
calls == <<kind, step, target, jump, got, stopped>>
vars == <<server, view, calls, post, moved, blurred>>

Server == INSTANCE Transcript WITH Requests <- Calls

Sends == {"streamed", "whole"}
Steps == {"idle", "creating", "patching", "removing", "wiping", "chatting", "refreshing",
          "refreshed", "done"}
ListCauses == {"unlisted", "outdated", "early", "wiped"}
ViewCauses == {"overtaken", "lost", "stopped", "reselected", "deleted", "erased"}

Item == [call : Calls, role : {"user", "assistant"}, saved : BOOLEAN, heard : SUBSET Calls]
Question(k, s) == [call |-> k, role |-> "user", saved |-> s, heard |-> {}]
Reply(k, s, h) == [call |-> k, role |-> "assistant", saved |-> s, heard |-> h]

(* A click offers what exists, and every request names such a one.         *)
Known == {c \in Conversations : conv[c] # "unused"}

Object == ObjectsOf(Known)
Returned(k, c) == [of |-> c, from |-> <<k, "item">>]
InList(k, c) == [of |-> c, from |-> <<k, "list">>]

Ids(objects) == {o.of : o \in objects}
Listed == Ids(listed)

TypeOK ==
  /\ asked \subseteq Calls /\ status \in [Calls -> Server!Status]
  /\ conv \in [Conversations -> {"unused", "open", "archived", "erased"}]
  /\ log \in [Conversations -> Seq(Calls)]
  /\ listed \subseteq Object /\ doubled \subseteq Known /\ active \in Object \cup {None}
  /\ messages \in Seq(Item)
  /\ loads \in Seq([of : Known, seen : Seq(Item) \cup {None}]) /\ Len(loads) <= MaxLoads
  /\ kind \in [Calls -> {"none", "select", "new", "edit", "remove", "wipe"} \cup Sends]
  /\ step \in [Calls -> Steps]
  /\ target \in [Calls -> Known \cup {None}]
  /\ jump \in [Calls -> SUBSET (Object \cup {None})]
  /\ got \in [Calls -> SUBSET Known]
  /\ post \in [Calls -> {"none", "sent", "served"}]
  /\ stopped \subseteq Calls /\ moved \subseteq Calls /\ blurred \subseteq ListCauses \cup ViewCauses

(* The workspace has its first list of conversations, the head of which it *)
(* asked to load.  Earlier sessions left at most one turn in each of them. *)
Init ==
  /\ conv \in [Conversations -> {"unused", "open"}]
  /\ log \in [Conversations -> {<<>>} \cup {<<k>> : k \in Past}]
  /\ \A c \in Conversations :
       log[c] # <<>> => conv[c] = "open" /\ \A d \in Conversations \ {c} : log[d] # log[c]
  /\ asked = {k \in Past : \E c \in Conversations : log[c] = <<k>>}
  /\ status = [k \in Calls |-> IF k \in asked THEN "complete" ELSE "absent"]
  /\ listed = {InList(None, c) : c \in Known} /\ doubled = {} /\ messages = <<>>
  /\ active \in IF listed = {} THEN {None} ELSE listed
  /\ loads = IF active = None THEN <<>> ELSE <<[of |-> active.of, seen |-> None]>>
  /\ kind = [k \in Calls |-> "none"]
  /\ step = [k \in Calls |-> IF k \in Past THEN "done" ELSE "idle"]
  /\ target = [k \in Calls |-> None]
  /\ jump = [k \in Calls |-> {}]
  /\ got = [k \in Calls |-> {}]
  /\ post = [k \in Calls |-> "none"]
  /\ stopped = {} /\ moved = {} /\ blurred = {}

-----------------------------------------------------------------------------
(* The server                                                              *)

(* GET /conversations/{id}/messages: an answer has a text to show when it  *)
(* is complete.                                                            *)
Listing(c) ==
  FlattenSeq([i \in DOMAIN log[c] |->
    <<Question(log[c][i], TRUE)>> \o
    (IF status[log[c][i]] = "complete" THEN <<Reply(log[c][i], TRUE, {log[c][i]})>> ELSE <<>>)])

(* POST, PATCH and DELETE /conversations, DELETE /settings/conversations,  *)
(* POST /chat and /chat/stream.                                            *)
Create(k) ==
  /\ step[k] = "creating"
  /\ \E c \in Conversations :
       /\ conv[c] = "unused"
       /\ conv' = [conv EXCEPT ![c] = "open"]
       /\ target' = [target EXCEPT ![k] = c]
  /\ UNCHANGED <<asked, status, log>>

Change(k) ==
  /\ step[k] = "patching" /\ conv[target[k]] = "open"
  /\ UNCHANGED <<server, target>>

Archive(k) ==
  /\ step[k] = "removing" /\ conv[target[k]] = "open"
  /\ conv' = [conv EXCEPT ![target[k]] = "archived"]
  /\ UNCHANGED <<asked, status, log, target>>

Erase(k) ==
  /\ step[k] = "wiping"
  /\ Server!Erase
  /\ \A j \in Calls : status'[j] \in {"absent", "deleted"}
  /\ conv' = [c \in Conversations |-> IF conv[c] = "unused" THEN "unused" ELSE "erased"]
  /\ log' = [c \in Conversations |-> <<>>]
  /\ UNCHANGED target

Chat(k) ==
  /\ step[k] = "chatting" \/ (step[k] = "done" /\ k \in stopped)
  /\ conv[target[k]] = "open"
  /\ Server!Turn(k)
  /\ status'[k] = (IF kind[k] = "whole" THEN "complete" ELSE "streaming")
  /\ log' = [log EXCEPT ![target[k]] = Append(@, k)]
  /\ UNCHANGED <<conv, target>>

(* A request is handled even if its caller gave up.  That everything was   *)
(* erased does not reach the sidebar and what is shown.                    *)
Serve(k) ==
  /\ post[k] = "sent"
  /\ \/ /\ Create(k) \/ Change(k) \/ Archive(k) \/ Chat(k)
        /\ UNCHANGED blurred
     \/ Erase(k) /\ blurred' = blurred \cup {"wiped", "erased"}
  /\ post' = [post EXCEPT ![k] = "served"]
  /\ UNCHANGED <<view, kind, step, jump, got, stopped, moved>>

(* A streamed answer ends.                                                 *)
Settle(k) ==
  /\ Server!Settle(k)
  /\ UNCHANGED <<conv, log, view, calls, post, moved, blurred>>

-----------------------------------------------------------------------------
(* The effect that loads messages                                          *)

InProgress ==
  {k \in Calls : kind[k] \in Sends /\ step[k] \in {"creating", "patching", "chatting"}}

Quiet ==
  /\ loads = <<>>
  /\ \A k \in Calls : step[k] \in {"idle", "done"} /\ post[k] # "sent" /\ status[k] # "streaming"

(* setActive with another object, and the request of the effect.           *)
Show(o) ==
  /\ Len(loads) < MaxLoads
  /\ active' = o
  /\ loads' = IF o = None THEN loads ELSE Append(loads, [of |-> o.of, seen |-> None])

(* setActive and setMessages([]).  If the object is the active one already *)
(* the effect does not run: the view stays blank.                          *)
Open(o) ==
  /\ messages' = <<>> /\ moved' = moved \cup InProgress
  /\ IF o = active THEN UNCHANGED <<active, loads>> ELSE Show(o)

Blanked(o) == IF o = active /\ o # None THEN {"reselected"} ELSE {}

(* list_messages reads the conversation, unless it is archived or erased.  *)
ReadMessages ==
  \E i \in DOMAIN loads :
    /\ loads[i].seen = None /\ conv[loads[i].of] = "open"
    /\ loads' = [loads EXCEPT ![i].seen = Listing(loads[i].of)]
    /\ UNCHANGED <<server, listed, doubled, active, messages, calls, post, moved, blurred>>

(* The list replaces what is shown, whichever conversation is active now.  *)
LandMessages ==
  \E i \in DOMAIN loads :
    /\ loads[i].seen # None
    /\ messages' = loads[i].seen
    /\ loads' = RemoveAt(loads, i)
    /\ moved' = moved \cup InProgress
    /\ blurred' = blurred \cup (IF i # 1 \/ active = None THEN {"overtaken"} ELSE {})
    /\ UNCHANGED <<server, listed, doubled, active, calls, post>>

(* .catch(() => undefined): never asked for again.                         *)
LoseMessages ==
  \E i \in DOMAIN loads :
    /\ loads' = RemoveAt(loads, i)
    /\ blurred' = blurred \cup {"lost"}
    /\ UNCHANGED <<server, listed, doubled, active, messages, calls, post, moved>>

-----------------------------------------------------------------------------
(* The user                                                                *)

(* A click in the sidebar.                                                 *)
Select(k) ==
  /\ step[k] = "idle"
  /\ kind' = [kind EXCEPT ![k] = "select"]
  /\ step' = [step EXCEPT ![k] = "done"]
  /\ \E o \in listed :
       /\ Open(o)
       /\ blurred' = (IF o # active /\ Quiet THEN blurred \ ViewCauses ELSE blurred) \cup Blanked(o)
  /\ UNCHANGED <<server, listed, doubled, target, jump, got, stopped, post>>

(* newConversation.                                                        *)
NewConversation(k) ==
  /\ step[k] = "idle"
  /\ kind' = [kind EXCEPT ![k] = "new"]
  /\ step' = [step EXCEPT ![k] = "creating"]
  /\ post' = [post EXCEPT ![k] = "sent"]
  /\ UNCHANGED <<server, view, target, jump, got, stopped, moved, blurred>>

(* saveRename of any conversation, and changeModel of the active one: back *)
(* to the conversation if it was active at the click.                      *)
Edit(k) ==
  /\ step[k] = "idle"
  /\ \E o \in listed \cup ({active} \ {None}) :
       /\ target' = [target EXCEPT ![k] = o.of]
       /\ jump' = [jump EXCEPT ![k] = IF active # None /\ o.of = active.of THEN {active} ELSE {}]
  /\ kind' = [kind EXCEPT ![k] = "edit"]
  /\ step' = [step EXCEPT ![k] = "patching"]
  /\ post' = [post EXCEPT ![k] = "sent"]
  /\ UNCHANGED <<server, view, got, stopped, moved, blurred>>

Without(c) == {o \in listed : o.of # c}

(* deleteConversation, of one listed or the active one: on to the first of *)
(* the others, as they are listed at the click, if it was active then.     *)
DeleteConversation(k) ==
  /\ step[k] = "idle"
  /\ \E o \in listed \cup ({active} \ {None}) :
       /\ target' = [target EXCEPT ![k] = o.of]
       /\ IF active # None /\ o.of = active.of
          THEN \E n \in IF Without(o.of) = {} THEN {None} ELSE Without(o.of) :
                 jump' = [jump EXCEPT ![k] = {n}]
          ELSE jump' = [jump EXCEPT ![k] = {}]
  /\ kind' = [kind EXCEPT ![k] = "remove"]
  /\ step' = [step EXCEPT ![k] = "removing"]
  /\ post' = [post EXCEPT ![k] = "sent"]
  /\ UNCHANGED <<server, view, got, stopped, moved, blurred>>

(* deleteConversations, in the settings of the same tab.                   *)
WipeConversations(k) ==
  /\ step[k] = "idle"
  /\ kind' = [kind EXCEPT ![k] = "wipe"]
  /\ step' = [step EXCEPT ![k] = "wiping"]
  /\ post' = [post EXCEPT ![k] = "sent"]
  /\ UNCHANGED <<server, view, target, jump, got, stopped, moved, blurred>>

(* What send() shows before it posts the question.                         *)
Placeholder(k, shown, how) ==
  IF how = "streamed" THEN Append(shown, Reply(k, FALSE, {})) ELSE shown

(* Fault: the composer takes a question while another is being answered.   *)
SendAnytime(k) ==
  /\ step[k] = "idle"
  /\ LET shown == Append(messages, Question(k, FALSE)) IN
       \E how \in Sends, first \in {"creating", "patching", "chatting"} :
         /\ (first = "creating") <=> (active = None)
         /\ first = "patching" => messages = <<>>
         /\ kind' = [kind EXCEPT ![k] = how]
         /\ step' = [step EXCEPT ![k] = first]
         /\ messages' = IF first = "chatting" THEN Placeholder(k, shown, how) ELSE shown
  /\ target' = [target EXCEPT ![k] = IF active = None THEN None ELSE active.of]
  /\ post' = [post EXCEPT ![k] = "sent"]
  /\ moved' = IF loads = <<>> THEN moved ELSE moved \cup {k}
  /\ UNCHANGED <<server, listed, doubled, active, loads, jump, got, stopped, blurred>>

(* send(): one at a time.  Without a conversation it creates one, a blank  *)
(* one that has no title yet it renames first.                             *)
Send(k) ==
  /\ step[k] = "idle" /\ InProgress = {}
  /\ LET shown == Append(messages, Question(k, FALSE)) IN
       \E how \in Sends, first \in {"creating", "patching", "chatting"} :
         /\ (first = "creating") <=> (active = None)
         /\ first = "patching" => messages = <<>>
         /\ kind' = [kind EXCEPT ![k] = how]
         /\ step' = [step EXCEPT ![k] = first]
         /\ messages' = IF first = "chatting" THEN Placeholder(k, shown, how) ELSE shown
  /\ target' = [target EXCEPT ![k] = IF active = None THEN None ELSE active.of]
  /\ post' = [post EXCEPT ![k] = "sent"]
  /\ moved' = IF loads = <<>> THEN moved ELSE moved \cup {k}
  /\ UNCHANGED <<server, listed, doubled, active, loads, jump, got, stopped, blurred>>

(* The stop button: a stream that is not open yet will not be opened.      *)
Stop(k) ==
  /\ k \in InProgress /\ kind[k] = "streamed" /\ k \notin stopped
  /\ stopped' = stopped \cup {k}
  /\ step' = [step EXCEPT ![k] = IF @ = "chatting" THEN "done" ELSE @]
  /\ blurred' = blurred \cup {"stopped"}
  /\ UNCHANGED <<server, view, kind, target, jump, got, post, moved>>

-----------------------------------------------------------------------------
(* The answers                                                             *)

(* From the preparation of a send to the question itself.                  *)
Proceed(k) ==
  /\ messages' = Placeholder(k, messages, kind[k])
  /\ IF kind[k] = "streamed" /\ k \in stopped
     THEN step' = [step EXCEPT ![k] = "done"] /\ post' = [post EXCEPT ![k] = "none"]
     ELSE step' = [step EXCEPT ![k] = "chatting"] /\ post' = [post EXCEPT ![k] = "sent"]
  /\ UNCHANGED moved

Finish(k) ==
  /\ step' = [step EXCEPT ![k] = "done"]
  /\ post' = [post EXCEPT ![k] = "none"]

(* A list that was read before the change arrives after it, or the answer  *)
(* to a creation after the conversation was removed again.                 *)
Outdated(k) ==
  IF \/ \E j \in Calls : step[j] = "refreshed"
     \/ step[k] = "creating" /\ conv[target[k]] # "open"
  THEN {"outdated"} ELSE {}

(* [item, ...items], whether it is listed already or not.                  *)
List(o) ==
  /\ listed' = listed \cup {o}
  /\ doubled' = IF o.of \in Listed THEN doubled \cup {o.of} ELSE doubled

(* Fault: the conversation is listed before the server has named it.       *)
CreatedAtOnce(k) ==
  /\ step[k] = "creating"
  /\ List(Returned(k, target[k])) /\ Show(Returned(k, target[k]))
  /\ IF kind[k] \in Sends THEN Proceed(k)
     ELSE Finish(k) /\ messages' = <<>> /\ moved' = moved \cup InProgress
  /\ blurred' = blurred
  /\ UNCHANGED <<server, kind, target, jump, got, stopped>>

(* The conversation that was created is listed first and shown, blank.     *)
Created(k) ==
  /\ step[k] = "creating" /\ post[k] = "served"
  /\ List(Returned(k, target[k])) /\ Show(Returned(k, target[k]))
  /\ IF kind[k] \in Sends THEN Proceed(k)
     ELSE Finish(k) /\ messages' = <<>> /\ moved' = moved \cup InProgress
  /\ blurred' = blurred \cup Outdated(k)
  /\ UNCHANGED <<server, kind, target, jump, got, stopped>>

(* The answer takes the place of its conversation, wherever that is listed. *)
Replace(new) == listed' = {IF o.of = new.of THEN new ELSE o : o \in listed}

(* If its title cannot be saved, a send goes on without.                   *)
Updated(k) ==
  /\ step[k] = "patching"
  /\ LET new == Returned(k, target[k]) IN
     \/ /\ kind[k] \in Sends /\ post[k] = "served" /\ Proceed(k)
        /\ Show(new) /\ Replace(new)
     \/ kind[k] \in Sends /\ Proceed(k)
        /\ UNCHANGED <<active, loads, listed>>
     \/ /\ kind[k] = "edit" /\ post[k] = "served" /\ Finish(k)
        /\ Replace(new)
        /\ IF jump[k] # {} THEN Show(new) ELSE UNCHANGED <<active, loads>>
        /\ UNCHANGED <<messages, moved>>
  /\ UNCHANGED <<server, doubled, kind, target, jump, got, stopped, blurred>>

(* Fault: what was archived stays listed until the next refresh.           *)
RemovedStaysListed(k) ==
  /\ step[k] = "removing" /\ post[k] = "served"
  /\ \/ /\ jump[k] = {} /\ blurred' = blurred \cup Outdated(k)
        /\ UNCHANGED <<active, loads, messages, moved>>
     \/ \E n \in jump[k] : Open(n) /\ blurred' = blurred \cup Outdated(k) \cup Blanked(n)
  /\ Finish(k)
  /\ UNCHANGED <<server, listed, doubled, kind, target, jump, got, stopped>>

(* A conversation was archived: the view moves on as the click decided, to *)
(* an object that may have become the active one since.                    *)
Removed(k) ==
  /\ step[k] = "removing" /\ post[k] = "served"
  /\ listed' = Without(target[k]) /\ doubled' = doubled \ {target[k]}
  /\ \/ /\ jump[k] = {} /\ blurred' = blurred \cup Outdated(k)
        /\ UNCHANGED <<active, loads, messages, moved>>
     \/ \E n \in jump[k] : Open(n) /\ blurred' = blurred \cup Outdated(k) \cup Blanked(n)
  /\ Finish(k)
  /\ UNCHANGED <<server, kind, target, jump, got, stopped>>

(* All was erased, which the settings page announces.                      *)
Wiped(k) ==
  /\ step[k] = "wiping" /\ post[k] = "served" /\ Finish(k)
  /\ UNCHANGED <<server, view, kind, target, jump, got, stopped, moved, blurred>>

(* onToken: added to the last message, if that is an answer.               *)
Token(k) ==
  /\ step[k] = "chatting" /\ kind[k] = "streamed" /\ post[k] = "served"
  /\ messages # <<>> /\ Last(messages).role = "assistant"
  /\ messages' = [messages EXCEPT ![Len(messages)].heard = @ \cup {k}]
  /\ UNCHANGED <<server, listed, doubled, active, loads, calls, post, moved, blurred>>

(* The stream has ended, or the whole answer is there, erased or not; the  *)
(* list is asked for again, and the composer is free.                      *)
Answered(k) ==
  /\ step[k] = "chatting" /\ post[k] = "served" /\ status[k] \in {"complete", "deleted"}
  /\ messages' = IF kind[k] = "whole" THEN Append(messages, Reply(k, TRUE, {k})) ELSE messages
  /\ step' = [step EXCEPT ![k] = "refreshing"]
  /\ UNCHANGED <<server, listed, doubled, active, loads, kind, target, jump, got, stopped, post,
                 moved, blurred>>

(* GET /conversations.                                                     *)
ReadList(k) ==
  /\ step[k] = "refreshing"
  /\ got' = [got EXCEPT ![k] = {c \in Conversations : conv[c] = "open"}]
  /\ step' = [step EXCEPT ![k] = "refreshed"]
  /\ UNCHANGED <<server, view, kind, target, jump, stopped, post, moved, blurred>>

(* The list shows a conversation before the answer to its creation does.   *)
Early(k) ==
  IF \E j \in Calls : step[j] = "creating" /\ post[j] = "served" /\ target[j] \in got[k]
  THEN {"early"} ELSE {}

(* Fault: the list is refreshed, the conversation on display is not.       *)
RefreshedListOnly(k) ==
  /\ step[k] = "refreshed" /\ Finish(k)
  /\ listed' = {InList(k, c) : c \in got[k]} /\ doubled' = {}
  /\ blurred' = blurred \cup Early(k)
  /\ got' = [got EXCEPT ![k] = {}]
  /\ UNCHANGED <<server, active, loads, messages, kind, target, jump, stopped, moved>>

(* refreshConversations: the list replaces the sidebar, and its copy of    *)
(* the conversation that was sent to becomes the active one.               *)
Refreshed(k) ==
  /\ step[k] = "refreshed" /\ Finish(k)
  /\ listed' = {InList(k, c) : c \in got[k]} /\ doubled' = {}
  /\ IF target[k] \in got[k]
     THEN Show(InList(k, target[k])) /\ blurred' = blurred \cup Early(k)
     ELSE blurred' = blurred \cup Early(k) \cup {"deleted"} /\ UNCHANGED <<active, loads>>
  /\ got' = [got EXCEPT ![k] = {}]
  /\ UNCHANGED <<server, messages, kind, target, jump, stopped, moved>>

(* A call is refused (no such conversation, a limit, a provider that       *)
(* fails), or its answer is lost: send() says so among the messages, the   *)
(* others leave the view alone.                                            *)
Fail(k) ==
  /\ step[k] \notin {"idle", "done"}
  /\ ~(step[k] = "patching" /\ kind[k] \in Sends)
  /\ messages' = IF k \in InProgress THEN Append(messages, Reply(k, FALSE, {})) ELSE messages
  /\ blurred' = blurred \cup {"lost", "unlisted"}
  /\ got' = [got EXCEPT ![k] = {}]
  /\ Finish(k)
  /\ UNCHANGED <<server, listed, doubled, active, loads, kind, target, jump, stopped, moved>>

Answer(k) ==
  \/ Created(k) \/ Updated(k) \/ Removed(k) \/ Wiped(k)
  \/ Answered(k) \/ ReadList(k) \/ Refreshed(k)

Next ==
  \/ ReadMessages \/ LandMessages \/ LoseMessages
  \/ \E k \in Calls :
       \/ Select(k) \/ NewConversation(k) \/ Edit(k) \/ DeleteConversation(k)
       \/ WipeConversations(k) \/ Send(k) \/ Stop(k)
       \/ Serve(k) \/ Settle(k)
       \/ Answer(k) \/ Token(k) \/ Fail(k)

Spec == Init /\ [][Next]_vars

-----------------------------------------------------------------------------
(* Properties                                                              *)

(* When nothing is under way the tab shows what the server stores of the   *)
(* active conversation: the question and the placeholder that send() puts  *)
(* there by hand, and the tokens it appends, have been replaced by stored  *)
(* messages, whatever was selected, renamed, created or deleted meanwhile. *)
(* Not so when a list overtook one that was asked for earlier (or arrived  *)
(* when nothing is active), a request failed, a stream was stopped, the    *)
(* object that was active already was selected, by a click or after a      *)
(* deletion, the conversation that was sent to was deleted, or all of them *)
(* were; selecting another object at rest makes up for all of these.       *)
QuietViewShowsServer ==
  Quiet /\ blurred \cap ViewCauses = {} =>
    messages = IF active = None THEN <<>> ELSE Listing(active.of)

(* When nothing is under way the sidebar lists the open conversations,     *)
(* each once, though creations and deletions patch it and a refresh        *)
(* replaces it.  Not so when a request failed, a list arrived that had     *)
(* been read before a change the tab had already shown, or with a          *)
(* conversation whose creation was not answered yet, or all were deleted.  *)
QuietListShowsServer ==
  Quiet /\ blurred \cap ListCauses = {} =>
    Listed = {c \in Conversations : conv[c] = "open"} /\ doubled = {}

(* An answer on display has no tokens of another one.  onToken appends to  *)
(* whatever is last, so that this rests on one send at a time and on every *)
(* send adding its placeholder; it fails only for a send under which the   *)
(* view was replaced.                                                      *)
OwnTokens ==
  \A i \in DOMAIN messages : messages[i].heard \subseteq {messages[i].call} \cup moved
=============================================================================
