---------------------------- MODULE Preferences ----------------------------
(***************************************************************************)
(* One user's preference document (settings/repository.py and the          *)
(* preference and memory endpoints of settings/routes.py) and the copies   *)
(* of it that browser tabs show (SettingsPage.tsx, App.tsx).  Other        *)
(* clients of the user call the same endpoints and show nothing here.      *)
(*                                                                         *)
(* A call loads the document, changes its own copy and writes the whole    *)
(* copy back with an upsert; nothing locks the row between the two.  A tab *)
(* applies a PATCH before it sends it, shows the document of each answer   *)
(* as it arrives, and restores what it showed before if a PATCH fails.     *)
(***************************************************************************)
EXTENDS Naturals, Sequences, SequencesExt

CONSTANTS Fields,       \* preferences other than the memories
          Values,       \* values of a field
          Default,      \* the value every field starts with
          Texts,        \* memories
          Patches,      \* bodies of PATCH requests
          MAX_MEMORIES, \* how many memories a document may have
          Tabs,         \* browser tabs of the user
          Calls,        \* calls of the settings API, each made once
          None          \* no tab, no operation, no document

ASSUME DefaultAssumption == Default \in Values
ASSUME LimitAssumption == MAX_MEMORIES \in Nat

Memories == SeqOf(Texts, MAX_MEMORIES)

ASSUME NoneAssumption == None \notin Values \cup Tabs \cup Memories

(* A patch may have a value for any field, and a whole list of memories,   *)
(* which nobody searches for duplicates.                                   *)
PreferencesUpdate ==
  [kind : {"patch"}, settings : [Fields -> Values \cup {None}], memories : Memories \cup {None}]

ASSUME PatchesAssumption == Patches \subseteq PreferencesUpdate

VARIABLES
  doc,     \* the committed document
  shown,   \* tab -> the document it shows
  op,      \* call -> what it asks for
  caller,  \* call -> the tab it is made from, None for another client
  before,  \* call -> what its tab showed when it was made
  pc,      \* call -> where it stands
  read,    \* call -> the document it loaded, then the document of its answer
  blurred  \* tab -> why its copy may differ from the document

vars == <<doc, shown, op, caller, before, pc, read, blurred>>

Document == [settings : [Fields -> Values], memories : Memories]
Defaults == [settings |-> [f \in Fields |-> Default], memories |-> <<>>]

Operation ==
  Patches \cup
  [kind : {"add"}, text : Texts] \cup
  [kind : {"forget"}, index : 1..MAX_MEMORIES] \cup
  [kind : {"clear", "get"}]

InFlight == {"sent", "loaded", "answered", "failed"}
Causes == {"overlap", "lost", "elsewhere"}

TypeOK ==
  /\ doc \in Document
  /\ shown \in [Tabs -> Document]
  /\ op \in [Calls -> Operation \cup {None}]
  /\ caller \in [Calls -> Tabs \cup {None}]
  /\ before \in [Calls -> Document \cup {None}]
  /\ pc \in [Calls -> {"idle", "done"} \cup InFlight]
  /\ read \in [Calls -> Document \cup {None}]
  /\ blurred \in [Tabs -> SUBSET Causes]

(* The tabs have loaded whatever document earlier sessions left.           *)
Init ==
  /\ doc \in Document
  /\ shown = [t \in Tabs |-> doc]
  /\ op = [c \in Calls |-> None]
  /\ caller = [c \in Calls |-> None]
  /\ before = [c \in Calls |-> None]
  /\ pc = [c \in Calls |-> "idle"]
  /\ read = [c \in Calls |-> None]
  /\ blurred = [t \in Tabs |-> {}]

-----------------------------------------------------------------------------
(* apply_patch: what is omitted keeps its value.                           *)
Merged(changes, d) ==
  [settings |-> [f \in Fields |-> IF changes.settings[f] = None
                                  THEN d.settings[f] ELSE changes.settings[f]],
   memories |-> IF changes.memories = None THEN d.memories ELSE changes.memories]

(* Fault: the last memory is removed, wherever the position points.        *)
AppliedToLast(o, d) ==
  CASE o.kind = "patch"  -> Merged(o, d)
    [] o.kind = "add"    -> [d EXCEPT !.memories = Append(@, o.text)]
    [] o.kind = "forget" -> [d EXCEPT !.memories = SubSeq(@, 1, Len(@) - 1)]
    [] o.kind = "clear"  -> [d EXCEPT !.memories = <<>>]

(* The document that a call writes, from the one it loaded.                *)
Applied(o, d) ==
  CASE o.kind = "patch"  -> Merged(o, d)
    [] o.kind = "add"    -> [d EXCEPT !.memories = Append(@, o.text)]
    [] o.kind = "forget" -> [d EXCEPT !.memories = RemoveAt(@, o.index)]
    [] o.kind = "clear"  -> [d EXCEPT !.memories = <<>>]

(* Answered with what was loaded: a GET, a memory that is there already.   *)
NothingToDo(o, d) == o.kind = "get" \/ (o.kind = "add" /\ Contains(d.memories, o.text))

(* 409, the limit; 404, no such position.                                  *)
Refused(o, d) ==
  \/ o.kind = "add" /\ Len(d.memories) >= MAX_MEMORIES
  \/ o.kind = "forget" /\ o.index > Len(d.memories)

-----------------------------------------------------------------------------
(* The tab                                                                 *)

(* A control changes one field; buttons there are for memories that are    *)
(* shown.                                                                  *)
Offered(o, d) ==
  /\ o.kind = "patch" =>
       o.memories = None /\ \E f \in Fields : {g \in Fields : o.settings[g] # None} = {f}
  /\ o.kind = "forget" => o.index <= Len(d.memories)
  /\ o.kind = "clear" => d.memories # <<>>

Others(t) == {d \in Calls : caller[d] = t /\ pc[d] \in InFlight}

(* persist, addMemory, removeMemory, clearAll, and the load of a session.  *)
Send(c, t, o) ==
  /\ pc[c] = "idle" /\ Offered(o, shown[t])
  /\ op' = [op EXCEPT ![c] = o]
  /\ caller' = [caller EXCEPT ![c] = t]
  /\ before' = [before EXCEPT ![c] = shown[t]]
  /\ pc' = [pc EXCEPT ![c] = "sent"]
  /\ shown' = [shown EXCEPT ![t] = IF o.kind = "patch" THEN Applied(o, @) ELSE @]
  /\ blurred' = [blurred EXCEPT ![t] = @ \cup (IF Others(t) # {} THEN {"overlap"} ELSE {})]
  /\ UNCHANGED <<doc, read>>

(* A call of another client, which may ask for anything.                   *)
SendOther(c, o) ==
  /\ pc[c] = "idle"
  /\ op' = [op EXCEPT ![c] = o]
  /\ pc' = [pc EXCEPT ![c] = "sent"]
  /\ UNCHANGED <<doc, shown, caller, before, read, blurred>>

(* The answer arrives.                                                     *)
Deliver(c) ==
  /\ pc[c] = "answered" /\ caller[c] # None
  /\ shown' = [shown EXCEPT ![caller[c]] = read[c]]
  /\ pc' = [pc EXCEPT ![c] = "done"]
  /\ UNCHANGED <<doc, op, caller, before, read, blurred>>

(* Fault: a rejected change is only announced.                             *)
AnnounceFailure(c) ==
  /\ pc[c] = "failed" /\ caller[c] # None
  /\ pc' = [pc EXCEPT ![c] = "done"]
  /\ UNCHANGED <<doc, shown, op, caller, before, read, blurred>>

(* An error arrives: persist restores what was shown, the others do not    *)
(* touch it.                                                               *)
Rollback(c) ==
  /\ pc[c] = "failed" /\ caller[c] # None
  /\ shown' = [shown EXCEPT ![caller[c]] = IF op[c].kind = "patch" THEN before[c] ELSE @]
  /\ pc' = [pc EXCEPT ![c] = "done"]
  /\ UNCHANGED <<doc, op, caller, before, read, blurred>>

-----------------------------------------------------------------------------
(* The server                                                              *)

(* Fault: only a document that will be changed is kept.                    *)
LoadForChange(c) ==
  /\ pc[c] = "sent"
  /\ pc' = [pc EXCEPT ![c] = IF NothingToDo(op[c], doc) THEN "answered"
                             ELSE IF Refused(op[c], doc) THEN "failed" ELSE "loaded"]
  /\ read' = [read EXCEPT ![c] = IF pc'[c] = "loaded" THEN doc ELSE @]
  /\ UNCHANGED <<doc, shown, op, caller, before, blurred>>

(* load_preferences, and what the endpoint checks of it.                   *)
Load(c) ==
  /\ pc[c] = "sent"
  /\ read' = [read EXCEPT ![c] = doc]
  /\ pc' = [pc EXCEPT ![c] = IF NothingToDo(op[c], doc) THEN "answered"
                             ELSE IF Refused(op[c], doc) THEN "failed" ELSE "loaded"]
  /\ UNCHANGED <<doc, shown, op, caller, before, blurred>>

(* The upsert of the whole document, and its commit.                       *)
Save(c) ==
  /\ pc[c] = "loaded"
  /\ doc' = Applied(op[c], read[c])
  /\ read' = [read EXCEPT ![c] = doc']
  /\ pc' = [pc EXCEPT ![c] = "answered"]
  /\ blurred' = [t \in Tabs |-> blurred[t] \cup (IF t # caller[c] THEN {"elsewhere"} ELSE {})]
  /\ UNCHANGED <<shown, op, caller, before>>

(* reset_settings: no load, and no control of the client for it.           *)
ResetSettings ==
  /\ doc' = Defaults
  /\ blurred' = [t \in Tabs |-> blurred[t] \cup {"elsewhere"}]
  /\ UNCHANGED <<shown, op, caller, before, pc, read>>

(* A value is rejected, the session has ended, the database fails.         *)
Fail(c) ==
  /\ pc[c] \in {"sent", "loaded"}
  /\ pc' = [pc EXCEPT ![c] = "failed"]
  /\ UNCHANGED <<doc, shown, op, caller, before, read, blurred>>

(* The answer is lost, which the tab takes for a failure.                  *)
LoseAnswer(c) ==
  /\ pc[c] = "answered" /\ caller[c] # None
  /\ pc' = [pc EXCEPT ![c] = "failed"]
  /\ blurred' = [blurred EXCEPT ![caller[c]] = @ \cup {"lost"}]
  /\ UNCHANGED <<doc, shown, op, caller, before, read>>

Next ==
  \/ ResetSettings
  \/ \E c \in Calls :
       \/ \E t \in Tabs, o \in Operation : Send(c, t, o)
       \/ \E o \in Operation : SendOther(c, o)
       \/ Load(c) \/ Save(c) \/ Fail(c) \/ LoseAnswer(c) \/ Deliver(c) \/ Rollback(c)

Spec == Init /\ [][Next]_vars

-----------------------------------------------------------------------------
(* Properties                                                              *)

AllAnswered == \A c \in Calls : caller[c] # None => pc[c] = "done"

(* When every call was answered, a tab shows the document as it is on the  *)
(* server, if its calls were made one after the other, no answer was lost  *)
(* and nobody else changed the document: optimistic changes and their      *)
(* rollback leave nothing behind.                                          *)
QuietTabShowsDocument ==
  AllAnswered => \A t \in Tabs : blurred[t] = {} => shown[t] = doc

(* A call from such a tab changes what its user pointed at and nothing     *)
(* else: only the field of the control, and of the memories that were      *)
(* shown exactly the one at the position, also if its text is there twice. *)
QuietCallIsExact ==
  [][\A c \in Calls :
       pc[c] = "loaded" /\ pc'[c] = "answered" /\ caller[c] # None /\ blurred[caller[c]] = {} =>
         /\ \A f \in Fields : doc'.settings[f] # doc.settings[f] =>
              op[c].kind = "patch" /\ op[c].settings[f] # None
         /\ op[c].kind = "forget" => doc'.memories = RemoveAt(before[c].memories, op[c].index)
         /\ op[c].kind = "patch" => doc'.memories = before[c].memories]_vars

(* docs/API.md:28 says of PATCH /settings that omitted fields are          *)
(* preserved.                                                              *)
OmittedArePreserved ==
  [][\A c \in Calls :
       pc[c] = "loaded" /\ pc'[c] = "answered" /\ op[c].kind = "patch" =>
         /\ \A f \in Fields : op[c].settings[f] = None => doc'.settings[f] = doc.settings[f]
         /\ op[c].memories = None => doc'.memories = doc.memories]_vars
=============================================================================
