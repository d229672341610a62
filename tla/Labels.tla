-------------------------------- MODULE Labels --------------------------------
(***************************************************************************)
(* The labels of a tenant's inboxes and their links to conversations:      *)
(* LabelsService, beside the requests of Inboxes and the moves that change *)
(* the inbox of a conversation (which here is all that a conversation is). *)
(*                                                                         *)
(* A deleted label keeps its row, its name and its links.  updateLabel     *)
(* ends in save(), which reads the row again, deleted or not, and writes   *)
(* the columns in which the entity it loaded first differs from it.        *)
(***************************************************************************)
EXTENDS Inboxes

CONSTANTS
  LabelIds,       \* ids of labels rows
  Names,          \* label names
  Conversations

LabelRows == [inbox : Inboxes, name : Names, deleted : BOOLEAN]

ASSUME NoneIsNoLabel == None \notin LabelIds \cup Names \cup Conversations
ASSUME NoneIsNoLabelRow == None \notin LabelRows

VARIABLES
  label,    \* label[l]: row l of labels, or None
  filedIn,  \* filedIn[c]: inbox_id of conversation c, None before its first message
  links,    \* rows of conversation_labels, as pairs of conversation and label
  astray    \* history: links whose conversation was moved after attach had read it

labelVars == <<inbox, req, label, filedIn, links, astray>>

Columns == {"inbox", "name", "deleted"}

LabelInit ==
  /\ InboxInit
  /\ label = [l \in LabelIds |-> None]
  /\ filedIn = [c \in Conversations |-> None]
  /\ links = {}
  /\ astray = {}

Live(l) == label[l] # None /\ ~label[l].deleted

NameInUse(i, name) ==
  \E l \in LabelIds : Live(l) /\ label[l].inbox = i /\ label[l].name = name

\* The unique index on (tenant_id, inbox_id, name), which sees deleted labels too.
NameIsFree(row, l) ==
  \A m \in LabelIds \ {l} :
    label[m] # None => label[m].inbox # row.inbox \/ label[m].name # row.name

-----------------------------------------------------------------------------
\* POST /labels
CreateLabelFindInbox(k, i, name) ==
  /\ req[k] = NoRequest
  /\ LiveInbox(i)
  /\ Continue(k, [pc |-> "checkLabel",
                  row |-> [inbox |-> i, name |-> name, deleted |-> FALSE]])
  /\ UNCHANGED <<inbox, label, filedIn, links>>

CreateLabelCheck(k) ==
  /\ req[k].pc = "checkLabel"
  /\ IF NameInUse(req[k].row.inbox, req[k].row.name)
       THEN Answer(k)
       ELSE Continue(k, [req[k] EXCEPT !.pc = "insertLabel"])
  /\ UNCHANGED <<inbox, label, filedIn, links>>

\* Mutant of CreateLabelInsert: a table without the unique index.
CreateLabelInsertUnindexed(k) ==
  /\ req[k].pc = "insertLabel"
  /\ \E l \in LabelIds :
       /\ label[l] = None
       /\ label' = [label EXCEPT ![l] = req[k].row]
  /\ Answer(k)
  /\ UNCHANGED <<inbox, filedIn, links>>

CreateLabelInsert(k) ==
  /\ req[k].pc = "insertLabel"
  /\ \E l \in LabelIds :
       /\ label[l] = None
       /\ label' = IF NameIsFree(req[k].row, l)
                     THEN [label EXCEPT ![l] = req[k].row]
                     ELSE label
  /\ Answer(k)
  /\ UNCHANGED <<inbox, filedIn, links>>

-----------------------------------------------------------------------------
\* Mutant of UpdateLabelFind: an absent name is assigned like any other.
UpdateLabelFindVerbatim(k, l, name) ==
  /\ req[k] = NoRequest
  /\ Live(l)
  /\ Continue(k, [pc |-> IF name = label[l].name THEN "loadLabel" ELSE "checkName",
                  label |-> l, row |-> [label[l] EXCEPT !.name = name]])
  /\ UNCHANGED <<inbox, label, filedIn, links>>

\* PATCH /labels/:id with a new name, or with none (None).
UpdateLabelFind(k, l, name) ==
  /\ req[k] = NoRequest
  /\ Live(l)
  /\ Continue(k,
       [pc |-> IF name \in {None, label[l].name} THEN "loadLabel" ELSE "checkName",
        label |-> l,
        row |-> [label[l] EXCEPT !.name = IF name = None THEN @ ELSE name]])
  /\ UNCHANGED <<inbox, label, filedIn, links>>

UpdateLabelCheck(k) ==
  /\ req[k].pc = "checkName"
  /\ IF NameInUse(req[k].row.inbox, req[k].row.name)
       THEN Answer(k)
       ELSE Continue(k, [req[k] EXCEPT !.pc = "loadLabel"])
  /\ UNCHANGED <<inbox, label, filedIn, links>>

\* save() reads the row and compares; colour and timestamps are left out.
UpdateLabelLoad(k) ==
  LET dirty == {f \in Columns : req[k].row[f] # label[req[k].label][f]} IN
  /\ req[k].pc = "loadLabel"
  /\ IF dirty = {}
       THEN Answer(k)
       ELSE Continue(k, [pc |-> "writeLabel", label |-> req[k].label,
                         row |-> req[k].row, dirty |-> dirty])
  /\ UNCHANGED <<inbox, label, filedIn, links>>

UpdateLabelWrite(k) ==
  LET l   == req[k].label
      row == [f \in Columns |-> IF f \in req[k].dirty THEN req[k].row[f] ELSE label[l][f]]
  IN
  /\ req[k].pc = "writeLabel"
  /\ label' = IF NameIsFree(row, l) THEN [label EXCEPT ![l] = row] ELSE label
  /\ Answer(k)
  /\ UNCHANGED <<inbox, filedIn, links>>

\* DELETE /labels/:id is one statement.
DeleteLabel(k, l) ==
  /\ req[k] = NoRequest
  /\ Live(l)
  /\ label' = [label EXCEPT ![l].deleted = TRUE]
  /\ UNCHANGED <<inbox, req, filedIn, links>>

-----------------------------------------------------------------------------
\* POST /conversations/:c/labels/:l reads the conversation ...
AttachFindConversation(k, c, l) ==
  /\ req[k] = NoRequest
  /\ filedIn[c] # None
  /\ Continue(k, [pc |-> "attachLabel", conversation |-> c, label |-> l,
                  inbox |-> filedIn[c]])
  /\ UNCHANGED <<inbox, label, filedIn, links>>

\* Mutant of AttachFindLabel: the inboxes are not compared.
AttachFindLabelOfAnyInbox(k) ==
  /\ req[k].pc = "attachLabel"
  /\ IF Live(req[k].label)
       THEN Continue(k, [req[k] EXCEPT !.pc = "findLink"])
       ELSE Answer(k)
  /\ UNCHANGED <<inbox, label, filedIn, links>>

\* ... then the label, and compares their inboxes ...
AttachFindLabel(k) ==
  /\ req[k].pc = "attachLabel"
  /\ IF Live(req[k].label) /\ label[req[k].label].inbox = req[k].inbox
       THEN Continue(k, [req[k] EXCEPT !.pc = "findLink"])
       ELSE Answer(k)
  /\ UNCHANGED <<inbox, label, filedIn, links>>

\* ... and inserts a link if there is none.
AttachFindLink(k) ==
  /\ req[k].pc = "findLink"
  /\ IF <<req[k].conversation, req[k].label>> \in links
       THEN Answer(k)
       ELSE Continue(k, [req[k] EXCEPT !.pc = "insertLink"])
  /\ UNCHANGED <<inbox, label, filedIn, links>>

\* The unique index refuses a second link, and the set stays the same.
AttachInsert(k) ==
  /\ req[k].pc = "insertLink"
  /\ links' = links \cup {<<req[k].conversation, req[k].label>>}
  /\ Answer(k)
  /\ UNCHANGED <<inbox, label, filedIn>>

-----------------------------------------------------------------------------
\* Mutant of DetachFind: a deleted label is found too.
DetachFindDeleted(k, c, l) ==
  /\ req[k] = NoRequest
  /\ filedIn[c] # None
  /\ label[l] # None
  /\ Continue(k, [pc |-> "deleteLink", conversation |-> c, label |-> l])
  /\ UNCHANGED <<inbox, label, filedIn, links>>

\* DELETE /conversations/:c/labels/:l
DetachFind(k, c, l) ==
  /\ req[k] = NoRequest
  /\ filedIn[c] # None
  /\ Live(l)
  /\ Continue(k, [pc |-> "deleteLink", conversation |-> c, label |-> l])
  /\ UNCHANGED <<inbox, label, filedIn, links>>

DetachDelete(k) ==
  /\ req[k].pc = "deleteLink"
  /\ links' = links \ {<<req[k].conversation, req[k].label>>}
  /\ Answer(k)
  /\ UNCHANGED <<inbox, label, filedIn>>

-----------------------------------------------------------------------------
\* A conversation is created in, or moved to, an inbox by the requests of
\* Allocation, which leave its links alone.
File(c, i) ==
  /\ Exists(i)
  /\ filedIn' = [filedIn EXCEPT ![c] = i]
  /\ UNCHANGED <<inbox, req, label, links>>

LabelRequest(k) ==
  \/ \E i \in Inboxes, name \in Names : CreateLabelFindInbox(k, i, name)
  \/ CreateLabelCheck(k)
  \/ CreateLabelInsert(k)
  \/ \E l \in LabelIds, name \in Names \cup {None} : UpdateLabelFind(k, l, name)
  \/ UpdateLabelCheck(k)
  \/ UpdateLabelLoad(k)
  \/ UpdateLabelWrite(k)
  \/ \E l \in LabelIds : DeleteLabel(k, l)

LinkRequest(k) ==
  \/ \E c \in Conversations, l \in LabelIds : AttachFindConversation(k, c, l)
  \/ AttachFindLabel(k)
  \/ AttachFindLink(k)
  \/ AttachInsert(k)
  \/ \E c \in Conversations, l \in LabelIds : DetachFind(k, c, l)
  \/ DetachDelete(k)

\* The pairs that are linked or that an attach in progress is about to link.
Tied ==
  links \cup {<<req[k].conversation, req[k].label>> :
              k \in {j \in Callers : req[j].pc \in {"attachLabel", "findLink", "insertLink"}}}

Watch == astray' = {t \in Tied' : t \in astray \/ filedIn'[t[1]] # filedIn[t[1]]}

LabelNext ==
  /\ \/ \E k \in Callers :
          \/ InboxRequest(k) /\ UNCHANGED <<label, filedIn, links>>
          \/ LabelRequest(k)
          \/ LinkRequest(k)
     \/ \E c \in Conversations, i \in Inboxes : File(c, i)
  /\ Watch

LabelSpec == LabelInit /\ [][LabelNext]_labelVars

-----------------------------------------------------------------------------
Requests ==
  {NoRequest}
    \cup [pc : {"insertInbox"}, phone : Phones]
    \cup [pc : {"updateInbox"}, inbox : Inboxes, phone : Phones]
    \cup [pc : {"removeInbox"}, inbox : Inboxes]
    \cup [pc : {"checkLabel", "insertLabel"}, row : LabelRows]
    \cup [pc : {"checkName", "loadLabel"}, label : LabelIds, row : LabelRows]
    \cup [pc : {"writeLabel"}, label : LabelIds, row : LabelRows, dirty : SUBSET Columns]
    \cup [pc : {"attachLabel", "findLink", "insertLink"},
          conversation : Conversations, label : LabelIds, inbox : Inboxes]
    \cup [pc : {"deleteLink"}, conversation : Conversations, label : LabelIds]

\* Type invariant of the tables and of the requests in progress.
LabelTypeOK ==
  /\ inbox \in [Inboxes -> InboxRows \cup {None}]
  /\ label \in [LabelIds -> LabelRows \cup {None}]
  /\ filedIn \in [Conversations -> Inboxes \cup {None}]
  /\ links \subseteq Conversations \X LabelIds
  /\ astray \subseteq Tied
  /\ req \in [Callers -> Requests]

\* "Label is scoped by (tenantId, inboxId, name)" (DESIGN_DECISION.md:89): two
\* rows never share inbox and name, whichever of create, rename, delete and the
\* save that brings a deleted label back come between check and write.
OneLabelPerName ==
  \A l, m \in LabelIds :
    /\ label[l] # None /\ label[m] # None
    /\ label[l].inbox = label[m].inbox /\ label[l].name = label[m].name
    => l = m

\* The comparison of inboxes made by attach still holds when the link is there,
\* unless the conversation was moved since attach had read it: nothing that
\* happens to the label meanwhile can break it.
LinksAreInScope ==
  \A t \in links \ astray : label[t[2]] # None /\ label[t[2]].inbox = filedIn[t[1]]

\* q has found label l and may still write to it or to its links.
Works(q, l) ==
  /\ q.pc \in {"checkName", "loadLabel", "writeLabel", "findLink", "insertLink", "deleteLink"}
  /\ q.label = l

WorkersOn(l) == {k \in Callers : Works(req[k], l)}

LinksOf(l) == {c \in Conversations : <<c, l>> \in links}

\* A deleted label and its links change, and the label comes back, only by a
\* request that had found it before, at most once by each and when it ends.  No
\* request finds it any more; when none that had is left, it does not come back and
\* is neither attached to a conversation nor detached from one.
DeletedLabelsAreFrozen ==
  [][\A l \in LabelIds :
       label[l] # None /\ ~Live(l) =>
         /\ WorkersOn(l)' \subseteq WorkersOn(l)
         /\ label'[l] # label[l] \/ LinksOf(l)' # LinksOf(l) =>
              WorkersOn(l)' # WorkersOn(l)]_labelVars

Book == INSTANCE Catalogue

\* Every request takes effect at one of its statements: numbers and names are free
\* and the inbox is there at the moment of the write, an edit neither deletes a
\* label nor carries it to another inbox, and a link is made within one inbox
\* unless its conversation was moved meanwhile.
ImplementsCatalogue == Book!Spec
=============================================================================
