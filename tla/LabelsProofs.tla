----------------------------- MODULE LabelsProofs -----------------------------
(***************************************************************************)
(* Theorems about Labels and Inboxes, for any number of callers, inboxes,  *)
(* phone numbers, labels, names and conversations.                         *)
(*                                                                         *)
(* Most actions are progress of one request that leaves the tables alone   *)
(* (Progress); the rest write one table each.                              *)
(***************************************************************************)
EXTENDS Labels, TLAPS

tables == <<inbox, label, filedIn, links>>

\* What a request may rely on: the rows it found are still there, the entity of
\* an update is not deleted and has the inbox of its label, and attach has compared
\* the inboxes that the conversation and the label still have, unless the pair is
\* astray.
Founded(q) ==
  /\ q.pc \in {"updateInbox", "removeInbox"} => Exists(q.inbox)
  /\ q.pc \in {"checkLabel", "insertLabel"} => Exists(q.row.inbox) /\ ~q.row.deleted
  /\ q.pc \in {"checkName", "loadLabel", "writeLabel"} =>
       label[q.label] # None /\ label[q.label].inbox = q.row.inbox /\ ~q.row.deleted
  /\ q.pc \in {"attachLabel", "findLink", "insertLink"} => filedIn[q.conversation] # None
  /\ q.pc \in {"findLink", "insertLink", "deleteLink"} => label[q.label] # None
  /\ q.pc \in {"attachLabel", "findLink", "insertLink"}
       /\ <<q.conversation, q.label>> \notin astray =>
         /\ q.pc = "attachLabel" => q.inbox = filedIn[q.conversation]
         /\ q.pc # "attachLabel" => label[q.label].inbox = filedIn[q.conversation]

\* The tables and the requests are well-typed.
Typed ==
  /\ inbox \in [Inboxes -> InboxRows \cup {None}]
  /\ label \in [LabelIds -> LabelRows \cup {None}]
  /\ filedIn \in [Conversations -> Inboxes \cup {None}]
  /\ links \subseteq Conversations \X LabelIds
  /\ req \in [Callers -> Requests]

\* The inductive invariant.
LabelInv ==
  /\ Typed
  /\ astray \subseteq Tied
  /\ OneInboxPerPhone
  /\ OneLabelPerName
  /\ LinksAreInScope
  /\ \A t \in links : label[t[2]] # None
  /\ \A k \in Callers : Founded(req[k])

Attaches(q) == q.pc \in {"attachLabel", "findLink", "insertLink"}

Progress(k, q) ==
  /\ q \in Requests
  /\ Founded(q)
  /\ req' = [req EXCEPT ![k] = q]
  /\ UNCHANGED tables

-----------------------------------------------------------------------------
\* What a request holds, by the statement that comes next.
LEMMA RequestFields ==
  ASSUME NEW q \in Requests
  PROVE  /\ q.pc = "insertInbox" => q.phone \in Phones
         /\ q.pc = "updateInbox" => q.inbox \in Inboxes /\ q.phone \in Phones
         /\ q.pc = "removeInbox" => q.inbox \in Inboxes
         /\ q.pc \in {"checkLabel", "insertLabel"} => q.row \in LabelRows
         /\ q.pc \in {"checkName", "loadLabel", "writeLabel"} =>
              q.label \in LabelIds /\ q.row \in LabelRows
         /\ Attaches(q) => /\ q.conversation \in Conversations /\ q.label \in LabelIds
                           /\ q.inbox \in Inboxes
         /\ q.pc = "deleteLink" => q.conversation \in Conversations /\ q.label \in LabelIds
  BY DEF Requests, NoRequest, Attaches

LEMMA NoRequestIsFine == NoRequest \in Requests /\ Founded(NoRequest)
  BY DEF Requests, NoRequest, Founded

\* Of two pairs, both or neither of which are tied before and after a step, the
\* one that is not astray afterwards was not before, nor was it moved.
LEMMA NotAstray ==
  ASSUME Watch, NEW t \in Tied', t \notin astray'
  PROVE  t \notin astray /\ filedIn'[t[1]] = filedIn[t[1]]
  BY DEF Watch

LEMMA AttachIsTied ==
  ASSUME NEW k \in Callers, Attaches(req[k])
  PROVE  <<req[k].conversation, req[k].label>> \in Tied
  BY DEF Tied, Attaches

LEMMA AttachIsTiedNext ==
  ASSUME NEW k \in Callers, Attaches(req'[k])
  PROVE  <<req'[k].conversation, req'[k].label>> \in Tied'
  BY DEF Tied, Attaches

LEMMA AstrayIsTied ==
  ASSUME Watch
  PROVE  astray' \subseteq Tied'
  BY DEF Watch

\* Rows are never taken away, and a label keeps its inbox.
RowsStay ==
  /\ \A i \in Inboxes : Exists(i) => inbox'[i] # None
  /\ \A c \in Conversations : filedIn[c] # None => filedIn'[c] # None
  /\ \A l \in LabelIds : label[l] # None =>
       label'[l] # None /\ label'[l].inbox = label[l].inbox

\* A request that does not move stays well-founded, whatever others do.
LEMMA FoundedStays ==
  ASSUME LabelInv, RowsStay, Watch, NEW k \in Callers, req'[k] = req[k]
  PROVE  Founded(req[k])'
<1> DEFINE q == req[k]  t == <<q.conversation, q.label>>
<1>1. q \in Requests /\ Founded(q)
  BY DEF LabelInv, Typed
<1>2. ASSUME Attaches(q), t \notin astray'
      PROVE  t \notin astray /\ filedIn'[q.conversation] = filedIn[q.conversation]
  <2>1. t \in Tied'
    BY <1>2, AttachIsTiedNext
  <2> QED
    BY <1>2, <2>1, NotAstray
<1>3. q.pc \in {"updateInbox", "removeInbox"} => inbox'[q.inbox] # None
  BY <1>1, RequestFields DEF RowsStay, Founded
<1>4. q.pc \in {"checkName", "loadLabel", "writeLabel"} =>
        label'[q.label] # None /\ label'[q.label].inbox = q.row.inbox /\ ~q.row.deleted
  BY <1>1, RequestFields DEF RowsStay, Founded
<1>5. q.pc \in {"findLink", "insertLink", "deleteLink"} =>
        label'[q.label] # None /\ label'[q.label].inbox = label[q.label].inbox
  BY <1>1, RequestFields DEF RowsStay, Founded, Attaches
<1>6. ASSUME Attaches(q), t \notin astray'
      PROVE  /\ q.pc = "attachLabel" => q.inbox = filedIn'[q.conversation]
             /\ q.pc # "attachLabel" => label'[q.label].inbox = filedIn'[q.conversation]
  BY <1>1, <1>2, <1>5, <1>6 DEF Founded, Attaches
<1>7. Attaches(q) => filedIn'[q.conversation] # None
  BY <1>1, RequestFields DEF RowsStay, Founded, Attaches
<1>8. q.pc \in {"checkLabel", "insertLabel"} => inbox'[q.row.inbox] # None /\ ~q.row.deleted
  BY <1>1, RequestFields DEF RowsStay, Founded, LabelRows
<1> HIDE DEF t
<1> QED
  BY <1>3, <1>4, <1>5, <1>6, <1>7, <1>8 DEF Founded, Exists, Attaches, t

\* The links that a step leaves or makes are in scope.
LEMMA ScopeStays ==
  ASSUME LabelInv, RowsStay, Watch, Typed',
         \A t \in links' : \/ t \in links
                           \/ \E k \in Callers : /\ req[k].pc = "insertLink"
                                                 /\ t = <<req[k].conversation, req[k].label>>
  PROVE  LinksAreInScope' /\ \A t \in links' : label'[t[2]] # None
<1>1. ASSUME NEW t \in links'
      PROVE  /\ t[1] \in Conversations /\ t[2] \in LabelIds
             /\ label[t[2]] # None
             /\ t \notin astray => label[t[2]].inbox = filedIn[t[1]]
  <2>1. CASE t \in links
    BY <2>1 DEF LabelInv, Typed, LinksAreInScope
  <2>2. ASSUME NEW k \in Callers, req[k].pc = "insertLink",
               t = <<req[k].conversation, req[k].label>>
        PROVE  /\ t[1] \in Conversations /\ t[2] \in LabelIds
               /\ label[t[2]] # None
               /\ t \notin astray => label[t[2]].inbox = filedIn[t[1]]
    <3>1. req[k] \in Requests /\ Founded(req[k])
      BY DEF LabelInv, Typed
    <3>2. /\ req[k].conversation \in Conversations /\ req[k].label \in LabelIds
          /\ label[req[k].label] # None
          /\ <<req[k].conversation, req[k].label>> \notin astray =>
               label[req[k].label].inbox = filedIn[req[k].conversation]
      BY <2>2, <3>1, RequestFields DEF Founded, Attaches
    <3> QED
      BY <2>2, <3>2
  <2> QED
    BY <2>1, <2>2
<1>2. ASSUME NEW t \in links'
      PROVE  /\ label'[t[2]] # None
             /\ t \notin astray' => label'[t[2]].inbox = filedIn'[t[1]]
  <2>1. t \in Tied'
    BY DEF Tied
  <2>2. label'[t[2]] # None /\ label'[t[2]].inbox = label[t[2]].inbox
    BY <1>1 DEF RowsStay
  <2>3. t \notin astray' => t \notin astray /\ filedIn'[t[1]] = filedIn[t[1]]
    BY <2>1, NotAstray
  <2> QED
    BY <1>1, <2>2, <2>3
<1> QED
  BY <1>2 DEF LinksAreInScope

\* What is left to show of a step: types, unique keys, where its links come
\* from, and that the request it works for is well-founded.
LEMMA Frame ==
  ASSUME LabelInv, RowsStay, Watch, Typed', OneInboxPerPhone', OneLabelPerName',
         \A t \in links' : \/ t \in links
                           \/ \E k \in Callers : /\ req[k].pc = "insertLink"
                                                 /\ t = <<req[k].conversation, req[k].label>>,
         \A j \in Callers : req'[j] = req[j] \/ Founded(req[j])'
  PROVE  LabelInv'
<1>1. \A j \in Callers : Founded(req[j])'
  BY FoundedStays
<1>2. LinksAreInScope' /\ \A t \in links' : label'[t[2]] # None
  BY ScopeStays
<1> QED
  BY <1>1, <1>2, AstrayIsTied DEF LabelInv

LEMMA AnswerIsFounded ==
  ASSUME LabelInv, NEW k \in Callers, Answer(k)
  PROVE  /\ req' \in [Callers -> Requests]
         /\ \A j \in Callers : req'[j] = req[j] \/ Founded(req[j])'
<1>1. req' = [req EXCEPT ![k] = NoRequest]
  BY DEF Answer, Continue
<1>2. req' \in [Callers -> Requests]
  BY <1>1, NoRequestIsFine DEF LabelInv, Typed
<1>3. \A j \in Callers \ {k} : req'[j] = req[j]
  BY <1>1 DEF LabelInv, Typed
<1>4. req'[k] = NoRequest
  BY <1>1 DEF LabelInv, Typed
<1>5. Founded(req[k])'
  BY <1>4 DEF Founded, NoRequest
<1> QED
  BY <1>2, <1>3, <1>5

LEMMA ProgressKeepsInv ==
  ASSUME LabelInv, Watch, NEW k \in Callers, NEW q, Progress(k, q)
  PROVE  LabelInv'
<1>1. /\ UNCHANGED <<inbox, label, filedIn, links>>
      /\ req' = [req EXCEPT ![k] = q] /\ q \in Requests /\ Founded(q)
  BY DEF Progress, tables
<1>2. Typed' /\ req'[k] = q /\ \A j \in Callers \ {k} : req'[j] = req[j]
  BY <1>1 DEF LabelInv, Typed
<1>3. RowsStay
  BY <1>1 DEF RowsStay, Exists
<1>4. OneInboxPerPhone' /\ OneLabelPerName'
  BY <1>1 DEF LabelInv, OneInboxPerPhone, OneLabelPerName, Exists
<1>5. ASSUME Attaches(q), <<q.conversation, q.label>> \notin astray'
      PROVE  <<q.conversation, q.label>> \notin astray
  BY <1>2, <1>5, AttachIsTiedNext, NotAstray
<1>6. Founded(req[k])'
  BY <1>1, <1>2, <1>5 DEF Founded, Exists, Attaches
<1> QED
  BY <1>1, <1>2, <1>3, <1>4, <1>6, Frame

-----------------------------------------------------------------------------
(* The requests of Inboxes and Labels. *)

LEMMA Continues ==
  ASSUME NEW k \in Callers, NEW q \in Requests, Founded(q), Continue(k, q), UNCHANGED tables
  PROVE  Progress(k, q)
  BY DEF Continue, Progress

LEMMA Answers ==
  ASSUME NEW k \in Callers, Answer(k), UNCHANGED tables
  PROVE  Progress(k, NoRequest)
  BY NoRequestIsFine DEF Answer, Continue, Progress

LEMMA InboxReads ==
  ASSUME LabelInv, NEW k \in Callers, UNCHANGED <<label, filedIn, links>>,
         \/ \E phone \in Phones : CreateInboxCheck(k, phone)
         \/ \E i \in Inboxes, phone \in Phones : UpdateInboxFind(k, i, phone)
         \/ \E i \in Inboxes : RemoveInboxFind(k, i)
  PROVE  \E q \in Requests : Progress(k, q)
<1> USE DEF Continue, Progress, tables, Founded, Requests
<1>1. ASSUME NEW phone \in Phones, CreateInboxCheck(k, phone)
      PROVE  \E q \in Requests : Progress(k, q)
  BY <1>1 DEF CreateInboxCheck
<1>2. ASSUME NEW i \in Inboxes, NEW phone \in Phones, UpdateInboxFind(k, i, phone)
      PROVE  \E q \in Requests : Progress(k, q)
  BY <1>2 DEF UpdateInboxFind, LiveInbox
<1>3. ASSUME NEW i \in Inboxes, RemoveInboxFind(k, i)
      PROVE  \E q \in Requests : Progress(k, q)
  BY <1>3 DEF RemoveInboxFind, LiveInbox
<1> QED
  BY <1>1, <1>2, <1>3

LEMMA CreateLabelReads ==
  ASSUME LabelInv, NEW k \in Callers,
         \/ \E i \in Inboxes, name \in Names : CreateLabelFindInbox(k, i, name)
         \/ CreateLabelCheck(k)
  PROVE  \E q \in Requests : Progress(k, q)
<1>1. ASSUME NEW i \in Inboxes, NEW name \in Names, CreateLabelFindInbox(k, i, name)
      PROVE  \E q \in Requests : Progress(k, q)
  <2>1. PICK q : q = [pc |-> "checkLabel",
                      row |-> [inbox |-> i, name |-> name, deleted |-> FALSE]]
    OBVIOUS
  <2>2. q \in Requests /\ Founded(q)
    BY <1>1, <2>1 DEF CreateLabelFindInbox, LiveInbox, Founded, Requests, LabelRows
  <2>3. UNCHANGED tables /\ Continue(k, q)
    BY <1>1, <2>1 DEF CreateLabelFindInbox, tables
  <2> QED
    BY <2>2, <2>3, Continues
<1>2. ASSUME CreateLabelCheck(k)
      PROVE  \E q \in Requests : Progress(k, q)
  <2>1. req[k] \in Requests /\ req[k].pc = "checkLabel"
    BY <1>2 DEF CreateLabelCheck, LabelInv, Typed
  <2>2. PICK q : q = [req[k] EXCEPT !.pc = "insertLabel"]
    OBVIOUS
  <2>3. req[k] \in [pc : {"checkLabel", "insertLabel"}, row : LabelRows]
    BY <2>1 DEF Requests, NoRequest
  <2>4. /\ q \in [pc : {"checkLabel", "insertLabel"}, row : LabelRows]
        /\ q.pc = "insertLabel" /\ q.row = req[k].row
    BY <2>2, <2>3
  <2>5. q \in Requests /\ Founded(q)
    BY <2>1, <2>4 DEF Requests, Founded, LabelInv
  <2>6. UNCHANGED tables /\ (Answer(k) \/ Continue(k, q))
    BY <1>2, <2>2 DEF CreateLabelCheck, tables
  <2> QED
    BY <2>5, <2>6, Continues, Answers, NoRequestIsFine
<1> QED
  BY <1>1, <1>2

LEMMA UpdateLabelReads ==
  ASSUME LabelInv, NEW k \in Callers,
         \/ \E l \in LabelIds, name \in Names \cup {None} : UpdateLabelFind(k, l, name)
         \/ UpdateLabelCheck(k)
         \/ UpdateLabelLoad(k)
  PROVE  \E q \in Requests : Progress(k, q)
<1>0. req[k] \in Requests /\ Founded(req[k])
  BY DEF LabelInv, Typed
<1>1. ASSUME NEW l \in LabelIds, NEW name \in Names \cup {None}, UpdateLabelFind(k, l, name)
      PROVE  \E q \in Requests : Progress(k, q)
  <2>1. label[l] \in LabelRows /\ label[l] # None
    BY <1>1 DEF UpdateLabelFind, Live, LabelInv, Typed
  <2>2. PICK row : row = [label[l] EXCEPT !.name = IF name = None THEN @ ELSE name]
    OBVIOUS
  <2>3. row \in LabelRows /\ row.inbox = label[l].inbox /\ ~row.deleted
    BY <1>1, <2>1, <2>2 DEF LabelRows, UpdateLabelFind, Live
  <2>4. PICK pc \in {"loadLabel", "checkName"} :
          Continue(k, [pc |-> pc, label |-> l, row |-> row])
    BY <1>1, <2>2 DEF UpdateLabelFind
  <2>5. PICK q : q = [pc |-> pc, label |-> l, row |-> row]
    OBVIOUS
  <2>6. q \in [pc : {"checkName", "loadLabel"}, label : LabelIds, row : LabelRows]
    BY <2>3, <2>5
  <2>7. q \in Requests /\ Founded(q)
    BY <2>1, <2>3, <2>5, <2>6 DEF Requests, Founded
  <2>8. UNCHANGED tables /\ Continue(k, q)
    BY <1>1, <2>4, <2>5 DEF UpdateLabelFind, tables
  <2> QED
    BY <2>7, <2>8, Continues
<1>2. ASSUME UpdateLabelCheck(k)
      PROVE  \E q \in Requests : Progress(k, q)
  <2>1. req[k] \in [pc : {"checkName", "loadLabel"}, label : LabelIds, row : LabelRows]
    BY <1>0, <1>2 DEF UpdateLabelCheck, Requests, NoRequest
  <2>2. PICK q : q = [req[k] EXCEPT !.pc = "loadLabel"]
    OBVIOUS
  <2>3. /\ q \in [pc : {"checkName", "loadLabel"}, label : LabelIds, row : LabelRows]
        /\ q.pc = "loadLabel" /\ q.label = req[k].label /\ q.row = req[k].row
    BY <2>1, <2>2
  <2>4. q \in Requests /\ Founded(q)
    BY <1>0, <1>2, <2>3 DEF UpdateLabelCheck, Requests, Founded
  <2>5. UNCHANGED tables /\ (Answer(k) \/ Continue(k, q))
    BY <1>2, <2>2 DEF UpdateLabelCheck, tables
  <2> QED
    BY <2>4, <2>5, Continues, Answers, NoRequestIsFine
<1>3. ASSUME UpdateLabelLoad(k)
      PROVE  \E q \in Requests : Progress(k, q)
  <2>1. PICK dirty \in SUBSET Columns :
          \/ Answer(k)
          \/ Continue(k, [pc |-> "writeLabel", label |-> req[k].label,
                          row |-> req[k].row, dirty |-> dirty])
    <3>1. {f \in Columns : req[k].row[f] # label[req[k].label][f]} \in SUBSET Columns
      OBVIOUS
    <3> QED
      BY <1>3, <3>1, Zenon DEF UpdateLabelLoad
  <2>2. /\ req[k].label \in LabelIds /\ req[k].row \in LabelRows
        /\ label[req[k].label] # None /\ label[req[k].label].inbox = req[k].row.inbox
        /\ ~req[k].row.deleted
    BY <1>0, <1>3, RequestFields DEF UpdateLabelLoad, Founded
  <2>3. PICK q : q = [pc |-> "writeLabel", label |-> req[k].label,
                      row |-> req[k].row, dirty |-> dirty]
    OBVIOUS
  <2>4. /\ q \in [pc : {"writeLabel"}, label : LabelIds, row : LabelRows, dirty : SUBSET Columns]
        /\ q.pc = "writeLabel" /\ q.label = req[k].label /\ q.row = req[k].row
    BY <2>2, <2>3
  <2>5. q \in Requests /\ Founded(q)
    BY <2>2, <2>4 DEF Requests, Founded
  <2>6. UNCHANGED tables /\ (Answer(k) \/ Continue(k, q))
    BY <1>3, <2>1, <2>3 DEF UpdateLabelLoad, tables
  <2> QED
    BY <2>5, <2>6, Continues, Answers, NoRequestIsFine
<1> QED
  BY <1>1, <1>2, <1>3

LEMMA LinkReads ==
  ASSUME LabelInv, NEW k \in Callers,
         \/ \E c \in Conversations, l \in LabelIds : AttachFindConversation(k, c, l)
         \/ AttachFindLabel(k) \/ AttachFindLink(k)
         \/ \E c \in Conversations, l \in LabelIds : DetachFind(k, c, l)
  PROVE  \E q \in Requests : Progress(k, q)
<1>0. req[k] \in Requests /\ Founded(req[k])
  BY DEF LabelInv, Typed
<1>1. ASSUME NEW c \in Conversations, NEW l \in LabelIds, AttachFindConversation(k, c, l)
      PROVE  \E q \in Requests : Progress(k, q)
  <2>1. filedIn[c] \in Inboxes
    BY <1>1 DEF AttachFindConversation, LabelInv, Typed
  <2>2. PICK q : q = [pc |-> "attachLabel", conversation |-> c, label |-> l, inbox |-> filedIn[c]]
    OBVIOUS
  <2>3. q \in [pc : {"attachLabel", "findLink", "insertLink"},
               conversation : Conversations, label : LabelIds, inbox : Inboxes]
    BY <2>1, <2>2
  <2>4. q \in Requests /\ Founded(q)
    BY <1>1, <2>2, <2>3 DEF AttachFindConversation, Requests, Founded
  <2>5. UNCHANGED tables /\ Continue(k, q)
    BY <1>1, <2>2 DEF AttachFindConversation, tables
  <2> QED
    BY <2>4, <2>5, Continues
<1>2. ASSUME NEW pc \in {"findLink", "insertLink"},
             req[k].pc \in {"attachLabel", "findLink"},
             req[k].pc = "attachLabel" =>
               Live(req[k].label) /\ label[req[k].label].inbox = req[k].inbox
      PROVE  [req[k] EXCEPT !.pc = pc] \in Requests /\ Founded([req[k] EXCEPT !.pc = pc])
  <2>1. req[k] \in [pc : {"attachLabel", "findLink", "insertLink"},
                    conversation : Conversations, label : LabelIds, inbox : Inboxes]
    BY <1>0, <1>2 DEF Requests, NoRequest
  <2> DEFINE q == [req[k] EXCEPT !.pc = pc]
  <2>2. /\ q \in [pc : {"attachLabel", "findLink", "insertLink"},
                  conversation : Conversations, label : LabelIds, inbox : Inboxes]
        /\ q.pc = pc /\ q.label = req[k].label /\ q.conversation = req[k].conversation
    BY <2>1
  <2> HIDE DEF q
  <2>3. q \in Requests
    BY <2>2 DEF Requests
  <2>4. Founded(q)
    BY <1>0, <1>2, <2>2 DEF Founded, Live
  <2> QED
    BY <2>3, <2>4 DEF q
<1>3. ASSUME AttachFindLabel(k) \/ AttachFindLink(k)
      PROVE  \E q \in Requests : Progress(k, q)
  <2>1. PICK pc \in {"findLink", "insertLink"} :
          /\ req[k].pc \in {"attachLabel", "findLink"}
          /\ \/ Answer(k)
             \/ /\ Continue(k, [req[k] EXCEPT !.pc = pc])
                /\ req[k].pc = "attachLabel" =>
                     Live(req[k].label) /\ label[req[k].label].inbox = req[k].inbox
    BY <1>3 DEF AttachFindLabel, AttachFindLink
  <2>2. UNCHANGED tables
    BY <1>3 DEF AttachFindLabel, AttachFindLink, tables
  <2>3. CASE Answer(k)
    BY <2>2, <2>3, Answers, NoRequestIsFine
  <2>4. CASE ~Answer(k)
    <3>1. PICK q : q = [req[k] EXCEPT !.pc = pc]
      OBVIOUS
    <3> QED
      BY <1>2, <2>1, <2>2, <2>4, <3>1, Continues
  <2> QED
    BY <2>3, <2>4
<1>4. ASSUME NEW c \in Conversations, NEW l \in LabelIds, DetachFind(k, c, l)
      PROVE  \E q \in Requests : Progress(k, q)
  BY <1>4 DEF DetachFind, Live, Continue, Progress, tables, Founded, Requests
<1> QED
  BY <1>1, <1>3, <1>4

-----------------------------------------------------------------------------
(* The statements that write a table. *)

LEMMA InboxWritesKeepInv ==
  ASSUME LabelInv, Watch, NEW k \in Callers, UNCHANGED <<label, filedIn, links>>,
         CreateInboxInsert(k) \/ UpdateInboxWrite(k) \/ RemoveInboxWrite(k)
  PROVE  LabelInv'
<1>0. req[k] \in Requests /\ Founded(req[k]) /\ Answer(k)
  BY DEF LabelInv, Typed, CreateInboxInsert, UpdateInboxWrite, RemoveInboxWrite
<1>1. \/ inbox' = inbox
      \/ \E i \in Inboxes, row \in InboxRows :
           /\ PhoneIsFree(row.phone, i)
           /\ inbox' = [inbox EXCEPT ![i] = row]
  <2>1. CASE CreateInboxInsert(k)
    <3>1. req[k].phone \in Phones
      BY <1>0, <2>1, RequestFields DEF CreateInboxInsert
    <3>2. PICK row : row = [phone |-> req[k].phone, deleted |-> FALSE]
      OBVIOUS
    <3>3. row \in InboxRows /\ row.phone = req[k].phone
      BY <3>1, <3>2 DEF InboxRows
    <3> QED
      BY <2>1, <3>2, <3>3 DEF CreateInboxInsert
  <2>2. CASE UpdateInboxWrite(k)
    <3>1. PICK i \in Inboxes : i = req[k].inbox /\ req[k].phone \in Phones /\ inbox[i] \in InboxRows
      BY <1>0, <2>2, RequestFields DEF UpdateInboxWrite, Founded, Exists, LabelInv, Typed
    <3>2. PICK row : row = [inbox[i] EXCEPT !.phone = req[k].phone]
      OBVIOUS
    <3>3. row \in InboxRows /\ row.phone = req[k].phone
      BY <3>1, <3>2 DEF InboxRows
    <3> QED
      BY <2>2, <3>1, <3>2, <3>3 DEF UpdateInboxWrite
  <2>3. CASE RemoveInboxWrite(k)
    <3>1. PICK i \in Inboxes : i = req[k].inbox /\ inbox[i] \in InboxRows /\ Exists(i)
      BY <1>0, <2>3, RequestFields DEF RemoveInboxWrite, Founded, Exists, LabelInv, Typed
    <3>2. PICK row : row = [inbox[i] EXCEPT !.deleted = TRUE]
      OBVIOUS
    <3>3. row \in InboxRows /\ row.phone = inbox[i].phone
      BY <3>1, <3>2 DEF InboxRows
    <3>4. PhoneIsFree(row.phone, i)
      BY <3>1, <3>3 DEF PhoneIsFree, LabelInv, OneInboxPerPhone, Exists
    <3> QED
      BY <2>3, <3>1, <3>2, <3>3, <3>4 DEF RemoveInboxWrite
  <2> QED
    BY <2>1, <2>2, <2>3
<1>2. inbox' \in [Inboxes -> InboxRows \cup {None}]
  BY <1>1 DEF LabelInv, Typed
<1>3. \A i \in Inboxes : Exists(i) => inbox'[i] # None
  BY <1>1, NoneIsNoInboxRow DEF LabelInv, Typed, Exists
<1>4. OneInboxPerPhone'
  BY <1>1 DEF LabelInv, Typed, OneInboxPerPhone, PhoneIsFree, Exists
<1>5. Typed' /\ RowsStay /\ OneLabelPerName'
  BY <1>0, <1>2, <1>3, AnswerIsFounded DEF LabelInv, Typed, RowsStay, OneLabelPerName
<1> QED
  BY <1>0, <1>4, <1>5, AnswerIsFounded, Frame

\* A row of labels that a statement writes: its inbox and name are free, and the
\* inbox is the one the row had.
WritesLabel(l, row) ==
  /\ row \in LabelRows
  /\ NameIsFree(row, l)
  /\ label[l] # None => row.inbox = label[l].inbox
  /\ label' = [label EXCEPT ![l] = row]

\* Row r of labels with the columns d of entity s.
Merged(r, s, d) == [f \in Columns |-> IF f \in d THEN s[f] ELSE r[f]]

LEMMA MergedLabel ==
  ASSUME NEW r \in LabelRows, NEW s \in LabelRows, r.inbox = s.inbox, NEW d
  PROVE  Merged(r, s, d) \in LabelRows /\ Merged(r, s, d).inbox = r.inbox
<1> DEFINE m == Merged(r, s, d)
<1>1. /\ m.inbox = (IF "inbox" \in d THEN s.inbox ELSE r.inbox)
      /\ m.name = (IF "name" \in d THEN s.name ELSE r.name)
      /\ m.deleted = (IF "deleted" \in d THEN s.deleted ELSE r.deleted)
  BY DEF Columns, Merged
<1>2. m = [inbox |-> m.inbox, name |-> m.name, deleted |-> m.deleted]
  BY DEF Columns, Merged
<1> HIDE DEF m
<1>3. m.inbox \in Inboxes /\ m.name \in Names /\ m.deleted \in BOOLEAN
  BY <1>1 DEF LabelRows
<1>4. m \in LabelRows /\ m.inbox = r.inbox
  BY <1>1, <1>2, <1>3 DEF LabelRows
<1> QED
  BY <1>4 DEF m

LEMMA LabelWrites ==
  ASSUME LabelInv, NEW k \in Callers,
         \/ CreateLabelInsert(k) \/ UpdateLabelWrite(k)
         \/ \E l \in LabelIds : DeleteLabel(k, l)
  PROVE  \/ UNCHANGED label
         \/ \E l \in LabelIds, row \in LabelRows : WritesLabel(l, row)
<1>0. req[k] \in Requests /\ Founded(req[k])
  BY DEF LabelInv, Typed
<1>1. CASE CreateLabelInsert(k)
  BY <1>0, <1>1, RequestFields DEF CreateLabelInsert, WritesLabel
<1>2. CASE UpdateLabelWrite(k)
  <2>1. PICK l \in LabelIds : l = req[k].label
    BY <1>0, <1>2, RequestFields DEF UpdateLabelWrite
  <2>2. PICK row : row = [f \in Columns |-> IF f \in req[k].dirty THEN req[k].row[f]
                                            ELSE label[l][f]]
    OBVIOUS
  <2>3. /\ req[k].row \in LabelRows /\ label[l] \in LabelRows
        /\ label[l].inbox = req[k].row.inbox
    BY <1>0, <1>2, <2>1, RequestFields DEF UpdateLabelWrite, Founded, LabelInv, Typed
  <2>4. row \in LabelRows /\ row.inbox = label[l].inbox
    <3>1. PICK r, s, d : r = label[l] /\ s = req[k].row /\ d = req[k].dirty
      OBVIOUS
    <3>2. row = Merged(r, s, d)
      BY <2>2, <3>1 DEF Merged
    <3>3. r \in LabelRows /\ s \in LabelRows /\ r.inbox = s.inbox
      BY <2>3, <3>1
    <3>4. row \in LabelRows /\ row.inbox = r.inbox
      BY <3>2, <3>3, MergedLabel
    <3> QED
      BY <3>1, <3>4
  <2>5. label' = IF NameIsFree(row, l) THEN [label EXCEPT ![l] = row] ELSE label
    BY <1>2, <2>1, <2>2 DEF UpdateLabelWrite
  <2> QED
    BY <2>4, <2>5 DEF WritesLabel
<1>3. ASSUME NEW l \in LabelIds, DeleteLabel(k, l)
      PROVE  \E row \in LabelRows : WritesLabel(l, row)
  <2>1. label[l] \in LabelRows /\ label[l] # None
    BY <1>3 DEF DeleteLabel, Live, LabelInv, Typed
  <2>2. PICK row : row = [label[l] EXCEPT !.deleted = TRUE]
    OBVIOUS
  <2>3. row \in LabelRows /\ row.inbox = label[l].inbox /\ row.name = label[l].name
    BY <2>1, <2>2 DEF LabelRows
  <2>4. NameIsFree(row, l)
    BY <2>1, <2>3 DEF NameIsFree, LabelInv, OneLabelPerName
  <2> QED
    BY <1>3, <2>2, <2>3, <2>4 DEF DeleteLabel, WritesLabel
<1> QED
  BY <1>1, <1>2, <1>3

LEMMA LabelWritesKeepInv ==
  ASSUME LabelInv, Watch, NEW k \in Callers,
         \/ CreateLabelInsert(k) \/ UpdateLabelWrite(k)
         \/ \E l \in LabelIds : DeleteLabel(k, l)
  PROVE  LabelInv'
<1>1. \/ UNCHANGED label
      \/ \E l \in LabelIds, row \in LabelRows : WritesLabel(l, row)
  BY LabelWrites
<1>2. label' \in [LabelIds -> LabelRows \cup {None}]
  BY <1>1 DEF LabelInv, Typed, WritesLabel
<1>3. \A l \in LabelIds : label[l] # None =>
        label'[l] # None /\ label'[l].inbox = label[l].inbox
  BY <1>1, NoneIsNoLabelRow DEF LabelInv, Typed, WritesLabel
<1>4. OneLabelPerName'
  BY <1>1 DEF LabelInv, Typed, OneLabelPerName, NameIsFree, WritesLabel
<1>5. UNCHANGED <<inbox, filedIn, links>>
  BY DEF CreateLabelInsert, UpdateLabelWrite, DeleteLabel
<1>6. req' = req \/ Answer(k)
  BY DEF CreateLabelInsert, UpdateLabelWrite, DeleteLabel
<1>7. /\ req' \in [Callers -> Requests]
      /\ \A j \in Callers : req'[j] = req[j] \/ Founded(req[j])'
  BY <1>6, AnswerIsFounded DEF LabelInv, Typed
<1>8. Typed' /\ RowsStay /\ OneInboxPerPhone'
  BY <1>2, <1>3, <1>5, <1>7 DEF LabelInv, Typed, RowsStay, OneInboxPerPhone, Exists
<1> QED
  BY <1>4, <1>5, <1>7, <1>8, Frame

LEMMA LinkWritesKeepInv ==
  ASSUME LabelInv, Watch, NEW k \in Callers, AttachInsert(k) \/ DetachDelete(k)
  PROVE  LabelInv'
<1>0. req[k] \in Requests /\ Answer(k) /\ UNCHANGED <<inbox, label, filedIn>>
  BY DEF LabelInv, Typed, AttachInsert, DetachDelete
<1>1. \A t \in links' : \/ t \in links
                        \/ \E j \in Callers : /\ req[j].pc = "insertLink"
                                              /\ t = <<req[j].conversation, req[j].label>>
  BY DEF AttachInsert, DetachDelete
<1>2. links' \subseteq Conversations \X LabelIds
  BY <1>0, RequestFields DEF AttachInsert, DetachDelete, LabelInv, Typed, Attaches
<1>3. Typed' /\ RowsStay
  BY <1>0, <1>2, AnswerIsFounded DEF LabelInv, Typed, RowsStay, Exists
<1>4. OneInboxPerPhone' /\ OneLabelPerName'
  BY <1>0 DEF LabelInv, OneInboxPerPhone, OneLabelPerName, Exists
<1> QED
  BY <1>0, <1>1, <1>3, <1>4, AnswerIsFounded, Frame

LEMMA FileKeepsInv ==
  ASSUME LabelInv, Watch, NEW c \in Conversations, NEW i \in Inboxes, File(c, i)
  PROVE  LabelInv'
<1>1. UNCHANGED <<inbox, req, label, links>>
  BY DEF File
<1>2. Typed' /\ RowsStay
  BY <1>1, NoneIsNoInboxOrPhone DEF File, LabelInv, Typed, RowsStay, Exists
<1>3. OneInboxPerPhone' /\ OneLabelPerName'
  BY <1>1 DEF LabelInv, OneInboxPerPhone, OneLabelPerName, Exists
<1> QED
  BY <1>1, <1>2, <1>3, Frame

-----------------------------------------------------------------------------
\* Every step reads, or writes one table.
LEMMA LabelSteps ==
  ASSUME LabelInv, LabelNext
  PROVE  /\ Watch
         /\ \/ \E k \in Callers, q \in Requests : Progress(k, q)
            \/ \E k \in Callers :
                 /\ CreateInboxInsert(k) \/ UpdateInboxWrite(k) \/ RemoveInboxWrite(k)
                 /\ UNCHANGED <<label, filedIn, links>>
            \/ \E k \in Callers :
                 \/ CreateLabelInsert(k) \/ UpdateLabelWrite(k)
                 \/ \E l \in LabelIds : DeleteLabel(k, l)
            \/ \E k \in Callers : AttachInsert(k) \/ DetachDelete(k)
            \/ \E c \in Conversations, i \in Inboxes : File(c, i)
<1>1. ASSUME NEW k \in Callers, InboxRequest(k), UNCHANGED <<label, filedIn, links>>
      PROVE  \/ \E q \in Requests : Progress(k, q)
             \/ CreateInboxInsert(k) \/ UpdateInboxWrite(k) \/ RemoveInboxWrite(k)
  BY <1>1, InboxReads DEF InboxRequest
<1>2. ASSUME NEW k \in Callers, LabelRequest(k)
      PROVE  \/ \E q \in Requests : Progress(k, q)
             \/ CreateLabelInsert(k) \/ UpdateLabelWrite(k)
             \/ \E l \in LabelIds : DeleteLabel(k, l)
  BY <1>2, CreateLabelReads, UpdateLabelReads DEF LabelRequest
<1>3. ASSUME NEW k \in Callers, LinkRequest(k)
      PROVE  (\E q \in Requests : Progress(k, q)) \/ AttachInsert(k) \/ DetachDelete(k)
  BY <1>3, LinkReads DEF LinkRequest
<1>4. Watch
  BY DEF LabelNext
<1>5. \/ \E k \in Callers : InboxRequest(k) /\ UNCHANGED <<label, filedIn, links>>
      \/ \E k \in Callers : LabelRequest(k)
      \/ \E k \in Callers : LinkRequest(k)
      \/ \E c \in Conversations, i \in Inboxes : File(c, i)
  BY DEF LabelNext
<1>6. CASE \E k \in Callers : InboxRequest(k) /\ UNCHANGED <<label, filedIn, links>>
  BY <1>1, <1>4, <1>6
<1>7. CASE \E k \in Callers : LabelRequest(k)
  BY <1>2, <1>4, <1>7
<1>8. CASE \E k \in Callers : LinkRequest(k)
  BY <1>3, <1>4, <1>8
<1> QED
  BY <1>4, <1>5, <1>6, <1>7, <1>8

LEMMA LabelInvAlways == LabelSpec => []LabelInv
<1>1. LabelInit => LabelInv
  <2> SUFFICES ASSUME LabelInit PROVE LabelInv
    OBVIOUS
  <2> USE DEF LabelInit, InboxInit
  <2>1. Typed
    BY NoRequestIsFine DEF Typed
  <2>2. \A k \in Callers : Founded(req[k])
    BY DEF Founded, NoRequest
  <2> QED
    BY <2>1, <2>2 DEF LabelInv, OneInboxPerPhone, Exists, OneLabelPerName, LinksAreInScope
<1>2. LabelInv /\ [LabelNext]_labelVars => LabelInv'
  <2> SUFFICES ASSUME LabelInv, [LabelNext]_labelVars PROVE LabelInv'
    OBVIOUS
  <2>1. CASE UNCHANGED labelVars
    BY <2>1 DEF labelVars, LabelInv, Typed, Tied, OneInboxPerPhone, Exists, OneLabelPerName,
       LinksAreInScope, Founded
  <2>2. CASE LabelNext
    BY <2>2, LabelSteps, ProgressKeepsInv, InboxWritesKeepInv, LabelWritesKeepInv,
       LinkWritesKeepInv, FileKeepsInv
  <2> QED
    BY <2>1, <2>2
<1> QED
  BY <1>1, <1>2, PTL DEF LabelSpec

\* Rows, links and requests in progress stay well-typed.
THEOREM LabelTypeCorrect == LabelSpec => []LabelTypeOK
<1>1. LabelInv => LabelTypeOK
  BY DEF LabelInv, Typed, LabelTypeOK
<1> QED
  BY <1>1, LabelInvAlways, PTL

\* However many requests found a phone number free, one inbox has it.
THEOREM PhonesAreUnique == LabelSpec => []OneInboxPerPhone
<1>1. LabelInv => OneInboxPerPhone
  BY DEF LabelInv
<1> QED
  BY <1>1, LabelInvAlways, PTL

\* Names of labels are unique in an inbox, deleted labels and labels that a late
\* save brings back included.
THEOREM NamesAreUnique == LabelSpec => []OneLabelPerName
<1>1. LabelInv => OneLabelPerName
  BY DEF LabelInv
<1> QED
  BY <1>1, LabelInvAlways, PTL

\* A link made by attach joins a conversation and a label of one inbox, unless the
\* conversation was moved after attach had read it.
THEOREM AttachKeepsScope == LabelSpec => []LinksAreInScope
<1>1. LabelInv => LinksAreInScope
  BY DEF LabelInv
<1> QED
  BY <1>1, LabelInvAlways, PTL

-----------------------------------------------------------------------------
(* Deleted labels. *)

\* Label l is deleted.
Frozen(l) == label[l] # None /\ ~Live(l)

StaysFrozen(l) ==
  /\ WorkersOn(l)' \subseteq WorkersOn(l)
  /\ label'[l] # label[l] \/ LinksOf(l)' # LinksOf(l) => WorkersOn(l)' # WorkersOn(l)

\* A request that goes on does not take up a label ...
LEMMA OneRequestMoves ==
  ASSUME LabelInv, NEW k \in Callers, NEW l \in LabelIds,
         NEW q, Continue(k, q), Works(q, l) => Works(req[k], l)
  PROVE  WorkersOn(l)' \subseteq WorkersOn(l)
<1>1. req' = [req EXCEPT ![k] = q] /\ req \in [Callers -> Requests]
  BY DEF Continue, LabelInv, Typed
<1>2. req'[k] = q /\ \A j \in Callers \ {k} : req'[j] = req[j]
  BY <1>1
<1> QED
  BY <1>2 DEF WorkersOn, Works

\* ... and one that ends leaves those who work on its label.
LEMMA AnswerLeavesNoWork ==
  ASSUME LabelInv, NEW k \in Callers, NEW l \in LabelIds, Answer(k)
  PROVE  WorkersOn(l)' = WorkersOn(l) \ {k}
<1>1. req' = [req EXCEPT ![k] = NoRequest] /\ req \in [Callers -> Requests]
  BY DEF Answer, Continue, LabelInv, Typed
<1>2. req'[k] = NoRequest /\ \A j \in Callers \ {k} : req'[j] = req[j]
  BY <1>1
<1> QED
  BY <1>2 DEF WorkersOn, Works, NoRequest

LEMMA OngoingKeepsFrozen ==
  ASSUME LabelInv, NEW k \in Callers, NEW l \in LabelIds,
         NEW q, Continue(k, q), Works(q, l) => Works(req[k], l), UNCHANGED <<label, links>>
  PROVE  StaysFrozen(l)
  BY OneRequestMoves DEF StaysFrozen, LinksOf

LEMMA EndedKeepsFrozen ==
  ASSUME LabelInv, NEW k \in Callers, NEW l \in LabelIds, Answer(k),
         ~Works(req[k], l) => label'[l] = label[l] /\ LinksOf(l)' = LinksOf(l)
  PROVE  StaysFrozen(l)
<1>1. WorkersOn(l)' = WorkersOn(l) \ {k}
  BY AnswerLeavesNoWork
<1>2. Works(req[k], l) => k \in WorkersOn(l)
  BY DEF WorkersOn
<1> QED
  BY <1>1, <1>2 DEF StaysFrozen

LEMMA InboxRequestKeepsFrozen ==
  ASSUME LabelInv, NEW k \in Callers, NEW l \in LabelIds,
         InboxRequest(k), UNCHANGED <<label, filedIn, links>>
  PROVE  StaysFrozen(l)
<1>1. \/ Answer(k)
      \/ \E q \in Requests : q.pc \in {"insertInbox", "updateInbox", "removeInbox"} /\ Continue(k, q)
  BY DEF InboxRequest, CreateInboxCheck, CreateInboxInsert, UpdateInboxFind, UpdateInboxWrite,
     RemoveInboxFind, RemoveInboxWrite, Requests
<1>2. CASE Answer(k)
  BY <1>2, EndedKeepsFrozen DEF LinksOf
<1>3. ASSUME NEW q, q.pc \in {"insertInbox", "updateInbox", "removeInbox"}, Continue(k, q)
      PROVE  StaysFrozen(l)
  BY <1>3, OngoingKeepsFrozen DEF Works
<1> QED
  BY <1>1, <1>2, <1>3

LEMMA LabelRequestKeepsFrozen ==
  ASSUME LabelInv, NEW k \in Callers, NEW l \in LabelIds, Frozen(l), LabelRequest(k)
  PROVE  StaysFrozen(l)
<1>0. /\ req[k] \in Requests /\ UNCHANGED links /\ LinksOf(l)' = LinksOf(l)
      /\ label \in [LabelIds -> LabelRows \cup {None}]
  BY DEF LabelInv, Typed, LabelRequest, CreateLabelFindInbox, CreateLabelCheck,
     CreateLabelInsert, UpdateLabelFind, UpdateLabelCheck, UpdateLabelLoad, UpdateLabelWrite,
     DeleteLabel, LinksOf
<1>1. ASSUME NEW i \in Inboxes, NEW name \in Names, CreateLabelFindInbox(k, i, name)
      PROVE  StaysFrozen(l)
  <2>1. PICK q : q.pc = "checkLabel" /\ Continue(k, q)
    BY <1>1 DEF CreateLabelFindInbox
  <2> QED
    BY <1>0, <1>1, <2>1, OngoingKeepsFrozen DEF CreateLabelFindInbox, Works
<1>2. CASE CreateLabelCheck(k)
  <2>1. req[k] \in [pc : {"checkLabel", "insertLabel"}, row : LabelRows]
    BY <1>0, <1>2 DEF CreateLabelCheck, Requests, NoRequest
  <2>2. PICK q : q = [req[k] EXCEPT !.pc = "insertLabel"]
    OBVIOUS
  <2>3. ~Works(q, l)
    BY <2>1, <2>2 DEF Works
  <2>4. (Answer(k) \/ Continue(k, q)) /\ UNCHANGED label
    BY <1>2, <2>2 DEF CreateLabelCheck
  <2> QED
    BY <1>0, <2>3, <2>4, EndedKeepsFrozen, OngoingKeepsFrozen
<1>3. CASE CreateLabelInsert(k)
  <2>1. Answer(k) /\ label'[l] = label[l]
    BY <1>0, <1>3 DEF CreateLabelInsert, Frozen
  <2> QED
    BY <1>0, <2>1, EndedKeepsFrozen
<1>4. ASSUME NEW m \in LabelIds, NEW name \in Names \cup {None}, UpdateLabelFind(k, m, name)
      PROVE  StaysFrozen(l)
  <2>1. m # l
    BY <1>4 DEF UpdateLabelFind, Frozen
  <2>2. PICK q : q.label = m /\ Continue(k, q) /\ UNCHANGED label
    BY <1>4 DEF UpdateLabelFind
  <2> QED
    BY <1>0, <2>1, <2>2, OngoingKeepsFrozen DEF Works
<1>5. CASE UpdateLabelCheck(k)
  <2>1. req[k] \in [pc : {"checkName", "loadLabel"}, label : LabelIds, row : LabelRows]
    BY <1>0, <1>5 DEF UpdateLabelCheck, Requests, NoRequest
  <2>2. PICK q : q = [req[k] EXCEPT !.pc = "loadLabel"]
    OBVIOUS
  <2>3. q.label = req[k].label
    BY <2>1, <2>2
  <2>4. Works(q, l) => Works(req[k], l)
    BY <1>5, <2>3 DEF UpdateLabelCheck, Works
  <2>5. (Answer(k) \/ Continue(k, q)) /\ UNCHANGED label
    BY <1>5, <2>2 DEF UpdateLabelCheck
  <2> QED
    BY <1>0, <2>4, <2>5, EndedKeepsFrozen, OngoingKeepsFrozen
<1>6. CASE UpdateLabelLoad(k)
  <2>1. PICK q : q.label = req[k].label /\ (Answer(k) \/ Continue(k, q)) /\ UNCHANGED label
    BY <1>6 DEF UpdateLabelLoad
  <2>2. Works(q, l) => Works(req[k], l)
    BY <1>6, <2>1 DEF UpdateLabelLoad, Works
  <2> QED
    BY <1>0, <2>1, <2>2, EndedKeepsFrozen, OngoingKeepsFrozen
<1>7. CASE UpdateLabelWrite(k)
  <2>1. Answer(k) /\ (req[k].label = l => Works(req[k], l))
    BY <1>7 DEF UpdateLabelWrite, Works
  <2>2. req[k].label # l => label'[l] = label[l]
    BY <1>0, <1>7 DEF UpdateLabelWrite
  <2> QED
    BY <1>0, <2>1, <2>2, EndedKeepsFrozen
<1>8. ASSUME NEW m \in LabelIds, DeleteLabel(k, m)
      PROVE  StaysFrozen(l)
  <2>1. m # l /\ WorkersOn(l)' = WorkersOn(l)
    BY <1>8 DEF DeleteLabel, Frozen, WorkersOn
  <2>2. label'[l] = label[l]
    BY <1>0, <1>8, <2>1 DEF DeleteLabel
  <2> QED
    BY <1>0, <2>1, <2>2 DEF StaysFrozen
<1> QED
  BY <1>1, <1>2, <1>3, <1>4, <1>5, <1>6, <1>7, <1>8 DEF LabelRequest

LEMMA LinkRequestKeepsFrozen ==
  ASSUME LabelInv, NEW k \in Callers, NEW l \in LabelIds, Frozen(l), LinkRequest(k)
  PROVE  StaysFrozen(l)
<1>0. req[k] \in Requests /\ UNCHANGED label
  BY DEF LabelInv, Typed, LinkRequest, AttachFindConversation, AttachFindLabel,
     AttachFindLink, AttachInsert, DetachFind, DetachDelete
<1>1. ASSUME NEW c \in Conversations, NEW m \in LabelIds, AttachFindConversation(k, c, m)
      PROVE  StaysFrozen(l)
  <2>1. PICK q : q.pc = "attachLabel" /\ Continue(k, q)
    BY <1>1 DEF AttachFindConversation
  <2> QED
    BY <1>0, <1>1, <2>1, OngoingKeepsFrozen DEF AttachFindConversation, Works
<1>2. CASE AttachFindLabel(k) \/ AttachFindLink(k)
  <2>1. req[k] \in [pc : {"attachLabel", "findLink", "insertLink"},
                    conversation : Conversations, label : LabelIds, inbox : Inboxes]
    BY <1>0, <1>2 DEF AttachFindLabel, AttachFindLink, Requests, NoRequest
  <2>2. PICK pc : pc = IF req[k].pc = "attachLabel" THEN "findLink" ELSE "insertLink"
    OBVIOUS
  <2>3. PICK q : q = [req[k] EXCEPT !.pc = pc]
    OBVIOUS
  <2>4. q.label = req[k].label
    BY <2>1, <2>3
  <2>5. /\ UNCHANGED links
        /\ Answer(k) \/ (Continue(k, q) /\ (Works(q, l) => Works(req[k], l)))
    <3>1. CASE AttachFindLabel(k)
      BY <2>2, <2>3, <2>4, <3>1 DEF AttachFindLabel, Works, Frozen
    <3>2. CASE AttachFindLink(k)
      BY <2>2, <2>3, <2>4, <3>2 DEF AttachFindLink, Works
    <3> QED
      BY <1>2, <3>1, <3>2
  <2>6. LinksOf(l)' = LinksOf(l)
    BY <2>5 DEF LinksOf
  <2> QED
    BY <1>0, <2>5, <2>6, EndedKeepsFrozen, OngoingKeepsFrozen
<1>3. CASE AttachInsert(k) \/ DetachDelete(k)
  <2>1. Answer(k) /\ (req[k].label = l => Works(req[k], l))
    BY <1>3 DEF AttachInsert, DetachDelete, Works
  <2>2. req[k].label # l => LinksOf(l)' = LinksOf(l)
    BY <1>3 DEF AttachInsert, DetachDelete, LinksOf
  <2> QED
    BY <1>0, <2>1, <2>2, EndedKeepsFrozen
<1>4. ASSUME NEW c \in Conversations, NEW m \in LabelIds, DetachFind(k, c, m)
      PROVE  StaysFrozen(l)
  <2>1. m # l
    BY <1>4 DEF DetachFind, Frozen
  <2>2. PICK q : q.label = m /\ Continue(k, q) /\ UNCHANGED links
    BY <1>4 DEF DetachFind
  <2> QED
    BY <1>0, <2>1, <2>2, OngoingKeepsFrozen DEF Works
<1> QED
  BY <1>1, <1>2, <1>3, <1>4 DEF LinkRequest

\* A deleted label comes back, or gains or loses a link, only by a request that had
\* found it before, whatever is requested.
THEOREM DeletionIsFinal == LabelSpec => DeletedLabelsAreFrozen
<1>1. LabelInv /\ [LabelNext]_labelVars => \A l \in LabelIds : Frozen(l) => StaysFrozen(l)
  <2> SUFFICES ASSUME LabelInv, [LabelNext]_labelVars, NEW l \in LabelIds, Frozen(l)
               PROVE  StaysFrozen(l)
    OBVIOUS
  <2>1. CASE UNCHANGED labelVars
    BY <2>1 DEF labelVars, StaysFrozen, WorkersOn, LinksOf
  <2>2. ASSUME NEW c \in Conversations, NEW i \in Inboxes, File(c, i)
        PROVE  StaysFrozen(l)
    BY <2>2 DEF File, StaysFrozen, WorkersOn, LinksOf
  <2>3. CASE LabelNext
    BY <2>2, <2>3, InboxRequestKeepsFrozen, LabelRequestKeepsFrozen, LinkRequestKeepsFrozen
       DEF LabelNext
  <2> QED
    BY <2>1, <2>3
<1> QED
  BY <1>1, LabelInvAlways, PTL DEF LabelSpec, DeletedLabelsAreFrozen, Frozen, StaysFrozen

-----------------------------------------------------------------------------
(* The refinement of Catalogue: every write is one of its operations. *)

LEMMA WatchesDrift == Watch => Book!OnlyMovesLeadAstray
  BY DEF Watch, Book!OnlyMovesLeadAstray

LEMMA FreeNumbersAreUnlisted ==
  ASSUME NEW phone, NEW i
  PROVE  PhoneIsFree(phone, i) <=> Book!Unlisted(phone, i)
  BY DEF PhoneIsFree, Exists, Book!Unlisted

LEMMA FreeNamesAreUnnamed ==
  ASSUME NEW row, NEW l, NameIsFree(row, l)
  PROVE  Book!Unnamed(row.inbox, row.name, l)
  BY DEF NameIsFree, Book!Unnamed

LEMMA InboxWritesAreOperations ==
  ASSUME LabelInv, NEW k \in Callers, UNCHANGED <<label, filedIn, links>>,
         CreateInboxInsert(k) \/ UpdateInboxWrite(k) \/ RemoveInboxWrite(k)
  PROVE  Book!Operation
<1>0. req[k] \in Requests /\ Founded(req[k])
  BY DEF LabelInv, Typed
<1>1. CASE UNCHANGED inbox
  BY <1>1 DEF Book!Operation
<1>2. ASSUME CreateInboxInsert(k), inbox' # inbox
      PROVE  \E i \in Inboxes, phone \in Phones : Book!AddInbox(i, phone)
  <2>1. req[k].phone \in Phones
    BY <1>0, <1>2, RequestFields DEF CreateInboxInsert
  <2> QED
    BY <1>2, <2>1, FreeNumbersAreUnlisted DEF CreateInboxInsert, Exists, Book!AddInbox
<1>3. ASSUME UpdateInboxWrite(k), inbox' # inbox
      PROVE  \E i \in Inboxes, phone \in Phones : Book!Renumber(i, phone)
  <2>1. req[k].inbox \in Inboxes /\ req[k].phone \in Phones /\ Exists(req[k].inbox)
    BY <1>0, <1>3, RequestFields DEF UpdateInboxWrite, Founded
  <2> QED
    BY <1>3, <2>1, FreeNumbersAreUnlisted DEF UpdateInboxWrite, Exists, Book!Renumber
<1>4. ASSUME RemoveInboxWrite(k)
      PROVE  \E i \in Inboxes : Book!RemoveInbox(i)
  <2>1. req[k].inbox \in Inboxes /\ Exists(req[k].inbox)
    BY <1>0, <1>4, RequestFields DEF RemoveInboxWrite, Founded
  <2> QED
    BY <1>4, <2>1 DEF RemoveInboxWrite, Exists, Book!RemoveInbox
<1> QED
  BY <1>1, <1>2, <1>3, <1>4 DEF Book!Operation

LEMMA LabelWritesAreOperations ==
  ASSUME LabelInv, NEW k \in Callers,
         \/ CreateLabelInsert(k) \/ UpdateLabelWrite(k)
         \/ \E l \in LabelIds : DeleteLabel(k, l)
  PROVE  Book!Operation
<1>0. req[k] \in Requests /\ Founded(req[k]) /\ UNCHANGED <<inbox, filedIn, links>>
  BY DEF LabelInv, Typed, CreateLabelInsert, UpdateLabelWrite, DeleteLabel
<1>1. CASE UNCHANGED label
  BY <1>0, <1>1 DEF Book!Operation
<1>2. ASSUME CreateLabelInsert(k), label' # label
      PROVE  \E l \in LabelIds, i \in Inboxes, name \in Names : Book!AddLabel(l, i, name)
  <2>1. PICK row \in LabelRows : row = req[k].row /\ Exists(row.inbox) /\ ~row.deleted
    BY <1>0, <1>2, RequestFields DEF CreateLabelInsert, Founded
  <2>2. PICK l \in LabelIds : /\ label[l] = None /\ NameIsFree(row, l)
                              /\ label' = [label EXCEPT ![l] = row]
    BY <1>2, <2>1 DEF CreateLabelInsert
  <2>3. /\ row = [inbox |-> row.inbox, name |-> row.name, deleted |-> FALSE]
        /\ row.inbox \in Inboxes /\ row.name \in Names
    BY <2>1 DEF LabelRows
  <2>4. Book!AddLabel(l, row.inbox, row.name)
    BY <1>0, <2>1, <2>2, <2>3, FreeNamesAreUnnamed DEF Exists, Book!AddLabel
  <2> QED
    BY <2>3, <2>4
<1>3. ASSUME UpdateLabelWrite(k), label' # label
      PROVE  \E l \in LabelIds, name \in Names, deleted \in BOOLEAN :
               Book!EditLabel(l, name, deleted)
  <2>1. PICK l \in LabelIds : l = req[k].label
    BY <1>0, <1>3, RequestFields DEF UpdateLabelWrite
  <2>2. PICK r, s, d : r = label[l] /\ s = req[k].row /\ d = req[k].dirty
    OBVIOUS
  <2>3. /\ r \in LabelRows /\ r # None
        /\ s \in LabelRows /\ r.inbox = s.inbox /\ ~s.deleted
    BY <1>0, <1>3, <2>1, <2>2, RequestFields
       DEF UpdateLabelWrite, Founded, LabelInv, Typed
  <2>4. PICK row : row = Merged(r, s, d)
    OBVIOUS
  <2>5. /\ row \in LabelRows /\ row.inbox = r.inbox
        /\ row = [r EXCEPT !.name = row.name, !.deleted = row.deleted]
        /\ row.deleted => r.deleted
    <3>1. row \in LabelRows /\ row.inbox = r.inbox
      BY <2>3, <2>4, MergedLabel
    <3>2. row = [r EXCEPT !.name = row.name, !.deleted = row.deleted]
      BY <2>3, <3>1 DEF LabelRows
    <3>3. row.deleted = IF "deleted" \in d THEN s.deleted ELSE r.deleted
      BY <2>4 DEF Merged, Columns
    <3> QED
      BY <2>3, <3>1, <3>2, <3>3
  <2>6. NameIsFree(row, l) /\ label' = [label EXCEPT ![l] = row]
    BY <1>3, <2>1, <2>2, <2>4 DEF UpdateLabelWrite, Merged
  <2>7. label' = [label EXCEPT ![l].name = row.name, ![l].deleted = row.deleted]
    BY <2>2, <2>5, <2>6 DEF LabelInv, Typed
  <2>8. Book!EditLabel(l, row.name, row.deleted)
    BY <1>0, <2>2, <2>3, <2>5, <2>6, <2>7, FreeNamesAreUnnamed DEF Book!EditLabel
  <2>9. row.name \in Names /\ row.deleted \in BOOLEAN
    BY <2>5 DEF LabelRows
  <2> QED
    BY <2>8, <2>9
<1>4. ASSUME NEW l \in LabelIds, DeleteLabel(k, l)
      PROVE  Book!DeleteLabel(l)
  BY <1>4 DEF DeleteLabel, Live, Book!DeleteLabel
<1> QED
  BY <1>1, <1>2, <1>3, <1>4 DEF Book!Operation

LEMMA LinkWritesAreOperations ==
  ASSUME LabelInv, NEW k \in Callers, AttachInsert(k) \/ DetachDelete(k)
  PROVE  Book!Operation
<1>0. req[k] \in Requests /\ Founded(req[k])
  BY DEF LabelInv, Typed
<1>1. req[k].conversation \in Conversations /\ req[k].label \in LabelIds
  BY <1>0, RequestFields DEF AttachInsert, DetachDelete, Attaches
<1>2. CASE AttachInsert(k)
  BY <1>0, <1>1, <1>2 DEF AttachInsert, Founded, Book!Link, Book!Operation
<1>3. CASE DetachDelete(k)
  BY <1>0, <1>1, <1>3 DEF DetachDelete, Founded, Book!Unlink, Book!Operation
<1> QED
  BY <1>2, <1>3

LEMMA StepsAreOperations ==
  ASSUME LabelInv, LabelNext
  PROVE  Book!Next
<1>1. ASSUME NEW c \in Conversations, NEW i \in Inboxes, File(c, i)
      PROVE  Book!Operation
  BY <1>1 DEF File, Exists, Book!Refile, Book!Operation
<1>2. ASSUME NEW k \in Callers, NEW q \in Requests, Progress(k, q)
      PROVE  Book!Operation
  BY <1>2 DEF Progress, tables, Book!Operation
<1>3. Book!Operation
  BY <1>1, <1>2, LabelSteps, InboxWritesAreOperations, LabelWritesAreOperations,
     LinkWritesAreOperations
<1>4. Book!OnlyMovesLeadAstray
  BY WatchesDrift DEF LabelNext
<1> QED
  BY <1>3, <1>4 DEF Book!Next

\* Whatever the order of the statements of any number of requests, each request on
\* inboxes, labels and links takes effect as a whole, at one of its statements, on
\* the tables as they are then.
THEOREM RequestsAreAtomic == LabelSpec => ImplementsCatalogue
<1>1. LabelInit => Book!Init
  BY DEF LabelInit, InboxInit, Book!Init
<1>2. LabelInv /\ [LabelNext]_labelVars =>
        [Book!Next]_<<inbox, label, filedIn, links, astray>>
  BY StepsAreOperations DEF labelVars
<1> QED
  BY <1>1, <1>2, LabelInvAlways, PTL DEF LabelSpec, ImplementsCatalogue, Book!Spec
=============================================================================
