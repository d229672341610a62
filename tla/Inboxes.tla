-------------------------------- MODULE Inboxes --------------------------------
(***************************************************************************)
(* The inboxes of a tenant and the requests that create, update and remove *)
(* them: InboxesService.  A request is one or two statements, outside any  *)
(* transaction; a removed inbox keeps its row and its phone number.        *)
(*                                                                         *)
(* The caller's record req[k] says which statement the request executes    *)
(* next.  Labels adds the requests of LabelsService to the same callers.   *)
(***************************************************************************)
EXTENDS Naturals, FiniteSets

CONSTANTS
  Callers,   \* requests in progress at the same time
  Inboxes,   \* ids of inboxes rows
  Phones,    \* phone numbers
  None       \* no row, no value

ASSUME NoneIsNoInboxOrPhone == None \notin Inboxes \cup Phones

InboxRows == [phone : Phones, deleted : BOOLEAN]

ASSUME NoneIsNoInboxRow == None \notin InboxRows

VARIABLES
  inbox,   \* inbox[i]: row i of inboxes, or None
  req      \* req[k]: what is left to do of the request of caller k

NoRequest == [pc |-> "idle"]

InboxInit ==
  /\ inbox = [i \in Inboxes |-> None]
  /\ req = [k \in Callers |-> NoRequest]

Exists(i)    == inbox[i] # None
LiveInbox(i) == Exists(i) /\ ~inbox[i].deleted

\* The unique index on (tenant_id, phone_number), which sees removed inboxes too.
PhoneIsFree(phone, i) == \A j \in Inboxes \ {i} : Exists(j) => inbox[j].phone # phone

Continue(k, request) == req' = [req EXCEPT ![k] = request]
Answer(k) == Continue(k, NoRequest)

-----------------------------------------------------------------------------
\* POST /inboxes: a row that is not removed and has the number is a conflict.
CreateInboxCheck(k, phone) ==
  /\ req[k] = NoRequest
  /\ \A i \in Inboxes : LiveInbox(i) => inbox[i].phone # phone
  /\ Continue(k, [pc |-> "insertInbox", phone |-> phone])
  /\ UNCHANGED inbox

\* Mutant of CreateInboxInsert: a table without the unique index.
CreateInboxInsertUnindexed(k) ==
  /\ req[k].pc = "insertInbox"
  /\ \E i \in Inboxes :
       /\ ~Exists(i)
       /\ inbox' = [inbox EXCEPT ![i] = [phone |-> req[k].phone, deleted |-> FALSE]]
  /\ Answer(k)

CreateInboxInsert(k) ==
  /\ req[k].pc = "insertInbox"
  /\ \E i \in Inboxes :
       /\ ~Exists(i)
       /\ inbox' = IF PhoneIsFree(req[k].phone, i)
                     THEN [inbox EXCEPT ![i] = [phone |-> req[k].phone, deleted |-> FALSE]]
                     ELSE inbox
  /\ Answer(k)

\* PATCH /inboxes/:id: the number is not looked up first.
UpdateInboxFind(k, i, phone) ==
  /\ req[k] = NoRequest
  /\ LiveInbox(i)
  /\ Continue(k, [pc |-> "updateInbox", inbox |-> i, phone |-> phone])
  /\ UNCHANGED inbox

\* The UPDATE is by id, and finds the row even if it was removed meanwhile.
UpdateInboxWrite(k) ==
  /\ req[k].pc = "updateInbox"
  /\ inbox' = IF PhoneIsFree(req[k].phone, req[k].inbox)
                THEN [inbox EXCEPT ![req[k].inbox].phone = req[k].phone]
                ELSE inbox
  /\ Answer(k)

\* DELETE /inboxes/:id
RemoveInboxFind(k, i) ==
  /\ req[k] = NoRequest
  /\ LiveInbox(i)
  /\ Continue(k, [pc |-> "removeInbox", inbox |-> i])
  /\ UNCHANGED inbox

\* Mutant of RemoveInboxWrite: the row is taken away instead of marked.
RemoveInboxWriteHard(k) ==
  /\ req[k].pc = "removeInbox"
  /\ inbox' = [inbox EXCEPT ![req[k].inbox] = None]
  /\ Answer(k)

RemoveInboxWrite(k) ==
  /\ req[k].pc = "removeInbox"
  /\ inbox' = [inbox EXCEPT ![req[k].inbox].deleted = TRUE]
  /\ Answer(k)

InboxRequest(k) ==
  \/ \E phone \in Phones : CreateInboxCheck(k, phone)
  \/ CreateInboxInsert(k)
  \/ \E i \in Inboxes, phone \in Phones : UpdateInboxFind(k, i, phone)
  \/ UpdateInboxWrite(k)
  \/ \E i \in Inboxes : RemoveInboxFind(k, i)
  \/ RemoveInboxWrite(k)

-----------------------------------------------------------------------------
\* "One phone number maps to one inbox per tenant" (DESIGN_DECISION.md:142),
\* however requests that have all found the number free follow each other.
OneInboxPerPhone ==
  \A i, j \in Inboxes :
    Exists(i) /\ Exists(j) /\ inbox[i].phone = inbox[j].phone => i = j
=============================================================================
