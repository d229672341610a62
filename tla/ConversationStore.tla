-------------------------- MODULE ConversationStore --------------------------
(***************************************************************************)
(* The table conversation_refs, and how a handler of the service reads and *)
(* saves a row of it through a TypeORM repository.                         *)
(*                                                                         *)
(* A handler loads an entity (a copy of the row), changes it, and calls    *)
(* save(entity).  For an entity with an id, save() first SELECTs the row   *)
(* again, computes the columns in which the entity differs from it, and    *)
(* then UPDATEs exactly those columns; the SELECT is outside the           *)
(* transaction of the UPDATE.  An entity without an id is INSERTed.        *)
(* Nothing else orders these statements: every await in a handler is a     *)
(* point at which statements of other requests, in this process or in      *)
(* another instance, are executed.                                         *)
(*                                                                         *)
(* A caller is one request being served.  call[k] is the handler's state:  *)
(* what it was asked, how far it is, and the entity it holds.  Columns no  *)
(* property of this development is about (phone number, timestamps,        *)
(* message count, priority score) are left out; since every save changes   *)
(* updated_at, the UPDATE statement is always issued.                      *)
(***************************************************************************)
EXTENDS Naturals, FiniteSets

CONSTANTS Conversations, Operators, Managers, Inboxes, Subscribed, None,
          Callers     \* requests that can be in progress at the same time

ASSUME NoneIsNoReference == None \notin Operators \cup Inboxes \cup Conversations

VARIABLES
  conv,    \* conv[c]: the row of conversation c
  call,    \* call[k]: the request caller k is serving
  raced    \* history: the conversations on which two sections overlapped

storeVars == <<conv, call, raced>>

Lifecycle == INSTANCE ConversationLifecycle

States == Lifecycle!States
NoRow  == Lifecycle!NoRow
Rows   == Lifecycle!Rows

Row(state, o, i) == Lifecycle!Row(state, o, i)

Columns == {"state", "assignee", "inbox"}

Idle == [op |-> "none", by |-> None, target |-> None, pc |-> "idle",
         entity |-> NoRow, dirty |-> {}]

QueuedRow(i) == Row("QUEUED", None, i)

StoreInit ==
  /\ conv \in [Conversations -> {NoRow} \cup {QueuedRow(i) : i \in Inboxes}]
  /\ call = [k \in Callers |-> Idle]
  /\ raced = {}

-----------------------------------------------------------------------------
\* Caller k is between reading the row of c and the statement that writes it.
Holds(k, c) ==
  /\ call[k].pc \in {"load", "write", "insert"}
  /\ call[k].target = c

\* Caller k, serving op for operator o, has read the row of c and built the
\* entity e it is about to save.
Read(k, op, o, c, e) ==
  /\ call' = [call EXCEPT ![k] =
                [op |-> op, by |-> o, target |-> c,
                 pc |-> IF conv[c] = NoRow THEN "insert" ELSE "load",
                 entity |-> e, dirty |-> {}]]
  /\ raced' = raced \cup {d \in {c} : \E j \in Callers \ {k} : Holds(j, d)}
  /\ UNCHANGED conv

Finish(k) == call' = [call EXCEPT ![k] = Idle]

\* Mutant of Diff: the assignee is never written.
DiffWithoutAssignee(e, r) ==
  {f \in Columns : \/ f = "state" /\ e.state # r.state
                   \/ f = "inbox" /\ e.inbox # r.inbox}

\* The columns in which the entity differs from the row.
Diff(e, r) ==
  {f \in Columns : \/ f = "state"    /\ e.state # r.state
                   \/ f = "assignee" /\ e.assignee # r.assignee
                   \/ f = "inbox"    /\ e.inbox # r.inbox}

Overwrite(r, e, dirty) ==
  Row(IF "state" \in dirty THEN e.state ELSE r.state,
      IF "assignee" \in dirty THEN e.assignee ELSE r.assignee,
      IF "inbox" \in dirty THEN e.inbox ELSE r.inbox)

-----------------------------------------------------------------------------
\* save(): the SELECT that decides which columns the UPDATE sets.
SaveLoad(k) ==
  /\ call[k].pc = "load"
  /\ call' = [call EXCEPT ![k].pc = "write",
                          ![k].dirty = Diff(call[k].entity, conv[call[k].target])]
  /\ UNCHANGED <<conv, raced>>

\* save(): the UPDATE, after which the handler answers.
SaveWrite(k) ==
  /\ call[k].pc = "write"
  /\ conv' = [conv EXCEPT ![call[k].target] =
                Overwrite(@, call[k].entity, call[k].dirty)]
  /\ Finish(k)
  /\ UNCHANGED raced

\* save() of a new entity: the INSERT, refused by the unique index on
\* (tenant_id, external_conversation_id) when the row exists by now.
SaveInsert(k) ==
  /\ call[k].pc = "insert"
  /\ conv' = [conv EXCEPT ![call[k].target] =
                IF @ = NoRow THEN call[k].entity ELSE @]
  /\ Finish(k)
  /\ UNCHANGED raced

\* The request is lost where it stands: the process stops, or a statement
\* fails and the exception reaches the client.
Crash(k) ==
  /\ call[k].pc # "idle"
  /\ Finish(k)
  /\ UNCHANGED <<conv, raced>>

SaveStep(k) == SaveLoad(k) \/ SaveWrite(k) \/ SaveInsert(k)
=============================================================================
