------------------------------ MODULE Allocation ------------------------------
(***************************************************************************)
(* The handlers that change a conversation: AllocationService (allocate,   *)
(* claim, resolve, deallocate, reassign, move inbox) and the two writers   *)
(* of ConversationsService (the orchestrator's upsert, updateMetadata).    *)
(* One action per statement a handler sends to the database; reads of data *)
(* that nothing changes here (operators, inboxes, subscriptions) are       *)
(* merged into the statement before them.                                  *)
(*                                                                         *)
(* One tenant is modelled; ids in requests name rows of that tenant.  A    *)
(* request that is refused leaves no trace and is a step only when the     *)
(* refusal comes after an earlier statement of the same request.           *)
(* Whether the calling operator is available is left open here: the        *)
(* operator's status is a table of its own, added by GracePeriod.          *)
(***************************************************************************)
EXTENDS ConversationStore

CONSTANT Workload   \* the kinds of request the clients send

Requests == {"allocate", "claim", "resolve", "deallocate", "reassign", "move",
             "upsert", "metadata"}

\* "sweep" is the release of a conversation by the sweep of GracePeriod, which
\* saves rows the way the handlers do.
Ops == Requests \cup {"sweep"}

ASSUME WorkloadIsKnown == Workload \subseteq Requests
ASSUME SubscriptionsArePairs == Subscribed \subseteq Operators \X Inboxes
ASSUME ManagersAreOperators == Managers \subseteq Operators

IsManagerOrAdmin(o) == o \in Managers

\* Start serving a request whose first statement reads no conversation.
Begin(k, op, o, c, pc) ==
  /\ op \in Workload
  /\ call[k] = Idle
  /\ call' = [call EXCEPT ![k] = [op |-> op, by |-> o, target |-> c, pc |-> pc,
                                  entity |-> NoRow, dirty |-> {}]]
  /\ UNCHANGED <<conv, raced>>

\* Start serving a request whose first statement reads the row of c.
Serve(k, op, o, c, e) ==
  /\ op \in Workload
  /\ call[k] = Idle
  /\ Read(k, op, o, c, e)

-----------------------------------------------------------------------------
(* POST /allocation/allocate *)

AllocateStart(k, o) == Begin(k, "allocate", o, None, "query")

\* Mutant of Candidates: the query does not filter by inbox.
CandidatesOfAllInboxes(o) == {c \in Conversations : conv[c].state = "QUEUED"}

\* The queued conversations of the inboxes o is subscribed to.
Candidates(o) ==
  {c \in Conversations : /\ conv[c].state = "QUEUED"
                         /\ <<o, conv[c].inbox>> \in Subscribed}

\* The candidate query and the choice of the best-scored one.  The score is
\* left out: any candidate may be the best.
AllocateQuery(k) ==
  /\ call[k].pc = "query"
  /\ \/ /\ Candidates(call[k].by) = {}
        /\ Finish(k)
     \/ \E c \in Candidates(call[k].by) :
          call' = [call EXCEPT ![k].pc = "fresh", ![k].target = c]
  /\ UNCHANGED <<conv, raced>>

\* Mutant of AllocateFresh: the second read is not checked.
AllocateFreshUnchecked(k) ==
  LET row == conv[call[k].target] IN
  /\ call[k].pc = "fresh"
  /\ Read(k, "allocate", call[k].by, call[k].target, Row("ALLOCATED", call[k].by, row.inbox))

\* The second read of the chosen row: it must still be QUEUED.
AllocateFresh(k) ==
  LET c == call[k].target  o == call[k].by  row == conv[call[k].target] IN
  /\ call[k].pc = "fresh"
  /\ \/ /\ row.state = "QUEUED"
        /\ Read(k, "allocate", o, c, Row("ALLOCATED", o, row.inbox))
     \/ /\ row.state # "QUEUED"
        /\ Finish(k)
        /\ UNCHANGED <<conv, raced>>

(* POST /allocation/claim *)

ClaimStart(k, o, c) == Begin(k, "claim", o, c, "read")

\* Mutant of ClaimRead: the subscription is not checked.
ClaimReadUnsubscribed(k) ==
  LET c == call[k].target  o == call[k].by  row == conv[call[k].target] IN
  /\ call[k].pc = "read"
  /\ \/ /\ row.state = "QUEUED"
        /\ Read(k, "claim", o, c, Row("ALLOCATED", o, row.inbox))
     \/ /\ row.state # "QUEUED"
        /\ Finish(k)
        /\ UNCHANGED <<conv, raced>>

ClaimRead(k) ==
  LET c == call[k].target  o == call[k].by  row == conv[call[k].target] IN
  /\ call[k].pc = "read"
  /\ \/ /\ row.state = "QUEUED"
        /\ <<o, row.inbox>> \in Subscribed
        /\ Read(k, "claim", o, c, Row("ALLOCATED", o, row.inbox))
     \/ /\ row.state # "QUEUED" \/ <<o, row.inbox>> \notin Subscribed
        /\ Finish(k)
        /\ UNCHANGED <<conv, raced>>

(* POST /allocation/resolve *)

MayResolve(o, row) ==
  /\ row.state = "ALLOCATED"
  /\ row.assignee = o \/ IsManagerOrAdmin(o)

Resolve(k, o, c) ==
  /\ MayResolve(o, conv[c])
  /\ Serve(k, "resolve", o, c, Row("RESOLVED", conv[c].assignee, conv[c].inbox))

(* POST /allocation/deallocate: the controller admits managers and admins *)

MayDeallocate(o, row) ==
  /\ IsManagerOrAdmin(o)
  /\ row.state = "ALLOCATED"

\* Mutant of Deallocate: the conversation keeps its operator.
DeallocateKeepsAssignee(k, o, c) ==
  /\ MayDeallocate(o, conv[c])
  /\ Serve(k, "deallocate", o, c, Row("QUEUED", conv[c].assignee, conv[c].inbox))

\* Mutant of Deallocate: it clears the state instead of the operator.
DeallocateClearsState(k, o, c) ==
  /\ MayDeallocate(o, conv[c])
  /\ Serve(k, "deallocate", o, c, Row(None, conv[c].assignee, conv[c].inbox))

Deallocate(k, o, c) ==
  /\ MayDeallocate(o, conv[c])
  /\ Serve(k, "deallocate", o, c, Row("QUEUED", None, conv[c].inbox))

(* POST /allocation/reassign: the status of the new operator is not read *)

MayReassign(o, row, new) ==
  /\ IsManagerOrAdmin(o)
  /\ row.state = "ALLOCATED"
  /\ <<new, row.inbox>> \in Subscribed

Reassign(k, o, c, new) ==
  /\ MayReassign(o, conv[c], new)
  /\ Serve(k, "reassign", o, c, Row(conv[c].state, new, conv[c].inbox))

(* POST /allocation/move-inbox: the state of the row is not read *)

MoveInbox(k, o, c, i) ==
  /\ IsManagerOrAdmin(o)
  /\ conv[c] # NoRow
  /\ Serve(k, "move", o, c, Row("QUEUED", None, i))

(* POST /conversations, sent by the orchestrator for a message *)

Upsert(k, c, i) ==
  Serve(k, "upsert", None, c,
        IF conv[c] = NoRow THEN QueuedRow(i)
        ELSE Row(conv[c].state, conv[c].assignee, i))

(* PATCH /conversations/:id; the columns it changes are not modelled *)

UpdateMetadata(k, c) ==
  /\ conv[c] # NoRow
  /\ Serve(k, "metadata", None, c, conv[c])

-----------------------------------------------------------------------------
Allocate(k) == (\E o \in Operators : AllocateStart(k, o))
               \/ AllocateQuery(k) \/ AllocateFresh(k)

Claim(k) == (\E o \in Operators, c \in Conversations : ClaimStart(k, o, c))
            \/ ClaimRead(k)

Manage(k) ==
  \E o \in Operators, c \in Conversations :
    \/ Resolve(k, o, c)
    \/ Deallocate(k, o, c)
    \/ \E new \in Operators : Reassign(k, o, c, new)
    \/ \E i \in Inboxes : MoveInbox(k, o, c, i)

Ingest(k) ==
  \E c \in Conversations :
    \/ \E i \in Inboxes : Upsert(k, c, i)
    \/ UpdateMetadata(k, c)

Handle(k) ==
  Allocate(k) \/ Claim(k) \/ Manage(k) \/ Ingest(k) \/ SaveStep(k) \/ Crash(k)

Init == StoreInit

Next == \E k \in Callers : Handle(k)

Spec == Init /\ [][Next]_storeVars

\* The part of the service that takes conversations and handles them: no request
\* returns one to the queue, files it in another inbox or inserts one.
Taking(k) ==
  \/ Allocate(k)
  \/ Claim(k)
  \/ \E o \in Operators, c \in Conversations :
       \/ Resolve(k, o, c)
       \/ \E new \in Operators : Reassign(k, o, c, new)

TakingNext ==
  \E k \in Callers : Taking(k) \/ SaveLoad(k) \/ SaveWrite(k) \/ Crash(k)

TakingSpec == Init /\ [][TakingNext]_storeVars

-----------------------------------------------------------------------------
Request == [op     : Ops \cup {"none"},
            by     : Operators \cup {None},
            target : Conversations \cup {None},
            pc     : {"idle", "query", "fresh", "read", "load", "write", "insert"},
            entity : Rows,
            dirty  : SUBSET Columns]

\* Type invariant of the table and of the requests in progress.
TypeOK ==
  /\ conv \in [Conversations -> Rows]
  /\ call \in [Callers -> Request]
  /\ raced \subseteq Conversations

\* A row whose columns agree: nobody is assigned to a queued conversation, and
\* a conversation being handled or handled has the operator who did it.
Whole(r) ==
  \/ r = NoRow
  \/ r.state = "QUEUED" /\ r.assignee = None /\ r.inbox \in Inboxes
  \/ r.state \in {"ALLOCATED", "RESOLVED"} /\ r.assignee \in Operators
     /\ r.inbox \in Inboxes

\* State and assignee of a row always agree, although save() may write one of
\* the two columns only, unless two read-decide-save sections overlapped on it.
RowsWhole == \A c \in Conversations \ raced : Whole(conv[c])

\* What a request op of operator o asks to be done to the row r is e.
Asked(op, o, r, e) ==
  \/ op = "allocate"   /\ o \in Operators /\ Lifecycle!Allocated(r, e, o)
  \/ op = "claim"      /\ o \in Operators /\ Lifecycle!Claimed(r, e, o)
  \/ op = "resolve"    /\ o \in Operators /\ Lifecycle!Resolved(r, e, o)
  \/ op = "deallocate" /\ o \in Managers  /\ Lifecycle!Released(r, e)
  \/ op = "sweep"      /\ r.assignee = o  /\ Lifecycle!Released(r, e)
  \/ op = "reassign"   /\ o \in Managers  /\ Lifecycle!Reassigned(r, e)
  \/ op = "move"       /\ o \in Managers  /\ Lifecycle!Moved(r, e)
  \/ op = "upsert"     /\ Lifecycle!Refiled(r, e)
  \/ op = "metadata"   /\ r # NoRow /\ e = r

\* save() answers the client from its entity.  When it writes a conversation
\* that nobody raced for, the row becomes that entity, and what the handler
\* checked before its first await (owner, state, role, subscription) is still
\* true of the row at the moment of the write.
WritesAreWhatWasChecked ==
  [][\A k \in Callers :
       LET c == call[k].target IN
       (call[k].pc = "write" /\ c \notin raced /\ conv' # conv /\ call'[k] = Idle) =>
         /\ conv'[c] = call[k].entity
         /\ Asked(call[k].op, call[k].by, conv[c], call[k].entity)]_storeVars

\* The service implements the lifecycle of ConversationLifecycle: a request
\* takes effect in one legal step, at its UPDATE or INSERT.
ImplementsLifecycle == Lifecycle!Spec

\* Somebody who may works on the conversation, or has finished it.
Taken(r) ==
  /\ r.state \in {"ALLOCATED", "RESOLVED"}
  /\ <<r.assignee, r.inbox>> \in Subscribed

\* Even raced rows stay sound when no request returns a conversation to the queue:
\* who loses a race overwrites the winner, but never leaves half of a change behind,
\* never resolves a conversation from the queue or puts it back there, and never
\* leaves one with an operator who is not subscribed to its inbox.  A resolved one
\* is changed only by a request that overlapped another one on it: an assignment
\* decided before the resolve may be saved after it and make the row ALLOCATED,
\* which ARCHITECTURE.md:224 rules out.  A property of TakingSpec.
RacesLeaveSoundRows ==
  [][\A c \in Conversations :
       /\ conv[c].state = "QUEUED" =>
            /\ Whole(conv[c])
            /\ conv'[c] = conv[c] \/ (Taken(conv'[c]) /\ conv'[c].state = "ALLOCATED")
       /\ conv[c].state \in {"ALLOCATED", "RESOLVED"} => Taken(conv[c]) /\ Taken(conv'[c])
       /\ conv[c].state = "RESOLVED" => conv'[c] = conv[c] \/ c \in raced
    ]_storeVars

-----------------------------------------------------------------------------
(* The inductive invariant the proofs use. *)

\* A request knows its operator and its conversation when it needs them.
Placed(q) ==
  /\ q.pc \in {"query", "fresh", "read"} => q.by \in Operators
  /\ q.pc \in {"fresh", "read", "load", "write", "insert"} => q.target \in Conversations

\* At most one section is open on a conversation that is not raced.
OneSection ==
  \A c \in Conversations \ raced : \A j, k \in Callers :
    Holds(j, c) /\ Holds(k, c) => j = k

\* The entity of an open section was built from the row as it still is.
SnapshotIsCurrent ==
  \A k \in Callers :
    LET c == call[k].target IN
    c \in Conversations \ raced =>
      /\ call[k].pc \in {"load", "write"} =>
           Asked(call[k].op, call[k].by, conv[c], call[k].entity)
      /\ call[k].pc = "write" => call[k].dirty = Diff(call[k].entity, conv[c])
      /\ call[k].pc = "insert" =>
           /\ conv[c] = NoRow
           /\ \E i \in Inboxes : call[k].entity = QueuedRow(i)

IInv ==
  /\ TypeOK
  /\ \A k \in Callers : Placed(call[k])
  /\ OneSection
  /\ SnapshotIsCurrent
  /\ RowsWhole

\* The same for TakingSpec: a save that resolves or leaves a column out finds a row
\* that is taken, and from then on stays so.
TakingInProgress(q) ==
  LET r == conv[q.target] IN
  /\ q.op \in {"none", "allocate", "claim", "resolve", "reassign"}
  /\ q.pc # "insert"
  /\ q.pc = "fresh" => <<q.by, r.inbox>> \in Subscribed
  /\ q.pc \in {"load", "write"} =>
       /\ Taken(q.entity)
       /\ q.entity.inbox = r.inbox
       /\ r # NoRow
       /\ q.entity.state = "ALLOCATED" \/ Taken(r)
  /\ q.pc = "write" /\ ~({"state", "assignee"} \subseteq q.dirty) => Taken(r)

TakingInv ==
  /\ TypeOK
  /\ \A k \in Callers : Placed(call[k]) /\ TakingInProgress(call[k])
  /\ \A c \in Conversations :
       conv[c] \in {NoRow} \cup {QueuedRow(i) : i \in Inboxes} \/ Taken(conv[c])
=============================================================================
