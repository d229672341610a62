--------------------------- MODULE AllocationProofs ---------------------------
(***************************************************************************)
(* Theorems about Allocation, for every set of conversations, operators,   *)
(* inboxes and callers, every subscription table and every workload.       *)
(*                                                                         *)
(* Every action is one of five kinds of step: it touches no row and opens  *)
(* no section (Quiet), it reads a row and opens a section (Opens), or it   *)
(* is one of the three statements of save().  Each theorem is proved over  *)
(* the five kinds.                                                         *)
(***************************************************************************)
EXTENDS Allocation, TLAPS

Quiet(k) ==
  /\ \E q \in Request :
       /\ q.pc \in {"idle", "query", "fresh", "read"}
       /\ Placed(q)
       /\ call' = [call EXCEPT ![k] = q]
  /\ UNCHANGED <<conv, raced>>

Opens(k) ==
  \E op \in Ops, o \in Operators \cup {None}, c \in Conversations, e \in Rows :
    /\ Read(k, op, o, c, e)
    /\ conv[c] = NoRow => \E i \in Inboxes : e = QueuedRow(i)
    /\ conv[c] # NoRow => Asked(op, o, conv[c], e)

\* The type of every variable, and what a request knows at each point.
Typed == TypeOK /\ \A k \in Callers : Placed(call[k])

\* The rows and requests the handlers start from are well-typed.
LEMMA ColumnTypes ==
  /\ NoRow \in Rows
  /\ \A i \in Inboxes : QueuedRow(i) \in Rows /\ QueuedRow(i) # NoRow
  /\ Idle \in Request /\ Placed(Idle)
  BY NoneIsNoReference DEF NoRow, Rows, QueuedRow, Row, Idle, Request, Placed,
     Lifecycle!NoRow, Lifecycle!Row, Lifecycle!Rows, Lifecycle!States

\* Saving an entity over a row leaves a row, and with all differing columns
\* dirty it leaves the entity.
LEMMA OverwriteLemma ==
  ASSUME NEW r \in Rows, NEW e \in Rows, NEW d \in SUBSET Columns
  PROVE  /\ Overwrite(r, e, d) \in Rows
         /\ Overwrite(r, e, Diff(e, r)) = e
         /\ Diff(e, r) \in SUBSET Columns
  BY DEF Overwrite, Row, Lifecycle!Row, Diff, Columns, Rows, Lifecycle!Rows, Lifecycle!States

\* Opening a section leaves everything well-typed.
LEMMA ReadKeepsType ==
  ASSUME Typed, NEW k \in Callers, Opens(k)
  PROVE  Typed'
<1>1. PICK op \in Ops, o \in Operators \cup {None}, c \in Conversations, e \in Rows :
        Read(k, op, o, c, e)
  BY DEF Opens
<1> DEFINE q == [op |-> op, by |-> o, target |-> c,
                 pc |-> IF conv[c] = NoRow THEN "insert" ELSE "load",
                 entity |-> e, dirty |-> {}]
<1>2. q \in Request /\ Placed(q)
  BY DEF Request, Placed
<1>3. call' = [call EXCEPT ![k] = q] /\ conv' = conv /\ raced' \subseteq raced \cup {c}
  BY <1>1 DEF Read
<1> HIDE DEF q
<1> QED
  BY <1>2, <1>3 DEF Typed, TypeOK

\* So does a step that touches no row.
LEMMA QuietKeepsType ==
  ASSUME Typed, NEW k \in Callers, Quiet(k)
  PROVE  Typed'
  BY DEF Typed, TypeOK, Quiet

\* So does each of the three statements of save().
LEMMA SaveKeepsType ==
  ASSUME Typed, NEW k \in Callers, SaveStep(k)
  PROVE  Typed'
<1> USE DEF Typed, TypeOK
<1>0. call[k] \in Request /\ Placed(call[k])
  OBVIOUS
<1>1. CASE SaveLoad(k)
  <2> DEFINE q == [call[k] EXCEPT !.pc = "write",
                     !.dirty = Diff(call[k].entity, conv[call[k].target])]
  <2>1. call' = [call EXCEPT ![k] = q] /\ UNCHANGED <<conv, raced>>
    BY <1>1 DEF SaveLoad, Request
  <2>2. call[k].target \in Conversations /\ call[k].entity \in Rows
    BY <1>0, <1>1 DEF SaveLoad, Placed, Request
  <2>3. Diff(call[k].entity, conv[call[k].target]) \in SUBSET Columns
    BY DEF Diff, Columns
  <2>4. q \in Request /\ Placed(q)
    BY <1>0, <2>2, <2>3 DEF Request, Placed
  <2> HIDE DEF q
  <2> QED
    BY <2>1, <2>4
<1>2. CASE SaveWrite(k)
  <2>1. call[k].target \in Conversations /\ call[k].entity \in Rows
        /\ call[k].dirty \in SUBSET Columns
    BY <1>0, <1>2 DEF SaveWrite, Placed, Request
  <2>2. Overwrite(conv[call[k].target], call[k].entity, call[k].dirty) \in Rows
    BY <2>1, OverwriteLemma
  <2> QED
    BY <1>2, <2>1, <2>2, ColumnTypes DEF SaveWrite, Finish
<1>3. CASE SaveInsert(k)
  <2>1. call[k].target \in Conversations /\ call[k].entity \in Rows
    BY <1>0, <1>3 DEF SaveInsert, Placed, Request
  <2> QED
    BY <1>3, <2>1, ColumnTypes DEF SaveInsert, Finish
<1> QED
  BY <1>1, <1>2, <1>3 DEF SaveStep

\* Answering a request touches no row.
LEMMA FinishIsQuiet ==
  ASSUME NEW k \in Callers, Finish(k), UNCHANGED <<conv, raced>>
  PROVE  Quiet(k)
  BY ColumnTypes DEF Finish, Quiet, Idle

\* Starting a request that reads no conversation first touches no row.
LEMMA BeginIsQuiet ==
  ASSUME NEW k \in Callers, NEW op \in Ops, NEW o \in Operators,
         NEW c \in Conversations \cup {None}, NEW pc \in {"query", "read"},
         pc = "read" => c \in Conversations,
         Begin(k, op, o, c, pc)
  PROVE  Quiet(k)
<1> DEFINE q == [op |-> op, by |-> o, target |-> c, pc |-> pc,
                 entity |-> NoRow, dirty |-> {}]
<1>1. q \in Request /\ Placed(q) /\ q.pc = pc
  BY ColumnTypes DEF Request, Placed
<1>2. call' = [call EXCEPT ![k] = q] /\ UNCHANGED <<conv, raced>>
  BY DEF Begin
<1> HIDE DEF q
<1> QED
  BY <1>1, <1>2 DEF Quiet

\* Row builds a well-typed row from well-typed columns.
LEMMA RowType ==
  ASSUME NEW s \in States \cup {"ABSENT"}, NEW o \in Operators \cup {None},
         NEW i \in Inboxes \cup {None}
  PROVE  Row(s, o, i) \in Rows
  BY DEF Row, Rows, States, Lifecycle!Row, Lifecycle!Rows, Lifecycle!States

\* What a request asks to be done to a row is a row.
LEMMA EntityType ==
  ASSUME NEW r \in Rows, NEW e, NEW op, NEW o, Asked(op, o, r, e)
  PROVE  e \in Rows
<1>1. /\ r.state \in States \cup {"ABSENT"}
      /\ r.assignee \in Operators \cup {None}
      /\ r.inbox \in Inboxes \cup {None}
  BY DEF Rows, States, Lifecycle!Rows
<1> USE DEF States, Lifecycle!States
<1>2. CASE o \in Operators /\ Lifecycle!Allocated(r, e, o)
  BY <1>1, <1>2, RowType DEF Row, Lifecycle!Allocated
<1>3. CASE Lifecycle!Resolved(r, e, o)
  BY <1>1, <1>3, RowType DEF Row, Lifecycle!Resolved
<1>4. CASE Lifecycle!Released(r, e)
  BY <1>1, <1>4, RowType DEF Row, Lifecycle!Released
<1>5. CASE Lifecycle!Reassigned(r, e)
  BY <1>1, <1>5, RowType DEF Row, Lifecycle!Reassigned
<1>6. CASE Lifecycle!Moved(r, e)
  BY <1>1, <1>6, RowType DEF Row, Lifecycle!Moved
<1>7. CASE Lifecycle!Refiled(r, e)
  BY <1>1, <1>7, RowType DEF Row, Lifecycle!Refiled
<1> QED
  BY <1>2, <1>3, <1>4, <1>5, <1>6, <1>7 DEF Asked, Lifecycle!Claimed

\* A request whose first statement reads a row opens a section on it.
LEMMA ServeOpens ==
  ASSUME Typed, NEW k \in Callers, NEW op \in Ops, NEW o \in Operators \cup {None},
         NEW c \in Conversations, NEW e, Serve(k, op, o, c, e),
         conv[c] = NoRow => \E i \in Inboxes : e = QueuedRow(i),
         conv[c] # NoRow => Asked(op, o, conv[c], e)
  PROVE  Opens(k)
<1>1. conv[c] \in Rows
  BY DEF Typed, TypeOK
<1>2. e \in Rows
  BY <1>1, EntityType, ColumnTypes
<1> QED
  BY <1>2 DEF Opens, Serve

\* A row that has not been inserted is in none of the three states.
LEMMA StateOfNoRow == NoRow.state = "ABSENT"
  BY DEF NoRow, Lifecycle!NoRow, Lifecycle!Row

\* The statements of allocate before save() are quiet or open a section, the
\* one in which the QUEUED check has just been made.
LEMMA AllocateSteps ==
  ASSUME Typed, NEW k \in Callers, Allocate(k)
  PROVE  Quiet(k) \/ Opens(k)
<1>0. call[k] \in Request /\ Placed(call[k])
  BY DEF Typed, TypeOK
<1>1. ASSUME NEW o \in Operators, AllocateStart(k, o) PROVE Quiet(k)
  BY <1>1, BeginIsQuiet DEF AllocateStart, Ops, Requests
<1>2. CASE AllocateQuery(k)
  <2>1. CASE Finish(k)
    BY <1>2, <2>1, FinishIsQuiet DEF AllocateQuery
  <2>2. ASSUME NEW c \in Candidates(call[k].by),
               call' = [call EXCEPT ![k].pc = "fresh", ![k].target = c]
        PROVE  Quiet(k)
    <3> DEFINE q == [call[k] EXCEPT !.pc = "fresh", !.target = c]
    <3>1. q \in Request /\ Placed(q) /\ q.pc = "fresh"
      BY <1>0, <1>2 DEF AllocateQuery, Candidates, Request, Placed
    <3>2. call' = [call EXCEPT ![k] = q] /\ UNCHANGED <<conv, raced>>
      BY <1>2, <2>2 DEF AllocateQuery
    <3> HIDE DEF q
    <3> QED
      BY <3>1, <3>2 DEF Quiet
  <2> QED
    BY <1>2, <2>1, <2>2 DEF AllocateQuery
<1>3. CASE AllocateFresh(k)
  <2>1. call[k].target \in Conversations /\ call[k].by \in Operators
    BY <1>0, <1>3 DEF AllocateFresh, Placed
  <2>2. CASE conv[call[k].target].state = "QUEUED"
    <3> DEFINE row == conv[call[k].target]
               e == Row("ALLOCATED", call[k].by, row.inbox)
    <3>1. Read(k, "allocate", call[k].by, call[k].target, e)
      BY <1>3, <2>2 DEF AllocateFresh
    <3>2. row \in Rows /\ row # NoRow
      BY <2>1, <2>2, StateOfNoRow DEF Typed, TypeOK
    <3>3. Asked("allocate", call[k].by, row, e)
      BY <2>1, <2>2 DEF Asked, Row, Lifecycle!Allocated
    <3>4. e \in Rows
      BY <3>2, <3>3, EntityType
    <3> QED
      BY <2>1, <3>1, <3>2, <3>3, <3>4 DEF Opens, Ops, Requests
  <2>3. CASE conv[call[k].target].state # "QUEUED"
    BY <1>3, <2>3, FinishIsQuiet DEF AllocateFresh
  <2> QED
    BY <2>2, <2>3
<1> QED
  BY <1>1, <1>2, <1>3 DEF Allocate

\* The same for claim, whose read checks the subscription too.
LEMMA ClaimSteps ==
  ASSUME Typed, NEW k \in Callers, Claim(k)
  PROVE  Quiet(k) \/ Opens(k)
<1>0. call[k] \in Request /\ Placed(call[k])
  BY DEF Typed, TypeOK
<1>1. ASSUME NEW o \in Operators, NEW c \in Conversations, ClaimStart(k, o, c)
      PROVE  Quiet(k)
  BY <1>1, BeginIsQuiet DEF ClaimStart, Ops, Requests
<1>2. CASE ClaimRead(k)
  <2> DEFINE row == conv[call[k].target]
             e == Row("ALLOCATED", call[k].by, row.inbox)
  <2>1. call[k].target \in Conversations /\ call[k].by \in Operators
    BY <1>0, <1>2 DEF ClaimRead, Placed
  <2>2. CASE row.state = "QUEUED" /\ <<call[k].by, row.inbox>> \in Subscribed
    <3>1. Read(k, "claim", call[k].by, call[k].target, e)
      BY <1>2, <2>2 DEF ClaimRead
    <3>2. row \in Rows /\ row # NoRow
      BY <2>1, <2>2, StateOfNoRow DEF Typed, TypeOK
    <3>3. Asked("claim", call[k].by, row, e)
      BY <2>1, <2>2 DEF Asked, Row, Lifecycle!Allocated, Lifecycle!Claimed
    <3>4. e \in Rows
      BY <3>2, <3>3, EntityType
    <3> QED
      BY <2>1, <3>1, <3>2, <3>3, <3>4 DEF Opens, Ops, Requests
  <2>3. CASE ~(row.state = "QUEUED" /\ <<call[k].by, row.inbox>> \in Subscribed)
    BY <1>2, <2>3, FinishIsQuiet DEF ClaimRead
  <2> QED
    BY <2>2, <2>3
<1> QED
  BY <1>1, <1>2 DEF Claim

\* Resolve, deallocate, reassign and move open a section at once, after the
\* role, owner and state checks of the handler.
LEMMA ManageSteps ==
  ASSUME Typed, NEW k \in Callers, Manage(k)
  PROVE  Opens(k)
<1> USE DEF Ops, Requests, IsManagerOrAdmin, Row
<1>1. ASSUME NEW o \in Operators, NEW c \in Conversations, Resolve(k, o, c)
      PROVE  Opens(k)
  BY <1>1, ServeOpens, StateOfNoRow DEF Resolve, MayResolve, Asked, Lifecycle!Resolved
<1>2. ASSUME NEW o \in Operators, NEW c \in Conversations, Deallocate(k, o, c)
      PROVE  Opens(k)
  BY <1>2, ServeOpens, StateOfNoRow DEF Deallocate, MayDeallocate, Asked, Lifecycle!Released
<1>3. ASSUME NEW o \in Operators, NEW c \in Conversations, NEW new \in Operators,
             Reassign(k, o, c, new)
      PROVE  Opens(k)
  BY <1>3, ServeOpens, StateOfNoRow DEF Reassign, MayReassign, Asked, Lifecycle!Reassigned
<1>4. ASSUME NEW o \in Operators, NEW c \in Conversations, NEW i \in Inboxes,
             MoveInbox(k, o, c, i)
      PROVE  Opens(k)
  BY <1>4, ServeOpens DEF MoveInbox, Asked, Lifecycle!Moved, NoRow
<1> QED
  BY <1>1, <1>2, <1>3, <1>4 DEF Manage

\* The orchestrator's upsert and a metadata update open a section at once.
LEMMA IngestSteps ==
  ASSUME Typed, NEW k \in Callers, Ingest(k)
  PROVE  Opens(k)
<1>1. ASSUME NEW c \in Conversations, NEW i \in Inboxes, Upsert(k, c, i)
      PROVE  Opens(k)
  <2>1. conv[c] # NoRow => Lifecycle!Refiled(conv[c], Row(conv[c].state, conv[c].assignee, i))
    BY DEF Lifecycle!Refiled, Row, NoRow
  <2> QED
    BY <1>1, <2>1, ServeOpens DEF Upsert, Asked, Ops, Requests
<1>2. ASSUME NEW c \in Conversations, UpdateMetadata(k, c)
      PROVE  Opens(k)
  BY <1>2, ServeOpens DEF UpdateMetadata, Asked, Ops, Requests
<1> QED
  BY <1>1, <1>2 DEF Ingest

\* The five kinds of step.
LEMMA KindsOfStep ==
  ASSUME Typed, Next
  PROVE  \E k \in Callers : Quiet(k) \/ Opens(k) \/ SaveStep(k)
<1>1. PICK k \in Callers : Handle(k)
  BY DEF Next
<1>2. CASE Crash(k)
  BY <1>2, FinishIsQuiet DEF Crash
<1> QED
  BY <1>1, <1>2, AllocateSteps, ClaimSteps, ManageSteps, IngestSteps DEF Handle

\* Every reachable state has well-typed rows and requests, and every request
\* knows its operator and its conversation when a handler uses them.
LEMMA TypedAlways == Spec => []Typed
<1>1. Init => Typed
  <2> SUFFICES ASSUME Init PROVE Typed
    OBVIOUS
  <2>1. conv \in [Conversations -> Rows]
    BY ColumnTypes DEF Init, StoreInit
  <2>2. call \in [Callers -> Request] /\ \A k \in Callers : Placed(call[k])
    BY ColumnTypes DEF Init, StoreInit
  <2> QED
    BY <2>1, <2>2 DEF Typed, TypeOK, Init, StoreInit
<1>2. Typed /\ [Next]_storeVars => Typed'
  <2>1. CASE UNCHANGED storeVars
    BY <2>1 DEF storeVars, Typed, TypeOK, Placed
  <2> QED
    BY <2>1, KindsOfStep, QuietKeepsType, ReadKeepsType, SaveKeepsType
<1> QED
  BY <1>1, <1>2, PTL DEF Spec

\* Type correctness of the table and of the requests in progress.
THEOREM TypeCorrect == Spec => []TypeOK
<1>1. Typed => TypeOK
  BY DEF Typed
<1> QED
  BY <1>1, TypedAlways, PTL

-----------------------------------------------------------------------------
(* The contract of a conversation that is not raced. *)

\* What a request asks for is a step of the lifecycle.
LEMMA AskedIsLegal ==
  ASSUME NEW r \in Rows, NEW e, NEW op, NEW o, Asked(op, o, r, e)
  PROVE  Lifecycle!LegalStep(r, e) \/ e = r
  BY DEF Asked, Lifecycle!LegalStep, Lifecycle!Claimed

\* What a request asks for is a whole row if the row before was whole.
LEMMA AskedKeepsWhole ==
  ASSUME NEW r \in Rows, Whole(r), NEW e, NEW op, NEW o, Asked(op, o, r, e)
  PROVE  Whole(e) /\ r # NoRow
<1> USE DEF Whole, Row, Lifecycle!Row
<1>1. CASE o \in Operators /\ Lifecycle!Allocated(r, e, o)
  BY <1>1, StateOfNoRow DEF Lifecycle!Allocated
<1>2. CASE Lifecycle!Resolved(r, e, o)
  BY <1>2, StateOfNoRow DEF Lifecycle!Resolved
<1>3. CASE Lifecycle!Released(r, e)
  BY <1>3, StateOfNoRow DEF Lifecycle!Released
<1>4. CASE Lifecycle!Reassigned(r, e)
  BY <1>4, StateOfNoRow DEF Lifecycle!Reassigned
<1>5. CASE Lifecycle!Moved(r, e)
  BY <1>5 DEF Lifecycle!Moved, NoRow
<1>6. CASE Lifecycle!Refiled(r, e)
  BY <1>6 DEF Lifecycle!Refiled, NoRow
<1> QED
  BY <1>1, <1>2, <1>3, <1>4, <1>5, <1>6 DEF Asked, Lifecycle!Claimed

\* A quiet step closes sections at most.
LEMMA QuietKeepsInv ==
  ASSUME IInv, NEW k \in Callers, Quiet(k)
  PROVE  IInv'
<1>1. Typed'
  BY QuietKeepsType DEF IInv, Typed
<1>2. PICK q \in Request : /\ q.pc \in {"idle", "query", "fresh", "read"}
                          /\ call' = [call EXCEPT ![k] = q]
                          /\ UNCHANGED <<conv, raced>>
  BY DEF Quiet
<1>3. call'[k].pc \notin {"load", "write", "insert"}
      /\ \A j \in Callers \ {k} : call'[j] = call[j]
  BY <1>2 DEF IInv, TypeOK
<1>4. OneSection'
  BY <1>2, <1>3 DEF IInv, OneSection, Holds
<1>5. SnapshotIsCurrent'
  BY <1>2, <1>3 DEF IInv, SnapshotIsCurrent
<1>6. RowsWhole'
  BY <1>2 DEF IInv, RowsWhole
<1> QED
  BY <1>1, <1>4, <1>5, <1>6 DEF IInv, Typed

\* A new section is the only one on its conversation, or the conversation is raced.
LEMMA ReadKeepsInv ==
  ASSUME IInv, NEW k \in Callers, Opens(k)
  PROVE  IInv'
<1>1. Typed'
  BY ReadKeepsType DEF IInv, Typed
<1>2. PICK op \in Ops, o \in Operators \cup {None}, c \in Conversations, e \in Rows :
        /\ Read(k, op, o, c, e)
        /\ conv[c] = NoRow => \E i \in Inboxes : e = QueuedRow(i)
        /\ conv[c] # NoRow => Asked(op, o, conv[c], e)
  BY DEF Opens
<1>3. /\ call'[k].op = op /\ call'[k].by = o /\ call'[k].target = c
      /\ call'[k].pc = (IF conv[c] = NoRow THEN "insert" ELSE "load")
      /\ call'[k].entity = e
      /\ \A j \in Callers \ {k} : call'[j] = call[j]
      /\ conv' = conv
  BY <1>2 DEF Read, IInv, TypeOK
<1>4. /\ raced \subseteq raced'
      /\ \A j \in Callers \ {k} : Holds(j, c) => c \in raced'
  BY <1>2 DEF Read
<1>5. OneSection'
  BY <1>3, <1>4 DEF IInv, OneSection, Holds
<1>6. SnapshotIsCurrent'
  BY <1>2, <1>3, <1>4 DEF IInv, SnapshotIsCurrent
<1>7. RowsWhole'
  BY <1>3, <1>4 DEF IInv, RowsWhole
<1> QED
  BY <1>1, <1>5, <1>6, <1>7 DEF IInv, Typed

\* The SELECT of save() computes the differing columns from the row as it is.
LEMMA SaveLoadKeepsInv ==
  ASSUME IInv, NEW k \in Callers, SaveLoad(k)
  PROVE  IInv'
<1>1. Typed'
  BY SaveKeepsType DEF IInv, Typed, SaveStep
<1>2. /\ call'[k].op = call[k].op /\ call'[k].by = call[k].by
      /\ call'[k].target = call[k].target /\ call'[k].entity = call[k].entity
      /\ call'[k].pc = "write" /\ call[k].pc = "load"
      /\ call'[k].dirty = Diff(call[k].entity, conv[call[k].target])
      /\ \A j \in Callers \ {k} : call'[j] = call[j]
      /\ conv' = conv /\ raced' = raced
  BY DEF SaveLoad, IInv, TypeOK, Request
<1>3. OneSection'
  BY <1>2 DEF IInv, OneSection, Holds
<1>4. SnapshotIsCurrent'
  BY <1>2 DEF IInv, SnapshotIsCurrent
<1>5. RowsWhole'
  BY <1>2 DEF IInv, RowsWhole
<1> QED
  BY <1>1, <1>3, <1>4, <1>5 DEF IInv, Typed

\* A statement that writes the row of c, when c is not raced, is that of the
\* only open section on c: no other snapshot of c exists.
LEMMA WriteKeepsInv ==
  ASSUME IInv, Typed', NEW k \in Callers, NEW c \in Conversations, Holds(k, c),
         Finish(k), raced' = raced, NEW r,
         conv' = [conv EXCEPT ![c] = r],
         c \notin raced => Whole(r)
  PROVE  IInv'
<1>1. /\ call'[k].pc = "idle"
      /\ \A j \in Callers \ {k} : call'[j] = call[j]
      /\ \A d \in Conversations \ {c} : conv'[d] = conv[d]
      /\ conv'[c] = r
  BY DEF Finish, IInv, TypeOK, Idle
<1>2. OneSection'
  BY <1>1 DEF IInv, OneSection, Holds
<1>3. SnapshotIsCurrent'
  <2> SUFFICES ASSUME NEW j \in Callers, call'[j].target \in Conversations \ raced,
                      call'[j].pc \in {"load", "write", "insert"}
               PROVE  /\ j # k
                      /\ call'[j] = call[j]
                      /\ conv'[call[j].target] = conv[call[j].target]
    BY DEF IInv, SnapshotIsCurrent
  <2>1. j # k /\ call'[j] = call[j]
    BY <1>1
  <2>2. call[j].target # c
    BY <2>1 DEF IInv, OneSection, Holds
  <2> QED
    BY <1>1, <2>1, <2>2
<1>4. RowsWhole'
  BY <1>1 DEF IInv, RowsWhole
<1> QED
  BY <1>2, <1>3, <1>4 DEF IInv, Typed

\* What the two writing statements do to a row that is not raced.
LEMMA WriteEffect ==
  ASSUME IInv, NEW k \in Callers, SaveWrite(k)
  PROVE  LET c == call[k].target
             r == Overwrite(conv[c], call[k].entity, call[k].dirty) IN
         /\ c \in Conversations /\ Holds(k, c) /\ r \in Rows
         /\ conv' = [conv EXCEPT ![c] = r]
         /\ c \notin raced => /\ r = call[k].entity
                             /\ Asked(call[k].op, call[k].by, conv[c], r)
<1>1. call[k].pc = "write" /\ call[k] \in Request /\ Placed(call[k])
  BY DEF SaveWrite, IInv, TypeOK
<1>2. /\ call[k].target \in Conversations /\ call[k].entity \in Rows
      /\ call[k].dirty \in SUBSET Columns /\ conv[call[k].target] \in Rows
  BY <1>1 DEF Request, Placed, IInv, TypeOK
<1>3. call[k].target \notin raced =>
        /\ call[k].dirty = Diff(call[k].entity, conv[call[k].target])
        /\ Asked(call[k].op, call[k].by, conv[call[k].target], call[k].entity)
  BY <1>1, <1>2 DEF IInv, SnapshotIsCurrent
<1>4. conv' = [conv EXCEPT ![call[k].target] =
                 Overwrite(conv[call[k].target], call[k].entity, call[k].dirty)]
  BY DEF SaveWrite
<1> QED
  BY <1>1, <1>2, <1>3, <1>4, OverwriteLemma DEF Holds

\* What the INSERT does to a row that is not raced.
LEMMA InsertEffect ==
  ASSUME IInv, NEW k \in Callers, SaveInsert(k)
  PROVE  LET c == call[k].target
             r == IF conv[c] = NoRow THEN call[k].entity ELSE conv[c] IN
         /\ c \in Conversations /\ Holds(k, c) /\ r \in Rows
         /\ conv' = [conv EXCEPT ![c] = r]
         /\ c \notin raced => /\ conv[c] = NoRow
                             /\ \E i \in Inboxes : r = QueuedRow(i)
<1>1. call[k].pc = "insert" /\ call[k] \in Request /\ Placed(call[k])
  BY DEF SaveInsert, IInv, TypeOK
<1>2. /\ call[k].target \in Conversations /\ call[k].entity \in Rows
      /\ conv[call[k].target] \in Rows
  BY <1>1 DEF Request, Placed, IInv, TypeOK
<1>3. call[k].target \notin raced =>
        /\ conv[call[k].target] = NoRow
        /\ \E i \in Inboxes : call[k].entity = QueuedRow(i)
  BY <1>1, <1>2 DEF IInv, SnapshotIsCurrent
<1> QED
  BY <1>1, <1>2, <1>3 DEF Holds, SaveInsert

\* The statements of save() keep the invariant.
LEMMA SaveKeepsInv ==
  ASSUME IInv, NEW k \in Callers, SaveStep(k)
  PROVE  IInv'
<1>1. Typed'
  BY SaveKeepsType DEF IInv, Typed
<1>2. CASE SaveLoad(k)
  BY <1>2, SaveLoadKeepsInv
<1>3. CASE SaveWrite(k)
  <2> DEFINE c == call[k].target
             r == Overwrite(conv[c], call[k].entity, call[k].dirty)
  <2>1. /\ c \in Conversations /\ Holds(k, c)
        /\ conv' = [conv EXCEPT ![c] = r]
        /\ c \notin raced => Asked(call[k].op, call[k].by, conv[c], r)
    BY <1>3, WriteEffect
  <2>3. Finish(k) /\ raced' = raced
    BY <1>3 DEF SaveWrite
  <2> HIDE DEF c, r
  <2>2. c \notin raced => Whole(r)
    <3> SUFFICES ASSUME c \notin raced PROVE Whole(r)
      OBVIOUS
    <3>1. conv[c] \in Rows /\ Whole(conv[c])
      BY <2>1 DEF IInv, TypeOK, RowsWhole
    <3> QED
      BY <2>1, <3>1, AskedKeepsWhole
  <2> QED
    BY <1>1, <2>1, <2>2, <2>3, WriteKeepsInv
<1>4. CASE SaveInsert(k)
  <2> DEFINE c == call[k].target
             r == IF conv[c] = NoRow THEN call[k].entity ELSE conv[c]
  <2>1. /\ c \in Conversations /\ Holds(k, c)
        /\ conv' = [conv EXCEPT ![c] = r]
        /\ c \notin raced => \E i \in Inboxes : r = QueuedRow(i)
    BY <1>4, InsertEffect
  <2>3. Finish(k) /\ raced' = raced
    BY <1>4 DEF SaveInsert
  <2> HIDE DEF c, r
  <2>2. c \notin raced => Whole(r)
    BY <2>1 DEF Whole, QueuedRow, Row, Lifecycle!Row
  <2> QED
    BY <1>1, <2>1, <2>2, <2>3, WriteKeepsInv
<1> QED
  BY <1>2, <1>3, <1>4 DEF SaveStep

LEMMA InitialStore == Init => IInv
<1> SUFFICES ASSUME Init PROVE IInv
  OBVIOUS
<1>1. \A k \in Callers : call[k].pc = "idle"
  BY DEF Init, StoreInit, Idle
<1>2. TypeOK /\ \A k \in Callers : Placed(call[k])
  BY ColumnTypes DEF Init, StoreInit, TypeOK
<1>3. OneSection /\ SnapshotIsCurrent
  BY <1>1 DEF OneSection, SnapshotIsCurrent, Holds
<1>4. RowsWhole
  BY DEF Init, StoreInit, RowsWhole, Whole, QueuedRow, Row, Lifecycle!Row
<1> QED
  BY <1>2, <1>3, <1>4 DEF IInv

\* The inductive invariant: one open section per conversation that is not
\* raced, and its entity was built from the row as it still is.
THEOREM SectionsExclude == Spec => []IInv
<1>1. Init => IInv
  BY InitialStore
<1>2. IInv /\ [Next]_storeVars => IInv'
  <2> SUFFICES ASSUME IInv, [Next]_storeVars PROVE IInv'
    OBVIOUS
  <2>1. CASE UNCHANGED storeVars
    BY <2>1 DEF storeVars, IInv, TypeOK, Placed, OneSection, SnapshotIsCurrent, RowsWhole, Holds
  <2>2. CASE Next
    <3>1. Typed
      BY DEF IInv, Typed
    <3> QED
      BY <2>2, <3>1, KindsOfStep, QuietKeepsInv, ReadKeepsInv, SaveKeepsInv
  <2> QED
    BY <2>1, <2>2
<1> QED
  BY <1>1, <1>2, PTL DEF Spec

\* State and assignee of a row agree unless two sections overlapped on it.
THEOREM RowsStayWhole == Spec => []RowsWhole
<1>1. IInv => RowsWhole
  BY DEF IInv
<1> QED
  BY <1>1, SectionsExclude, PTL

-----------------------------------------------------------------------------
(* The steps of the service are steps of the lifecycle. *)

\* Every step of a caller is a step of the lifecycle, or leaves it alone.
LEMMA StepIsLifecycleStep ==
  ASSUME IInv, NEW k \in Callers, Quiet(k) \/ Opens(k) \/ SaveStep(k)
  PROVE  [Lifecycle!Next]_<<conv, raced>>
<1>2. CASE Quiet(k)
  BY <1>2 DEF Quiet
<1>3. CASE Opens(k)
  <2>1. PICK c \in Conversations : conv' = conv /\ raced' \in {raced, raced \cup {c}}
    BY <1>3 DEF Opens, Read
  <2> QED
    BY <2>1 DEF Lifecycle!Next, Lifecycle!Race
<1>4. CASE SaveLoad(k)
  BY <1>4 DEF SaveLoad
<1>5. CASE SaveWrite(k)
  <2> DEFINE c == call[k].target
             r == Overwrite(conv[c], call[k].entity, call[k].dirty)
  <2>1. /\ c \in Conversations /\ r \in Rows
        /\ conv' = [conv EXCEPT ![c] = r]
        /\ c \notin raced => Asked(call[k].op, call[k].by, conv[c], r)
    BY <1>5, WriteEffect
  <2>2. conv[c] \in Rows /\ conv \in [Conversations -> Rows]
    BY <2>1 DEF IInv, TypeOK
  <2>3. raced' = raced
    BY <1>5 DEF SaveWrite
  <2> HIDE DEF c, r
  <2>4. CASE c \in raced
    BY <2>1, <2>3, <2>4 DEF Lifecycle!Next, Lifecycle!Scramble, Rows
  <2>5. CASE c \notin raced
    <3>1. Lifecycle!LegalStep(conv[c], r) \/ r = conv[c]
      BY <2>1, <2>2, <2>5, AskedIsLegal
    <3>2. CASE r = conv[c]
      BY <2>1, <2>2, <2>3, <3>2
    <3>3. CASE Lifecycle!LegalStep(conv[c], r)
      <4>1. Lifecycle!Step(c)
        BY <2>1, <2>3, <3>3 DEF Lifecycle!Step, Rows
      <4> QED
        BY <2>1, <4>1 DEF Lifecycle!Next
    <3> QED
      BY <3>1, <3>2, <3>3
  <2> QED
    BY <2>4, <2>5
<1>6. CASE SaveInsert(k)
  <2> DEFINE c == call[k].target
             r == IF conv[c] = NoRow THEN call[k].entity ELSE conv[c]
  <2>1. /\ c \in Conversations /\ r \in Rows
        /\ conv' = [conv EXCEPT ![c] = r]
        /\ c \notin raced => conv[c] = NoRow /\ \E i \in Inboxes : r = QueuedRow(i)
    BY <1>6, InsertEffect
  <2>2. raced' = raced
    BY <1>6 DEF SaveInsert
  <2> HIDE DEF c, r
  <2>3. CASE c \in raced
    BY <2>1, <2>2, <2>3 DEF Lifecycle!Next, Lifecycle!Scramble, Rows
  <2>4. CASE c \notin raced
    <3>1. Lifecycle!LegalStep(conv[c], r)
      BY <2>1, <2>4 DEF Lifecycle!LegalStep, Lifecycle!Queued, QueuedRow, Row, NoRow
    <3>2. Lifecycle!Step(c)
      BY <2>1, <2>2, <3>1 DEF Lifecycle!Step, Rows
    <3> QED
      BY <2>1, <3>2 DEF Lifecycle!Next
  <2> QED
    BY <2>3, <2>4
<1> QED
  BY <1>2, <1>3, <1>4, <1>5, <1>6 DEF SaveStep

LEMMA InitialLifecycle == Init => Lifecycle!Init
  BY DEF Init, StoreInit, Lifecycle!Init, NoRow, QueuedRow, Row

\* Serving requests statement by statement implements the lifecycle in which
\* every request is one step, for conversations on which no two sections
\* overlap; nothing else touches a row.
THEOREM ServiceImplementsLifecycle == Spec => ImplementsLifecycle
<1>1. IInv /\ [Next]_storeVars => [Lifecycle!Next]_<<conv, raced>>
  BY StepIsLifecycleStep, KindsOfStep DEF storeVars, IInv, Typed
<1> QED
  BY <1>1, InitialLifecycle, SectionsExclude, PTL DEF Spec, ImplementsLifecycle, Lifecycle!Spec

\* If caller k writes a row nobody raced for, it writes what it has checked.
WriteIsWhatWasChecked(k) ==
  LET c == call[k].target IN
  (call[k].pc = "write" /\ c \notin raced /\ conv' # conv /\ call'[k] = Idle) =>
    /\ conv'[c] = call[k].entity
    /\ Asked(call[k].op, call[k].by, conv[c], call[k].entity)

LEMMA StepWritesAsChecked ==
  ASSUME IInv, NEW j \in Callers, Quiet(j) \/ Opens(j) \/ SaveStep(j)
  PROVE  \A k \in Callers : WriteIsWhatWasChecked(k)
<1> SUFFICES ASSUME NEW k \in Callers, call[k].pc = "write",
                    call[k].target \notin raced, conv' # conv, call'[k] = Idle
             PROVE  /\ conv'[call[k].target] = call[k].entity
                    /\ Asked(call[k].op, call[k].by, conv[call[k].target], call[k].entity)
  BY DEF WriteIsWhatWasChecked
<1>1. SaveWrite(j) \/ SaveInsert(j)
  BY DEF Quiet, Opens, Read, SaveStep, SaveLoad
<1>2. Finish(j)
  BY <1>1 DEF SaveWrite, SaveInsert
<1>3. call[k].pc # Idle.pc
  BY DEF Idle
<1>4. j = k
  BY <1>2, <1>3 DEF Finish, IInv, TypeOK
<1>5. SaveWrite(k)
  BY <1>1, <1>4 DEF SaveInsert
<1> QED
  BY <1>5, WriteEffect DEF IInv, TypeOK

LEMMA WritesChecked ==
  WritesAreWhatWasChecked <=> [][\A k \in Callers : WriteIsWhatWasChecked(k)]_storeVars
  BY DEF WritesAreWhatWasChecked, WriteIsWhatWasChecked

\* What a handler checked of a row nobody raced for still holds when it writes.
THEOREM ChecksHoldAtWrite == Spec => WritesAreWhatWasChecked
<1>1. IInv /\ [Next]_storeVars => [\A k \in Callers : WriteIsWhatWasChecked(k)]_storeVars
  BY StepWritesAsChecked, KindsOfStep DEF IInv, Typed
<1> QED
  BY <1>1, WritesChecked, SectionsExclude, PTL DEF Spec

-----------------------------------------------------------------------------
(* Races among requests that take conversations. *)

\* A row that is taken is a whole one, and not new.
LEMMA TakenRow ==
  ASSUME NEW r, Taken(r)
  PROVE  /\ r # NoRow /\ r.state # "QUEUED" /\ r.state # "ABSENT"
         /\ \A i : r # QueuedRow(i)
         /\ r.assignee \in Operators /\ r.inbox \in Inboxes
         /\ Whole(r)
<1>1. r.assignee \in Operators /\ r.inbox \in Inboxes
  BY SubscriptionsArePairs DEF Taken
<1> QED
  BY <1>1, StateOfNoRow DEF Taken, Whole, QueuedRow, Row, Lifecycle!Row

\* A statement that changes no row and gives caller k the request q.
LEMMA TakingQuiet ==
  ASSUME TakingInv, NEW k \in Callers, NEW q \in Request, Placed(q), TakingInProgress(q),
         call' = [call EXCEPT ![k] = q], UNCHANGED conv, raced' \subseteq Conversations
  PROVE  TakingInv'
  BY DEF TakingInv, TypeOK, Placed, TakingInProgress

\* A caller without a request satisfies whatever a request has to.
LEMMA IdleInProgress == TakingInProgress(Idle)
  BY DEF TakingInProgress, Idle

\* The reads of the four requests build an entity that is taken.
LEMMA TakingReads ==
  ASSUME TakingInv, NEW k \in Callers, NEW o \in Operators, NEW c \in Conversations,
         NEW op \in {"allocate", "claim", "resolve", "reassign"}, NEW e \in Rows,
         Taken(e), e.inbox = conv[c].inbox, conv[c] # NoRow,
         e.state = "ALLOCATED" \/ Taken(conv[c]), Read(k, op, o, c, e)
  PROVE  TakingInv'
<1> DEFINE q == [op |-> op, by |-> o, target |-> c, pc |-> "load",
                 entity |-> e, dirty |-> {}]
<1>1. call' = [call EXCEPT ![k] = q] /\ conv' = conv /\ raced' \subseteq raced \cup {c}
  BY DEF Read
<1>2. q \in Request /\ Placed(q)
  BY DEF Request, Placed, Ops, Requests
<1>3. TakingInProgress(q)
  BY DEF TakingInProgress
<1> HIDE DEF q
<1> QED
  BY <1>1, <1>2, <1>3, TakingQuiet DEF TakingInv, TypeOK

\* Allocate and claim build it from a row they have found QUEUED.
LEMMA GrantReads ==
  ASSUME TakingInv, NEW k \in Callers, NEW op \in {"allocate", "claim"},
         NEW o \in Operators, NEW c \in Conversations, conv[c].state = "QUEUED",
         <<o, conv[c].inbox>> \in Subscribed,
         Read(k, op, o, c, Row("ALLOCATED", o, conv[c].inbox))
  PROVE  TakingInv'
<1> DEFINE e == Row("ALLOCATED", o, conv[c].inbox)
<1>1. conv[c] # NoRow /\ conv[c] \in Rows
  BY StateOfNoRow DEF TakingInv, TypeOK
<1>2. e \in Rows
  BY <1>1, RowType DEF States, Lifecycle!States, Rows, Lifecycle!Rows
<1>3. Taken(e) /\ e.inbox = conv[c].inbox /\ e.state = "ALLOCATED"
  BY DEF Taken, Row, Lifecycle!Row
<1> HIDE DEF e
<1>4. Read(k, op, o, c, e)
  BY DEF e
<1> QED
  BY <1>1, <1>2, <1>3, <1>4, TakingReads

\* The statements of allocate and claim before save() keep the invariant.
LEMMA GrantHandlers ==
  ASSUME TakingInv, NEW k \in Callers, Allocate(k) \/ Claim(k) \/ Crash(k)
  PROVE  TakingInv'
<1>0. call[k] \in Request /\ Placed(call[k]) /\ TakingInProgress(call[k])
      /\ raced \subseteq Conversations
  BY DEF TakingInv, TypeOK
<1>1. CASE Finish(k) /\ UNCHANGED <<conv, raced>>
  BY <1>0, <1>1, TakingQuiet, ColumnTypes, IdleInProgress DEF Finish
<1>2. ASSUME NEW op \in {"allocate", "claim"}, NEW o \in Operators,
             NEW c \in Conversations \cup {None}, NEW pc \in {"query", "read"},
             pc = "read" => c \in Conversations, Begin(k, op, o, c, pc)
      PROVE  TakingInv'
  <2> DEFINE q == [op |-> op, by |-> o, target |-> c, pc |-> pc,
                   entity |-> NoRow, dirty |-> {}]
  <2>1. q \in Request /\ Placed(q) /\ TakingInProgress(q)
    BY <1>2, ColumnTypes DEF Request, Placed, Ops, Requests, TakingInProgress
  <2>2. call' = [call EXCEPT ![k] = q] /\ UNCHANGED <<conv, raced>>
    BY <1>2 DEF Begin
  <2> HIDE DEF q
  <2> QED
    BY <1>0, <2>1, <2>2, TakingQuiet
<1>3. CASE Allocate(k)
  <2>1. ASSUME NEW o \in Operators, AllocateStart(k, o) PROVE TakingInv'
    BY <1>2, <2>1 DEF AllocateStart
  <2>2. ASSUME AllocateQuery(k), NEW c \in Candidates(call[k].by),
               call' = [call EXCEPT ![k].pc = "fresh", ![k].target = c]
        PROVE  TakingInv'
    <3> DEFINE q == [call[k] EXCEPT !.pc = "fresh", !.target = c]
    <3>1. q \in Request /\ Placed(q)
      BY <1>0, <2>2 DEF AllocateQuery, Candidates, Request, Placed
    <3>2. TakingInProgress(q)
      BY <1>0, <2>2 DEF TakingInProgress, Candidates, Request
    <3>3. call' = [call EXCEPT ![k] = q] /\ UNCHANGED <<conv, raced>>
      BY <2>2 DEF AllocateQuery
    <3> HIDE DEF q
    <3> QED
      BY <1>0, <3>1, <3>2, <3>3, TakingQuiet
  <2>3. CASE AllocateFresh(k)
    <3>1. call[k].target \in Conversations /\ call[k].by \in Operators
          /\ <<call[k].by, conv[call[k].target].inbox>> \in Subscribed
      BY <1>0, <2>3 DEF AllocateFresh, Placed, TakingInProgress
    <3> QED
      BY <1>1, <2>3, <3>1, GrantReads DEF AllocateFresh
  <2> QED
    BY <1>1, <1>3, <2>1, <2>2, <2>3 DEF Allocate, AllocateQuery
<1>4. CASE Claim(k)
  <2>1. ASSUME NEW o \in Operators, NEW c \in Conversations, ClaimStart(k, o, c)
        PROVE  TakingInv'
    BY <1>2, <2>1 DEF ClaimStart
  <2>2. CASE ClaimRead(k)
    <3>1. call[k].target \in Conversations /\ call[k].by \in Operators
      BY <1>0, <2>2 DEF ClaimRead, Placed
    <3> QED
      BY <1>1, <2>2, <3>1, GrantReads DEF ClaimRead
  <2> QED
    BY <1>4, <2>1, <2>2 DEF Claim
<1> QED
  BY <1>1, <1>3, <1>4 DEF Crash

\* Resolve and reassign build their entity from a row that is taken.
LEMMA ManageTaking ==
  ASSUME TakingInv, NEW k \in Callers, NEW o \in Operators, NEW c \in Conversations,
         Resolve(k, o, c) \/ \E new \in Operators : Reassign(k, o, c, new)
  PROVE  TakingInv'
<1> DEFINE row == conv[c]
<1>1. row.state = "ALLOCATED"
  BY DEF Resolve, MayResolve, Reassign, MayReassign
<1>2. row \in Rows /\ row # NoRow /\ Taken(row)
  BY <1>1, StateOfNoRow DEF TakingInv, TypeOK, QueuedRow, Row, Lifecycle!Row
<1>3. row.assignee \in Operators /\ row.inbox \in Inboxes
  BY <1>2, TakenRow
<1>4. CASE Resolve(k, o, c)
  <2> DEFINE e == Row("RESOLVED", row.assignee, row.inbox)
  <2>1. Read(k, "resolve", o, c, e)
    BY <1>4 DEF Resolve, Serve
  <2>2. e \in Rows /\ Taken(e) /\ e.inbox = row.inbox
    BY <1>2, <1>3, RowType DEF Taken, Row, Lifecycle!Row, States, Lifecycle!States,
                               Rows, Lifecycle!Rows
  <2> HIDE DEF e
  <2> QED
    BY <1>2, <2>1, <2>2, TakingReads
<1>5. ASSUME NEW new \in Operators, Reassign(k, o, c, new) PROVE TakingInv'
  <2> DEFINE e == Row(row.state, new, row.inbox)
  <2>1. Read(k, "reassign", o, c, e)
    BY <1>5 DEF Reassign, Serve
  <2>2. e \in Rows /\ Taken(e) /\ e.inbox = row.inbox
    BY <1>1, <1>2, <1>3, <1>5, RowType
       DEF Reassign, MayReassign, Taken, Row, Lifecycle!Row, States, Lifecycle!States,
           Rows, Lifecycle!Rows
  <2> HIDE DEF e
  <2> QED
    BY <1>2, <2>1, <2>2, TakingReads
<1> QED
  BY <1>4, <1>5

\* What a save does to its row: it was queued and free, and all of it is written
\* by an assignment; or it was taken, and stays so.
LEMMA TakingWrite ==
  ASSUME TakingInv, NEW k \in Callers, SaveWrite(k)
  PROVE  LET c == call[k].target
             r == Overwrite(conv[c], call[k].entity, call[k].dirty)
         IN  /\ c \in Conversations /\ conv[c] # NoRow
             /\ conv' = [conv EXCEPT ![c] = r] /\ Finish(k)
             /\ Taken(r) /\ r.inbox = conv[c].inbox
             /\ r.state = "ALLOCATED" \/ Taken(conv[c])
<1> DEFINE c == call[k].target
           e == call[k].entity
           r == Overwrite(conv[c], e, call[k].dirty)
<1>1. /\ c \in Conversations /\ conv[c] # NoRow
      /\ Taken(e) /\ e.inbox = conv[c].inbox
      /\ {"state", "assignee"} \subseteq call[k].dirty \/ Taken(conv[c])
      /\ e.state = "ALLOCATED" \/ Taken(conv[c])
  BY DEF TakingInv, SaveWrite, Placed, TakingInProgress
<1>2. /\ Taken(r) /\ r.inbox = conv[c].inbox
      /\ r.state = "ALLOCATED" \/ Taken(conv[c])
  BY <1>1 DEF Taken, Overwrite, Row, Lifecycle!Row
<1>3. conv' = [conv EXCEPT ![c] = r] /\ Finish(k)
  BY DEF SaveWrite
<1> QED
  BY <1>1, <1>2, <1>3

\* A save that lost the race writes a row that is taken over the winner's.
LEMMA TakingSaves ==
  ASSUME TakingInv, NEW k \in Callers, SaveLoad(k) \/ SaveWrite(k)
  PROVE  TakingInv'
<1>0. call[k] \in Request /\ Placed(call[k]) /\ TakingInProgress(call[k])
  BY DEF TakingInv, TypeOK
<1>1. Typed'
  BY SaveKeepsType DEF TakingInv, Typed, SaveStep
<1>2. CASE SaveLoad(k)
  <2> DEFINE r == conv[call[k].target]
             q == [call[k] EXCEPT !.pc = "write", !.dirty = Diff(call[k].entity, r)]
  <2>1. q \in Request /\ Placed(q)
    BY <1>0, <1>2 DEF SaveLoad, Request, Placed, Diff, Columns
  <2>2. /\ q.op = call[k].op /\ q.pc = "write" /\ q.entity = call[k].entity
        /\ q.target = call[k].target /\ q.dirty = Diff(call[k].entity, r)
    BY <1>0 DEF Request
  <2>3. /\ Taken(call[k].entity) /\ call[k].entity.inbox = r.inbox /\ r # NoRow
        /\ call[k].entity.state = "ALLOCATED" \/ Taken(r)
        /\ call[k].target \in Conversations
    BY <1>0, <1>2 DEF SaveLoad, TakingInProgress, Placed
  <2>4. ~({"state", "assignee"} \subseteq q.dirty) => Taken(r)
    <3>1. CASE Taken(r)
      BY <3>1
    <3>2. CASE \E i \in Inboxes : r = QueuedRow(i)
      <4>1. r.state = "QUEUED" /\ r.assignee = None
        BY <3>2 DEF QueuedRow, Row, Lifecycle!Row
      <4>2. call[k].entity.state # r.state /\ call[k].entity.assignee # r.assignee
        BY <2>3, <4>1, TakenRow, ColumnTypes, NoneIsNoReference
      <4> QED
        BY <2>2, <4>2 DEF Diff, Columns
    <3> QED
      BY <2>3, <3>1, <3>2 DEF TakingInv
  <2>5. call[k].op \in {"none", "allocate", "claim", "resolve", "reassign"}
    BY <1>0 DEF TakingInProgress
  <2>6. call' = [call EXCEPT ![k] = q] /\ UNCHANGED <<conv, raced>>
    BY <1>2 DEF SaveLoad
  <2> HIDE DEF q
  <2>7. TakingInProgress(q)
    BY <2>2, <2>3, <2>4, <2>5 DEF TakingInProgress
  <2> QED
    BY <2>1, <2>6, <2>7, TakingQuiet DEF TakingInv, TypeOK
<1>3. CASE SaveWrite(k)
  <2> DEFINE c == call[k].target
             r == Overwrite(conv[c], call[k].entity, call[k].dirty)
  <2>1. /\ c \in Conversations /\ conv[c] # NoRow
        /\ conv' = [conv EXCEPT ![c] = r] /\ Finish(k)
        /\ Taken(r) /\ r.inbox = conv[c].inbox
    BY <1>3, TakingWrite
  <2> HIDE DEF c, r
  <2>2. \A d \in Conversations : conv'[d] = IF d = c THEN r ELSE conv[d]
    BY <2>1 DEF TakingInv, TypeOK
  <2>3. \A j \in Callers : TakingInProgress(call[j])'
    <3> SUFFICES ASSUME NEW j \in Callers, j # k PROVE TakingInProgress(call[j])'
      BY <2>1, IdleInProgress DEF Finish, TakingInv, TypeOK, TakingInProgress, Idle
    <3>1. call'[j] = call[j] /\ TakingInProgress(call[j]) /\ Placed(call[j])
      BY <2>1 DEF Finish, TakingInv, TypeOK
    <3>2. CASE call[j].target = c
      BY <2>1, <2>2, <3>1, <3>2, TakenRow DEF TakingInProgress
    <3>3. CASE call[j].target # c
      BY <2>2, <3>1, <3>3 DEF TakingInProgress, Placed
    <3> QED
      BY <3>2, <3>3
  <2> QED
    BY <1>1, <2>1, <2>2, <2>3 DEF TakingInv, Typed
<1> QED
  BY <1>2, <1>3

\* While no request returns a conversation to the queue, however many of them
\* race, a row is new, queued and free, or taken by an operator who is subscribed
\* to its inbox, and what each request is about to write is taken.
THEOREM TakingStaysInScope == TakingSpec => []TakingInv
<1>1. Init => TakingInv
  <2> SUFFICES ASSUME Init PROVE TakingInv
    OBVIOUS
  <2>1. \A k \in Callers : call[k] = Idle
    BY DEF Init, StoreInit
  <2>2. TypeOK
    BY ColumnTypes DEF Init, StoreInit, TypeOK
  <2> QED
    BY <2>1, <2>2, ColumnTypes, IdleInProgress DEF TakingInv, Init, StoreInit
<1>2. TakingInv /\ [TakingNext]_storeVars => TakingInv'
  <2>1. CASE UNCHANGED storeVars
    BY <2>1 DEF storeVars, TakingInv, TypeOK, Placed, TakingInProgress
  <2> QED
    BY <2>1, GrantHandlers, ManageTaking, TakingSaves DEF TakingNext, Taking
<1> QED
  BY <1>1, <1>2, PTL DEF TakingSpec

\* TakingSpec is a part of Spec, so that its rows nobody raced for are what IInv says.
LEMMA TakingIsAllocation == TakingSpec => []IInv
<1>1. TakingNext => Next
  BY DEF TakingNext, Taking, Next, Handle, Manage, SaveStep
<1> QED
  BY <1>1, SectionsExclude, PTL DEF TakingSpec, Spec

\* What one save does to the row of c.
LEMMA TakingStep ==
  ASSUME TakingInv, TakingNext, NEW c \in Conversations
  PROVE  \/ conv'[c] = conv[c]
         \/ /\ Taken(conv'[c])
            /\ conv'[c].state = "ALLOCATED" \/ Taken(conv[c])
            /\ \E k \in Callers : SaveWrite(k) /\ call[k].target = c
<1>1. UNCHANGED conv \/ \E k \in Callers : SaveWrite(k)
  BY DEF TakingNext, Taking, Allocate, AllocateStart, AllocateQuery, AllocateFresh,
         Claim, ClaimStart, ClaimRead, Resolve, Reassign, Serve, Begin, Read,
         SaveLoad, Crash
<1> QED
  BY <1>1, TakingWrite DEF TakingInv, TypeOK

\* A resolved row that nobody raced for is not written: no request may decide to.
LEMMA ResolvedIsLeft ==
  ASSUME IInv, TakingInv, NEW k \in Callers, SaveWrite(k),
         call[k].target \in Conversations \ raced
  PROVE  conv[call[k].target].state # "RESOLVED"
<1>1. call[k].op \in {"none", "allocate", "claim", "resolve", "reassign"}
  BY DEF TakingInv, TakingInProgress
<1>2. Asked(call[k].op, call[k].by, conv[call[k].target], call[k].entity)
  BY DEF IInv, SnapshotIsCurrent, SaveWrite
<1> QED
  BY <1>1, <1>2 DEF Asked, Lifecycle!Allocated, Lifecycle!Claimed, Lifecycle!Resolved,
                    Lifecycle!Reassigned

\* Whoever loses a race overwrites the winner, but a conversation that was taken
\* stays taken, by one operator who is subscribed to its inbox; one that was queued
\* is assigned as a whole or not changed; and only a race reopens a resolved one.
THEOREM TakingRacesAreSound == TakingSpec => RacesLeaveSoundRows
<1> DEFINE Sound(c) ==
      /\ conv[c].state = "QUEUED" =>
           /\ Whole(conv[c])
           /\ conv'[c] = conv[c] \/ (Taken(conv'[c]) /\ conv'[c].state = "ALLOCATED")
      /\ conv[c].state \in {"ALLOCATED", "RESOLVED"} => Taken(conv[c]) /\ Taken(conv'[c])
      /\ conv[c].state = "RESOLVED" => conv'[c] = conv[c] \/ c \in raced
<1>1. ASSUME IInv, TakingInv, TakingNext, NEW c \in Conversations PROVE Sound(c)
  <2>1. CASE conv[c] = NoRow
    BY <2>1, StateOfNoRow
  <2>2. CASE \E i \in Inboxes : conv[c] = QueuedRow(i)
    <3>1. conv[c].state = "QUEUED" /\ Whole(conv[c]) /\ ~Taken(conv[c])
      BY <2>2, TakenRow DEF Whole, QueuedRow, Row, Lifecycle!Row
    <3> QED
      BY <1>1, <3>1, TakingStep
  <2>3. CASE Taken(conv[c])
    <3>1. conv'[c] = conv[c] \/ Taken(conv'[c])
      BY <1>1, TakingStep
    <3>2. conv[c].state = "RESOLVED" => conv'[c] = conv[c] \/ c \in raced
      BY <1>1, TakingStep, ResolvedIsLeft
    <3> QED
      BY <2>3, <3>1, <3>2, TakenRow
  <2> QED
    BY <1>1, <2>1, <2>2, <2>3 DEF TakingInv
<1>2. IInv /\ TakingInv /\ [TakingNext]_storeVars =>
        [\A c \in Conversations : Sound(c)]_storeVars
  BY <1>1
<1> QED
  BY <1>2, TakingIsAllocation, TakingStaysInScope, PTL DEF TakingSpec, RacesLeaveSoundRows
=============================================================================
