------------------------------- MODULE Operators -------------------------------
(***************************************************************************)
(* OperatorsService: operators are created, updated and removed, beside    *)
(* the queue that gives a new operator his first status.  createOperator   *)
(* inserts the row, and calls enqueue() when the INSERT has been answered. *)
(*                                                                         *)
(* A removed operator keeps his row.  updateOperator ends in save(), which *)
(* reads the row again, removed or not, and writes the columns in which    *)
(* the entity it found first differs from it.                              *)
(***************************************************************************)
EXTENDS OperatorStatusQueue

CONSTANTS
  Roles,    \* the values of role, which stands for all that updates change
  Editors   \* updateOperator requests in progress at the same time

ASSUME NoneIsNoPerson == None \notin [role : Roles, deleted : BOOLEAN]

VARIABLES
  person,    \* person[o]: row o of operators, or None
  creating,  \* operators whose INSERT is done and whose job is not queued yet
  edit       \* edit[p]: the update request p

operatorVars == <<memory, outcome, failed, restarts, person, creating, edit>>

Persons == [role : Roles, deleted : BOOLEAN]

Columns == {"role", "deleted"}

NoEdit == [pc |-> "idle"]

OperatorsInit ==
  /\ Init
  /\ person = [o \in Operators |-> None]
  /\ creating = {}
  /\ edit = [p \in Editors |-> NoEdit]

Active(o)  == person[o] # None /\ ~person[o].deleted
Removed(o) == person[o] # None /\ person[o].deleted

-----------------------------------------------------------------------------
\* Mutant of InsertOperator: createOperator does not wait for the INSERT.
InsertOperatorUnawaited(o, role) ==
  /\ person[o] = None
  /\ creating' = creating \cup {o}
  /\ UNCHANGED <<vars, person, edit>>

\* POST /operators
InsertOperator(o, role) ==
  /\ person[o] = None
  /\ person' = [person EXCEPT ![o] = [role |-> role, deleted |-> FALSE]]
  /\ creating' = creating \cup {o}
  /\ UNCHANGED <<vars, edit>>

\* Mutant of EnqueueCreated: no job is queued while the loop is running.
EnqueueCreatedWhenStopped(o) ==
  /\ o \in creating
  /\ IF memory.isRunning THEN UNCHANGED vars ELSE Enqueue(o)
  /\ creating' = creating \ {o}
  /\ UNCHANGED <<person, edit>>

EnqueueCreated(o) ==
  /\ o \in creating
  /\ Enqueue(o)
  /\ creating' = creating \ {o}
  /\ UNCHANGED <<person, edit>>

\* Mutant of FindOperator: a removed operator is found too.
FindOperatorRemoved(p, o, role) ==
  /\ edit[p] = NoEdit
  /\ person[o] # None
  /\ edit' = [edit EXCEPT ![p] =
                [pc |-> "load", operator |-> o, row |-> [role |-> role, deleted |-> FALSE]]]
  /\ UNCHANGED <<vars, person, creating>>

\* PATCH /operators/:id
FindOperator(p, o, role) ==
  /\ edit[p] = NoEdit
  /\ Active(o)
  /\ edit' = [edit EXCEPT ![p] =
                [pc |-> "load", operator |-> o, row |-> [role |-> role, deleted |-> FALSE]]]
  /\ UNCHANGED <<vars, person, creating>>

LoadOperator(p) ==
  LET dirty == {f \in Columns : edit[p].row[f] # person[edit[p].operator][f]} IN
  /\ edit[p].pc = "load"
  /\ edit' = [edit EXCEPT ![p] =
                IF dirty = {} THEN NoEdit
                ELSE [pc |-> "write", operator |-> @.operator, row |-> @.row,
                      dirty |-> dirty]]
  /\ UNCHANGED <<vars, person, creating>>

WriteOperator(p) ==
  /\ edit[p].pc = "write"
  /\ person' = [person EXCEPT ![edit[p].operator] =
                  [f \in Columns |-> IF f \in edit[p].dirty THEN edit[p].row[f] ELSE @[f]]]
  /\ edit' = [edit EXCEPT ![p] = NoEdit]
  /\ UNCHANGED <<vars, creating>>

\* DELETE /operators/:id is one statement.  The operator's job, his status and
\* his conversations are left as they are.
RemoveOperator(o) ==
  /\ Active(o)
  /\ person' = [person EXCEPT ![o].deleted = TRUE]
  /\ UNCHANGED <<vars, creating, edit>>

-----------------------------------------------------------------------------
\* The process is restarted: the requests in progress are lost with the queue.
RestartAll ==
  /\ Restart
  /\ creating' = {}
  /\ edit' = [p \in Editors |-> NoEdit]
  /\ UNCHANGED person

QueueStep ==
  /\ \/ HandleJob
     \/ LoopEnded
     \/ \E job \in Jobs : TimerFires(job)
  /\ UNCHANGED <<person, creating, edit>>

OperatorsNext ==
  \/ \E o \in Operators :
       \/ \E role \in Roles : InsertOperator(o, role)
       \/ EnqueueCreated(o)
       \/ RemoveOperator(o)
  \/ \E p \in Editors :
       \/ \E o \in Operators, role \in Roles : FindOperator(p, o, role)
       \/ LoadOperator(p)
       \/ WriteOperator(p)
  \/ QueueStep
  \/ RestartAll

\* The fairness of the queue, and the answer of the INSERT is received.
OperatorsFairness ==
  /\ Fairness
  /\ \A o \in Operators : WF_operatorVars(EnqueueCreated(o))

OperatorsSpec == OperatorsInit /\ [][OperatorsNext]_operatorVars /\ OperatorsFairness

-----------------------------------------------------------------------------
\* As long as the process is not restarted, every operator who is created is
\* given his first status in the end, or MaxAttempts attempts at it have failed.
NewOperatorGetsStatus ==
  \A o \in Operators :
    person[o] # None ~> outcome[o] \in {"done", "dropped"} \/ restarts > 0

\* The updates in progress that have found operator o.
EditorsOf(o) == {p \in Editors : edit[p] # NoEdit /\ edit[p].operator = o}

Edits ==
  {NoEdit}
    \cup [pc : {"load"}, operator : Operators, row : Persons]
    \cup [pc : {"write"}, operator : Operators, row : Persons, dirty : SUBSET Columns]

\* Type invariant of the rows and of the requests in progress.
OperatorsTypeOK ==
  /\ person \in [Operators -> Persons \cup {None}]
  /\ creating \subseteq {o \in Operators : person[o] # None}
  /\ edit \in [Editors -> Edits]

\* The row of a removed operator changes, and he comes back, only by an update that
\* had found him before, at most once by each and when it ends.  No update finds
\* him any more; when none that had is left, he stays as he is.
RemovedOperatorsStay ==
  [][\A o \in Operators :
       Removed(o) =>
         /\ EditorsOf(o)' \subseteq EditorsOf(o)
         /\ person'[o] # person[o] => EditorsOf(o)' # EditorsOf(o)]_operatorVars
=============================================================================
