------------------------------ MODULE GracePeriod ------------------------------
(***************************************************************************)
(* Operators going offline and coming back, beside the requests of         *)
(* Allocation: OperatorStatusService.setStatus, which starts or ends grace *)
(* periods, and GracePeriodService.processExpiredGracePeriods, the sweep   *)
(* that the scheduler runs every 30 seconds and POST /grace-period/process *)
(* runs on demand, and that releases the conversations of expired ones.    *)
(*                                                                         *)
(* A set-status request and a sweep are several statements each, outside   *)
(* any transaction.  A sweep is a caller of ConversationStore: it reads    *)
(* and saves the rows of conversations the way every handler does.         *)
(***************************************************************************)
EXTENDS Allocation

CONSTANTS
  Clients,      \* callers that serve requests of Allocation
  Sweepers,     \* callers that run sweeps; more than one when runs overlap
  Setters,      \* set-status requests in progress at the same time
  StatusRows,   \* ids of operator_statuses rows; bounds the rows of an operator
  MaxCrashes    \* bound on set-status requests and sweeps lost half-way

ASSUME CallersAreClientsAndSweepers ==
  Callers = Clients \cup Sweepers /\ Clients \cap Sweepers = {}
ASSUME MaxCrashesIsNat == MaxCrashes \in Nat
ASSUME NoneIsNoStatusRow == None \notin StatusRows
ASSUME StatusRowsAreFinite == IsFiniteSet(StatusRows)

VARIABLES
  status,    \* status[o][r]: row r of operator o in operator_statuses
  grace,     \* grace[<<c, o>>]: the grace_period_assignments row of c and o
  setting,   \* setting[p]: the set-status request p
  sweep,     \* sweep[s]: the run of sweeper s
  crashes,   \* set-status requests and sweeps lost so far
  late,      \* history: conversations given to an operator who was OFFLINE
  mixed      \* history: operators with parts of several set-status requests in force,
             \* because one was lost half-way or overlapped another, and no AVAILABLE
             \* request on its own has cleared their entries since

graceVars == <<conv, call, raced, status, grace, setting, sweep, crashes, late, mixed>>

Entries == Conversations \X Operators

NoSetting == [pc |-> "idle", by |-> None, to |-> "ABSENT", row |-> None, found |-> {}]
NoSweep   == [pc |-> "idle", todo |-> {}, entry |-> <<>>, gone |-> {}]

HasRow(o)    == \E r \in StatusRows : status[o][r] # "ABSENT"
Available(o) == (\E r \in StatusRows : status[o][r] = "AVAILABLE") \/ ~HasRow(o)
Offline(o)   == \E r \in StatusRows : status[o][r] = "OFFLINE"

Owns(o, c) == conv[c].state = "ALLOCATED" /\ conv[c].assignee = o

InProgress(o) == {p \in Setters : setting[p].pc # "idle" /\ setting[p].by = o}

GraceInit ==
  /\ Init
  /\ status = [o \in Operators |-> [r \in StatusRows |-> "ABSENT"]]
  /\ grace = [e \in Entries |-> "none"]
  /\ setting = [p \in Setters |-> NoSetting]
  /\ sweep = [s \in Sweepers |-> NoSweep]
  /\ crashes = 0
  /\ late = {}
  /\ mixed = {}

-----------------------------------------------------------------------------
(* Requests of Allocation: allocate and claim start by reading the caller's *)
(* status row, any one of them if there are several.                        *)

EnsureOperatorAvailable(k) ==
  (call[k] = Idle /\ call'[k].op \in {"allocate", "claim"}) => Available(call'[k].by)

Serving(k) ==
  /\ Handle(k)
  /\ EnsureOperatorAvailable(k)
  /\ UNCHANGED <<status, grace, setting, sweep, crashes, mixed>>

-----------------------------------------------------------------------------
(* POST /operator-status/me, and the jobs of OperatorStatusQueue *)

\* The request for o to become v finds o's status row, or that there is none.
SetStart(p, o, v) ==
  /\ setting[p] = NoSetting
  /\ \E row \in StatusRows \cup {None} :
       /\ IF row = None
            THEN /\ ~HasRow(o)
                 /\ Cardinality(InProgress(o)) < Cardinality(StatusRows)
            ELSE status[o][row] # "ABSENT"
       /\ setting' = [setting EXCEPT ![p] =
                        [pc |-> "save", by |-> o, to |-> v, row |-> row, found |-> {}]]
  /\ mixed' = IF InProgress(o) # {} THEN mixed \cup {o}
              ELSE IF v = "AVAILABLE" THEN mixed \ {o} ELSE mixed
  /\ UNCHANGED <<conv, call, raced, status, grace, sweep, crashes>>

\* Mutant of SetSave: an operator who becomes AVAILABLE keeps his grace entries.
SetSaveKeepsGrace(p) ==
  LET o == setting[p].by IN
  /\ setting[p].pc = "save"
  /\ \E row \in StatusRows :
       /\ IF setting[p].row = None THEN status[o][row] = "ABSENT" ELSE row = setting[p].row
       /\ status' = [status EXCEPT ![o][row] = setting[p].to]
  /\ setting' = [setting EXCEPT ![p] =
                   IF @.to = "OFFLINE" THEN [@ EXCEPT !.pc = "find"] ELSE NoSetting]
  /\ UNCHANGED <<conv, call, raced, grace, sweep, crashes, mixed>>

\* Mutant of SetSave: a status that is already what was asked for is not set again.
SetSaveWhenChanged(p) ==
  LET o == setting[p].by IN
  /\ setting[p].pc = "save"
  /\ \E row \in StatusRows :
       /\ IF setting[p].row = None THEN status[o][row] = "ABSENT" ELSE row = setting[p].row
       /\ status' = [status EXCEPT ![o][row] = setting[p].to]
  /\ setting' = [setting EXCEPT ![p] =
                   IF status' = status THEN NoSetting
                   ELSE [@ EXCEPT !.pc = IF setting[p].to = "OFFLINE" THEN "find" ELSE "delete"]]
  /\ UNCHANGED <<conv, call, raced, grace, sweep, crashes, mixed>>

SetSave(p) ==
  LET o == setting[p].by IN
  /\ setting[p].pc = "save"
  /\ \E row \in StatusRows :
       /\ IF setting[p].row = None
            THEN status[o][row] = "ABSENT"
            ELSE row = setting[p].row
       /\ status' = [status EXCEPT ![o][row] = setting[p].to]
  /\ setting' = [setting EXCEPT ![p].pc =
                   IF setting[p].to = "OFFLINE" THEN "find" ELSE "delete"]
  /\ UNCHANGED <<conv, call, raced, grace, sweep, crashes, mixed>>

\* OFFLINE: the conversations allocated to the operator ...
SetFind(p) ==
  LET found == {c \in Conversations : Owns(setting[p].by, c)} IN
  /\ setting[p].pc = "find"
  /\ setting' = [setting EXCEPT ![p] =
                   IF found = {} THEN NoSetting ELSE [@ EXCEPT !.pc = "upsert", !.found = found]]
  /\ UNCHANGED <<conv, call, raced, status, grace, sweep, crashes, mixed>>

\* Mutant of SetUpsertGrace: the entries are stored without expires_at.
SetUpsertGraceWithoutExpiry(p) ==
  /\ setting[p].pc = "upsert"
  /\ grace' = [e \in Entries |->
                 IF e[1] \in setting[p].found /\ e[2] = setting[p].by
                   THEN None ELSE grace[e]]
  /\ setting' = [setting EXCEPT ![p] = NoSetting]
  /\ UNCHANGED <<conv, call, raced, status, sweep, crashes, mixed>>

\* ... get a grace entry each; an entry that exists keeps its id and is renewed.
SetUpsertGrace(p) ==
  /\ setting[p].pc = "upsert"
  /\ grace' = [e \in Entries |->
                 IF e[1] \in setting[p].found /\ e[2] = setting[p].by
                   THEN "running" ELSE grace[e]]
  /\ setting' = [setting EXCEPT ![p] = NoSetting]
  /\ UNCHANGED <<conv, call, raced, status, sweep, crashes, mixed>>

\* Mutant of SetDeleteGrace: only entries that have not expired are deleted.
SetDeleteRunningGrace(p) ==
  LET gone == {e \in Entries : e[2] = setting[p].by /\ grace[e] # "expired"} IN
  /\ setting[p].pc = "delete"
  /\ grace' = [e \in Entries |-> IF e \in gone THEN "none" ELSE grace[e]]
  /\ sweep' = [s \in Sweepers |->
                 IF sweep[s].pc = "idle" THEN sweep[s]
                 ELSE [sweep[s] EXCEPT !.gone = @ \cup gone]]
  /\ setting' = [setting EXCEPT ![p] = NoSetting]
  /\ UNCHANGED <<conv, call, raced, status, crashes, mixed>>

\* AVAILABLE: all entries of the operator are deleted.  An id is never used
\* again, so a sweep that has listed one of them can no longer delete it.
SetDeleteGrace(p) ==
  LET gone == {e \in Entries : e[2] = setting[p].by} IN
  /\ setting[p].pc = "delete"
  /\ grace' = [e \in Entries |-> IF e \in gone THEN "none" ELSE grace[e]]
  /\ sweep' = [s \in Sweepers |->
                 IF sweep[s].pc = "idle" THEN sweep[s]
                 ELSE [sweep[s] EXCEPT !.gone = @ \cup gone]]
  /\ setting' = [setting EXCEPT ![p] = NoSetting]
  /\ UNCHANGED <<conv, call, raced, status, crashes, mixed>>

\* The request is lost between two of its statements.
SetCrash(p) ==
  /\ setting[p].pc # "idle"
  /\ crashes < MaxCrashes
  /\ crashes' = crashes + 1
  /\ setting' = [setting EXCEPT ![p] = NoSetting]
  /\ mixed' = mixed \cup {setting[p].by}
  /\ UNCHANGED <<conv, call, raced, status, grace, sweep>>

SetStatus(p) == SetSave(p) \/ SetFind(p) \/ SetUpsertGrace(p) \/ SetDeleteGrace(p)

-----------------------------------------------------------------------------
(* Time, and the sweep *)

\* expires_at passes.
GraceExpires(e) ==
  /\ grace[e] = "running"
  /\ grace' = [grace EXCEPT ![e] = "expired"]
  /\ UNCHANGED <<conv, call, raced, status, setting, sweep, crashes, mixed>>

Expired == {e \in Entries : grace[e] = "expired"}

\* The sweep lists the expired entries, once.
SweepStart(s) ==
  /\ sweep[s] = NoSweep
  /\ Expired # {}
  /\ sweep' = [sweep EXCEPT ![s] = [NoSweep EXCEPT !.pc = "list", !.todo = Expired]]
  /\ UNCHANGED <<conv, call, raced, status, grace, setting, crashes, mixed>>

\* Mutant of SweepRead: an entry whose conversation has gone elsewhere is skipped.
SweepReadSkips(s) ==
  /\ sweep[s].pc = "list"
  /\ \E e \in sweep[s].todo :
       IF Owns(e[2], e[1])
         THEN /\ sweep' = [sweep EXCEPT ![s].pc = "entry", ![s].entry = e, ![s].todo = @ \ {e}]
              /\ Read(s, "sweep", e[2], e[1], Row("QUEUED", None, conv[e[1]].inbox))
         ELSE /\ sweep' = [sweep EXCEPT ![s] =
                             IF @.todo = {e} THEN NoSweep ELSE [@ EXCEPT !.todo = @ \ {e}]]
              /\ UNCHANGED <<conv, call, raced>>
  /\ UNCHANGED <<status, grace, setting, crashes, mixed>>

\* Mutant of SweepRead: the entry is deleted, the conversation is not released.
SweepReadKeeps(s) ==
  /\ sweep[s].pc = "list"
  /\ \E e \in sweep[s].todo :
       sweep' = [sweep EXCEPT ![s].pc = "entry", ![s].entry = e, ![s].todo = @ \ {e}]
  /\ UNCHANGED <<conv, call, raced, status, grace, setting, crashes, mixed>>

\* For the next entry it reads the conversation, and releases it if it is
\* still allocated to the entry's operator.  The operator's status is not read.
SweepRead(s) ==
  /\ sweep[s].pc = "list"
  /\ \E e \in sweep[s].todo :
       /\ sweep' = [sweep EXCEPT ![s].pc = "entry", ![s].entry = e,
                                 ![s].todo = @ \ {e}]
       /\ IF Owns(e[2], e[1])
            THEN Read(s, "sweep", e[2], e[1], Row("QUEUED", None, conv[e[1]].inbox))
            ELSE UNCHANGED <<conv, call, raced>>
  /\ UNCHANGED <<status, grace, setting, crashes, mixed>>

SweepSave(s) ==
  /\ SaveStep(s)
  /\ UNCHANGED <<status, grace, setting, sweep, crashes, mixed>>

\* Mutant of SweepDelete: the entry is deleted by conversation and operator.
SweepDeleteByKey(s) ==
  /\ sweep[s].pc = "entry"
  /\ call[s] = Idle
  /\ grace' = [grace EXCEPT ![sweep[s].entry] = "none"]
  /\ sweep' = [sweep EXCEPT ![s] =
                 IF @.todo = {} THEN NoSweep ELSE [@ EXCEPT !.pc = "list", !.entry = <<>>]]
  /\ UNCHANGED <<conv, call, raced, status, setting, crashes, mixed>>

\* When the conversation is dealt with, the entry is deleted by its id.
SweepDelete(s) ==
  LET e == sweep[s].entry IN
  /\ sweep[s].pc = "entry"
  /\ call[s] = Idle
  /\ grace' = [grace EXCEPT ![e] = IF e \in sweep[s].gone THEN @ ELSE "none"]
  /\ sweep' = [t \in Sweepers |->
                 IF t = s
                   THEN IF sweep[s].todo = {} THEN NoSweep
                        ELSE [sweep[s] EXCEPT !.pc = "list", !.entry = <<>>]
                 ELSE IF sweep[t].pc = "idle" \/ e \in sweep[s].gone THEN sweep[t]
                 ELSE [sweep[t] EXCEPT !.gone = @ \cup {e}]]
  /\ UNCHANGED <<conv, call, raced, status, setting, crashes, mixed>>

\* The run is lost between two of its statements, or one of them fails: the
\* entries it has not come to are left for the next run.
SweepCrash(s) ==
  /\ sweep[s].pc # "idle"
  /\ crashes < MaxCrashes
  /\ crashes' = crashes + 1
  /\ sweep' = [sweep EXCEPT ![s] = NoSweep]
  /\ Finish(s)
  /\ UNCHANGED <<conv, raced, status, grace, setting, mixed>>

Sweep(s) == SweepStart(s) \/ SweepRead(s) \/ SweepSave(s) \/ SweepDelete(s)

-----------------------------------------------------------------------------
\* A conversation is late while it is with an operator who was OFFLINE when he
\* got it: the OFFLINE request that would have noted it had already looked.
Watch ==
  late' = {c \in Conversations :
             /\ conv'[c].state = "ALLOCATED"
             /\ IF Owns(conv'[c].assignee, c) THEN c \in late
                ELSE conv'[c].assignee \in Operators /\ Offline(conv'[c].assignee)}

GraceNext ==
  /\ \/ \E k \in Clients : Serving(k)
     \/ \E p \in Setters :
          \/ \E o \in Operators, v \in {"AVAILABLE", "OFFLINE"} : SetStart(p, o, v)
          \/ SetStatus(p)
          \/ SetCrash(p)
     \/ \E e \in Entries : GraceExpires(e)
     \/ \E s \in Sweepers : Sweep(s) \/ SweepCrash(s)
  /\ Watch

\* The event loop runs every started request and sweep on; the scheduler
\* starts a sweep again and again; time passes.  Clients may stop at will.
GraceFairness ==
  /\ \A p \in Setters : WF_graceVars(SetStatus(p) /\ Watch)
  /\ \A s \in Sweepers : WF_graceVars(Sweep(s) /\ Watch)
  /\ \A e \in Entries : WF_graceVars(GraceExpires(e) /\ Watch)

GraceSafetySpec == GraceInit /\ [][GraceNext]_graceVars

GraceSpec == GraceSafetySpec /\ GraceFairness

-----------------------------------------------------------------------------
\* Type invariant of the status and grace tables, the set-status requests, the
\* sweeps and the histories, beside that of the conversations.
GraceTypeOK ==
  /\ TypeOK
  /\ status \in [Operators -> [StatusRows -> {"ABSENT", "AVAILABLE", "OFFLINE"}]]
  /\ grace \in [Entries -> {"none", "running", "expired"}]
  /\ setting \in [Setters ->
       [pc : {"idle", "save", "find", "upsert", "delete"}, by : Operators \cup {None},
        to : {"ABSENT", "AVAILABLE", "OFFLINE"}, row : StatusRows \cup {None},
        found : SUBSET Conversations]]
  /\ sweep \in [Sweepers ->
       [pc : {"idle", "list", "entry"}, todo : SUBSET Entries,
        entry : Entries \cup {<<>>}, gone : SUBSET Entries]]
  /\ crashes \in 0 .. MaxCrashes
  /\ late \subseteq Conversations
  /\ mixed \subseteq Operators

\* The last set-status request of o has been carried out in full, on his only
\* status row.  An OFFLINE request alone does not make up for a lost AVAILABLE
\* one: a sweep that had listed the entry left behind deletes it by its id, which
\* the OFFLINE request renews and does not change.
Settled(o) ==
  /\ InProgress(o) = {}
  /\ o \notin mixed
  /\ Cardinality({r \in StatusRows : status[o][r] # "ABSENT"}) <= 1

\* Nothing is going to be taken from an operator whose last status request, an
\* AVAILABLE one, has been carried out: he has no grace entry left, whatever
\* became of the requests before it.
AvailableHasNoGrace ==
  \A o \in Operators : Settled(o) /\ Available(o) =>
    \A c \in Conversations : grace[<<c, o>>] = "none"

\* Every conversation an OFFLINE operator still holds has a grace entry that
\* will release it, whatever sweeps are doing meanwhile, unless he got it when
\* he was OFFLINE already or two sections overlapped on it.
OfflineHasGrace ==
  \A o \in Operators, c \in Conversations :
    Settled(o) /\ Offline(o) /\ Owns(o, c) /\ c \notin raced \cup late =>
      grace[<<c, o>>] # "none"

\* The sweep does not read the status of the operator it takes a conversation from.
\* Yet he is OFFLINE all the time from its read to its save, unless the entry has been
\* deleted, by his AVAILABLE request or another sweep, since the sweep listed it.
ReleasesAreOfOffline ==
  \A s \in Sweepers :
    LET o == call[s].by IN
    /\ call[s] # Idle
    /\ Settled(o)
    /\ <<call[s].target, o>> \notin sweep[s].gone
    => Offline(o)

\* So no such conversation stays with an operator who stays OFFLINE.
NotStuck ==
  \A o \in Operators, c \in Conversations :
    []<> ~(Settled(o) /\ Offline(o) /\ Owns(o, c) /\ c \notin raced \cup late)

\* An entry that has expired is deleted or renewed in the end, although sweeps
\* overlap, work from lists that have grown stale, and are lost half-way.
ExpiredIsProcessed ==
  \A e \in Entries : grace[e] = "expired" ~> grace[e] # "expired"
=============================================================================
