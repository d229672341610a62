--------------------------- MODULE GracePeriodProofs ---------------------------
(***************************************************************************)
(* Theorems about GracePeriod, for every set of conversations, operators,  *)
(* clients, sweepers and set-status requests, and any number of rows of an *)
(* operator in operator_statuses.                                          *)
(*                                                                         *)
(* An operator is orderly while he has one status row at most and parts of *)
(* one request only are in force.  The argument is about what a sweep that *)
(* holds a stale list may still delete: as long as an orderly operator has *)
(* sent no AVAILABLE request since, he has been OFFLINE all the time, so   *)
(* the conversation the sweep found gone is not given back to him, except  *)
(* late; and an AVAILABLE request deletes the entry first, so that the     *)
(* sweep's id is no longer the id of any entry.                            *)
(***************************************************************************)
EXTENDS GracePeriod, AllocationProofs, FiniteSetTheorems

Orderly(o) ==
  /\ o \notin mixed
  /\ \A r, q \in StatusRows : status[o][r] # "ABSENT" /\ status[o][q] # "ABSENT" => r = q

\* An AVAILABLE request of o is in progress.
Returning(o) == \E p \in InProgress(o) : setting[p].to = "AVAILABLE"

\* c is one of the conversations of o that must have an entry when he is OFFLINE.
Due(o, c) == Owns(o, c) /\ c \notin raced \cup late

OneAtATime == \A o \in Operators \ mixed : \A p, q \in InProgress(o) : p = q

\* How far a request has come, and what it has found.
Phase(p) ==
  LET o == setting[p].by IN
  /\ setting[p].pc # "idle" => o \in Operators /\ setting[p].to # "ABSENT"
  /\ setting[p].pc \in {"find", "upsert"} =>
       setting[p].to = "OFFLINE" /\ (o \notin mixed => Offline(o))
  /\ setting[p].pc = "delete" =>
       /\ setting[p].to = "AVAILABLE"
       /\ o \notin mixed => \E r \in StatusRows : status[o][r] = "AVAILABLE"
  /\ setting[p].pc = "upsert" /\ o \notin mixed =>
       \A c \in Conversations : Due(o, c) => c \in setting[p].found

Phases == \A p \in Setters : Phase(p)

EntriesOfOffline ==
  \A e \in Entries :
    Orderly(e[2]) /\ ~Returning(e[2]) /\ grace[e] # "none" => Offline(e[2])

\* The entries that sweep s may still delete.
ListedBy(s) ==
  IF sweep[s].pc = "idle" THEN {}
  ELSE (sweep[s].todo \cup {e \in Entries : sweep[s].pc = "entry" /\ sweep[s].entry = e})
         \ sweep[s].gone

ListedOfOffline ==
  \A s \in Sweepers : \A e \in ListedBy(s) :
    Orderly(e[2]) /\ ~Returning(e[2]) => Offline(e[2])

\* The entry a sweep is about to delete is of no use to anybody.
ProcessedIsFree ==
  \A s \in Sweepers : \A e \in ListedBy(s) :
    sweep[s].pc = "entry" /\ sweep[s].entry = e /\ call[s] = Idle =>
      (Orderly(e[2]) /\ ~Returning(e[2]) => ~Due(e[2], e[1]))

\* What a sweep saves is the release of the conversation of its entry.
SweepsRelease ==
  \A s \in Sweepers :
    /\ sweep[s].pc = "entry" => sweep[s].entry \in Entries
    /\ call[s] # Idle =>
         /\ sweep[s].pc = "entry"
         /\ call[s].op = "sweep"
         /\ call[s].by = sweep[s].entry[2]
         /\ call[s].target = sweep[s].entry[1]

DueHaveGrace ==
  \A o \in Operators, c \in Conversations :
    Orderly(o) /\ InProgress(o) = {} /\ Offline(o) /\ Due(o, c) => grace[<<c, o>>] # "none"

\* The inductive invariant.
GraceInv ==
  /\ IInv
  /\ GraceTypeOK
  /\ OneAtATime
  /\ Phases
  /\ EntriesOfOffline
  /\ ListedOfOffline
  /\ ProcessedIsFree
  /\ SweepsRelease
  /\ DueHaveGrace

-----------------------------------------------------------------------------
(* What the rest of the argument takes from one step. *)

\* A conversation that is due was due before, or was given to an operator who
\* was not OFFLINE.
LEMMA WatchLemma ==
  ASSUME TypeOK, TypeOK', Watch, raced \subseteq raced',
         NEW o \in Operators, NEW c \in Conversations, Due(o, c)'
  PROVE  Due(o, c) \/ (~Owns(o, c) /\ ~Offline(o))
<1>1. conv'[c].state = "ALLOCATED" /\ conv'[c].assignee = o /\ c \notin late' /\ c \notin raced'
  BY DEF Due, Owns
<1>2. ~(IF Owns(o, c) THEN c \in late ELSE Offline(o))
  BY <1>1 DEF Watch
<1> QED
  BY <1>1, <1>2 DEF Due

\* A step that leaves conversations alone makes nothing due.
LEMMA WatchQuiet ==
  ASSUME TypeOK, Watch, conv' = conv, raced' = raced,
         NEW o \in Operators, NEW c \in Conversations
  PROVE  Due(o, c)' => Due(o, c)
  BY DEF Due, Owns, Watch

LEMMA WatchType ==
  ASSUME Watch
  PROVE  late' \subseteq Conversations
  BY DEF Watch

\* A step that leaves status, entries and requests alone keeps what is not
\* about sweeps.
LEMMA StatusFrame ==
  ASSUME GraceInv, TypeOK', Watch, raced \subseteq raced',
         UNCHANGED <<status, setting, mixed>>,
         \A e \in Entries : grace'[e] # "none" => grace[e] # "none",
         \A e \in Entries : grace[e] # "none" /\ grace'[e] = "none" =>
           (Orderly(e[2]) /\ ~Returning(e[2]) => ~Due(e[2], e[1]))
  PROVE  OneAtATime' /\ Phases' /\ EntriesOfOffline' /\ DueHaveGrace'
<1>1. \A o : /\ InProgress(o)' = InProgress(o)
             /\ Orderly(o)' <=> Orderly(o)
             /\ Returning(o)' <=> Returning(o)
             /\ Offline(o)' <=> Offline(o)
  BY DEF InProgress, Orderly, Returning, Offline
<1>2. \A o \in Operators, c \in Conversations :
        Due(o, c)' => Due(o, c) \/ (~Owns(o, c) /\ ~Offline(o))
  BY WatchLemma DEF GraceInv, IInv
<1>3. OneAtATime'
  BY <1>1 DEF GraceInv, OneAtATime
<1>4. Phases'
  BY <1>1, <1>2 DEF GraceInv, Phases, Phase
<1>5. EntriesOfOffline'
  BY <1>1 DEF GraceInv, EntriesOfOffline
<1>6. DueHaveGrace'
  <2> SUFFICES ASSUME NEW o \in Operators, NEW c \in Conversations,
                      Orderly(o), InProgress(o) = {}, Offline(o), Due(o, c)'
               PROVE  grace'[<<c, o>>] # "none"
    BY <1>1 DEF DueHaveGrace
  <2>1. Due(o, c) /\ grace[<<c, o>>] # "none"
    BY <1>2 DEF GraceInv, DueHaveGrace
  <2>2. <<c, o>> \in Entries /\ ~Returning(o)
    BY DEF Entries, Returning
  <2> QED
    BY <2>1, <2>2
<1> QED
  BY <1>3, <1>4, <1>5, <1>6

\* A sweep whose list, entry and call are left alone is where it was.
LEMMA SweepFrame ==
  ASSUME GraceInv, TypeOK', Watch, raced \subseteq raced',
         NEW s \in Sweepers, sweep'[s] = sweep[s], call'[s] = call[s],
         \A e \in Entries : Orderly(e[2])' /\ ~Returning(e[2])' =>
           Orderly(e[2]) /\ ~Returning(e[2]) /\ (Offline(e[2]) => Offline(e[2])')
  PROVE  /\ \A e \in ListedBy(s)' : Orderly(e[2])' /\ ~Returning(e[2])' => Offline(e[2])'
         /\ \A e \in ListedBy(s)' :
              sweep'[s].pc = "entry" /\ sweep'[s].entry = e /\ call'[s] = Idle =>
                (Orderly(e[2])' /\ ~Returning(e[2])' => ~Due(e[2], e[1])')
<1>1. ListedBy(s)' = ListedBy(s) /\ ListedBy(s) \subseteq Entries
  BY DEF ListedBy, GraceInv, GraceTypeOK
<1>2. ASSUME NEW e \in ListedBy(s), Orderly(e[2])', ~Returning(e[2])' PROVE Offline(e[2])
  BY <1>1, <1>2 DEF GraceInv, ListedOfOffline
<1>3. ASSUME NEW e \in ListedBy(s), Orderly(e[2])', ~Returning(e[2])',
             sweep[s].pc = "entry", sweep[s].entry = e, call[s] = Idle
      PROVE  ~Due(e[2], e[1])'
  <2>1. ~Due(e[2], e[1]) /\ Offline(e[2])
    BY <1>1, <1>2, <1>3 DEF GraceInv, ProcessedIsFree
  <2>2. e[2] \in Operators /\ e[1] \in Conversations
    BY <1>1 DEF Entries
  <2> QED
    BY <2>1, <2>2, WatchLemma DEF GraceInv, IInv
<1> QED
  BY <1>1, <1>2, <1>3

-----------------------------------------------------------------------------
(* Requests of clients, time, and sweeps. *)

\* What a sweep saves it has read as its operator's.
LEMMA ReleaseIsAsked ==
  ASSUME TypeOK, NEW o \in Operators, NEW c \in Conversations, Owns(o, c)
  PROVE  /\ conv[c] # NoRow
         /\ Row("QUEUED", None, conv[c].inbox) \in Rows
         /\ Asked("sweep", o, conv[c], Row("QUEUED", None, conv[c].inbox))
<1>1. conv[c].state = "ALLOCATED" /\ conv[c].assignee = o /\ conv[c] \in Rows
  BY DEF Owns, TypeOK
<1>2. Asked("sweep", o, conv[c], Row("QUEUED", None, conv[c].inbox))
  BY <1>1 DEF Asked, Row, Lifecycle!Released
<1> QED
  BY <1>1, <1>2, EntityType, StateOfNoRow

LEMMA HandleIsOfAKind ==
  ASSUME IInv, NEW k \in Callers, Handle(k) \/ SaveStep(k)
  PROVE  Quiet(k) \/ Opens(k) \/ SaveStep(k)
<1>1. CASE Crash(k)
  BY <1>1, FinishIsQuiet DEF Crash
<1> QED
  BY <1>1, AllocateSteps, ClaimSteps, ManageSteps, IngestSteps DEF Handle, IInv, Typed

\* A request that is served changes its own call only.
LEMMA HandleEffect ==
  ASSUME IInv, NEW k \in Callers, Handle(k) \/ SaveStep(k)
  PROVE  /\ IInv'
         /\ raced \subseteq raced'
         /\ \A j \in Callers \ {k} : call'[j] = call[j]
<1>1. Quiet(k) \/ Opens(k) \/ SaveStep(k)
  BY HandleIsOfAKind
<1>2. CASE Quiet(k)
  BY <1>2, QuietKeepsInv DEF Quiet, IInv, TypeOK
<1>3. CASE Opens(k)
  BY <1>3, ReadKeepsInv DEF Opens, Read, IInv, TypeOK
<1>4. CASE SaveStep(k)
  BY <1>4, SaveKeepsInv DEF SaveStep, SaveLoad, SaveWrite, SaveInsert, Finish, IInv, TypeOK
<1> QED
  BY <1>1, <1>2, <1>3, <1>4

\* A request of a client is no business of the sweeps.
LEMMA ServingKeeps ==
  ASSUME GraceInv, NEW k \in Clients, Serving(k), Watch
  PROVE  GraceInv'
<1>1. k \in Callers /\ k \notin Sweepers /\ Sweepers \subseteq Callers
  BY CallersAreClientsAndSweepers
<1>2. UNCHANGED <<status, grace, setting, sweep, crashes, mixed>>
  BY DEF Serving
<1>3. IInv' /\ raced \subseteq raced' /\ \A s \in Sweepers : call'[s] = call[s]
  BY <1>1, HandleEffect DEF Serving, GraceInv
<1>4. TypeOK'
  BY <1>3 DEF IInv
<1>5. OneAtATime' /\ Phases' /\ EntriesOfOffline' /\ DueHaveGrace'
  BY <1>2, <1>3, <1>4, StatusFrame
<1>6. ListedOfOffline' /\ ProcessedIsFree'
  <2>1. \A o : (Orderly(o)' <=> Orderly(o)) /\ (Returning(o)' <=> Returning(o))
               /\ (Offline(o)' <=> Offline(o))
    BY <1>2 DEF Orderly, Returning, InProgress, Offline
  <2> QED
    BY <1>2, <1>3, <1>4, <2>1, SweepFrame DEF ListedOfOffline, ProcessedIsFree
<1>7. SweepsRelease'
  BY <1>2, <1>3 DEF GraceInv, SweepsRelease
<1>8. GraceTypeOK'
  BY <1>2, <1>4, WatchType DEF GraceInv, GraceTypeOK
<1> QED
  BY <1>3, <1>5, <1>6, <1>7, <1>8 DEF GraceInv

\* That an entry expires changes nothing that is promised.
LEMMA ExpiresKeeps ==
  ASSUME GraceInv, NEW e \in Entries, GraceExpires(e), Watch
  PROVE  GraceInv'
<1>1. /\ UNCHANGED <<conv, call, raced, status, setting, sweep, crashes, mixed>>
      /\ grace' = [grace EXCEPT ![e] = "expired"] /\ grace[e] = "running"
  BY DEF GraceExpires
<1>2. IInv' /\ TypeOK'
  BY <1>1 DEF GraceInv, IInv, TypeOK, Placed, OneSection, Holds, SnapshotIsCurrent, RowsWhole
<1>3. \A f \in Entries : grace'[f] # "none" <=> grace[f] # "none"
  BY <1>1 DEF GraceInv, GraceTypeOK
<1>4. OneAtATime' /\ Phases' /\ EntriesOfOffline' /\ DueHaveGrace'
  BY <1>1, <1>2, <1>3, StatusFrame
<1>5. ListedOfOffline' /\ ProcessedIsFree'
  <2>1. \A o : (Orderly(o)' <=> Orderly(o)) /\ (Returning(o)' <=> Returning(o))
               /\ (Offline(o)' <=> Offline(o))
    BY <1>1 DEF Orderly, Returning, InProgress, Offline
  <2> QED
    BY <1>1, <1>2, <2>1, SweepFrame DEF ListedOfOffline, ProcessedIsFree
<1>6. SweepsRelease'
  BY <1>1 DEF GraceInv, SweepsRelease
<1>7. GraceTypeOK'
  BY <1>1, <1>2, WatchType DEF GraceInv, GraceTypeOK
<1> QED
  BY <1>2, <1>4, <1>5, <1>6, <1>7 DEF GraceInv

\* IInv speaks of the store only.
LEMMA StoreFrame ==
  ASSUME IInv, UNCHANGED <<conv, call, raced>>
  PROVE  IInv'
  BY DEF IInv, TypeOK, Placed, OneSection, Holds, SnapshotIsCurrent, RowsWhole

\* The three facts about sweeps, when one sweep has moved and deleted nothing.
LEMMA SweepMoves ==
  ASSUME GraceInv, TypeOK', Watch, raced \subseteq raced',
         NEW s \in Sweepers, UNCHANGED <<status, setting, mixed>>,
         \A t \in Sweepers \ {s} : sweep'[t] = sweep[t] /\ call'[t] = call[t],
         \A e \in ListedBy(s)' : Orderly(e[2]) /\ ~Returning(e[2]) => Offline(e[2]),
         \A e \in ListedBy(s)' :
           sweep'[s].pc = "entry" /\ sweep'[s].entry = e /\ call'[s] = Idle =>
             (Orderly(e[2]) /\ ~Returning(e[2]) => ~Due(e[2], e[1])'),
         sweep'[s].pc = "entry" => sweep'[s].entry \in Entries,
         call'[s] # Idle => /\ sweep'[s].pc = "entry"
                            /\ call'[s].op = "sweep"
                            /\ call'[s].by = sweep'[s].entry[2]
                            /\ call'[s].target = sweep'[s].entry[1]
  PROVE  ListedOfOffline' /\ ProcessedIsFree' /\ SweepsRelease'
<1>1. \A o : (Orderly(o)' <=> Orderly(o)) /\ (Returning(o)' <=> Returning(o))
             /\ (Offline(o)' <=> Offline(o))
  BY DEF Orderly, Returning, InProgress, Offline
<1>2. \A t \in Sweepers \ {s} :
        /\ \A e \in ListedBy(t)' : Orderly(e[2])' /\ ~Returning(e[2])' => Offline(e[2])'
        /\ \A e \in ListedBy(t)' :
             sweep'[t].pc = "entry" /\ sweep'[t].entry = e /\ call'[t] = Idle =>
               (Orderly(e[2])' /\ ~Returning(e[2])' => ~Due(e[2], e[1])')
  BY <1>1, SweepFrame
<1>3. ListedOfOffline'
  BY <1>1, <1>2 DEF ListedOfOffline
<1>4. ProcessedIsFree'
  BY <1>1, <1>2 DEF ProcessedIsFree
<1>5. SweepsRelease'
  BY DEF GraceInv, SweepsRelease
<1> QED
  BY <1>3, <1>4, <1>5

\* A new sweep lists entries of operators who are OFFLINE.
LEMMA SweepStartKeeps ==
  ASSUME GraceInv, NEW s \in Sweepers, SweepStart(s), Watch
  PROVE  GraceInv'
<1>1. /\ UNCHANGED <<conv, call, raced, status, grace, setting, crashes, mixed>>
      /\ sweep[s] = NoSweep
      /\ sweep' = [sweep EXCEPT ![s] = [NoSweep EXCEPT !.pc = "list", !.todo = Expired]]
  BY DEF SweepStart
<1>2. IInv' /\ TypeOK'
  BY <1>1, StoreFrame DEF GraceInv, IInv
<1>3. sweep'[s] = [pc |-> "list", todo |-> Expired, entry |-> <<>>, gone |-> {}]
  BY <1>1 DEF GraceInv, GraceTypeOK, NoSweep
<1>4. \A t \in Sweepers \ {s} : sweep'[t] = sweep[t]
  BY <1>1 DEF GraceInv, GraceTypeOK
<1>5. OneAtATime' /\ Phases' /\ EntriesOfOffline' /\ DueHaveGrace'
  BY <1>1, <1>2, StatusFrame
<1>6. ListedOfOffline' /\ ProcessedIsFree' /\ SweepsRelease'
  <2>1. \A e \in ListedBy(s)' : e \in Entries /\ grace[e] # "none"
    BY <1>3 DEF ListedBy, Expired
  <2>2. \A e \in ListedBy(s)' : Orderly(e[2]) /\ ~Returning(e[2]) => Offline(e[2])
    BY <2>1 DEF GraceInv, EntriesOfOffline
  <2>3. call[s] = Idle
    BY <1>1 DEF GraceInv, SweepsRelease, NoSweep
  <2> QED
    BY <1>1, <1>2, <1>3, <1>4, <2>2, <2>3, SweepMoves
<1>7. GraceTypeOK'
  BY <1>1, <1>2, WatchType DEF GraceInv, GraceTypeOK, NoSweep, Expired
<1> QED
  BY <1>2, <1>5, <1>6, <1>7 DEF GraceInv

\* It comes to an entry, and starts to release the conversation if it is due.
LEMMA SweepComesToEntry ==
  ASSUME GraceInv, NEW s \in Sweepers, SweepRead(s), Watch
  PROVE  GraceInv'
<1>0. s \in Callers /\ Sweepers \subseteq Callers
  BY CallersAreClientsAndSweepers
<1>1. /\ UNCHANGED <<status, grace, setting, crashes, mixed>> /\ sweep[s].pc = "list"
      /\ \E e \in sweep[s].todo :
           /\ sweep' = [sweep EXCEPT ![s].pc = "entry", ![s].entry = e, ![s].todo = @ \ {e}]
           /\ IF Owns(e[2], e[1])
                THEN Read(s, "sweep", e[2], e[1], Row("QUEUED", None, conv[e[1]].inbox))
                ELSE UNCHANGED <<conv, call, raced>>
  BY DEF SweepRead
<1>2. PICK e \in sweep[s].todo :
        /\ sweep' = [sweep EXCEPT ![s].pc = "entry", ![s].entry = e, ![s].todo = @ \ {e}]
        /\ IF Owns(e[2], e[1])
             THEN Read(s, "sweep", e[2], e[1], Row("QUEUED", None, conv[e[1]].inbox))
             ELSE UNCHANGED <<conv, call, raced>>
  BY <1>1
<1>3. e \in Entries /\ e[1] \in Conversations /\ e[2] \in Operators
  BY <1>2 DEF GraceInv, GraceTypeOK, Entries
<1>4. call[s] = Idle
  BY <1>1 DEF GraceInv, SweepsRelease
<1>5. IInv' /\ raced \subseteq raced' /\ \A t \in Sweepers \ {s} : call'[t] = call[t]
  <2>1. CASE Owns(e[2], e[1])
    <3>1. Opens(s)
      BY <1>2, <1>3, <2>1, ReleaseIsAsked DEF Opens, Ops, GraceInv, IInv
    <3> QED
      BY <1>0, <1>2, <2>1, <3>1, ReadKeepsInv DEF GraceInv, Read, IInv, TypeOK
  <2>2. CASE ~Owns(e[2], e[1])
    BY <1>2, <2>2, StoreFrame DEF GraceInv
  <2> QED
    BY <2>1, <2>2
<1>6. TypeOK'
  BY <1>5 DEF IInv
<1>7. /\ sweep'[s].pc = "entry" /\ sweep'[s].entry = e /\ sweep'[s].gone = sweep[s].gone
      /\ sweep'[s].todo = sweep[s].todo \ {e}
      /\ \A t \in Sweepers \ {s} : sweep'[t] = sweep[t]
      /\ sweep' \in [Sweepers ->
           [pc : {"idle", "list", "entry"}, todo : SUBSET Entries,
            entry : Entries \cup {<<>>}, gone : SUBSET Entries]]
  BY <1>2, <1>3 DEF GraceInv, GraceTypeOK
<1>8. OneAtATime' /\ Phases' /\ EntriesOfOffline' /\ DueHaveGrace'
  BY <1>1, <1>5, <1>6, StatusFrame
<1>9. ListedOfOffline' /\ ProcessedIsFree' /\ SweepsRelease'
  <2>1. \A f \in ListedBy(s)' : f \in ListedBy(s)
    BY <1>1, <1>2, <1>7 DEF ListedBy
  <2>2. \A f \in ListedBy(s)' : Orderly(f[2]) /\ ~Returning(f[2]) => Offline(f[2])
    BY <2>1 DEF GraceInv, ListedOfOffline
  <2>3. CASE Owns(e[2], e[1])
    <3>1. /\ call'[s].op = "sweep" /\ call'[s].by = e[2] /\ call'[s].target = e[1]
          /\ call'[s] # Idle
      BY <1>0, <1>2, <2>3 DEF Read, Idle, GraceInv, IInv, TypeOK
    <3> QED
      BY <1>3, <1>5, <1>6, <1>1, <1>7, <2>2, <3>1, SweepMoves
  <2>4. CASE ~Owns(e[2], e[1])
    <3>1. UNCHANGED <<conv, call, raced>>
      BY <1>2, <2>4
    <3>2. ~Due(e[2], e[1])'
      BY <2>4, <3>1 DEF Due, Owns
    <3> QED
      BY <1>3, <1>4, <1>5, <1>6, <1>1, <1>7, <2>2, <3>1, <3>2, SweepMoves
  <2> QED
    BY <2>3, <2>4
<1>10. GraceTypeOK'
  BY <1>1, <1>6, <1>7, WatchType DEF GraceInv, GraceTypeOK
<1> QED
  BY <1>5, <1>8, <1>9, <1>10 DEF GraceInv

\* It saves the release: unless sections overlapped, the conversation is not
\* due any more when the entry is about to be deleted.
LEMMA SweepSaveFrees ==
  ASSUME GraceInv, NEW s \in Sweepers, SweepSave(s), Watch, NEW e, e = sweep[s].entry
  PROVE  /\ IInv' /\ raced' = raced /\ \A t \in Sweepers \ {s} : call'[t] = call[t]
         /\ sweep[s].pc = "entry" /\ e \in Entries
         /\ \/ /\ call'[s] # Idle /\ call'[s].op = "sweep"
               /\ call'[s].by = e[2] /\ call'[s].target = e[1]
            \/ call'[s] = Idle /\ ~Due(e[2], e[1])'
<1> DEFINE c == e[1]
           o == e[2]
<1>0. s \in Callers /\ Sweepers \subseteq Callers
  BY CallersAreClientsAndSweepers
<1>1. SaveStep(s)
  BY DEF SweepSave
<1>2. /\ IInv' /\ raced' = raced /\ call[s] # Idle
      /\ \A t \in Sweepers \ {s} : call'[t] = call[t]
  BY <1>0, <1>1, SaveKeepsInv
     DEF GraceInv, IInv, TypeOK, SaveStep, SaveLoad, SaveWrite, SaveInsert, Finish, Idle
<1>3. /\ sweep[s].pc = "entry" /\ sweep[s].entry \in Entries
      /\ call[s].op = "sweep" /\ call[s].by = o /\ call[s].target = c
  BY <1>2 DEF GraceInv, SweepsRelease
<1>4. CASE SaveLoad(s)
  <2>1. /\ call'[s].pc = "write" /\ call'[s].op = call[s].op
        /\ call'[s].by = call[s].by /\ call'[s].target = call[s].target
    BY <1>0, <1>4 DEF SaveLoad, GraceInv, IInv, TypeOK, Request
  <2>2. call'[s] # Idle
    BY <2>1 DEF Idle
  <2> QED
    BY <1>2, <1>3, <2>1, <2>2
<1>5. ASSUME c \in Conversations, NEW r, conv' = [conv EXCEPT ![c] = r],
             c \notin raced => r.state = "QUEUED"
      PROVE  ~Due(o, c)'
  <2>1. conv'[c] = r
    BY <1>5 DEF GraceInv, IInv, TypeOK
  <2> QED
    BY <1>2, <1>5, <2>1 DEF Due, Owns
<1>6. CASE SaveWrite(s)
  <2> DEFINE r == Overwrite(conv[c], call[s].entity, call[s].dirty)
  <2>1. /\ c \in Conversations /\ conv' = [conv EXCEPT ![c] = r]
        /\ c \notin raced => Asked("sweep", o, conv[c], r)
    BY <1>0, <1>3, <1>6, WriteEffect DEF GraceInv
  <2>2. call'[s] = Idle
    BY <1>0, <1>6 DEF SaveWrite, Finish, GraceInv, IInv, TypeOK
  <2>3. c \notin raced => r.state = "QUEUED"
    BY <2>1 DEF Asked, Lifecycle!Released, Lifecycle!Row
  <2> HIDE DEF r
  <2> QED
    BY <1>2, <1>3, <1>5, <2>1, <2>2, <2>3
<1>7. CASE SaveInsert(s)
  <2> DEFINE r == IF conv[c] = NoRow THEN call[s].entity ELSE conv[c]
  <2>1. /\ c \in Conversations /\ conv' = [conv EXCEPT ![c] = r]
        /\ c \notin raced => \E i \in Inboxes : r = QueuedRow(i)
    BY <1>0, <1>3, <1>7, InsertEffect DEF GraceInv
  <2>2. call'[s] = Idle
    BY <1>0, <1>7 DEF SaveInsert, Finish, GraceInv, IInv, TypeOK
  <2> HIDE DEF r
  <2>3. c \notin raced => r.state = "QUEUED"
    BY <2>1 DEF QueuedRow, Row, Lifecycle!Row
  <2> QED
    BY <1>2, <1>3, <1>5, <2>1, <2>2, <2>3
<1> QED
  BY <1>1, <1>4, <1>6, <1>7 DEF SaveStep

LEMMA SweepSaveKeeps ==
  ASSUME GraceInv, NEW s \in Sweepers, SweepSave(s), Watch
  PROVE  GraceInv'
<1>1. UNCHANGED <<status, grace, setting, sweep, crashes, mixed>>
  BY DEF SweepSave
<1>2. PICK e : e = sweep[s].entry
  OBVIOUS
<1>3. /\ IInv' /\ raced' = raced /\ \A t \in Sweepers \ {s} : call'[t] = call[t]
      /\ sweep[s].pc = "entry" /\ e \in Entries
      /\ \/ /\ call'[s] # Idle /\ call'[s].op = "sweep"
            /\ call'[s].by = e[2] /\ call'[s].target = e[1]
         \/ call'[s] = Idle /\ ~Due(e[2], e[1])'
  BY <1>2, SweepSaveFrees
<1>4. TypeOK'
  BY <1>3 DEF IInv
<1>5. OneAtATime' /\ Phases' /\ EntriesOfOffline' /\ DueHaveGrace'
  BY <1>1, <1>3, <1>4, StatusFrame
<1>6. ListedOfOffline' /\ ProcessedIsFree' /\ SweepsRelease'
  <2>1. \A f \in ListedBy(s)' : Orderly(f[2]) /\ ~Returning(f[2]) => Offline(f[2])
    BY <1>1 DEF GraceInv, ListedOfOffline, ListedBy
  <2> QED
    BY <1>1, <1>2, <1>3, <1>4, <2>1, SweepMoves
<1>7. GraceTypeOK'
  BY <1>1, <1>4, WatchType DEF GraceInv, GraceTypeOK
<1> QED
  BY <1>3, <1>5, <1>6, <1>7 DEF GraceInv

\* It deletes the entry, if the entry is still the one it has listed.
LEMMA SweepDeleteKeeps ==
  ASSUME GraceInv, NEW s \in Sweepers, SweepDelete(s), Watch
  PROVE  GraceInv'
<1> DEFINE e == sweep[s].entry
<1>1. /\ UNCHANGED <<conv, call, raced, status, setting, crashes, mixed>>
      /\ sweep[s].pc = "entry" /\ call[s] = Idle
      /\ grace' = [grace EXCEPT ![e] = IF e \in sweep[s].gone THEN @ ELSE "none"]
      /\ sweep' = [t \in Sweepers |->
                 IF t = s
                   THEN IF sweep[s].todo = {} THEN NoSweep
                        ELSE [sweep[s] EXCEPT !.pc = "list", !.entry = <<>>]
                 ELSE IF sweep[t].pc = "idle" \/ e \in sweep[s].gone THEN sweep[t]
                 ELSE [sweep[t] EXCEPT !.gone = @ \cup {e}]]
  BY DEF SweepDelete
<1>2. e \in Entries
  BY <1>1 DEF GraceInv, SweepsRelease
<1>3. IInv' /\ TypeOK'
  BY <1>1, StoreFrame DEF GraceInv, IInv
<1>4. sweep'[s].pc # "entry" /\ ListedBy(s)' \subseteq ListedBy(s)
  BY <1>1 DEF GraceInv, GraceTypeOK, ListedBy, NoSweep
<1>5. ASSUME NEW t \in Sweepers \ {s}
      PROVE  /\ sweep'[t].pc = sweep[t].pc /\ sweep'[t].entry = sweep[t].entry
             /\ ListedBy(t)' \subseteq ListedBy(t)
  BY <1>1 DEF GraceInv, GraceTypeOK, ListedBy
<1>6. /\ \A f \in Entries : grace'[f] # "none" => grace[f] # "none"
      /\ \A f \in Entries : grace[f] # "none" /\ grace'[f] = "none" =>
           f = e /\ e \in ListedBy(s)
  BY <1>1, <1>2 DEF GraceInv, GraceTypeOK, ListedBy
<1>7. OneAtATime' /\ Phases' /\ EntriesOfOffline' /\ DueHaveGrace'
  <2>1. \A f \in Entries : grace[f] # "none" /\ grace'[f] = "none" =>
          (Orderly(f[2]) /\ ~Returning(f[2]) => ~Due(f[2], f[1]))
    BY <1>1, <1>6 DEF GraceInv, ProcessedIsFree
  <2> QED
    BY <1>1, <1>3, <1>6, <2>1, StatusFrame
<1>8. \A o : (Orderly(o)' <=> Orderly(o)) /\ (Returning(o)' <=> Returning(o))
             /\ (Offline(o)' <=> Offline(o))
  BY <1>1 DEF Orderly, Returning, InProgress, Offline
<1>9. ListedOfOffline'
  BY <1>4, <1>5, <1>8 DEF GraceInv, ListedOfOffline
<1>10. ProcessedIsFree'
  <2> SUFFICES ASSUME NEW t \in Sweepers, NEW f \in ListedBy(t)',
                      sweep'[t].pc = "entry", sweep'[t].entry = f, call'[t] = Idle,
                      Orderly(f[2])', ~Returning(f[2])'
               PROVE  ~Due(f[2], f[1])'
    BY DEF ProcessedIsFree
  <2>1. t # s /\ f \in ListedBy(t) /\ sweep[t].pc = "entry" /\ sweep[t].entry = f
    BY <1>4, <1>5
  <2>2. ~Due(f[2], f[1])
    BY <1>1, <1>8, <2>1 DEF GraceInv, ProcessedIsFree
  <2>3. f[2] \in Operators /\ f[1] \in Conversations
    BY <2>1 DEF GraceInv, GraceTypeOK, SweepsRelease, Entries
  <2> QED
    BY <1>1, <2>2, <2>3, WatchQuiet DEF GraceInv, IInv
<1>11. SweepsRelease'
  BY <1>1, <1>4, <1>5 DEF GraceInv, SweepsRelease
<1>12. GraceTypeOK'
  <2>1. sweep' \in [Sweepers ->
           [pc : {"idle", "list", "entry"}, todo : SUBSET Entries,
            entry : Entries \cup {<<>>}, gone : SUBSET Entries]]
    <3> DEFINE Run == [pc : {"idle", "list", "entry"}, todo : SUBSET Entries,
                       entry : Entries \cup {<<>>}, gone : SUBSET Entries]
    <3>1. sweep \in [Sweepers -> Run] /\ NoSweep \in Run
      BY DEF GraceInv, GraceTypeOK, NoSweep
    <3>2. [sweep[s] EXCEPT !.pc = "list", !.entry = <<>>] \in Run
      BY <3>1
    <3>3. \A t \in Sweepers : [sweep[t] EXCEPT !.gone = @ \cup {e}] \in Run
      BY <1>2, <3>1
    <3> HIDE DEF Run
    <3>4. \A t \in Sweepers : sweep'[t] \in Run
      BY <1>1, <3>1, <3>2, <3>3
    <3>5. sweep' \in [Sweepers -> Run]
      BY <1>1, <3>4
    <3> QED
      BY <3>5 DEF Run
  <2>2. grace' \in [Entries -> {"none", "running", "expired"}]
    BY <1>1, <1>2 DEF GraceInv, GraceTypeOK
  <2> QED
    BY <1>1, <1>3, <2>1, <2>2, WatchType DEF GraceInv, GraceTypeOK
<1> QED
  BY <1>3, <1>7, <1>9, <1>10, <1>11, <1>12 DEF GraceInv

\* A run that is lost, whatever it was doing, deletes nothing any more.
LEMMA SweepLost ==
  ASSUME GraceInv, NEW s \in Sweepers, Watch,
         sweep' = [sweep EXCEPT ![s] = NoSweep], Finish(s),
         UNCHANGED <<conv, raced, status, grace, setting, mixed>>,
         crashes' \in 0 .. MaxCrashes
  PROVE  GraceInv'
<1>0. s \in Callers /\ Sweepers \subseteq Callers
  BY CallersAreClientsAndSweepers
<1>1. IInv' /\ TypeOK'
  BY <1>0, FinishIsQuiet, QuietKeepsInv DEF GraceInv, IInv
<1>2. /\ sweep'[s] = NoSweep /\ call'[s] = Idle
      /\ \A t \in Sweepers \ {s} : sweep'[t] = sweep[t] /\ call'[t] = call[t]
  BY <1>0 DEF Finish, GraceInv, GraceTypeOK, IInv, TypeOK
<1>3. OneAtATime' /\ Phases' /\ EntriesOfOffline' /\ DueHaveGrace'
  BY <1>1, StatusFrame
<1>4. ListedOfOffline' /\ ProcessedIsFree' /\ SweepsRelease'
  <2>1. ListedBy(s)' = {} /\ sweep'[s].pc # "entry"
    BY <1>2 DEF ListedBy, NoSweep
  <2> QED
    BY <1>1, <1>2, <2>1, SweepMoves
<1>5. GraceTypeOK'
  BY <1>1, WatchType DEF GraceInv, GraceTypeOK, NoSweep
<1> QED
  BY <1>1, <1>3, <1>4, <1>5 DEF GraceInv

-----------------------------------------------------------------------------
(* Set-status requests. *)

\* A step of request p changes what is said of its operator o only.
LEMMA SettingFrame ==
  ASSUME GraceInv, TypeOK', Watch, UNCHANGED <<conv, call, raced>>,
         NEW p \in Setters, NEW o \in Operators,
         setting[p].pc # "idle" => setting[p].by = o,
         setting'[p].pc # "idle" => setting'[p].by = o,
         \A q \in Setters \ {p} : setting'[q] = setting[q],
         \A u \in Operators \ {o} : (u \in mixed' <=> u \in mixed) /\ status'[u] = status[u],
         \A e \in Entries : e[2] # o => grace'[e] = grace[e],
         \A s \in Sweepers : /\ sweep'[s].pc = sweep[s].pc
                             /\ sweep'[s].entry = sweep[s].entry
                             /\ ListedBy(s)' \subseteq ListedBy(s),
         o \notin mixed' => \A q \in InProgress(o)' : q = p,
         setting'[p].pc # "idle" => setting'[p].to # "ABSENT",
         setting'[p].pc \in {"find", "upsert"} =>
           setting'[p].to = "OFFLINE" /\ (o \notin mixed' => Offline(o)'),
         setting'[p].pc = "delete" =>
           /\ setting'[p].to = "AVAILABLE"
           /\ o \notin mixed' => \E r \in StatusRows : status'[o][r] = "AVAILABLE",
         setting'[p].pc = "upsert" /\ o \notin mixed' =>
           \A c \in Conversations : Due(o, c) => c \in setting'[p].found,
         \A e \in Entries : Orderly(o)' /\ ~Returning(o)' /\ e[2] = o /\ grace'[e] # "none" =>
           Offline(o)',
         \A s \in Sweepers : \A e \in ListedBy(s)' :
           Orderly(o)' /\ ~Returning(o)' /\ e[2] = o =>
             /\ Offline(o)'
             /\ sweep'[s].pc = "entry" /\ sweep'[s].entry = e /\ call'[s] = Idle =>
                  ~Due(o, e[1]),
         \A c \in Conversations :
           Orderly(o)' /\ InProgress(o)' = {} /\ Offline(o)' /\ Due(o, c) =>
             grace'[<<c, o>>] # "none"
  PROVE  /\ OneAtATime' /\ Phases' /\ EntriesOfOffline'
         /\ ListedOfOffline' /\ ProcessedIsFree' /\ SweepsRelease' /\ DueHaveGrace'
<1>1. \A u \in Operators \ {o} : /\ InProgress(u)' = InProgress(u)
                                 /\ Orderly(u)' <=> Orderly(u)
                                 /\ Offline(u)' <=> Offline(u)
  BY DEF InProgress, Orderly, Offline
<1>2. \A u \in Operators \ {o} : Returning(u)' <=> Returning(u)
  BY <1>1 DEF Returning, InProgress
<1>3. \A u \in Operators, c \in Conversations : Due(u, c)' => Due(u, c)
  BY WatchQuiet DEF GraceInv, IInv
<1>4. OneAtATime'
  BY <1>1 DEF GraceInv, OneAtATime
<1>5. Phases'
  <2> SUFFICES ASSUME NEW q \in Setters
               PROVE  Phase(q)'
    BY DEF Phases
  <2>1. CASE q = p
    <3>1. CASE setting'[p].pc = "idle"
      BY <2>1, <3>1 DEF Phase
    <3>2. CASE setting'[p].by = o
      BY <1>3, <2>1, <3>2 DEF Phase
    <3> QED
      BY <3>1, <3>2
  <2>2. CASE q # p /\ setting'[q].pc = "idle"
    BY <2>2 DEF Phase
  <2>3. CASE q # p /\ setting'[q].pc # "idle"
    <3>1. setting'[q] = setting[q] /\ Phase(q) /\ setting[q].by \in Operators
      BY <2>3 DEF GraceInv, Phases, Phase
    <3>2. PICK u \in Operators : u = setting[q].by
      BY <3>1
    <3>3. u = o => o \in mixed'
      BY <2>3, <3>1, <3>2 DEF InProgress
    <3>4. u # o => /\ status'[u] = status[u] /\ (u \in mixed' <=> u \in mixed)
                   /\ Offline(u)' <=> Offline(u)
      BY <1>1
    <3>5. \A c \in Conversations : Due(u, c)' => Due(u, c)
      BY <1>3
    <3> QED
      BY <3>1, <3>2, <3>3, <3>4, <3>5 DEF Phase
  <2> QED
    BY <2>1, <2>2, <2>3
<1>6. EntriesOfOffline'
  BY <1>1, <1>2 DEF GraceInv, EntriesOfOffline, Entries
<1>7. \A s \in Sweepers : ListedBy(s) \subseteq Entries
  BY DEF GraceInv, GraceTypeOK, ListedBy
<1>8. ListedOfOffline'
  BY <1>1, <1>2, <1>7 DEF GraceInv, ListedOfOffline, Entries
<1>9. ProcessedIsFree'
  BY <1>1, <1>2, <1>3, <1>7 DEF GraceInv, ProcessedIsFree, Entries
<1>10. SweepsRelease'
  BY DEF GraceInv, SweepsRelease
<1>11. DueHaveGrace'
  BY <1>1, <1>3 DEF GraceInv, DueHaveGrace, Entries
<1> QED
  BY <1>4, <1>5, <1>6, <1>8, <1>9, <1>10, <1>11

\* The states of a request.
LEMMA SettingStep ==
  ASSUME GraceTypeOK, NEW p \in Setters, NEW pc \in {"save", "find", "upsert", "delete"},
         NEW o \in Operators, NEW v \in {"AVAILABLE", "OFFLINE"},
         NEW row \in StatusRows \cup {None}, NEW found \in SUBSET Conversations,
         NEW x, x = NoSetting \/ x = [pc |-> pc, by |-> o, to |-> v, row |-> row, found |-> found],
         setting' = [setting EXCEPT ![p] = x]
  PROVE  /\ setting' \in [Setters ->
              [pc : {"idle", "save", "find", "upsert", "delete"}, by : Operators \cup {None},
               to : {"ABSENT", "AVAILABLE", "OFFLINE"}, row : StatusRows \cup {None},
               found : SUBSET Conversations]]
         /\ setting'[p] = x
         /\ \A q \in Setters \ {p} : setting'[q] = setting[q]
<1> DEFINE Setting == [pc : {"idle", "save", "find", "upsert", "delete"},
                       by : Operators \cup {None}, to : {"ABSENT", "AVAILABLE", "OFFLINE"},
                       row : StatusRows \cup {None}, found : SUBSET Conversations]
<1>1. x \in Setting
  BY DEF NoSetting
<1>2. setting \in [Setters -> Setting]
  BY DEF GraceTypeOK
<1> HIDE DEF Setting
<1>3. setting' \in [Setters -> Setting] /\ setting'[p] = x
      /\ \A q \in Setters \ {p} : setting'[q] = setting[q]
  BY <1>1, <1>2
<1> QED
  BY <1>3 DEF Setting

\* A request starts: it overlaps another one, or is alone from here on.
LEMMA SetStartKeeps ==
  ASSUME GraceInv, NEW p \in Setters, NEW o \in Operators,
         NEW v \in {"AVAILABLE", "OFFLINE"}, SetStart(p, o, v), Watch
  PROVE  GraceInv'
<1>1. /\ UNCHANGED <<conv, call, raced, status, grace, sweep, crashes>>
      /\ setting[p] = NoSetting
      /\ mixed' = IF InProgress(o) # {} THEN mixed \cup {o}
                  ELSE IF v = "AVAILABLE" THEN mixed \ {o} ELSE mixed
  BY DEF SetStart
<1>2. PICK row \in StatusRows \cup {None} : setting' = [setting EXCEPT ![p] =
                        [pc |-> "save", by |-> o, to |-> v, row |-> row, found |-> {}]]
  BY DEF SetStart
<1>3. IInv' /\ TypeOK'
  BY <1>1, StoreFrame DEF GraceInv, IInv
<1>4. /\ setting' \in [Setters ->
              [pc : {"idle", "save", "find", "upsert", "delete"}, by : Operators \cup {None},
               to : {"ABSENT", "AVAILABLE", "OFFLINE"}, row : StatusRows \cup {None},
               found : SUBSET Conversations]]
      /\ setting'[p] = [pc |-> "save", by |-> o, to |-> v, row |-> row, found |-> {}]
      /\ \A q \in Setters \ {p} : setting'[q] = setting[q]
  BY <1>2, SettingStep DEF GraceInv
<1>5. p \in InProgress(o)' /\ \A q \in InProgress(o)' : q = p \/ q \in InProgress(o)
  BY <1>4 DEF InProgress
<1>6. o \notin mixed' => InProgress(o) = {}
  BY <1>1
<1>7. Orderly(o)' /\ ~Returning(o)' =>
        Orderly(o) /\ ~Returning(o) /\ (Offline(o)' <=> Offline(o))
  BY <1>1, <1>4, <1>5, <1>6 DEF Orderly, Returning, Offline
<1>8. \A s \in Sweepers : ListedBy(s)' = ListedBy(s) /\ ListedBy(s) \subseteq Entries
  BY <1>1 DEF ListedBy, GraceInv, GraceTypeOK
<1>9. \A s \in Sweepers : \A e \in ListedBy(s)' :
        Orderly(o)' /\ ~Returning(o)' /\ e[2] = o =>
          /\ Offline(o)'
          /\ sweep'[s].pc = "entry" /\ sweep'[s].entry = e /\ call'[s] = Idle =>
               ~Due(o, e[1])
  BY <1>1, <1>7, <1>8 DEF GraceInv, ListedOfOffline, ProcessedIsFree
<1>10. \A e \in Entries : Orderly(o)' /\ ~Returning(o)' /\ e[2] = o /\ grace'[e] # "none" =>
           Offline(o)'
  BY <1>1, <1>7 DEF GraceInv, EntriesOfOffline
<1>11. setting[p].pc = "idle" /\ setting'[p].pc = "save"
       /\ setting'[p].by = o /\ setting'[p].to = v
  BY <1>1, <1>4 DEF NoSetting
<1>12. /\ OneAtATime' /\ Phases' /\ EntriesOfOffline'
       /\ ListedOfOffline' /\ ProcessedIsFree' /\ SweepsRelease' /\ DueHaveGrace'
  BY <1>1, <1>3, <1>4, <1>5, <1>6, <1>8, <1>9, <1>10, <1>11, SettingFrame
<1>13. GraceTypeOK'
  BY <1>1, <1>3, <1>4, WatchType DEF GraceInv, GraceTypeOK
<1> QED
  BY <1>3, <1>12, <1>13 DEF GraceInv

\* What is known of a request in progress.
LEMMA InProgressFacts ==
  ASSUME GraceInv, NEW p \in Setters, setting[p].pc # "idle"
  PROVE  /\ setting[p].by \in Operators /\ setting[p].to \in {"AVAILABLE", "OFFLINE"}
         /\ setting[p].by \notin mixed => InProgress(setting[p].by) = {p}
         /\ setting[p] = [pc |-> setting[p].pc, by |-> setting[p].by, to |-> setting[p].to,
                          row |-> setting[p].row, found |-> setting[p].found]
         /\ setting[p].row \in StatusRows \cup {None}
         /\ setting[p].found \in SUBSET Conversations
<1>1. setting[p].by \in Operators /\ setting[p].to \in {"AVAILABLE", "OFFLINE"}
  BY DEF GraceInv, Phases, Phase, GraceTypeOK
<1>2. p \in InProgress(setting[p].by)
  BY DEF InProgress
<1>3. setting[p].by \notin mixed => InProgress(setting[p].by) = {p}
  BY <1>1, <1>2 DEF GraceInv, OneAtATime
<1> QED
  BY <1>1, <1>3 DEF GraceInv, GraceTypeOK

\* The status row is stored.
LEMMA SetSaveKeeps ==
  ASSUME GraceInv, NEW p \in Setters, SetSave(p), Watch
  PROVE  GraceInv'
<1>1. /\ UNCHANGED <<conv, call, raced, grace, sweep, crashes, mixed>>
      /\ setting[p].pc = "save"
      /\ setting' = [setting EXCEPT ![p].pc =
                       IF setting[p].to = "OFFLINE" THEN "find" ELSE "delete"]
  BY DEF SetSave
<1>2. PICK o \in Operators : o = setting[p].by
  BY <1>1, InProgressFacts
<1>3. PICK v \in {"AVAILABLE", "OFFLINE"} : v = setting[p].to
  BY <1>1, InProgressFacts
<1>4. PICK row \in StatusRows : status' = [status EXCEPT ![o][row] = v]
  BY <1>2, <1>3 DEF SetSave
<1>5. IInv' /\ TypeOK'
  BY <1>1, StoreFrame DEF GraceInv, IInv
<1> DEFINE pc == IF v = "OFFLINE" THEN "find" ELSE "delete"
<1>0. PICK rw \in StatusRows \cup {None}, fd \in SUBSET Conversations :
        setting[p] = [pc |-> "save", by |-> o, to |-> v, row |-> rw, found |-> fd]
  <2>1. setting[p].pc # "idle"
    BY <1>1
  <2>2. /\ setting[p] = [pc |-> "save", by |-> o, to |-> v,
                         row |-> setting[p].row, found |-> setting[p].found]
        /\ setting[p].row \in StatusRows \cup {None}
        /\ setting[p].found \in SUBSET Conversations
    BY <1>1, <1>2, <1>3, <2>1, InProgressFacts
  <2> QED
    BY <2>2
<1> DEFINE x == [pc |-> pc, by |-> o, to |-> v, row |-> rw, found |-> fd]
<1>6. setting' = [setting EXCEPT ![p] = x] /\ pc \in {"save", "find", "upsert", "delete"}
  <2>1. setting' = [setting EXCEPT ![p] = [setting[p] EXCEPT !.pc = pc]]
    BY <1>1, <1>3
  <2>2. [setting[p] EXCEPT !.pc = pc] = x
    BY <1>0
  <2>3. pc \in {"save", "find", "upsert", "delete"}
    OBVIOUS
  <2> QED
    BY <2>1, <2>2, <2>3
<1>7. /\ setting' \in [Setters ->
              [pc : {"idle", "save", "find", "upsert", "delete"}, by : Operators \cup {None},
               to : {"ABSENT", "AVAILABLE", "OFFLINE"}, row : StatusRows \cup {None},
               found : SUBSET Conversations]]
      /\ setting'[p] = x
      /\ \A q \in Setters \ {p} : setting'[q] = setting[q]
  <2>1. GraceTypeOK
    BY DEF GraceInv
  <2> HIDE DEF pc
  <2> QED
    BY <1>6, <2>1, SettingStep
<1>8. /\ setting'[p].pc = (IF v = "OFFLINE" THEN "find" ELSE "delete")
      /\ setting'[p].by = o /\ setting'[p].to = v
  BY <1>7
<1> HIDE DEF x
<1>9. /\ status' \in [Operators -> [StatusRows -> {"ABSENT", "AVAILABLE", "OFFLINE"}]]
      /\ status'[o][row] = v
      /\ \A u \in Operators \ {o} : status'[u] = status[u]
      /\ \A r \in StatusRows : status[o][r] # "ABSENT" => status'[o][r] # "ABSENT"
  BY <1>4 DEF GraceInv, GraceTypeOK
<1>10. InProgress(o)' = InProgress(o) /\ p \in InProgress(o)
       /\ (o \notin mixed => InProgress(o) = {p})
  BY <1>1, <1>2, <1>7, <1>8, InProgressFacts DEF InProgress
<1>11. Returning(o)' <=> Returning(o)
  BY <1>3, <1>2, <1>7, <1>8, <1>10 DEF Returning, InProgress
<1>12. (v = "OFFLINE" => Offline(o)')
       /\ (v = "AVAILABLE" => Returning(o)' /\ status'[o][row] = "AVAILABLE")
  BY <1>8, <1>9, <1>10 DEF Returning, Offline
<1>13. Orderly(o)' /\ ~Returning(o)' => Orderly(o) /\ ~Returning(o) /\ Offline(o)'
  BY <1>1, <1>9, <1>11, <1>12 DEF Orderly
<1>14. \A s \in Sweepers : ListedBy(s)' = ListedBy(s)
  BY <1>1 DEF ListedBy
<1>15. \A s \in Sweepers : \A e \in ListedBy(s)' :
        Orderly(o)' /\ ~Returning(o)' /\ e[2] = o =>
          /\ Offline(o)'
          /\ sweep'[s].pc = "entry" /\ sweep'[s].entry = e /\ call'[s] = Idle =>
               ~Due(o, e[1])
  BY <1>1, <1>13, <1>14 DEF GraceInv, ProcessedIsFree
<1>16. /\ OneAtATime' /\ Phases' /\ EntriesOfOffline'
       /\ ListedOfOffline' /\ ProcessedIsFree' /\ SweepsRelease' /\ DueHaveGrace'
  BY <1>1, <1>2, <1>3, <1>5, <1>7, <1>8, <1>9, <1>10, <1>12, <1>13, <1>14, <1>15, SettingFrame
<1>17. GraceTypeOK'
  BY <1>1, <1>5, <1>7, <1>9, WatchType DEF GraceInv, GraceTypeOK
<1> QED
  BY <1>5, <1>16, <1>17 DEF GraceInv

\* A request that ends.
LEMMA SettingEnds ==
  ASSUME GraceInv, NEW p \in Setters, NEW o \in Operators, setting[p].pc # "idle",
         setting[p].by = o, setting' = [setting EXCEPT ![p] = NoSetting]
  PROVE  /\ setting' \in [Setters ->
              [pc : {"idle", "save", "find", "upsert", "delete"}, by : Operators \cup {None},
               to : {"ABSENT", "AVAILABLE", "OFFLINE"}, row : StatusRows \cup {None},
               found : SUBSET Conversations]]
         /\ setting'[p].pc = "idle"
         /\ \A q \in Setters \ {p} : setting'[q] = setting[q]
         /\ o \notin mixed => InProgress(o)' = {}
         /\ setting[p].to = "OFFLINE" => (Returning(o)' <=> Returning(o))
<1>1. PICK pc \in {"save", "find", "upsert", "delete"}, v \in {"AVAILABLE", "OFFLINE"},
           row \in StatusRows \cup {None}, found \in SUBSET Conversations :
        setting[p] = [pc |-> pc, by |-> o, to |-> v, row |-> row, found |-> found]
  BY InProgressFacts DEF GraceInv, GraceTypeOK
<1>2. /\ setting' \in [Setters ->
              [pc : {"idle", "save", "find", "upsert", "delete"}, by : Operators \cup {None},
               to : {"ABSENT", "AVAILABLE", "OFFLINE"}, row : StatusRows \cup {None},
               found : SUBSET Conversations]]
      /\ setting'[p] = NoSetting
      /\ \A q \in Setters \ {p} : setting'[q] = setting[q]
  BY <1>1, SettingStep DEF GraceInv
<1>3. setting'[p].pc = "idle"
  BY <1>2 DEF NoSetting
<1>4. o \notin mixed => InProgress(o)' = {}
  <2>1. o \notin mixed => InProgress(o) = {p}
    BY InProgressFacts
  <2> QED
    BY <1>2, <1>3, <2>1 DEF InProgress
<1>5. setting[p].to = "OFFLINE" => (Returning(o)' <=> Returning(o))
  BY <1>2, <1>3 DEF Returning, InProgress
<1> QED
  BY <1>2, <1>3, <1>4, <1>5

\* An OFFLINE request finds the conversations of its operator, or none.
LEMMA SetFindKeeps ==
  ASSUME GraceInv, NEW p \in Setters, SetFind(p), Watch
  PROVE  GraceInv'
<1> DEFINE found == {c \in Conversations : Owns(setting[p].by, c)}
<1>1. /\ UNCHANGED <<conv, call, raced, status, grace, sweep, crashes, mixed>>
      /\ setting[p].pc = "find"
      /\ setting' = [setting EXCEPT ![p] =
           IF found = {} THEN NoSetting ELSE [@ EXCEPT !.pc = "upsert", !.found = found]]
  BY DEF SetFind
<1>2. PICK o \in Operators : o = setting[p].by
  BY <1>1, InProgressFacts
<1>3. setting[p].to = "OFFLINE" /\ (o \notin mixed => Offline(o) /\ InProgress(o) = {p})
  BY <1>1, <1>2, InProgressFacts DEF GraceInv, Phases, Phase
<1>4. IInv' /\ TypeOK'
  BY <1>1, StoreFrame DEF GraceInv, IInv
<1>5. \A s \in Sweepers : ListedBy(s)' = ListedBy(s)
  BY <1>1 DEF ListedBy
<1>6. /\ Orderly(o)' <=> Orderly(o)
      /\ Offline(o)' <=> Offline(o)
  BY <1>1 DEF Orderly, Offline
<1>7. ASSUME setting' \in [Setters ->
              [pc : {"idle", "save", "find", "upsert", "delete"}, by : Operators \cup {None},
               to : {"ABSENT", "AVAILABLE", "OFFLINE"}, row : StatusRows \cup {None},
               found : SUBSET Conversations]],
             setting'[p].pc \in {"idle", "upsert"}, setting'[p].pc = "upsert" =>
               setting'[p].by = o /\ setting'[p].to = "OFFLINE" /\ setting'[p].found = found,
             setting'[p].pc = "idle" => found = {},
             \A q \in Setters \ {p} : setting'[q] = setting[q],
             Returning(o)' <=> Returning(o)
      PROVE  GraceInv'
  <2>1. o \notin mixed => \A q \in InProgress(o)' : q = p
    BY <1>3, <1>7 DEF InProgress
  <2>2. \A c \in Conversations : Due(o, c) => c \in found
    BY <1>2 DEF Due
  <2> HIDE DEF found
  <2>3. \A s \in Sweepers : \A e \in ListedBy(s)' :
          Orderly(o)' /\ ~Returning(o)' /\ e[2] = o =>
            /\ Offline(o)'
            /\ sweep'[s].pc = "entry" /\ sweep'[s].entry = e /\ call'[s] = Idle =>
                 ~Due(o, e[1])
    BY <1>1, <1>5, <1>6, <1>7 DEF GraceInv, ListedOfOffline, ProcessedIsFree
  <2>4. \A e \in Entries : Orderly(o)' /\ ~Returning(o)' /\ e[2] = o /\ grace'[e] # "none" =>
          Offline(o)'
    BY <1>1, <1>6, <1>7 DEF GraceInv, EntriesOfOffline
  <2>5. \A c \in Conversations :
          Orderly(o)' /\ InProgress(o)' = {} /\ Offline(o)' /\ Due(o, c) =>
             grace'[<<c, o>>] # "none"
    <3>1. InProgress(o)' = {} => setting'[p].pc = "idle"
      BY <1>7 DEF InProgress
    <3> QED
      BY <1>7, <2>2, <3>1
  <2>6. /\ OneAtATime' /\ Phases' /\ EntriesOfOffline'
        /\ ListedOfOffline' /\ ProcessedIsFree' /\ SweepsRelease' /\ DueHaveGrace'
    BY <1>1, <1>2, <1>3, <1>4, <1>5, <1>6, <1>7, <2>1, <2>2, <2>3, <2>4, <2>5, SettingFrame
  <2>7. GraceTypeOK'
    BY <1>1, <1>4, <1>7, WatchType DEF GraceInv, GraceTypeOK
  <2> QED
    BY <1>4, <2>6, <2>7 DEF GraceInv
<1>8. CASE found = {}
  <2>1. setting' = [setting EXCEPT ![p] = NoSetting] /\ setting[p].pc # "idle"
    BY <1>1, <1>8
  <2> HIDE DEF found
  <2> QED
    BY <1>2, <1>3, <1>7, <1>8, <2>1, SettingEnds
<1>9. CASE found # {}
  <2>1. PICK row \in StatusRows \cup {None}, old \in SUBSET Conversations :
          setting[p] = [pc |-> "find", by |-> o, to |-> "OFFLINE", row |-> row, found |-> old]
    <3>1. setting[p].pc # "idle"
      BY <1>1
    <3>2. /\ setting[p] = [pc |-> "find", by |-> o, to |-> "OFFLINE",
                           row |-> setting[p].row, found |-> setting[p].found]
          /\ setting[p].row \in StatusRows \cup {None}
          /\ setting[p].found \in SUBSET Conversations
      BY <1>1, <1>2, <1>3, <3>1, InProgressFacts
    <3> QED
      BY <3>2
  <2>0. PICK fd \in SUBSET Conversations : fd = found
    OBVIOUS
  <2> DEFINE x == [pc |-> "upsert", by |-> o, to |-> "OFFLINE", row |-> row, found |-> fd]
  <2> HIDE DEF found
  <2>2. setting' = [setting EXCEPT ![p] = [setting[p] EXCEPT !.pc = "upsert", !.found = fd]]
    BY <1>1, <1>9, <2>0
  <2>3. [setting[p] EXCEPT !.pc = "upsert"] =
          [pc |-> "upsert", by |-> o, to |-> "OFFLINE", row |-> row, found |-> old]
    BY <2>1
  <2>4. [[setting[p] EXCEPT !.pc = "upsert"] EXCEPT !.found = fd] = x
    <3>1. \A q : q = [pc |-> "upsert", by |-> o, to |-> "OFFLINE", row |-> row, found |-> old] =>
            [q EXCEPT !.found = fd] = x
      OBVIOUS
    <3> QED
      BY <2>3, <3>1
  <2>5. /\ setting' \in [Setters ->
              [pc : {"idle", "save", "find", "upsert", "delete"}, by : Operators \cup {None},
               to : {"ABSENT", "AVAILABLE", "OFFLINE"}, row : StatusRows \cup {None},
               found : SUBSET Conversations]]
        /\ setting'[p] = x
        /\ \A q \in Setters \ {p} : setting'[q] = setting[q]
    <3>1. setting' = [setting EXCEPT ![p] = x]
      BY <2>2, <2>4, Zenon
    <3> QED
      BY <3>1, SettingStep DEF GraceInv
  <2>6. Returning(o)' <=> Returning(o)
    BY <1>2, <1>3, <2>5 DEF Returning, InProgress
  <2> QED
    BY <1>7, <2>0, <2>5, <2>6
<1> QED
  BY <1>8, <1>9

\* It stores an entry for each of them.
LEMMA SetUpsertKeeps ==
  ASSUME GraceInv, NEW p \in Setters, SetUpsertGrace(p), Watch
  PROVE  GraceInv'
<1>1. /\ UNCHANGED <<conv, call, raced, status, sweep, crashes, mixed>>
      /\ setting[p].pc = "upsert" /\ setting[p].pc # "idle"
      /\ setting' = [setting EXCEPT ![p] = NoSetting]
      /\ grace' = [e \in Entries |->
           IF e[1] \in setting[p].found /\ e[2] = setting[p].by THEN "running" ELSE grace[e]]
  BY DEF SetUpsertGrace
<1>2. PICK o \in Operators : o = setting[p].by
  BY <1>1, InProgressFacts
<1>3. /\ setting[p].to = "OFFLINE"
      /\ o \notin mixed => /\ Offline(o)
                           /\ \A c \in Conversations : Due(o, c) => c \in setting[p].found
  BY <1>1, <1>2 DEF GraceInv, Phases, Phase
<1>4. IInv' /\ TypeOK'
  BY <1>1, StoreFrame DEF GraceInv, IInv
<1>5. /\ setting' \in [Setters ->
              [pc : {"idle", "save", "find", "upsert", "delete"}, by : Operators \cup {None},
               to : {"ABSENT", "AVAILABLE", "OFFLINE"}, row : StatusRows \cup {None},
               found : SUBSET Conversations]]
      /\ setting'[p].pc = "idle"
      /\ \A q \in Setters \ {p} : setting'[q] = setting[q]
      /\ o \notin mixed => InProgress(o)' = {}
      /\ Returning(o)' <=> Returning(o)
  BY <1>1, <1>2, <1>3, SettingEnds
<1>6. \A s \in Sweepers : ListedBy(s)' = ListedBy(s)
  BY <1>1 DEF ListedBy
<1>7. Offline(o)' <=> Offline(o)
  BY <1>1 DEF Offline
<1>8. Orderly(o)' => Orderly(o) /\ o \notin mixed
  BY <1>1 DEF Orderly
<1>9. \A s \in Sweepers : \A e \in ListedBy(s)' :
        Orderly(o)' /\ ~Returning(o)' /\ e[2] = o =>
          /\ Offline(o)'
          /\ sweep'[s].pc = "entry" /\ sweep'[s].entry = e /\ call'[s] = Idle =>
               ~Due(o, e[1])
  BY <1>1, <1>3, <1>5, <1>6, <1>7, <1>8 DEF GraceInv, ProcessedIsFree
<1>10. \A e \in Entries : e[2] # o => grace'[e] = grace[e]
  BY <1>1, <1>2
<1>11. \A c \in Conversations :
         Orderly(o)' /\ InProgress(o)' = {} /\ Offline(o)' /\ Due(o, c) =>
           grace'[<<c, o>>] # "none"
  BY <1>1, <1>2, <1>3, <1>8 DEF Entries
<1>12. /\ OneAtATime' /\ Phases' /\ EntriesOfOffline'
       /\ ListedOfOffline' /\ ProcessedIsFree' /\ SweepsRelease' /\ DueHaveGrace'
  BY <1>1, <1>2, <1>3, <1>4, <1>5, <1>6, <1>7, <1>8, <1>9, <1>10, <1>11, SettingFrame
<1>13. grace' \in [Entries -> {"none", "running", "expired"}]
  BY <1>1 DEF GraceInv, GraceTypeOK
<1>14. GraceTypeOK'
  BY <1>1, <1>4, <1>5, <1>13, WatchType DEF GraceInv, GraceTypeOK
<1> QED
  BY <1>4, <1>12, <1>14 DEF GraceInv

\* One row at most that is not AVAILABLE: an orderly operator with an AVAILABLE
\* row is not OFFLINE.
LEMMA OrderlyIsOne ==
  ASSUME NEW o \in Operators, Orderly(o), NEW r \in StatusRows, status[o][r] = "AVAILABLE"
  PROVE  ~Offline(o)
  BY DEF Orderly, Offline

\* An AVAILABLE request deletes the entries of its operator, and what sweeps
\* have listed of them they cannot delete any more.
LEMMA SetDeleteKeeps ==
  ASSUME GraceInv, NEW p \in Setters, SetDeleteGrace(p), Watch
  PROVE  GraceInv'
<1>1. /\ UNCHANGED <<conv, call, raced, status, crashes, mixed>>
      /\ setting[p].pc = "delete" /\ setting[p].pc # "idle"
      /\ setting' = [setting EXCEPT ![p] = NoSetting]
  BY DEF SetDeleteGrace
<1>2. PICK o \in Operators : o = setting[p].by
  BY <1>1, InProgressFacts
<1> DEFINE gone == {e \in Entries : e[2] = o}
<1>3. /\ grace' = [e \in Entries |-> IF e \in gone THEN "none" ELSE grace[e]]
      /\ sweep' = [s \in Sweepers |->
                     IF sweep[s].pc = "idle" THEN sweep[s]
                     ELSE [sweep[s] EXCEPT !.gone = @ \cup gone]]
  BY <1>2 DEF SetDeleteGrace
<1>4. o \notin mixed => \E r \in StatusRows : status[o][r] = "AVAILABLE"
  BY <1>1, <1>2 DEF GraceInv, Phases, Phase
<1>5. IInv' /\ TypeOK'
  BY <1>1, StoreFrame DEF GraceInv, IInv
<1>6. /\ setting' \in [Setters ->
              [pc : {"idle", "save", "find", "upsert", "delete"}, by : Operators \cup {None},
               to : {"ABSENT", "AVAILABLE", "OFFLINE"}, row : StatusRows \cup {None},
               found : SUBSET Conversations]]
      /\ setting'[p].pc = "idle"
      /\ \A q \in Setters \ {p} : setting'[q] = setting[q]
      /\ o \notin mixed => InProgress(o)' = {}
  BY <1>1, <1>2, SettingEnds
<1>7. \A e \in Entries : /\ e[2] = o => grace'[e] = "none"
                         /\ e[2] # o => grace'[e] = grace[e]
  BY <1>3
<1>8. \A s \in Sweepers : /\ sweep'[s].pc = sweep[s].pc
                          /\ sweep'[s].entry = sweep[s].entry
                          /\ ListedBy(s)' \subseteq ListedBy(s)
                          /\ \A e \in ListedBy(s)' : e \notin gone
  <2> SUFFICES ASSUME NEW s \in Sweepers
               PROVE  /\ sweep'[s].pc = sweep[s].pc
                      /\ sweep'[s].entry = sweep[s].entry
                      /\ ListedBy(s)' \subseteq ListedBy(s)
                      /\ \A e \in ListedBy(s)' : e \notin gone
    OBVIOUS
  <2> HIDE DEF gone
  <2>1. CASE sweep[s].pc = "idle"
    BY <1>3, <2>1 DEF ListedBy
  <2>2. CASE sweep[s].pc # "idle"
    <3>1. /\ sweep'[s].pc = sweep[s].pc /\ sweep'[s].entry = sweep[s].entry
          /\ sweep'[s].todo = sweep[s].todo /\ sweep'[s].gone = sweep[s].gone \cup gone
      BY <1>3, <2>2 DEF GraceInv, GraceTypeOK
    <3> QED
      BY <2>2, <3>1 DEF ListedBy
  <2> QED
    BY <2>1, <2>2
<1>9. \A s \in Sweepers : \A e \in ListedBy(s)' : e \in Entries /\ e[2] # o
  BY <1>8 DEF ListedBy, GraceInv, GraceTypeOK
<1>10. Orderly(o)' => o \notin mixed /\ ~Offline(o)'
  <2>1. Orderly(o)' => Orderly(o) /\ o \notin mixed
    BY <1>1 DEF Orderly
  <2>2. Offline(o)' <=> Offline(o)
    BY <1>1 DEF Offline
  <2> QED
    BY <1>4, <2>1, <2>2, OrderlyIsOne
<1> HIDE DEF gone
<1>11. /\ OneAtATime' /\ Phases' /\ EntriesOfOffline'
       /\ ListedOfOffline' /\ ProcessedIsFree' /\ SweepsRelease' /\ DueHaveGrace'
  BY <1>1, <1>2, <1>5, <1>6, <1>7, <1>8, <1>9, <1>10, SettingFrame
<1>12. grace' \in [Entries -> {"none", "running", "expired"}]
  BY <1>3 DEF GraceInv, GraceTypeOK
<1>13. sweep' \in [Sweepers ->
         [pc : {"idle", "list", "entry"}, todo : SUBSET Entries,
          entry : Entries \cup {<<>>}, gone : SUBSET Entries]]
  <2> DEFINE Run == [pc : {"idle", "list", "entry"}, todo : SUBSET Entries,
                     entry : Entries \cup {<<>>}, gone : SUBSET Entries]
  <2>1. sweep \in [Sweepers -> Run]
    BY DEF GraceInv, GraceTypeOK
  <2>2. gone \subseteq Entries
    BY DEF gone
  <2>3. \A s \in Sweepers : [sweep[s] EXCEPT !.gone = @ \cup gone] \in Run
    BY <2>1, <2>2
  <2> HIDE DEF Run
  <2>4. sweep' \in [Sweepers -> Run]
    BY <1>3, <2>1, <2>3
  <2> QED
    BY <2>4 DEF Run
<1>14. GraceTypeOK'
  BY <1>1, <1>5, <1>6, <1>12, <1>13, WatchType DEF GraceInv, GraceTypeOK
<1> QED
  BY <1>5, <1>11, <1>14 DEF GraceInv

\* A request that is lost leaves its operator with part of it.
LEMMA SettingLost ==
  ASSUME GraceInv, NEW p \in Setters, setting[p].pc # "idle", Watch,
         setting' = [setting EXCEPT ![p] = NoSetting],
         mixed' = mixed \cup {setting[p].by},
         UNCHANGED <<conv, call, raced, status, grace, sweep>>,
         crashes' \in 0 .. MaxCrashes
  PROVE  GraceInv'
<1>1. PICK o \in Operators : o = setting[p].by
  BY InProgressFacts
<1>2. /\ setting' \in [Setters ->
              [pc : {"idle", "save", "find", "upsert", "delete"}, by : Operators \cup {None},
               to : {"ABSENT", "AVAILABLE", "OFFLINE"}, row : StatusRows \cup {None},
               found : SUBSET Conversations]]
      /\ setting'[p].pc = "idle"
      /\ \A q \in Setters \ {p} : setting'[q] = setting[q]
  BY <1>1, SettingEnds
<1>3. IInv' /\ TypeOK'
  BY StoreFrame DEF GraceInv, IInv
<1>4. o \in mixed' /\ ~Orderly(o)'
  BY <1>1 DEF Orderly
<1>5. \A s \in Sweepers : ListedBy(s)' = ListedBy(s)
  BY DEF ListedBy
<1>6. /\ OneAtATime' /\ Phases' /\ EntriesOfOffline'
      /\ ListedOfOffline' /\ ProcessedIsFree' /\ SweepsRelease' /\ DueHaveGrace'
  BY <1>1, <1>2, <1>3, <1>4, <1>5, SettingFrame
<1>7. GraceTypeOK'
  BY <1>1, <1>2, <1>3, WatchType DEF GraceInv, GraceTypeOK
<1> QED
  BY <1>3, <1>6, <1>7 DEF GraceInv

-----------------------------------------------------------------------------
(* The theorems. *)

LEMMA GraceInvInitially == GraceInit => GraceInv
<1> SUFFICES ASSUME GraceInit PROVE GraceInv
  OBVIOUS
<1>1. IInv
  BY InitialStore DEF GraceInit
<1>2. GraceTypeOK
  BY <1>1, MaxCrashesIsNat DEF GraceInit, GraceTypeOK, IInv, NoSetting, NoSweep
<1>3. \A p \in Setters : setting[p].pc = "idle"
  BY DEF GraceInit, NoSetting
<1>4. \A s \in Sweepers : sweep[s].pc = "idle"
  BY DEF GraceInit, NoSweep
<1>5. OneAtATime /\ Phases
  BY <1>3 DEF OneAtATime, InProgress, Phases, Phase
<1>6. EntriesOfOffline
  BY DEF GraceInit, EntriesOfOffline
<1>7. ListedOfOffline /\ ProcessedIsFree
  BY <1>4 DEF ListedOfOffline, ProcessedIsFree, ListedBy
<1>8. SweepsRelease
  BY <1>4, CallersAreClientsAndSweepers DEF SweepsRelease, GraceInit, Init, StoreInit
<1>9. DueHaveGrace
  BY DEF DueHaveGrace, Offline, GraceInit
<1> QED
  BY <1>1, <1>2, <1>5, <1>6, <1>7, <1>8, <1>9 DEF GraceInv

LEMMA GraceInvStays ==
  ASSUME GraceInv, UNCHANGED graceVars
  PROVE  GraceInv'
<1>1. IInv'
  BY StoreFrame DEF GraceInv, graceVars
<1>2. \A s \in Sweepers : ListedBy(s)' = ListedBy(s)
  BY DEF ListedBy, graceVars
<1>3. GraceTypeOK' /\ OneAtATime' /\ Phases'
  BY <1>1 DEF IInv, GraceInv, graceVars, GraceTypeOK, OneAtATime, InProgress, Phases, Phase,
              Offline, Due, Owns
<1>4. \A o : (Orderly(o)' <=> Orderly(o)) /\ (Returning(o)' <=> Returning(o))
             /\ (Offline(o)' <=> Offline(o)) /\ InProgress(o)' = InProgress(o)
  BY DEF graceVars, Orderly, Returning, InProgress, Offline
<1>5. \A o, c : Due(o, c)' <=> Due(o, c)
  BY DEF graceVars, Due, Owns
<1>6. EntriesOfOffline' /\ DueHaveGrace'
  BY <1>4, <1>5 DEF GraceInv, graceVars, EntriesOfOffline, DueHaveGrace
<1>7. ListedOfOffline' /\ ProcessedIsFree' /\ SweepsRelease'
  BY <1>2, <1>4, <1>5 DEF GraceInv, graceVars, ListedOfOffline, ProcessedIsFree, SweepsRelease
<1> QED
  BY <1>1, <1>3, <1>6, <1>7 DEF GraceInv

LEMMA SetCrashKeeps ==
  ASSUME GraceInv, NEW p \in Setters, SetCrash(p), Watch
  PROVE  GraceInv'
<1>1. crashes' \in 0 .. MaxCrashes
  BY MaxCrashesIsNat DEF SetCrash, GraceInv, GraceTypeOK
<1> QED
  BY <1>1, SettingLost DEF SetCrash

LEMMA SweepCrashKeeps ==
  ASSUME GraceInv, NEW s \in Sweepers, SweepCrash(s), Watch
  PROVE  GraceInv'
<1>1. crashes' \in 0 .. MaxCrashes
  BY MaxCrashesIsNat DEF SweepCrash, GraceInv, GraceTypeOK
<1> QED
  BY <1>1, SweepLost DEF SweepCrash

LEMMA SetStatusKeeps ==
  ASSUME GraceInv, NEW p \in Setters, SetStatus(p) \/ SetCrash(p), Watch
  PROVE  GraceInv'
  BY SetSaveKeeps, SetFindKeeps, SetUpsertKeeps, SetDeleteKeeps, SetCrashKeeps DEF SetStatus

LEMMA SweepKeeps ==
  ASSUME GraceInv, NEW s \in Sweepers, Sweep(s) \/ SweepCrash(s), Watch
  PROVE  GraceInv'
  BY SweepStartKeeps, SweepComesToEntry, SweepSaveKeeps, SweepDeleteKeeps, SweepCrashKeeps
     DEF Sweep

\* The inductive invariant: what sweeps with stale lists may still delete is the
\* entry of an operator who has been OFFLINE ever since, for a conversation he
\* no longer has.
THEOREM SweepsAreHarmless == GraceSafetySpec => []GraceInv
<1>1. GraceInv /\ [GraceNext]_graceVars => GraceInv'
  <2> SUFFICES ASSUME GraceInv, [GraceNext]_graceVars PROVE GraceInv'
    OBVIOUS
  <2>1. CASE UNCHANGED graceVars
    BY <2>1, GraceInvStays
  <2>2. CASE GraceNext
    BY <2>2, ServingKeeps, SetStartKeeps, SetStatusKeeps, ExpiresKeeps, SweepKeeps DEF GraceNext
  <2> QED
    BY <2>1, <2>2
<1> QED
  BY <1>1, GraceInvInitially, PTL DEF GraceSafetySpec

\* The tables, the requests, the sweeps and the histories are well-typed.
THEOREM GraceTypeCorrect == GraceSafetySpec => []GraceTypeOK
<1>1. GraceInv => GraceTypeOK
  BY DEF GraceInv
<1> QED
  BY <1>1, SweepsAreHarmless, PTL

\* One status row at most.
LEMMA SettledIsOrderly ==
  ASSUME NEW o \in Operators, Settled(o)
  PROVE  Orderly(o)
<1> DEFINE R == {r \in StatusRows : status[o][r] # "ABSENT"}
<1>1. IsFiniteSet(R) /\ Cardinality(R) <= 1
  BY StatusRowsAreFinite, FS_Subset DEF Settled
<1>2. ASSUME NEW r \in R, NEW q \in R, r # q PROVE FALSE
  <2>1. {r, q} \subseteq R
    OBVIOUS
  <2>2. IsFiniteSet({r}) /\ Cardinality({r}) = 1
    BY FS_Singleton
  <2>3. Cardinality({r} \cup {q}) = 2
    <3>1. Cardinality({r} \cup {q}) = IF q \in {r} THEN Cardinality({r})
                                      ELSE Cardinality({r}) + 1
      BY <2>2, FS_AddElement, Zenon
    <3>2. q \notin {r}
      BY <1>2
    <3> QED
      BY <2>2, <3>1, <3>2
  <2>4. {r} \cup {q} = {r, q}
    OBVIOUS
  <2>5. 2 <= Cardinality(R)
    BY <1>1, <2>1, <2>3, <2>4, FS_Subset
  <2> HIDE DEF R
  <2>6. Cardinality(R) \in Nat
    BY <1>1, FS_CardinalityType
  <2> QED
    BY <1>1, <2>5, <2>6
<1> QED
  BY <1>2 DEF Orderly, Settled

LEMMA InvClearsAvailable == GraceInv => AvailableHasNoGrace
<1> SUFFICES ASSUME GraceInv, NEW o \in Operators, NEW c \in Conversations,
                    Settled(o), Available(o)
             PROVE  grace[<<c, o>>] = "none"
  BY DEF AvailableHasNoGrace
<1>1. Orderly(o) /\ ~Returning(o)
  BY SettledIsOrderly DEF Settled, Returning
<1>2. ~Offline(o)
  BY <1>1 DEF Available, HasRow, Offline, Orderly
<1>3. <<c, o>> \in Entries
  BY DEF Entries
<1> QED
  BY <1>1, <1>2, <1>3 DEF GraceInv, EntriesOfOffline

LEMMA InvCoversOffline == GraceInv => OfflineHasGrace
<1> SUFFICES ASSUME GraceInv, NEW o \in Operators, NEW c \in Conversations,
                    Settled(o), Offline(o), Due(o, c)
             PROVE  grace[<<c, o>>] # "none"
  BY DEF OfflineHasGrace, Due
<1>1. Orderly(o) /\ InProgress(o) = {}
  BY SettledIsOrderly DEF Settled
<1> QED
  BY <1>1 DEF GraceInv, DueHaveGrace

LEMMA InvReleasesOffline == GraceInv => ReleasesAreOfOffline
<1> SUFFICES ASSUME GraceInv, NEW s \in Sweepers, call[s] # Idle, Settled(call[s].by),
                    <<call[s].target, call[s].by>> \notin sweep[s].gone
             PROVE  Offline(call[s].by)
  BY DEF ReleasesAreOfOffline
<1> DEFINE e == sweep[s].entry
<1>1. /\ sweep[s].pc = "entry" /\ e \in Entries
      /\ call[s].by = e[2] /\ call[s].target = e[1]
  BY DEF GraceInv, SweepsRelease
<1>2. e \in ListedBy(s)
  BY <1>1 DEF ListedBy, Entries
<1>3. Orderly(e[2]) /\ ~Returning(e[2])
  BY <1>1, SettledIsOrderly DEF Settled, Returning, Entries
<1> QED
  BY <1>1, <1>2, <1>3 DEF GraceInv, ListedOfOffline

\* Nothing is going to be taken from an operator whose last status request, an
\* AVAILABLE one, has been carried out.
THEOREM AvailableIsClear == GraceSafetySpec => []AvailableHasNoGrace
  BY InvClearsAvailable, SweepsAreHarmless, PTL

\* Every conversation an OFFLINE operator still holds has an entry that will
\* release it, however many sweeps work from stale lists.
THEOREM OfflineIsCovered == GraceSafetySpec => []OfflineHasGrace
  BY InvCoversOffline, SweepsAreHarmless, PTL

\* A sweep takes no conversation from an operator who is back, unless its list is stale.
THEOREM SweepsTakeFromOffline == GraceSafetySpec => []ReleasesAreOfOffline
  BY InvReleasesOffline, SweepsAreHarmless, PTL

-----------------------------------------------------------------------------
(* What Allocation promises of conversations, with sweeps among the callers. *)

\* A step of GracePeriod is one of a caller of the store, or leaves it alone.
LEMMA GraceKindsOfStep ==
  ASSUME GraceInv, GraceNext
  PROVE  \/ UNCHANGED <<conv, call, raced>>
         \/ \E k \in Callers : Quiet(k) \/ Opens(k) \/ SaveStep(k)
<1>1. Clients \subseteq Callers /\ Sweepers \subseteq Callers
  BY CallersAreClientsAndSweepers
<1>2. ASSUME NEW k \in Clients, Serving(k) PROVE Quiet(k) \/ Opens(k) \/ SaveStep(k)
  BY <1>1, <1>2, HandleIsOfAKind DEF Serving, GraceInv
<1>3. ASSUME NEW s \in Sweepers, SweepRead(s) PROVE UNCHANGED <<conv, call, raced>> \/ Opens(s)
  <2>1. PICK e \in sweep[s].todo :
          IF Owns(e[2], e[1])
            THEN Read(s, "sweep", e[2], e[1], Row("QUEUED", None, conv[e[1]].inbox))
            ELSE UNCHANGED <<conv, call, raced>>
    BY <1>3 DEF SweepRead
  <2>2. e \in Entries /\ e[1] \in Conversations /\ e[2] \in Operators
    BY <2>1 DEF GraceInv, GraceTypeOK, Entries
  <2>3. CASE Owns(e[2], e[1])
    BY <2>1, <2>2, <2>3, ReleaseIsAsked DEF Opens, Ops, GraceInv, IInv
  <2> QED
    BY <2>1, <2>3
<1>4. ASSUME NEW s \in Sweepers, SweepCrash(s) PROVE Quiet(s)
  BY <1>1, <1>4, FinishIsQuiet DEF SweepCrash
<1>5. ASSUME NEW s \in Sweepers, SweepSave(s) PROVE SaveStep(s)
  BY <1>5 DEF SweepSave
<1> QED
  BY <1>1, <1>2, <1>3, <1>4, <1>5
     DEF GraceNext, SetStart, SetStatus, SetSave, SetFind, SetUpsertGrace, SetDeleteGrace, SetCrash,
         GraceExpires, Sweep, SweepStart, SweepDelete

\* Sweeps are requests like any other: with them, and with status requests, the
\* service still implements the lifecycle and writes what it has checked.
THEOREM SweepsKeepContract == GraceSafetySpec => ImplementsLifecycle /\ WritesAreWhatWasChecked
<1>1. GraceInit => Lifecycle!Init
  BY InitialLifecycle DEF GraceInit
<1>2. GraceInv /\ [GraceNext]_graceVars =>
        /\ [Lifecycle!Next]_<<conv, raced>>
        /\ [\A k \in Callers : WriteIsWhatWasChecked(k)]_storeVars
  BY GraceKindsOfStep, StepIsLifecycleStep, StepWritesAsChecked
     DEF GraceInv, graceVars, storeVars
<1> QED
  BY <1>1, <1>2, WritesChecked, SweepsAreHarmless, PTL
     DEF GraceSafetySpec, ImplementsLifecycle, Lifecycle!Spec
=============================================================================
