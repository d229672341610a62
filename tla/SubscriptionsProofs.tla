-------------------------- MODULE SubscriptionsProofs --------------------------
(***************************************************************************)
(* Theorems about Subscriptions, for every set of conversations, operators,*)
(* inboxes and callers, every workload, and any number of rows of a pair.  *)
(*                                                                         *)
(* A step of Subscriptions is a step of Allocation or leaves its variables *)
(* alone, so everything AllocationProofs shows of Allocation holds here.   *)
(***************************************************************************)
EXTENDS Subscriptions, AllocationProofs

\* A refused request ends as one that is lost.
LEMMA ScopeStepIsStep ==
  ASSUME ScopeNext
  PROVE  [Next]_storeVars
<1>1. ASSUME NEW k \in Callers, ListSubscriptions(k) PROVE [Next]_storeVars
  <2>1. CASE UNCHANGED call
    BY <1>1, <2>1 DEF ListSubscriptions, storeVars
  <2>2. CASE Finish(k)
    <3>1. Crash(k)
      BY <1>1, <2>2 DEF ListSubscriptions, MustList, Crash
    <3> QED
      BY <3>1 DEF Next, Handle
  <2> QED
    BY <1>1, <2>1, <2>2 DEF ListSubscriptions
<1>2. ASSUME NEW k \in Callers, ServeInScope(k) PROVE [Next]_storeVars
  BY <1>2 DEF ServeInScope, Next
<1>3. ASSUME NEW o, NEW i, CreateSubscription(o, i) \/ RemoveSubscription(o, i)
      PROVE  [Next]_storeVars
  BY <1>3 DEF CreateSubscription, RemoveSubscription, storeVars
<1> QED
  BY <1>1, <1>2, <1>3 DEF ScopeNext

\* With subscriptions that come and go, the service is still that of Allocation,
\* in which any pair that may ever be subscribed is.
THEOREM ScopeIsAllocation == ScopeSpec => Spec
<1>1. ScopeInit => Init
  BY DEF ScopeInit
<1>2. [ScopeNext]_scopeVars => [Next]_storeVars
  BY ScopeStepIsStep DEF scopeVars, storeVars
<1> QED
  BY <1>1, <1>2, PTL DEF ScopeSpec, Spec

\* So its rows stay whole, its writes are what was checked, and it implements
\* the lifecycle.
THEOREM ScopeKeepsContract ==
  ScopeSpec => []IInv /\ WritesAreWhatWasChecked /\ ImplementsLifecycle
  BY ScopeIsAllocation, SectionsExclude, ChecksHoldAtWrite, ServiceImplementsLifecycle

-----------------------------------------------------------------------------
(* The listings hold, and so does what was granted on their strength. *)

\* A request being served is the only one that changes.
LEMMA OnlyOneServed ==
  ASSUME IInv, NEW k \in Callers, Handle(k)
  PROVE  /\ Typed'
         /\ \A j \in Callers \ {k} : call'[j] = call[j]
<1>0. Typed
  BY DEF IInv, Typed
<1>1. Quiet(k) \/ Opens(k) \/ SaveStep(k)
  <2>1. CASE Crash(k)
    BY <2>1, FinishIsQuiet DEF Crash
  <2> QED
    BY <1>0, <2>1, AllocateSteps, ClaimSteps, ManageSteps, IngestSteps DEF Handle
<1>2. Typed'
  BY <1>0, <1>1, QuietKeepsType, ReadKeepsType, SaveKeepsType
<1>3. \E q : call' = [call EXCEPT ![k] = q]
  <2>1. CASE Quiet(k)
    BY <2>1 DEF Quiet
  <2>2. CASE Opens(k)
    BY <2>2 DEF Opens, Read
  <2>3. CASE SaveStep(k)
    BY <2>3 DEF SaveStep, SaveLoad, SaveWrite, SaveInsert, Finish
  <2> QED
    BY <1>1, <2>1, <2>2, <2>3
<1> QED
  BY <1>2, <1>3 DEF IInv, TypeOK

\* What the other requests have listed is left alone.
LEMMA OtherListings ==
  ASSUME IInv, ScopeInv, NEW k \in Callers, ServeInScope(k), NEW j \in Callers \ {k}
  PROVE  ListingHolds(j)'
<1>1. call'[j] = call[j]
  BY OnlyOneServed DEF ServeInScope
<1>2. seen'[j] = seen[j] /\ (j \in lapsed' <=> j \in lapsed) /\ rows' = rows
  BY DEF ServeInScope, Note, ScopeInv, ScopeTypeOK
<1>3. ListingHolds(j)
  BY DEF ScopeInv
<1> QED
  BY <1>1, <1>2, <1>3 DEF ListingHolds, Grantee, IsSubscribed

\* A request that reads its row has listed that inbox or has yet to list, unless
\* it has lapsed.
LEMMA ReadKeepsListing ==
  ASSUME IInv, ScopeInv, NEW k \in Callers, ServeInScope(k), call'[k] # Idle,
         NEW op \in Ops, NEW o \in Operators \cup {None}, NEW c \in Conversations,
         NEW e, Read(k, op, o, c, e),
         op \in Grants => /\ conv[c] # NoRow
                          /\ op = "reassign" \/ e.assignee = o,
         \/ call[k].pc = "fresh" /\ op = "allocate" /\ o = call[k].by
         \/ call[k].pc \in {"idle", "read"} /\ op # "allocate"
  PROVE  ListingHolds(k)'
<1>1. /\ call'[k].op = op /\ call'[k].by = o /\ call'[k].entity = e
      /\ call'[k].pc \in {"load", "insert"}
  BY DEF Read, IInv, TypeOK
<1>2. seen' = seen /\ rows' = rows
      /\ lapsed' = IF Lapses(k) THEN lapsed \cup {k} ELSE lapsed
  BY DEF ServeInScope, Note
<1>3. ListingHolds(k)
  BY DEF ScopeInv
<1>4. CASE call[k].pc = "fresh" /\ op = "allocate" /\ o = call[k].by
  <2>1. call[k].op = "allocate" /\ seen[k].listed
    BY <1>3, <1>4 DEF ListingHolds
  <2>2. call'[k].pc = "load" /\ e.assignee = o
    BY <1>4 DEF Read, IInv, TypeOK, Grants
  <2>3. k \notin lapsed' => k \notin lapsed /\ e.inbox \in seen[k].inboxes
    BY <1>1, <1>2, <1>4, <2>2 DEF Lapses
  <2> QED
    BY <1>1, <1>2, <1>3, <1>4, <2>1, <2>2, <2>3 DEF ListingHolds, Grantee, IsSubscribed
<1>5. CASE call[k].pc \in {"idle", "read"} /\ op # "allocate"
  <2>1. seen'[k] = Unlisted /\ seen'[k].listed = FALSE /\ seen'[k].inboxes = {}
    BY <1>2, <1>3, <1>5 DEF ListingHolds, Unlisted
  <2>2. op \in Grants => (op = "reassign" \/ e.assignee = o)
    OBVIOUS
  <2>3. op # "allocate"
    BY <1>5
  <2> HIDE <1>3
  <2> QED
    BY <1>1, <2>1, <2>2, <2>3 DEF ListingHolds, Grantee, Unlisted, Grants
<1> QED
  BY <1>4, <1>5

\* So does a request of any kind that goes on.
LEMMA ServedKeepsListing ==
  ASSUME IInv, ScopeInv, NEW k \in Callers, ServeInScope(k), call'[k] # Idle
  PROVE  ListingHolds(k)'
<1>0. /\ call[k] \in Request /\ Placed(call[k]) /\ ListingHolds(k)
      /\ seen' = seen /\ rows' = rows /\ Handle(k) /\ ~MustList(k)
      /\ k \notin lapsed' => k \notin lapsed
  BY DEF ServeInScope, Note, IInv, TypeOK, ScopeInv, InScope
<1>ended. ~Finish(k)
  BY DEF Finish, IInv, TypeOK
<1> USE DEF Grants
<1>1. ASSUME NEW op \in {"allocate", "claim"}, NEW o \in Operators,
             NEW c \in Conversations \cup {None},
             Begin(k, op, o, c, IF op = "allocate" THEN "query" ELSE "read")
      PROVE  ListingHolds(k)'
  <2>1. seen'[k] = Unlisted /\ seen'[k].listed = FALSE /\ seen'[k].inboxes = {}
    BY <1>0, <1>1 DEF Begin, Idle, ListingHolds, Unlisted
  <2>2. call'[k].op = op /\ call'[k].pc = IF op = "allocate" THEN "query" ELSE "read"
    BY <1>1 DEF Begin, IInv, TypeOK
  <2> QED
    BY <2>1, <2>2 DEF ListingHolds, Unlisted
<1>2. CASE AllocateQuery(k)
  <2>1. PICK c \in Candidates(call[k].by) :
          call' = [call EXCEPT ![k].pc = "fresh", ![k].target = c]
    BY <1>2, <1>ended DEF AllocateQuery
  <2>2. /\ call'[k].op = call[k].op /\ call'[k].by = call[k].by /\ call'[k].pc = "fresh"
        /\ call[k].pc = "query"
    BY <1>0, <1>2, <2>1 DEF AllocateQuery, IInv, TypeOK, Request
  <2>3. call[k].op = "allocate" /\ seen[k].listed
    BY <1>0, <2>2 DEF ListingHolds, MustList
  <2> QED
    BY <1>0, <2>2, <2>3 DEF ListingHolds, Grantee, IsSubscribed
<1>3. CASE AllocateFresh(k)
  <2> DEFINE c == call[k].target
             e == Row("ALLOCATED", call[k].by, conv[c].inbox)
  <2>1. Read(k, "allocate", call[k].by, c, e) /\ conv[c].state = "QUEUED"
    BY <1>3, <1>ended DEF AllocateFresh
  <2>2. c \in Conversations /\ call[k].by \in Operators /\ e.assignee = call[k].by
    BY <1>0, <1>3 DEF AllocateFresh, Placed, Row, Lifecycle!Row
  <2>3. conv[c] # NoRow /\ call[k].pc = "fresh"
    BY <1>3, <2>1, StateOfNoRow DEF AllocateFresh
  <2> HIDE DEF c, e
  <2> QED
    BY <2>1, <2>2, <2>3, ReadKeepsListing DEF Ops, Requests
<1>4. CASE ClaimRead(k)
  <2> DEFINE c == call[k].target
             e == Row("ALLOCATED", call[k].by, conv[c].inbox)
  <2>1. Read(k, "claim", call[k].by, c, e) /\ conv[c].state = "QUEUED"
    BY <1>4, <1>ended DEF ClaimRead
  <2>2. c \in Conversations /\ call[k].by \in Operators /\ e.assignee = call[k].by
    BY <1>0, <1>4 DEF ClaimRead, Placed, Row, Lifecycle!Row
  <2>3. conv[c] # NoRow /\ call[k].pc = "read"
    BY <1>4, <2>1, StateOfNoRow DEF ClaimRead
  <2> HIDE DEF c, e
  <2> QED
    BY <2>1, <2>2, <2>3, ReadKeepsListing DEF Ops, Requests
<1>5. ASSUME NEW op \in Ops \ {"allocate", "claim"}, NEW o \in Operators \cup {None},
             NEW c \in Conversations, NEW e, Serve(k, op, o, c, e),
             op = "reassign" => conv[c] # NoRow
      PROVE  ListingHolds(k)'
  <2>1. call[k].pc = "idle" /\ Read(k, op, o, c, e)
    BY <1>5 DEF Serve, Idle
  <2> QED
    BY <1>5, <2>1, ReadKeepsListing
<1>6. CASE Manage(k)
  <2> USE DEF Ops, Requests
  <2>1. ASSUME NEW o \in Operators, NEW c \in Conversations, Resolve(k, o, c)
        PROVE  ListingHolds(k)'
    BY <2>1, <1>5 DEF Resolve
  <2>2. ASSUME NEW o \in Operators, NEW c \in Conversations, Deallocate(k, o, c)
        PROVE  ListingHolds(k)'
    BY <2>2, <1>5 DEF Deallocate
  <2>3. ASSUME NEW o \in Operators, NEW c \in Conversations, NEW new \in Operators,
               Reassign(k, o, c, new)
        PROVE  ListingHolds(k)'
    BY <2>3, <1>5, StateOfNoRow DEF Reassign, MayReassign
  <2>4. ASSUME NEW o \in Operators, NEW c \in Conversations, NEW i \in Inboxes,
               MoveInbox(k, o, c, i)
        PROVE  ListingHolds(k)'
    BY <2>4, <1>5 DEF MoveInbox
  <2> QED
    BY <1>6, <2>1, <2>2, <2>3, <2>4 DEF Manage
<1>7. CASE Ingest(k)
  BY <1>7, <1>5 DEF Ingest, Upsert, UpdateMetadata, Ops, Requests
<1>8. CASE SaveLoad(k)
  <2>1. /\ call'[k].op = call[k].op /\ call'[k].by = call[k].by /\ call'[k].pc = "write"
        /\ call'[k].entity = call[k].entity /\ call[k].pc = "load"
    BY <1>0, <1>8 DEF SaveLoad, IInv, TypeOK, Request
  <2>2. call[k].op \in {"claim", "reassign"} => seen[k].listed
    BY <1>0, <2>1 DEF MustList
  <2>3. Grantee(call'[k]) = Grantee(call[k])
    BY <2>1 DEF Grantee
  <2> QED
    BY <1>0, <2>1, <2>2, <2>3 DEF ListingHolds, Grantee, IsSubscribed
<1> QED
  <2>1. ASSUME NEW o \in Operators, AllocateStart(k, o) PROVE ListingHolds(k)'
    BY <1>1, <2>1 DEF AllocateStart
  <2>2. ASSUME NEW o \in Operators, NEW c \in Conversations, ClaimStart(k, o, c)
        PROVE  ListingHolds(k)'
    BY <1>1, <2>2 DEF ClaimStart
  <2>3. ~Crash(k) /\ ~SaveWrite(k) /\ ~SaveInsert(k)
    BY <1>ended DEF Crash, SaveWrite, SaveInsert
  <2> QED
    BY <1>0, <1>2, <1>3, <1>4, <1>6, <1>7, <1>8, <2>1, <2>2, <2>3
    DEF Handle, Allocate, Claim, SaveStep

\* A request that has ended has nothing listed.
LEMMA EndedKeepsListing ==
  ASSUME IInv, ScopeInv, NEW k \in Callers, ServeInScope(k), call'[k] = Idle
  PROVE  ListingHolds(k)'
<1>1. seen'[k] = Unlisted
  BY DEF ServeInScope, Note, ScopeInv, ScopeTypeOK
<1> QED
  BY <1>1 DEF ListingHolds, Unlisted, Idle, Grants

\* Of the requests that give nothing, only an upsert and a metadata update leave
\* a row allocated, and the one changes its inbox at most.
LEMMA OtherWrites ==
  ASSUME NEW r \in Rows, NEW e, NEW op, NEW o, op \notin Grants,
         Asked(op, o, r, e), e.state = "ALLOCATED"
  PROVE  /\ op \in {"upsert", "metadata"}
         /\ op = "metadata" \/ e.inbox = r.inbox => e = r
<1>1. ~Lifecycle!Resolved(r, e, o)
  BY DEF Lifecycle!Resolved, Lifecycle!Row
<1>2. ~Lifecycle!Released(r, e)
  BY DEF Lifecycle!Released, Lifecycle!Row
<1>3. ~Lifecycle!Moved(r, e)
  BY DEF Lifecycle!Moved, Lifecycle!Row
<1>4. \/ op = "upsert" /\ Lifecycle!Refiled(r, e)
      \/ op = "metadata" /\ e = r
  BY <1>1, <1>2, <1>3 DEF Asked, Grants
<1>5. ASSUME Lifecycle!Refiled(r, e), e.inbox = r.inbox PROVE e = r
  <2>1. PICK i \in Inboxes : e = Lifecycle!Row(r.state, r.assignee, i)
    BY <1>5 DEF Lifecycle!Refiled
  <2>2. i = r.inbox
    BY <1>5, <2>1 DEF Lifecycle!Row
  <2> QED
    BY <2>1, <2>2 DEF Lifecycle!Row, Rows, Lifecycle!Rows
<1> QED
  BY <1>4, <1>5

\* The entity of a write on the strength of a listing that still holds is in scope;
\* so is what any other write leaves, unless it files the row elsewhere.
LEMMA WriteInScope ==
  ASSUME IInv, ScopeInv, NEW k \in Callers, SaveWrite(k), adrift' = Drift(k),
         UNCHANGED rows
  PROVE  AllocatedInScope'
<1> DEFINE c == call[k].target
           r == Overwrite(conv[c], call[k].entity, call[k].dirty)
<1>1. /\ c \in Conversations /\ r \in Rows /\ conv[c] \in Rows
      /\ conv' = [conv EXCEPT ![c] = r]
      /\ c \notin raced => r = call[k].entity /\ Asked(call[k].op, call[k].by, conv[c], r)
  BY WriteEffect DEF IInv, TypeOK
<1>2. /\ raced' = raced /\ rows' = rows /\ adrift' = Drift(k)
      /\ ListingHolds(k) /\ call[k].pc = "write"
  BY DEF SaveWrite, ScopeInv
<1>3. \A d \in Conversations : d # c => conv'[d] = conv[d]
  BY <1>1 DEF IInv, TypeOK
<1>4. conv'[c] = r
  BY <1>1 DEF IInv, TypeOK
<1>5. \A d \in Conversations \ {c} : d \notin adrift' => d \notin adrift
  BY <1>2 DEF Drift
<1>6. ASSUME c \notin raced, c \notin adrift', r.state = "ALLOCATED"
      PROVE  IsSubscribed(r.assignee, r.inbox)
  <2>1. r = call[k].entity /\ Asked(call[k].op, call[k].by, conv[c], r)
    BY <1>1, <1>6
  <2>2. CASE call[k].op \in Grants
    <3>1. k \notin lapsed
      BY <1>2, <1>6, <2>2 DEF Drift
    <3>2. seen[k].listed /\ Grantee(call[k]) = r.assignee
      BY <1>2, <2>1, <2>2 DEF ListingHolds, Grants
    <3> QED
      BY <1>2, <2>1, <2>2, <3>1, <3>2 DEF ListingHolds
  <2>3. CASE call[k].op \notin Grants
    <3>1. /\ call[k].op \in {"upsert", "metadata"}
          /\ call[k].op = "metadata" \/ r.inbox = conv[c].inbox => r = conv[c]
      <4> HIDE DEF c, r
      <4> QED
        BY <1>1, <1>6, <2>1, <2>3, OtherWrites
    <3>2. c \notin adrift /\ r = conv[c]
      BY <1>2, <1>6, <2>1, <3>1 DEF Drift, Grants
    <3> QED
      BY <1>1, <1>6, <3>2 DEF ScopeInv, AllocatedInScope
  <2> QED
    BY <2>2, <2>3
<1> HIDE DEF c, r
<1> QED
  BY <1>1, <1>2, <1>3, <1>4, <1>5, <1>6 DEF ScopeInv, AllocatedInScope, IsSubscribed

\* No other statement of a request gives a conversation to anybody.
LEMMA ServedInScope ==
  ASSUME IInv, ScopeInv, NEW k \in Callers, Handle(k), ~SaveWrite(k),
         UNCHANGED <<rows, adrift>>
  PROVE  AllocatedInScope'
<1>1. rows' = rows /\ adrift' = adrift /\ Handle(k)
  OBVIOUS
<1>2. CASE SaveInsert(k)
  <2> DEFINE c == call[k].target
  <2>1. /\ c \in Conversations /\ raced' = raced
        /\ \A d \in Conversations : d # c => conv'[d] = conv[d]
        /\ c \notin raced => conv'[c].state = "QUEUED"
    <3> DEFINE r == IF conv[c] = NoRow THEN call[k].entity ELSE conv[c]
    <3>1. /\ c \in Conversations /\ conv' = [conv EXCEPT ![c] = r]
          /\ c \notin raced => \E i \in Inboxes : r = QueuedRow(i)
      BY <1>2, InsertEffect
    <3>2. \A i \in Inboxes : QueuedRow(i).state = "QUEUED"
      BY DEF QueuedRow, Row, Lifecycle!Row
    <3> HIDE DEF c, r
    <3>3. conv'[c] = r /\ \A d \in Conversations : d # c => conv'[d] = conv[d]
      BY <3>1 DEF IInv, TypeOK
    <3> QED
      BY <1>2, <3>1, <3>2, <3>3 DEF SaveInsert
  <2> HIDE DEF c
  <2> QED
    BY <1>1, <2>1 DEF ScopeInv, AllocatedInScope, IsSubscribed
<1>3. CASE ~SaveInsert(k)
  <2>1. conv' = conv /\ raced \subseteq raced'
    <3>1. CASE Crash(k) \/ SaveLoad(k)
      BY <3>1 DEF Crash, SaveLoad
    <3>2. CASE Quiet(k)
      BY <3>2 DEF Quiet
    <3>3. CASE Opens(k)
      BY <3>3 DEF Opens, Read
    <3> QED
      BY <1>1, <1>3, <3>1, <3>2, <3>3, AllocateSteps, ClaimSteps, ManageSteps,
         IngestSteps DEF Handle, SaveStep, IInv, Typed
  <2> QED
    BY <1>1, <2>1 DEF ScopeInv, AllocatedInScope, IsSubscribed
<1> QED
  BY <1>2, <1>3

\* A request that is served keeps the invariant.
LEMMA ServeKeepsScope ==
  ASSUME IInv, ScopeInv, NEW k \in Callers, ServeInScope(k)
  PROVE  ScopeInv'
<1>1. ScopeTypeOK'
  BY DEF ScopeInv, ScopeTypeOK, ServeInScope, Note, Drift, Unlisted, IInv, TypeOK, Placed,
     SaveWrite
<1>2. \A j \in Callers : ListingHolds(j)'
  BY OtherListings, ServedKeepsListing, EndedKeepsListing
<1> QED
  BY <1>1, <1>2, WriteInScope, ServedInScope DEF ScopeInv, ServeInScope, Note, Drift

\* So does the listing itself.
LEMMA ListKeepsScope ==
  ASSUME IInv, ScopeInv, NEW k \in Callers, ListSubscriptions(k)
  PROVE  ScopeInv'
<1> DEFINE asked == IF call[k].op = "allocate" THEN Inboxes ELSE {call[k].entity.inbox}
           found == {i \in asked : IsSubscribed(Grantee(call[k]), i)}
<1>1. UNCHANGED <<conv, raced, rows, lapsed, adrift>> /\ MustList(k)
  BY DEF ListSubscriptions
<1>2. AllocatedInScope'
  BY <1>1 DEF ScopeInv, AllocatedInScope, IsSubscribed
<1>3. CASE Finish(k) /\ UNCHANGED seen
  <2>1. ASSUME NEW j \in Callers PROVE ListingHolds(j)'
    <3>1. CASE j = k
      <4>1. call'[j] = Idle /\ seen'[j] = Unlisted
        BY <1>1, <1>3, <3>1 DEF Finish, IInv, TypeOK, MustList, ScopeInv, ListingHolds
      <4> QED
        BY <4>1 DEF ListingHolds, Idle, Unlisted, Grants
    <3>2. CASE j # k
      <4>1. call'[j] = call[j] /\ seen'[j] = seen[j] /\ ListingHolds(j)
        BY <1>3, <3>2 DEF Finish, IInv, TypeOK, ScopeInv
      <4> QED
        BY <1>1, <4>1 DEF ListingHolds, Grantee, IsSubscribed
    <3> QED
      BY <3>1, <3>2
  <2> QED
    BY <1>1, <1>2, <1>3, <2>1 DEF ScopeInv, ScopeTypeOK
<1>4. CASE found # {} /\ seen' = [seen EXCEPT ![k] = Listed(found)] /\ UNCHANGED call
  <2>1. asked \subseteq Inboxes \cup {call[k].entity.inbox} /\ found \subseteq asked
    OBVIOUS
  <2>2. found \subseteq Inboxes
    BY SubscriptionsArePairs DEF IsSubscribed
  <2>3. seen'[k] = Listed(found)
    BY <1>4 DEF ScopeInv, ScopeTypeOK
  <2>4. call[k].pc = "load" => call[k].entity.inbox \in found
    BY <1>1, <1>4 DEF MustList
  <2>5. \A i \in found : IsSubscribed(Grantee(call[k]), i)
    OBVIOUS
  <2> HIDE DEF found, asked
  <2>6. seen'[k].listed = TRUE /\ seen'[k].inboxes = found
    BY <2>3 DEF Listed
  <2>7. ASSUME NEW j \in Callers PROVE ListingHolds(j)'
    <3>1. ListingHolds(j) /\ call' = call
      BY <1>4 DEF ScopeInv
    <3>2. CASE j = k
      <4>1. call[k].pc \in {"query", "load"}
        BY <1>1 DEF MustList
      <4> QED
        BY <1>1, <2>4, <2>5, <2>6, <3>1, <3>2, <4>1 DEF ListingHolds, Grantee, IsSubscribed
    <3>3. CASE j # k
      <4>1. seen'[j] = seen[j]
        BY <1>4, <3>3 DEF ScopeInv, ScopeTypeOK
      <4> QED
        BY <1>1, <3>1, <4>1 DEF ListingHolds, Grantee, IsSubscribed
    <3> QED
      BY <3>2, <3>3
  <2>8. ScopeTypeOK'
    BY <1>1, <1>4, <2>2 DEF ScopeInv, ScopeTypeOK, Listed
  <2> QED
    BY <1>2, <2>7, <2>8 DEF ScopeInv
<1> QED
  BY <1>3, <1>4 DEF ListSubscriptions

\* So do changes of the table: who depended on the last row of a pair is noted.
LEMMA TableKeepsScope ==
  ASSUME IInv, ScopeInv, NEW p \in Subscribed,
         CreateSubscription(p[1], p[2]) \/ RemoveSubscription(p[1], p[2])
  PROVE  ScopeInv'
<1>1. p = <<p[1], p[2]>> /\ p[1] \in Operators /\ p[2] \in Inboxes
  BY SubscriptionsArePairs
<1>2. \A x \in Subscribed : rows[x] \in 0 .. MaxRows
  BY DEF ScopeInv, ScopeTypeOK
<1>3. UNCHANGED <<conv, call, raced, seen>>
  BY DEF CreateSubscription, RemoveSubscription
<1>4. CASE CreateSubscription(p[1], p[2])
  <2>1. /\ rows' = [rows EXCEPT ![p] = rows[p] + 1] /\ rows[p] < MaxRows
        /\ UNCHANGED <<lapsed, adrift>>
    BY <1>1, <1>4 DEF CreateSubscription
  <2>2. \A x \in Subscribed : rows'[x] = IF x = p THEN rows[p] + 1 ELSE rows[x]
    BY <2>1 DEF ScopeInv, ScopeTypeOK
  <2>3. \A o, i : IsSubscribed(o, i) => IsSubscribed(o, i)'
    BY <1>2, <2>2, MaxRowsIsNat DEF IsSubscribed
  <2>4. ScopeTypeOK'
    BY <1>2, <1>3, <2>1, MaxRowsIsNat DEF ScopeInv, ScopeTypeOK
  <2>5. AllocatedInScope'
    BY <1>3, <2>1, <2>3 DEF ScopeInv, AllocatedInScope
  <2>6. ASSUME NEW j \in Callers PROVE ListingHolds(j)'
    <3>1. ListingHolds(j) /\ Grantee(call'[j]) = Grantee(call[j])
      BY <1>3 DEF ScopeInv
    <3> QED
      BY <1>3, <2>1, <2>3, <3>1 DEF ListingHolds, Grantee
  <2> QED
    BY <2>4, <2>5, <2>6 DEF ScopeInv
<1>5. CASE RemoveSubscription(p[1], p[2])
  <2>1. /\ rows' = [rows EXCEPT ![p] = rows[p] - 1] /\ rows[p] > 0
        /\ IF rows[p] > 1
             THEN UNCHANGED <<lapsed, adrift>>
             ELSE /\ lapsed' = lapsed \cup
                       {k \in Callers : p[2] \in seen[k].inboxes /\ Grantee(call[k]) = p[1]}
                  /\ adrift' = adrift \cup
                       {c \in Conversations : conv[c] = Row("ALLOCATED", p[1], p[2])}
    BY <1>1, <1>5 DEF RemoveSubscription
  <2>2. \A x \in Subscribed : rows'[x] = IF x = p THEN rows[p] - 1 ELSE rows[x]
    BY <2>1 DEF ScopeInv, ScopeTypeOK
  <2>3. \A o, i : IsSubscribed(o, i) =>
          IsSubscribed(o, i)' \/ (rows[p] = 1 /\ o = p[1] /\ i = p[2])
    BY <1>1, <1>2, <2>2, MaxRowsIsNat DEF IsSubscribed
  <2>4. ScopeTypeOK'
    <3>1. rows' \in [Subscribed -> 0 .. MaxRows]
      BY <1>2, <2>1, MaxRowsIsNat DEF ScopeInv, ScopeTypeOK
    <3> QED
      BY <1>3, <2>1, <3>1 DEF ScopeInv, ScopeTypeOK
  <2>5. AllocatedInScope'
    <3> SUFFICES ASSUME NEW c \in Conversations, c \notin raced, c \notin adrift',
                        conv[c].state = "ALLOCATED"
                 PROVE  IsSubscribed(conv[c].assignee, conv[c].inbox)'
      BY <1>3 DEF AllocatedInScope, IsSubscribed
    <3>1. IsSubscribed(conv[c].assignee, conv[c].inbox)
      BY <2>1 DEF ScopeInv, AllocatedInScope
    <3>2. conv[c] = Row("ALLOCATED", conv[c].assignee, conv[c].inbox)
      BY DEF IInv, TypeOK, Row, Lifecycle!Row, Rows, Lifecycle!Rows
    <3>3. ~(rows[p] = 1 /\ conv[c].assignee = p[1] /\ conv[c].inbox = p[2])
      BY <2>1, <3>2
    <3> QED
      BY <1>3, <2>3, <3>1, <3>3 DEF IsSubscribed
  <2>6. ASSUME NEW j \in Callers PROVE ListingHolds(j)'
    <3>1. ListingHolds(j) /\ call' = call /\ seen' = seen
      BY <1>3 DEF ScopeInv
    <3>2. j \notin lapsed' => j \notin lapsed
      BY <2>1
    <3>3. ASSUME j \notin lapsed', NEW i \in seen[j].inboxes
          PROVE  IsSubscribed(Grantee(call[j]), i)'
      <4>1. IsSubscribed(Grantee(call[j]), i)
        BY <3>1, <3>2, <3>3 DEF ListingHolds
      <4>2. ~(rows[p] = 1 /\ Grantee(call[j]) = p[1] /\ i = p[2])
        BY <2>1, <3>3
      <4> HIDE <2>1
      <4>3. Grantee(call[j])' = Grantee(call[j])
        BY <3>1 DEF Grantee
      <4> QED
        BY <2>3, <3>1, <4>1, <4>2, <4>3 DEF IsSubscribed, Grantee
    <3> QED
      BY <3>1, <3>2, <3>3 DEF ListingHolds, Grantee, IsSubscribed
  <2> QED
    BY <2>4, <2>5, <2>6 DEF ScopeInv
<1> QED
  BY <1>4, <1>5

LEMMA ScopeInitially == ScopeInit => ScopeInv
<1> SUFFICES ASSUME ScopeInit PROVE ScopeInv
  OBVIOUS
<1>1. ScopeTypeOK
  BY MaxRowsIsNat DEF ScopeInit, ScopeTypeOK, Unlisted
<1>2. \A k \in Callers : ListingHolds(k)
  BY DEF ScopeInit, Init, StoreInit, ListingHolds, Idle, Unlisted, Grants
<1>3. \A c \in Conversations : conv[c].state # "ALLOCATED"
  BY StateOfNoRow DEF ScopeInit, Init, StoreInit, QueuedRow, Row, Lifecycle!Row
<1> QED
  BY <1>1, <1>2, <1>3 DEF ScopeInv, AllocatedInScope

\* A request that gives a conversation has listed a subscription that covers what
\* it is about to write, and unless that subscription has been removed or the row
\* moved since, it is there still.
THEOREM ListingsHold == ScopeSpec => []ScopeInv
<1>1. ScopeInit => ScopeInv
  BY ScopeInitially
<1>2. IInv /\ ScopeInv /\ [ScopeNext]_scopeVars => ScopeInv'
  <2>1. CASE UNCHANGED scopeVars
    BY <2>1 DEF scopeVars, ScopeInv, ScopeTypeOK, ListingHolds, Grantee, AllocatedInScope,
       IsSubscribed
  <2> QED
    BY <2>1, ServeKeepsScope, ListKeepsScope, TableKeepsScope DEF ScopeNext
<1>3. ScopeSpec => []IInv
  BY ScopeKeepsContract, PTL
<1> QED
  BY <1>1, <1>2, <1>3, PTL DEF ScopeSpec

\* An operator works on a conversation only while he is subscribed to its inbox,
\* unless one of the four things Subscriptions names has come in between.
THEOREM AllocationsInScope == ScopeSpec => []AllocatedInScope
<1>1. ScopeInv => AllocatedInScope
  BY DEF ScopeInv
<1> QED
  BY <1>1, ListingsHold, PTL
=============================================================================
