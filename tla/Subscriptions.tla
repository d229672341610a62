----------------------------- MODULE Subscriptions -----------------------------
(***************************************************************************)
(* The table operator-inbox-subscriptions, which decides what an operator  *)
(* may be given, changing while requests of Allocation are being served.   *)
(*                                                                         *)
(* allocate lists the inboxes of its operator before it queries for        *)
(* candidates; claim and reassign look for a subscription to the inbox of  *)
(* the row they have read.  Each is a statement of its own, and what it    *)
(* found is not looked at again.  The table has no unique key: creating a  *)
(* subscription twice makes two rows, and DELETE /:id removes one of them. *)
(*                                                                         *)
(* Subscribed, the constant table of Allocation, is here the set of pairs  *)
(* that may have rows; that they do is checked beside its handlers.        *)
(***************************************************************************)
EXTENDS Allocation

CONSTANT MaxRows   \* bound on the rows of a pair

ASSUME MaxRowsIsNat == MaxRows \in Nat

VARIABLES
  rows,     \* rows[p]: the number of rows of the pair p = <<operator, inbox>>
  seen,     \* seen[k]: the inboxes that the listing of request k returned
  lapsed,   \* history: requests whose listing no longer holds for their row,
            \* because a subscription was removed or the row was moved since
  adrift    \* history: conversations given by such a request, filed elsewhere by
            \* an upsert, or whose operator was unsubscribed, since they were given

scopeVars == <<conv, call, raced, rows, seen, lapsed, adrift>>

Grants == {"allocate", "claim", "reassign"}

Unlisted    == [listed |-> FALSE, inboxes |-> {}]
Listed(ins) == [listed |-> TRUE, inboxes |-> ins]

ScopeInit ==
  /\ Init
  /\ rows \in [Subscribed -> {0, 1} \cap 0 .. MaxRows]
  /\ seen = [k \in Callers |-> Unlisted]
  /\ lapsed = {}
  /\ adrift = {}

IsSubscribed(o, i) == <<o, i>> \in Subscribed /\ rows[<<o, i>>] > 0

\* The operator to whom request q gives a conversation.
Grantee(q) == IF q.op = "reassign" THEN q.entity.assignee ELSE q.by

\* Caller k cannot go on before it has listed subscriptions.
MustList(k) ==
  /\ ~seen[k].listed
  /\ \/ call[k].op = "allocate" /\ call[k].pc = "query"
     \/ call[k].op \in {"claim", "reassign"} /\ call[k].pc = "load"

-----------------------------------------------------------------------------
\* Mutant of ListSubscriptions: claim and reassign do not filter by inbox.
ListSubscriptionsOfAllInboxes(k) ==
  LET found == {i \in Inboxes : IsSubscribed(Grantee(call[k]), i)} IN
  /\ MustList(k)
  /\ \/ found = {} /\ Finish(k) /\ UNCHANGED seen
     \/ found # {} /\ seen' = [seen EXCEPT ![k] = Listed(found)] /\ UNCHANGED call
  /\ UNCHANGED <<conv, raced, rows, lapsed, adrift>>

\* Mutant of ListSubscriptions: reassign looks for those of the manager.
ListSubscriptionsOfCaller(k) ==
  LET asked == IF call[k].op = "allocate" THEN Inboxes ELSE {call[k].entity.inbox}
      found == {i \in asked : IsSubscribed(call[k].by, i)} IN
  /\ MustList(k)
  /\ \/ found = {} /\ Finish(k) /\ UNCHANGED seen
     \/ found # {} /\ seen' = [seen EXCEPT ![k] = Listed(found)] /\ UNCHANGED call
  /\ UNCHANGED <<conv, raced, rows, lapsed, adrift>>

\* listByTenant: all inboxes of the operator, or only that of the row.  The
\* request is refused if there is none.
ListSubscriptions(k) ==
  LET asked == IF call[k].op = "allocate" THEN Inboxes ELSE {call[k].entity.inbox}
      found == {i \in asked : IsSubscribed(Grantee(call[k]), i)} IN
  /\ MustList(k)
  /\ \/ found = {} /\ Finish(k) /\ UNCHANGED seen
     \/ found # {} /\ seen' = [seen EXCEPT ![k] = Listed(found)] /\ UNCHANGED call
  /\ UNCHANGED <<conv, raced, rows, lapsed, adrift>>

\* A step of Allocation, which a request takes only when it has listed what it
\* has to; a request that finds no candidate in its inboxes ends, as one that
\* is lost does.
InScope(k) ==
  call'[k] # Idle =>
    /\ ~MustList(k)
    /\ call[k].pc = "query" => conv[call'[k].target].inbox \in seen[k].inboxes

\* allocate reads its row again, and finds it in an inbox it had not listed.
Lapses(k) ==
  /\ call[k].pc = "fresh"
  /\ call'[k].pc = "load"
  /\ call'[k].entity.inbox \notin seen[k].inboxes

\* What the write of k means for the scope of its conversation.
Drift(k) ==
  LET q == call[k] IN
  IF ~SaveWrite(k) THEN adrift
  ELSE IF q.op \in Grants
    THEN IF k \in lapsed THEN adrift \cup {q.target} ELSE adrift \ {q.target}
  ELSE IF q.op = "upsert" /\ q.entity.inbox # conv[q.target].inbox
    THEN adrift \cup {q.target}
  ELSE adrift

\* What a step of request k means for its listing and its row.
Note(k) ==
  /\ InScope(k)
  /\ seen' = IF call'[k] = Idle THEN [seen EXCEPT ![k] = Unlisted] ELSE seen
  /\ lapsed' = IF call'[k] = Idle THEN lapsed \ {k}
               ELSE IF Lapses(k) THEN lapsed \cup {k} ELSE lapsed
  /\ adrift' = Drift(k)
  /\ UNCHANGED rows

ServeInScope(k) == Handle(k) /\ Note(k)

-----------------------------------------------------------------------------
\* POST /operator-inbox-subscriptions
CreateSubscription(o, i) ==
  /\ rows[<<o, i>>] < MaxRows
  /\ rows' = [rows EXCEPT ![<<o, i>>] = @ + 1]
  /\ UNCHANGED <<conv, call, raced, seen, lapsed, adrift>>

\* DELETE /operator-inbox-subscriptions/:id, for one of the rows of the pair.
\* Requests that have listed it and conversations it covers are left alone.
RemoveSubscription(o, i) ==
  /\ rows[<<o, i>>] > 0
  /\ rows' = [rows EXCEPT ![<<o, i>>] = @ - 1]
  /\ IF rows[<<o, i>>] > 1
       THEN UNCHANGED <<lapsed, adrift>>
       ELSE /\ lapsed' = lapsed \cup
                 {k \in Callers : i \in seen[k].inboxes /\ Grantee(call[k]) = o}
            /\ adrift' = adrift \cup
                 {c \in Conversations : conv[c] = Row("ALLOCATED", o, i)}
  /\ UNCHANGED <<conv, call, raced, seen>>

ScopeNext ==
  \/ \E k \in Callers : ListSubscriptions(k) \/ ServeInScope(k)
  \/ \E p \in Subscribed : CreateSubscription(p[1], p[2]) \/ RemoveSubscription(p[1], p[2])

ScopeSpec == ScopeInit /\ [][ScopeNext]_scopeVars

-----------------------------------------------------------------------------
\* Type invariant of the table, the listings and the histories.
ScopeTypeOK ==
  /\ rows \in [Subscribed -> 0 .. MaxRows]
  /\ seen \in [Callers -> [listed : BOOLEAN, inboxes : SUBSET Inboxes]]
  /\ lapsed \subseteq Callers
  /\ adrift \subseteq Conversations

\* An operator works on a conversation only while he is subscribed to its inbox,
\* although the subscription was looked up several statements before the row was
\* written, unless one of four things came in between: two sections overlapped on
\* the row, his last subscription was removed, the row was moved between the
\* query and the second read of allocate, or an upsert filed it elsewhere.
AllocatedInScope ==
  \A c \in Conversations \ (raced \cup adrift) :
    conv[c].state = "ALLOCATED" => IsSubscribed(conv[c].assignee, conv[c].inbox)

\* What a request that gives a conversation has listed covers what it is going
\* to write: the inductive invariant beside IInv.
ListingHolds(k) ==
  LET q == call[k] IN
  /\ ~seen[k].listed => seen[k] = Unlisted
  /\ q.pc \in {"idle", "read"} => ~seen[k].listed
  /\ q.pc \in {"query", "fresh"} => q.op = "allocate"
  /\ q.op = "allocate" /\ q.pc \in {"fresh", "load", "write"} => seen[k].listed
  /\ q.op \in {"claim", "reassign"} /\ q.pc = "write" => seen[k].listed
  /\ q.op \in Grants /\ q.pc \in {"load", "write"} =>
       /\ Grantee(q) = q.entity.assignee
       /\ seen[k].listed /\ k \notin lapsed => q.entity.inbox \in seen[k].inboxes
  /\ k \notin lapsed => \A i \in seen[k].inboxes : IsSubscribed(Grantee(q), i)

ScopeInv ==
  /\ ScopeTypeOK
  /\ \A k \in Callers : ListingHolds(k)
  /\ AllocatedInScope
=============================================================================
