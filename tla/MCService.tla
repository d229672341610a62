------------------------------ MODULE MCService ------------------------------
EXTENDS Service

CONSTANTS o1, o2, i1

\* Every operator may be subscribed to the one inbox.
MCSubscribed == Operators \X Inboxes

\* A lost request, a lost sweep, a restart or a removal, one in a behaviour; the new
\* operator is subscribed and unsubscribed, the other one stays subscribed; and nothing
\* is said once sections overlap on the one conversation or a subscription is removed
\* that a request or the conversation rests on, which alloc_one covers.  A removal is
\* followed while the job of the operator is pending: after that a removed operator
\* differs from the others in the requests he is refused only.
OneFaultUnraced ==
  /\ crashes + restarts + Cardinality(removed) <= 1
  /\ \A o \in removed : outcome[o] = "pending"
  /\ rows[<<o2, i1>>] = 1
  /\ raced = {} /\ lapsed = {} /\ adrift = {}

\* All but failed, a history that no action and no property of this run reads.
WithoutFailed ==
  <<graceVars, memory, outcome, restarts, removed, spoke, listingVars>>
=============================================================================
