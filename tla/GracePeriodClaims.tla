-------------------------- MODULE GracePeriodClaims --------------------------
(***************************************************************************)
(* What the repository's documents say of operator status and grace        *)
(* periods, stated as properties of GracePeriod.  Each is checked against  *)
(* the code as it is, in a run that is expected to violate it.             *)
(***************************************************************************)
EXTENDS GracePeriod

\* DESIGN_DECISION.md:271 "If the operator is still OFFLINE and the conversation
\* is still ALLOCATED to that operator": a sweep takes a conversation from an
\* operator only when he is OFFLINE.
ReleasesOnlyWhileOffline ==
  [][\A s \in Sweepers :
       SaveWrite(s) /\ Owns(call[s].by, call[s].target) =>
         Offline(call[s].by)]_graceVars

\* ARCHITECTURE.md:384 "Expired grace entries ensure conversations do not stay
\* stuck on offline operators."  No conversation stays with an operator whose
\* last status request, an OFFLINE one, has been carried out.
NoneStuckOnOffline ==
  \A o \in Operators, c \in Conversations :
    []<> ~(Settled(o) /\ Offline(o) /\ Owns(o, c))
=============================================================================
