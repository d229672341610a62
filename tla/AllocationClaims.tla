--------------------------- MODULE AllocationClaims ---------------------------
(***************************************************************************)
(* What the repository's documents say of allocation and of conversations, *)
(* stated as properties of Allocation.  Each is checked against the code   *)
(* as it is, in a run that is expected to violate it.                      *)
(***************************************************************************)
EXTENDS Allocation

\* ARCHITECTURE.md:304 "Allocation is atomic; no double assignment."
\* An allocated conversation changes hands only by a reassignment; here the
\* saves of two allocate or claim requests that both found it queued follow
\* one another, and both operators are told the conversation is theirs.
NoDoubleAssignment ==
  [][\A c \in Conversations :
       (/\ conv[c].state = "ALLOCATED" /\ conv'[c].state = "ALLOCATED"
        /\ conv[c].assignee # conv'[c].assignee) =>
         \E k \in Callers : call[k].op = "reassign" /\ call[k].target = c /\ SaveWrite(k)
    ]_storeVars

\* DESIGN_DECISION.md:165 (ConversationsModule) "Does _not_ change state or
\* assignment."  The save of an upsert or a metadata update leaves both alone.
IngestKeepsLifecycle ==
  [][\A k \in Callers :
       LET c == call[k].target IN
       SaveWrite(k) /\ call[k].op \in {"upsert", "metadata"} =>
         /\ conv'[c].state = conv[c].state
         /\ conv'[c].assignee = conv[c].assignee]_storeVars
=============================================================================
