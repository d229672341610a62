------------------------ MODULE ConversationLifecycle ------------------------
(***************************************************************************)
(* What the allocation backend promises about a conversation: every        *)
(* request takes effect in one step, on the row it was decided on, and     *)
(* every step is one of the transitions the service offers.                *)
(*                                                                         *)
(* The promise is limited the way the code limits it.  The handlers read   *)
(* a row, decide, and save it without a lock or a version column (the two  *)
(* TODOs in allocation.service.ts); a conversation is "raced" once two     *)
(* such read-decide-save sections have overlapped on it, and nothing is    *)
(* promised about a raced conversation.                                    *)
(***************************************************************************)

CONSTANTS Conversations, Operators, Managers, Inboxes,
          Subscribed,   \* pairs <<operator, inbox>> of the subscription table
          None          \* SQL NULL in a reference column

VARIABLES conv, raced

States == {"QUEUED", "ALLOCATED", "RESOLVED"}

Row(state, o, i) == [state |-> state, assignee |-> o, inbox |-> i]

\* A row that has not been inserted yet.
NoRow == Row("ABSENT", None, None)

Rows == [state    : States \cup {"ABSENT"},
         assignee : Operators \cup {None},
         inbox    : Inboxes \cup {None}]

-----------------------------------------------------------------------------
(* The transitions, as relations between the row before and the row after. *)

Queued(r, s, i) ==
  /\ r = NoRow
  /\ s = Row("QUEUED", None, i)

\* Auto-allocation promises less than a claim: it checks the subscription when
\* it lists the candidates, and the conversation may change inbox before the
\* second read of its row, which looks at the state only.
Allocated(r, s, o) ==
  /\ r.state = "QUEUED"
  /\ s = Row("ALLOCATED", o, r.inbox)

Claimed(r, s, o) ==
  /\ <<o, r.inbox>> \in Subscribed
  /\ Allocated(r, s, o)

Resolved(r, s, o) ==
  /\ r.state = "ALLOCATED"
  /\ r.assignee = o \/ o \in Managers
  /\ s = Row("RESOLVED", r.assignee, r.inbox)

Released(r, s) ==
  /\ r.state = "ALLOCATED"
  /\ s = Row("QUEUED", None, r.inbox)

Reassigned(r, s) ==
  /\ r.state = "ALLOCATED"
  /\ \E o \in Operators :
       /\ <<o, r.inbox>> \in Subscribed
       /\ s = Row("ALLOCATED", o, r.inbox)

Moved(r, s) ==
  /\ r # NoRow
  /\ \E i \in Inboxes :
       s = Row("QUEUED", None, i)

\* The orchestrator's upsert files an existing conversation under the inbox
\* it names and leaves the rest of the lifecycle alone.
Refiled(r, s) ==
  /\ r # NoRow
  /\ \E i \in Inboxes : s = Row(r.state, r.assignee, i)

LegalStep(r, s) ==
  \/ \E i \in Inboxes : Queued(r, s, i)
  \/ \E o \in Operators : Allocated(r, s, o) \/ Resolved(r, s, o)
  \/ Released(r, s)
  \/ Reassigned(r, s)
  \/ Moved(r, s)
  \/ Refiled(r, s)

-----------------------------------------------------------------------------
Init ==
  /\ conv \in [Conversations ->
                 {NoRow} \cup {Row("QUEUED", None, i) : i \in Inboxes}]
  /\ raced = {}

Step(c) ==
  /\ \E r \in Rows : LegalStep(conv[c], r) /\ conv' = [conv EXCEPT ![c] = r]
  /\ UNCHANGED raced

\* Two sections overlap on c: from here on its row may be anything.
Race(c) ==
  /\ raced' = raced \cup {c}
  /\ UNCHANGED conv

Scramble(c) ==
  /\ c \in raced
  /\ \E r \in Rows : conv' = [conv EXCEPT ![c] = r]
  /\ UNCHANGED raced

Next == \E c \in Conversations : Step(c) \/ Race(c) \/ Scramble(c)

Spec == Init /\ [][Next]_<<conv, raced>>
=============================================================================
