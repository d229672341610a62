------------------------------ MODULE Catalogue ------------------------------
(***************************************************************************)
(* What InboxesService and LabelsService promise: every request on an      *)
(* inbox, a label or a link takes effect in one step, or has no effect,    *)
(* however the statements of several requests follow each other.  No row   *)
(* of inboxes or labels is ever taken away.                                *)
(*                                                                         *)
(* Two limits are those of the code.  An edit of a label may bring it back *)
(* after a deletion, and a link may be made out of scope when its          *)
(* conversation was moved while attach was under way (astray).             *)
(***************************************************************************)

CONSTANTS Inboxes, Phones, LabelIds, Names, Conversations,
          None   \* no row, no value

VARIABLES inbox, label, filedIn, links, astray

Init ==
  /\ inbox = [i \in Inboxes |-> None]
  /\ label = [l \in LabelIds |-> None]
  /\ filedIn = [c \in Conversations |-> None]
  /\ links = {}
  /\ astray = {}

-----------------------------------------------------------------------------
\* No other inbox, removed or not, has the number.
Unlisted(phone, i) ==
  ~\E j \in Inboxes \ {i} : inbox[j] # None /\ inbox[j].phone = phone

AddInbox(i, phone) ==
  /\ inbox[i] = None
  /\ Unlisted(phone, i)
  /\ inbox' = [inbox EXCEPT ![i] = [phone |-> phone, deleted |-> FALSE]]
  /\ UNCHANGED <<label, filedIn, links>>

Renumber(i, phone) ==
  /\ inbox[i] # None
  /\ Unlisted(phone, i)
  /\ inbox' = [inbox EXCEPT ![i].phone = phone]
  /\ UNCHANGED <<label, filedIn, links>>

RemoveInbox(i) ==
  /\ inbox[i] # None
  /\ inbox' = [inbox EXCEPT ![i].deleted = TRUE]
  /\ UNCHANGED <<label, filedIn, links>>

-----------------------------------------------------------------------------
\* No other label of the inbox, deleted or not, has the name.
Unnamed(i, name, l) ==
  ~\E m \in LabelIds \ {l} :
     label[m] # None /\ label[m].inbox = i /\ label[m].name = name

AddLabel(l, i, name) ==
  /\ label[l] = None
  /\ inbox[i] # None
  /\ Unnamed(i, name, l)
  /\ label' = [label EXCEPT ![l] = [inbox |-> i, name |-> name, deleted |-> FALSE]]
  /\ UNCHANGED <<inbox, filedIn, links>>

\* A label never changes its inbox, and an edit deletes none.
EditLabel(l, name, deleted) ==
  /\ label[l] # None
  /\ deleted => label[l].deleted
  /\ Unnamed(label[l].inbox, name, l)
  /\ label' = [label EXCEPT ![l].name = name, ![l].deleted = deleted]
  /\ UNCHANGED <<inbox, filedIn, links>>

DeleteLabel(l) ==
  /\ label[l] # None
  /\ label' = [label EXCEPT ![l].deleted = TRUE]
  /\ UNCHANGED <<inbox, filedIn, links>>

-----------------------------------------------------------------------------
Link(c, l) ==
  /\ filedIn[c] # None
  /\ label[l] # None
  /\ label[l].inbox = filedIn[c] \/ <<c, l>> \in astray
  /\ links' = links \cup {<<c, l>>}
  /\ UNCHANGED <<inbox, label, filedIn>>

Unlink(c, l) ==
  /\ label[l] # None
  /\ links' = links \ {<<c, l>>}
  /\ UNCHANGED <<inbox, label, filedIn>>

\* A conversation is created in, or moved to, an inbox.
Refile(c, i) ==
  /\ inbox[i] # None
  /\ filedIn' = [filedIn EXCEPT ![c] = i]
  /\ UNCHANGED <<inbox, label, links>>

Operation ==
  \/ \E i \in Inboxes, phone \in Phones : AddInbox(i, phone) \/ Renumber(i, phone)
  \/ \E i \in Inboxes : RemoveInbox(i)
  \/ \E l \in LabelIds, i \in Inboxes, name \in Names : AddLabel(l, i, name)
  \/ \E l \in LabelIds, name \in Names, deleted \in BOOLEAN : EditLabel(l, name, deleted)
  \/ \E l \in LabelIds : DeleteLabel(l)
  \/ \E c \in Conversations, l \in LabelIds : Link(c, l) \/ Unlink(c, l)
  \/ \E c \in Conversations, i \in Inboxes : Refile(c, i)
  \/ UNCHANGED <<inbox, label, filedIn, links>>

\* Only a move leads a pair astray.
OnlyMovesLeadAstray ==
  \A t \in astray' \ astray : filedIn'[t[1]] # filedIn[t[1]]

Next == Operation /\ OnlyMovesLeadAstray

Spec == Init /\ [][Next]_<<inbox, label, filedIn, links, astray>>
=============================================================================
