------------------------------ MODULE LabelClaims ------------------------------
(***************************************************************************)
(* What the repository's documents say of labels, stated as a property of  *)
(* Labels and checked against the code as it is, in a run that is expected *)
(* to violate it.                                                          *)
(***************************************************************************)
EXTENDS Labels

\* DESIGN_DECISION.md:90 "`ConversationLabel` may only link a conversation to
\* labels whose `inboxId` matches the conversation `inboxId`."
LinksMatchInbox ==
  \A t \in links : label[t[2]].inbox = filedIn[t[1]]
=============================================================================
