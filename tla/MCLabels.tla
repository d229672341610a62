------------------------------- MODULE MCLabels -------------------------------
EXTENDS LabelClaims, TLC

\* Ids, numbers, names and callers are only ever compared.
Interchangeable ==
  Permutations(Callers) \cup Permutations(Inboxes) \cup Permutations(Phones)
    \cup Permutations(LabelIds) \cup Permutations(Names)
=============================================================================
