------------------------------ MODULE MCPriority ------------------------------
EXTENDS Priority, TLC

\* Strings, which stand for the default; one weight three times the default; a
\* negative weight that outweighs the other, and one that does not.
MCConfigs ==
  {<<NotFinite, NotFinite>>, <<3, NotFinite>>, <<-2, NotFinite>>, <<3, -2>>}

ConversationSymmetry == Permutations(Conversations)
=============================================================================
