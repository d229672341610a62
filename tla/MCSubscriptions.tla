--------------------------- MODULE MCSubscriptions ---------------------------
EXTENDS Subscriptions, TLC

CONSTANTS o1, o2, i1, i2

MCSubscribed == {<<o1, i1>>, <<o1, i2>>, <<o2, i1>>}

CallerSymmetry == Permutations(Callers)

\* No property says anything of a conversation on which sections have overlapped,
\* and there is one conversation: nothing is left to see in what follows a race.
Unraced == raced = {}
=============================================================================
