---------------------------- MODULE MCGracePeriod ----------------------------
EXTENDS GracePeriodClaims, TLC

CONSTANTS o1, o2, i1

\* Every operator is subscribed to the one inbox.
MCSubscribed == Operators \X Inboxes
=============================================================================
