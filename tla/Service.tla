-------------------------------- MODULE Service --------------------------------
(***************************************************************************)
(* All that happens to conversations at once: requests, sweeps, status     *)
(* requests, the jobs of the queue, and subscriptions that come and go, in *)
(* one process that may be restarted.  Workforce and Subscriptions work on *)
(* the same rows, and a statement of a request is a step of both.          *)
(***************************************************************************)
EXTENDS Workforce, Subscriptions

listingVars == <<rows, seen, lapsed, adrift>>
serviceVars == <<workVars, listingVars>>

\* A new operator has no subscription yet.
ServiceInit ==
  /\ WorkInit
  /\ ScopeInit
  /\ \A p \in Subscribed : p[1] \in Newcomers => rows[p] = 0

-----------------------------------------------------------------------------
ServeSubscribed(k) ==
  /\ ServeStaff(k)
  /\ Note(k)

ListForRequest(k) ==
  /\ ListSubscriptions(k)
  /\ UNCHANGED <<status, grace, setting, sweep, crashes, mixed, queueVars, removed, spoke>>

\* The foreign key refuses an operator who does not exist; a removed one does.
ChangeSubscription(o, i) ==
  /\ \/ Created(o) /\ CreateSubscription(o, i)
     \/ RemoveSubscription(o, i)
  /\ UNCHANGED <<status, grace, setting, sweep, crashes, mixed, queueVars, removed, spoke>>

\* Status requests, jobs, time and sweeps neither read nor write subscriptions.
\* What a sweep releases is given to nobody.
WorkUnsubscribed ==
  /\ \/ \E p \in Setters :
          \/ \E o \in Watched, v \in {"AVAILABLE", "OFFLINE"} : OwnStart(p, o, v)
          \/ OwnStatus(p)
     \/ Attempt
     \/ QueueRuns
     \/ TimeAndSweeps
     \/ \E o \in Newcomers : CreateOperator(o)
     \/ \E o \in Watched : RemoveOperator(o)
  /\ UNCHANGED listingVars

\* The rows of subscriptions survive, what requests had listed does not.
RestartService ==
  /\ RestartProcess
  /\ seen' = [k \in Callers |-> Unlisted]
  /\ lapsed' = {}
  /\ UNCHANGED <<rows, adrift>>

ServiceNext ==
  /\ \/ \E k \in Clients : ServeSubscribed(k) \/ ListForRequest(k)
     \/ \E p \in Subscribed : ChangeSubscription(p[1], p[2])
     \/ WorkUnsubscribed
     \/ RestartService
  /\ Watch

ServiceSpec == ServiceInit /\ [][ServiceNext]_serviceVars
=============================================================================
