------------------------------- MODULE Sessions -------------------------------
(***************************************************************************)
(* Tokens, beside the operators they are given to: AuthService.signup and  *)
(* login, TokenService, and the check DevTokenGuard makes of every request *)
(* that is not public.                                                     *)
(*                                                                         *)
(* A token is a text that names an operator, his role and a time; the      *)
(* guard believes the text if it is stored.  The table has no unique key,  *)
(* so two logins within a second may store the same text twice.  The time  *)
(* is left out, since nothing reads it: any two logins may be that close.  *)
(***************************************************************************)
EXTENDS Operators

CONSTANT Visitors   \* sign-up and login requests in progress at the same time

VARIABLES
  visit,     \* visit[v]: the sign-up or login v
  tokens,    \* the rows of the table token; nothing deletes one
  answered   \* history: the tokens clients have been given

sessionVars == <<operatorVars, visit, tokens, answered>>

Texts     == [operator : Operators, role : Roles]
TokenRows == [text : Texts, operator : Operators]

NoVisit == [pc |-> "idle"]

SessionsInit ==
  /\ OperatorsInit
  /\ visit = [v \in Visitors |-> NoVisit]
  /\ tokens = {}
  /\ answered = {}

-----------------------------------------------------------------------------
\* buildDevLoginResponse: a known role is written into the token as it is.
TokenOf(o, role) == [operator |-> o, role |-> role]

SigningUp == {visit[v].token.operator : v \in {v \in Visitors : visit[v].pc = "enqueue"}}

\* POST /auth/signup: createOperator, up to the answer of the INSERT ...
Signup(v, o, role) ==
  /\ visit[v] = NoVisit
  /\ InsertOperator(o, role)
  /\ visit' = [visit EXCEPT ![v] = [pc |-> "enqueue", token |-> TokenOf(o, role)]]
  /\ UNCHANGED <<tokens, answered>>

\* ... and to the call of registerToken.
SignupEnqueue(v) ==
  /\ visit[v].pc = "enqueue"
  /\ EnqueueCreated(visit[v].token.operator)
  /\ visit' = [visit EXCEPT ![v].pc = "register"]
  /\ UNCHANGED <<tokens, answered>>

\* POST /auth/login, of an operator who is named or drawn by lot.
Login(v, o) ==
  /\ visit[v] = NoVisit
  /\ Active(o)
  /\ visit' = [visit EXCEPT ![v] =
                 [pc |-> "register", token |-> TokenOf(o, person[o].role)]]
  /\ UNCHANGED <<operatorVars, tokens, answered>>

\* Mutant of RegisterToken: the answer does not wait for the INSERT, which fails.
RegisterTokenUnawaited(v) ==
  /\ visit[v].pc = "register"
  /\ visit' = [visit EXCEPT ![v].pc = "answer"]
  /\ UNCHANGED <<operatorVars, tokens, answered>>

RegisterToken(v) ==
  /\ visit[v].pc = "register"
  /\ tokens' = tokens \cup {[text |-> visit[v].token, operator |-> visit[v].token.operator]}
  /\ visit' = [visit EXCEPT ![v].pc = "answer"]
  /\ UNCHANGED <<operatorVars, answered>>

AnswerVisit(v) ==
  /\ visit[v].pc = "answer"
  /\ answered' = answered \cup {visit[v].token}
  /\ visit' = [visit EXCEPT ![v] = NoVisit]
  /\ UNCHANGED <<operatorVars, tokens>>

\* The INSERT of the token fails, or its answer is lost: the operator stays.
VisitFails(v) ==
  /\ visit[v].pc \in {"register", "answer"}
  /\ visit' = [visit EXCEPT ![v] = NoVisit]
  /\ UNCHANGED <<operatorVars, tokens, answered>>

-----------------------------------------------------------------------------
\* findActiveToken joins the operator, unless he has been removed.
Joined(row) == IF Removed(row.operator) THEN None ELSE row.operator

\* canActivate, whichever of the rows with this text it finds.
CanActivate(t) ==
  LET found == {row \in tokens : row.text = t} IN
  /\ found # {}
  /\ \A row \in found : Joined(row) \in {None, t.operator}

-----------------------------------------------------------------------------
Visiting ==
  \E v \in Visitors :
    \/ \E o \in Operators, role \in Roles : Signup(v, o, role)
    \/ SignupEnqueue(v)
    \/ \E o \in Operators : Login(v, o)
    \/ RegisterToken(v)
    \/ AnswerVisit(v)
    \/ VisitFails(v)

\* The requests of OperatorsController, and the queue.
OperatorStep ==
  /\ \/ \E o \in Operators :
          \/ \E role \in Roles : InsertOperator(o, role)
          \/ o \notin SigningUp /\ EnqueueCreated(o)
          \/ RemoveOperator(o)
     \/ \E p \in Editors :
          \/ \E o \in Operators, role \in Roles : FindOperator(p, o, role)
          \/ LoadOperator(p)
          \/ WriteOperator(p)
     \/ QueueStep
  /\ UNCHANGED <<visit, tokens, answered>>

RestartServer ==
  /\ RestartAll
  /\ visit' = [v \in Visitors |-> NoVisit]
  /\ UNCHANGED <<tokens, answered>>

SessionsNext == Visiting \/ OperatorStep \/ RestartServer

SessionsSpec ==
  SessionsInit /\ [][SessionsNext]_sessionVars /\ OperatorsFairness

-----------------------------------------------------------------------------
Visits ==
  {NoVisit} \cup [pc : {"enqueue", "register", "answer"}, token : Texts]

\* Type invariant of the visits and of the table; a token belongs to somebody.
SessionsTypeOK ==
  /\ visit \in [Visitors -> Visits]
  /\ \A v \in Visitors : visit[v] # NoVisit => person[visit[v].token.operator] # None
  /\ tokens \subseteq {row \in TokenRows : person[row.operator] # None}
  /\ answered \subseteq Texts

\* A client who has been given a token can use it from then on: it is stored
\* before it is answered, no other login with the same text takes it from its
\* operator, and updates, removals and restarts leave it as it is.
AnsweredTokensWork == \A t \in answered : CanActivate(t)
=============================================================================
