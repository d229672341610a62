---------------------------- MODULE OperatorsProofs ----------------------------
(***************************************************************************)
(* Theorems about the rows of Operators and the tokens of Sessions, for    *)
(* any number of operators, roles and concurrent requests, and the queue   *)
(* beside them.                                                            *)
(***************************************************************************)
EXTENDS Sessions, OperatorStatusQueueProofs

\* The inductive invariant: an update works on a row that exists.
PersonInv ==
  /\ OperatorsTypeOK
  /\ \A p \in Editors : edit[p] # NoEdit => person[edit[p].operator] # None

\* What an update request holds, by the statement that comes next.
LEMMA EditFields ==
  ASSUME PersonInv, NEW p \in Editors, edit[p].pc \in {"load", "write"}
  PROVE  /\ edit[p] # NoEdit
         /\ edit[p].operator \in Operators
         /\ edit[p].row \in Persons
         /\ edit[p].pc = "write" => edit[p].dirty \in SUBSET Columns
         /\ person[edit[p].operator] \in Persons
<1>1. edit[p] \in Edits /\ edit[p] # NoEdit
  BY DEF PersonInv, OperatorsTypeOK, NoEdit
<1>2. \/ edit[p] \in [pc : {"load"}, operator : Operators, row : Persons]
      \/ edit[p] \in [pc : {"write"}, operator : Operators, row : Persons,
                      dirty : SUBSET Columns]
  BY <1>1 DEF Edits
<1>3. edit[p].operator \in Operators /\ edit[p].row \in Persons
  BY <1>2
<1>4. edit[p].pc = "write" => edit[p].dirty \in SUBSET Columns
  BY <1>2
<1> QED
  BY <1>1, <1>3, <1>4 DEF PersonInv, OperatorsTypeOK

\* The row an UPDATE leaves is well-typed, whichever of its columns it sets.
LEMMA MergedRow ==
  ASSUME NEW r \in Persons, NEW s \in Persons, NEW d
  PROVE  [f \in Columns |-> IF f \in d THEN s[f] ELSE r[f]] \in Persons
<1> DEFINE m == [f \in Columns |-> IF f \in d THEN s[f] ELSE r[f]]
<1>1. m.role = (IF "role" \in d THEN s.role ELSE r.role)
  BY DEF Columns
<1>2. m.deleted = (IF "deleted" \in d THEN s.deleted ELSE r.deleted)
  BY DEF Columns
<1>3. m = [role |-> m.role, deleted |-> m.deleted]
  BY DEF Columns
<1> HIDE DEF m
<1>4. m.role \in Roles /\ m.deleted \in BOOLEAN
  BY <1>1, <1>2 DEF Persons
<1>5. m \in Persons
  BY <1>3, <1>4 DEF Persons
<1> QED
  BY <1>5 DEF m

LEMMA InsertKeepsInv ==
  ASSUME PersonInv, NEW o \in Operators, NEW role \in Roles, InsertOperator(o, role)
  PROVE  PersonInv'
<1>1. [role |-> role, deleted |-> FALSE] \in Persons /\ None \notin Persons
  BY NoneIsNoPerson DEF Persons
<1>2. OperatorsTypeOK'
  BY <1>1 DEF InsertOperator, PersonInv, OperatorsTypeOK
<1>3. \A q \in Operators : person[q] # None => person'[q] # None
  BY <1>1 DEF InsertOperator, PersonInv, OperatorsTypeOK
<1>4. ASSUME NEW p \in Editors, edit[p] # NoEdit
      PROVE  edit[p].operator \in Operators
  BY <1>4 DEF PersonInv, OperatorsTypeOK, Edits
<1> QED
  BY <1>2, <1>3, <1>4 DEF InsertOperator, PersonInv

LEMMA RemoveKeepsInv ==
  ASSUME PersonInv, NEW o \in Operators, RemoveOperator(o)
  PROVE  PersonInv'
<1> DEFINE r == [person[o] EXCEPT !.deleted = TRUE]
<1>1. r \in Persons /\ None \notin Persons
  BY NoneIsNoPerson DEF RemoveOperator, Active, PersonInv, OperatorsTypeOK, Persons
<1>2. person' = [person EXCEPT ![o] = r] /\ UNCHANGED <<creating, edit>>
  BY DEF RemoveOperator
<1> HIDE DEF r
<1>3. OperatorsTypeOK'
  BY <1>1, <1>2 DEF PersonInv, OperatorsTypeOK
<1>4. \A q \in Operators : person[q] # None => person'[q] # None
  BY <1>1, <1>2 DEF PersonInv, OperatorsTypeOK
<1>5. ASSUME NEW p \in Editors, edit[p] # NoEdit
      PROVE  edit[p].operator \in Operators
  BY <1>5 DEF PersonInv, OperatorsTypeOK, Edits
<1> QED
  BY <1>2, <1>3, <1>4, <1>5 DEF PersonInv

LEMMA FindKeepsInv ==
  ASSUME PersonInv, NEW p \in Editors, NEW o \in Operators, NEW role \in Roles,
         FindOperator(p, o, role)
  PROVE  PersonInv'
<1> DEFINE e == [pc |-> "load", operator |-> o, row |-> [role |-> role, deleted |-> FALSE]]
<1>1. e \in Edits /\ e.operator = o
  BY DEF Edits, Persons
<1>2. edit' = [edit EXCEPT ![p] = e] /\ UNCHANGED <<person, creating>> /\ person[o] # None
  BY DEF FindOperator, Active
<1> HIDE DEF e
<1> QED
  BY <1>1, <1>2 DEF PersonInv, OperatorsTypeOK

LEMMA LoadKeepsInv ==
  ASSUME PersonInv, NEW p \in Editors, LoadOperator(p)
  PROVE  PersonInv'
<1>1. PICK d \in SUBSET Columns :
        edit' = [edit EXCEPT ![p] =
                   IF d = {} THEN NoEdit
                   ELSE [pc |-> "write", operator |-> @.operator, row |-> @.row, dirty |-> d]]
  <2> DEFINE d == {f \in Columns : edit[p].row[f] # person[edit[p].operator][f]}
  <2>1. d \in SUBSET Columns
    OBVIOUS
  <2> QED
    BY <2>1, Zenon DEF LoadOperator
<1>2. /\ edit[p].operator \in Operators /\ edit[p].row \in Persons
      /\ person[edit[p].operator] # None
  BY EditFields DEF LoadOperator, PersonInv
<1> DEFINE e == [pc |-> "write", operator |-> edit[p].operator, row |-> edit[p].row, dirty |-> d]
<1>3. e \in Edits /\ e.operator = edit[p].operator
  BY <1>2 DEF Edits
<1>4. edit' = [edit EXCEPT ![p] = IF d = {} THEN NoEdit ELSE e] /\ UNCHANGED <<person, creating>>
  BY <1>1 DEF LoadOperator
<1>5. NoEdit \in Edits
  BY DEF Edits
<1> HIDE DEF e
<1> QED
  BY <1>2, <1>3, <1>4, <1>5 DEF PersonInv, OperatorsTypeOK

LEMMA WriteKeepsInv ==
  ASSUME PersonInv, NEW p \in Editors, WriteOperator(p)
  PROVE  PersonInv'
<1> DEFINE o == edit[p].operator
           r == [f \in Columns |-> IF f \in edit[p].dirty THEN edit[p].row[f] ELSE person[o][f]]
<1>1. o \in Operators /\ r \in Persons /\ None \notin Persons
  BY EditFields, MergedRow, NoneIsNoPerson DEF WriteOperator, Persons
<1>2. person' = [person EXCEPT ![o] = r] /\ edit' = [edit EXCEPT ![p] = NoEdit]
      /\ UNCHANGED creating
  BY DEF WriteOperator
<1>3. NoEdit \in Edits
  BY DEF Edits
<1> HIDE DEF o, r
<1>4. OperatorsTypeOK'
  BY <1>1, <1>2, <1>3 DEF PersonInv, OperatorsTypeOK
<1>5. \A q \in Operators : person[q] # None => person'[q] # None
  BY <1>1, <1>2 DEF PersonInv, OperatorsTypeOK
<1>6. ASSUME NEW q \in Editors, edit[q] # NoEdit
      PROVE  edit[q].operator \in Operators
  BY <1>6 DEF PersonInv, OperatorsTypeOK, Edits
<1> QED
  BY <1>2, <1>4, <1>5, <1>6 DEF PersonInv, OperatorsTypeOK

LEMMA PersonInvStep ==
  ASSUME PersonInv, [OperatorsNext]_operatorVars
  PROVE  PersonInv'
<1>1. CASE UNCHANGED operatorVars
  BY <1>1 DEF operatorVars, PersonInv, OperatorsTypeOK
<1>2. ASSUME NEW o \in Operators, EnqueueCreated(o)
      PROVE  PersonInv'
  BY <1>2 DEF EnqueueCreated, PersonInv, OperatorsTypeOK
<1>3. CASE QueueStep
  BY <1>3 DEF QueueStep, PersonInv, OperatorsTypeOK
<1>4. CASE RestartAll
  BY <1>4 DEF RestartAll, PersonInv, OperatorsTypeOK, Edits
<1> QED
  BY <1>1, <1>2, <1>3, <1>4, InsertKeepsInv, RemoveKeepsInv, FindKeepsInv, LoadKeepsInv,
     WriteKeepsInv DEF OperatorsNext

LEMMA PersonInvAlways == OperatorsSpec => []PersonInv
<1>1. OperatorsInit => PersonInv
  BY DEF OperatorsInit, PersonInv, OperatorsTypeOK, Edits
<1> QED
  BY <1>1, PersonInvStep, PTL DEF OperatorsSpec

\* Rows of operators and update requests stay well-typed, and a job is only waiting
\* to be queued for an operator whose row is there.
THEOREM OperatorsTypeCorrect == OperatorsSpec => []OperatorsTypeOK
<1>1. PersonInv => OperatorsTypeOK
  BY DEF PersonInv
<1> QED
  BY <1>1, PersonInvAlways, PTL

\* No request that starts after the removal of an operator changes his row or
\* finds him: only an update that had found him before can bring him back, once.
THEOREM RemovalIsFinal == OperatorsSpec => RemovedOperatorsStay
<1> DEFINE Stays(o) == /\ EditorsOf(o)' \subseteq EditorsOf(o)
                       /\ person'[o] # person[o] => EditorsOf(o)' # EditorsOf(o)
<1>1. PersonInv /\ [OperatorsNext]_operatorVars =>
        \A o \in Operators : Removed(o) => Stays(o)
  <2> SUFFICES ASSUME PersonInv, [OperatorsNext]_operatorVars,
                      NEW o \in Operators, Removed(o)
               PROVE  Stays(o)
    OBVIOUS
  <2> USE DEF PersonInv, OperatorsTypeOK, EditorsOf, Removed, Active
  <2>1. CASE UNCHANGED operatorVars
    BY <2>1 DEF operatorVars
  <2>2. ASSUME NEW q \in Operators, NEW role \in Roles, InsertOperator(q, role)
        PROVE  Stays(o)
    BY <2>2 DEF InsertOperator
  <2>3. ASSUME NEW q \in Operators, EnqueueCreated(q) \/ RemoveOperator(q)
        PROVE  Stays(o)
    BY <2>3 DEF EnqueueCreated, RemoveOperator
  <2>4. ASSUME NEW p \in Editors, NEW q \in Operators, NEW role \in Roles,
               FindOperator(p, q, role)
        PROVE  Stays(o)
    <3>1. q # o
      BY <2>4 DEF FindOperator
    <3> QED
      BY <2>4, <3>1 DEF FindOperator
  <2>5. ASSUME NEW p \in Editors, LoadOperator(p)
        PROVE  Stays(o)
    <3>1. edit[p] # NoEdit /\ UNCHANGED person
      BY <2>5, EditFields DEF LoadOperator
    <3>2. edit'[p] = NoEdit \/ edit'[p].operator = edit[p].operator
      BY <2>5 DEF LoadOperator
    <3>3. \A q \in Editors \ {p} : edit'[q] = edit[q]
      BY <2>5 DEF LoadOperator
    <3> QED
      BY <3>1, <3>2, <3>3
  <2>6. ASSUME NEW p \in Editors, WriteOperator(p)
        PROVE  Stays(o)
    <3>1. edit[p] # NoEdit /\ edit'[p] = NoEdit
      BY <2>6, EditFields DEF WriteOperator
    <3>2. \A q \in Editors \ {p} : edit'[q] = edit[q]
      BY <2>6 DEF WriteOperator
    <3>3. edit[p].operator # o => person'[o] = person[o]
      BY <2>6 DEF WriteOperator
    <3>4. EditorsOf(o)' = EditorsOf(o) \ {p}
      BY <3>1, <3>2
    <3>5. edit[p].operator = o => p \in EditorsOf(o)
      BY <3>1
    <3> QED
      BY <3>3, <3>4, <3>5
  <2>7. CASE QueueStep \/ RestartAll
    BY <2>7 DEF QueueStep, RestartAll
  <2> QED
    BY <2>1, <2>2, <2>3, <2>4, <2>5, <2>6, <2>7 DEF OperatorsNext
<1> QED
  BY <1>1, PersonInvAlways, PTL DEF OperatorsSpec, RemovedOperatorsStay

-----------------------------------------------------------------------------
(* Tokens. *)

\* The inductive invariant: a token is stored under the operator its text names,
\* and before its request goes on to the answer.
StoredFor(t) == [text |-> t, operator |-> t.operator]

SessionsInv ==
  /\ PersonInv
  /\ SessionsTypeOK
  /\ \A row \in tokens : row = StoredFor(row.text)
  /\ \A v \in Visitors : visit[v].pc = "answer" => StoredFor(visit[v].token) \in tokens
  /\ \A t \in answered : StoredFor(t) \in tokens

LEMMA VisitFields ==
  ASSUME SessionsInv, NEW v \in Visitors, visit[v].pc # "idle"
  PROVE  /\ visit[v].token \in Texts /\ visit[v].token.operator \in Operators
         /\ visit[v] = [pc |-> visit[v].pc, token |-> visit[v].token]
         /\ person[visit[v].token.operator] # None
         /\ visit[v].pc \in {"enqueue", "register", "answer"}
<1>1. visit[v] \in Visits /\ visit[v] # NoVisit
  BY DEF SessionsInv, SessionsTypeOK, NoVisit
<1>2. visit[v] \in [pc : {"enqueue", "register", "answer"}, token : Texts]
  BY <1>1 DEF Visits
<1> QED
  BY <1>1, <1>2 DEF SessionsInv, SessionsTypeOK, Texts

LEMMA SessionStepIsOperatorStep ==
  ASSUME SessionsInv, [SessionsNext]_sessionVars
  PROVE  [OperatorsNext]_operatorVars
<1>1. CASE UNCHANGED sessionVars
  BY <1>1 DEF sessionVars
<1>2. CASE Visiting
  <2>1. ASSUME NEW v \in Visitors, NEW o \in Operators, NEW role \in Roles, Signup(v, o, role)
        PROVE  OperatorsNext
    BY <2>1 DEF Signup, OperatorsNext
  <2>2. ASSUME NEW v \in Visitors, SignupEnqueue(v)
        PROVE  OperatorsNext
    BY <2>2, VisitFields DEF SignupEnqueue, OperatorsNext
  <2> QED
    BY <1>2, <2>1, <2>2
       DEF Visiting, Login, RegisterToken, AnswerVisit, VisitFails
<1>3. CASE OperatorStep
  BY <1>3 DEF OperatorStep, OperatorsNext
<1>4. CASE RestartServer
  BY <1>4 DEF RestartServer, OperatorsNext
<1> QED
  BY <1>1, <1>2, <1>3, <1>4 DEF SessionsNext

\* No row of operators is taken away.
LEMMA PersonsStay ==
  ASSUME PersonInv, [OperatorsNext]_operatorVars, NEW o \in Operators, person[o] # None
  PROVE  person'[o] # None
<1> USE NoneIsNoPerson DEF PersonInv, OperatorsTypeOK
<1>1. ASSUME NEW q \in Operators, NEW role \in Roles, InsertOperator(q, role)
      PROVE  person'[o] # None
  BY <1>1 DEF InsertOperator
<1>2. ASSUME NEW q \in Operators, RemoveOperator(q)
      PROVE  person'[o] # None
  <2>1. [person[q] EXCEPT !.deleted = TRUE] \in Persons
    BY <1>2 DEF RemoveOperator, Active, Persons
  <2> QED
    BY <1>2, <2>1 DEF RemoveOperator, Persons
<1>3. ASSUME NEW p \in Editors, WriteOperator(p)
      PROVE  person'[o] # None
  <2> DEFINE q == edit[p].operator
             r == [f \in Columns |-> IF f \in edit[p].dirty THEN edit[p].row[f] ELSE person[q][f]]
  <2>1. q \in Operators /\ r \in Persons /\ None \notin Persons
    BY <1>3, EditFields, MergedRow DEF WriteOperator, Persons
  <2>2. person' = [person EXCEPT ![q] = r]
    BY <1>3 DEF WriteOperator
  <2> HIDE DEF q, r
  <2> QED
    BY <2>1, <2>2
<1>4. CASE UNCHANGED operatorVars \/ QueueStep \/ RestartAll
  BY <1>4 DEF operatorVars, QueueStep, RestartAll
<1>5. ASSUME NEW p \in Editors, NEW q \in Operators, NEW role \in Roles, FindOperator(p, q, role)
      PROVE  person'[o] # None
  BY <1>5 DEF FindOperator
<1>6. ASSUME NEW p \in Editors, LoadOperator(p)
      PROVE  person'[o] # None
  BY <1>6 DEF LoadOperator
<1>7. ASSUME NEW q \in Operators, EnqueueCreated(q)
      PROVE  person'[o] # None
  BY <1>7 DEF EnqueueCreated
<1> QED
  BY <1>1, <1>2, <1>3, <1>4, <1>5, <1>6, <1>7 DEF OperatorsNext

\* What SessionsInv says beside PersonInv, of a step that stores and answers nothing.
LEMMA VisitMoves ==
  ASSUME SessionsInv, PersonInv', UNCHANGED <<tokens, answered>>,
         \A o \in Operators : person[o] # None => person'[o] # None,
         visit' \in [Visitors -> Visits],
         \A v \in Visitors : visit'[v] # NoVisit =>
           /\ person'[visit'[v].token.operator] # None
           /\ visit'[v].pc = "answer" => visit'[v] = visit[v]
  PROVE  SessionsInv'
<1>1. \A row \in tokens : row.operator \in Operators /\ person[row.operator] # None
  BY DEF SessionsInv, SessionsTypeOK, TokenRows
<1>2. SessionsTypeOK'
  BY <1>1 DEF SessionsInv, SessionsTypeOK
<1>3. \A v \in Visitors : visit'[v].pc = "answer" => StoredFor(visit'[v].token) \in tokens
  BY DEF NoVisit, SessionsInv
<1> QED
  BY <1>2, <1>3 DEF SessionsInv, StoredFor

LEMMA SessionsInvStep ==
  ASSUME SessionsInv, [SessionsNext]_sessionVars
  PROVE  SessionsInv'
<1>1. [OperatorsNext]_operatorVars
  BY SessionStepIsOperatorStep
<1>2. PersonInv' /\ \A o \in Operators : person[o] # None => person'[o] # None
  BY <1>1, PersonInvStep, PersonsStay DEF SessionsInv
<1>3. NoVisit \in Visits /\ visit \in [Visitors -> Visits]
      /\ \A v \in Visitors : visit[v] # NoVisit =>
           visit[v].token.operator \in Operators /\ person[visit[v].token.operator] # None
  BY DEF SessionsInv, SessionsTypeOK, Visits, Texts
<1>4. CASE UNCHANGED <<visit, tokens, answered>>
  BY <1>2, <1>3, <1>4, VisitMoves
<1>5. CASE RestartServer
  BY <1>2, <1>3, <1>5, VisitMoves DEF RestartServer
<1>6. ASSUME NEW v \in Visitors, NEW x \in Visits, visit' = [visit EXCEPT ![v] = x],
             UNCHANGED <<tokens, answered>>,
             x # NoVisit => x.pc # "answer" /\ person'[x.token.operator] # None
      PROVE  SessionsInv'
  BY <1>2, <1>3, <1>6, VisitMoves
<1>7. ASSUME NEW v \in Visitors, NEW o \in Operators, NEW role \in Roles, Signup(v, o, role)
      PROVE  SessionsInv'
  <2> DEFINE x == [pc |-> "enqueue", token |-> TokenOf(o, role)]
  <2>1. x \in Visits /\ x.pc # "answer" /\ x.token.operator = o
    BY DEF Visits, Texts, TokenOf
  <2>2. person'[o] # None
    <3>1. [role |-> role, deleted |-> FALSE] \in Persons /\ None \notin Persons
      BY NoneIsNoPerson DEF Persons
    <3> QED
      BY <1>7, <3>1 DEF Signup, InsertOperator, SessionsInv, PersonInv, OperatorsTypeOK
  <2>3. visit' = [visit EXCEPT ![v] = x] /\ UNCHANGED <<tokens, answered>>
    BY <1>7 DEF Signup
  <2> HIDE DEF x
  <2> QED
    BY <1>6, <2>1, <2>2, <2>3
<1>8. ASSUME NEW v \in Visitors, SignupEnqueue(v)
      PROVE  SessionsInv'
  <2>1. PICK t \in Texts : visit[v] = [pc |-> "enqueue", token |-> t]
    BY <1>8, VisitFields DEF SignupEnqueue
  <2> DEFINE x == [pc |-> "register", token |-> t]
  <2>2. visit' = [visit EXCEPT ![v] = x] /\ UNCHANGED <<tokens, answered>>
    <3>1. visit' = [visit EXCEPT ![v] = [visit[v] EXCEPT !.pc = "register"]]
          /\ UNCHANGED <<tokens, answered>>
      BY <1>8 DEF SignupEnqueue
    <3>2. [visit[v] EXCEPT !.pc = "register"] = x
      BY <2>1
    <3> QED
      BY <3>1, <3>2
  <2>3. x \in Visits /\ x.pc # "answer" /\ x.token = visit[v].token /\ visit[v] # NoVisit
    BY <2>1 DEF Visits, NoVisit
  <2> HIDE DEF x
  <2> QED
    BY <1>2, <1>3, <1>6, <2>2, <2>3
<1>9. ASSUME NEW v \in Visitors, NEW o \in Operators, Login(v, o)
      PROVE  SessionsInv'
  <2> DEFINE x == [pc |-> "register", token |-> TokenOf(o, person[o].role)]
  <2>1. person[o] \in Persons /\ person[o] # None
    BY <1>9 DEF Login, Active, SessionsInv, PersonInv, OperatorsTypeOK
  <2>2. x \in Visits /\ x.pc # "answer" /\ x.token.operator = o
    BY <2>1 DEF Visits, Texts, TokenOf, Persons
  <2>3. visit' = [visit EXCEPT ![v] = x] /\ UNCHANGED <<tokens, answered>>
    BY <1>9 DEF Login
  <2> HIDE DEF x
  <2> QED
    BY <1>2, <1>6, <2>1, <2>2, <2>3
<1>10. ASSUME NEW v \in Visitors, VisitFails(v)
       PROVE  SessionsInv'
  BY <1>3, <1>6, <1>10 DEF VisitFails
<1>11. ASSUME NEW v \in Visitors, RegisterToken(v)
       PROVE  SessionsInv'
  <2>1. PICK t \in Texts : visit[v] = [pc |-> "register", token |-> t]
    BY <1>11, VisitFields DEF RegisterToken
  <2> DEFINE x == [pc |-> "answer", token |-> t]
  <2>2. /\ visit' = [visit EXCEPT ![v] = x]
        /\ tokens' = tokens \cup {StoredFor(t)} /\ answered' = answered
    <3>1. visit' = [visit EXCEPT ![v] = [visit[v] EXCEPT !.pc = "answer"]]
      BY <1>11 DEF RegisterToken
    <3>2. [visit[v] EXCEPT !.pc = "answer"] = x
      BY <2>1
    <3>3. tokens' = tokens \cup {StoredFor(t)} /\ answered' = answered
      BY <1>11, <2>1 DEF RegisterToken, StoredFor
    <3> HIDE DEF x
    <3> QED
      BY <3>1, <3>2, <3>3
  <2>3. x \in Visits /\ x.token = t /\ visit[v].token = t /\ t.operator \in Operators
        /\ person'[t.operator] # None
    BY <1>2, <1>3, <2>1 DEF Visits, NoVisit, Texts
  <2>4. StoredFor(t) \in TokenRows /\ StoredFor(t).operator = t.operator
        /\ StoredFor(t) = StoredFor(StoredFor(t).text)
    BY <2>3 DEF StoredFor, TokenRows
  <2> HIDE DEF x
  <2>5. \A row \in tokens : row.operator \in Operators /\ person[row.operator] # None
    BY DEF SessionsInv, SessionsTypeOK, TokenRows
  <2>6. SessionsTypeOK'
    BY <1>2, <1>3, <2>2, <2>3, <2>4, <2>5 DEF SessionsInv, SessionsTypeOK
  <2>7. \A row \in tokens' : row = StoredFor(row.text)
    BY <2>2, <2>4 DEF SessionsInv
  <2>8. \A u \in Visitors : visit'[u].pc = "answer" => StoredFor(visit'[u].token) \in tokens'
    BY <1>3, <2>2, <2>3 DEF SessionsInv
  <2>9. \A u \in answered' : StoredFor(u) \in tokens'
    BY <2>2 DEF SessionsInv
  <2> QED
    BY <1>2, <2>6, <2>7, <2>8, <2>9 DEF SessionsInv, StoredFor
<1>12. ASSUME NEW v \in Visitors, AnswerVisit(v)
       PROVE  SessionsInv'
  <2>1. PICK t \in Texts : visit[v].token = t
    BY <1>12, VisitFields DEF AnswerVisit
  <2>2. /\ visit' = [visit EXCEPT ![v] = NoVisit] /\ tokens' = tokens
        /\ answered' = answered \cup {t} /\ StoredFor(t) \in tokens
    BY <1>12, <2>1 DEF AnswerVisit, SessionsInv
  <2>3. \A row \in tokens : row.operator \in Operators /\ person[row.operator] # None
    BY DEF SessionsInv, SessionsTypeOK, TokenRows
  <2>4. SessionsTypeOK'
    BY <1>2, <1>3, <2>2, <2>3 DEF SessionsInv, SessionsTypeOK
  <2>5. \A u \in Visitors : visit'[u].pc = "answer" => StoredFor(visit'[u].token) \in tokens'
    BY <1>3, <2>2 DEF SessionsInv, NoVisit
  <2> QED
    BY <1>2, <2>2, <2>4, <2>5 DEF SessionsInv, StoredFor
<1>13. CASE UNCHANGED sessionVars
  BY <1>4, <1>13 DEF sessionVars
<1>14. CASE OperatorStep
  BY <1>4, <1>14 DEF OperatorStep
<1> QED
  BY <1>5, <1>7, <1>8, <1>9, <1>10, <1>11, <1>12, <1>13, <1>14 DEF SessionsNext, Visiting

LEMMA SessionsInvAlways == SessionsSpec => []SessionsInv
<1>1. SessionsInit => SessionsInv
  <2> SUFFICES ASSUME SessionsInit PROVE SessionsInv
    OBVIOUS
  <2>1. PersonInv
    BY DEF SessionsInit, OperatorsInit, PersonInv, OperatorsTypeOK, Edits
  <2> QED
    BY <2>1 DEF SessionsInit, SessionsInv, SessionsTypeOK, Visits, NoVisit
<1> QED
  BY <1>1, SessionsInvStep, PTL DEF SessionsSpec

\* Sign-ups and logins leave the operators and the queue as the requests of
\* Operators do, fairness included, so that what is proved of it holds beside them.
THEOREM SessionsAreOperators == SessionsSpec => OperatorsSpec
<1>1. SessionsInit => OperatorsInit
  BY DEF SessionsInit
<1> QED
  BY <1>1, SessionsInvAlways, SessionStepIsOperatorStep, PTL DEF SessionsSpec, OperatorsSpec

\* The requests of Operators use the queue as its specification allows.
LEMMA OperatorsRunTheQueue == OperatorsSpec => SafetySpec
<1>1. OperatorsInit => Init
  BY DEF OperatorsInit
<1>2. [OperatorsNext]_operatorVars => [Next]_vars
  BY DEF OperatorsNext, InsertOperator, EnqueueCreated, RemoveOperator, FindOperator,
         LoadOperator, WriteOperator, QueueStep, RestartAll, Next, vars, operatorVars
<1> QED
  BY <1>1, <1>2, PTL DEF OperatorsSpec, SafetySpec

\* So what is proved of the queue alone holds beside sign-ups and requests.
THEOREM SessionsRunTheQueue ==
  SessionsSpec => Deferred!SafetySpec /\ [](QueueTypeOK /\ NoLostWakeup /\ EachJobOnce)
<1>1. SessionsSpec => SafetySpec
  BY SessionsAreOperators, OperatorsRunTheQueue
<1> QED
  BY <1>1, QueueTypeCorrect, NoWakeupIsLost, JobsAreInOnePlace, QueueDefersJobs, PTL

\* Sign-ups, logins and the table token stay well-typed.
THEOREM SessionsTypeCorrect == SessionsSpec => []SessionsTypeOK
<1>1. SessionsInv => SessionsTypeOK
  BY DEF SessionsInv
<1> QED
  BY <1>1, SessionsInvAlways, PTL

\* Every token a client has been given goes on being accepted.
THEOREM TokensKeepWorking == SessionsSpec => []AnsweredTokensWork
<1>1. SessionsInv => AnsweredTokensWork
  <2> SUFFICES ASSUME SessionsInv, NEW t \in answered PROVE CanActivate(t)
    BY DEF AnsweredTokensWork
  <2>1. StoredFor(t) \in tokens /\ StoredFor(t).text = t
    BY DEF SessionsInv, StoredFor
  <2>2. \A row \in tokens : row.text = t => row.operator = t.operator
    BY DEF SessionsInv, StoredFor
  <2> QED
    BY <2>1, <2>2 DEF CanActivate, Joined
<1> QED
  BY <1>1, SessionsInvAlways, PTL
=============================================================================
