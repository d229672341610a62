---------------------------- MODULE PriorityProofs ----------------------------
(***************************************************************************)
(* Theorems about Priority, for any number of conversations, any window,   *)
(* configuration, clock and message counts.                                *)
(*                                                                         *)
(* The features of a window are natural numbers with a least and a         *)
(* greatest value, so that a span is positive and bounds the distance of   *)
(* each value from the least; the rest is arithmetic.                      *)
(***************************************************************************)
EXTENDS Priority, FiniteSetTheorems, WellFoundedInduction, TLAPS

\* A nonempty set of natural numbers has a least element.
LEMMA LeastExists ==
  ASSUME NEW T \in SUBSET Nat, T # {}
  PROVE  \E t \in T : \A u \in T : t <= u
<1> DEFINE R == {ss \in Nat \X Nat : ss[1] < ss[2]}
<1>1. IsWellFoundedOn(R, Nat)
  BY NatLessThanWellFounded DEF OpToRel
<1> HIDE DEF R
<1>2. PICK t \in T : \A u \in T : ~(<<u, t>> \in R)
  BY <1>1, WFMin
<1>3. \A u \in T : ~(u < t)
  BY <1>2 DEF R
<1> QED
  BY <1>3

\* A finite set on which R is total and transitive has a first element: a least
\* part of it without one would have one when any of its elements is put back.
LEMMA FirstOfFinite ==
  ASSUME NEW S, IsFiniteSet(S), S # {}, NEW R,
         \A x, y \in S : <<x, y>> \in R \/ <<y, x>> \in R,
         \A x, y, z \in S : <<x, y>> \in R /\ <<y, z>> \in R => <<x, z>> \in R
  PROVE  \E x \in S : \A y \in S : <<x, y>> \in R
<1> DEFINE HasFirst(X) == \E x \in X : \A y \in X : <<x, y>> \in R
           Bad == {X \in SUBSET S : X # {} /\ ~HasFirst(X)}
           Sizes == {Cardinality(X) : X \in Bad}
<1>1. \A X \in SUBSET S : IsFiniteSet(X) /\ Cardinality(X) \in Nat
  BY FS_Subset, FS_CardinalityType
<1>2. ASSUME Bad # {} PROVE FALSE
  <2>0. Bad \subseteq SUBSET S /\ \A X \in SUBSET S : X \in Bad <=> X # {} /\ ~HasFirst(X)
    OBVIOUS
  <2> HIDE DEF Bad
  <2>1. Sizes \in SUBSET Nat /\ Sizes # {}
    BY <1>1, <1>2, <2>0
  <2>2. PICK n \in Sizes : \A m \in Sizes : n <= m
    BY <2>1, LeastExists
  <2>3. PICK X \in Bad : Cardinality(X) = n
    BY <2>2
  <2>4. PICK x \in X : TRUE
    BY <2>0, <2>3
  <2> DEFINE Y == X \ {x}
  <2>5. Y \in SUBSET S /\ Cardinality(Y) = n - 1 /\ n \in Nat
    BY <1>1, <2>0, <2>1, <2>3, <2>4, FS_RemoveElement
  <2> HIDE DEF Y
  <2>6. Y \notin Bad
    <3>1. Y \in Bad => n - 1 \in Sizes
      BY <2>5
    <3> QED
      BY <2>2, <2>5, <3>1
  <2>7. CASE Y = {}
    <3>1. X = {x} /\ <<x, x>> \in R
      BY <2>3, <2>4, <2>7, <2>0 DEF Y
    <3> QED
      BY <2>0, <2>3, <3>1
  <2>8. CASE HasFirst(Y)
    <3>1. PICK y \in Y : \A z \in Y : <<y, z>> \in R
      BY <2>8
    <3>2. x \in S /\ y \in S /\ <<x, x>> \in R /\ <<y, y>> \in R
      BY <2>0, <2>3, <2>4, <3>1 DEF Y
    <3>3. CASE <<y, x>> \in R
      BY <2>0, <2>3, <2>4, <3>1, <3>3 DEF Y
    <3>4. CASE <<x, y>> \in R
      <4>1. \A z \in Y : <<x, z>> \in R
        BY <2>0, <2>3, <3>1, <3>2, <3>4 DEF Y
      <4> QED
        BY <2>0, <2>3, <2>4, <3>2, <4>1 DEF Y
    <3> QED
      BY <3>2, <3>3, <3>4
  <2> QED
    BY <2>0, <2>5, <2>6, <2>7, <2>8
<1> QED
  BY <1>2

LEMMA LeastIsLeast ==
  ASSUME NEW T \in SUBSET Nat, T # {}
  PROVE  Least(T) \in T /\ \A u \in T : Least(T) <= u
<1>1. \E t \in T : \A u \in T : t <= u
  BY LeastExists
<1> QED
  BY <1>1 DEF Least

LEMMA GreatestIsGreatest ==
  ASSUME NEW T \in SUBSET Nat, T # {}, NEW n \in Nat, \A t \in T : t <= n
  PROVE  Greatest(T) \in T /\ \A u \in T : u <= Greatest(T)
<1> DEFINE U == {n - t : t \in T}
<1>1. U \in SUBSET Nat
  <2>1. \A t \in T : n - t \in Nat
    OBVIOUS
  <2> QED
    BY <2>1
<1>2. U # {}
  <2>1. PICK t \in T : TRUE
    OBVIOUS
  <2>2. n - t \in U
    OBVIOUS
  <2> QED
    BY <2>2
<1>3. PICK m \in U : \A u \in U : m <= u
  BY <1>1, <1>2, LeastExists
<1>4. PICK t \in T : m = n - t
  OBVIOUS
<1>5. ASSUME NEW u \in T
      PROVE  u <= t
  <2>1. n - u \in U
    OBVIOUS
  <2>2. n - t <= n - u
    BY <1>3, <1>4, <2>1
  <2> QED
    BY <2>2
<1>6. \E g \in T : \A u \in T : g >= u
  BY <1>5
<1>7. Greatest(T) \in T /\ \A u \in T : Greatest(T) >= u
  BY <1>6 DEF Greatest
<1> QED
  BY <1>7

\* A span is positive, and no value is further from the least one.
LEMMA SpanBounds ==
  ASSUME NEW T \in SUBSET Nat, T # {}, NEW n \in Nat, \A t \in T : t <= n
  PROVE  /\ Span(T) \in Nat \ {0}
         /\ Least(T) \in Nat
         /\ \A t \in T : t - Least(T) \in 0 .. Span(T)
<1>1. Least(T) \in T /\ \A u \in T : Least(T) <= u
  BY LeastIsLeast
<1>2. Greatest(T) \in T /\ \A u \in T : u <= Greatest(T)
  BY GreatestIsGreatest
<1>3. Least(T) \in Nat /\ Greatest(T) \in Nat /\ Least(T) <= Greatest(T)
  BY <1>1, <1>2
<1>4. \A t \in T : t \in Nat
  OBVIOUS
<1> QED
  BY <1>1, <1>2, <1>3, <1>4 DEF Span

LEMMA WeightsArePositive ==
  ASSUME PriorityTypeOK
  PROVE  /\ Weights.alpha \in Int /\ Weights.beta \in Int
         /\ Weights.alpha + Weights.beta > 0
<1>1. config \in (Int \cup {NotFinite}) \X (Int \cup {NotFinite})
  BY PriorityAssumption DEF PriorityTypeOK
<1>2. Finite(config[1]) \in Int /\ Finite(config[2]) \in Int
  BY <1>1 DEF Finite
<1> QED
  BY <1>2 DEF Weights

\* Every member of a window has metadata, and features of the right type.
LEMMA Members ==
  ASSUME PriorityTypeOK, NEW S \in Windows, NEW c \in S
  PROVE  /\ queued[c].count \in Nat /\ queued[c].count <= MaxCount
         /\ queued[c].at \in Nat
         /\ Delay(c) \in Nat /\ Delay(c) <= MaxTime
<1>1. c \in Conversations /\ queued[c] \in Metadata
  BY DEF Windows, Queue, PriorityTypeOK
<1>2. /\ queued[c].count \in 0 .. MaxCount /\ queued[c].at \in 0 .. MaxTime
      /\ now \in 0 .. MaxTime
  BY <1>1 DEF Metadata, Counts, Times, PriorityTypeOK
<1> QED
  BY <1>2, PriorityAssumption DEF Delay

LEMMA Features ==
  ASSUME PriorityTypeOK, NEW S \in Windows, S # {}
  PROVE  /\ CountsOf(S) \in SUBSET Nat /\ CountsOf(S) # {}
         /\ \A t \in CountsOf(S) : t <= MaxCount
         /\ DelaysOf(S) \in SUBSET Nat /\ DelaysOf(S) # {}
         /\ \A t \in DelaysOf(S) : t <= MaxTime
  BY Members DEF CountsOf, DelaysOf

\* The distances of a candidate's features from the least ones, and the spans.
LEMMA Distances ==
  ASSUME PriorityTypeOK, NEW S \in Windows, NEW c \in S
  PROVE  /\ Span(CountsOf(S)) \in Nat \ {0} /\ Least(CountsOf(S)) \in Nat
         /\ Span(DelaysOf(S)) \in Nat \ {0} /\ Least(DelaysOf(S)) \in Nat
         /\ queued[c].count - Least(CountsOf(S)) \in 0 .. Span(CountsOf(S))
         /\ Delay(c) - Least(DelaysOf(S)) \in 0 .. Span(DelaysOf(S))
<1>1. queued[c].count \in CountsOf(S) /\ Delay(c) \in DelaysOf(S)
  BY DEF CountsOf, DelaysOf
<1>2. /\ Span(CountsOf(S)) \in Nat \ {0} /\ Least(CountsOf(S)) \in Nat
      /\ \A t \in CountsOf(S) : t - Least(CountsOf(S)) \in 0 .. Span(CountsOf(S))
  BY Features, SpanBounds, PriorityAssumption
<1>3. /\ Span(DelaysOf(S)) \in Nat \ {0} /\ Least(DelaysOf(S)) \in Nat
      /\ \A t \in DelaysOf(S) : t - Least(DelaysOf(S)) \in 0 .. Span(DelaysOf(S))
  BY Features, SpanBounds, PriorityAssumption
<1> QED
  BY <1>1, <1>2, <1>3

-----------------------------------------------------------------------------
(* Arithmetic *)

LEMMA ProductOrder ==
  ASSUME NEW w \in Nat, NEW x \in Nat, NEW y \in Nat, NEW z \in Nat, x <= y
  PROVE  /\ w * x * z \in Nat /\ w * y * z \in Nat
         /\ w * x * z <= w * y * z
         /\ w > 0 /\ z > 0 /\ x < y => w * x * z < w * y * z
<1>1. w * x \in Nat /\ w * y \in Nat /\ w * x <= w * y
  BY SMT
<1>2. w > 0 /\ x < y => w * x < w * y
  BY SMT
<1> DEFINE p == w * x  q == w * y
<1>3. p \in Nat /\ q \in Nat /\ p <= q
  BY <1>1
<1> HIDE DEF p, q
<1>4. p * z \in Nat /\ q * z \in Nat /\ p * z <= q * z
  BY <1>3, SMT
<1>5. z > 0 /\ p < q => p * z < q * z
  BY <1>3, SMT
<1> QED
  BY <1>2, <1>4, <1>5 DEF p, q

LEMMA PositiveProduct ==
  ASSUME NEW w \in Nat \ {0}, NEW x \in Nat \ {0}, NEW y \in Nat \ {0}
  PROVE  w * x * y \in Nat \ {0}
<1>1. w * x \in Nat \ {0}
  BY SMT
<1> QED
  BY <1>1, SMT

LEMMA SumOfProducts ==
  ASSUME NEW a \in Int, NEW b \in Int, NEW x \in Int, NEW y \in Int
  PROVE  (a + b) * x * y = a * x * y + b * y * x
  BY SMT

-----------------------------------------------------------------------------
\* Metadata and configuration stay well-typed.
THEOREM PriorityTypeCorrect == PrioritySpec => []PriorityTypeOK
<1>1. PriorityInit => PriorityTypeOK
  BY PriorityAssumption DEF PriorityInit, PriorityTypeOK, Times
<1>2. PriorityTypeOK /\ [PriorityNext]_priorityVars => PriorityTypeOK'
  <2> SUFFICES ASSUME PriorityTypeOK, [PriorityNext]_priorityVars
               PROVE  PriorityTypeOK'
    OBVIOUS
  <2> USE DEF PriorityTypeOK
  <2>1. ASSUME NEW c \in Conversations, NEW m \in Metadata, Enqueue(c, m)
        PROVE  PriorityTypeOK'
    BY <2>1 DEF Enqueue
  <2>2. ASSUME NEW c \in Conversations, NEW count \in Counts, NEW last \in Times \cup {None},
               Message(c, count, last)
        PROVE  PriorityTypeOK'
    <3>1. queued[c] \in Metadata
      BY <2>2 DEF Message, Queue
    <3>2. [queued[c] EXCEPT !.count = count] \in Metadata
      BY <3>1 DEF Metadata
    <3>3. last # None => [count |-> count, at |-> last, dated |-> TRUE] \in Metadata
      BY DEF Metadata
    <3> QED
      BY <2>2, <3>2, <3>3 DEF Message
  <2>3. ASSUME NEW c \in Conversations, Allocate(c) \/ Claim(c)
        PROVE  PriorityTypeOK'
    BY <2>3 DEF Allocate, Claim
  <2>4. CASE Tick
    BY <2>4, PriorityAssumption DEF Tick, Times
  <2>5. CASE UNCHANGED priorityVars
    BY <2>5 DEF priorityVars
  <2> QED
    BY <2>1, <2>2, <2>3, <2>4, <2>5 DEF PriorityNext
<1> QED
  BY <1>1, <1>2, PTL DEF PrioritySpec

LEMMA DominatingScoresMore ==
  ASSUME PriorityTypeOK, Weights.alpha > 0, Weights.beta > 0,
         NEW S \in Windows, NEW c \in S, NEW d \in S, Dominates(d, c)
  PROVE  Score(c, S) \in Int /\ Score(d, S) \in Int /\ Score(c, S) < Score(d, S)
<1> DEFINE a == Weights.alpha  b == Weights.beta
           N == Span(CountsOf(S))  D == Span(DelaysOf(S))
           x(e) == queued[e].count - Least(CountsOf(S))
           u(e) == Delay(e) - Least(DelaysOf(S))
<1>1. a \in Nat \ {0} /\ b \in Nat \ {0} /\ N \in Nat \ {0} /\ D \in Nat \ {0}
  BY WeightsArePositive, Distances
<1>2. x(c) \in Nat /\ x(d) \in Nat /\ u(c) \in Nat /\ u(d) \in Nat
  BY Distances
<1>3. x(c) <= x(d) /\ u(c) <= u(d) /\ (x(c) < x(d) \/ u(c) < u(d))
  <2>1. /\ Least(CountsOf(S)) \in Nat /\ Least(DelaysOf(S)) \in Nat
        /\ queued[c].count \in Nat /\ queued[d].count \in Nat
        /\ Delay(c) \in Nat /\ Delay(d) \in Nat
    BY Distances, Members
  <2> QED
    BY <2>1 DEF Dominates
<1>4. Score(c, S) = a * x(c) * D + b * u(c) * N /\ Score(d, S) = a * x(d) * D + b * u(d) * N
  BY DEF Score
<1> HIDE DEF a, b, N, D, x, u
<1>5. /\ a * x(c) * D \in Nat /\ a * x(d) * D \in Nat /\ a * x(c) * D <= a * x(d) * D
      /\ x(c) < x(d) => a * x(c) * D < a * x(d) * D
  BY <1>1, <1>2, <1>3, ProductOrder
<1>6. /\ b * u(c) * N \in Nat /\ b * u(d) * N \in Nat /\ b * u(c) * N <= b * u(d) * N
      /\ u(c) < u(d) => b * u(c) * N < b * u(d) * N
  BY <1>1, <1>2, <1>3, ProductOrder
<1> QED
  BY <1>3, <1>4, <1>5, <1>6

\* With no more in the queue than the query returns, it returns them all.
LEMMA WindowIsQueue ==
  ASSUME NEW S \in Windows, ~(Cardinality(Queue) > Window)
  PROVE  S = Queue
<1>1. IsFiniteSet(Queue) /\ Cardinality(Queue) \in Nat
  BY ConversationsAreFinite, FS_Subset, FS_CardinalityType DEF Queue
<1>2. Cardinality(S) = Cardinality(Queue) /\ S \in SUBSET Queue
  BY <1>1, PriorityAssumption DEF Windows
<1> QED
  BY <1>1, <1>2, FS_Subset

\* Allocate never prefers a conversation to one that has waited longer and has more
\* messages, for any configured weights that both count, but to those of a longer queue
\* that the query has cut off.
THEOREM ChoiceIsUndominated == PrioritySpec => []ChosenIsUndominated
<1>1. PriorityTypeOK => ChosenIsUndominated
  <2> SUFFICES ASSUME PriorityTypeOK, Weights.alpha > 0, Weights.beta > 0,
                      NEW S \in Windows, NEW c \in S, NEW d \in Queue,
                      Choose(c, S), Dominates(d, c)
               PROVE  d \notin S /\ ~MoreRecent(d, c) /\ Cardinality(Queue) > Window
    BY DEF ChosenIsUndominated
  <2>1. d \notin S
    <3>1. d \in S => SortedBefore(c, d, S)
      BY DEF Choose
    <3> QED
      BY <3>1, DominatingScoresMore DEF SortedBefore
  <2> QED
    BY <2>1, WindowIsQueue DEF Windows
<1> QED
  BY <1>1, PriorityTypeCorrect, PTL

LEMMA ScoreType ==
  ASSUME PriorityTypeOK, NEW S \in Windows, NEW c \in S
  PROVE  Score(c, S) \in Int
<1> DEFINE a == Weights.alpha  b == Weights.beta
           N == Span(CountsOf(S))  D == Span(DelaysOf(S))
           x == queued[c].count - Least(CountsOf(S))
           u == Delay(c) - Least(DelaysOf(S))
<1>1. a \in Int /\ b \in Int /\ N \in Int /\ D \in Int /\ x \in Int /\ u \in Int
  BY WeightsArePositive, Distances
<1>2. Score(c, S) = a * x * D + b * u * N
  BY DEF Score
<1> HIDE DEF a, b, N, D, x, u
<1> QED
  BY <1>1, <1>2

\* Scores and timestamps order the candidates of a window.
LEMMA WindowHasFirst ==
  ASSUME PriorityTypeOK, NEW S \in Windows, S # {}
  PROVE  \E c \in S : Choose(c, S)
<1> DEFINE R == {ss \in S \X S : SortedBefore(ss[1], ss[2], S)}
<1>1. IsFiniteSet(S)
  BY ConversationsAreFinite, FS_Subset DEF Windows, Queue
<1>2. \A c \in S : Score(c, S) \in Int /\ queued[c].at \in Int
  BY ScoreType, Members
<1>3. \A c, d \in S : <<c, d>> \in R <=> SortedBefore(c, d, S)
  OBVIOUS
<1> HIDE DEF R
<1>4. ASSUME NEW c \in S, NEW d \in S PROVE <<c, d>> \in R \/ <<d, c>> \in R
  <2>1. SortedBefore(c, d, S) \/ SortedBefore(d, c, S)
    BY <1>2 DEF SortedBefore
  <2> QED
    BY <1>3, <2>1
<1>5. \A c, d, e \in S : <<c, d>> \in R /\ <<d, e>> \in R => <<c, e>> \in R
  BY <1>2, <1>3 DEF SortedBefore
<1>6. PICK c \in S : \A d \in S : <<c, d>> \in R
  BY <1>1, <1>4, <1>5, FirstOfFinite
<1> QED
  BY <1>3, <1>6 DEF Choose

\* What of the queue is left when a part of it that nothing outside is more recent
\* than loses its least recent element.
Recent(S) == S \in SUBSET Queue /\ \A c \in S, d \in Queue \ S : ~MoreRecent(d, c)

LEMMA RecentShrinks ==
  ASSUME PriorityTypeOK, NEW S, Recent(S), S # {}
  PROVE  \E x \in S : Recent(S \ {x})
<1> DEFINE R == {ss \in S \X S : ~MoreRecent(ss[1], ss[2])}
<1>1. IsFiniteSet(S)
  BY ConversationsAreFinite, FS_Subset DEF Recent, Queue
<1>2. \A c \in S : queued[c].at \in Int /\ queued[c].dated \in BOOLEAN
  BY DEF Recent, Queue, PriorityTypeOK, Metadata, Times
<1>3. \A c, d \in S : <<c, d>> \in R <=> ~MoreRecent(c, d)
  OBVIOUS
<1> HIDE DEF R
<1>4. ASSUME NEW c \in S, NEW d \in S PROVE <<c, d>> \in R \/ <<d, c>> \in R
  <2>1. ~MoreRecent(c, d) \/ ~MoreRecent(d, c)
    BY <1>2 DEF MoreRecent
  <2> QED
    BY <1>3, <2>1
<1>5. \A c, d, e \in S : <<c, d>> \in R /\ <<d, e>> \in R => <<c, e>> \in R
  BY <1>2, <1>3 DEF MoreRecent
<1>6. PICK x \in S : \A d \in S : <<x, d>> \in R
  BY <1>1, <1>4, <1>5, FirstOfFinite
<1> QED
  BY <1>3, <1>6 DEF Recent

\* The query returns something when there is something: windows of every size exist,
\* for the whole queue is one, and each loses its least recent element.
LEMMA WindowExists ==
  ASSUME PriorityTypeOK, Queue # {}
  PROVE  Windows # {} /\ \A S \in Windows : S # {}
<1> DEFINE n == Cardinality(Queue)
           w == IF n < Window THEN n ELSE Window
           Sizes == {Cardinality(S) : S \in {S \in SUBSET Queue : Recent(S)}}
           Enough == {k \in Sizes : w <= k}
<1>1. \A S \in SUBSET Queue : IsFiniteSet(S) /\ Cardinality(S) \in Nat
  BY ConversationsAreFinite, FS_Subset, FS_CardinalityType DEF Queue
<1>2. n \in Nat \ {0} /\ w \in Nat \ {0} /\ w <= n
  BY <1>1, FS_EmptySet, PriorityAssumption
<1>3. n \in Enough /\ Enough \in SUBSET Nat
  <2>1. Recent(Queue)
    BY DEF Recent
  <2> QED
    BY <1>1, <1>2, <2>1
<1>4. PICK k \in Enough : \A j \in Enough : k <= j
  BY <1>3, LeastExists
<1>5. PICK S \in SUBSET Queue : Recent(S) /\ Cardinality(S) = k
  BY <1>4
<1>6. k = w
  <2> SUFFICES ASSUME w < k PROVE FALSE
    BY <1>2, <1>3, <1>4
  <2>1. k \in Nat \ {0}
    BY <1>2, <1>3, <1>4
  <2>2. PICK x \in S : Recent(S \ {x})
    BY <1>1, <1>5, <2>1, RecentShrinks, FS_EmptySet
  <2>3. Cardinality(S \ {x}) = k - 1
    BY <1>1, <1>5, FS_RemoveElement
  <2>4. k - 1 \in Sizes
    BY <2>2, <2>3
  <2>5. k - 1 \in Enough
    BY <1>2, <2>1, <2>4
  <2> QED
    BY <1>4, <2>1, <2>5
<1>7. S \in Windows
  BY <1>5, <1>6 DEF Windows, Recent
<1>8. \A T \in Windows : T # {}
  BY <1>1, <1>2, FS_EmptySet DEF Windows
<1> QED
  BY <1>7, <1>8

\* As long as anything is queued the query returns something, and one of what it
\* returns comes before all the others, whatever the weights, ties and clocks.
THEOREM AChoiceExists == PrioritySpec => []SomethingIsChosen
<1>1. PriorityTypeOK => SomethingIsChosen
  BY WindowExists, WindowHasFirst DEF SomethingIsChosen
<1> QED
  BY <1>1, PriorityTypeCorrect, PTL

\* Scores are fractions between 0 and 1, and nothing is divided by zero, whatever
\* the candidates and the configured weights.
THEOREM ScoresAreFractions == PrioritySpec => []ScoreIsAFraction
<1>1. PriorityTypeOK => ScoreIsAFraction
  <2> SUFFICES ASSUME PriorityTypeOK, NEW S \in Windows, NEW c \in S
               PROVE  /\ Scale(S) > 0
                      /\ Weights.alpha >= 0 /\ Weights.beta >= 0 =>
                           Score(c, S) \in 0 .. Scale(S)
    BY DEF ScoreIsAFraction
  <2> DEFINE a == Weights.alpha  b == Weights.beta
             N == Span(CountsOf(S))  D == Span(DelaysOf(S))
             x == queued[c].count - Least(CountsOf(S))
             u == Delay(c) - Least(DelaysOf(S))
  <2>1. a \in Int /\ b \in Int /\ a + b \in Nat \ {0}
    BY WeightsArePositive
  <2>2. N \in Nat \ {0} /\ D \in Nat \ {0} /\ x \in 0 .. N /\ u \in 0 .. D
    BY Distances
  <2>3. Score(c, S) = a * x * D + b * u * N /\ Scale(S) = (a + b) * N * D
    BY DEF Score, Scale
  <2> HIDE DEF a, b, N, D, x, u
  <2>4. Scale(S) \in Nat \ {0}
    BY <2>1, <2>2, <2>3, PositiveProduct
  <2>5. ASSUME a >= 0, b >= 0
        PROVE  Score(c, S) \in 0 .. Scale(S)
    <3>1. a * x * D \in Nat /\ a * N * D \in Nat /\ a * x * D <= a * N * D
      BY <2>1, <2>2, <2>5, ProductOrder
    <3>2. b * u * N \in Nat /\ b * D * N \in Nat /\ b * u * N <= b * D * N
      BY <2>1, <2>2, <2>5, ProductOrder
    <3>3. Scale(S) = a * N * D + b * D * N
      BY <2>1, <2>2, <2>3, SumOfProducts
    <3> QED
      BY <2>3, <3>1, <3>2, <3>3
  <2> QED
    BY <2>4, <2>5 DEF a, b
<1> QED
  BY <1>1, PriorityTypeCorrect, PTL

-----------------------------------------------------------------------------
LEMMA ExtremesAreUnique ==
  ASSUME NEW T \in SUBSET Nat, NEW n \in Nat, \A t \in T : t <= n, NEW t \in T
  PROVE  /\ (\A u \in T : t <= u) => Least(T) = t
         /\ (\A u \in T : u <= t) => Greatest(T) = t
<1>1. Least(T) \in T /\ (\A u \in T : Least(T) <= u)
  BY LeastIsLeast
<1>2. Greatest(T) \in T /\ (\A u \in T : u <= Greatest(T))
  BY GreatestIsGreatest
<1>3. t \in Nat /\ Least(T) \in Nat /\ Greatest(T) \in Nat
  BY <1>1, <1>2
<1>4. (\A u \in T : t <= u) => t <= Least(T) /\ Least(T) <= t
  BY <1>1
<1>5. (\A u \in T : u <= t) => Greatest(T) <= t /\ t <= Greatest(T)
  BY <1>2
<1> QED
  BY <1>3, <1>4, <1>5

LEMMA ShiftedSpan ==
  ASSUME NEW T \in SUBSET Nat, T # {}, NEW n \in Nat, \A t \in T : t <= n,
         NEW U, U = {t + 1 : t \in T}
  PROVE  Least(U) = Least(T) + 1 /\ Span(U) = Span(T)
<1>1. Least(T) \in T /\ \A u \in T : Least(T) <= u
  BY LeastIsLeast
<1>2. Greatest(T) \in T /\ \A u \in T : u <= Greatest(T)
  BY GreatestIsGreatest
<1>3. U \in SUBSET Nat /\ Least(T) + 1 \in U /\ Greatest(T) + 1 \in U
  <2>1. \A t \in T : t + 1 \in Nat
    OBVIOUS
  <2> QED
    BY <1>1, <1>2, <2>1
<1>4. ASSUME NEW u \in U
      PROVE  u <= n + 1 /\ Least(T) + 1 <= u /\ u <= Greatest(T) + 1
  <2>1. PICK t \in T : u = t + 1
    OBVIOUS
  <2>2. t \in Nat /\ Least(T) \in Nat /\ Greatest(T) \in Nat
    BY <1>1, <1>2
  <2>3. t <= n /\ Least(T) <= t /\ t <= Greatest(T)
    BY <1>1, <1>2
  <2> QED
    BY <2>1, <2>2, <2>3
<1>5. Least(U) = Least(T) + 1 /\ Greatest(U) = Greatest(T) + 1
  <2>1. n + 1 \in Nat
    OBVIOUS
  <2> QED
    BY <1>3, <1>4, <2>1, ExtremesAreUnique
<1>6. Least(T) \in Nat /\ Greatest(T) \in Nat
  BY <1>1, <1>2
<1> QED
  BY <1>5, <1>6 DEF Span

\* Waiting alone never changes which of two candidates of a window comes first, for
\* windows of any size, unless a sender's clock was ahead.
THEOREM WaitingKeepsOrder == PrioritySpec => TimeKeepsOrder
<1>1. ASSUME PriorityTypeOK, [PriorityNext]_priorityVars, now' # now,
             NEW S \in Windows, \A c \in S : ~Ahead(c)
      PROVE  \A c, d \in S : SortedBefore(c, d, S) <=> SortedBefore(c, d, S)'
  <2>1. now' = now + 1 /\ UNCHANGED <<queued, config>>
    BY <1>1 DEF PriorityNext, priorityVars, Enqueue, Message, Allocate, Claim, Tick
  <2>2. CountsOf(S)' = CountsOf(S) /\ Weights' = Weights
    BY <2>1 DEF CountsOf, Weights
  <2>3. \A c \in S : Delay(c) \in Nat /\ Delay(c)' = Delay(c) + 1
    <3> SUFFICES ASSUME NEW c \in S PROVE Delay(c) \in Nat /\ Delay(c)' = Delay(c) + 1
      OBVIOUS
    <3>1. queued[c].at \in Nat /\ now \in Nat /\ Delay(c) \in Nat
      BY <1>1, Members DEF PriorityTypeOK, Times
    <3>2. ~(queued[c].at > now) /\ queued'[c].at = queued[c].at
      BY <1>1, <2>1 DEF Ahead
    <3> QED
      BY <2>1, <3>1, <3>2 DEF Delay
  <2>4. DelaysOf(S)' = {t + 1 : t \in DelaysOf(S)}
    BY <2>3 DEF DelaysOf
  <2>5. ASSUME NEW c \in S
        PROVE  /\ Score(c, S)' = Score(c, S)
               /\ queued'[c] = queued[c]
    <3>1. /\ Least(DelaysOf(S)') = Least(DelaysOf(S)) + 1
          /\ Span(DelaysOf(S)') = Span(DelaysOf(S))
      BY <1>1, <2>4, <2>5, Features, ShiftedSpan, PriorityAssumption
    <3>2. Least(DelaysOf(S)) \in Nat
      BY <1>1, Distances
    <3>3. Delay(c)' - Least(DelaysOf(S)') = Delay(c) - Least(DelaysOf(S))
      BY <2>3, <3>1, <3>2
    <3> QED
      BY <2>1, <2>2, <3>1, <3>3 DEF Score
  <2> QED
    BY <2>5 DEF SortedBefore
<1>2. PriorityTypeOK /\ [PriorityNext]_priorityVars =>
        [now' # now =>
           \A S \in Windows : (\A c \in S : ~Ahead(c)) =>
             \A c, d \in S : SortedBefore(c, d, S) <=> SortedBefore(c, d, S)']_priorityVars
  BY <1>1
<1> QED
  BY <1>2, PriorityTypeCorrect, PTL DEF PrioritySpec, TimeKeepsOrder
=============================================================================
