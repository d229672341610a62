------------------------------- MODULE Priority -------------------------------
(***************************************************************************)
(* Which queued conversation allocate chooses: the candidate query, which  *)
(* takes a window of the most recent ones, and scoreAndSortCandidates,     *)
(* which weighs the number of messages against the delay since the last.   *)
(* Allocation leaves this choice open and models what it is made for.      *)
(*                                                                         *)
(* The code divides in floating point; here the scores of one window are   *)
(* integers over their common denominator Scale, so that they are exact.   *)
(***************************************************************************)
EXTENDS Integers, FiniteSets

CONSTANTS
  Conversations,
  Window,      \* candidates that are scored, 100 in the code
  Configs,     \* pairs of alpha and beta that may be configured, in halves of a unit
  NotFinite,   \* a configured value that is not a finite number, such as a string
  None,
  MaxTime,     \* bound on the clock
  MaxCount     \* bound on message counts

ASSUME PriorityAssumption ==
  /\ Window \in Nat \ {0}
  /\ NotFinite \notin Int
  /\ Configs \subseteq (Int \cup {NotFinite}) \X (Int \cup {NotFinite})
  /\ MaxTime \in Nat /\ MaxCount \in Nat /\ None \notin Int

ASSUME ConversationsAreFinite == IsFiniteSet(Conversations)

VARIABLES
  now,      \* the clock
  queued,   \* queued[c]: the metadata of conversation c, or None if it is not QUEUED
  config    \* PRIORITY_ALPHA and PRIORITY_BETA

priorityVars == <<now, queued, config>>

Times  == 0 .. MaxTime
Counts == 0 .. MaxCount

\* at is last_message_at, or created_at if the row has no last_message_at.
Metadata == [count : Counts, at : Times, dated : BOOLEAN]

PriorityInit ==
  /\ now = 0
  /\ queued = [c \in Conversations |-> None]
  /\ config \in Configs

-----------------------------------------------------------------------------
(* PriorityConfigService.getWeights *)

Finite(raw) == IF raw = NotFinite THEN 1 ELSE raw

\* Only the ratio of the weights matters: the code divides both by their sum.
Weights ==
  LET w == [alpha |-> Finite(config[1]), beta |-> Finite(config[2])]
  IN  IF w.alpha + w.beta <= 0 THEN [alpha |-> 1, beta |-> 1] ELSE w

-----------------------------------------------------------------------------
(* The candidates and their scores *)

Queue == {c \in Conversations : queued[c] # None}

\* ORDER BY last_message_at DESC puts the rows without a value first.
MoreRecent(c, d) ==
  /\ queued[d].dated
  /\ queued[c].dated => queued[c].at > queued[d].at

\* The windows that the query may return; equal timestamps come in any order.
Windows ==
  {S \in SUBSET Queue :
     /\ Cardinality(S) = IF Cardinality(Queue) < Window THEN Cardinality(Queue) ELSE Window
     /\ \A c \in S, d \in Queue \ S : ~MoreRecent(d, c)}

Delay(c) == IF queued[c].at > now THEN 0 ELSE now - queued[c].at

Least(T)    == CHOOSE t \in T : \A u \in T : t <= u
Greatest(T) == CHOOSE t \in T : \A u \in T : t >= u

CountsOf(S) == {queued[c].count : c \in S}
DelaysOf(S) == {Delay(c) : c \in S}

\* Mutants of Span: the normalisation without its case for equal values, and
\* one that divides by the greatest value.
SpanUnguarded(T) == Greatest(T) - Least(T)
SpanOfGreatest(T) == IF Greatest(T) = 0 THEN 1 ELSE Greatest(T)

\* What a feature is divided by; when all values agree it counts for nothing.
Span(T) == IF Greatest(T) = Least(T) THEN 1 ELSE Greatest(T) - Least(T)

Score(c, S) ==
  Weights.alpha * (queued[c].count - Least(CountsOf(S))) * Span(DelaysOf(S))
    + Weights.beta * (Delay(c) - Least(DelaysOf(S))) * Span(CountsOf(S))

Scale(S) == (Weights.alpha + Weights.beta) * Span(CountsOf(S)) * Span(DelaysOf(S))

\* Mutant of SortedBefore: scores that are close together count as equal.
SortedBeforeNearly(c, d, S) ==
  \/ Score(c, S) > Score(d, S) + 1
  \/ Score(c, S) - Score(d, S) \in -1 .. 1 /\ queued[c].at >= queued[d].at

\* Mutant of SortedBefore: ascending scores.
SortedBeforeAscending(c, d, S) ==
  \/ Score(c, S) < Score(d, S)
  \/ Score(c, S) = Score(d, S) /\ queued[c].at >= queued[d].at

\* The order of sort(); a tie goes to the later timestamp.
SortedBefore(c, d, S) ==
  \/ Score(c, S) > Score(d, S)
  \/ Score(c, S) = Score(d, S) /\ queued[c].at >= queued[d].at

-----------------------------------------------------------------------------
\* Conversations come into the queue, with a first message or by a release.
Enqueue(c, m) ==
  /\ queued[c] = None
  /\ ~m.dated => m.at <= now
  /\ queued' = [queued EXCEPT ![c] = m]
  /\ UNCHANGED <<now, config>>

\* Mutant of Message: the number of messages is added up.
MessageAdds(c, count, last) ==
  /\ c \in Queue
  /\ queued' = [queued EXCEPT ![c] =
                  IF last = None THEN [@ EXCEPT !.count = @ + count]
                  ELSE [count |-> @.count + count, at |-> last, dated |-> TRUE]]
  /\ UNCHANGED <<now, config>>

\* A message or a metadata update; a sender's clock may be ahead.
Message(c, count, last) ==
  /\ c \in Queue
  /\ queued' = [queued EXCEPT ![c] =
                  IF last = None THEN [@ EXCEPT !.count = count]
                  ELSE [count |-> count, at |-> last, dated |-> TRUE]]
  /\ UNCHANGED <<now, config>>

Choose(c, S) ==
  /\ S \in Windows
  /\ c \in S
  /\ \A d \in S : SortedBefore(c, d, S)

Allocate(c) ==
  /\ \E S \in Windows : Choose(c, S)
  /\ queued' = [queued EXCEPT ![c] = None]
  /\ UNCHANGED <<now, config>>

\* Someone claims the conversation instead.
Claim(c) ==
  /\ c \in Queue
  /\ queued' = [queued EXCEPT ![c] = None]
  /\ UNCHANGED <<now, config>>

Tick ==
  /\ now < MaxTime
  /\ now' = now + 1
  /\ UNCHANGED <<queued, config>>

PriorityNext ==
  \/ \E c \in Conversations :
       \/ \E m \in Metadata : Enqueue(c, m)
       \/ \E count \in Counts, last \in Times \cup {None} : Message(c, count, last)
       \/ Allocate(c)
       \/ Claim(c)
  \/ Tick

PrioritySpec == PriorityInit /\ [][PriorityNext]_priorityVars

-----------------------------------------------------------------------------
\* Type invariant.
PriorityTypeOK ==
  /\ now \in Times
  /\ queued \in [Conversations -> Metadata \cup {None}]
  /\ config \in Configs

\* c has waited as long as d and has as many messages, and more of one of them.
Dominates(c, d) ==
  /\ queued[c].count >= queued[d].count
  /\ Delay(c) >= Delay(d)
  /\ queued[c].count > queued[d].count \/ Delay(c) > Delay(d)

\* Whatever the spread of the features, equal values and clocks that run ahead
\* included, a conversation is not chosen before one that has both waited longer and
\* has more messages, if both weights count: except before one that the query has
\* cut off, for which more than Window must be queued, and which is not more recent.
ChosenIsUndominated ==
  Weights.alpha > 0 /\ Weights.beta > 0 =>
    \A S \in Windows : \A c \in S, d \in Queue :
      Choose(c, S) /\ Dominates(d, c) =>
        d \notin S /\ ~MoreRecent(d, c) /\ Cardinality(Queue) > Window

\* The comparator is a consistent one, ties included: as long as anything is queued,
\* whichever rows the query returns, one of them comes before all the others.
SomethingIsChosen ==
  Queue # {} => /\ Windows # {}
                /\ \A S \in Windows : \E c \in S : Choose(c, S)

\* A score is a proper fraction: nothing is divided by zero, and with weights that
\* are not negative it lies between 0 and 1, so that the scores stored by
\* different allocations, by which lists are sorted, can be compared at all.
ScoreIsAFraction ==
  \A S \in Windows : \A c \in S :
    /\ Scale(S) > 0
    /\ Weights.alpha >= 0 /\ Weights.beta >= 0 => Score(c, S) \in 0 .. Scale(S)

Ahead(c) == queued[c].at > now

\* Time alone reorders nothing: two candidates of a window keep their order while
\* they wait, unless some clock was ahead.
TimeKeepsOrder ==
  [][now' # now =>
       \A S \in Windows : (\A c \in S : ~Ahead(c)) =>
         \A c, d \in S : SortedBefore(c, d, S) <=> SortedBefore(c, d, S)']_priorityVars
=============================================================================
