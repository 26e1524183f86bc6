---------------------------- MODULE PriorityQueue ----------------------------
(***************************************************************************)
(* QueueService: the order in which the sorted set queue:scraping-tasks    *)
(* hands out requests. The score of a request is the time of its enqueue   *)
(* minus a second per unit of priority; the lowest score leaves first.     *)
(* RequestSystem abstracts from this order.                                *)
(***************************************************************************)
EXTENDS Integers

CONSTANTS
  Ids,          \* request ids
  Priorities,   \* priorities clients give
  Second,       \* ticks of the clock in 1000 ms
  MaxTime       \* bound: the clock stops here

ASSUME QueueAssumption ==
  /\ Priorities \subseteq Int
  /\ Second \in Nat \ {0}
  /\ MaxTime \in Nat

VARIABLES
  clock,    \* Date.now()
  score,    \* id -> score in the sorted set
  waiting,  \* members of the sorted set
  asked     \* id -> the enqueue it was given: when and with what priority

queueVars == <<clock, score, waiting, asked>>

QueueTypeOK ==
  /\ clock \in 0..MaxTime
  /\ score \in [Ids -> Int]
  /\ waiting \in SUBSET Ids
  /\ asked \in [Ids -> [used : BOOLEAN, at : 0..MaxTime, priority : Int]]

QueueInit ==
  /\ clock = 0
  /\ score = [i \in Ids |-> 0]
  /\ waiting = {}
  /\ asked = [i \in Ids |-> [used |-> FALSE, at |-> 0, priority |-> 0]]

Tick ==
  /\ clock < MaxTime
  /\ clock' = clock + 1
  /\ UNCHANGED <<score, waiting, asked>>

\* Mutant: the priority alone makes the score.
ScoreOfPriorityAlone(priority) == 0 - priority * Second

ScoreOf(priority) == clock - priority * Second

\* Mutant: score and member of ZADD in the wrong order.
EnqueueRequestSwapped(i, priority) ==
  /\ ~asked[i].used
  /\ asked' = [asked EXCEPT ![i] =
                 [used |-> TRUE, at |-> clock, priority |-> priority]]
  /\ waiting' = waiting \cup {ScoreOf(priority)}
  /\ UNCHANGED <<clock, score>>

\* An id is enqueued once: createRequest is the only caller.
EnqueueRequest(i, priority) ==
  /\ ~asked[i].used
  /\ asked' = [asked EXCEPT ![i] =
                 [used |-> TRUE, at |-> clock, priority |-> priority]]
  /\ score' = [score EXCEPT ![i] = ScoreOf(priority)]
  /\ waiting' = waiting \cup {i}
  /\ UNCHANGED clock

\* ZPOPMIN; among equal scores Redis goes by the bytes of the uuid.
DequeueRequest(i) ==
  /\ i \in waiting
  /\ \A j \in waiting : score[i] <= score[j]
  /\ waiting' = waiting \ {i}
  /\ UNCHANGED <<clock, score, asked>>

QueueNext ==
  \/ Tick
  \/ \E i \in Ids, p \in Priorities : EnqueueRequest(i, p)
  \/ \E i \in Ids : DequeueRequest(i)

QueueSpec == QueueInit /\ [][QueueNext]_queueVars

-----------------------------------------------------------------------------
(* Properties                                                              *)

Leaves(i) == i \in waiting /\ i \notin waiting'

\* Priority is worth a second a unit and no more: a request that leaves before
\* one still waiting was enqueued at most (difference of priorities) seconds
\* after it, so no stream of urgent requests starves another
\* (score of enqueueRequest together with zPopMin).
BoundedOvertaking ==
  [][\A i, j \in Ids :
       Leaves(i) /\ j \in waiting'
         => asked[i].at - asked[j].at
              <= (asked[i].priority - asked[j].priority) * Second]_queueVars
=============================================================================
