------------------------ MODULE PriorityQueue_proofs ------------------------
(***************************************************************************)
(* Proofs about PriorityQueue: its type invariant, and that priority buys  *)
(* a bounded head start, for any ids, priorities and length of run.        *)
(***************************************************************************)
EXTENDS PriorityQueue, TLAPS

\* The score of a waiting request is still the one its enqueue computed.
ScoresKept ==
  \A i \in Ids :
    i \in waiting =>
      score[i] = asked[i].at - asked[i].priority * Second

QueueInv == QueueTypeOK /\ ScoresKept

LEMMA QueueInitInv == QueueInit => QueueInv
  BY QueueAssumption DEF QueueInit, QueueInv, QueueTypeOK, ScoresKept

LEMMA ScoreIsInt ==
  ASSUME QueueTypeOK, NEW p \in Priorities
  PROVE  ScoreOf(p) \in Int
<1>1. clock \in Int /\ p \in Int /\ Second \in Int
  BY QueueAssumption DEF QueueTypeOK
<1> QED
  BY <1>1 DEF ScoreOf

LEMMA QueueStepInv == QueueInv /\ [QueueNext]_queueVars => QueueInv'
<1> SUFFICES ASSUME QueueInv, [QueueNext]_queueVars
             PROVE  QueueInv'
  OBVIOUS
<1>0. QueueTypeOK /\ ScoresKept
  BY DEF QueueInv
<1>1. CASE Tick
  BY <1>0, <1>1, QueueAssumption DEF Tick, QueueInv, QueueTypeOK, ScoresKept
<1>2. ASSUME NEW i \in Ids, NEW p \in Priorities, EnqueueRequest(i, p)
      PROVE  QueueInv'
  <2>1. p \in Int /\ Second \in Int
    BY QueueAssumption
  <2>2. QueueTypeOK'
    BY <1>0, <1>2, <2>1, ScoreIsInt DEF EnqueueRequest, QueueTypeOK
  <2>3. ASSUME NEW j \in Ids, j \in waiting'
        PROVE  score'[j] = asked'[j].at - asked'[j].priority * Second
    <3>1. CASE j = i
      <4>1. /\ score'[i] = ScoreOf(p)
            /\ asked'[i] = [used |-> TRUE, at |-> clock, priority |-> p]
        BY <1>0, <1>2 DEF EnqueueRequest, QueueTypeOK
      <4> QED
        BY <3>1, <4>1 DEF ScoreOf
    <3>2. CASE j # i
      <4>1. /\ score'[j] = score[j]
            /\ asked'[j] = asked[j]
            /\ j \in waiting
        BY <1>0, <1>2, <2>3, <3>2 DEF EnqueueRequest, QueueTypeOK
      <4> QED
        BY <1>0, <4>1 DEF ScoresKept
    <3> QED
      BY <3>1, <3>2
  <2> QED
    BY <2>2, <2>3 DEF QueueInv, ScoresKept
<1>3. ASSUME NEW i \in Ids, DequeueRequest(i)
      PROVE  QueueInv'
  BY <1>0, <1>3 DEF DequeueRequest, QueueInv, QueueTypeOK, ScoresKept
<1>4. CASE UNCHANGED queueVars
  BY <1>0, <1>4 DEF queueVars, QueueInv, QueueTypeOK, ScoresKept
<1> QED
  BY <1>1, <1>2, <1>3, <1>4 DEF QueueNext

LEMMA QueueInvariant == QueueSpec => []QueueInv
  BY QueueInitInv, QueueStepInv, PTL DEF QueueSpec

\* The types hold in every reachable state: a score is always a number, so
\* the sorted set always has a lowest member to hand out.
THEOREM QueueTyped == QueueSpec => []QueueTypeOK
<1>1. QueueInv => QueueTypeOK
  BY DEF QueueInv
<1> QED
  BY <1>1, QueueInvariant, PTL

\* What one dequeue shows of the requests it leaves behind.
LEMMA DequeueBound ==
  ASSUME QueueInv, NEW i \in Ids, NEW j \in Ids,
         [QueueNext]_queueVars, Leaves(i), j \in waiting'
  PROVE  asked[i].at - asked[j].at
           <= (asked[i].priority - asked[j].priority) * Second
<1>1. DequeueRequest(i)
  <2>1. CASE Tick
    BY <2>1 DEF Tick, Leaves
  <2>2. ASSUME NEW k \in Ids, NEW p \in Priorities, EnqueueRequest(k, p)
        PROVE  FALSE
    BY <2>2 DEF EnqueueRequest, Leaves
  <2>3. ASSUME NEW k \in Ids, DequeueRequest(k)
        PROVE  k = i
    BY <2>3 DEF DequeueRequest, Leaves
  <2>4. CASE UNCHANGED queueVars
    BY <2>4 DEF queueVars, Leaves
  <2> QED
    BY <2>1, <2>2, <2>3, <2>4 DEF QueueNext
<1>2. i \in waiting /\ j \in waiting /\ score[i] <= score[j]
  BY <1>1 DEF DequeueRequest
<1>3. /\ score[i] = asked[i].at - asked[i].priority * Second
      /\ score[j] = asked[j].at - asked[j].priority * Second
  BY <1>2 DEF QueueInv, ScoresKept
<1>4. /\ asked[i].at \in Int /\ asked[j].at \in Int
      /\ asked[i].priority \in Int /\ asked[j].priority \in Int
      /\ Second \in Int
  BY QueueAssumption DEF QueueInv, QueueTypeOK
<1>5. ASSUME NEW a \in Int, NEW b \in Int, NEW p \in Int, NEW q \in Int,
             NEW s \in Int, a - p * s <= b - q * s
      PROVE  a - b <= (p - q) * s
  BY <1>5, SMT
<1> QED
  BY <1>2, <1>3, <1>4, <1>5

\* No stream of urgent requests starves another: whatever leaves before a
\* waiting request was enqueued at most a second a unit of priority after it.
THEOREM OvertakingIsBounded == QueueSpec => BoundedOvertaking
<1>1. QueueInv /\ [QueueNext]_queueVars
        => [\A i, j \in Ids :
              Leaves(i) /\ j \in waiting'
                => asked[i].at - asked[j].at
                     <= (asked[i].priority - asked[j].priority) * Second]_queueVars
  BY DequeueBound
<1> QED
  BY <1>1, QueueInvariant, PTL DEF QueueSpec, BoundedOvertaking
=============================================================================
