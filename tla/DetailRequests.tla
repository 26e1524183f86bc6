---------------------------- MODULE DetailRequests ----------------------------
(***************************************************************************)
(* The requests for the details of materials: RetryHandler with the one    *)
(* RequestQueue of the process, which every scrape shares, and the         *)
(* ApiResponseAnalyzer that decides which errors are tried again. Delays   *)
(* are left out: an item that waits may go on in any later step.           *)
(***************************************************************************)
EXTENDS Naturals, Sequences, FiniteSets

CONSTANTS
  Execs,       \* executions of the pipeline
  Materials,
  MaxRetries,  \* maxRetries of RetryHandler
  MaxWidth,    \* the most adjustParameters raises maxConcurrent to
  Answers      \* what the API answers, of those Classify knows

VARIABLES
  queue,    \* RequestQueue.queue: items <<execution, material>>
  active,   \* the items of the current batch that are not settled
  looping,  \* isProcessing
  width,    \* maxConcurrent
  try,      \* item -> where executeWithRetry stands
  attempt   \* item -> attempts that failed, until executeWithRetry returns

queueVars == <<queue, active, looping, width, try, attempt>>

Items == Execs \X Materials
Tries == {"none", "queued", "running", "backoff", "ok", "failed"}
Settled(i) == try[i] \in {"ok", "failed"}

QueueInit ==
  /\ queue = <<>> /\ active = {} /\ looping = FALSE
  /\ width = 1
  /\ try = [i \in Items |-> "none"] /\ attempt = [i \in Items |-> 0]

-----------------------------------------------------------------------------
(* What analyzeResponse makes of an answer. An answer with status 200 and   *)
(* data is a success whatever its code says; one without data is an error   *)
(* axios knows nothing of, and the only kind here that is not analysed.     *)

Classify(answer) ==
  CASE answer = "429"        -> "RATE_LIMIT"
    [] answer \in {"401", "403", "40101"} -> "ACCESS_DENIED"
    [] answer = "404"        -> "NOT_FOUND"
    [] answer = "500"        -> "OTHER_SERVER_ERROR"
    [] answer = "slow"       -> "TIMEOUT"
    [] answer = "unreachable" -> "NETWORK"
    [] answer = "data"       -> "NONE"
    [] OTHER                 -> "OTHER"

ShouldRetry(type) ==
  type \in {"RATE_LIMIT", "TIMEOUT", "NETWORK", "OTHER_SERVER_ERROR",
            "EMPTY_RESPONSE", "MALFORMED_RESPONSE", "OTHER", "UNKNOWN"}

(* generateActionRecommendation: the other actions differ in the delay.     *)
Recommend(type, n) ==
  IF ShouldRetry(type) /\ n < MaxRetries THEN "retry" ELSE "abort"

(* A plausible error in GivesUp, for the runs' mutants. *)
GivesUpNever(answer, n) == FALSE

(* After the n-th failure: whether executeWithRetry gives the item up.      *)
GivesUp(answer, n) ==
  \/ n > MaxRetries
  \/ answer # "empty" /\ Recommend(Classify(answer), n) = "abort"

-----------------------------------------------------------------------------
(* A plausible error in Pushed, for the runs' mutants. *)
PushedEagerly(items, q, a, l) ==
  IF items = <<>> THEN [queue |-> q, active |-> a, looping |-> l]
  ELSE [queue |-> q \o Tail(items), active |-> a \cup {Head(items)}, looping |-> TRUE]

(* An item that finds the loop at rest starts it, alone; others queue.      *)
Pushed(items, q, a, l) ==
  IF l \/ items = <<>> THEN [queue |-> q \o items, active |-> a, looping |-> l]
  ELSE [queue |-> q \o Tail(items), active |-> a \cup {Head(items)}, looping |-> TRUE]

Enqueue(items) ==
  LET p == Pushed(items, queue, active, looping)
  IN  /\ queue' = p.queue /\ active' = p.active /\ looping' = p.looping
      /\ try' = [i \in Items |->
                   IF i \in p.active \ active THEN "running"
                   ELSE IF \E k \in 1..Len(items) : items[k] = i THEN "queued"
                   ELSE try[i]]

(* A plausible error in Leave, for the runs' mutants. *)
LeaveLooping(i) ==
  active' = active \ {i} /\ looping' = (active # {i})

(* The loop ends with the batch after which the queue is empty.             *)
Leave(i) ==
  /\ active' = active \ {i}
  /\ looping' = (active # {i} \/ queue # <<>>)

TakeBatch ==
  LET n == IF Len(queue) < width THEN Len(queue) ELSE width
      batch == {queue[k] : k \in 1..n}
  IN  /\ looping /\ active = {} /\ queue # <<>>
      /\ active' = batch /\ queue' = SubSeq(queue, n + 1, Len(queue))
      /\ try' = [i \in Items |-> IF i \in batch THEN "running" ELSE try[i]]
      /\ UNCHANGED <<looping, width, attempt>>

Succeed(i) ==
  /\ i \in active /\ Leave(i)
  /\ try' = [try EXCEPT ![i] = "ok"]
  /\ attempt' = [attempt EXCEPT ![i] = 0]
  /\ UNCHANGED <<queue, width>>

(* The failure is reported to the configuration manager and recorded before *)
(* the wait begins; neither reply changes what follows.                     *)
Fail(i, answer) ==
  LET n == attempt[i] + 1
  IN  /\ i \in active /\ answer # "data" /\ Leave(i)
      /\ attempt' = [attempt EXCEPT ![i] = IF GivesUp(answer, n) THEN 0 ELSE n]
      /\ try' = [try EXCEPT ![i] = IF GivesUp(answer, n) THEN "failed" ELSE "backoff"]
      /\ UNCHANGED <<queue, width>>

Retry(i) ==
  /\ try[i] = "backoff" /\ Enqueue(<<i>>)
  /\ UNCHANGED <<width, attempt>>

(* What an execution asked for is forgotten with its context.               *)
Forgotten(e) ==
  /\ try' = [i \in Items |-> IF i[1] = e THEN "none" ELSE try[i]]
  /\ attempt' = [i \in Items |-> IF i[1] = e THEN 0 ELSE attempt[i]]
  /\ UNCHANGED <<queue, active, looping, width>>

(* Every minute: fewer at once after two rate limits, more after twenty     *)
(* successes with hardly an error. The counts are left out: either may      *)
(* happen in any minute.                                                    *)
AdjustParameters ==
  /\ width' \in {width - 1, width + 1} \cap 1..MaxWidth
  /\ UNCHANGED <<queue, active, looping, try, attempt>>

-----------------------------------------------------------------------------
QueueTypeOK ==
  /\ queue \in Seq(Items) /\ active \subseteq Items /\ looping \in BOOLEAN
  /\ width \in 1..MaxWidth
  /\ try \in [Items -> Tries] /\ attempt \in [Items -> 0..MaxRetries]

(* No request waits in the queue while no loop will take it out, whatever   *)
(* the order in which the last batch settles and new requests arrive.       *)
QueueIsServed ==
  /\ (looping <=> active # {} \/ queue # <<>>)
  /\ \A i \in Items :
       (try[i] = "queued") = (\E k \in 1..Len(queue) : queue[k] = i)

(* No more requests than MaxWidth are under way at once, however many       *)
(* scrapes share the queue.                                                 *)
ConcurrencyBounded == Cardinality(active) <= MaxWidth
=============================================================================
