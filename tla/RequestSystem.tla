---------------------------- MODULE RequestSystem ----------------------------
(***************************************************************************)
(* The life of scraping requests: HTTP clients create, cancel and touch    *)
(* them, the workers of WorkerService take them from the queue and run the *)
(* scraper, the cleanup cron job expires the inactive ones, keys reach     *)
(* their TTL, commands fail and the process crashes and is restarted.      *)
(***************************************************************************)
EXTENDS RequestManager

CONSTANTS
  ClientOps,    \* which of "cancel", "put", "activity", "list" clients call
  PutStatuses,  \* bound: the statuses clients send with PUT /status
  Ageing,       \* whether days may pass (TTL, cleanup)
  MaxCalls,     \* bound: calls of clients besides creations
  MaxCrashes    \* bound: crashes of the process

ASSUME SystemAssumption ==
  /\ ClientOps \subseteq {"cancel", "put", "activity", "list"}
  /\ PutStatuses \subseteq Statuses
  /\ Ageing \in BOOLEAN
  /\ MaxCalls \in Nat
  /\ MaxCrashes \in Nat

VARIABLES
  issued,    \* ids some createRequest has used
  told,      \* id -> what clients have been told of it
  stage,     \* worker -> where processRequest stands
  seen,      \* worker -> status its lookup has found
  job,       \* worker -> the request it has taken
  todo,      \* keys the running cleanup has still to look at
  calls,     \* client calls made so far
  crashes    \* crashes so far

workerVars == <<stage, seen, job>>
systemVars == <<issued, told, todo, calls, crashes>>
vars == <<managerVars, workerVars, systemVars>>

Stages == {"idle", "lookup", "activity", "starting", "scraping",
           "completing", "failing"}

TypeOK ==
  /\ ManagerTypeOK
  /\ issued \in SUBSET Requests
  /\ told \in [Requests -> SUBSET {"created", "cancelled"}]
  /\ stage \in [Workers -> Stages]
  /\ seen \in [Workers -> Statuses]
  /\ job \in [Workers -> Requests \cup {NoRequest}]
  /\ todo \in SUBSET Requests
  /\ calls \in 0..MaxCalls
  /\ crashes \in 0..MaxCrashes

Init ==
  /\ ManagerInit
  /\ issued = {}
  /\ told = [r \in Requests |-> {}]
  /\ stage = [w \in Workers |-> "idle"]
  /\ seen = [w \in Workers |-> "PENDING"]
  /\ job = [w \in Workers |-> NoRequest]
  /\ todo = {}
  /\ calls = 0
  /\ crashes = 0

-----------------------------------------------------------------------------
(* HTTP clients                                                            *)

Created == {r \in Requests : "created" \in told[r]}

Create(c) ==
  /\ Idle(c)
  /\ \E r \in Requests \ issued :
       /\ issued' = issued \cup {r}
       /\ call' = [call EXCEPT ![c] = CreateCall(r)]
  /\ UNCHANGED <<db, redis, queue, faults, workerVars, told, todo, calls, crashes>>

\* The endpoint of operation op makes one of the given manager calls.
Ask(c, op, frames) ==
  /\ op \in ClientOps
  /\ Idle(c)
  /\ calls < MaxCalls
  /\ calls' = calls + 1
  /\ \E f \in frames : call' = [call EXCEPT ![c] = f]
  /\ UNCHANGED <<db, redis, queue, faults, workerVars, issued, told, todo, crashes>>

\* A client knows only the ids it has been told.
Cancel(c) == Ask(c, "cancel", {UpdateCall(r, "CANCELLED", "none") : r \in Created})
PutStatus(c) ==
  Ask(c, "put", {UpdateCall(r, to, res) :
                   r \in Created, to \in PutStatuses, res \in {"none", "client"}})
Touch(c) == Ask(c, "activity", {ActivityCall(r) : r \in Created})

\* The list reads through Redis or, when Redis lists nothing, from the rows.
ListFromRedis(c) == Ask(c, "list", {GetCall(r) : r \in Created})
ListFromRows(c) == Ask(c, "list", {ListCall(r) : r \in Created})

\* The answer of the endpoint.
Answer(c) ==
  LET f == call[c] IN
  /\ Ended(c)
  /\ told' = [told EXCEPT ![f.r] = @ \cup
       CASE f.at = "returned" /\ f.fn = "create" -> {"created"}
         [] f.at = "returned" /\ f.fn = "update" /\ f.to = "CANCELLED"
            -> {"cancelled"}
         [] OTHER -> {}]
  /\ call' = [call EXCEPT ![c] = NoCall]
  /\ UNCHANGED <<db, redis, queue, faults, workerVars, issued, todo, calls, crashes>>

-----------------------------------------------------------------------------
(* Workers                                                                 *)

\* Mutant: the queue is read without removing the request.
DequeuePeeking(w) ==
  /\ stage[w] = "idle"
  /\ \E r \in queue :
       /\ job' = [job EXCEPT ![w] = r]
       /\ call' = [call EXCEPT ![w] = GetCall(r)]
  /\ stage' = [stage EXCEPT ![w] = "lookup"]
  /\ UNCHANGED <<db, redis, queue, faults, seen, systemVars>>

\* One turn of startWorker's loop that found a request.
Dequeue(w) ==
  /\ stage[w] = "idle"
  /\ \E r \in queue :
       /\ queue' = queue \ {r}
       /\ job' = [job EXCEPT ![w] = r]
       /\ call' = [call EXCEPT ![w] = GetCall(r)]
  /\ stage' = [stage EXCEPT ![w] = "lookup"]
  /\ UNCHANGED <<db, redis, faults, seen, systemVars>>

\* ZPOPMIN took effect but its reply was lost: dequeueRequest answers null.
DequeueLost(w) ==
  /\ stage[w] = "idle"
  /\ faults < MaxFaults
  /\ faults' = faults + 1
  /\ \E r \in queue : queue' = queue \ {r}
  /\ UNCHANGED <<db, redis, call, workerVars, systemVars>>

\* An empty queue: sleep a second and look again.
Sleep(w) ==
  /\ stage[w] = "idle"
  /\ queue = {}
  /\ UNCHANGED vars

\* Worker w goes on to stage s, making the manager call f.
Proceed(w, s, f) ==
  /\ stage' = [stage EXCEPT ![w] = s]
  /\ call' = [call EXCEPT ![w] = f]
  /\ UNCHANGED <<db, redis, queue, faults, seen, job, systemVars>>

\* processRequest is over: back to the loop, or, when the update to FAILED
\* threw, out of it and restarted by startWorker's finally.
Release(w) ==
  /\ stage' = [stage EXCEPT ![w] = "idle"]
  /\ job' = [job EXCEPT ![w] = NoRequest]
  /\ seen' = [seen EXCEPT ![w] = "PENDING"]
  /\ call' = [call EXCEPT ![w] = NoCall]
  /\ UNCHANGED <<db, redis, queue, faults, systemVars>>

Failed(w) == UpdateCall(job[w], "FAILED", "error")

\* The status the worker goes by is the one of this lookup.
AfterLookup(w) ==
  /\ stage[w] = "lookup"
  /\ \/ call[w].at = "null" /\ Release(w)
     \/ /\ call[w].at = "returned"
        /\ stage' = [stage EXCEPT ![w] = "activity"]
        /\ seen' = [seen EXCEPT ![w] = call[w].copy.status]
        /\ call' = [call EXCEPT ![w] = ActivityCall(job[w])]
        /\ UNCHANGED <<db, redis, queue, faults, job, systemVars>>
     \/ call[w].at = "threw" /\ Proceed(w, "failing", Failed(w))

AfterActivity(w) ==
  /\ stage[w] = "activity"
  /\ Ended(w)
  /\ IF seen[w] = "PROCESSING"
     THEN Proceed(w, "scraping", NoCall)
     ELSE Proceed(w, "starting", UpdateCall(job[w], "PROCESSING", "none"))

AfterStarting(w) ==
  /\ stage[w] = "starting"
  /\ \/ call[w].at \in {"returned", "null"} /\ Proceed(w, "scraping", NoCall)
     \/ call[w].at = "threw" /\ Proceed(w, "failing", Failed(w))

\* The scraper's outcome. A result with success = false is a result like any
\* other; getScraper throwing on an unknown type is a scraper that throws.
ScrapeReturns(w) ==
  /\ stage[w] = "scraping"
  /\ Proceed(w, "completing", UpdateCall(job[w], "COMPLETED", "scrape"))

\* Mutant: the error is logged and the request left as it is.
ScrapeThrowsSilently(w) ==
  /\ stage[w] = "scraping"
  /\ Release(w)

ScrapeThrows(w) ==
  /\ stage[w] = "scraping"
  /\ Proceed(w, "failing", Failed(w))

AfterCompleting(w) ==
  /\ stage[w] = "completing"
  /\ \/ call[w].at \in {"returned", "null"} /\ Release(w)
     \/ call[w].at = "threw" /\ Proceed(w, "failing", Failed(w))

\* Mutant: a request whose update to FAILED threw is put back in the queue.
AfterFailingRequeues(w) ==
  /\ stage[w] = "failing"
  /\ Ended(w)
  /\ stage' = [stage EXCEPT ![w] = "idle"]
  /\ seen' = [seen EXCEPT ![w] = "PENDING"]
  /\ job' = [job EXCEPT ![w] = NoRequest]
  /\ call' = [call EXCEPT ![w] = NoCall]
  /\ queue' = IF call[w].at = "threw" THEN queue \cup {job[w]} ELSE queue
  /\ UNCHANGED <<db, redis, faults, systemVars>>

AfterFailing(w) ==
  /\ stage[w] = "failing"
  /\ Ended(w)
  /\ Release(w)

WorkerStep(w) ==
  \/ Dequeue(w)
  \/ AfterLookup(w) \/ AfterActivity(w) \/ AfterStarting(w)
  \/ ScrapeReturns(w) \/ ScrapeThrows(w)
  \/ AfterCompleting(w) \/ AfterFailing(w)

-----------------------------------------------------------------------------
(* The cleanup cron job                                                    *)

CleanupStart ==
  /\ Ageing
  /\ todo = {} /\ Idle(Cron)
  /\ todo' = {r \in Requests : redis[r] # NoKey}
  /\ UNCHANGED <<managerVars, workerVars, issued, told, calls, crashes>>

\* A key in this list that is inactive and unfinished is expired.
CleanupKey(r) ==
  LET meta == redis[r]
      expire == meta # NoKey /\ meta.old
                /\ meta.status \notin {"COMPLETED", "FAILED", "EXPIRED"}
  IN
  /\ r \in todo /\ Idle(Cron)
  /\ todo' = todo \ {r}
  /\ call' = IF expire THEN [call EXCEPT ![Cron] = UpdateCall(r, "EXPIRED", "reason")]
             ELSE call
  /\ UNCHANGED <<db, redis, queue, faults, workerVars, issued, told, calls, crashes>>

\* Whether the update succeeded or threw, the cleanup goes on to the next key.
CleanupNext ==
  /\ Ended(Cron)
  /\ call' = [call EXCEPT ![Cron] = NoCall]
  /\ UNCHANGED <<db, redis, queue, faults, workerVars, systemVars>>

CronStep == CleanupStart \/ CleanupNext \/ \E r \in Requests : CleanupKey(r)

-----------------------------------------------------------------------------
(* Time and crashes                                                        *)

Held(r) == \E w \in Workers : stage[w] # "idle" /\ job[w] = r

\* A call or a scrape takes far less than a day.
DayMayPass(r) == Ageing /\ ~Held(r) /\ \A p \in Procs : call[p].r # r

\* 24 hours since processed_at or created_at.
AgeRow(r) ==
  /\ DayMayPass(r)
  /\ db[r] # NoRow /\ ~db[r].old
  /\ db' = [db EXCEPT ![r].old = TRUE]
  /\ UNCHANGED <<redis, queue, call, faults, workerVars, systemVars>>

\* 24 hours since lastActivityAt, which is never before the row's own time.
AgeKey(r) ==
  /\ DayMayPass(r)
  /\ redis[r] # NoKey /\ ~redis[r].old
  /\ db[r] # NoRow => db[r].old
  /\ redis' = [redis EXCEPT ![r].old = TRUE]
  /\ UNCHANGED <<db, queue, call, faults, workerVars, systemVars>>

\* The TTL is set with the activity or later: the key outlives it.
ExpireKey(r) ==
  /\ redis[r] # NoKey /\ redis[r].old
  /\ redis' = [redis EXCEPT ![r] = NoKey]
  /\ UNCHANGED <<db, queue, call, faults, workerVars, systemVars>>

\* Mutant: after a crash the requests that were in hand are queued again.
CrashRequeues ==
  /\ crashes < MaxCrashes
  /\ crashes' = crashes + 1
  /\ queue' = queue \cup {r \in Requests : Held(r)}
  /\ call' = [p \in Procs |-> NoCall]
  /\ stage' = [w \in Workers |-> "idle"]
  /\ seen' = [w \in Workers |-> "PENDING"]
  /\ job' = [w \in Workers |-> NoRequest]
  /\ todo' = {}
  /\ UNCHANGED <<db, redis, faults, issued, told, calls>>

\* The process dies and is started again: Redis and the database keep what
\* they have, every call and every worker starts afresh.
Crash ==
  /\ crashes < MaxCrashes
  /\ crashes' = crashes + 1
  /\ call' = [p \in Procs |-> NoCall]
  /\ stage' = [w \in Workers |-> "idle"]
  /\ seen' = [w \in Workers |-> "PENDING"]
  /\ job' = [w \in Workers |-> NoRequest]
  /\ todo' = {}
  /\ UNCHANGED <<db, redis, queue, faults, issued, told, calls>>

Environment ==
  \/ \E r \in Requests : AgeRow(r) \/ AgeKey(r) \/ ExpireKey(r)
  \/ Crash

ClientStep(c) ==
  \/ Create(c) \/ Cancel(c) \/ Touch(c) \/ PutStatus(c)
  \/ ListFromRedis(c) \/ ListFromRows(c)
  \/ Answer(c)

\* One command of the call process p is in, carried out or failing.
Command(p) ==
  /\ CallStep(p) \/ Fail(p)
  /\ UNCHANGED <<workerVars, systemVars>>

Next ==
  \/ \E p \in Procs : Command(p)
  \/ \E c \in Clients : ClientStep(c)
  \/ \E w \in Workers : WorkerStep(w) \/ DequeueLost(w) \/ Sleep(w)
  \/ CronStep
  \/ Environment

Spec == Init /\ [][Next]_vars

\* Every started call is driven by the event loop and every worker keeps
\* looping; that a scrape ends is assumed of the scrapers. The cron job is
\* scheduled every five minutes. Nothing makes clients call, time pass or commands fail.
Fairness ==
  /\ \A p \in Procs : WF_vars(Command(p))
  /\ \A w \in Workers : WF_vars(WorkerStep(w))
  /\ \A c \in Clients : WF_vars(Answer(c))
  /\ WF_vars(CronStep)

FairSpec == Spec /\ Fairness

-----------------------------------------------------------------------------
(* Properties                                                              *)

Creating(c, r) == call[c].fn = "create" /\ call[c].r = r /\ call[c].at \in Awaits
Holding(w, r) == stage[w] # "idle" /\ job[w] = r

\* The places a request can be in before it is over: the createRequest that
\* will enqueue it, the queue, the hands of a worker.
Places(r) == {<<"creating", c>> : c \in {d \in Clients : Creating(d, r)}}
             \cup {<<"held", w>> : w \in {v \in Workers : Holding(v, r)}}
             \cup (IF r \in queue THEN {<<"queued">>} ELSE {})

\* A request is never in two places: no two workers scrape it, no worker
\* scrapes what is still queued, whatever fails or crashes
\* (createRequest, dequeueRequest and processRequest together).
OnePlace == \A r \in Requests : \A here, there \in Places(r) : here = there

\* The row is there before anyone can take the request: every queued or held
\* request has its row, so the worker's lookup cannot miss even when the
\* metadata has left Redis (createRequest inserts before it enqueues).
TakenHasRow ==
  \A r \in Requests :
    r \in queue \/ Held(r) => db[r] # NoRow

\* A worker never meets the "not found, skipping" of processRequest: the
\* lookup of a taken request, through Redis or the row, yields metadata.
LookupFinds == \A w \in Workers : stage[w] = "lookup" => call[w].at # "null"

\* A row marked COMPLETED carries the scraper's result, at every moment a
\* GET may read it: the result is written before the status and nothing
\* replaces it (updateRequestStatus against cancels, activity and lists).
CompletedHasResult ==
  \A r \in Requests :
    db[r] # NoRow /\ db[r].status = "COMPLETED" => db[r].result = "scrape"

\* A row that a worker has closed is not taken up again: from COMPLETED or
\* FAILED it never goes back to PENDING or PROCESSING.
ClosedRowStaysClosed ==
  [][\A r \in Requests :
       db[r] # NoRow /\ db[r].status \in {"COMPLETED", "FAILED"}
         => db'[r].status \notin {"PENDING", "PROCESSING"}]_vars

Closed(r) == db[r] # NoRow /\ db[r].status \in Closing

\* Without faults and crashes every request whose creation was acknowledged
\* ends up closed in the database, and for good.
EveryRequestCloses ==
  \A r \in Requests :
    r \in Created ~> []Closed(r)

\* DELETE /requests/:id answers "Request cancelled successfully": after that
\* answer the request is not completed.
CancelledStaysCancelled ==
  [][\A r \in Requests :
       "cancelled" \in told[r] /\ db[r].status # "COMPLETED"
         => db'[r].status # "COMPLETED"]_vars
=============================================================================
