----------------------------- MODULE TiktokScrape -----------------------------
(***************************************************************************)
(* TiktokApiScraper: the GenericScraperPipeline with the TikTok steps, the *)
(* state of a task in Redis and ScraperRecoveryService, which executes the *)
(* pipeline again for a task it finds there. Every action runs from one    *)
(* await to the next; steps that await nothing that others can see are one *)
(* action. A read-modify-write of the stored state is one action as well:  *)
(* every execution writes all the fields it knows, the last one wins.      *)
(***************************************************************************)
EXTENDS DetailRequests, SequencesExt

CONSTANTS
  Scrapers,    \* executions on behalf of a request; each makes a task
  Listing,     \* page -> the set of materials the API lists on it
  VideoOf,     \* material -> vid of its video, NoVideo when its details name none
  NoVideo,
  MaxPages,    \* behavior.maxPages
  MaxAds,      \* behavior.maxAdsToCollect
  Breaker,     \* the 50 of absoluteMaxPages
  MaxEmpty,    \* maxConsecutiveEmptyResults
  MaxFaults,   \* bound: failing calls of storage and database, and crashes
  NoTask

Recoverers == Execs \ Scrapers
Pages == DOMAIN Listing

ASSUME ScrapeAssumption ==
  /\ Scrapers \subseteq Execs /\ NoTask \notin Scrapers
  /\ IsFiniteSet(Execs) /\ IsFiniteSet(Materials)
  /\ Listing \in Seq(SUBSET Materials) /\ DOMAIN VideoOf = Materials
  /\ {MaxPages, MaxAds, Breaker, MaxEmpty, MaxRetries, MaxWidth} \subseteq Nat \ {0}
  /\ MaxFaults \in Nat

VARIABLES
  ctx,     \* execution -> its ScraperContext and where it stands
  stored,  \* task -> ScraperState in Redis
  stale,   \* tasks whose lastUpdated is more than 30 minutes old
  saved,   \* rows of DetailMaterial
  plan,    \* tasks the recovery under way has still to execute
  recovering,  \* isRecoveryRunning
  faults

vars == <<queueVars, ctx, stored, stale, saved, plan, recovering, faults>>
shared == <<stored, stale, saved>>
recovery == <<plan, recovering>>

Blank ==
  [at |-> "idle", task |-> NoTask, target |-> NoTask, mode |-> "scrape",
   page |-> 0, more |-> TRUE, raw |-> 0, config |-> FALSE, errors |-> FALSE,
   ids |-> {}, todo |-> {}, batch |-> {}, got |-> {}, ads |-> {},
   ok |-> {}, bad |-> {}, before |-> {},
   cycles |-> 0, empty |-> 0, counted |-> 0]

NoState == [exists |-> FALSE, page |-> 0, more |-> TRUE, ok |-> {}, bad |-> {},
            running |-> FALSE, completed |-> FALSE]

Init ==
  /\ QueueInit
  /\ ctx = [e \in Execs |-> Blank]
  /\ stored = [t \in Scrapers |-> NoState]
  /\ stale = {} /\ saved = {} /\ plan = {} /\ recovering = FALSE /\ faults = 0

Fault == faults < MaxFaults /\ faults' = faults + 1
At(e, place) == ctx[e].at = place
Smaller(a, b) == IF a < b THEN a ELSE b

-----------------------------------------------------------------------------
(* The state of a task in Redis.                                            *)

(* updateState writes nothing for a task that is not there.                 *)
Exists(t) == IF t = NoTask THEN FALSE ELSE stored[t].exists

Updated(t, more, page, ok, bad) ==
  IF Exists(t)
  THEN /\ stored' = [stored EXCEPT ![t].page = page, ![t].more = more,
                                   ![t].ok = ok, ![t].bad = bad]
       /\ stale' = stale \ {t}
  ELSE UNCHANGED <<stored, stale>>

Marked(t, running, completed) ==
  IF Exists(t)
  THEN /\ stored' = [stored EXCEPT ![t].running = running, ![t].completed = completed]
       /\ stale' = stale \ {t}
  ELSE UNCHANGED <<stored, stale>>

(* The steps' own updates log an error and go on.                           *)
Progress(e, c) ==
  \/ Updated(c.task, c.more, c.page, c.ok, c.bad) /\ UNCHANGED faults
  \/ Fault /\ UNCHANGED <<stored, stale>>

-----------------------------------------------------------------------------
(* The pipeline: after a cycle, go on or stop. The order of the breaks is   *)
(* that of controlFlow; all of them end the loop.                           *)

Empty(c) == IF Cardinality(c.ads) = c.counted THEN c.empty + 1 ELSE 0

Stops(c) ==
  LET pages == c.cycles + 1
  IN  \/ Cardinality(c.ads) >= MaxAds
      \/ ~c.more
      \/ pages >= MaxPages
      \/ Empty(c) >= MaxEmpty
      \/ pages >= Smaller(2 * MaxPages, Breaker)

(* Only the emergency breaker is an error.                                  *)
Trips(c) ==
  /\ Cardinality(c.ads) < MaxAds /\ c.more /\ c.cycles + 1 < MaxPages
  /\ Empty(c) < MaxEmpty
  /\ c.cycles + 1 >= Smaller(2 * MaxPages, Breaker)

EndCycle(e) ==
  LET c == ctx[e]
  IN  /\ At(e, "cycle")
      /\ ctx' = [ctx EXCEPT ![e].cycles = @ + 1,
                            ![e].empty = Empty(c),
                            ![e].counted = Cardinality(c.ads),
                            ![e].errors = @ \/ Trips(c),
                            ![e].at = IF Stops(c) THEN "finish" ELSE "request"]
      /\ UNCHANGED <<queueVars, shared, recovery, faults>>

(* Of the context only the result is left.                                  *)
Done(c) == [Blank EXCEPT !.at = "done", !.mode = c.mode, !.raw = c.raw, !.bad = c.bad]

(* formatResult: a result with errors is a failure. Recovery records it.    *)
Finish(e) ==
  /\ At(e, "finish")
  /\ IF e \in Scrapers THEN UNCHANGED <<stored, stale, faults>>
     ELSE \/ Marked(ctx[e].target, FALSE, ~ctx[e].errors) /\ UNCHANGED faults
          \/ Fault /\ UNCHANGED <<stored, stale>>
  /\ ctx' = [ctx EXCEPT ![e] = Done(ctx[e])] /\ Forgotten(e)
  /\ UNCHANGED <<saved, recovery>>

-----------------------------------------------------------------------------
(* The steps, in the order of TikTokScraperFactory.getSteps.                *)

Scrape(e) ==
  /\ e \in Scrapers /\ At(e, "idle")
  /\ ctx' = [ctx EXCEPT ![e] = [Blank EXCEPT !.at = "initialize", !.task = e, !.page = 1]]
  /\ UNCHANGED <<queueVars, shared, recovery, faults>>

(* A plausible error in Restore, for the runs' mutants. *)
RestoreWithoutTheProcessed(e) ==
  LET t == ctx[e].task
  IN  /\ At(e, "restore") /\ stored[t].exists
      /\ ctx' = [ctx EXCEPT ![e].page = stored[t].page, ![e].more = stored[t].more,
                            ![e].before = stored[t].ok, ![e].at = "initialize"]
      /\ UNCHANGED <<queueVars, shared, recovery, faults>>

(* InitializationStep: a recovered task takes up what Redis holds of it, or *)
(* begins anew, under another id, when nothing is left.                     *)
Restore(e) ==
  LET t == ctx[e].task
  IN  /\ At(e, "restore")
      /\ \/ /\ stored[t].exists
            /\ ctx' = [ctx EXCEPT ![e].page = stored[t].page, ![e].more = stored[t].more,
                                  ![e].ok = stored[t].ok, ![e].bad = stored[t].bad,
                                  ![e].before = stored[t].ok, ![e].at = "initialize"]
            /\ UNCHANGED faults
         \/ /\ Fault
            /\ ctx' = [ctx EXCEPT ![e] = [Blank EXCEPT !.at = "initialize", !.page = 1,
                                            !.mode = ctx[e].mode, !.target = t]]
      /\ UNCHANGED <<queueVars, shared, recovery>>

SaveInitial(e) ==
  LET c == ctx[e]
  IN  /\ At(e, "initialize")
      /\ IF c.task = NoTask THEN UNCHANGED <<stored, stale>>
         ELSE /\ stored' = [stored EXCEPT ![c.task] =
                   [exists |-> TRUE, page |-> c.page, more |-> c.more, ok |-> c.ok,
                    bad |-> c.bad, running |-> TRUE, completed |-> FALSE]]
              /\ stale' = stale \ {c.task}
      /\ ctx' = [ctx EXCEPT ![e].at = "config"]
      /\ UNCHANGED <<queueVars, saved, recovery, faults>>

(* A step that fails ends the initial steps, not the scrape.                *)
SaveInitialFails(e) ==
  /\ At(e, "initialize") /\ Fault
  /\ ctx' = [ctx EXCEPT ![e].at = "request"]
  /\ UNCHANGED <<queueVars, shared, recovery>>

GetApiConfig(e) ==
  /\ At(e, "config")
  /\ \/ ctx' = [ctx EXCEPT ![e].config = TRUE, ![e].at = "request"] /\ UNCHANGED faults
     \/ Fault /\ ctx' = [ctx EXCEPT ![e].errors = TRUE, ![e].at = "request"]
  /\ UNCHANGED <<queueVars, shared, recovery>>

(* ApiRequestStep.shouldExecute.                                            *)
MayRequest(c) == c.config /\ (c.page = 0 \/ (c.more /\ c.page < MaxPages))

MaterialsOn(p) == IF p \in Pages THEN Listing[p] ELSE {}
HasMore(p) == \E q \in Pages : q > p

(* PaginationStep and GetMatirialsIdStep read the answer at once.           *)
ReadPage(e, p) ==
  ctx' = [ctx EXCEPT ![e].raw = p, ![e].page = p,
                     ![e].more = HasMore(p) /\ p < MaxPages,
                     ![e].ids = MaterialsOn(p), ![e].at = "filter"]

Request(e) ==
  /\ At(e, "request") /\ MayRequest(ctx[e])
  /\ ReadPage(e, ctx[e].page + 1)
  /\ UNCHANGED <<queueVars, shared, recovery, faults>>

(* Whatever the error, and whether or not a fallback configuration is       *)
(* found, the step fails and the cycle ends; the next one asks again.       *)
RequestFails(e) ==
  /\ At(e, "request") /\ MayRequest(ctx[e])
  /\ ctx' = [ctx EXCEPT ![e].at = "cycle"]
  /\ UNCHANGED <<queueVars, shared, recovery, faults>>

(* Without a request the other steps read the last answer again; without    *)
(* one GetMatirialsIdStep throws, and the pipeline ends.                    *)
SkipRequest(e) ==
  /\ At(e, "request") /\ ~MayRequest(ctx[e])
  /\ IF ctx[e].raw = 0
     THEN ctx' = [ctx EXCEPT ![e].errors = TRUE, ![e].at = "finish"]
     ELSE ReadPage(e, ctx[e].raw)
  /\ UNCHANGED <<queueVars, shared, recovery, faults>>

Filter(e) ==
  /\ At(e, "filter")
  /\ \E ids \in {ctx[e].ids \ saved, {}} :
       /\ IF ids = ctx[e].ids \ saved THEN UNCHANGED faults ELSE Fault
       /\ ctx' = [ctx EXCEPT ![e].ids = ids,
                             ![e].at = IF ids = {} THEN "save" ELSE "process"]
  /\ UNCHANGED <<queueVars, shared, recovery>>

(* A plausible error in Remaining, for the runs' mutants. *)
RemainingUnprocessed(c) == c.ids \ c.ok

(* ProcessMaterialsStep. Without a configuration it fails: the materials of *)
(* the page are neither processed nor failed, and the page is behind.       *)
Remaining(c) == c.ids \ (c.ok \cup c.bad)

Process(e) ==
  /\ At(e, "process")
  /\ \/ /\ ctx' = [ctx EXCEPT ![e].todo = Remaining(ctx[e]), ![e].got = {},
                               ![e].at = "batch"]
        /\ UNCHANGED faults
     \/ /\ Fault
        /\ ctx' = [ctx EXCEPT ![e].errors = TRUE,
                              ![e].at = IF ctx[e].mode = "failed" THEN "done" ELSE "cycle"]
  /\ UNCHANGED <<queueVars, shared, recovery>>

(* What throws in the step marks the task as failed.                        *)
ProcessThrows(e) ==
  /\ At(e, "process") /\ Fault
  /\ Marked(ctx[e].task, FALSE, FALSE)
  /\ ctx' = [ctx EXCEPT ![e].errors = TRUE,
                        ![e].at = IF ctx[e].mode = "failed" THEN "done" ELSE "cycle"]
  /\ UNCHANGED <<queueVars, saved, recovery>>

(* Batches of two, or of one while the API limits the rate.                 *)
StartBatch(e) ==
  /\ At(e, "batch") /\ ctx[e].todo # {}
  /\ \E n \in {1, 2} \cap 1..Cardinality(ctx[e].todo) :
       LET items == SubSeq(SetToSeq({e} \X ctx[e].todo), 1, n)
           batch == {items[k][2] : k \in 1..n}
       IN  /\ Enqueue(items)
           /\ ctx' = [ctx EXCEPT ![e].batch = batch, ![e].todo = @ \ batch,
                                 ![e].at = "wait"]
  /\ UNCHANGED <<width, attempt, shared, recovery, faults>>

Outcome(e, result) == {m \in ctx[e].batch : try[<<e, m>>] = result}

(* A material that was given up is recorded at once, by itself.             *)
RecordFailure(e) ==
  /\ At(e, "wait")
  /\ \E m \in Outcome(e, "failed") \ ctx[e].bad :
       LET c == [ctx[e] EXCEPT !.bad = @ \cup {m}]
       IN  ctx' = [ctx EXCEPT ![e] = c] /\ Progress(e, c)
  /\ UNCHANGED <<queueVars, saved, recovery>>

(* A plausible error in EndBatch, for the runs' mutants. *)
EndBatchOfAll(e) ==
  LET all == ctx[e].batch
      c == [ctx[e] EXCEPT !.ok = @ \cup all, !.got = @ \cup all, !.batch = {}, !.at = "batch"]
  IN  /\ At(e, "wait")
      /\ all = Outcome(e, "ok") \cup (Outcome(e, "failed") \cap ctx[e].bad)
      /\ ctx' = [ctx EXCEPT ![e] = c]
      /\ Progress(e, c)
      /\ UNCHANGED <<queueVars, saved, recovery>>

EndBatch(e) ==
  LET good == Outcome(e, "ok")
      c == [ctx[e] EXCEPT !.ok = @ \cup good, !.got = @ \cup good, !.batch = {},
                          !.at = "batch"]
  IN  /\ At(e, "wait")
      /\ ctx[e].batch = good \cup (Outcome(e, "failed") \cap ctx[e].bad)
      /\ ctx' = [ctx EXCEPT ![e] = c]
      /\ IF good = {} THEN UNCHANGED <<stored, stale, faults>> ELSE Progress(e, c)
      /\ UNCHANGED <<queueVars, saved, recovery>>

EndProcess(e) ==
  LET ads == ctx[e].ads \cup ctx[e].got
      c == [ctx[e] EXCEPT !.ads = ads, !.got = {}, !.ids = {},
                          !.more = @ /\ Cardinality(ads) < MaxAds,
                          !.at = IF ctx[e].mode = "failed" THEN "record" ELSE "save"]
  IN  /\ At(e, "batch") /\ ctx[e].todo = {}
      /\ ctx' = [ctx EXCEPT ![e] = c]
      /\ Progress(e, c)
      /\ UNCHANGED <<queueVars, saved, recovery>>

(* ErrorAnalysisStep and ErrorDiagnosticStep change nothing the scrape      *)
(* reads. SaveCreativesStep saves all that was collected so far. A vid is   *)
(* unique and belongs to the row that was first saved with it.              *)
Taken(m, rows) == \E o \in rows \ {m} : VideoOf[o] = VideoOf[m]

(* An ad without a video is skipped, one whose video belongs to another row *)
(* is saved without it; an ad for which a call fails is skipped as well.    *)
Save(e) ==
  LET shown == {m \in ctx[e].ads : VideoOf[m] # NoVideo}
      taken == {m \in shown : Taken(m, saved)}
  IN  /\ At(e, "save")
      /\ \E skipped \in SUBSET shown :
           /\ IF skipped = {} THEN UNCHANGED faults ELSE Fault
           /\ saved' = saved \cup (taken \ skipped)
           /\ ctx' = [ctx EXCEPT ![e].batch = shown \ (taken \cup skipped), ![e].at = "commit"]
      /\ UNCHANGED <<queueVars, stored, stale, recovery>>

(* A plausible error in Commit, for the runs' mutants. *)
CommitTogether(e) ==
  LET rows == saved \cup ctx[e].batch
  IN  /\ At(e, "commit")
      /\ saved' = IF \E m \in ctx[e].batch : Taken(m, rows) THEN saved ELSE rows
      /\ ctx' = [ctx EXCEPT ![e].batch = {}, ![e].at = "cycle"]
      /\ UNCHANGED <<queueVars, stored, stale, recovery, faults>>

(* The others with their videos, in one transaction or, when it fails, one  *)
(* by one. A vid that two of them have, or that another execution saved     *)
(* meanwhile, refuses the row: it is logged and passed over.                *)
Commit(e) ==
  LET batch == ctx[e].batch
  IN  /\ At(e, "commit")
      /\ \E kept \in SUBSET (batch \ saved) :
           LET rows == saved \cup kept
           IN  /\ \A m \in kept : ~Taken(m, rows)
               /\ \/ (\A m \in batch \ rows : Taken(m, rows)) /\ UNCHANGED faults
                  \/ Fault
               /\ saved' = rows
      /\ ctx' = [ctx EXCEPT ![e].batch = {}, ![e].at = "cycle"]
      /\ UNCHANGED <<queueVars, stored, stale, recovery>>

-----------------------------------------------------------------------------
(* ScraperRecoveryService: by cron for every incomplete task as soon as one *)
(* is stalled, by hand for one task or for its failed materials.            *)

Resting(e) == ctx[e].at \in {"idle", "done", "gone"}
Incomplete == {t \in Scrapers : stored[t].exists /\ ~stored[t].completed}

Recover ==
  /\ ~recovering
  /\ \E t \in Incomplete \cap stale : stored[t].running
  /\ recovering' = TRUE /\ plan' = Incomplete
  /\ UNCHANGED <<queueVars, ctx, shared, faults>>

(* Each execution is used once: their number bounds the recoveries.         *)
Begin(e, c) ==
  /\ e \in Recoverers /\ At(e, "idle")
  /\ ctx' = [ctx EXCEPT ![e] = c]
  /\ UNCHANGED queueVars

Recovering(t, mode) == [Blank EXCEPT !.at = "restore", !.task = t, !.target = t, !.mode = mode]

(* One task after the other.                                                *)
RecoverNext(e, t) ==
  /\ t \in plan /\ \A x \in Execs : ctx[x].mode = "planned" => Resting(x)
  /\ Begin(e, Recovering(t, "planned"))
  /\ Marked(t, TRUE, stored[t].completed)
  /\ plan' = plan \ {t}
  /\ UNCHANGED <<saved, recovering, faults>>

RecoverEnds ==
  /\ recovering /\ plan = {}
  /\ \A x \in Execs : ctx[x].mode = "planned" => Resting(x)
  /\ recovering' = FALSE
  /\ UNCHANGED <<queueVars, ctx, shared, plan, faults>>

RecoverTaskById(e, t) ==
  /\ stored[t].exists
  /\ Begin(e, Recovering(t, "manual"))
  /\ Marked(t, TRUE, stored[t].completed)
  /\ UNCHANGED <<saved, recovery, faults>>

(* Only ProcessMaterialsStep is executed: what it collects is not saved.    *)
ProcessFailedMaterials(e, t) ==
  LET state == stored[t]
  IN  /\ state.exists /\ state.bad # {}
      /\ Begin(e, [Recovering(t, "failed") EXCEPT !.at = "process",
             !.page = state.page, !.more = state.more, !.ok = state.ok, !.ids = state.bad])
      /\ UNCHANGED <<shared, recovery, faults>>

RecordFailed(e) ==
  LET c == ctx[e]
  IN  /\ At(e, "record")
      /\ ctx' = [ctx EXCEPT ![e] = Done(c)] /\ Forgotten(e)
      /\ Progress(e, c)
      /\ UNCHANGED <<saved, recovery>>

-----------------------------------------------------------------------------
(* Half an hour without an update; the death of the process.                *)

Stall(t) ==
  /\ stored[t].exists /\ t \notin stale
  /\ \A e \in Execs : ctx[e].task = t => Resting(e)
  /\ stale' = stale \cup {t}
  /\ UNCHANGED <<queueVars, ctx, stored, saved, recovery, faults>>

Crash ==
  /\ Fault
  /\ queue' = <<>> /\ active' = {} /\ looping' = FALSE /\ width' = 1
  /\ try' = [i \in Items |-> "none"] /\ attempt' = [i \in Items |-> 0]
  /\ ctx' = [e \in Execs |-> [Blank EXCEPT !.at =
               IF e \in Scrapers /\ ~At(e, "idle") THEN "gone" ELSE "idle"]]
  /\ plan' = {} /\ recovering' = FALSE
  /\ UNCHANGED shared

-----------------------------------------------------------------------------
PipelineStep(e) ==
  \/ Restore(e) \/ SaveInitial(e) \/ SaveInitialFails(e) \/ GetApiConfig(e)
  \/ Request(e) \/ RequestFails(e) \/ SkipRequest(e) \/ Filter(e)
  \/ Process(e) \/ ProcessThrows(e) \/ StartBatch(e) \/ RecordFailure(e) \/ EndBatch(e) \/ EndProcess(e)
  \/ Save(e) \/ Commit(e) \/ EndCycle(e) \/ Finish(e) \/ RecordFailed(e)

RecoveryStep ==
  \/ Recover \/ RecoverEnds
  \/ \E e \in Recoverers, t \in Scrapers :
       RecoverNext(e, t) \/ RecoverTaskById(e, t) \/ ProcessFailedMaterials(e, t)

Answer(i) == Succeed(i) \/ \E answer \in Answers : Fail(i, answer)

QueueStep ==
  /\ TakeBatch \/ AdjustParameters \/ \E i \in Items : Answer(i) \/ Retry(i)
  /\ UNCHANGED <<ctx, shared, recovery, faults>>

Next ==
  \/ \E e \in Execs : Scrape(e) \/ PipelineStep(e)
  \/ QueueStep \/ RecoveryStep
  \/ \E t \in Scrapers : Stall(t)
  \/ Crash

Spec == Init /\ [][Next]_vars

-----------------------------------------------------------------------------
(* The type invariant of the contexts, the stored states and the queue.     *)
ScrapeTypeOK ==
  /\ QueueTypeOK
  /\ \A e \in Execs :
       LET c == ctx[e]
       IN  /\ c.at \in {"idle", "restore", "initialize", "config", "request", "filter",
                        "process", "batch", "wait", "save", "commit", "cycle", "finish",
                        "record", "done", "gone"}
           /\ c.task \in Scrapers \cup {NoTask}
           /\ c.page \in Nat /\ c.cycles \in 0..MaxPages /\ c.empty \in 0..MaxEmpty
           /\ UNION {c.ids, c.todo, c.batch, c.got, c.ads, c.ok, c.bad, c.before} \subseteq Materials
  /\ stored \in [Scrapers -> [exists : BOOLEAN, page : Nat, more : BOOLEAN,
                  ok : SUBSET Materials, bad : SUBSET Materials,
                  running : BOOLEAN, completed : BOOLEAN]]
  /\ stale \subseteq Scrapers /\ saved \subseteq Materials /\ plan \subseteq Scrapers

(* What is in the database, or cannot be: materials without a video, and    *)
(* those whose video belongs to a row that was saved first.                 *)
Accounted(rows) == rows \cup {m \in Materials : VideoOf[m] = NoVideo \/ Taken(m, rows)}

(* Every material on the pages a scrape went through is in the database     *)
(* when it ends, or among its failures, or has no video of its own: none    *)
(* falls between the filter, the batches and the save, whatever the API     *)
(* answers, whichever other execution saves, and although one refused row   *)
(* undoes the transaction of all.                                           *)
ScrapeSavesAll ==
  faults = 0 => \A e \in Scrapers : At(e, "done") =>
    UNION {MaterialsOn(p) : p \in 2..ctx[e].raw} \subseteq Accounted(saved) \cup ctx[e].bad

(* A recovered task asks again for none of the materials that were recorded *)
(* as processed when it was taken up.                                       *)
RestoredNotRequested ==
  \A e \in Execs, m \in Materials : m \in ctx[e].before => try[<<e, m>>] = "none"

(* What is recorded as processed is not recorded as failed, in memory or in *)
(* Redis, although materials fail and succeed in parallel and executions    *)
(* of the same task overwrite each other's record.                          *)
BooksDisjoint ==
  /\ \A e \in Execs : ctx[e].ok \cap ctx[e].bad = {}
  /\ \A t \in Scrapers : stored[t].ok \cap stored[t].bad = {}

(* An execution asks once for a material, though pages overlap and a page   *)
(* is asked for again after an error.                                       *)
OnceOnly == [][\A i \in Items : Settled(i) => try'[i] \in {try[i], "none"}]_vars
=============================================================================
