--------------------------- MODULE RequestManager ---------------------------
(***************************************************************************)
(* RequestManagerService: the two copies of a scraping request (metadata   *)
(* in Redis, row in the database) and the calls that read and write them.  *)
(* A call is a frame that advances one await at a time, so the calls of    *)
(* several processes interleave exactly where the event loop lets them.    *)
(* The module has no Next of its own: RequestSystem adds the processes     *)
(* that make the calls.                                                    *)
(***************************************************************************)
EXTENDS Naturals, FiniteSets

CONSTANTS
  Requests,    \* request ids (uuids) ever issued
  Workers,     \* workers of the WorkerService
  Clients,     \* HTTP connections, each with at most one call in progress
  Cron,        \* the process of the cleanup cron job
  NoRequest,   \* the absent request id
  NoKey,       \* no metadata under request:<id> in Redis
  NoRow,       \* no row in the Request table
  MaxFaults    \* bound: how many Redis or database commands fail

Procs == Workers \cup Clients \cup {Cron}

ASSUME ProcsAssumption ==
  /\ Workers \cap Clients = {}
  /\ Cron \notin Workers \cup Clients
ASSUME FaultsAssumption == MaxFaults \in Nat

VARIABLES
  db,      \* request id -> row of the Request table
  redis,   \* request id -> metadata under request:<id>
  queue,   \* ids waiting in the sorted set queue:scraping-tasks
  call,    \* process -> the manager call it is in
  faults   \* failed commands so far

managerVars == <<db, redis, queue, call, faults>>

Statuses ==
  {"PENDING", "PROCESSING", "COMPLETED", "FAILED", "EXPIRED", "CANCELLED"}

\* The statuses that set processedAt in updateRequestStatus.
Closing == {"COMPLETED", "FAILED", "CANCELLED", "EXPIRED"}

\* What response_data may hold: nothing, a scraper's result, {error},
\* the cleanup's {reason}, or what a client sent with PUT /status.
Results == {"none", "scrape", "error", "reason", "client"}

\* old: processed_at, or else created_at, is more than 24 hours ago.
Rows == [status : Statuses, result : Results, old : BOOLEAN]
\* old: lastActivityAt is more than 24 hours ago.
Metadata == [status : Statuses, old : BOOLEAN]

ASSUME SentinelAssumption ==
  /\ NoRequest \notin Requests \cup Workers
  /\ NoRow \notin Rows
  /\ NoKey \notin Metadata

Functions == {"none", "create", "get", "activity", "update"}

\* The awaits a call can stand at, then the ways it can have ended.
Awaits == {"setMeta", "insertRow", "enqueue", "getMeta", "findRow", "fill",
           "touch", "findForUpdate", "writeResult", "writeRow", "setMeta1",
           "setMeta2", "writeMany", "logActivity"}
Ends == {"none", "returned", "null", "threw"}

Frames == [fn   : Functions,
           r    : Requests \cup {NoRequest},
           at   : Awaits \cup Ends,
           to   : Statuses,   \* argument: the new status
           res  : Results,    \* argument: the new response_data
           copy : Metadata,   \* local metadata object
           row  : BOOLEAN]    \* local dbRequest was found

NoCall == [fn |-> "none", r |-> NoRequest, at |-> "none", to |-> "PENDING",
           res |-> "none", copy |-> [status |-> "PENDING", old |-> FALSE],
           row |-> FALSE]

ManagerTypeOK ==
  /\ db \in [Requests -> Rows \cup {NoRow}]
  /\ redis \in [Requests -> Metadata \cup {NoKey}]
  /\ queue \in SUBSET Requests
  /\ call \in [Procs -> Frames]
  /\ faults \in 0..MaxFaults

ManagerInit ==
  /\ db = [r \in Requests |-> NoRow]
  /\ redis = [r \in Requests |-> NoKey]
  /\ queue = {}
  /\ call = [p \in Procs |-> NoCall]
  /\ faults = 0

-----------------------------------------------------------------------------
(* Frames                                                                  *)

CreateCall(r) == [NoCall EXCEPT !.fn = "create", !.r = r, !.at = "setMeta"]
GetCall(r) == [NoCall EXCEPT !.fn = "get", !.r = r, !.at = "getMeta"]
ActivityCall(r) == [NoCall EXCEPT !.fn = "activity", !.r = r, !.at = "getMeta"]
UpdateCall(r, to, res) ==
  [NoCall EXCEPT !.fn = "update", !.r = r, !.at = "getMeta",
                 !.to = to, !.res = res]

\* listUserRequests when Redis lists nothing: straight from row to Redis.
ListCall(r) == [NoCall EXCEPT !.fn = "get", !.r = r, !.at = "findRow"]

Idle(p) == call[p].at = "none"
Ended(p) == call[p].at \in {"returned", "null", "threw"}

Goto(p, at) == call' = [call EXCEPT ![p].at = at]

\* Where a call goes on once its getRequest has produced the metadata.
AfterGet(fn) ==
  CASE fn = "get" -> "returned"
    [] fn = "activity" -> "touch"
    [] fn = "update" -> "findForUpdate"

\* Mutant: the object written back has lost its activity time.
LocalWithoutActivity(f, meta) ==
  CASE f.fn = "get" -> meta
    [] f.fn = "activity" -> [status |-> meta.status]
    [] f.fn = "update" -> [status |-> f.to]

\* The caller's own object: as read, with the activity or the new status
\* already set on it when the call is to write it back.
Local(f, meta) ==
  CASE f.fn = "get" -> meta
    [] f.fn = "activity" -> [meta EXCEPT !.old = FALSE]
    [] f.fn = "update" -> [status |-> f.to, old |-> FALSE]

Resume(p, meta) ==
  call' = [call EXCEPT ![p].at = AfterGet(call[p].fn),
                       ![p].copy = Local(call[p], meta)]

-----------------------------------------------------------------------------
(* createRequest                                                           *)

\* Mutant: the id is enqueued before its row is inserted.
StoreMetadataEnqueuing(p) ==
  /\ call[p].at = "setMeta"
  /\ redis' = [redis EXCEPT ![call[p].r] = [status |-> "PENDING", old |-> FALSE]]
  /\ queue' = queue \cup {call[p].r}
  /\ Goto(p, "insertRow")
  /\ UNCHANGED <<db, faults>>

\* Metadata first, together with the user's key and request list.
StoreMetadata(p) ==
  /\ call[p].at = "setMeta"
  /\ redis' = [redis EXCEPT ![call[p].r] = [status |-> "PENDING", old |-> FALSE]]
  /\ Goto(p, "insertRow")
  /\ UNCHANGED <<db, queue, faults>>

InsertRow(p) ==
  /\ call[p].at = "insertRow"
  /\ db' = [db EXCEPT ![call[p].r] =
              [status |-> "PENDING", result |-> "none", old |-> FALSE]]
  /\ Goto(p, "enqueue")
  /\ UNCHANGED <<redis, queue, faults>>

Enqueue(p) ==
  /\ call[p].at = "enqueue"
  /\ queue' = queue \cup {call[p].r}
  /\ Goto(p, "returned")
  /\ UNCHANGED <<db, redis, faults>>

-----------------------------------------------------------------------------
(* getRequest: read through Redis to the database                          *)

\* Mutant: a key that is not in Redis is not looked for in the database.
GetMetadataNoFallback(p) ==
  LET meta == redis[call[p].r] IN
  /\ call[p].at = "getMeta"
  /\ \/ meta = NoKey /\ Goto(p, "null")
     \/ meta # NoKey /\ Resume(p, meta)
  /\ UNCHANGED <<db, redis, queue, faults>>

GetMetadata(p) ==
  LET meta == redis[call[p].r] IN
  /\ call[p].at = "getMeta"
  /\ \/ meta = NoKey /\ Goto(p, "findRow")
     \/ meta # NoKey /\ Resume(p, meta)
  /\ UNCHANGED <<db, redis, queue, faults>>

\* No row: the caller gets null.
FindRow(p) ==
  LET row == db[call[p].r] IN
  /\ call[p].at = "findRow"
  /\ call' = IF row = NoRow
             THEN [call EXCEPT ![p].at = "null"]
             ELSE [call EXCEPT ![p].at = "fill",
                     ![p].copy = [status |-> row.status, old |-> row.old]]
  /\ UNCHANGED <<db, redis, queue, faults>>

FillCache(p) ==
  /\ call[p].at = "fill"
  /\ redis' = [redis EXCEPT ![call[p].r] = call[p].copy]
  /\ Resume(p, call[p].copy)
  /\ UNCHANGED <<db, queue, faults>>

-----------------------------------------------------------------------------
(* recordActivity: writes back the copy it read, whatever happened since   *)

\* Mutant: the activity also writes the status it read to the row.
TouchMetadataAndRow(p) ==
  /\ call[p].at = "touch"
  /\ redis' = [redis EXCEPT ![call[p].r] = call[p].copy]
  /\ db' = [db EXCEPT ![call[p].r].status = call[p].copy.status]
  /\ Goto(p, "returned")
  /\ UNCHANGED <<queue, faults>>

TouchMetadata(p) ==
  /\ call[p].at = "touch"
  /\ redis' = [redis EXCEPT ![call[p].r] = call[p].copy]
  /\ Goto(p, "returned")
  /\ UNCHANGED <<db, queue, faults>>

-----------------------------------------------------------------------------
(* updateRequestStatus: no status of the request forbids any other         *)

FindForUpdate(p) ==
  LET found == db[call[p].r] # NoRow IN
  /\ call[p].at = "findForUpdate"
  /\ call' = [call EXCEPT
       ![p].row = found,
       ![p].at = CASE found /\ call[p].res # "none" -> "writeResult"
                   [] found /\ call[p].res = "none" -> "writeRow"
                   [] OTHER -> "setMeta1"]
  /\ UNCHANGED <<db, redis, queue, faults>>

WriteResult(p) ==
  /\ call[p].at = "writeResult"
  /\ db' = [db EXCEPT ![call[p].r].result = call[p].res]
  /\ Goto(p, "writeRow")
  /\ UNCHANGED <<redis, queue, faults>>

\* The row with its new status; processed_at becomes now in a closing status.
Restated(row, to) ==
  [row EXCEPT !.status = to, !.old = row.old /\ to \notin Closing]

\* Mutant: one update of status and response_data, absent results included.
WriteRowWithResult(p) ==
  /\ call[p].at = "writeRow"
  /\ db' = [db EXCEPT ![call[p].r] =
              [Restated(@, call[p].to) EXCEPT !.result = call[p].res]]
  /\ Goto(p, "setMeta1")
  /\ UNCHANGED <<redis, queue, faults>>

WriteRow(p) ==
  /\ call[p].at = "writeRow"
  /\ db' = [db EXCEPT ![call[p].r] = Restated(db[call[p].r], call[p].to)]
  /\ Goto(p, "setMeta1")
  /\ UNCHANGED <<redis, queue, faults>>

\* The code sets the same metadata twice, in two awaits.
SetMetadata(p) ==
  /\ call[p].at \in {"setMeta1", "setMeta2"}
  /\ redis' = [redis EXCEPT ![call[p].r] = call[p].copy]
  /\ Goto(p, IF call[p].at = "setMeta1" THEN "setMeta2" ELSE "writeMany")
  /\ UNCHANGED <<db, queue, faults>>

\* updateMany touches no row when there is none.
WriteMany(p) ==
  LET r == call[p].r IN
  /\ call[p].at = "writeMany"
  /\ db' = IF db[r] = NoRow THEN db
           ELSE [db EXCEPT ![r] = Restated(db[r], call[p].to)]
  /\ Goto(p, "logActivity")
  /\ UNCHANGED <<redis, queue, faults>>

\* The log row refers to the Request row: without one the insert violates the
\* foreign key and the call throws, its Redis writes already made.
LogActivity(p) ==
  /\ call[p].at = "logActivity"
  /\ Goto(p, IF call[p].row THEN "returned" ELSE "threw")
  /\ UNCHANGED <<db, redis, queue, faults>>

-----------------------------------------------------------------------------
(* A failing command                                                       *)

\* A command fails before its effect; the same command failing after its
\* effect is this action at the next await. recordActivity turns the error
\* into false, enqueueRequest into a false that createRequest ignores; every
\* other function rethrows.
Fail(p) ==
  /\ call[p].at \in Awaits
  /\ faults < MaxFaults
  /\ faults' = faults + 1
  /\ Goto(p, CASE call[p].fn = "activity" -> "null"
               [] call[p].at = "enqueue" -> "returned"
               [] OTHER -> "threw")
  /\ UNCHANGED <<db, redis, queue>>

\* One await of the call process p is in.
CallStep(p) ==
  \/ StoreMetadata(p) \/ InsertRow(p) \/ Enqueue(p)
  \/ GetMetadata(p) \/ FindRow(p) \/ FillCache(p)
  \/ TouchMetadata(p)
  \/ FindForUpdate(p) \/ WriteResult(p) \/ WriteRow(p)
  \/ SetMetadata(p) \/ WriteMany(p) \/ LogActivity(p)

=============================================================================
