------------------------ MODULE RequestSystem_proofs ------------------------
(***************************************************************************)
(* Proofs about RequestSystem, for any sets of requests, workers, clients  *)
(* and any bounds.                                                         *)
(***************************************************************************)
EXTENDS RequestSystem, TLAPS

-----------------------------------------------------------------------------
(* The shape of calls: what the place a call stands at says of its frame   *)
(* and of the stores. TypeOK is not inductive without it: that a row about *)
(* to be written exists is what keeps db well typed.                       *)

CallShape(p) ==
  /\ call[p].at # "none" => call[p].r \in Requests
  /\ call[p].at \in {"setMeta", "insertRow", "enqueue"} => call[p].fn = "create"
  /\ call[p].at \in {"getMeta", "findRow", "fill"}
       => call[p].fn \in {"get", "activity", "update"}
  /\ call[p].at \in {"enqueue", "writeResult", "writeRow"}
       => db[call[p].r] # NoRow

JobShape(w) == stage[w] # "idle" => job[w] \in Requests

Shape == (\A p \in Procs : CallShape(p)) /\ (\A w \in Workers : JobShape(w))

THEOREM InitTyped == Init => TypeOK /\ Shape
<1> SUFFICES ASSUME Init PROVE TypeOK /\ Shape
  OBVIOUS
<1>1. NoCall \in Frames
  BY DEF NoCall, Frames, Functions, Awaits, Ends, Statuses, Results, Metadata
<1>2. TypeOK
  BY <1>1, FaultsAssumption, SystemAssumption
  DEF Init, ManagerInit, TypeOK, ManagerTypeOK, Stages, Statuses
<1>3. Shape
  BY DEF Init, ManagerInit, Shape, CallShape, JobShape, NoCall
<1> QED BY <1>2, <1>3

\* Only the frame of p changes, and it stays a frame.
Moves(p) ==
  /\ call' \in [Procs -> Frames]
  /\ \A q \in Procs \ {p} : call'[q] = call[q]

RowsStay == \A r \in Requests : db[r] # NoRow => db'[r] # NoRow

LEMMA GotoMoves ==
  ASSUME ManagerTypeOK, NEW p \in Procs, NEW at \in Awaits \cup Ends, Goto(p, at)
  PROVE  /\ Moves(p)
         /\ call'[p].at = at
         /\ call'[p].fn = call[p].fn
         /\ call'[p].r = call[p].r
         /\ call'[p].to = call[p].to
         /\ call'[p].res = call[p].res
         /\ call'[p].copy = call[p].copy
         /\ call'[p].row = call[p].row
<1>1. call[p] \in Frames
  BY DEF ManagerTypeOK
<1>2. call' = [call EXCEPT ![p] = [call[p] EXCEPT !.at = at]]
  BY DEF Goto
<1>3. call'[p] = [call[p] EXCEPT !.at = at]
  BY <1>2 DEF ManagerTypeOK
<1>4. call'[p] \in Frames
  BY <1>1, <1>3 DEF Frames
<1>5. Moves(p)
  BY <1>2, <1>4 DEF Moves, ManagerTypeOK
<1> QED BY <1>1, <1>3, <1>5 DEF Frames

LEMMA ResumeMoves ==
  ASSUME ManagerTypeOK, NEW p \in Procs, NEW meta \in Metadata, Resume(p, meta),
         call[p].fn \in {"get", "activity", "update"}
  PROVE  /\ Moves(p)
         /\ call'[p].at \in {"returned", "touch", "findForUpdate"}
         /\ call'[p].fn = call[p].fn
         /\ call'[p].r = call[p].r
<1>1. call[p] \in Frames
  BY DEF ManagerTypeOK
<1> DEFINE at == AfterGet(call[p].fn)
           copy == Local(call[p], meta)
<1>2. at \in {"returned", "touch", "findForUpdate"}
  BY DEF AfterGet
<1>3. copy \in Metadata
  BY <1>1 DEF Local, Metadata, Frames
<1> HIDE DEF at, copy
<1>4. call' = [call EXCEPT ![p] = [call[p] EXCEPT !.at = at, !.copy = copy]]
  BY DEF Resume, at, copy
<1>5. call'[p] = [call[p] EXCEPT !.at = at, !.copy = copy]
  BY <1>4 DEF ManagerTypeOK
<1>6. call'[p] \in Frames
  BY <1>1, <1>2, <1>3, <1>5 DEF Frames, Awaits, Ends
<1>7. Moves(p)
  BY <1>4, <1>6 DEF Moves, ManagerTypeOK
<1> QED BY <1>1, <1>2, <1>5, <1>7 DEF Frames

\* What one command does to the types: stores and frame keep theirs, no row
\* disappears and the call stands at a place of the right shape.
CommandKeeps(p) == ManagerTypeOK' /\ Moves(p) /\ RowsStay /\ CallShape(p)'

LEMMA CreateCommands ==
  ASSUME ManagerTypeOK, NEW p \in Procs, CallShape(p),
         StoreMetadata(p) \/ InsertRow(p) \/ Enqueue(p)
  PROVE  CommandKeeps(p)
<1> USE DEF CommandKeeps
<1>1. call[p].r \in Requests /\ call[p].fn = "create"
  BY DEF CallShape, StoreMetadata, InsertRow, Enqueue
<1>2. CASE StoreMetadata(p)
  <2>1. Goto(p, "insertRow") /\ UNCHANGED <<db, queue, faults>>
    BY <1>2 DEF StoreMetadata
  <2>2. redis' \in [Requests -> Metadata \cup {NoKey}]
    BY <1>2 DEF StoreMetadata, ManagerTypeOK, Metadata, Statuses
  <2>3. Moves(p) /\ call'[p].at = "insertRow" /\ call'[p].fn = "create"
        /\ call'[p].r = call[p].r
    BY <1>1, <2>1, GotoMoves DEF Awaits
  <2> QED BY <1>1, <2>1, <2>2, <2>3 DEF ManagerTypeOK, Moves, RowsStay, CallShape
<1>3. CASE InsertRow(p)
  <2>1. Goto(p, "enqueue") /\ UNCHANGED <<redis, queue, faults>>
    BY <1>3 DEF InsertRow
  <2>2. PICK row \in Rows : db' = [db EXCEPT ![call[p].r] = row]
    BY <1>3 DEF InsertRow, Rows, Statuses, Results
  <2>3. Moves(p) /\ call'[p].at = "enqueue" /\ call'[p].fn = "create"
        /\ call'[p].r = call[p].r
    BY <1>1, <2>1, GotoMoves DEF Awaits
  <2>4. db' \in [Requests -> Rows \cup {NoRow}] /\ RowsStay
        /\ db'[call[p].r] # NoRow
    BY <1>1, <2>2, SentinelAssumption DEF ManagerTypeOK, RowsStay
  <2> QED BY <1>1, <2>1, <2>3, <2>4 DEF ManagerTypeOK, Moves, CallShape
<1>4. CASE Enqueue(p)
  <2>1. Goto(p, "returned") /\ UNCHANGED <<db, redis, faults>>
    BY <1>4 DEF Enqueue
  <2>2. queue' \in SUBSET Requests
    BY <1>1, <1>4 DEF Enqueue, ManagerTypeOK
  <2>3. Moves(p) /\ call'[p].at = "returned" /\ call'[p].r = call[p].r
    BY <1>1, <2>1, GotoMoves DEF Ends
  <2> QED BY <1>1, <2>1, <2>2, <2>3 DEF ManagerTypeOK, Moves, RowsStay, CallShape
<1> QED BY <1>2, <1>3, <1>4

LEMMA ReadCommands ==
  ASSUME ManagerTypeOK, NEW p \in Procs, CallShape(p),
         GetMetadata(p) \/ FindRow(p) \/ FillCache(p) \/ TouchMetadata(p)
  PROVE  CommandKeeps(p)
<1> USE DEF CommandKeeps
<1>1. call[p] \in Frames /\ call[p].r \in Requests /\ call[p].copy \in Metadata
  BY DEF CallShape, GetMetadata, FindRow, FillCache, TouchMetadata,
         ManagerTypeOK, Frames
<1>2. CASE GetMetadata(p)
  <2>1. UNCHANGED <<db, redis, queue, faults>>
    BY <1>2 DEF GetMetadata
  <2>2. call[p].fn \in {"get", "activity", "update"}
    BY <1>2 DEF GetMetadata, CallShape
  <2>3. CASE Goto(p, "findRow")
    BY <1>1, <2>1, <2>2, <2>3, GotoMoves
    DEF Awaits, ManagerTypeOK, Moves, RowsStay, CallShape
  <2>4. CASE redis[call[p].r] # NoKey /\ Resume(p, redis[call[p].r])
    <3>1. redis[call[p].r] \in Metadata
      BY <1>1, <2>4 DEF ManagerTypeOK
    <3> QED BY <1>1, <2>1, <2>2, <2>4, <3>1, ResumeMoves
            DEF ManagerTypeOK, Moves, RowsStay, CallShape
  <2> QED BY <1>2, <2>3, <2>4 DEF GetMetadata
<1>3. CASE FindRow(p)
  <2>1. UNCHANGED <<db, redis, queue, faults>>
    BY <1>3 DEF FindRow
  <2>2. call[p].fn \in {"get", "activity", "update"}
    BY <1>3 DEF FindRow, CallShape
  <2> DEFINE row == db[call[p].r]
  <2>3. CASE row = NoRow
    <3>1. Goto(p, "null")
      BY <1>3, <2>3 DEF FindRow, Goto
    <3> QED BY <1>1, <2>1, <3>1, GotoMoves
            DEF Ends, ManagerTypeOK, Moves, RowsStay, CallShape
  <2>4. CASE row # NoRow
    <3> DEFINE copy == [status |-> row.status, old |-> row.old]
    <3>1. copy \in Metadata
      BY <1>1, <2>4 DEF ManagerTypeOK, Rows, Metadata
    <3> HIDE DEF copy
    <3>2. call' = [call EXCEPT ![p] =
                     [call[p] EXCEPT !.at = "fill", !.copy = copy]]
      BY <1>3, <2>4 DEF FindRow, copy
    <3>3. call'[p] = [call[p] EXCEPT !.at = "fill", !.copy = copy]
      BY <3>2 DEF ManagerTypeOK
    <3>4. call'[p] \in Frames
      BY <1>1, <3>1, <3>3 DEF Frames, Awaits
    <3>5. call'[p].at = "fill" /\ call'[p].fn = call[p].fn
          /\ call'[p].r = call[p].r
      BY <1>1, <3>3 DEF Frames
    <3>6. Moves(p)
      BY <3>2, <3>4 DEF Moves, ManagerTypeOK
    <3> QED BY <1>1, <2>1, <2>2, <3>5, <3>6
            DEF ManagerTypeOK, Moves, RowsStay, CallShape
  <2> QED BY <2>3, <2>4
<1>4. CASE FillCache(p)
  <2>1. UNCHANGED <<db, queue, faults>> /\ Resume(p, call[p].copy)
    BY <1>4 DEF FillCache
  <2>2. call[p].fn \in {"get", "activity", "update"}
    BY <1>4 DEF FillCache, CallShape
  <2>3. redis' \in [Requests -> Metadata \cup {NoKey}]
    BY <1>1, <1>4 DEF FillCache, ManagerTypeOK
  <2> QED BY <1>1, <2>1, <2>2, <2>3, ResumeMoves
          DEF ManagerTypeOK, Moves, RowsStay, CallShape
<1>5. CASE TouchMetadata(p)
  <2>1. UNCHANGED <<db, queue, faults>> /\ Goto(p, "returned")
    BY <1>5 DEF TouchMetadata
  <2>2. redis' \in [Requests -> Metadata \cup {NoKey}]
    BY <1>1, <1>5 DEF TouchMetadata, ManagerTypeOK
  <2> QED BY <1>1, <2>1, <2>2, GotoMoves
          DEF Ends, ManagerTypeOK, Moves, RowsStay, CallShape
<1> QED BY <1>2, <1>3, <1>4, <1>5

LEMMA RestatedTyped ==
  ASSUME NEW row \in Rows, NEW to \in Statuses
  PROVE  Restated(row, to) \in Rows
BY DEF Restated, Rows

LEMMA UpdateCommands ==
  ASSUME ManagerTypeOK, NEW p \in Procs, CallShape(p),
         \/ FindForUpdate(p) \/ WriteResult(p) \/ WriteRow(p)
         \/ SetMetadata(p) \/ WriteMany(p) \/ LogActivity(p)
  PROVE  CommandKeeps(p)
<1> USE DEF CommandKeeps
<1> DEFINE r == call[p].r
<1>1. /\ call[p] \in Frames /\ call[p].copy \in Metadata
      /\ call[p].to \in Statuses /\ call[p].res \in Results
  BY DEF ManagerTypeOK, Frames
<1>2. r \in Requests
  BY DEF CallShape, FindForUpdate, WriteResult, WriteRow, SetMetadata,
         WriteMany, LogActivity
<1>3. CASE FindForUpdate(p)
  <2>1. UNCHANGED <<db, redis, queue, faults>>
    BY <1>3 DEF FindForUpdate
  <2>2. PICK found \in BOOLEAN, at \in {"writeResult", "writeRow", "setMeta1"} :
          /\ call' = [call EXCEPT ![p] = [call[p] EXCEPT !.row = found, !.at = at]]
          /\ at # "setMeta1" => db[r] # NoRow
    BY <1>3 DEF FindForUpdate
  <2>3. call'[p] = [call[p] EXCEPT !.row = found, !.at = at]
    BY <2>2 DEF ManagerTypeOK
  <2>4. call'[p] \in Frames
    BY <1>1, <2>3 DEF Frames, Awaits
  <2>5. call'[p].at = at /\ call'[p].r = r
    BY <1>1, <2>3 DEF Frames
  <2>6. Moves(p)
    BY <2>2, <2>4 DEF Moves, ManagerTypeOK
  <2> QED BY <1>2, <2>1, <2>2, <2>5, <2>6
          DEF ManagerTypeOK, Moves, RowsStay, CallShape
<1>4. CASE WriteResult(p)
  <2>1. Goto(p, "writeRow") /\ UNCHANGED <<redis, queue, faults>>
    BY <1>4 DEF WriteResult
  <2>2. db[r] \in Rows
    BY <1>2, <1>4 DEF WriteResult, CallShape, ManagerTypeOK
  <2>3. PICK row \in Rows : db' = [db EXCEPT ![r] = row]
    <3>1. [db[r] EXCEPT !.result = call[p].res] \in Rows
      BY <1>1, <2>2 DEF Rows
    <3> QED BY <1>4, <3>1 DEF WriteResult
  <2>4. db' \in [Requests -> Rows \cup {NoRow}] /\ RowsStay /\ db'[r] # NoRow
    BY <1>2, <2>3, SentinelAssumption DEF ManagerTypeOK, RowsStay
  <2> QED BY <1>2, <2>1, <2>4, GotoMoves DEF Awaits, ManagerTypeOK, Moves, CallShape
<1>5. CASE WriteRow(p)
  <2>1. Goto(p, "setMeta1") /\ UNCHANGED <<redis, queue, faults>>
    BY <1>5 DEF WriteRow
  <2>2. db[r] \in Rows
    BY <1>2, <1>5 DEF WriteRow, CallShape, ManagerTypeOK
  <2>3. PICK row \in Rows : db' = [db EXCEPT ![r] = row]
    BY <1>1, <1>5, <2>2, RestatedTyped DEF WriteRow
  <2>4. db' \in [Requests -> Rows \cup {NoRow}] /\ RowsStay
    BY <1>2, <2>3, SentinelAssumption DEF ManagerTypeOK, RowsStay
  <2> QED BY <1>2, <2>1, <2>4, GotoMoves DEF Awaits, ManagerTypeOK, Moves, CallShape
<1>6. CASE SetMetadata(p)
  <2>1. UNCHANGED <<db, queue, faults>>
    BY <1>6 DEF SetMetadata
  <2>2. PICK at \in {"setMeta2", "writeMany"} : Goto(p, at)
    BY <1>6 DEF SetMetadata
  <2>3. redis' \in [Requests -> Metadata \cup {NoKey}]
    BY <1>1, <1>6 DEF SetMetadata, ManagerTypeOK
  <2> QED BY <1>2, <2>1, <2>2, <2>3, GotoMoves
          DEF Awaits, ManagerTypeOK, Moves, RowsStay, CallShape
<1>7. CASE WriteMany(p)
  <2>1. Goto(p, "logActivity") /\ UNCHANGED <<redis, queue, faults>>
    BY <1>7 DEF WriteMany
  <2>2. db' \in [Requests -> Rows \cup {NoRow}] /\ RowsStay
    <3>1. CASE db[r] = NoRow
      BY <1>7, <3>1 DEF WriteMany, ManagerTypeOK, RowsStay
    <3>2. CASE db[r] # NoRow
      <4>1. db[r] \in Rows
        BY <1>2, <3>2 DEF ManagerTypeOK
      <4>2. PICK row \in Rows : db' = [db EXCEPT ![r] = row]
        BY <1>1, <1>7, <3>2, <4>1, RestatedTyped DEF WriteMany
      <4> QED BY <1>2, <4>2, SentinelAssumption DEF ManagerTypeOK, RowsStay
    <3> QED BY <3>1, <3>2
  <2> QED BY <1>2, <2>1, <2>2, GotoMoves DEF Awaits, ManagerTypeOK, Moves, CallShape
<1>8. CASE LogActivity(p)
  <2>1. UNCHANGED <<db, redis, queue, faults>>
    BY <1>8 DEF LogActivity
  <2>2. PICK at \in {"returned", "threw"} : Goto(p, at)
    BY <1>8 DEF LogActivity
  <2> QED BY <1>2, <2>1, <2>2, GotoMoves
          DEF Ends, ManagerTypeOK, Moves, RowsStay, CallShape
<1> QED BY <1>3, <1>4, <1>5, <1>6, <1>7, <1>8

LEMMA FailKeeps ==
  ASSUME ManagerTypeOK, NEW p \in Procs, CallShape(p), Fail(p)
  PROVE  CommandKeeps(p) /\ call'[p].at \in {"null", "returned", "threw"}
                         /\ call'[p].fn = call[p].fn /\ call'[p].r = call[p].r
<1>1. UNCHANGED <<db, redis, queue>> /\ faults' \in 0..MaxFaults
  BY FaultsAssumption DEF Fail, ManagerTypeOK
<1>2. PICK at \in {"null", "returned", "threw"} : Goto(p, at)
  BY DEF Fail
<1>3. call[p].r \in Requests
  BY DEF Fail, CallShape, Awaits
<1> QED BY <1>1, <1>2, <1>3, GotoMoves
        DEF Ends, CommandKeeps, ManagerTypeOK, Moves, RowsStay, CallShape
LEMMA CommandTyped ==
  ASSUME TypeOK, Shape, NEW p \in Procs, Command(p)
  PROVE  TypeOK' /\ Shape' /\ CommandKeeps(p)
<1>1. UNCHANGED <<workerVars, systemVars>>
  BY DEF Command
<1>2. ManagerTypeOK /\ CallShape(p)
  BY DEF TypeOK, Shape
<1>3. CommandKeeps(p)
  BY <1>2, CreateCommands, ReadCommands, UpdateCommands, FailKeeps
  DEF Command, CallStep
<1>4. TypeOK'
  BY <1>1, <1>3 DEF TypeOK, CommandKeeps, workerVars, systemVars
<1>5. \A q \in Procs \ {p} : CallShape(q)'
  BY <1>3 DEF Shape, CommandKeeps, Moves, RowsStay, CallShape
<1>6. \A w \in Workers : JobShape(w)'
  BY <1>1 DEF Shape, JobShape, workerVars
<1> QED BY <1>3, <1>4, <1>5, <1>6 DEF Shape, CommandKeeps

-----------------------------------------------------------------------------
(* Steps of the processes: each leaves db alone and starts a call or ends  *)
(* one.                                                                    *)

StartShape(f) ==
  f.at # "none" =>
    /\ f.r \in Requests
    /\ \/ f.at = "setMeta" /\ f.fn = "create"
       \/ f.at \in {"getMeta", "findRow"} /\ f.fn \in {"get", "activity", "update"}

Starts == {f \in Frames : StartShape(f)}

LEMMA StartFrames ==
  /\ NoCall \in Starts
  /\ \A r \in Requests :
       /\ CreateCall(r) \in Starts
       /\ GetCall(r) \in Starts
       /\ ListCall(r) \in Starts
       /\ ActivityCall(r) \in Starts
       /\ \A to \in Statuses, res \in Results : UpdateCall(r, to, res) \in Starts
<1>1. NoCall \in Starts
  BY DEF NoCall, Starts, StartShape, Frames, Functions, Awaits, Ends, Statuses,
         Results, Metadata
<1>2. ASSUME NEW r \in Requests
      PROVE  /\ CreateCall(r) \in Starts /\ GetCall(r) \in Starts
             /\ ListCall(r) \in Starts /\ ActivityCall(r) \in Starts
  BY DEF CreateCall, GetCall, ListCall, ActivityCall, NoCall, Starts, StartShape,
         Frames, Functions, Awaits, Ends, Statuses, Results, Metadata
<1>3. ASSUME NEW r \in Requests, NEW to \in Statuses, NEW res \in Results
      PROVE  UpdateCall(r, to, res) \in Starts
  BY DEF UpdateCall, NoCall, Starts, StartShape,
         Frames, Functions, Awaits, Ends, Statuses, Metadata
<1> QED BY <1>1, <1>2, <1>3

LEMMA StartTyped ==
  ASSUME TypeOK, Shape, NEW p \in Procs, NEW f \in Starts,
         call' = [call EXCEPT ![p] = f], UNCHANGED db
  PROVE  call' \in [Procs -> Frames] /\ \A q \in Procs : CallShape(q)'
<1>1. f \in Frames /\ call \in [Procs -> Frames]
  BY DEF Starts, TypeOK, ManagerTypeOK
<1>2. call'[p] = f /\ \A q \in Procs \ {p} : call'[q] = call[q]
  BY <1>1
<1>3. CallShape(p)'
  BY <1>2 DEF Starts, StartShape, CallShape
<1>4. \A q \in Procs \ {p} : CallShape(q)'
  BY <1>2 DEF Shape, CallShape
<1> QED BY <1>1, <1>3, <1>4

LEMMA ClientTyped ==
  ASSUME TypeOK, Shape, NEW c \in Clients, ClientStep(c)
  PROVE  TypeOK' /\ Shape' /\ UNCHANGED <<db, queue, workerVars>>
<1>1. UNCHANGED <<db, redis, queue, faults, workerVars, todo, crashes>>
  BY DEF ClientStep, Create, Cancel, Touch, PutStatus, ListFromRedis,
         ListFromRows, Ask, Answer
<1>2. c \in Procs
  BY DEF Procs
<1>3. /\ issued' \in SUBSET Requests
      /\ told' \in [Requests -> SUBSET {"created", "cancelled"}]
      /\ calls' \in 0..MaxCalls
      /\ \E f \in Starts : call' = [call EXCEPT ![c] = f]
  <2> USE DEF TypeOK
  <2>1. CASE Create(c)
    BY <2>1, StartFrames DEF Create
  <2>2. CASE Answer(c)
    BY <2>2, StartFrames DEF Answer
  <2> DEFINE OneOf(frames) ==
        /\ frames \subseteq Starts
        /\ calls < MaxCalls /\ calls' = calls + 1
        /\ \E f \in frames : call' = [call EXCEPT ![c] = f]
        /\ UNCHANGED <<issued, told>>
  <2>3. ASSUME NEW op, NEW frames, Ask(c, op, frames), frames \subseteq Starts
        PROVE  OneOf(frames)
    BY <2>3 DEF Ask
  <2>4. Created \subseteq Requests /\ PutStatuses \subseteq Statuses
        /\ {"none", "client"} \subseteq Results /\ "CANCELLED" \in Statuses
    BY SystemAssumption DEF Created, Results, Statuses
  <2>5. CASE Cancel(c)
    <3>1. {UpdateCall(r, "CANCELLED", "none") : r \in Created} \subseteq Starts
      BY <2>4, StartFrames
    <3> QED BY <2>3, <2>5, <3>1, SystemAssumption DEF Cancel
  <2>6. CASE PutStatus(c)
    <3>1. {UpdateCall(r, to, res) :
             r \in Created, to \in PutStatuses, res \in {"none", "client"}}
             \subseteq Starts
      BY <2>4, StartFrames
    <3> QED BY <2>3, <2>6, <3>1, SystemAssumption DEF PutStatus
  <2>7. CASE Touch(c)
    <3>1. {ActivityCall(r) : r \in Created} \subseteq Starts
      BY <2>4, StartFrames
    <3> QED BY <2>3, <2>7, <3>1, SystemAssumption DEF Touch
  <2>8. CASE ListFromRedis(c)
    <3>1. {GetCall(r) : r \in Created} \subseteq Starts
      BY <2>4, StartFrames
    <3> QED BY <2>3, <2>8, <3>1, SystemAssumption DEF ListFromRedis
  <2>9. CASE ListFromRows(c)
    <3>1. {ListCall(r) : r \in Created} \subseteq Starts
      BY <2>4, StartFrames
    <3> QED BY <2>3, <2>9, <3>1, SystemAssumption DEF ListFromRows
  <2> QED BY <2>1, <2>2, <2>5, <2>6, <2>7, <2>8, <2>9 DEF ClientStep
<1>4. call' \in [Procs -> Frames] /\ \A q \in Procs : CallShape(q)'
  BY <1>1, <1>2, <1>3, StartTyped
<1>5. TypeOK'
  BY <1>1, <1>3, <1>4 DEF TypeOK, ManagerTypeOK, workerVars
<1>6. Shape'
  BY <1>1, <1>4 DEF Shape, JobShape, workerVars
<1> QED BY <1>1, <1>5, <1>6

LEMMA WorkerTyped ==
  ASSUME TypeOK, Shape, NEW w \in Workers, WorkerStep(w)
  PROVE  TypeOK' /\ Shape' /\ UNCHANGED <<db, systemVars>>
<1>1. UNCHANGED <<db, redis, faults, systemVars>>
  BY DEF WorkerStep, Dequeue, AfterLookup, AfterActivity, AfterStarting,
         ScrapeReturns, ScrapeThrows, AfterCompleting, AfterFailing, Release, Proceed
<1>2. w \in Procs
  BY DEF Procs
<1>3. /\ queue' \in SUBSET Requests
      /\ stage' \in [Workers -> Stages]
      /\ seen' \in [Workers -> Statuses]
      /\ job' \in [Workers -> Requests \cup {NoRequest}]
      /\ \A v \in Workers : JobShape(v)'
      /\ \E f \in Starts : call' = [call EXCEPT ![w] = f]
  <2> DEFINE Goal == /\ queue' \in SUBSET Requests
                     /\ stage' \in [Workers -> Stages]
                     /\ seen' \in [Workers -> Statuses]
                     /\ job' \in [Workers -> Requests \cup {NoRequest}]
                     /\ \A v \in Workers : JobShape(v)'
                     /\ \E f \in Starts : call' = [call EXCEPT ![w] = f]
  <2>1. CASE Dequeue(w)
    <3>1. PICK r \in queue :
            /\ queue' = queue \ {r}
            /\ job' = [job EXCEPT ![w] = r]
            /\ call' = [call EXCEPT ![w] = GetCall(r)]
            /\ stage' = [stage EXCEPT ![w] = "lookup"]
            /\ seen' = seen
      BY <2>1 DEF Dequeue
    <3>2. r \in Requests
      BY DEF TypeOK, ManagerTypeOK
    <3> QED BY <3>1, <3>2, StartFrames
            DEF TypeOK, ManagerTypeOK, Stages, Shape, JobShape
  <2>2. ASSUME NEW s \in Stages, NEW f \in Starts, Proceed(w, s, f),
               job[w] \in Requests
        PROVE  Goal
    BY <2>2 DEF Proceed, TypeOK, ManagerTypeOK, Shape, JobShape
  <2>3. CASE Release(w)
    BY <2>3, StartFrames
    DEF Release, TypeOK, ManagerTypeOK, Stages, Statuses, Shape, JobShape
  <2>4. CASE Dequeue(w) \/ Release(w)
    BY <2>1, <2>3, <2>4
  <2>5. CASE ~(Dequeue(w) \/ Release(w))
    <3>1. stage[w] # "idle" /\ job[w] \in Requests
      BY <2>5 DEF WorkerStep, AfterLookup, AfterActivity, AfterStarting,
                  ScrapeReturns, ScrapeThrows, AfterCompleting, AfterFailing,
                  Shape, JobShape
    <3>2. /\ NoCall \in Starts
          /\ Failed(w) \in Starts
          /\ ActivityCall(job[w]) \in Starts
          /\ UpdateCall(job[w], "PROCESSING", "none") \in Starts
          /\ UpdateCall(job[w], "COMPLETED", "scrape") \in Starts
      BY <3>1, StartFrames DEF Failed, Statuses, Results
    <3>3. CASE AfterLookup(w)
      <4>1. CASE Proceed(w, "failing", Failed(w))
        BY <2>2, <3>1, <3>2, <4>1 DEF Stages
      <4>2. CASE /\ stage' = [stage EXCEPT ![w] = "activity"]
                 /\ seen' = [seen EXCEPT ![w] = call[w].copy.status]
                 /\ call' = [call EXCEPT ![w] = ActivityCall(job[w])]
                 /\ UNCHANGED <<db, redis, queue, faults, job, systemVars>>
        <5>1. call[w].copy.status \in Statuses
          BY <1>2 DEF TypeOK, ManagerTypeOK, Frames, Metadata
        <5> QED BY <3>1, <3>2, <4>2, <5>1
                DEF TypeOK, ManagerTypeOK, Stages, Shape, JobShape
      <4> QED BY <2>5, <3>3, <4>1, <4>2 DEF AfterLookup
    <3>4. CASE AfterActivity(w)
      BY <2>2, <3>1, <3>2, <3>4 DEF AfterActivity, Stages
    <3>5. CASE AfterStarting(w)
      BY <2>2, <3>1, <3>2, <3>5 DEF AfterStarting, Stages
    <3>6. CASE ScrapeReturns(w) \/ ScrapeThrows(w)
      BY <2>2, <3>1, <3>2, <3>6 DEF ScrapeReturns, ScrapeThrows, Stages
    <3>7. CASE AfterCompleting(w)
      BY <2>2, <2>5, <3>1, <3>2, <3>7 DEF AfterCompleting, Stages
    <3>8. ~AfterFailing(w)
      BY <2>5 DEF AfterFailing
    <3> QED BY <2>5, <3>3, <3>4, <3>5, <3>6, <3>7, <3>8 DEF WorkerStep
  <2> QED BY <2>4, <2>5
<1>4. call' \in [Procs -> Frames] /\ \A q \in Procs : CallShape(q)'
  BY <1>1, <1>2, <1>3, StartTyped
<1>5. TypeOK'
  BY <1>1, <1>3, <1>4 DEF TypeOK, ManagerTypeOK, systemVars
<1>6. Shape'
  BY <1>3, <1>4 DEF Shape
<1> QED BY <1>1, <1>5, <1>6
LEMMA CronTyped ==
  ASSUME TypeOK, Shape, CronStep
  PROVE  TypeOK' /\ Shape' /\ UNCHANGED <<db, queue, issued, workerVars>>
<1>1. UNCHANGED <<db, redis, queue, faults, workerVars, issued, told, calls, crashes>>
  BY DEF CronStep, CleanupStart, CleanupKey, CleanupNext, managerVars, systemVars
<1>2. Cron \in Procs
  BY DEF Procs
<1>3. todo' \in SUBSET Requests /\ \E f \in Starts : call' = [call EXCEPT ![Cron] = f]
  <2>1. CASE CleanupStart
    <3>1. call' = call /\ call[Cron].at = "none"
      BY <2>1 DEF CleanupStart, managerVars, Idle
    <3>2. call[Cron] \in Starts /\ call' = [call EXCEPT ![Cron] = call[Cron]]
      BY <1>2, <3>1 DEF TypeOK, ManagerTypeOK, Starts, StartShape
    <3> QED BY <2>1, <3>2 DEF CleanupStart
  <2>2. CASE CleanupNext
    BY <2>2, StartFrames DEF CleanupNext, TypeOK, systemVars
  <2>3. ASSUME NEW r \in Requests, CleanupKey(r)
        PROVE  todo' \in SUBSET Requests
               /\ \E f \in Starts : call' = [call EXCEPT ![Cron] = f]
    <3>1. UpdateCall(r, "EXPIRED", "reason") \in Starts
      BY StartFrames DEF Statuses, Results
    <3>2. call[Cron].at = "none" /\ todo' = todo \ {r}
      BY <2>3 DEF CleanupKey, Idle
    <3>3. call[Cron] \in Starts /\ call = [call EXCEPT ![Cron] = call[Cron]]
      BY <1>2, <3>2 DEF TypeOK, ManagerTypeOK, Starts, StartShape
    <3>4. \/ call' = [call EXCEPT ![Cron] = UpdateCall(r, "EXPIRED", "reason")]
          \/ call' = call
      BY <2>3 DEF CleanupKey
    <3> QED BY <3>1, <3>2, <3>3, <3>4 DEF TypeOK
  <2> QED BY <2>1, <2>2, <2>3 DEF CronStep
<1>4. call' \in [Procs -> Frames] /\ \A q \in Procs : CallShape(q)'
  BY <1>1, <1>2, <1>3, StartTyped
<1>5. TypeOK'
  BY <1>1, <1>3, <1>4 DEF TypeOK, ManagerTypeOK, workerVars
<1>6. Shape'
  BY <1>1, <1>4 DEF Shape, JobShape, workerVars
<1> QED BY <1>1, <1>5, <1>6

LEMMA LostTyped ==
  ASSUME TypeOK, Shape, NEW w \in Workers, DequeueLost(w)
  PROVE  /\ TypeOK' /\ Shape'
         /\ queue' \subseteq queue
         /\ UNCHANGED <<db, call, issued, workerVars>>
<1>1. UNCHANGED <<db, redis, call, workerVars, systemVars>> /\ queue' \subseteq queue
  BY DEF DequeueLost
<1>2. faults' \in 0..MaxFaults
  BY FaultsAssumption DEF DequeueLost, TypeOK, ManagerTypeOK
<1> QED BY <1>1, <1>2
        DEF TypeOK, ManagerTypeOK, Shape, CallShape, JobShape, workerVars, systemVars

LEMMA TimeTyped ==
  ASSUME TypeOK, Shape, NEW r \in Requests, AgeRow(r) \/ AgeKey(r) \/ ExpireKey(r)
  PROVE  TypeOK' /\ Shape' /\ RowsStay /\ UNCHANGED <<call, queue, issued, workerVars>>
<1>1. UNCHANGED <<queue, call, faults, workerVars, systemVars>>
  BY DEF AgeRow, AgeKey, ExpireKey
<1>2. redis' \in [Requests -> Metadata \cup {NoKey}]
  <2>1. CASE AgeKey(r)
    <3>1. redis[r] \in Metadata
      BY <2>1 DEF AgeKey, TypeOK, ManagerTypeOK
    <3> QED BY <2>1, <3>1 DEF AgeKey, Metadata, TypeOK, ManagerTypeOK
  <2> QED BY <2>1 DEF AgeRow, ExpireKey, TypeOK, ManagerTypeOK
<1>3. db' \in [Requests -> Rows \cup {NoRow}] /\ RowsStay
  <2>1. CASE AgeRow(r)
    <3>1. [db[r] EXCEPT !.old = TRUE] \in Rows
      BY <2>1 DEF AgeRow, TypeOK, ManagerTypeOK, Rows
    <3>2. db' = [db EXCEPT ![r] = [db[r] EXCEPT !.old = TRUE]]
      BY <2>1 DEF AgeRow
    <3> QED BY <3>1, <3>2, SentinelAssumption DEF TypeOK, ManagerTypeOK, RowsStay
  <2> QED BY <2>1 DEF AgeKey, ExpireKey, TypeOK, ManagerTypeOK, RowsStay
<1>4. TypeOK'
  BY <1>1, <1>2, <1>3 DEF TypeOK, ManagerTypeOK, workerVars, systemVars
<1>5. Shape'
  BY <1>1, <1>3 DEF Shape, CallShape, JobShape, RowsStay, workerVars
<1> QED BY <1>1, <1>3, <1>4, <1>5 DEF systemVars

LEMMA CrashTyped ==
  ASSUME TypeOK, Shape, Crash
  PROVE  /\ TypeOK' /\ Shape'
         /\ UNCHANGED <<db, queue, issued>>
         /\ \A p \in Procs : call'[p].at = "none"
         /\ \A w \in Workers : stage'[w] = "idle"
<1>1. \A p \in Procs : call'[p] = NoCall
  BY DEF Crash
<1>2. NoCall \in Frames /\ NoCall.at = "none"
  BY StartFrames DEF Starts, NoCall
<1>3. call' \in [Procs -> Frames]
  BY <1>2 DEF Crash
<1>4. \A w \in Workers : stage'[w] = "idle"
  BY DEF Crash
<1>5. TypeOK'
  BY <1>3, SystemAssumption DEF Crash, TypeOK, ManagerTypeOK, Stages, Statuses
<1>6. Shape'
  BY <1>1, <1>2, <1>4 DEF Shape, CallShape, JobShape
<1> QED BY <1>1, <1>2, <1>4, <1>5, <1>6 DEF Crash

\* Every step of the system keeps the types and the shape of the calls, and
\* no step removes a row.
LEMMA NextTyped ==
  ASSUME TypeOK, Shape, [Next]_vars
  PROVE  TypeOK' /\ Shape' /\ RowsStay
<1>1. ASSUME NEW p \in Procs, Command(p) PROVE TypeOK' /\ Shape' /\ RowsStay
  BY <1>1, CommandTyped DEF CommandKeeps
<1>2. ASSUME NEW c \in Clients, ClientStep(c) PROVE TypeOK' /\ Shape' /\ RowsStay
  BY <1>2, ClientTyped DEF RowsStay
<1>3. ASSUME NEW w \in Workers, WorkerStep(w) PROVE TypeOK' /\ Shape' /\ RowsStay
  BY <1>3, WorkerTyped DEF RowsStay
<1>4. ASSUME NEW w \in Workers, DequeueLost(w) PROVE TypeOK' /\ Shape' /\ RowsStay
  BY <1>4, LostTyped DEF RowsStay
<1>5. CASE CronStep
  BY <1>5, CronTyped DEF RowsStay
<1>6. CASE Environment
  BY <1>6, TimeTyped, CrashTyped DEF Environment, RowsStay
<1>7. CASE UNCHANGED vars
  BY <1>7 DEF vars, managerVars, workerVars, systemVars, TypeOK, ManagerTypeOK,
              Shape, CallShape, JobShape, RowsStay
<1> QED BY <1>1, <1>2, <1>3, <1>4, <1>5, <1>6, <1>7 DEF Next, Sleep

\* The stores, the calls and the workers are always well typed.
THEOREM TypeCorrect == Spec => []TypeOK
<1>1. TypeOK /\ Shape /\ [Next]_vars => (TypeOK /\ Shape)'
  BY NextTyped
<1> QED BY InitTyped, <1>1, PTL DEF Spec
-----------------------------------------------------------------------------
(* One place at a time.                                                    *)

\* OnePlace spelt out, over all processes, with what makes it inductive: an
\* id is used by one createRequest only, and what is queued or held is used.
Apart ==
  /\ \A p \in Procs \ Clients, r \in Requests : ~Creating(p, r)
  /\ \A p, q \in Procs, r \in Requests : Creating(p, r) /\ Creating(q, r) => p = q
  /\ \A v, w \in Workers, r \in Requests : Holding(v, r) /\ Holding(w, r) => v = w
  /\ \A p \in Procs, w \in Workers, r \in Requests :
       ~(Creating(p, r) /\ Holding(w, r))
  /\ \A p \in Procs, r \in queue : ~Creating(p, r)
  /\ \A w \in Workers, r \in queue : ~Holding(w, r)
  /\ queue \subseteq issued
  /\ \A p \in Procs, r \in Requests : Creating(p, r) => r \in issued
  /\ \A w \in Workers, r \in Requests : Holding(w, r) => r \in issued

LEMMA ApartOnePlace == Apart => OnePlace
<1> SUFFICES ASSUME Apart, NEW r \in Requests,
                    NEW here \in Places(r), NEW there \in Places(r)
             PROVE  here = there
  BY DEF OnePlace
<1>1. ASSUME NEW x \in Places(r)
      PROVE  \/ \E c \in Clients : Creating(c, r) /\ x = <<"creating", c>>
             \/ \E w \in Workers : Holding(w, r) /\ x = <<"held", w>>
             \/ r \in queue /\ x = <<"queued">>
  BY <1>1 DEF Places
<1>2. \A c \in Clients : c \in Procs
  BY DEF Procs
<1>3. CASE \E c \in Clients : Creating(c, r) /\ here = <<"creating", c>>
  BY <1>1, <1>2, <1>3 DEF Apart
<1>4. CASE \E w \in Workers : Holding(w, r) /\ here = <<"held", w>>
  BY <1>1, <1>2, <1>4 DEF Apart
<1>5. CASE r \in queue /\ here = <<"queued">>
  BY <1>1, <1>2, <1>5 DEF Apart
<1> QED BY <1>1, <1>3, <1>4, <1>5

\* A command keeps the function and the request of its call, and only the
\* last await of createRequest adds to the queue.
LEMMA CommandFrame ==
  ASSUME TypeOK, Shape, NEW p \in Procs, Command(p)
  PROVE  /\ call[p].at \in Awaits
         /\ \A q \in Procs \ {p} : call'[q] = call[q]
         /\ call'[p].fn = call[p].fn /\ call'[p].r = call[p].r
         /\ \/ queue' = queue
            \/ /\ call[p].at = "enqueue" /\ call[p].fn = "create"
               /\ queue' = queue \cup {call[p].r}
               /\ call'[p].at = "returned"
         /\ UNCHANGED <<issued, workerVars>>
<1>1. CommandKeeps(p)
  BY CommandTyped
<1>2. call[p] \in Frames
  BY DEF TypeOK, ManagerTypeOK
<1>3. call[p].at \in Awaits
  BY DEF Command, CallStep, StoreMetadata, InsertRow, Enqueue, GetMetadata, FindRow,
         FillCache, TouchMetadata, FindForUpdate, WriteResult, WriteRow,
         SetMetadata, WriteMany, LogActivity, Fail, Awaits
<1>4. ASSUME NEW g, call' = [call EXCEPT ![p] = g],
             g.fn = call[p].fn, g.r = call[p].r
      PROVE  call'[p].fn = call[p].fn /\ call'[p].r = call[p].r
  BY <1>4 DEF TypeOK, ManagerTypeOK
<1>5. ASSUME NEW at, Goto(p, at)
      PROVE  /\ call'[p].fn = call[p].fn /\ call'[p].r = call[p].r
             /\ call'[p].at = at
  BY <1>2, <1>5 DEF Goto, TypeOK, ManagerTypeOK, Frames
<1>6. ASSUME NEW meta, Resume(p, meta)
      PROVE  call'[p].fn = call[p].fn /\ call'[p].r = call[p].r
  BY <1>2, <1>6 DEF Resume, TypeOK, ManagerTypeOK, Frames
<1>7. call'[p].fn = call[p].fn /\ call'[p].r = call[p].r
  <2>1. CASE FindRow(p)
    BY <1>2, <2>1 DEF FindRow, TypeOK, ManagerTypeOK, Frames
  <2>2. CASE FindForUpdate(p)
    BY <1>2, <2>2 DEF FindForUpdate, TypeOK, ManagerTypeOK, Frames
  <2>3. CASE Fail(p)
    BY <2>3, <1>2, FailKeeps DEF TypeOK, Shape
  <2>4. CASE StoreMetadata(p) \/ InsertRow(p) \/ Enqueue(p) \/ TouchMetadata(p)
             \/ WriteResult(p) \/ WriteRow(p) \/ SetMetadata(p) \/ WriteMany(p)
             \/ LogActivity(p)
    BY <1>5, <2>4 DEF StoreMetadata, InsertRow, Enqueue, TouchMetadata,
       WriteResult, WriteRow, SetMetadata, WriteMany, LogActivity
  <2>5. CASE GetMetadata(p) \/ FillCache(p)
    BY <1>5, <1>6, <2>5 DEF GetMetadata, FillCache
  <2> QED BY <2>1, <2>2, <2>3, <2>4, <2>5 DEF Command, CallStep
<1>8. \/ queue' = queue
      \/ /\ call[p].at = "enqueue" /\ call[p].fn = "create"
         /\ queue' = queue \cup {call[p].r}
         /\ call'[p].at = "returned"
  <2>1. CASE Enqueue(p)
    BY <1>5, <2>1 DEF Enqueue, Shape, CallShape
  <2>2. CASE ~Enqueue(p)
    BY <2>2 DEF Command, CallStep, StoreMetadata, InsertRow, GetMetadata, FindRow,
         FillCache, TouchMetadata, FindForUpdate, WriteResult, WriteRow,
         SetMetadata, WriteMany, LogActivity, Fail
  <2> QED BY <2>1, <2>2
<1> QED BY <1>1, <1>3, <1>7, <1>8
        DEF CommandKeeps, Moves, Command, workerVars, systemVars

LEMMA CommandApart ==
  ASSUME TypeOK, Shape, Apart, NEW p \in Procs, Command(p)
  PROVE  Apart'
<1> USE CommandFrame
<1>1. \A q \in Procs, r \in Requests : Creating(q, r)' => Creating(q, r)
  BY DEF Creating
<1>2. \A w \in Workers, r \in Requests : Holding(w, r)' <=> Holding(w, r)
  BY DEF Holding, workerVars
<1>3. CASE queue' = queue
  BY <1>1, <1>2, <1>3 DEF Apart, TypeOK, ManagerTypeOK
<1>4. CASE /\ call[p].at = "enqueue" /\ call[p].fn = "create"
           /\ queue' = queue \cup {call[p].r} /\ call'[p].at = "returned"
  <2>1. call[p].r \in Requests /\ Creating(p, call[p].r)
    BY <1>4 DEF Shape, CallShape, Creating, Awaits
  <2>2. \A q \in Procs : ~Creating(q, call[p].r)'
    <3>1. ~Creating(p, call[p].r)'
      BY <1>4 DEF Creating, Awaits
    <3> QED BY <1>1, <2>1, <3>1 DEF Apart
  <2> QED BY <1>1, <1>2, <1>4, <2>1, <2>2 DEF Apart, TypeOK, ManagerTypeOK
<1> QED BY <1>3, <1>4
\* Starting any call but a creation, or ending a call, creates nothing.
LEMMA StartCreatesNothing ==
  ASSUME TypeOK, NEW p \in Procs, NEW f, f.fn # "create",
         call' = [call EXCEPT ![p] = f]
  PROVE  \A q \in Procs, r \in Requests : Creating(q, r)' => Creating(q, r)
BY DEF Creating, TypeOK, ManagerTypeOK

LEMMA FrameFunctions ==
  /\ NoCall.fn # "create"
  /\ \A r : /\ GetCall(r).fn # "create" /\ ListCall(r).fn # "create"
            /\ ActivityCall(r).fn # "create"
            /\ \A to, res : UpdateCall(r, to, res).fn # "create"
BY DEF NoCall, GetCall, ListCall, ActivityCall, UpdateCall

\* Nothing gained: no new place for any request.
LEMMA NothingGained ==
  ASSUME TypeOK, Apart,
         \A q \in Procs, r \in Requests : Creating(q, r)' => Creating(q, r),
         \A w \in Workers, r \in Requests : Holding(w, r)' => Holding(w, r),
         queue' \subseteq queue, issued \subseteq issued'
  PROVE  Apart'
BY DEF Apart, TypeOK, ManagerTypeOK

\* Apart from Create, a client's step starts or ends a call that creates nothing.
LEMMA ClientStartsNoCreation ==
  ASSUME NEW c \in Clients, ClientStep(c), ~Create(c)
  PROVE  \E f : f.fn # "create" /\ call' = [call EXCEPT ![c] = f]
<1>1. CASE Answer(c)
  BY <1>1, FrameFunctions DEF Answer
<1>2. ASSUME NEW op, NEW frames, Ask(c, op, frames),
             \A f \in frames : f.fn # "create"
      PROVE  \E f : f.fn # "create" /\ call' = [call EXCEPT ![c] = f]
  BY <1>2 DEF Ask
<1>3. CASE Cancel(c)
  <2>1. \A f \in {UpdateCall(r, "CANCELLED", "none") : r \in Created} :
          f.fn # "create"
    BY FrameFunctions
  <2> QED BY <1>2, <1>3, <2>1 DEF Cancel
<1>4. CASE PutStatus(c)
  <2>1. \A f \in {UpdateCall(r, to, res) :
                   r \in Created, to \in PutStatuses, res \in {"none", "client"}} :
          f.fn # "create"
    BY FrameFunctions
  <2> QED BY <1>2, <1>4, <2>1 DEF PutStatus
<1>5. CASE Touch(c)
  <2>1. \A f \in {ActivityCall(r) : r \in Created} : f.fn # "create"
    BY FrameFunctions
  <2> QED BY <1>2, <1>5, <2>1 DEF Touch
<1>6. CASE ListFromRedis(c)
  <2>1. \A f \in {GetCall(r) : r \in Created} : f.fn # "create"
    BY FrameFunctions
  <2> QED BY <1>2, <1>6, <2>1 DEF ListFromRedis
<1>7. CASE ListFromRows(c)
  <2>1. \A f \in {ListCall(r) : r \in Created} : f.fn # "create"
    BY FrameFunctions
  <2> QED BY <1>2, <1>7, <2>1 DEF ListFromRows
<1> QED BY <1>1, <1>3, <1>4, <1>5, <1>6, <1>7 DEF ClientStep

LEMMA ClientApart ==
  ASSUME TypeOK, Shape, Apart, NEW c \in Clients, ClientStep(c)
  PROVE  Apart'
<1>1. UNCHANGED <<queue, workerVars>>
  BY ClientTyped
<1>2. \A w \in Workers, r \in Requests : Holding(w, r)' <=> Holding(w, r)
  BY <1>1 DEF Holding, workerVars
<1>3. c \in Procs
  BY DEF Procs
<1>4. CASE Create(c)
  <2>1. PICK r \in Requests \ issued :
          issued' = issued \cup {r} /\ call' = [call EXCEPT ![c] = CreateCall(r)]
    BY <1>4 DEF Create
  <2>2. \A q \in Procs, s \in Requests :
          Creating(q, s)' => Creating(q, s) \/ (q = c /\ s = r)
    BY <1>3, <2>1 DEF Creating, CreateCall, NoCall, TypeOK, ManagerTypeOK
  <2>3. /\ r \notin queue
        /\ \A q \in Procs : ~Creating(q, r)
        /\ \A w \in Workers : ~Holding(w, r)
    BY <2>1 DEF Apart
  <2> QED BY <1>1, <1>2, <2>1, <2>2, <2>3 DEF Apart, TypeOK, ManagerTypeOK
<1>5. CASE ~Create(c)
  <2>1. issued' = issued
    BY <1>5 DEF ClientStep, Cancel, Touch, PutStatus, ListFromRedis, ListFromRows,
                Ask, Answer
  <2>2. \E f : f.fn # "create" /\ call' = [call EXCEPT ![c] = f]
    BY <1>5, ClientStartsNoCreation
  <2>3. \A q \in Procs, r \in Requests : Creating(q, r)' => Creating(q, r)
    BY <1>3, <2>2, StartCreatesNothing
  <2> QED BY <1>1, <1>2, <2>1, <2>3, NothingGained
<1> QED BY <1>4, <1>5

LEMMA WorkerApart ==
  ASSUME TypeOK, Shape, Apart, NEW w \in Workers, WorkerStep(w)
  PROVE  Apart'
<1>1. issued' = issued /\ w \in Procs
  BY WorkerTyped DEF systemVars, Procs
<1>2. \E f : f.fn # "create" /\ call' = [call EXCEPT ![w] = f]
  BY FrameFunctions
  DEF WorkerStep, Dequeue, AfterLookup, AfterActivity, AfterStarting, ScrapeReturns,
      ScrapeThrows, AfterCompleting, AfterFailing, Failed, Release, Proceed
<1>3. \A q \in Procs, r \in Requests : Creating(q, r)' => Creating(q, r)
  BY <1>1, <1>2, StartCreatesNothing
<1>4. CASE Dequeue(w)
  <2>1. PICK r \in queue : /\ queue' = queue \ {r}
                           /\ job' = [job EXCEPT ![w] = r]
                           /\ stage' = [stage EXCEPT ![w] = "lookup"]
    BY <1>4 DEF Dequeue
  <2>2. \A v \in Workers, s \in Requests :
          Holding(v, s)' => Holding(v, s) \/ (v = w /\ s = r)
    BY <2>1 DEF Holding, TypeOK
  <2>3. \A q \in Procs : ~Creating(q, r)
    BY DEF Apart
  <2>4. \A v \in Workers : ~Holding(v, r)
    BY DEF Apart
  <2>5. r \in issued
    BY DEF Apart
  <2> QED BY <1>1, <1>3, <2>1, <2>2, <2>3, <2>4, <2>5
          DEF Apart, TypeOK, ManagerTypeOK
<1>5. CASE ~Dequeue(w)
  <2>1. stage[w] # "idle" /\ queue' = queue
    BY <1>5
    DEF WorkerStep, AfterLookup, AfterActivity, AfterStarting, ScrapeReturns,
        ScrapeThrows, AfterCompleting, AfterFailing, Release, Proceed
  <2>2. \/ job' = job
        \/ stage' = [stage EXCEPT ![w] = "idle"] /\ job' = [job EXCEPT ![w] = NoRequest]
    BY <1>5
    DEF WorkerStep, AfterLookup, AfterActivity, AfterStarting, ScrapeReturns,
        ScrapeThrows, AfterCompleting, AfterFailing, Release, Proceed
  <2>3. \E s : stage' = [stage EXCEPT ![w] = s]
    BY <1>5
    DEF WorkerStep, AfterLookup, AfterActivity, AfterStarting, ScrapeReturns,
        ScrapeThrows, AfterCompleting, AfterFailing, Release, Proceed
  <2>4. \A v \in Workers, r \in Requests : Holding(v, r)' => Holding(v, r)
    BY <2>1, <2>2, <2>3 DEF Holding, TypeOK
  <2> QED BY <1>1, <1>3, <2>1, <2>4, NothingGained
<1> QED BY <1>4, <1>5

LEMMA CronApart ==
  ASSUME TypeOK, Shape, Apart, CronStep
  PROVE  Apart'
<1>1. UNCHANGED <<queue, issued, workerVars>>
  BY CronTyped
<1>2. Cron \in Procs
  BY DEF Procs
<1>3. \/ call' = call
      \/ \E f : f.fn # "create" /\ call' = [call EXCEPT ![Cron] = f]
  BY FrameFunctions DEF CronStep, CleanupStart, CleanupKey, CleanupNext, managerVars
<1>4. \A q \in Procs, r \in Requests : Creating(q, r)' => Creating(q, r)
  BY <1>2, <1>3, StartCreatesNothing DEF Creating
<1>5. \A w \in Workers, r \in Requests : Holding(w, r)' <=> Holding(w, r)
  BY <1>1 DEF Holding, workerVars
<1> QED BY <1>1, <1>4, <1>5, NothingGained

LEMMA NextApart ==
  ASSUME TypeOK, Shape, Apart, [Next]_vars
  PROVE  Apart'
<1>1. ASSUME NEW w \in Workers, DequeueLost(w) PROVE Apart'
  BY <1>1, LostTyped, NothingGained DEF Creating, Holding, workerVars
<1>2. ASSUME NEW r \in Requests, AgeRow(r) \/ AgeKey(r) \/ ExpireKey(r)
      PROVE  Apart'
  BY <1>2, TimeTyped, NothingGained DEF Creating, Holding, workerVars
<1>3. CASE Crash
  <2>1. \A p \in Procs, r \in Requests : ~Creating(p, r)'
    BY <1>3, CrashTyped DEF Creating, Awaits
  <2>2. \A w \in Workers, r \in Requests : ~Holding(w, r)'
    BY <1>3, CrashTyped DEF Holding
  <2> QED BY <1>3, <2>1, <2>2, CrashTyped, NothingGained
<1>4. CASE UNCHANGED vars
  BY <1>4, NothingGained
  DEF vars, managerVars, workerVars, systemVars, Creating, Holding
<1> QED BY <1>1, <1>2, <1>3, <1>4, CommandApart, ClientApart, WorkerApart, CronApart
        DEF Next, Environment, Sleep

\* A request is in one place at a time: never queued and held, never held by
\* two workers, whatever fails, crashes or is called.
THEOREM RequestsInOnePlace == Spec => []OnePlace
<1>1. Init => Apart
  BY DEF Init, ManagerInit, Apart, Creating, Holding, NoCall, Awaits
<1>2. TypeOK /\ Shape /\ Apart /\ [Next]_vars => (TypeOK /\ Shape /\ Apart)'
  BY NextTyped, NextApart
<1> QED BY InitTyped, ApartOnePlace, <1>1, <1>2, PTL DEF Spec

-----------------------------------------------------------------------------
(* Rows before workers.                                                    *)

\* What may be taken has its row: createRequest inserts before it enqueues
\* and no step removes a row.
THEOREM TakenRequestsHaveRows == Spec => []TakenHasRow
<1>1. Init => TakenHasRow
  BY DEF Init, ManagerInit, TakenHasRow, Held
<1>2. ASSUME TypeOK, Shape, TakenHasRow, [Next]_vars, NEW r \in Requests,
             r \in queue' \/ Held(r)'
      PROVE  db'[r] # NoRow
  <2>1. RowsStay
    BY <1>2, NextTyped
  <2>2. CASE r \in queue \/ Held(r)
    BY <2>1, <2>2, <1>2 DEF TakenHasRow, RowsStay
  <2>3. ASSUME NEW p \in Procs, Command(p), r \notin queue, ~Held(r)
        PROVE  call[p].at = "enqueue" /\ call[p].r = r
    BY <1>2, <2>3, CommandFrame DEF Held, workerVars
  <2>4. ASSUME NEW p \in Procs, Command(p), r \notin queue, ~Held(r)
        PROVE  db[r] # NoRow
    BY <1>2, <2>3, <2>4 DEF Shape, CallShape
  <2>5. ASSUME NEW w \in Workers, WorkerStep(w)
        PROVE  r \in queue \/ Held(r)
    <3>1. CASE Dequeue(w)
      BY <1>2, <3>1 DEF Dequeue, Held, TypeOK
    <3>2. CASE ~Dequeue(w)
      BY <1>2, <2>5, <3>2
      DEF WorkerStep, AfterLookup, AfterActivity, AfterStarting, ScrapeReturns,
          ScrapeThrows, AfterCompleting, AfterFailing, Release, Proceed, Held, TypeOK
    <3> QED BY <3>1, <3>2
  <2>6. ASSUME NEW c \in Clients, ClientStep(c) PROVE r \in queue \/ Held(r)
    BY <1>2, <2>6, ClientTyped DEF Held, workerVars
  <2>7. ASSUME NEW w \in Workers, DequeueLost(w) PROVE r \in queue \/ Held(r)
    BY <1>2, <2>7, LostTyped DEF Held, workerVars
  <2>8. CASE CronStep
    BY <1>2, <2>8, <2>2, CronTyped DEF Held, workerVars
  <2>9. ASSUME NEW s \in Requests, AgeRow(s) \/ AgeKey(s) \/ ExpireKey(s)
        PROVE  r \in queue \/ Held(r)
    BY <1>2, <2>9, TimeTyped DEF Held, workerVars
  <2>10. CASE Crash
    BY <1>2, <2>10, <2>2, CrashTyped DEF Held
  <2>11. CASE UNCHANGED vars
    BY <1>2, <2>11, <2>2 DEF vars, managerVars, workerVars, Held
  <2> QED BY <1>2, <2>1, <2>2, <2>4, <2>5, <2>6, <2>7, <2>8, <2>9, <2>10, <2>11
          DEF Next, Environment, Sleep, RowsStay
<1>3. TypeOK /\ Shape /\ TakenHasRow /\ [Next]_vars
        => (TypeOK /\ Shape /\ TakenHasRow)'
  BY <1>2, NextTyped DEF TakenHasRow
<1> QED BY InitTyped, <1>1, <1>3, PTL DEF Spec

-----------------------------------------------------------------------------
(* Which call a worker waits for, and what a command does to the rows.         *)

UpdateAwaits == {"findForUpdate", "writeResult", "writeRow", "setMeta1", "setMeta2",
                 "writeMany", "logActivity"}

\* Only updateRequestStatus writes rows that are there, results only when it is
\* given one.
UpdateShape(p) ==
  /\ call[p].at \in UpdateAwaits => call[p].fn = "update"
  /\ call[p].at = "writeResult" => call[p].res # "none"

\* processRequest awaits in each stage the call of that stage, for its own request.
WorkerCall(w) ==
  LET f == call[w] IN
  /\ stage[w] \in {"idle", "scraping"} => f = NoCall
  /\ stage[w] \notin {"idle", "scraping"} => f.r = job[w]
  /\ stage[w] = "lookup" => f.fn = "get" /\ f.at # "null"
  /\ stage[w] = "activity" => f.fn = "activity"
  /\ stage[w] = "starting" => f.fn = "update" /\ f.to = "PROCESSING" /\ f.res = "none"
  /\ stage[w] = "completing" => f.fn = "update" /\ f.to = "COMPLETED" /\ f.res = "scrape"
  /\ stage[w] = "failing" => f.fn = "update" /\ f.to = "FAILED" /\ f.res = "error"

Turns == (\A p \in Procs : UpdateShape(p)) /\ (\A w \in Workers : WorkerCall(w))

\* The fields of a frame that another one replaces in part.
LEMMA CommandArgs ==
  ASSUME TypeOK, Shape, NEW p \in Procs, Command(p), UpdateShape(p)
  PROVE  /\ call'[p].to = call[p].to /\ call'[p].res = call[p].res
         /\ UpdateShape(p)'
         /\ call'[p].at = "null" =>
              \/ call[p].fn = "activity"
              \/ call[p].at = "findRow" /\ db[call[p].r] = NoRow
<1>t. ManagerTypeOK /\ call[p] \in Frames /\ CallShape(p)
  BY DEF TypeOK, ManagerTypeOK, Shape
<1>g. ASSUME NEW at \in Awaits \cup Ends, Goto(p, at)
      PROVE  /\ call'[p].at = at /\ call'[p].fn = call[p].fn
             /\ call'[p].to = call[p].to /\ call'[p].res = call[p].res
  BY <1>t, <1>g, GotoMoves
<1>r. ASSUME NEW meta, Resume(p, meta)
      PROVE  /\ call'[p].at = AfterGet(call[p].fn) /\ call'[p].fn = call[p].fn
             /\ call'[p].to = call[p].to /\ call'[p].res = call[p].res
  BY <1>t, <1>r DEF Resume, ManagerTypeOK, Frames
<1>1. CASE StoreMetadata(p) \/ InsertRow(p) \/ Enqueue(p) \/ TouchMetadata(p)
  <2>1. \E at \in {"insertRow", "enqueue", "returned"} : Goto(p, at)
    BY <1>1 DEF StoreMetadata, InsertRow, Enqueue, TouchMetadata
  <2>2. QED
    BY <1>g, <2>1 DEF UpdateShape, UpdateAwaits, Awaits, Ends
<1>2. CASE WriteResult(p) \/ WriteRow(p) \/ SetMetadata(p) \/ WriteMany(p)
           \/ LogActivity(p)
  <2>1. call[p].fn = "update"
    BY <1>2 DEF UpdateShape, UpdateAwaits, WriteResult, WriteRow, SetMetadata, WriteMany,
       LogActivity
  <2>2. \E at \in {"writeRow", "setMeta1", "setMeta2", "writeMany", "logActivity",
                   "returned", "threw"} : Goto(p, at)
    BY <1>2 DEF WriteResult, WriteRow, SetMetadata, WriteMany, LogActivity
  <2>3. QED
    BY <1>g, <2>1, <2>2 DEF UpdateShape, Awaits, Ends
<1>3. CASE GetMetadata(p) \/ FillCache(p)
  <2>1. call[p].fn \in {"get", "activity", "update"}
    BY <1>t, <1>3 DEF GetMetadata, FillCache, CallShape
  <2>2. CASE Goto(p, "findRow")
    BY <1>g, <2>2 DEF UpdateShape, UpdateAwaits, Awaits
  <2>3. ASSUME NEW meta, Resume(p, meta)
        PROVE  /\ call'[p].to = call[p].to /\ call'[p].res = call[p].res
               /\ UpdateShape(p)' /\ call'[p].at # "null"
    BY <1>r, <2>1, <2>3 DEF AfterGet, UpdateShape, UpdateAwaits
  <2>4. QED
    BY <1>3, <1>g, <2>2, <2>3 DEF GetMetadata, FillCache, Awaits
<1>4. CASE FindRow(p)
  <2>1. CASE db[call[p].r] = NoRow
    <3>1. Goto(p, "null") /\ call[p].at = "findRow"
      BY <1>4, <2>1 DEF FindRow, Goto
    <3>2. QED
      BY <1>g, <2>1, <3>1 DEF UpdateShape, UpdateAwaits, Ends
  <2>2. CASE db[call[p].r] # NoRow
    <3> DEFINE copy == [status |-> db[call[p].r].status, old |-> db[call[p].r].old]
    <3>1. call' = [call EXCEPT ![p].at = "fill", ![p].copy = copy]
      BY <1>4, <2>2 DEF FindRow
    <3>2. /\ call'[p].at = "fill" /\ call'[p].fn = call[p].fn
          /\ call'[p].to = call[p].to /\ call'[p].res = call[p].res
      <4> HIDE DEF copy
      <4>1. QED
        BY <1>t, <3>1 DEF ManagerTypeOK, Frames
    <3>3. QED
      BY <3>2 DEF UpdateShape, UpdateAwaits
  <2>3. QED
    BY <2>1, <2>2
<1>5. CASE FindForUpdate(p)
  <2> DEFINE found == db[call[p].r] # NoRow
             at == CASE found /\ call[p].res # "none" -> "writeResult"
                     [] found /\ call[p].res = "none" -> "writeRow"
                     [] OTHER -> "setMeta1"
  <2>1. call' = [call EXCEPT ![p].row = found, ![p].at = at] /\ call[p].fn = "update"
    BY <1>5 DEF FindForUpdate, UpdateShape, UpdateAwaits
  <2>2. at \in {"writeRow", "setMeta1"} \/ (at = "writeResult" /\ call[p].res # "none")
    OBVIOUS
  <2>3. /\ call'[p].at = at /\ call'[p].fn = call[p].fn
        /\ call'[p].to = call[p].to /\ call'[p].res = call[p].res
    <3> HIDE DEF at, found
    <3>1. QED
      BY <1>t, <2>1 DEF ManagerTypeOK, Frames
  <2>4. QED
    <3> HIDE DEF at, found
    <3>1. QED
      BY <2>1, <2>2, <2>3 DEF UpdateShape
<1>6. CASE Fail(p)
  <2>1. PICK at \in {"null", "returned", "threw"} :
          Goto(p, at) /\ (at = "null" => call[p].fn = "activity")
    BY <1>6 DEF Fail
  <2>2. QED
    BY <1>g, <2>1 DEF UpdateShape, UpdateAwaits, Ends
<1>7. QED
  BY <1>1, <1>2, <1>3, <1>4, <1>5, <1>6 DEF Command, CallStep

\* A command writes at most the row of its own request: createRequest inserts it,
\* updateRequestStatus sets its result or its status.
LEMMA CommandRows ==
  ASSUME TypeOK, Shape, NEW p \in Procs, Command(p), UpdateShape(p), NEW r \in Requests,
         db'[r] # db[r]
  PROVE  /\ r = call[p].r
         /\ \/ /\ Creating(p, r) /\ call[p].at = "insertRow"
               /\ db'[r] = [status |-> "PENDING", result |-> "none", old |-> FALSE]
            \/ /\ call[p].fn = "update" /\ call[p].at = "writeResult"
               /\ call[p].res # "none" /\ db[r] # NoRow
               /\ db'[r] = [db[r] EXCEPT !.result = call[p].res]
            \/ /\ call[p].fn = "update" /\ call[p].at \in {"writeRow", "writeMany"}
               /\ db[r] # NoRow /\ db'[r] = Restated(db[r], call[p].to)
<1>t. /\ db \in [Requests -> Rows \cup {NoRow}] /\ CallShape(p)
  BY DEF TypeOK, ManagerTypeOK, Shape
<1>1. CASE InsertRow(p)
  BY <1>1, <1>t DEF InsertRow, CallShape, Creating, Awaits
<1>2. CASE WriteResult(p)
  BY <1>2, <1>t DEF WriteResult, CallShape, UpdateShape, UpdateAwaits
<1>3. CASE WriteRow(p)
  BY <1>3, <1>t DEF WriteRow, CallShape, UpdateShape, UpdateAwaits
<1>4. CASE WriteMany(p)
  BY <1>4, <1>t DEF WriteMany, CallShape, UpdateShape, UpdateAwaits
<1>5. ~InsertRow(p) /\ ~WriteResult(p) /\ ~WriteRow(p) /\ ~WriteMany(p) => db' = db
  BY DEF Command, CallStep, StoreMetadata, Enqueue, GetMetadata, FindRow, FillCache,
     TouchMetadata, FindForUpdate, SetMetadata, LogActivity, Fail
<1>6. QED
  BY <1>1, <1>2, <1>3, <1>4, <1>5

\* What clients and the cron job ask for.
LEMMA ClientStarts ==
  ASSUME TypeOK, Shape, NEW c \in Clients, ClientStep(c)
  PROVE  \E f \in Starts :
           /\ call' = [call EXCEPT ![c] = f]
           /\ f.fn = "update" =>
                "put" \in ClientOps \/ (f.to = "CANCELLED" /\ f.res = "none")
<1> DEFINE Asked(f) == f \in Starts /\ (f.fn = "update" =>
                "put" \in ClientOps \/ (f.to = "CANCELLED" /\ f.res = "none"))
<1>1. ASSUME NEW op, NEW frames, Ask(c, op, frames), \A f \in frames : Asked(f)
      PROVE  \E f : Asked(f) /\ call' = [call EXCEPT ![c] = f]
  BY <1>1 DEF Ask
<1>2. Created \subseteq Requests
  BY DEF Created
<1>3. /\ Asked(NoCall)
      /\ \A r \in Requests : /\ Asked(CreateCall(r)) /\ Asked(GetCall(r))
                             /\ Asked(ListCall(r)) /\ Asked(ActivityCall(r))
                             /\ Asked(UpdateCall(r, "CANCELLED", "none"))
  <2>1. NoCall \in Starts /\ NoCall.fn # "update"
    BY StartFrames DEF NoCall
  <2>2. ASSUME NEW r \in Requests
        PROVE  /\ CreateCall(r).fn # "update" /\ GetCall(r).fn # "update"
               /\ ListCall(r).fn # "update" /\ ActivityCall(r).fn # "update"
               /\ UpdateCall(r, "CANCELLED", "none").to = "CANCELLED"
               /\ UpdateCall(r, "CANCELLED", "none").res = "none"
    BY DEF CreateCall, GetCall, ListCall, ActivityCall, UpdateCall, NoCall
  <2>3. "CANCELLED" \in Statuses /\ "none" \in Results
    BY DEF Statuses, Results
  <2>4. QED
    BY <2>1, <2>2, <2>3, StartFrames
<1>4. ASSUME "put" \in ClientOps, NEW r \in Requests, NEW to \in PutStatuses,
             NEW res \in {"none", "client"}
      PROVE  Asked(UpdateCall(r, to, res))
  BY <1>4, StartFrames, SystemAssumption DEF Results
<1>5. \E f : Asked(f) /\ call' = [call EXCEPT ![c] = f]
  <2> HIDE DEF Asked
  <2>1. CASE Create(c) \/ Answer(c)
    BY <1>3, <2>1 DEF Create, Answer
  <2>2. CASE Cancel(c) \/ Touch(c) \/ ListFromRedis(c) \/ ListFromRows(c)
    <3>1. /\ \A f \in {UpdateCall(r, "CANCELLED", "none") : r \in Created} : Asked(f)
          /\ \A f \in {ActivityCall(r) : r \in Created} : Asked(f)
          /\ \A f \in {GetCall(r) : r \in Created} : Asked(f)
          /\ \A f \in {ListCall(r) : r \in Created} : Asked(f)
      BY <1>2, <1>3
    <3>2. QED
      BY <1>1, <2>2, <3>1 DEF Cancel, Touch, ListFromRedis, ListFromRows
  <2>3. CASE PutStatus(c)
    <3>1. "put" \in ClientOps
      BY <2>3 DEF PutStatus, Ask
    <3>2. \A f \in {UpdateCall(r, to, res) : r \in Created, to \in PutStatuses,
                                             res \in {"none", "client"}} : Asked(f)
      BY <1>2, <1>4, <3>1
    <3>3. QED
      BY <1>1, <2>3, <3>2 DEF PutStatus
  <2>4. QED
    BY <2>1, <2>2, <2>3 DEF ClientStep
<1>6. QED
  BY <1>5

LEMMA CronStarts ==
  ASSUME TypeOK, Shape, CronStep
  PROVE  \/ call' = call
         \/ \E f \in Starts :
              /\ call' = [call EXCEPT ![Cron] = f]
              /\ f.fn = "update" => f.to = "EXPIRED" /\ todo # {}
<1>1. CASE CleanupStart
  BY <1>1 DEF CleanupStart, managerVars
<1>2. CASE CleanupNext
  <2>1. NoCall \in Starts /\ NoCall.fn # "update"
    BY StartFrames DEF NoCall
  <2>2. QED
    BY <1>2, <2>1 DEF CleanupNext
<1>3. ASSUME NEW r \in Requests, CleanupKey(r)
      PROVE  \/ call' = call
             \/ /\ call' = [call EXCEPT ![Cron] = UpdateCall(r, "EXPIRED", "reason")]
                /\ todo # {}
  BY <1>3 DEF CleanupKey
<1>4. ASSUME NEW r \in Requests
      PROVE  /\ UpdateCall(r, "EXPIRED", "reason") \in Starts
             /\ UpdateCall(r, "EXPIRED", "reason").to = "EXPIRED"
  <2>1. "EXPIRED" \in Statuses /\ "reason" \in Results
    BY DEF Statuses, Results
  <2>2. QED
    BY <2>1, StartFrames DEF UpdateCall, NoCall
<1>5. QED
  BY <1>1, <1>2, <1>3, <1>4 DEF CronStep

LEMMA CommandTurns ==
  ASSUME TypeOK, Shape, TakenHasRow, Turns, NEW p \in Procs, Command(p)
  PROVE  Turns'
<1>1. /\ \A q \in Procs \ {p} : call'[q] = call[q]
      /\ call'[p].fn = call[p].fn /\ call'[p].r = call[p].r
      /\ call[p].at \in Awaits /\ stage' = stage /\ job' = job
  BY CommandFrame DEF workerVars
<1>2. UpdateShape(p)
  BY DEF Turns
<1>3. /\ call'[p].to = call[p].to /\ call'[p].res = call[p].res /\ UpdateShape(p)'
      /\ call'[p].at = "null" =>
           \/ call[p].fn = "activity"
           \/ call[p].at = "findRow" /\ db[call[p].r] = NoRow
  BY <1>2, CommandArgs
<1>4. \A q \in Procs : UpdateShape(q)'
  BY <1>1, <1>3 DEF Turns, UpdateShape
<1>5. ASSUME NEW w \in Workers
      PROVE  WorkerCall(w)'
  <2>0. w \in Procs /\ WorkerCall(w)
    BY DEF Procs, Turns
  <2>1. CASE w # p
    BY <1>1, <2>0, <2>1 DEF WorkerCall
  <2>2. CASE w = p
    <3>1. call[p] # NoCall /\ stage[p] \notin {"idle", "scraping"}
      BY <1>1, <2>0, <2>2 DEF NoCall, Awaits, WorkerCall
    <3>2. call[p].r = job[p]
      BY <2>0, <2>2, <3>1 DEF WorkerCall
    <3>3. CASE stage[p] = "lookup"
      <4>1. call[p].fn = "get"
        BY <2>0, <2>2, <3>3 DEF WorkerCall
      <4>2. job[p] \in Requests /\ Held(job[p])
        BY <2>2, <3>3 DEF Shape, JobShape, Held
      <4>3. db[call[p].r] # NoRow
        BY <3>2, <4>2 DEF TakenHasRow
      <4>4. call'[p].at # "null"
        BY <1>3, <4>1, <4>3
      <4>5. QED
        BY <1>1, <2>2, <3>2, <3>3, <4>1, <4>4 DEF WorkerCall
    <3>4. CASE stage[p] # "lookup"
      BY <1>1, <1>3, <2>0, <2>2, <3>1, <3>4 DEF WorkerCall
    <3>5. QED
      BY <3>3, <3>4
  <2>3. QED
    BY <2>1, <2>2
<1>6. QED
  BY <1>4, <1>5 DEF Turns

\* Starting a call, or ending one, leaves the calls of the others alone.
LEMMA StartTurns ==
  ASSUME TypeOK, Shape, Turns, NEW p \in Procs \ Workers, NEW f \in Starts,
         call' = [call EXCEPT ![p] = f], UNCHANGED workerVars
  PROVE  Turns'
<1>1. call'[p] = f /\ \A q \in Procs \ {p} : call'[q] = call[q]
  BY DEF TypeOK, ManagerTypeOK
<1>2. f.at \notin UpdateAwaits
  BY DEF Starts, StartShape, UpdateAwaits
<1>3. UpdateShape(p)'
  BY <1>1, <1>2 DEF UpdateShape, UpdateAwaits
<1>4. \A q \in Procs : UpdateShape(q)'
  BY <1>1, <1>3 DEF Turns, UpdateShape
<1>5. \A w \in Workers : w \in Procs /\ w # p
  BY DEF Procs
<1>6. QED
  BY <1>1, <1>4, <1>5 DEF Turns, WorkerCall, workerVars

\* The frames of the calls a worker makes.
LEMMA WorkerFrames ==
  ASSUME NEW r
  PROVE  /\ GetCall(r).r = r /\ GetCall(r).fn = "get" /\ GetCall(r).at = "getMeta"
         /\ ActivityCall(r).r = r /\ ActivityCall(r).fn = "activity"
         /\ ActivityCall(r).at = "getMeta"
         /\ \A to, res : /\ UpdateCall(r, to, res).r = r
                         /\ UpdateCall(r, to, res).fn = "update"
                         /\ UpdateCall(r, to, res).at = "getMeta"
                         /\ UpdateCall(r, to, res).to = to
                         /\ UpdateCall(r, to, res).res = res
         /\ NoCall.at = "none" /\ NoCall.fn = "none"
BY DEF GetCall, ActivityCall, UpdateCall, NoCall

\* processRequest, seen from one stage to the next: the call it makes there.
LEMMA WorkerMoves ==
  ASSUME TypeOK, Shape, Turns, NEW w \in Workers, WorkerStep(w)
  PROVE  \E s, f :
           /\ s \in Stages /\ stage' = [stage EXCEPT ![w] = s] /\ call' = [call EXCEPT ![w] = f]
           /\ \A v \in Workers \ {w} : job'[v] = job[v]
           /\ \/ s = "lookup" /\ stage[w] = "idle" /\ job'[w] \in queue
                 /\ f = GetCall(job'[w])
              \/ s = "activity" /\ job' = job /\ stage[w] = "lookup"
                 /\ f = ActivityCall(job[w])
              \/ s = "starting" /\ job' = job /\ stage[w] = "activity"
                 /\ f = UpdateCall(job[w], "PROCESSING", "none")
              \/ s = "scraping" /\ job' = job /\ stage[w] \in {"activity", "starting"}
                 /\ f = NoCall
              \/ s = "completing" /\ job' = job /\ stage[w] = "scraping"
                 /\ f = UpdateCall(job[w], "COMPLETED", "scrape")
              \/ s = "failing" /\ job' = job /\ f = UpdateCall(job[w], "FAILED", "error")
                 /\ \/ stage[w] = "scraping"
                    \/ stage[w] \in {"lookup", "starting", "completing"}
                       /\ call[w].at = "threw"
              \/ s = "idle" /\ f = NoCall
                 /\ stage[w] \in {"lookup", "completing", "failing"}
                 /\ job' = [job EXCEPT ![w] = NoRequest]
<1>0. job \in [Workers -> Requests \cup {NoRequest}]
  BY DEF TypeOK
<1>1. CASE Dequeue(w)
  <2>1. PICK r \in queue :
          /\ job' = [job EXCEPT ![w] = r] /\ call' = [call EXCEPT ![w] = GetCall(r)]
          /\ stage' = [stage EXCEPT ![w] = "lookup"] /\ stage[w] = "idle"
    BY <1>1 DEF Dequeue
  <2>2. job'[w] = r
    BY <1>0, <2>1
  <2>3. QED
    BY <1>0, <2>1, <2>2 DEF Stages
<1>2. CASE AfterLookup(w)
  BY <1>0, <1>2 DEF AfterLookup, Release, Proceed, Failed, Stages
<1>3. CASE AfterActivity(w)
  BY <1>3 DEF AfterActivity, Proceed, Stages
<1>4. CASE AfterStarting(w)
  BY <1>4 DEF AfterStarting, Proceed, Failed, Stages
<1>5. CASE ScrapeReturns(w) \/ ScrapeThrows(w)
  BY <1>5 DEF ScrapeReturns, ScrapeThrows, Proceed, Failed, Stages
<1>6. CASE AfterCompleting(w) \/ AfterFailing(w)
  BY <1>0, <1>6 DEF AfterCompleting, AfterFailing, Release, Proceed, Failed, Stages
<1>7. QED
  BY <1>1, <1>2, <1>3, <1>4, <1>5, <1>6 DEF WorkerStep

LEMMA WorkerTurns ==
  ASSUME TypeOK, Shape, Turns, NEW w \in Workers, WorkerStep(w)
  PROVE  Turns'
<1>0. w \in Procs /\ (\A v \in Workers : v \in Procs)
  BY DEF Procs
<1>1. PICK s, f :
        /\ s \in Stages /\ stage' = [stage EXCEPT ![w] = s] /\ call' = [call EXCEPT ![w] = f]
        /\ \A v \in Workers \ {w} : job'[v] = job[v]
        /\ \/ s = "lookup" /\ f = GetCall(job'[w])
           \/ s = "activity" /\ job' = job /\ f = ActivityCall(job[w])
           \/ s = "starting" /\ job' = job /\ f = UpdateCall(job[w], "PROCESSING", "none")
           \/ s = "scraping" /\ f = NoCall
           \/ s = "completing" /\ job' = job /\ f = UpdateCall(job[w], "COMPLETED", "scrape")
           \/ s = "failing" /\ job' = job /\ f = UpdateCall(job[w], "FAILED", "error")
           \/ s = "idle" /\ f = NoCall
  BY WorkerMoves
<1>2. /\ stage'[w] = s /\ call'[w] = f
      /\ \A v \in Workers \ {w} : stage'[v] = stage[v]
      /\ \A q \in Procs \ {w} : call'[q] = call[q]
  BY <1>0, <1>1 DEF TypeOK, ManagerTypeOK
<1>3. WorkerCall(w)'
  BY <1>1, <1>2, WorkerFrames DEF WorkerCall
<1>4. \A v \in Workers : WorkerCall(v)'
  BY <1>0, <1>1, <1>2, <1>3 DEF Turns, WorkerCall
<1>5. f.at \notin UpdateAwaits
  BY <1>1, WorkerFrames DEF UpdateAwaits
<1>6. \A q \in Procs : UpdateShape(q)'
  BY <1>2, <1>5 DEF Turns, UpdateShape, UpdateAwaits
<1>7. QED
  BY <1>4, <1>6 DEF Turns

LEMMA NextTurns ==
  ASSUME TypeOK, Shape, TakenHasRow, Turns, [Next]_vars
  PROVE  Turns'
<1>1. ASSUME NEW c \in Clients, ClientStep(c)
      PROVE  Turns'
  <2>1. c \in Procs \ Workers /\ UNCHANGED workerVars
    BY <1>1, ClientTyped, ProcsAssumption DEF Procs
  <2>2. QED
    BY <1>1, <2>1, ClientStarts, StartTurns
<1>2. CASE CronStep
  <2>1. Cron \in Procs \ Workers /\ UNCHANGED workerVars
    BY <1>2, CronTyped, ProcsAssumption DEF Procs
  <2>2. CASE call' = call
    BY <2>1, <2>2 DEF Turns, UpdateShape, WorkerCall, workerVars
  <2>3. QED
    BY <1>2, <2>1, <2>2, CronStarts, StartTurns
<1>3. CASE Crash
  <2>1. /\ \A p \in Procs : call'[p] = NoCall
        /\ \A w \in Workers : stage'[w] = "idle" /\ w \in Procs
    BY <1>3 DEF Crash, Procs
  <2>2. NoCall.at = "none"
    BY DEF NoCall
  <2>3. QED
    BY <2>1, <2>2 DEF Turns, UpdateShape, UpdateAwaits, WorkerCall
<1>4. ASSUME UNCHANGED <<call, workerVars>>
      PROVE  Turns'
  BY <1>4 DEF Turns, UpdateShape, WorkerCall, workerVars
<1>5. ASSUME NEW w \in Workers, DequeueLost(w) \/ Sleep(w)
      PROVE  UNCHANGED <<call, workerVars>>
  BY <1>5 DEF DequeueLost, Sleep, vars, managerVars
<1>6. ASSUME NEW r \in Requests, AgeRow(r) \/ AgeKey(r) \/ ExpireKey(r)
      PROVE  UNCHANGED <<call, workerVars>>
  BY <1>6 DEF AgeRow, AgeKey, ExpireKey
<1>7. CASE UNCHANGED vars
  BY <1>4, <1>7 DEF vars, managerVars
<1>8. QED
  BY <1>1, <1>2, <1>3, <1>4, <1>5, <1>6, <1>7, CommandTurns, WorkerTurns
  DEF Next, Environment

LEMMA InitTurns == Init => Turns
<1>1. NoCall.at = "none" /\ \A w \in Workers : w \in Procs
  BY DEF NoCall, Procs
<1>2. QED
  BY <1>1 DEF Init, ManagerInit, Turns, UpdateShape, UpdateAwaits, WorkerCall

\* The lookup of a taken request finds it, whatever fails, crashes, expires or
\* is called: its row is there, and getRequest falls back to the row.
THEOREM LookupAlwaysFinds == Spec => []LookupFinds
<1>1. TypeOK /\ Shape /\ TakenHasRow /\ Turns /\ [Next]_vars => Turns'
  BY NextTurns
<1>2. TypeOK /\ Shape /\ [Next]_vars => (TypeOK /\ Shape)'
  BY NextTyped
<1>3. Turns => LookupFinds
  BY DEF Turns, WorkerCall, LookupFinds
<1>4. QED
  BY InitTyped, InitTurns, TakenRequestsHaveRows, <1>1, <1>2, <1>3, PTL DEF Spec

-----------------------------------------------------------------------------
(* What a worker has closed stays closed.                                      *)

\* Without PUT, clients only cancel and the cron job only expires: the rows are
\* moved between the other statuses by workers alone.
OthersEnd == \A p \in Procs \ Workers :
               call[p].fn = "update" => call[p].to \in {"CANCELLED", "EXPIRED"}

Finished(r) == db[r] # NoRow /\ db[r].status \in {"COMPLETED", "FAILED"}

\* A finished request is nowhere to be taken, or still in the hands of the worker
\* that finishes it.
Settled(r) ==
  /\ db[r] # NoRow => r \in issued
  /\ Finished(r) =>
       /\ r \notin queue
       /\ \A p \in Procs : ~Creating(p, r)
       /\ \A w \in Workers : Holding(w, r) => stage[w] \in {"completing", "failing"}

\* The invariant of the whole system that the two theorems below extend.
SystemInv == TypeOK /\ Shape /\ Apart /\ TakenHasRow /\ Turns

SettledInv == OthersEnd /\ \A r \in Requests : Settled(r)

LEMMA OthersEndKept ==
  ASSUME TypeOK, Shape, Turns, OthersEnd, "put" \notin ClientOps, [Next]_vars
  PROVE  OthersEnd'
<1>1. ASSUME NEW p \in Procs, Command(p)
      PROVE  OthersEnd'
  <2>1. UpdateShape(p)
    BY DEF Turns
  <2>2. /\ \A q \in Procs \ {p} : call'[q] = call[q]
        /\ call'[p].fn = call[p].fn /\ call'[p].to = call[p].to
    BY <1>1, <2>1, CommandFrame, CommandArgs
  <2>3. QED
    BY <2>2 DEF OthersEnd
<1>2. ASSUME NEW p \in Procs, NEW f, call' = [call EXCEPT ![p] = f],
             p \in Workers \/ (f.fn = "update" => f.to \in {"CANCELLED", "EXPIRED"})
      PROVE  OthersEnd'
  <2>1. call'[p] = f /\ \A q \in Procs \ {p} : call'[q] = call[q]
    BY <1>2 DEF TypeOK, ManagerTypeOK
  <2>2. QED
    BY <1>2, <2>1 DEF OthersEnd
<1>3. ASSUME NEW c \in Clients, ClientStep(c)
      PROVE  OthersEnd'
  <2>1. c \in Procs
    BY DEF Procs
  <2>2. QED
    BY <1>2, <1>3, <2>1, ClientStarts
<1>4. CASE CronStep
  <2>1. Cron \in Procs
    BY DEF Procs
  <2>2. CASE call' = call
    BY <2>2 DEF OthersEnd
  <2>3. QED
    BY <1>2, <1>4, <2>1, <2>2, CronStarts
<1>5. ASSUME NEW w \in Workers, WorkerStep(w)
      PROVE  OthersEnd'
  <2>1. w \in Procs
    BY DEF Procs
  <2>2. \E f : call' = [call EXCEPT ![w] = f]
    BY <1>5, WorkerMoves
  <2>3. QED
    BY <1>2, <2>1, <2>2
<1>6. CASE Crash
  <2>1. NoCall.fn # "update" /\ \A p \in Procs : call'[p] = NoCall
    BY <1>6 DEF Crash, NoCall
  <2>2. QED
    BY <2>1 DEF OthersEnd
<1>7. CASE call' = call
  BY <1>7 DEF OthersEnd
<1>8. QED
  BY <1>1, <1>3, <1>4, <1>5, <1>6, <1>7
  DEF Next, Environment, DequeueLost, Sleep, AgeRow, AgeKey, ExpireKey, vars, managerVars

\* Which process writes which status.
LEMMA WhoWrites ==
  ASSUME SystemInv, OthersEnd, NEW p \in Procs,
         call[p].at \in {"writeRow", "writeMany"},
         call[p].to \notin {"CANCELLED", "EXPIRED"}
  PROVE  /\ p \in Workers /\ Holding(p, call[p].r)
         /\ \/ stage[p] = "starting" /\ call[p].to = "PROCESSING"
            \/ stage[p] = "completing" /\ call[p].to = "COMPLETED"
            \/ stage[p] = "failing" /\ call[p].to = "FAILED"
<1>1. call[p].fn = "update"
  BY DEF SystemInv, Turns, UpdateShape, UpdateAwaits
<1>2. p \in Workers
  BY <1>1 DEF OthersEnd
<1>3. WorkerCall(p) /\ NoCall.fn = "none"
  BY <1>2 DEF SystemInv, Turns, NoCall
<1>4. stage[p] \in Stages
  BY <1>2 DEF SystemInv, TypeOK
<1>5. QED
  BY <1>1, <1>2, <1>3, <1>4 DEF WorkerCall, Stages, Holding

\* A row is finished by the worker that holds its request.
LEMMA WhoFinishes ==
  ASSUME SystemInv, OthersEnd, NEW p \in Procs, Command(p), NEW r \in Requests,
         ~Finished(r), Finished(r)'
  PROVE  /\ p \in Workers /\ Holding(p, r) /\ stage[p] \in {"completing", "failing"}
         /\ queue' = queue
<1>0. TypeOK /\ Shape /\ UpdateShape(p)
  BY DEF SystemInv, Turns
<1>1. db'[r] # db[r] /\ db' \in [Requests -> Rows \cup {NoRow}]
  BY <1>0, CommandTyped DEF Finished, TypeOK, ManagerTypeOK
<1>2. r = call[p].r
  BY <1>0, <1>1, CommandRows
<1>3. CASE db'[r] = [status |-> "PENDING", result |-> "none", old |-> FALSE]
  BY <1>3 DEF Finished
<1>4. CASE db[r] # NoRow /\ db'[r] = [db[r] EXCEPT !.result = call[p].res]
  <2>1. db[r] \in Rows
    BY <1>0, <1>4 DEF TypeOK, ManagerTypeOK
  <2>2. db'[r].status = db[r].status
    BY <1>4, <2>1 DEF Rows
  <2>3. QED
    BY <1>4, <2>2 DEF Finished
<1>5. CASE /\ call[p].at \in {"writeRow", "writeMany"} /\ db[r] # NoRow
           /\ db'[r] = Restated(db[r], call[p].to)
  <2>1. db[r] \in Rows
    BY <1>0, <1>5 DEF TypeOK, ManagerTypeOK
  <2>2. db'[r].status = call[p].to
    BY <1>5, <2>1 DEF Rows, Restated
  <2>3. call[p].to \in {"COMPLETED", "FAILED"}
    BY <2>2 DEF Finished
  <2>4. QED
    BY <1>0, <1>2, <1>5, <2>3, WhoWrites, CommandFrame
<1>6. QED
  BY <1>0, <1>1, <1>3, <1>4, <1>5, CommandRows

LEMMA CommandSettled ==
  ASSUME SystemInv, SettledInv, NEW p \in Procs, Command(p), NEW r \in Requests
  PROVE  Settled(r)'
<1>0. TypeOK /\ Shape /\ Apart /\ UpdateShape(p) /\ OthersEnd /\ Settled(r)
  BY DEF SystemInv, SettledInv, Turns
<1>1. /\ issued' = issued /\ stage' = stage /\ job' = job
      /\ \A q \in Procs : Creating(q, r)' => Creating(q, r)
      /\ \/ queue' = queue
         \/ queue' = queue \cup {call[p].r} /\ Creating(p, call[p].r)
  BY <1>0, CommandFrame DEF Creating, workerVars
<1>2. ASSUME db[r] = NoRow, db'[r] # NoRow
      PROVE  r \in issued
  BY <1>0, <1>2, CommandRows DEF Apart
<1>3. CASE Finished(r)
  BY <1>0, <1>1, <1>2, <1>3 DEF Settled, Holding
<1>4. CASE ~Finished(r) /\ Finished(r)'
  <2>1. /\ p \in Workers /\ Holding(p, r) /\ stage[p] \in {"completing", "failing"}
        /\ queue' = queue
    BY <1>0, <1>4, WhoFinishes
  <2>2. QED
    BY <1>0, <1>1, <1>2, <2>1 DEF Apart, Settled, Holding
<1>5. CASE ~Finished(r)'
  BY <1>0, <1>1, <1>2, <1>5 DEF Settled
<1>6. QED
  BY <1>3, <1>4, <1>5

LEMMA WorkerSettled ==
  ASSUME SystemInv, NEW r \in Requests, Settled(r), NEW w \in Workers, WorkerStep(w)
  PROVE  Settled(r)'
<1>0. TypeOK /\ Shape /\ Turns
  BY DEF SystemInv
<1>1. UNCHANGED <<db, issued>> /\ w \in Procs
  BY <1>0, WorkerTyped DEF systemVars, Procs
<1>2. \A q \in Procs : Creating(q, r)' => Creating(q, r)
  <2>1. \E f : f.fn # "create" /\ call' = [call EXCEPT ![w] = f]
    BY FrameFunctions
    DEF WorkerStep, Dequeue, AfterLookup, AfterActivity, AfterStarting, ScrapeReturns,
        ScrapeThrows, AfterCompleting, AfterFailing, Failed, Release, Proceed
  <2>2. QED
    BY <1>0, <1>1, <2>1, StartCreatesNothing
<1>3. queue' \subseteq queue
  BY DEF WorkerStep, Dequeue, AfterLookup, AfterActivity, AfterStarting, ScrapeReturns,
     ScrapeThrows, AfterCompleting, AfterFailing, Release, Proceed
<1>4. ASSUME r \notin queue, NEW v \in Workers, Holding(v, r)',
             \A u \in Workers : Holding(u, r) => stage[u] \in {"completing", "failing"}
      PROVE  stage'[v] \in {"completing", "failing"}
  <2>1. PICK s \in Stages :
          /\ stage' = [stage EXCEPT ![w] = s]
          /\ \A u \in Workers \ {w} : job'[u] = job[u]
          /\ \/ s = "lookup" /\ job'[w] \in queue
             \/ s \in {"completing", "failing", "idle"}
             \/ /\ s \in {"activity", "starting", "scraping"} /\ job' = job
                /\ stage[w] \in {"lookup", "activity", "starting"}
    BY <1>0, WorkerMoves
  <2>2. stage'[w] = s /\ \A u \in Workers \ {w} : stage'[u] = stage[u]
    BY <1>0, <2>1 DEF TypeOK
  <2>3. CASE v # w
    BY <1>4, <2>1, <2>2, <2>3 DEF Holding
  <2>4. CASE v = w
    BY <1>4, <2>1, <2>2, <2>4 DEF Holding
  <2>5. QED
    BY <2>3, <2>4
<1>5. QED
  BY <1>1, <1>2, <1>3, <1>4 DEF Settled, Finished

LEMMA NextSettled ==
  ASSUME SystemInv, SettledInv, "put" \notin ClientOps, [Next]_vars
  PROVE  SettledInv'
<1>0. TypeOK /\ Shape /\ Apart /\ Turns /\ OthersEnd
  BY DEF SystemInv, SettledInv
<1>1. OthersEnd'
  BY <1>0, OthersEndKept
<1>2. SUFFICES ASSUME NEW r \in Requests
               PROVE  Settled(r)'
  BY <1>1 DEF SettledInv
<1>3. Settled(r)
  BY DEF SettledInv
<1>4. ASSUME NEW c \in Clients, ClientStep(c)
      PROVE  Settled(r)'
  <2>1. UNCHANGED <<db, queue, workerVars>> /\ c \in Procs
    BY <1>0, <1>4, ClientTyped DEF Procs
  <2>2. CASE Create(c)
    <3>1. PICK s \in Requests \ issued :
            issued' = issued \cup {s} /\ call' = [call EXCEPT ![c] = CreateCall(s)]
      BY <2>2 DEF Create
    <3>2. \A q \in Procs : Creating(q, r)' => Creating(q, r) \/ r = s
      BY <1>0, <2>1, <3>1 DEF Creating, CreateCall, NoCall, TypeOK, ManagerTypeOK
    <3>3. QED
      BY <1>3, <2>1, <3>1, <3>2 DEF Settled, Finished, Holding, workerVars
  <2>3. CASE ~Create(c)
    <3>1. \A q \in Procs : Creating(q, r)' => Creating(q, r)
      BY <1>0, <1>4, <2>1, <2>3, ClientStartsNoCreation, StartCreatesNothing
    <3>2. issued' = issued
      BY <1>4, <2>3 DEF ClientStep, Cancel, Touch, PutStatus, ListFromRedis, ListFromRows,
                Ask, Answer
    <3>3. QED
      BY <1>3, <2>1, <3>1, <3>2 DEF Settled, Finished, Holding, workerVars
  <2>4. QED
    BY <2>2, <2>3
<1>5. CASE CronStep
  <2>1. UNCHANGED <<db, queue, issued, workerVars>> /\ Cron \in Procs
    BY <1>0, <1>5, CronTyped DEF Procs
  <2>2. \/ call' = call
        \/ \E f : f.fn # "create" /\ call' = [call EXCEPT ![Cron] = f]
    BY <1>5, FrameFunctions DEF CronStep, CleanupStart, CleanupKey, CleanupNext, managerVars
  <2>3. \A q \in Procs : Creating(q, r)' => Creating(q, r)
    BY <1>0, <2>1, <2>2, StartCreatesNothing DEF Creating
  <2>4. QED
    BY <1>3, <2>1, <2>3 DEF Settled, Finished, Holding, workerVars
<1>6. ASSUME NEW s \in Requests, AgeRow(s) \/ AgeKey(s) \/ ExpireKey(s)
      PROVE  Settled(r)'
  <2>1. UNCHANGED <<call, queue, issued, workerVars>>
    BY <1>0, <1>6, TimeTyped
  <2>2. /\ db'[r] # NoRow => db[r] # NoRow
        /\ db[r] # NoRow => db'[r].status = db[r].status
    <3>1. CASE AgeRow(s)
      <4>1. db[s] \in Rows /\ db' = [db EXCEPT ![s] = [db[s] EXCEPT !.old = TRUE]]
            /\ db[s] # NoRow
        BY <1>0, <3>1 DEF AgeRow, TypeOK, ManagerTypeOK
      <4>2. [db[s] EXCEPT !.old = TRUE].status = db[s].status
        BY <4>1 DEF Rows
      <4>3. QED
        BY <1>0, <4>1, <4>2 DEF TypeOK, ManagerTypeOK
    <3>2. CASE AgeKey(s) \/ ExpireKey(s)
      BY <3>2 DEF AgeKey, ExpireKey
    <3>3. QED
      BY <1>6, <3>1, <3>2
  <2>3. Finished(r)' => Finished(r)
    BY <2>2 DEF Finished
  <2>4. QED
    BY <1>3, <2>1, <2>2, <2>3 DEF Settled, Holding, Creating, workerVars
<1>7. CASE Crash
  <2>1. /\ UNCHANGED <<db, queue, issued>> /\ \A p \in Procs : call'[p].at = "none"
        /\ \A w \in Workers : stage'[w] = "idle"
    BY <1>0, <1>7, CrashTyped
  <2>2. QED
    BY <1>3, <2>1 DEF Settled, Finished, Holding, Creating, Awaits
<1>8. ASSUME UNCHANGED <<db, call, issued, workerVars>>, queue' \subseteq queue
      PROVE  Settled(r)'
  BY <1>3, <1>8 DEF Settled, Finished, Holding, Creating, workerVars
<1>9. ASSUME NEW w \in Workers, DequeueLost(w)
      PROVE  Settled(r)'
  BY <1>0, <1>8, <1>9, LostTyped
<1>10. CASE UNCHANGED vars
  BY <1>8, <1>10 DEF vars, managerVars, systemVars
<1>11. QED
  BY <1>3, <1>4, <1>5, <1>6, <1>7, <1>9, <1>10, CommandSettled, WorkerSettled
  DEF Next, Environment, Sleep

\* SystemInv is an invariant; what follows cites it.
LEMMA SystemInvariant ==
  /\ Init => SystemInv
  /\ SystemInv /\ [Next]_vars /\ TakenHasRow' => SystemInv'
<1>1. Init => Apart /\ TakenHasRow
  BY DEF Init, ManagerInit, Apart, Creating, Holding, NoCall, Awaits, TakenHasRow, Held
<1>2. QED
  BY <1>1, InitTyped, InitTurns, NextTyped, NextApart, NextTurns DEF SystemInv

\* Unless clients set the status themselves, no row a worker has closed as
\* COMPLETED or FAILED is opened again, whatever fails, ages or crashes.
THEOREM ClosedRowsStayClosed ==
  "put" \notin ClientOps => (Spec => ClosedRowStaysClosed)
<1> SUFFICES ASSUME "put" \notin ClientOps
             PROVE  Spec => ClosedRowStaysClosed
  OBVIOUS
<1> DEFINE Kept == \A r \in Requests :
             db[r] # NoRow /\ db[r].status \in {"COMPLETED", "FAILED"}
               => db'[r].status \notin {"PENDING", "PROCESSING"}
<1>1. Init => SettledInv
  <2>1. NoCall.fn # "update"
    BY DEF NoCall
  <2>2. QED
    BY <2>1 DEF Init, ManagerInit, SettledInv, OthersEnd, Settled, Finished
<1>2. SystemInv /\ SettledInv /\ [Next]_vars => SettledInv'
  BY NextSettled
<1>3. ASSUME SystemInv, SettledInv, [Next]_vars, NEW r \in Requests, Finished(r),
             db'[r].status \in {"PENDING", "PROCESSING"}
      PROVE  FALSE
  <2>0. TypeOK /\ Shape /\ Turns /\ OthersEnd /\ Settled(r) /\ db[r] \in Rows
    BY <1>3 DEF SystemInv, SettledInv, TypeOK, ManagerTypeOK, Finished
  <2>1. db'[r] # db[r]
    BY <1>3 DEF Finished
  <2>2. ASSUME NEW p \in Procs, Command(p)
        PROVE  FALSE
    <3>0. UpdateShape(p)
      BY <2>0 DEF Turns
    <3>1. r = call[p].r
      BY <2>0, <2>1, <2>2, <3>0, CommandRows
    <3>2. ~Creating(p, r)
      BY <1>3, <2>0 DEF Settled
    <3>3. CASE db'[r] = [db[r] EXCEPT !.result = call[p].res]
      BY <1>3, <2>0, <3>3 DEF Finished, Rows
    <3>4. CASE /\ call[p].at \in {"writeRow", "writeMany"}
               /\ db'[r] = Restated(db[r], call[p].to)
      <4>1. call[p].to \in {"PENDING", "PROCESSING"}
        BY <1>3, <2>0, <3>4 DEF Restated, Rows
      <4>2. p \in Workers /\ Holding(p, r) /\ stage[p] = "starting"
        BY <1>3, <2>0, <3>1, <3>4, <4>1, WhoWrites
      <4>3. QED
        BY <1>3, <2>0, <4>2 DEF Settled
    <3>5. QED
      BY <2>0, <2>1, <2>2, <3>0, <3>2, <3>3, <3>4, CommandRows
  <2>3. ASSUME NEW s \in Requests, AgeRow(s)
        PROVE  FALSE
    <3>1. db' = [db EXCEPT ![s] = [db[s] EXCEPT !.old = TRUE]]
      BY <2>3 DEF AgeRow
    <3>2. s = r /\ db'[r] = [db[r] EXCEPT !.old = TRUE]
      BY <2>0, <2>1, <3>1 DEF TypeOK, ManagerTypeOK
    <3>3. QED
      BY <1>3, <2>0, <3>2 DEF Finished, Rows
  <2>4. CASE db' = db
    BY <2>1, <2>4
  <2>5. QED
    BY <1>3, <2>0, <2>2, <2>3, <2>4, ClientTyped, WorkerTyped, CronTyped, LostTyped
    DEF Next, Environment, Sleep, AgeKey, ExpireKey, Crash, vars, managerVars
<1>4. SystemInv /\ SettledInv /\ [Next]_vars => [Kept]_vars
  BY <1>3 DEF Finished
<1>5. Spec => [][Kept]_vars
  BY SystemInvariant, TakenRequestsHaveRows, <1>1, <1>2, <1>4, PTL DEF Spec
<1>6. QED
  BY <1>5 DEF ClosedRowStaysClosed

-----------------------------------------------------------------------------
(* A completed row carries the scraper's result.                               *)

\* The awaits of updateRequestStatus behind its findUnique.
Writing == {"writeResult", "writeRow", "setMeta1", "setMeta2", "writeMany", "logActivity"}

\* Nobody but the workers sends a result.
OnlyWorkersSend ==
  /\ todo = {}
  /\ \A p \in Procs \ Workers : call[p].fn = "update" => call[p].res = "none"

\* The updates of a worker find the row, so they do not throw, and the update to
\* COMPLETED has stored its result when it goes on to the status.
UpdateFinds(w) ==
  /\ call[w].at # "threw"
  /\ call[w].at \in Writing => call[w].row
  /\ stage[w] = "completing" /\ call[w].at \in Writing \ {"writeResult"}
       => db[job[w]].result = "scrape"

Completed(r) ==
  db[r] # NoRow /\ db[r].status = "COMPLETED" =>
    /\ db[r].result = "scrape"
    /\ \A w \in Workers : Holding(w, r) => stage[w] = "completing"

ResultInv ==
  /\ OnlyWorkersSend
  /\ \A w \in Workers : UpdateFinds(w)
  /\ \A r \in Requests : Completed(r)

\* Where updateRequestStatus goes on behind its findUnique.
LEMMA CommandWrites ==
  ASSUME TypeOK, Shape, NEW p \in Procs, Command(p), UpdateShape(p), ~Fail(p)
  PROVE  /\ call'[p].at = "threw" => call[p].at = "logActivity" /\ ~call[p].row
         /\ call'[p].at \in Writing =>
              \/ /\ call[p].at = "findForUpdate" /\ call[p].fn = "update"
                 /\ db[call[p].r] # NoRow =>
                      call'[p].row /\ (call[p].res # "none" => call'[p].at = "writeResult")
              \/ /\ call[p].at \in Writing /\ call'[p].row = call[p].row
                 /\ call[p].at = "writeResult" => db'[call[p].r].result = call[p].res
<1>t. ManagerTypeOK /\ call[p] \in Frames /\ CallShape(p)
  BY DEF TypeOK, ManagerTypeOK, Shape
<1>g. ASSUME NEW at \in Awaits \cup Ends, Goto(p, at)
      PROVE  call'[p].at = at /\ call'[p].row = call[p].row
  BY <1>t, <1>g, GotoMoves
<1>1. CASE StoreMetadata(p) \/ InsertRow(p) \/ Enqueue(p) \/ TouchMetadata(p)
  <2>1. \E at \in {"insertRow", "enqueue", "returned"} : Goto(p, at)
    BY <1>1 DEF StoreMetadata, InsertRow, Enqueue, TouchMetadata
  <2>2. QED
    BY <1>g, <2>1 DEF Writing, Awaits, Ends
<1>2. CASE WriteResult(p)
  <2>1. /\ Goto(p, "writeRow") /\ call[p].at = "writeResult"
        /\ db' = [db EXCEPT ![call[p].r].result = call[p].res]
    BY <1>2 DEF WriteResult
  <2>2. call[p].r \in Requests /\ db[call[p].r] \in Rows
    BY <1>t, <2>1 DEF CallShape, ManagerTypeOK
  <2>3. db'[call[p].r] = [db[call[p].r] EXCEPT !.result = call[p].res]
    BY <1>t, <2>1, <2>2 DEF ManagerTypeOK
  <2>4. db'[call[p].r].result = call[p].res
    BY <2>2, <2>3 DEF Rows
  <2>5. QED
    BY <1>g, <2>1, <2>4 DEF Writing, Awaits
<1>3. CASE WriteRow(p) \/ SetMetadata(p) \/ WriteMany(p) \/ LogActivity(p)
  <2>1. /\ call[p].at \in Writing \ {"writeResult"}
        /\ \E at \in {"setMeta1", "setMeta2", "writeMany", "logActivity", "returned",
                      "threw"} :
             /\ Goto(p, at)
             /\ at = "threw" => call[p].at = "logActivity" /\ ~call[p].row
    BY <1>3 DEF WriteRow, SetMetadata, WriteMany, LogActivity, Writing
  <2>2. QED
    BY <1>g, <2>1 DEF Writing, Awaits, Ends
<1>4. CASE GetMetadata(p) \/ FillCache(p)
  <2>1. call[p].fn \in {"get", "activity", "update"} /\ call[p].copy \in Metadata
        /\ call[p].r \in Requests
    BY <1>t, <1>4 DEF GetMetadata, FillCache, CallShape, Frames
  <2>2. CASE Goto(p, "findRow")
    BY <1>g, <2>2 DEF Writing, Awaits
  <2>3. ASSUME NEW meta \in Metadata, Resume(p, meta)
        PROVE  call'[p].at \in {"returned", "touch", "findForUpdate"}
    BY <1>t, <2>1, <2>3, ResumeMoves
  <2>4. Goto(p, "findRow") \/ \E meta \in Metadata : Resume(p, meta)
    BY <1>4, <1>t, <2>1 DEF GetMetadata, FillCache, ManagerTypeOK
  <2>5. QED
    BY <2>2, <2>3, <2>4 DEF Writing
<1>5. CASE FindRow(p)
  <2>1. call'[p].at \in {"null", "fill"}
    BY <1>5, <1>t DEF FindRow, ManagerTypeOK, Frames
  <2>2. QED
    BY <2>1 DEF Writing
<1>6. CASE FindForUpdate(p)
  <2>1. PICK found \in BOOLEAN, at \in {"writeResult", "writeRow", "setMeta1"} :
          /\ call' = [call EXCEPT ![p] = [call[p] EXCEPT !.row = found, !.at = at]]
          /\ db[call[p].r] # NoRow => found /\ (call[p].res # "none" => at = "writeResult")
    BY <1>6 DEF FindForUpdate
  <2>2. call'[p].row = found /\ call'[p].at = at
    BY <1>t, <2>1 DEF ManagerTypeOK, Frames
  <2>3. call[p].at = "findForUpdate" /\ call[p].fn = "update"
    BY <1>6 DEF FindForUpdate, UpdateShape, UpdateAwaits
  <2>4. QED
    BY <2>1, <2>2, <2>3
<1>7. QED
  BY <1>1, <1>2, <1>3, <1>4, <1>5, <1>6 DEF Command, CallStep

LEMMA CommandResult ==
  ASSUME SystemInv, SettledInv, ResultInv, MaxFaults = 0, NEW p \in Procs, Command(p)
  PROVE  ResultInv'
<1>0. TypeOK /\ Shape /\ Apart /\ TakenHasRow /\ Turns /\ OthersEnd /\ UpdateShape(p)
  BY DEF SystemInv, SettledInv, Turns
<1>1. ~Fail(p)
  BY <1>0 DEF Fail, TypeOK, ManagerTypeOK
<1>2. /\ \A q \in Procs \ {p} : call'[q] = call[q]
      /\ call'[p].fn = call[p].fn /\ call'[p].r = call[p].r
      /\ call'[p].to = call[p].to /\ call'[p].res = call[p].res
      /\ stage' = stage /\ job' = job /\ todo' = todo
  BY <1>0, CommandFrame, CommandArgs DEF Command, workerVars, systemVars
<1>3. OnlyWorkersSend'
  BY <1>2 DEF ResultInv, OnlyWorkersSend
\* The worker whose call it is.
<1>4. ASSUME p \in Workers, call[p].fn = "update"
      PROVE  /\ Holding(p, job[p]) /\ job[p] \in Requests /\ call[p].r = job[p]
             /\ db[job[p]] # NoRow
             /\ \/ stage[p] = "starting" /\ call[p].res = "none"
                \/ stage[p] = "completing" /\ call[p].res = "scrape"
                \/ stage[p] = "failing" /\ call[p].res = "error"
  <2>1. WorkerCall(p) /\ NoCall.fn = "none" /\ stage[p] \in Stages /\ JobShape(p)
    BY <1>0, <1>4 DEF Turns, NoCall, TypeOK, Shape
  <2>2. stage[p] \in {"starting", "completing", "failing"}
    BY <1>4, <2>1 DEF WorkerCall, Stages
  <2>3. Held(job[p])
    BY <1>4, <2>2 DEF Held
  <2>4. QED
    BY <1>0, <2>1, <2>2, <2>3 DEF WorkerCall, Holding, JobShape, TakenHasRow
\* Nobody else touches the result of a request that is held.
<1>5. ASSUME NEW w \in Workers, w # p, Holding(w, job[w]), job[w] \in Requests
      PROVE  /\ db'[job[w]] # NoRow
             /\ db'[job[w]].result = db[job[w]].result
  <2>1. db[job[w]] # NoRow /\ db[job[w]] \in Rows
    BY <1>0, <1>5 DEF TakenHasRow, Held, Holding, TypeOK, ManagerTypeOK
  <2>2. ASSUME db'[job[w]] # db[job[w]]
        PROVE  job[w] = call[p].r /\ call[p].at \in {"writeRow", "writeMany"}
               /\ db'[job[w]] = Restated(db[job[w]], call[p].to)
    <3>1. CASE Creating(p, job[w])
      BY <1>0, <1>5, <3>1 DEF Apart
    <3>2. CASE call[p].fn = "update" /\ call[p].at = "writeResult" /\ call[p].r = job[w]
      <4>1. call[p].res # "none"
        BY <1>0, <3>2 DEF UpdateShape
      <4>2. p \in Workers
        BY <3>2, <4>1 DEF ResultInv, OnlyWorkersSend
      <4>3. Holding(p, job[w])
        BY <1>4, <3>2, <4>2
      <4>4. QED
        BY <1>0, <1>5, <4>2, <4>3 DEF Apart
    <3>3. QED
      BY <1>0, <1>5, <2>2, <3>1, <3>2, CommandRows
  <2>3. CASE db'[job[w]] = db[job[w]]
    BY <2>1, <2>3
  <2>4. CASE db'[job[w]] = Restated(db[job[w]], call[p].to)
    <3>1. db'[job[w]].result = db[job[w]].result
      BY <2>1, <2>4 DEF Restated, Rows
    <3>2. db'[job[w]] # NoRow
      BY <1>0, <1>5, <2>1, CommandTyped DEF CommandKeeps, RowsStay
    <3>3. QED
      BY <3>1, <3>2
  <2>5. QED
    BY <2>2, <2>3, <2>4
<1>6. ASSUME NEW w \in Workers
      PROVE  UpdateFinds(w)'
  <2>0. w \in Procs /\ UpdateFinds(w) /\ WorkerCall(w) /\ JobShape(w)
    BY <1>0 DEF Procs, ResultInv, Turns, Shape
  <2>1. CASE w # p
    <3>1. UpdateFinds(w) /\ call'[w] = call[w]
      BY <1>2, <2>0, <2>1
    <3>2. stage[w] = "completing" => db'[job[w]].result = db[job[w]].result
      BY <1>5, <2>0, <2>1 DEF Holding, JobShape
    <3>3. QED
      BY <1>2, <3>1, <3>2 DEF UpdateFinds
  <2>2. CASE w = p
    <3>1. /\ call'[p].at = "threw" => call[p].at = "logActivity" /\ ~call[p].row
          /\ call'[p].at \in Writing =>
               \/ /\ call[p].at = "findForUpdate" /\ call[p].fn = "update"
                  /\ db[call[p].r] # NoRow =>
                       call'[p].row /\ (call[p].res # "none" => call'[p].at = "writeResult")
               \/ /\ call[p].at \in Writing /\ call'[p].row = call[p].row
                  /\ call[p].at = "writeResult" => db'[call[p].r].result = call[p].res
      BY <1>0, <1>1, CommandWrites
    <3>2. call'[p].at # "threw"
      BY <2>0, <2>2, <3>1 DEF UpdateFinds, Writing
    <3>3. ASSUME call'[p].at \in Writing
          PROVE  call'[p].row
      BY <1>4, <2>0, <2>2, <3>1, <3>3 DEF UpdateFinds
    <3>4. ASSUME stage[p] = "completing", call'[p].at \in Writing \ {"writeResult"}
          PROVE  db'[job[p]].result = "scrape"
      <4>1. call[p].fn = "update" /\ call[p].res = "scrape" /\ call[p].r = job[p]
            /\ db[job[p]] # NoRow /\ job[p] \in Requests
        BY <1>4, <2>0, <2>2, <3>4 DEF WorkerCall
      <4>2. CASE call[p].at = "writeResult"
        BY <3>1, <3>4, <4>1, <4>2
      <4>3. CASE call[p].at \in Writing \ {"writeResult"}
        <5>1. db[job[p]].result = "scrape" /\ db[job[p]] \in Rows
          BY <1>0, <2>0, <2>2, <3>4, <4>1, <4>3 DEF UpdateFinds, TypeOK, ManagerTypeOK
        <5>2. CASE db'[job[p]] = db[job[p]]
          BY <5>1, <5>2
        <5>3. CASE db'[job[p]] = Restated(db[job[p]], call[p].to)
          BY <5>1, <5>3 DEF Restated, Rows
        <5>4. ~Creating(p, job[p])
          BY <4>1 DEF Creating
        <5>5. QED
          BY <1>0, <4>1, <4>3, <5>2, <5>3, <5>4, CommandRows
      <4>4. QED
        BY <3>1, <3>4, <4>1, <4>2, <4>3
    <3>5. QED
      BY <1>2, <2>2, <3>2, <3>3, <3>4 DEF UpdateFinds
  <2>3. QED
    BY <2>1, <2>2
<1>7. ASSUME NEW r \in Requests
      PROVE  Completed(r)'
  <2>0. Completed(r) /\ \A w \in Workers : Holding(w, r)' <=> Holding(w, r)
    BY <1>2 DEF ResultInv, Holding
  <2>1. CASE db'[r] = db[r]
    BY <1>2, <2>0, <2>1 DEF Completed
  <2>2. CASE db'[r] = [status |-> "PENDING", result |-> "none", old |-> FALSE]
    BY <2>2 DEF Completed
  <2>3. CASE /\ r = call[p].r /\ call[p].fn = "update" /\ call[p].at = "writeResult"
             /\ db[r] # NoRow /\ db'[r] = [db[r] EXCEPT !.result = call[p].res]
    <3>1. db[r] \in Rows
      BY <1>0, <2>3 DEF TypeOK, ManagerTypeOK
    <3>2. db'[r].status = db[r].status /\ db'[r].result = call[p].res
      BY <2>3, <3>1 DEF Rows
    <3>3. p \in Workers /\ call[p].res # "none"
      BY <1>0, <2>3 DEF UpdateShape, ResultInv, OnlyWorkersSend
    <3>4. /\ Holding(p, r)
          /\ \/ stage[p] = "completing" /\ call[p].res = "scrape"
             \/ stage[p] = "failing"
      BY <1>4, <2>3, <3>3
    <3>5. QED
      BY <1>2, <2>0, <2>3, <3>2, <3>3, <3>4 DEF Completed
  <2>4. CASE /\ r = call[p].r /\ call[p].fn = "update"
             /\ call[p].at \in {"writeRow", "writeMany"}
             /\ db[r] # NoRow /\ db'[r] = Restated(db[r], call[p].to)
    <3>1. db[r] \in Rows
      BY <1>0, <2>4 DEF TypeOK, ManagerTypeOK
    <3>2. db'[r].status = call[p].to /\ db'[r].result = db[r].result
      BY <2>4, <3>1 DEF Rows, Restated
    <3>3. CASE call[p].to # "COMPLETED"
      BY <3>2, <3>3 DEF Completed
    <3>4. CASE call[p].to = "COMPLETED"
      <4>1. p \in Workers /\ Holding(p, r) /\ stage[p] = "completing"
        BY <1>0, <2>4, <3>4, WhoWrites
      <4>2. db[r].result = "scrape"
        <5>1. UpdateFinds(p) /\ job[p] = r
          BY <4>1 DEF ResultInv, Holding
        <5>2. QED
          BY <2>4, <4>1, <5>1 DEF UpdateFinds, Writing
      <4>3. \A w \in Workers : Holding(w, r) => w = p
        BY <1>0, <4>1 DEF Apart
      <4>4. QED
        BY <1>2, <2>0, <3>2, <4>1, <4>2, <4>3 DEF Completed
    <3>5. QED
      BY <3>3, <3>4
  <2>5. QED
    BY <1>0, <2>1, <2>2, <2>3, <2>4, CommandRows
<1>8. QED
  BY <1>3, <1>6, <1>7 DEF ResultInv

LEMMA WorkerResult ==
  ASSUME SystemInv, SettledInv, ResultInv, NEW w \in Workers, WorkerStep(w)
  PROVE  ResultInv'
<1>0. TypeOK /\ Shape /\ Turns /\ w \in Procs
  BY DEF SystemInv, Procs
<1>1. UNCHANGED <<db, todo>>
  BY <1>0, WorkerTyped DEF systemVars
<1>2. PICK s, f :
        /\ s \in Stages /\ stage' = [stage EXCEPT ![w] = s] /\ call' = [call EXCEPT ![w] = f]
        /\ \A v \in Workers \ {w} : job'[v] = job[v]
        /\ \/ s = "lookup" /\ job'[w] \in queue /\ f = GetCall(job'[w])
           \/ s = "activity" /\ job' = job /\ stage[w] = "lookup"
              /\ f = ActivityCall(job[w])
           \/ s = "starting" /\ job' = job /\ stage[w] = "activity"
              /\ f = UpdateCall(job[w], "PROCESSING", "none")
           \/ s = "scraping" /\ job' = job /\ stage[w] \in {"activity", "starting"}
              /\ f = NoCall
           \/ s = "completing" /\ job' = job /\ f = UpdateCall(job[w], "COMPLETED", "scrape")
           \/ s = "failing" /\ job' = job /\ f = UpdateCall(job[w], "FAILED", "error")
              /\ \/ stage[w] = "scraping"
                 \/ stage[w] \in {"lookup", "starting", "completing"} /\ call[w].at = "threw"
           \/ s = "idle" /\ f = NoCall
  BY <1>0, WorkerMoves
<1>3. /\ stage'[w] = s /\ call'[w] = f
      /\ \A v \in Workers \ {w} : stage'[v] = stage[v]
      /\ \A q \in Procs \ {w} : call'[q] = call[q]
  BY <1>0, <1>2 DEF TypeOK, ManagerTypeOK
<1>4. call[w].at # "threw"
  BY DEF ResultInv, UpdateFinds
<1>5. OnlyWorkersSend'
  BY <1>1, <1>3 DEF ResultInv, OnlyWorkersSend
<1>6. f.at \in {"getMeta", "none"}
  BY <1>2, WorkerFrames
<1>7. ASSUME NEW v \in Workers
      PROVE  UpdateFinds(v)'
  <2>1. CASE v = w
    BY <1>3, <1>6, <2>1 DEF UpdateFinds, Writing
  <2>2. CASE v # w
    <3>1. v \in Procs /\ UpdateFinds(v)
      BY DEF Procs, ResultInv
    <3>2. call'[v] = call[v] /\ stage'[v] = stage[v] /\ job'[v] = job[v]
      BY <1>2, <1>3, <2>2, <3>1
    <3>3. QED
      BY <1>1, <3>1, <3>2 DEF UpdateFinds
  <2>3. QED
    BY <2>1, <2>2
<1>8. ASSUME NEW r \in Requests
      PROVE  Completed(r)'
  <2>0. Completed(r) /\ Settled(r)
    BY DEF ResultInv, SettledInv
  <2>1. SUFFICES ASSUME db[r] # NoRow, db[r].status = "COMPLETED",
                        NEW v \in Workers, Holding(v, r)'
                 PROVE  stage'[v] = "completing"
    BY <1>1, <2>0 DEF Completed
  <2>2. CASE v # w
    BY <1>2, <1>3, <2>0, <2>1, <2>2 DEF Completed, Holding
  <2>3. CASE v = w
    <3>1. r \notin queue /\ (Holding(w, r) => stage[w] = "completing")
      BY <2>0, <2>1 DEF Completed, Settled, Finished
    <3>2. s # "idle" /\ job'[w] = r
      BY <1>3, <2>1, <2>3 DEF Holding
    <3>3. s = "lookup" \/ s = "completing" \/ (job[w] = r /\ stage[w] # "completing")
      BY <1>2, <1>4, <3>2
    <3>4. ASSUME s # "completing", s # "lookup"
          PROVE  FALSE
      <4>1. job[w] = r /\ stage[w] \notin {"completing", "idle"}
        BY <1>2, <1>4, <3>2, <3>4
      <4>2. QED
        BY <3>1, <4>1 DEF Holding
    <3>5. s # "lookup"
      BY <1>2, <3>1, <3>2
    <3>6. QED
      BY <1>3, <2>3, <3>4, <3>5
  <2>4. QED
    BY <2>2, <2>3
<1>9. QED
  BY <1>5, <1>7, <1>8 DEF ResultInv

LEMMA NextResult ==
  ASSUME SystemInv, SettledInv, ResultInv, [Next]_vars,
         MaxFaults = 0, ~Ageing, "put" \notin ClientOps
  PROVE  ResultInv'
<1>0. TypeOK /\ Shape /\ (\A w \in Workers : w \in Procs)
  BY DEF SystemInv, Procs
\* Steps that leave the workers and the rows alone.
<1>1. ASSUME UNCHANGED <<db, workerVars>>, OnlyWorkersSend',
             \A w \in Workers : call'[w] = call[w]
      PROVE  ResultInv'
  BY <1>1 DEF ResultInv, UpdateFinds, Completed, Holding, workerVars
<1>2. ASSUME NEW p \in Procs \ Workers, NEW f, call' = [call EXCEPT ![p] = f],
             f.fn = "update" => f.res = "none", UNCHANGED <<db, workerVars>>, todo' = {}
      PROVE  ResultInv'
  <2>1. call'[p] = f /\ \A q \in Procs \ {p} : call'[q] = call[q]
    BY <1>0, <1>2 DEF TypeOK, ManagerTypeOK
  <2>2. OnlyWorkersSend'
    BY <1>2, <2>1 DEF ResultInv, OnlyWorkersSend
  <2>3. QED
    BY <1>0, <1>1, <1>2, <2>1, <2>2
<1>3. ASSUME NEW c \in Clients, ClientStep(c)
      PROVE  ResultInv'
  <2>1. c \in Procs \ Workers /\ UNCHANGED <<db, workerVars>>
    BY <1>0, <1>3, ClientTyped, ProcsAssumption DEF Procs
  <2>2. todo' = {}
    BY <1>3 DEF ClientStep, Create, Cancel, Touch, PutStatus, ListFromRedis, ListFromRows,
       Ask, Answer, ResultInv, OnlyWorkersSend
  <2>3. QED
    BY <1>0, <1>2, <1>3, <2>1, <2>2, ClientStarts
<1>4. CASE CronStep
  <2>1. Cron \in Procs \ Workers /\ UNCHANGED <<db, workerVars>>
    BY <1>0, <1>4, CronTyped, ProcsAssumption DEF Procs
  <2>2. todo = {} /\ todo' = {}
    BY <1>4 DEF CronStep, CleanupStart, CleanupKey, CleanupNext, systemVars, ResultInv,
       OnlyWorkersSend
  <2>3. CASE call' = call
    <3>1. OnlyWorkersSend'
      BY <2>2, <2>3 DEF ResultInv, OnlyWorkersSend
    <3>2. QED
      BY <1>1, <2>1, <2>3, <3>1
  <2>4. QED
    BY <1>0, <1>2, <1>4, <2>1, <2>2, <2>3, CronStarts
<1>5. CASE Crash
  <2>1. /\ UNCHANGED db /\ todo' = {} /\ \A p \in Procs : call'[p] = NoCall
        /\ \A w \in Workers : stage'[w] = "idle"
    BY <1>5 DEF Crash
  <2>2. NoCall.at = "none" /\ NoCall.fn = "none"
    BY DEF NoCall
  <2>3. QED
    BY <1>0, <2>1, <2>2
    DEF ResultInv, OnlyWorkersSend, UpdateFinds, Writing, Completed, Holding
<1>6. ASSUME UNCHANGED <<db, call, workerVars, todo>>
      PROVE  ResultInv'
  BY <1>1, <1>6 DEF ResultInv, OnlyWorkersSend
<1>7. ASSUME NEW r \in Requests, AgeKey(r) \/ ExpireKey(r)
      PROVE  ResultInv'
  BY <1>6, <1>7 DEF AgeKey, ExpireKey, systemVars
<1>8. ASSUME NEW r \in Requests, AgeRow(r)
      PROVE  FALSE
  BY <1>8 DEF AgeRow, DayMayPass
<1>9. ASSUME NEW w \in Workers, DequeueLost(w)
      PROVE  ResultInv'
  BY <1>6, <1>9 DEF DequeueLost, systemVars
<1>10. CASE UNCHANGED vars
  BY <1>6, <1>10 DEF vars, managerVars, systemVars
<1>11. QED
  BY <1>3, <1>4, <1>5, <1>7, <1>8, <1>9, <1>10, CommandResult, WorkerResult
  DEF Next, Environment, Sleep

\* While no command fails, no day passes and no client sets the status itself,
\* a row is COMPLETED only with the scraper's result in it, whatever clients
\* cancel, touch or list meanwhile and wherever the process crashes.
THEOREM CompletedCarryResults ==
  MaxFaults = 0 /\ ~Ageing /\ "put" \notin ClientOps => (Spec => []CompletedHasResult)
<1> SUFFICES ASSUME MaxFaults = 0, ~Ageing, "put" \notin ClientOps
             PROVE  Spec => []CompletedHasResult
  OBVIOUS
<1>1. Init => SettledInv /\ ResultInv
  <2>1. NoCall.fn = "none" /\ NoCall.at = "none" /\ \A w \in Workers : w \in Procs
    BY DEF NoCall, Procs
  <2>2. QED
    BY <2>1 DEF Init, ManagerInit, SettledInv, OthersEnd, Settled, Finished, ResultInv,
       OnlyWorkersSend, UpdateFinds, Writing, Completed
<1>2. SystemInv /\ SettledInv /\ [Next]_vars => SettledInv'
  BY NextSettled
<1>3. SystemInv /\ SettledInv /\ ResultInv /\ [Next]_vars => ResultInv'
  BY NextResult
<1>4. ResultInv => CompletedHasResult
  BY DEF ResultInv, Completed, CompletedHasResult
<1>5. QED
  BY SystemInvariant, TakenRequestsHaveRows, <1>1, <1>2, <1>3, <1>4, PTL DEF Spec
=============================================================================
