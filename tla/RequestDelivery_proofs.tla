----------------------- MODULE RequestDelivery_proofs -----------------------
(***************************************************************************)
(* RequestSystem implements TaskDelivery: every step of the system is a    *)
(* step of at-most-once delivery or leaves it alone.                       *)
(***************************************************************************)
EXTENDS RequestDelivery, RequestSystem_proofs

\* What the mapping reads of a state: who creates and who holds what.
Unmoved ==
  /\ \A p \in Procs, r \in Requests : Creating(p, r)' <=> Creating(p, r)
  /\ \A w \in Workers, r \in Requests : Holding(w, r)' <=> Holding(w, r)

PhaseMap == [r \in Requests |-> PhaseOf(r)]
HolderMap == [r \in Requests |-> HolderOf(r)]

LEMMA HolderUnmoved ==
  ASSUME NEW r \in Requests,
         \A w \in Workers : Holding(w, r)' <=> Holding(w, r)
  PROVE  HolderOf(r)' = HolderOf(r) /\ (Held(r)' <=> Held(r))
<1>1. Held(r) <=> \E w \in Workers : Holding(w, r)
  BY DEF Held, Holding
<1>2. Held(r)' <=> \E w \in Workers : Holding(w, r)'
  BY DEF Held, Holding
<1> QED BY <1>1, <1>2 DEF HolderOf

\* Where creations, holdings, the queue and the used ids are as before, the
\* abstract state is as before.
LEMMA UnmovedStutters ==
  ASSUME Unmoved, UNCHANGED <<queue, issued>>
  PROVE  UNCHANGED <<PhaseMap, HolderMap>>
<1>1. ASSUME NEW r \in Requests
      PROVE  PhaseOf(r)' = PhaseOf(r) /\ HolderOf(r)' = HolderOf(r)
  <2>1. HolderOf(r)' = HolderOf(r) /\ (Held(r)' <=> Held(r))
    BY HolderUnmoved DEF Unmoved
  <2>2. (\E p \in Procs : Creating(p, r)') <=> (\E p \in Procs : Creating(p, r))
    BY DEF Unmoved
  <2> QED BY <2>1, <2>2 DEF PhaseOf
<1> QED BY <1>1 DEF PhaseMap, HolderMap
Others(r) ==
  \A s \in Requests \ {r} : PhaseOf(s)' = PhaseOf(s) /\ HolderOf(s)' = HolderOf(s)

LEMMA SubmitStep ==
  ASSUME NEW r \in Requests, Others(r),
         PhaseOf(r) = "new", PhaseOf(r)' = "queued", HolderOf(r)' = HolderOf(r)
  PROVE  Delivery!Submit(r)
<1>1. PhaseMap' = [PhaseMap EXCEPT ![r] = "queued"]
  BY DEF Others, PhaseMap
<1>2. HolderMap' = HolderMap
  BY DEF Others, HolderMap
<1> QED BY <1>1, <1>2 DEF Delivery!Submit, PhaseMap, HolderMap

LEMMA LeaveStep ==
  ASSUME NEW r \in Requests, Others(r),
         PhaseOf(r) # "gone", PhaseOf(r)' = "gone", HolderOf(r)' = NoRequest
  PROVE  Delivery!Leave(r)
<1>1. PhaseMap' = [PhaseMap EXCEPT ![r] = "gone"]
  BY DEF Others, PhaseMap
<1>2. HolderMap' = [HolderMap EXCEPT ![r] = NoRequest]
  BY DEF Others, HolderMap
<1> QED BY <1>1, <1>2 DEF Delivery!Leave, PhaseMap, HolderMap

LEMMA TakeStep ==
  ASSUME NEW r \in Requests, NEW w \in Workers, Others(r),
         PhaseOf(r) = "queued", PhaseOf(r)' = "taken", HolderOf(r)' = w,
         \A s \in Requests : HolderOf(s) # w
  PROVE  Delivery!Take(r, w)
<1>1. PhaseMap' = [PhaseMap EXCEPT ![r] = "taken"]
  BY DEF Others, PhaseMap
<1>2. HolderMap' = [HolderMap EXCEPT ![r] = w]
  BY DEF Others, HolderMap
<1> QED BY <1>1, <1>2 DEF Delivery!Take, PhaseMap, HolderMap

\* The abstract next step, or none.
Delivers == Delivery!TaskNext \/ UNCHANGED <<PhaseMap, HolderMap>>

LEMMA HeldHolding == \A r : Held(r) <=> \E w \in Workers : Holding(w, r)
BY DEF Held, Holding

LEMMA CommandDelivers ==
  ASSUME TypeOK, Shape, Apart, NEW p \in Procs, Command(p)
  PROVE  Delivers
<1>1. \A w \in Workers, r \in Requests : Holding(w, r)' <=> Holding(w, r)
  BY CommandFrame DEF Holding, workerVars
<1>2. issued' = issued
  BY CommandFrame
<1>3. \A q \in Procs \ {p}, r \in Requests : Creating(q, r)' <=> Creating(q, r)
  BY CommandFrame DEF Creating
<1>4. \A r \in Requests : Creating(p, r)' => Creating(p, r)
  BY CommandFrame DEF Creating
<1>5. CASE queue' = queue /\ \A r \in Requests : Creating(p, r)' <=> Creating(p, r)
  <2>1. Unmoved
    BY <1>1, <1>3, <1>5 DEF Unmoved
  <2> QED BY <1>2, <1>5, <2>1, UnmovedStutters DEF Delivers
<1>6. ASSUME NEW r \in Requests, Creating(p, r), ~Creating(p, r)',
             queue' = queue \/ queue' = queue \cup {r}
      PROVE  Delivers
  <2>1. PhaseOf(r) = "new"
    BY <1>6, HeldHolding DEF PhaseOf, Apart
  <2>2. ~Held(r) /\ r \in issued /\ \A q \in Procs : ~Creating(q, r)'
    BY <1>3, <1>6, HeldHolding DEF Apart
  <2>3. HolderOf(r)' = HolderOf(r) /\ ~Held(r)' /\ HolderOf(r) = NoRequest
    BY <1>1, <2>2, HolderUnmoved DEF HolderOf
  <2>4. ASSUME NEW s \in Requests \ {r}
        PROVE  PhaseOf(s)' = PhaseOf(s) /\ HolderOf(s)' = HolderOf(s)
    <3>1. HolderOf(s)' = HolderOf(s) /\ (Held(s)' <=> Held(s))
      BY <1>1, HolderUnmoved
    <3>2. ~Creating(p, s) /\ ~Creating(p, s)'
      BY <1>4, <1>6 DEF Creating
    <3>3. (\E q \in Procs : Creating(q, s)') <=> (\E q \in Procs : Creating(q, s))
      BY <1>3, <3>2
    <3>4. s \in queue' <=> s \in queue
      BY <1>6
    <3> QED BY <1>2, <3>1, <3>3, <3>4 DEF PhaseOf
  <2>5. Others(r)
    BY <2>4 DEF Others
  <2>6. CASE queue' = queue
    <3>1. r \notin queue
      BY <1>6 DEF Apart
    <3>2. r \notin queue' /\ r \in issued' /\ ~(\E q \in Procs : Creating(q, r)')
      BY <1>2, <2>2, <2>6, <3>1
    <3>3. PhaseOf(r)' = "gone"
      BY <2>3, <3>2 DEF PhaseOf
    <3> QED BY <2>1, <2>3, <2>5, <3>3, LeaveStep DEF Delivers, Delivery!TaskNext
  <2>7. CASE queue' = queue \cup {r}
    <3>1. PhaseOf(r)' = "queued"
      BY <2>7 DEF PhaseOf
    <3> QED BY <2>1, <2>3, <2>5, <3>1, SubmitStep DEF Delivers, Delivery!TaskNext
  <2> QED BY <1>6, <2>6, <2>7
<1>7. CASE queue' # queue
  <2>1. call[p].at = "enqueue" => call[p].r \in Requests
    BY DEF Shape, CallShape
  <2>2. PICK r \in Requests :
          /\ call[p].at = "enqueue" /\ call[p].fn = "create" /\ call[p].r = r
          /\ queue' = queue \cup {r} /\ call'[p].at = "returned"
    BY <1>7, <2>1, CommandFrame
  <2>3. Creating(p, r) /\ ~Creating(p, r)'
    BY <2>2 DEF Creating, Awaits
  <2> QED BY <1>6, <2>2, <2>3
<1>8. CASE queue' = queue
           /\ \E r \in Requests : ~(Creating(p, r)' <=> Creating(p, r))
  <2>1. PICK r \in Requests : ~(Creating(p, r)' <=> Creating(p, r))
    BY <1>8
  <2>2. Creating(p, r) /\ ~Creating(p, r)'
    BY <1>4, <2>1
  <2> QED BY <1>6, <1>8, <2>2
<1> QED BY <1>5, <1>7, <1>8

LEMMA ClientDelivers ==
  ASSUME TypeOK, Shape, Apart, NEW c \in Clients, ClientStep(c)
  PROVE  Delivers
<1>1. c \in Procs
  BY DEF Procs
<1>2. UNCHANGED <<queue, workerVars>>
  BY ClientTyped
<1>3. \A w \in Workers, r \in Requests : Holding(w, r)' <=> Holding(w, r)
  BY <1>2 DEF Holding, workerVars
<1>4. CASE Create(c)
  <2>1. PICK r \in Requests \ issued :
          issued' = issued \cup {r} /\ call' = [call EXCEPT ![c] = CreateCall(r)]
    BY <1>4 DEF Create
  <2>2. \A q \in Procs, s \in Requests :
          Creating(q, s)' <=> Creating(q, s) \/ (q = c /\ s = r)
    <3>1. CreateCall(r).fn = "create" /\ CreateCall(r).r = r
          /\ CreateCall(r).at \in Awaits
      BY DEF CreateCall, NoCall, Awaits
    <3>2. \A s \in Requests : ~Creating(c, s)
      BY <1>4 DEF Create, Idle, Creating, Awaits
    <3> QED BY <1>1, <2>1, <3>1, <3>2 DEF Creating, TypeOK, ManagerTypeOK
  <2>3. ASSUME NEW s \in Requests
        PROVE  PhaseOf(s)' = PhaseOf(s) /\ HolderOf(s)' = HolderOf(s)
    <3>1. HolderOf(s)' = HolderOf(s) /\ (Held(s)' <=> Held(s))
      BY <1>3, HolderUnmoved
    <3>2. (s \notin issued' \/ \E q \in Procs : Creating(q, s)')
            <=> (s \notin issued \/ \E q \in Procs : Creating(q, s))
      BY <1>1, <2>1, <2>2
    <3> QED BY <1>2, <3>1, <3>2 DEF PhaseOf
  <2> QED BY <2>3 DEF Delivers, PhaseMap, HolderMap
<1>5. CASE ~Create(c)
  <2>1. issued' = issued
    BY <1>5 DEF ClientStep, Cancel, Touch, PutStatus, ListFromRedis, ListFromRows,
                Ask, Answer
  <2>2. Idle(c) \/ Ended(c)
    BY <1>5 DEF ClientStep, Cancel, Touch, PutStatus, ListFromRedis, ListFromRows,
                Ask, Answer
  <2>3. \A s \in Requests : ~Creating(c, s)
    BY <2>2 DEF Idle, Ended, Creating, Awaits
  <2>4. PICK f : f.fn # "create" /\ call' = [call EXCEPT ![c] = f]
    BY <1>5, ClientStartsNoCreation
  <2>5. \A q \in Procs, s \in Requests : Creating(q, s)' <=> Creating(q, s)
    BY <1>1, <2>3, <2>4 DEF Creating, TypeOK, ManagerTypeOK
  <2> QED BY <1>2, <1>3, <2>1, <2>5, UnmovedStutters DEF Unmoved, Delivers
<1> QED BY <1>4, <1>5
LEMMA WorkerDelivers ==
  ASSUME TypeOK, Shape, Apart, NEW w \in Workers, WorkerStep(w)
  PROVE  Delivers
<1>1. issued' = issued /\ w \in Procs
  BY WorkerTyped DEF systemVars, Procs
<1>2. PICK f : f.fn # "create" /\ call' = [call EXCEPT ![w] = f]
  BY FrameFunctions
  DEF WorkerStep, Dequeue, AfterLookup, AfterActivity, AfterStarting, ScrapeReturns,
      ScrapeThrows, AfterCompleting, AfterFailing, Failed, Release, Proceed
<1>3. \A r \in Requests : ~Creating(w, r)
  BY <1>1, ProcsAssumption DEF Apart, Procs
<1>4. \A q \in Procs, r \in Requests : Creating(q, r)' <=> Creating(q, r)
  BY <1>1, <1>2, <1>3 DEF Creating, TypeOK, ManagerTypeOK
<1>5. CASE Dequeue(w)
  <2>1. PICK r \in queue : /\ queue' = queue \ {r}
                           /\ job' = [job EXCEPT ![w] = r]
                           /\ stage' = [stage EXCEPT ![w] = "lookup"]
    BY <1>5 DEF Dequeue
  <2>2. r \in Requests /\ stage[w] = "idle"
    BY <1>5 DEF Dequeue, TypeOK, ManagerTypeOK
  <2>3. \A v \in Workers, s \in Requests :
          Holding(v, s)' <=> Holding(v, s) \/ (v = w /\ s = r)
    BY <2>1, <2>2 DEF Holding, TypeOK
  <2>4. ASSUME NEW s \in Requests \ {r}
        PROVE  PhaseOf(s)' = PhaseOf(s) /\ HolderOf(s)' = HolderOf(s)
    <3>1. HolderOf(s)' = HolderOf(s) /\ (Held(s)' <=> Held(s))
      BY <2>3, HolderUnmoved
    <3>2. (\E q \in Procs : Creating(q, s)') <=> (\E q \in Procs : Creating(q, s))
      BY <1>4
    <3> QED BY <1>1, <2>1, <3>1, <3>2 DEF PhaseOf
  <2>5. \A v \in Workers : ~Holding(v, r)
    BY DEF Apart
  <2>6. \A v \in Workers : Holding(v, r)' <=> v = w
    BY <2>2, <2>3, <2>5
  <2>7. HolderOf(r)' = w /\ Held(r)'
    BY <2>6 DEF HolderOf, Held, Holding
  <2>8. PhaseOf(r) = "queued"
    BY DEF PhaseOf
  <2>9. PhaseOf(r)' = "taken"
    BY <2>1, <2>7 DEF PhaseOf
  <2>10. ASSUME NEW s \in Requests PROVE HolderOf(s) # w
    <3>1. ~Holding(w, s)
      BY <2>2 DEF Holding
    <3>2. CASE Held(s)
      <4>1. \E v \in Workers : Holding(v, s)
        BY <3>2, HeldHolding
      <4>2. Holding(HolderOf(s), s)
        BY <3>2, <4>1 DEF HolderOf
      <4> QED BY <3>1, <4>2
    <3>3. CASE ~Held(s)
      BY <3>3, SentinelAssumption DEF HolderOf
    <3> QED BY <3>2, <3>3
  <2>11. Others(r)
    BY <2>4 DEF Others
  <2>12. Delivery!Take(r, w)
    BY <2>2, <2>7, <2>8, <2>9, <2>10, <2>11, TakeStep
  <2> QED BY <2>2, <2>12 DEF Delivers, Delivery!TaskNext
<1>6. CASE Release(w) /\ stage[w] # "idle"
  <2>1. /\ queue' = queue
        /\ stage' = [stage EXCEPT ![w] = "idle"]
        /\ job' = [job EXCEPT ![w] = NoRequest]
    BY <1>6 DEF Release
  <2>2. PICK r \in Requests : Holding(w, r)
    BY <1>6 DEF Shape, JobShape, Holding
  <2>3. \A v \in Workers, s \in Requests :
          Holding(v, s)' <=> Holding(v, s) /\ ~(v = w)
    BY <2>1 DEF Holding, TypeOK
  <2>4. ASSUME NEW s \in Requests \ {r}
        PROVE  PhaseOf(s)' = PhaseOf(s) /\ HolderOf(s)' = HolderOf(s)
    <3>1. ~Holding(w, s)
      BY <2>2 DEF Holding
    <3>2. HolderOf(s)' = HolderOf(s) /\ (Held(s)' <=> Held(s))
      BY <2>3, <3>1, HolderUnmoved
    <3>3. (\E q \in Procs : Creating(q, s)') <=> (\E q \in Procs : Creating(q, s))
      BY <1>4
    <3> QED BY <1>1, <2>1, <3>2, <3>3 DEF PhaseOf
  <2>5. \A v \in Workers : ~Holding(v, r)'
    BY <2>2, <2>3 DEF Apart
  <2>6. HolderOf(r)' = NoRequest /\ ~Held(r)'
    BY <2>5 DEF HolderOf, Held, Holding
  <2>7. r \notin queue /\ r \in issued /\ \A q \in Procs : ~Creating(q, r)
    BY <2>2 DEF Apart
  <2>8. PhaseOf(r) = "taken"
    BY <2>2, <2>7 DEF PhaseOf, Held, Holding
  <2>9. r \notin queue' /\ r \in issued' /\ ~(\E q \in Procs : Creating(q, r)')
    BY <1>1, <1>4, <2>1, <2>2, <2>7
  <2>10. PhaseOf(r)' = "gone"
    BY <2>6, <2>9 DEF PhaseOf
  <2>11. Others(r)
    BY <2>4 DEF Others
  <2>12. Delivery!Leave(r)
    BY <2>2, <2>6, <2>8, <2>10, <2>11, LeaveStep
  <2> QED BY <2>2, <2>12 DEF Delivers, Delivery!TaskNext
<1>7. CASE ~Dequeue(w) /\ ~Release(w)
  <2>1. /\ stage[w] # "idle" /\ queue' = queue /\ job' = job
        /\ \E s \in Stages \ {"idle"} : stage' = [stage EXCEPT ![w] = s]
    BY <1>7
    DEF WorkerStep, AfterLookup, AfterActivity, AfterStarting, ScrapeReturns,
        ScrapeThrows, AfterCompleting, AfterFailing, Proceed, Stages
  <2>2. \A v \in Workers, r \in Requests : Holding(v, r)' <=> Holding(v, r)
    BY <2>1 DEF Holding, TypeOK
  <2> QED BY <1>1, <1>4, <2>1, <2>2, UnmovedStutters DEF Unmoved, Delivers
<1>8. stage[w] # "idle" \/ Dequeue(w)
  BY DEF WorkerStep, AfterLookup, AfterActivity, AfterStarting, ScrapeReturns,
         ScrapeThrows, AfterCompleting, AfterFailing
<1> QED BY <1>5, <1>6, <1>7, <1>8

LEMMA CronDelivers ==
  ASSUME TypeOK, Shape, Apart, CronStep
  PROVE  Delivers
<1>1. UNCHANGED <<queue, issued, workerVars>> /\ Cron \in Procs
  BY CronTyped DEF Procs
<1>2. \/ call' = call
      \/ \E f : f.fn # "create" /\ call' = [call EXCEPT ![Cron] = f]
  BY FrameFunctions DEF CronStep, CleanupStart, CleanupKey, CleanupNext, managerVars
<1>3. \A r \in Requests : ~Creating(Cron, r)
  BY <1>1, ProcsAssumption DEF Apart
<1>4. \A q \in Procs, r \in Requests : Creating(q, r)' <=> Creating(q, r)
  BY <1>1, <1>2, <1>3 DEF Creating, TypeOK, ManagerTypeOK
<1> QED BY <1>1, <1>4, UnmovedStutters DEF Unmoved, Delivers, Holding, workerVars

LEMMA LostDelivers ==
  ASSUME TypeOK, Shape, Apart, NEW w \in Workers, DequeueLost(w)
  PROVE  Delivers
<1>1. PICK r \in queue : queue' = queue \ {r}
  BY DEF DequeueLost
<1>2. UNCHANGED <<call, issued, workerVars>> /\ r \in Requests
  BY LostTyped DEF TypeOK, ManagerTypeOK
<1>3. \A q \in Procs, s \in Requests : Creating(q, s)' <=> Creating(q, s)
  BY <1>2 DEF Creating
<1>4. \A v \in Workers, s \in Requests : Holding(v, s)' <=> Holding(v, s)
  BY <1>2 DEF Holding, workerVars
<1>5. ASSUME NEW s \in Requests \ {r}
      PROVE  PhaseOf(s)' = PhaseOf(s) /\ HolderOf(s)' = HolderOf(s)
  <2>1. HolderOf(s)' = HolderOf(s) /\ (Held(s)' <=> Held(s))
    BY <1>4, HolderUnmoved
  <2>2. (\E q \in Procs : Creating(q, s)') <=> (\E q \in Procs : Creating(q, s))
    BY <1>3
  <2> QED BY <1>1, <1>2, <2>1, <2>2 DEF PhaseOf
<1>6. ~Held(r) /\ r \in issued /\ \A q \in Procs : ~Creating(q, r)
  BY <1>2, HeldHolding DEF Apart
<1>7. HolderOf(r)' = NoRequest /\ ~Held(r)'
  BY <1>2, <1>4, <1>6, HolderUnmoved DEF HolderOf
<1>8. r \notin queue' /\ r \in issued' /\ ~(\E q \in Procs : Creating(q, r)')
  BY <1>1, <1>2, <1>3, <1>6
<1>9. PhaseOf(r) = "queued" /\ PhaseOf(r)' = "gone"
  BY <1>7, <1>8 DEF PhaseOf
<1>10. Delivery!Leave(r)
  BY <1>2, <1>5, <1>7, <1>9, LeaveStep DEF Others
<1> QED BY <1>2, <1>10 DEF Delivers, Delivery!TaskNext

LEMMA CrashDelivers ==
  ASSUME TypeOK, Shape, Apart, Crash
  PROVE  Delivers
<1> DEFINE lost == {r \in Requests :
                      PhaseOf(r) = "taken"
                      \/ (PhaseOf(r) = "new" /\ r \in issued)}
<1>1. /\ UNCHANGED <<queue, issued>>
      /\ \A q \in Procs, s \in Requests : ~Creating(q, s)'
      /\ \A w \in Workers, s \in Requests : ~Holding(w, s)'
      /\ \A s \in Requests : ~Held(s)'
  BY CrashTyped DEF Creating, Holding, Held, Awaits
<1>2. HolderMap' = [s \in Requests |-> NoRequest]
  BY <1>1 DEF HolderMap, HolderOf
<1>3. ASSUME NEW s \in Requests
      PROVE  PhaseOf(s)' = IF s \in lost THEN "gone" ELSE PhaseOf(s)
  <2>1. CASE s \in queue
    BY <1>1, <2>1 DEF PhaseOf
  <2>2. CASE s \notin queue /\ Held(s)
    <3>1. s \in issued
      BY <2>2, HeldHolding DEF Apart
    <3>2. s \notin queue' /\ s \in issued' /\ ~(\E q \in Procs : Creating(q, s)')
      BY <1>1, <2>2, <3>1
    <3> QED BY <1>1, <2>2, <3>2 DEF PhaseOf
  <2>3. CASE s \notin queue /\ ~Held(s)
    <3>1. s \notin queue' /\ (s \in issued' <=> s \in issued)
          /\ ~(\E q \in Procs : Creating(q, s)')
      BY <1>1, <2>3
    <3> QED BY <1>1, <2>3, <3>1 DEF PhaseOf
  <2> QED BY <2>1, <2>2, <2>3
<1>4. PhaseMap' = [s \in Requests |-> IF s \in lost THEN "gone" ELSE PhaseMap[s]]
  BY <1>3 DEF PhaseMap
<1>5. /\ lost \in SUBSET {s \in Requests : PhaseMap[s] \in {"new", "taken"}}
      /\ {s \in Requests : PhaseMap[s] = "taken"} \subseteq lost
  BY DEF PhaseMap
<1> HIDE DEF lost
<1>6. Delivery!LoseHands
  BY <1>2, <1>4, <1>5 DEF Delivery!LoseHands, PhaseMap, HolderMap
<1> QED BY <1>6 DEF Delivers, Delivery!TaskNext

\* Requests are delivered to workers at most once: the system implements
\* TaskDelivery under the mapping of RequestDelivery.
THEOREM AtMostOnceDelivery == Spec => DeliversAtMostOnce
<1>1. Init => TypeOK /\ Shape /\ Apart
  BY InitTyped DEF Init, ManagerInit, Apart, Creating, Holding, NoCall, Awaits
<1>2. TypeOK /\ Shape /\ Apart /\ [Next]_vars => (TypeOK /\ Shape /\ Apart)'
  BY NextTyped, NextApart
<1>3. Init => Delivery!TaskInit
  BY DEF Init, ManagerInit, Delivery!TaskInit, PhaseOf, HolderOf, Held
<1>4. ASSUME TypeOK, Shape, Apart, [Next]_vars
      PROVE  [Delivery!TaskNext]_<<PhaseMap, HolderMap>>
  <2> SUFFICES Delivers
    BY DEF Delivers
  <2>1. ASSUME NEW r \in Requests, AgeRow(r) \/ AgeKey(r) \/ ExpireKey(r)
        PROVE  Delivers
    BY <1>4, <2>1, TimeTyped, UnmovedStutters
    DEF Unmoved, Creating, Holding, workerVars, Delivers
  <2>2. CASE UNCHANGED vars
    BY <2>2, UnmovedStutters
    DEF vars, managerVars, workerVars, systemVars, Unmoved, Creating, Holding, Delivers
  <2>3. ASSUME NEW p \in Procs, Command(p) PROVE Delivers
    BY <1>4, <2>3, CommandDelivers
  <2>4. ASSUME NEW c \in Clients, ClientStep(c) PROVE Delivers
    BY <1>4, <2>4, ClientDelivers
  <2>5. ASSUME NEW w \in Workers, WorkerStep(w) \/ DequeueLost(w) PROVE Delivers
    BY <1>4, <2>5, WorkerDelivers, LostDelivers
  <2>6. CASE CronStep \/ Crash
    BY <1>4, <2>6, CronDelivers, CrashDelivers
  <2> QED BY <1>4, <2>1, <2>2, <2>3, <2>4, <2>5, <2>6 DEF Next, Environment, Sleep
<1>5. [Delivery!TaskNext]_<<PhaseMap, HolderMap>> => [Delivery!TaskNext]_Delivery!taskVars
  BY DEF PhaseMap, HolderMap, Delivery!taskVars
<1> QED BY <1>1, <1>2, <1>3, <1>4, <1>5, PTL
        DEF Spec, DeliversAtMostOnce, Delivery!TaskSpec
=============================================================================
