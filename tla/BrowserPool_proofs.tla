-------------------------- MODULE BrowserPool_proofs --------------------------
(* Proofs about BrowserPool, for any numbers of browsers, tabs and processes. *)
EXTENDS BrowserPool, FiniteSetTheorems, TLAPS

(* Where a task stands tells which of its fields are set. *)
TabAwaits == {"register", "closeBad"} \cup CloseAwaits
Placed == TabAwaits \cup {"chosen", "newPage"} \cup ClosingAwaits
            \cup {"check", "release", "closed", "remove"}

TaskShape(k, known) ==
  /\ k.at \in Placed => k.b \in known
  /\ k.at \in TabAwaits => k.t \in Tabs
  /\ k.at = "none" => k.op = "open"
  /\ k.at = "launch" /\ k.op # "open" => k.more > 0
  /\ k.left \subseteq known

PoolShape ==
  /\ pool \subseteq issued /\ alive \subseteq issued
  /\ home \in [Tabs -> issued \cup {NoBrowser}]
  /\ \A p \in Procs : TaskShape(task[p], issued)

\* Every action of the model, so that a proof by cases has them in one place.
LEMMA PoolSteps ==
  ASSUME PoolNext
  PROVE  \/ \E c \in Callers :
              \/ ChooseBrowser(c) \/ CheckSize(c) \/ CheckTabs(c) \/ NewPage(c)
              \/ NewPageFails(c) \/ CloseBad(c) \/ Register(c) \/ StartClose(c)
              \/ Forget(c) \/ ClosePage(c) \/ DropTab(c) \/ Uncount(c)
         \/ \E s \in Sweepers :
              \/ StartCleanup(s) \/ StartHealth(s) \/ StartPreWarm(s) \/ Visit(s)
              \/ Check(s) \/ Release(s) \/ ListKeys(s) \/ CloseTabs(s)
              \/ ClosePages(s) \/ CloseChrome(s) \/ CloseFails(s) \/ Closed(s)
              \/ Remove(s)
         \/ \E p \in Procs : Launch(p) \/ LaunchFails(p)
         \/ \E b \in Browsers : Expire(b) \/ ExpireRecord(b) \/ ChromeDies(b)
         \/ \E t \in Tabs : PageCrashes(t)
         \/ Restart
BY DEF PoolNext, CallerStep, SweepStep, LaunchStep

PoolTyped == PoolTypeOK /\ PoolShape

\* A process moves on to a task that fits; the others keep theirs.
LEMMA TaskFits ==
  ASSUME PoolTyped, NEW p \in Procs, NEW k \in Tasks,
         task' = [task EXCEPT ![p] = k], issued \subseteq issued', TaskShape(k, issued')
  PROVE  /\ task' \in [Procs -> Tasks]
         /\ \A q \in Procs : TaskShape(task[q], issued)'
BY DEF PoolTyped, PoolTypeOK, PoolShape, TaskShape

LEMMA NoTaskFits ==
  NoTask \in Tasks /\ TaskShape(NoTask, issued) /\ TaskShape(NoTask, issued')
BY PoolAssumption DEF NoTask, Tasks, TaskShape, Placed, TabAwaits, CloseAwaits,
   ClosingAwaits, OpenAwaits, SweepAwaits

LEMMA PoolInitTyped == PoolInit => PoolTyped
<1> SUFFICES ASSUME PoolInit PROVE PoolTyped
    OBVIOUS
<1>1. PoolTypeOK
  BY PoolAssumption, NoTaskFits DEF PoolInit, PoolTypeOK, Instances, FreshInstance
<1>2. PoolShape
  BY NoTaskFits DEF PoolInit, PoolShape
<1>3. QED
  BY <1>1, <1>2 DEF PoolTyped

\* The counters of a browser keep their types.
LEMMA CountersTyped ==
  ASSUME NEW i \in Instances, NEW t \in Tabs
  PROVE  WithTab(i, t) \in Instances /\ WithoutTab(i, t) \in Instances
<1>1. i.openTabs \in Nat /\ i.tabIds \in SUBSET Tabs
  BY DEF Instances
<1>2. i.openTabs + 1 \in Nat /\ (i.tabIds \cup {t}) \in SUBSET Tabs
  BY <1>1
<1>3. WithTab(i, t) \in Instances
  BY <1>2 DEF WithTab, Instances
<1>4. DEFINE n == IF i.openTabs = 0 THEN 0 ELSE i.openTabs - 1
<1>5. n \in Nat
  BY <1>1
<1>6. (i.tabIds \ {t}) \in SUBSET Tabs
  BY <1>1
<1>7. WithoutTab(i, t) \in Instances
  BY <1>5, <1>6 DEF WithoutTab, Instances
<1>8. QED
  BY <1>3, <1>7

\* So does a browser one field of which is set.
LEMMA FieldsTyped ==
  ASSUME PoolTypeOK, NEW b \in Browsers
  PROVE  /\ [inst EXCEPT ![b].state = "CLOSING"] \in [Browsers -> Instances]
         /\ \A v \in BOOLEAN : [inst EXCEPT ![b].healthy = v] \in [Browsers -> Instances]
         /\ [inst EXCEPT ![b].expired = TRUE] \in [Browsers -> Instances]
<1>1. inst \in [Browsers -> Instances] /\ inst[b] \in Instances
  BY DEF PoolTypeOK
<1>2. [inst[b] EXCEPT !.state = "CLOSING"] \in Instances
  BY <1>1 DEF Instances
<1>3. \A v \in BOOLEAN : [inst[b] EXCEPT !.healthy = v] \in Instances
  BY <1>1 DEF Instances
<1>4. [inst[b] EXCEPT !.expired = TRUE] \in Instances
  BY <1>1 DEF Instances
<1>5. QED
  BY <1>1, <1>2, <1>3, <1>4

\* The steps of callers.
LEMMA CallerTyped ==
  ASSUME PoolTyped, NEW c \in Callers,
         \/ ChooseBrowser(c) \/ CheckSize(c) \/ CheckTabs(c) \/ NewPage(c)
         \/ NewPageFails(c) \/ CloseBad(c) \/ Register(c) \/ StartClose(c)
         \/ Forget(c) \/ ClosePage(c) \/ DropTab(c) \/ Uncount(c)
  PROVE  PoolTyped'
<1> USE PoolAssumption DEF Procs, poolVars, chromeVars, tabVars
<1>t. PoolTypeOK /\ PoolShape /\ TaskShape(task[c], issued) /\ task[c] \in Tasks
  BY DEF PoolTyped, PoolTypeOK, PoolShape
<1>m. ASSUME NEW at, MoveTo(c, at), UNCHANGED issued,
             at \in {"launch", "newPage", "dropTab", "uncount"},
             at \in Placed => task[c].at \in Placed,
             at \in TabAwaits => task[c].at \in TabAwaits,
             at = "launch" => task[c].op = "open"
      PROVE  task' \in [Procs -> Tasks] /\ \A q \in Procs : TaskShape(task[q], issued)'
  <2>1. [task[c] EXCEPT !.at = at] \in Tasks
    BY <1>t, <1>m DEF Tasks, OpenAwaits, CloseAwaits
  <2>2. task' = [task EXCEPT ![c] = [task[c] EXCEPT !.at = at]]
    BY <1>m DEF MoveTo
  <2>3. TaskShape([task[c] EXCEPT !.at = at], issued')
    BY <1>t, <1>m DEF TaskShape, Tasks
  <2>4. QED
    BY <1>m, <2>1, <2>2, <2>3, TaskFits
<1>f. ASSUME Finish(c), UNCHANGED issued
      PROVE  task' \in [Procs -> Tasks] /\ \A q \in Procs : TaskShape(task[q], issued)'
  BY <1>f, NoTaskFits, TaskFits DEF Finish
<1>1. CASE ChooseBrowser(c)
  <2>1. CASE Suitable = {} /\ task' = [task EXCEPT ![c] =
                [NoTask EXCEPT !.op = "open", !.at = "none"]]
    <3> DEFINE k == [NoTask EXCEPT !.op = "open", !.at = "none"]
    <3>1. k \in Tasks /\ TaskShape(k, issued')
      BY NoTaskFits DEF Tasks, NoTask, TaskShape, OpenAwaits, Placed, TabAwaits,
         CloseAwaits, ClosingAwaits
    <3>2. QED
      BY <1>1, <1>t, <2>1, <3>1, TaskFits
         DEF ChooseBrowser, PoolTyped, PoolTypeOK, PoolShape
  <2>2. ASSUME NEW b \in Suitable,
               task' = [task EXCEPT ![c] =
                 [NoTask EXCEPT !.op = "open", !.at = "chosen", !.b = b]]
        PROVE  PoolTyped'
    <3> DEFINE k == [NoTask EXCEPT !.op = "open", !.at = "chosen", !.b = b]
    <3>1. b \in issued /\ b \in Browsers
      BY <1>t DEF Suitable, PoolTypeOK, PoolShape
    <3>2. k \in Tasks /\ TaskShape(k, issued')
      BY <1>1, <3>1, NoTaskFits DEF Tasks, NoTask, TaskShape, OpenAwaits, Placed,
         TabAwaits, CloseAwaits, ClosingAwaits, ChooseBrowser
    <3>3. QED
      BY <1>1, <1>t, <2>2, <3>2, TaskFits
         DEF ChooseBrowser, PoolTyped, PoolTypeOK, PoolShape
  <2>3. QED
    BY <1>1, <2>1, <2>2 DEF ChooseBrowser
<1>2. CASE CheckSize(c) \/ CheckTabs(c) \/ NewPageFails(c)
  <2>1. task' \in [Procs -> Tasks] /\ \A q \in Procs : TaskShape(task[q], issued)'
    BY <1>2, <1>t, <1>f, <1>m DEF CheckSize, CheckTabs, NewPageFails, TaskShape,
       Placed, TabAwaits, CloseAwaits, ClosingAwaits
  <2>2. QED
    BY <1>2, <1>t, <2>1
       DEF CheckSize, CheckTabs, NewPageFails, PoolTyped, PoolTypeOK, PoolShape
<1>3. CASE NewPage(c)
  <2> PICK t \in Tabs :
        /\ home' = [home EXCEPT ![t] = task[c].b]
        /\ open' = open \cup {t} /\ tabs' = tabs \cup {t}
        /\ \/ /\ tabKeys' = tabKeys \cup {t}
              /\ task' = [task EXCEPT ![c].at = "register", ![c].t = t]
              /\ UNCHANGED faults
           \/ /\ Fault
              /\ task' = [task EXCEPT ![c].at = "closeBad", ![c].t = t]
              /\ tabKeys' \in {tabKeys, tabKeys \cup {t}}
    BY <1>3 DEF NewPage
  <2>1. task[c].b \in issued /\ task[c].b \in Browsers /\ UNCHANGED <<poolVars, alive, active, have>>
    BY <1>3, <1>t DEF NewPage, PoolShape, PoolTypeOK, TaskShape, Placed
  <2>2. ASSUME NEW at \in {"register", "closeBad"},
               task' = [task EXCEPT ![c].at = at, ![c].t = t]
        PROVE  task' \in [Procs -> Tasks] /\ \A q \in Procs : TaskShape(task[q], issued)'
    <3> DEFINE k == [task[c] EXCEPT !.at = at, !.t = t]
    <3>1. k \in Tasks /\ TaskShape(k, issued')
      BY <1>t, <2>1 DEF Tasks, TaskShape, OpenAwaits
    <3>2. task' = [task EXCEPT ![c] = k]
      BY <2>2
    <3>3. QED
      BY <2>1, <3>1, <3>2, TaskFits
  <2>3. QED
    BY <1>t, <2>1, <2>2 DEF Fault, PoolTyped, PoolTypeOK, PoolShape
<1>4. CASE CloseBad(c)
  BY <1>4, <1>t, <1>f DEF CloseBad, Fault, PoolTyped, PoolTypeOK, PoolShape
<1>5. CASE Register(c)
  <2>1. task[c].b \in Browsers /\ task[c].b \in issued /\ task[c].t \in Tabs
    BY <1>5, <1>t DEF Register, TaskShape, PoolTypeOK, Placed, TabAwaits
  <2>2. WithTab(inst[task[c].b], task[c].t) \in Instances
    BY <1>t, <2>1, CountersTyped DEF PoolTypeOK
  <2>3. QED
    BY <1>5, <1>t, <1>f, <2>1, <2>2
       DEF Register, Fault, PoolTyped, PoolTypeOK, PoolShape
<1>6. CASE StartClose(c)
  <2> DEFINE t == have[c]
             b == home[t]
             k == [NoTask EXCEPT !.op = "close", !.b = b, !.t = t,
                     !.at = IF t \in active THEN "closePage" ELSE "dropTab"]
  <2>1. t \in Tabs
    BY <1>6, <1>t DEF StartClose, PoolTypeOK
  <2>2. ASSUME b \in pool, task' = [task EXCEPT ![c] = k]
        PROVE  task' \in [Procs -> Tasks] /\ \A q \in Procs : TaskShape(task[q], issued)'
    <3>1. b \in Browsers /\ b \in issued /\ UNCHANGED issued
      BY <1>6, <1>t, <2>2 DEF StartClose, PoolTypeOK, PoolShape
    <3>2. k \in Tasks /\ TaskShape(k, issued')
      BY <2>1, <3>1, NoTaskFits DEF Tasks, NoTask, TaskShape, CloseAwaits, TabAwaits
    <3>3. QED
      BY <2>2, <3>1, <3>2, TaskFits
  <2>3. QED
    BY <1>6, <1>t, <2>2 DEF StartClose, PoolTyped, PoolTypeOK, PoolShape
<1>7. CASE Forget(c)
  BY <1>7, <1>t DEF Forget, PoolTyped, PoolTypeOK, PoolShape
<1>8. CASE ClosePage(c)
  <2>1. task' \in [Procs -> Tasks] /\ \A q \in Procs : TaskShape(task[q], issued)'
    BY <1>8, <1>m DEF ClosePage, Placed, TabAwaits, CloseAwaits
  <2>2. QED
    BY <1>8, <1>t, <2>1 DEF ClosePage, Fault, PoolTyped, PoolTypeOK, PoolShape
<1>9. CASE DropTab(c)
  <2>1. task' \in [Procs -> Tasks] /\ \A q \in Procs : TaskShape(task[q], issued)'
    BY <1>9, <1>m, <1>f DEF DropTab, Placed, TabAwaits, CloseAwaits
  <2>2. task[c].b \in Browsers /\ task[c].t \in Tabs
    BY <1>9, <1>t DEF DropTab, TaskShape, PoolTypeOK, Placed, TabAwaits, CloseAwaits
  <2>3. WithoutTab(inst[task[c].b], task[c].t) \in Instances
    BY <1>t, <2>2, CountersTyped DEF PoolTypeOK
  <2>4. QED
    BY <1>9, <1>t, <2>1, <2>2, <2>3
       DEF DropTab, Fault, PoolTyped, PoolTypeOK, PoolShape
<1>10. CASE Uncount(c)
  <2>1. task[c].b \in Browsers /\ task[c].b \in issued /\ task[c].t \in Tabs
    BY <1>10, <1>t DEF Uncount, TaskShape, PoolTypeOK, Placed, TabAwaits, CloseAwaits
  <2>2. WithoutTab(inst[task[c].b], task[c].t) \in Instances
    BY <1>t, <2>1, CountersTyped DEF PoolTypeOK
  <2>3. QED
    BY <1>10, <1>t, <1>f, <2>1, <2>2 DEF Uncount, PoolTyped, PoolTypeOK, PoolShape
<1>11. QED
  BY <1>1, <1>2, <1>3, <1>4, <1>5, <1>6, <1>7, <1>8, <1>9, <1>10

\* The steps of timers and cron jobs.
LEMMA SweeperTyped ==
  ASSUME PoolTyped, NEW s \in Sweepers,
         \/ StartCleanup(s) \/ StartHealth(s) \/ StartPreWarm(s) \/ Visit(s)
         \/ Check(s) \/ Release(s) \/ ListKeys(s) \/ CloseTabs(s)
         \/ ClosePages(s) \/ CloseChrome(s) \/ CloseFails(s) \/ Closed(s)
         \/ Remove(s)
  PROVE  PoolTyped'
<1> USE PoolAssumption DEF Procs, poolVars, chromeVars, tabVars
<1>t. PoolTypeOK /\ PoolShape /\ TaskShape(task[s], issued) /\ task[s] \in Tasks
  BY DEF PoolTyped, PoolTypeOK, PoolShape
<1> DEFINE AllFit == /\ task' \in [Procs -> Tasks]
                     /\ \A q \in Procs : TaskShape(task[q], issued)'
<1>m. ASSUME NEW at, NEW doomed \in SUBSET Tabs, UNCHANGED issued,
             task' = [task EXCEPT ![s] = [task[s] EXCEPT !.at = at, !.doomed = doomed]],
             at \in ClosingAwaits \cup SweepAwaits \cup {"launch"},
             at \in Placed => task[s].at \in Placed,
             at = "launch" => task[s].more > 0
      PROVE  AllFit
  <2> DEFINE k == [task[s] EXCEPT !.at = at, !.doomed = doomed]
  <2>1. k \in Tasks
    BY <1>t, <1>m DEF Tasks, OpenAwaits
  <2>2. TaskShape(k, issued')
    BY <1>t, <1>m DEF TaskShape, Tasks, TabAwaits, CloseAwaits, ClosingAwaits,
       SweepAwaits
  <2>3. task' = [task EXCEPT ![s] = k]
    BY <1>m
  <2>4. QED
    BY <1>m, <2>1, <2>2, <2>3, TaskFits
<1>a. ASSUME NEW at, UNCHANGED issued, MoveTo(s, at),
             at \in ClosingAwaits \cup SweepAwaits \cup {"launch"},
             at \in Placed => task[s].at \in Placed,
             at = "launch" => task[s].more > 0
      PROVE  AllFit
  <2> DEFINE k == [task[s] EXCEPT !.at = at]
  <2>1. k \in Tasks
    BY <1>t, <1>a DEF Tasks, OpenAwaits
  <2>2. TaskShape(k, issued')
    BY <1>t, <1>a DEF TaskShape, Tasks, TabAwaits, CloseAwaits, ClosingAwaits,
       SweepAwaits
  <2>3. task' = [task EXCEPT ![s] = k]
    BY <1>a DEF MoveTo
  <2>4. QED
    BY <1>a, <2>1, <2>2, <2>3, TaskFits
<1>f. ASSUME Finish(s), UNCHANGED issued PROVE AllFit
  BY <1>f, NoTaskFits, TaskFits DEF Finish
<1>s. ASSUME NEW op, NEW left \in SUBSET Browsers, NEW more \in 0..Warm,
             left \subseteq issued, StartSweep(s, op, left, more)
      PROVE  PoolTyped'
  <2> DEFINE k == [NoTask EXCEPT !.op = op, !.at = "next", !.left = left, !.more = more]
  <2>1. k \in Tasks
    BY <1>s, NoTaskFits DEF StartSweep, Tasks, NoTask, SweepAwaits
  <2>2. TaskShape(k, issued')
    BY <1>s DEF StartSweep, TaskShape, NoTask, Placed, TabAwaits, CloseAwaits,
       ClosingAwaits
  <2>3. AllFit
    BY <1>s, <2>1, <2>2, TaskFits DEF StartSweep
  <2>4. QED
    BY <1>s, <1>t, <2>3 DEF StartSweep, PoolTyped, PoolTypeOK, PoolShape
<1>1. CASE StartCleanup(s)
  BY <1>1, <1>t, <1>s DEF StartCleanup, PoolTypeOK, PoolShape
<1>2. CASE StartHealth(s)
  BY <1>2, <1>t, <1>s DEF StartHealth, PoolTypeOK, PoolShape
<1>3. CASE StartPreWarm(s)
  <2> DEFINE available == Cardinality({b \in pool : inst[b].state = "AVAILABLE"})
  <2>1. available \in Nat
    BY <1>t, FS_Subset, FS_CardinalityType DEF PoolTypeOK
  <2>2. (IF available < Warm THEN Warm - available ELSE 0) \in 0..Warm
    BY <2>1
  <2>3. QED
    BY <1>3, <1>s, <2>2 DEF StartPreWarm
<1>4. CASE Visit(s)
  <2>1. CASE task[s].op = "prewarm"
    <3>1. AllFit
      <4>1. CASE Finish(s)
        BY <1>4, <1>f, <4>1 DEF Visit
      <4>2. CASE task[s].more # 0 /\ MoveTo(s, "launch")
        <5>0. task[s].more \in 0..Warm
          BY <1>t DEF Tasks
        <5>1. task[s].more > 0 /\ UNCHANGED issued
          <6>1. task[s].more > 0
            BY <4>2, <5>0, PoolAssumption
          <6>2. UNCHANGED issued
            BY <1>4 DEF Visit
          <6>3. QED
            BY <6>1, <6>2
        <5>2. "launch" \notin Placed
          BY DEF Placed, TabAwaits, CloseAwaits, ClosingAwaits
        <5>3. QED
          BY <1>a, <4>2, <5>1, <5>2
      <4>3. QED
        BY <1>4, <2>1, <4>1, <4>2 DEF Visit
    <3>2. QED
      BY <1>4, <1>t, <2>1, <3>1 DEF Visit, PoolTyped, PoolTypeOK, PoolShape
  <2>2. CASE task[s].op # "prewarm" /\ task[s].left = {} /\ Finish(s)
    BY <1>4, <1>t, <1>f, <2>2 DEF Visit, PoolTyped, PoolTypeOK, PoolShape
  <2>3. ASSUME NEW b \in task[s].left,
               task' = [task EXCEPT ![s].b = b, ![s].left = @ \ {b},
                 ![s].at = IF task[s].op = "health" THEN "check" ELSE "tabKeys",
                 ![s].doomed = IF task[s].op = "health" THEN {} ELSE TabsOf(b) \cap tabs],
               inst' = IF task[s].op = "health" THEN inst
                       ELSE [inst EXCEPT ![b].state = "CLOSING"]
        PROVE  PoolTyped'
    <3> DEFINE k == [task[s] EXCEPT !.b = b, !.left = @ \ {b},
                 !.at = IF task[s].op = "health" THEN "check" ELSE "tabKeys",
                 !.doomed = IF task[s].op = "health" THEN {} ELSE TabsOf(b) \cap tabs]
    <3>1. b \in Browsers /\ b \in issued /\ UNCHANGED issued
      BY <1>4, <1>t DEF Visit, Tasks, TaskShape
    <3>2. k \in Tasks
      BY <1>t, <3>1 DEF Tasks, TabsOf, SweepAwaits, ClosingAwaits
    <3>3. TaskShape(k, issued')
      BY <1>t, <3>1 DEF TaskShape, Tasks, TabAwaits, CloseAwaits
    <3>. task' = [task EXCEPT ![s] = k]
      BY <2>3
    <3>4. AllFit
      BY <3>1, <3>2, <3>3, TaskFits
    <3>5. inst' \in [Browsers -> Instances]
      BY <1>t, <2>3, <3>1, FieldsTyped DEF PoolTypeOK
    <3>6. QED
      BY <1>4, <1>t, <3>4, <3>5 DEF Visit, PoolTyped, PoolTypeOK, PoolShape
  <2>4. QED
    BY <1>4, <2>1, <2>2, <2>3 DEF Visit
<1>5. CASE Check(s)
  <2>1. task[s].b \in Browsers /\ task[s].b \in issued
    BY <1>5, <1>t DEF Check, TaskShape, PoolTypeOK, Placed
  <2>2. AllFit
    BY <1>5, <1>a DEF Check, Placed, SweepAwaits, TabAwaits, CloseAwaits, ClosingAwaits
  <2>3. inst' \in [Browsers -> Instances]
    <3>1. CASE inst' = [inst EXCEPT ![task[s].b].healthy = TRUE]
      BY <1>t, <2>1, <3>1, FieldsTyped
    <3>2. CASE inst' = [inst EXCEPT ![task[s].b].healthy = FALSE]
      BY <1>t, <2>1, <3>2, FieldsTyped
    <3>3. QED
      BY <1>5, <3>1, <3>2 DEF Check
  <2>4. QED
    BY <1>5, <1>t, <2>1, <2>2, <2>3 DEF Check, Fault, PoolTyped, PoolTypeOK, PoolShape
<1>6. CASE Release(s)
  <2>1. task[s].b \in Browsers /\ task[s].b \in issued
    BY <1>6, <1>t DEF Release, TaskShape, PoolTypeOK, Placed
  <2>2. AllFit
    <3> DEFINE closes == task[s].b \in pool /\ inst[task[s].b].openTabs = 0
               at == IF closes THEN "tabKeys" ELSE "next"
               doomed == IF closes THEN TabsOf(task[s].b) \cap tabs ELSE {}
    <3>1. /\ at \in ClosingAwaits \cup SweepAwaits \cup {"launch"}
          /\ at # "launch" /\ task[s].at \in Placed
      BY <1>6 DEF Release, Placed, ClosingAwaits, SweepAwaits
    <3>2. doomed \in SUBSET Tabs
      BY DEF TabsOf
    <3>3. /\ task' = [task EXCEPT ![s] = [task[s] EXCEPT !.at = at, !.doomed = doomed]]
          /\ UNCHANGED issued
      BY <1>6 DEF Release
    <3> HIDE DEF at, doomed
    <3>4. QED
      BY <1>m, <3>1, <3>2, <3>3
  <2>3. inst' \in [Browsers -> Instances]
    BY <1>6, <1>t, <2>1, FieldsTyped DEF Release, PoolTypeOK
  <2>4. QED
    BY <1>6, <1>t, <2>2, <2>3 DEF Release, PoolTyped, PoolTypeOK, PoolShape
<1>7. CASE ListKeys(s)
  <2>1. AllFit
    <3> DEFINE doomed == task[s].doomed
                    \cup ((TabsOf(task[s].b) \cap tabKeys) \ tabs)
    <3>1. doomed \in SUBSET Tabs
      BY <1>t DEF TabsOf, Tasks
    <3>2. /\ task' = [task EXCEPT ![s] =
                        [task[s] EXCEPT !.at = "closeTabs", !.doomed = doomed]]
          /\ UNCHANGED issued /\ task[s].at \in Placed
      BY <1>7 DEF ListKeys, Placed, ClosingAwaits
    <3> HIDE DEF doomed
    <3>3. "closeTabs" \in ClosingAwaits
      BY DEF ClosingAwaits
    <3>4. QED
      BY <1>m, <3>1, <3>2, <3>3
  <2>2. QED
    BY <1>7, <1>t, <2>1 DEF ListKeys, PoolTyped, PoolTypeOK, PoolShape, TabsOf
<1>8. CASE CloseTabs(s)
  <2>1. ASSUME task' = [task EXCEPT ![s].at = "closePages",
                                    ![s].doomed = inst[task[s].b].tabIds]
        PROVE  AllFit
    <3>1. task[s].b \in Browsers
      BY <1>8, <1>t DEF CloseTabs, TaskShape, PoolTypeOK, Placed, ClosingAwaits
    <3>2. inst[task[s].b].tabIds \in SUBSET Tabs
      BY <1>t, <3>1 DEF PoolTypeOK, Instances
    <3>3. /\ task' = [task EXCEPT ![s] = [task[s] EXCEPT
                        !.at = "closePages", !.doomed = inst[task[s].b].tabIds]]
          /\ UNCHANGED issued /\ task[s].at \in Placed
          /\ "closePages" \in ClosingAwaits
      BY <1>8, <2>1 DEF CloseTabs, Placed, ClosingAwaits
    <3>4. QED
      BY <1>m, <3>2, <3>3
  <2>2. ASSUME NEW t \in task[s].doomed,
               task' = [task EXCEPT ![s].doomed = @ \ {t}]
        PROVE  AllFit
    <3> DEFINE k == [task[s] EXCEPT !.doomed = @ \ {t}]
    <3>1. k \in Tasks /\ TaskShape(k, issued')
      BY <1>8, <1>t DEF CloseTabs, Tasks, TaskShape
    <3>2. task' = [task EXCEPT ![s] = k] /\ UNCHANGED issued
      BY <1>8, <2>2 DEF CloseTabs
    <3>3. QED
      BY <3>1, <3>2, TaskFits
  <2>3. AllFit /\ tabs' \in SUBSET Tabs /\ tabKeys' \in SUBSET Tabs
    BY <1>8, <1>t, <2>1, <2>2 DEF CloseTabs, PoolTypeOK
  <2>4. QED
    BY <1>8, <1>t, <2>3 DEF CloseTabs, PoolTyped, PoolTypeOK, PoolShape
<1>9. CASE ClosePages(s)
  <2>1. AllFit
    <3>1. CASE task' = [task EXCEPT ![s].at = "closeChrome", ![s].doomed = {}]
      <4>1. /\ task' = [task EXCEPT ![s] =
                          [task[s] EXCEPT !.at = "closeChrome", !.doomed = {}]]
            /\ UNCHANGED issued /\ task[s].at \in Placed
            /\ "closeChrome" \in ClosingAwaits /\ {} \in SUBSET Tabs
        BY <1>9, <3>1 DEF ClosePages, Placed, ClosingAwaits
      <4>2. QED
        BY <1>m, <4>1
    <3>2. CASE UNCHANGED task
      BY <1>9, <1>t, <3>2 DEF ClosePages, PoolTypeOK, PoolShape
    <3>3. QED
      BY <1>9, <3>1, <3>2 DEF ClosePages
  <2>2. QED
    BY <1>9, <1>t, <2>1 DEF ClosePages, PoolTyped, PoolTypeOK, PoolShape
<1>10. CASE CloseChrome(s)
  <2>1. AllFit
    BY <1>10, <1>a DEF CloseChrome, Placed, ClosingAwaits, SweepAwaits
  <2>2. QED
    BY <1>10, <1>t, <2>1 DEF CloseChrome, Kill, PoolTyped, PoolTypeOK, PoolShape
<1>11. CASE CloseFails(s)
  <2>1. AllFit
    <3> DEFINE at == IF task[s].op = "health" THEN "closed" ELSE "next"
    <3>1. /\ task' = [task EXCEPT ![s] = [task[s] EXCEPT !.at = at, !.doomed = {}]]
          /\ UNCHANGED issued /\ task[s].at \in Placed
          /\ at \in SweepAwaits /\ at # "launch" /\ {} \in SUBSET Tabs
      BY <1>11 DEF CloseFails, Placed, ClosingAwaits, SweepAwaits
    <3> HIDE DEF at
    <3>2. QED
      BY <1>m, <3>1
  <2>2. QED
    BY <1>11, <1>t, <2>1 DEF CloseFails, Fault, PoolTyped, PoolTypeOK, PoolShape
<1>12. CASE Closed(s) \/ Remove(s)
  <2>1. AllFit
    BY <1>12, <1>a DEF Closed, Remove, Placed, TabAwaits, CloseAwaits, ClosingAwaits,
       SweepAwaits
  <2>2. QED
    BY <1>12, <1>t, <2>1 DEF Closed, Remove, PoolTyped, PoolTypeOK, PoolShape
<1>13. QED
  BY <1>1, <1>2, <1>3, <1>4, <1>5, <1>6, <1>7, <1>8, <1>9, <1>10, <1>11, <1>12

LEMMA LaunchTyped ==
  ASSUME PoolTyped, NEW p \in Procs, Launch(p) \/ LaunchFails(p)
  PROVE  PoolTyped'
<1> USE PoolAssumption DEF poolVars, chromeVars, tabVars
<1>t. PoolTypeOK /\ PoolShape /\ TaskShape(task[p], issued) /\ task[p] \in Tasks
  BY DEF PoolTyped, PoolTypeOK, PoolShape
<1> DEFINE next == [task[p] EXCEPT !.at = "next", !.more = @ - 1]
<1>n. ASSUME task[p].at = "launch", task[p].op # "open", issued \subseteq issued'
      PROVE  next \in Tasks /\ TaskShape(next, issued')
  <2>1. task[p].more - 1 \in 0..Warm
    BY <1>t, <1>n DEF TaskShape, Tasks
  <2>2. QED
    BY <1>t, <1>n, <2>1 DEF TaskShape, Tasks, Placed, TabAwaits, CloseAwaits,
       ClosingAwaits, SweepAwaits
<1>1. CASE LaunchFails(p)
  <2>1. /\ task' \in [Procs -> Tasks]
        /\ \A q \in Procs : TaskShape(task[q], issued)'
    <3>1. CASE task[p].op = "open"
      BY <1>1, <3>1, NoTaskFits, TaskFits DEF LaunchFails, Finish
    <3>2. CASE task[p].op # "open"
      <4>1. /\ task' = [task EXCEPT ![p] = next] /\ UNCHANGED issued
            /\ task[p].at = "launch"
        BY <1>1, <3>2 DEF LaunchFails
      <4>2. QED
        BY <1>n, <3>2, <4>1, TaskFits
    <3>3. QED
      BY <3>1, <3>2
  <2>2. QED
    BY <1>1, <1>t, <2>1 DEF LaunchFails, PoolTyped, PoolTypeOK, PoolShape
<1>2. CASE Launch(p)
  <2> PICK b \in Browsers \ issued :
        /\ issued' = issued \cup {b} /\ pool' = pool \cup {b}
        /\ alive' = alive \cup {b} /\ records' = records \cup {b}
        /\ inst' = [inst EXCEPT ![b] = FreshInstance]
        /\ task' = IF task[p].op = "open"
                   THEN [task EXCEPT ![p].at = "chosen", ![p].b = b]
                   ELSE [task EXCEPT ![p].at = "next", ![p].more = @ - 1]
    BY <1>2 DEF Launch
  <2>1. /\ task' \in [Procs -> Tasks]
        /\ \A q \in Procs : TaskShape(task[q], issued)'
    <3>1. CASE task[p].op = "open"
      <4> DEFINE k == [task[p] EXCEPT !.at = "chosen", !.b = b]
      <4>1. k \in Tasks /\ TaskShape(k, issued')
        BY <1>t DEF TaskShape, Tasks, OpenAwaits, TabAwaits, CloseAwaits
      <4>2. QED
        BY <3>1, <4>1, TaskFits
    <3>2. CASE task[p].op # "open"
      <4>1. task' = [task EXCEPT ![p] = next] /\ task[p].at = "launch"
        BY <1>2, <3>2 DEF Launch
      <4>2. QED
        BY <1>n, <3>2, <4>1, TaskFits
    <3>3. QED
      BY <3>1, <3>2
  <2>2. FreshInstance \in Instances
    BY DEF FreshInstance, Instances
  <2>3. QED
    BY <1>2, <1>t, <2>1, <2>2 DEF Launch, PoolTyped, PoolTypeOK, PoolShape
<1>3. QED
  BY <1>1, <1>2

\* Time, crashes and the restart.
LEMMA WorldTyped ==
  ASSUME PoolTyped,
         \/ \E b \in Browsers : Expire(b) \/ ExpireRecord(b) \/ ChromeDies(b)
         \/ \E t \in Tabs : PageCrashes(t)
         \/ Restart
  PROVE  PoolTyped'
<1> USE PoolAssumption DEF poolVars, chromeVars, tabVars
<1>1. ASSUME NEW b \in Browsers, Expire(b) PROVE PoolTyped'
  <2>1. inst' \in [Browsers -> Instances]
    BY <1>1, FieldsTyped DEF Expire, PoolTyped
  <2>2. QED
    BY <1>1, <2>1 DEF Expire, PoolTyped, PoolTypeOK, PoolShape
<1>2. ASSUME NEW b \in Browsers, ExpireRecord(b) \/ ChromeDies(b) PROVE PoolTyped'
  BY <1>2 DEF ExpireRecord, ChromeDies, Kill, Fault, PoolTyped, PoolTypeOK, PoolShape
<1>3. ASSUME NEW t \in Tabs, PageCrashes(t) PROVE PoolTyped'
  BY <1>3 DEF PageCrashes, Fault, PoolTyped, PoolTypeOK, PoolShape
<1>4. CASE Restart
  <2>1. /\ task' \in [Procs -> Tasks]
        /\ \A q \in Procs : TaskShape(task[q], issued)'
    BY <1>4, NoTaskFits DEF Restart
  <2>2. QED
    BY <1>4, <2>1 DEF Restart, Fault, PoolTyped, PoolTypeOK, PoolShape
<1>5. QED
  BY <1>1, <1>2, <1>3, <1>4

LEMMA StutterTyped ==
  ASSUME PoolTyped, UNCHANGED poolSystemVars
  PROVE  PoolTyped'
BY DEF PoolTyped, PoolTypeOK, PoolShape, poolSystemVars, poolVars, chromeVars, tabVars

LEMMA AlwaysTyped == PoolSpec => []PoolTyped
<1>1. PoolInit => PoolTyped
  BY PoolInitTyped
<1>2. PoolTyped /\ [PoolNext]_poolSystemVars => PoolTyped'
  BY PoolSteps, CallerTyped, SweeperTyped, LaunchTyped, WorldTyped, StutterTyped
<1>3. QED
  BY <1>1, <1>2, PTL DEF PoolSpec

\* Every variable of the pool keeps its type, in whatever order callers, timers,
\* failures and restarts come.
THEOREM PoolTypeCorrect == PoolSpec => []PoolTypeOK
<1>1. PoolTyped => PoolTypeOK
  BY DEF PoolTyped
<1>2. QED
  BY <1>1, AlwaysTyped, PTL
-----------------------------------------------------------------------------
(* The limits, checked before an await and used up after it                *)

\* Those who have passed the check and not yet used it.
Launching == {p \in Procs : task[p].at = "launch"}
Heading(b) == {c \in Callers : /\ task[c].b = b
                               /\ task[c].at \in {"chosen", "newPage", "register"}}

PoolRoom == Cardinality(pool) + Cardinality(Launching) < MaxPool + Cardinality(Procs)
TabRoom(b) ==
  inst[b].openTabs + Cardinality(Heading(b)) < MaxTabs + Cardinality(Callers)
Room == PoolRoom /\ \A b \in Browsers : TabRoom(b)

\* Browsers, processes and callers can be counted.
LEMMA Counts ==
  \A U \in {Browsers, Procs, Callers} :
    /\ Cardinality(U) \in Nat
    /\ \A S \in SUBSET U : /\ IsFiniteSet(S) /\ Cardinality(S) \in Nat
                           /\ Cardinality(S) <= Cardinality(U)
                           /\ \A T \in SUBSET S : Cardinality(T) <= Cardinality(S)
<1>1. \A U \in {Browsers, Procs, Callers} : IsFiniteSet(U)
  <2>1. Callers \in SUBSET Procs
    BY DEF Procs
  <2>2. QED
    BY <2>1, PoolAssumption, FS_Subset
<1>2. ASSUME NEW U \in {Browsers, Procs, Callers}, NEW S \in SUBSET U
      PROVE  /\ IsFiniteSet(S) /\ Cardinality(S) \in Nat
             /\ Cardinality(S) <= Cardinality(U)
             /\ \A T \in SUBSET S : Cardinality(T) <= Cardinality(S)
  BY <1>1, FS_Subset, FS_CardinalityType
<1>3. QED
  BY <1>1, <1>2, FS_CardinalityType

\* Room is kept by a step that adds no browser and lets nobody through, and
\* there is room after the check.
LEMMA PoolRoomKept ==
  ASSUME PoolTypeOK, PoolTypeOK', pool' \subseteq pool,
         \/ PoolRoom /\ Launching' \subseteq Launching
         \/ Cardinality(pool) < MaxPool
  PROVE  PoolRoom'
<1> DEFINE n == Cardinality(Procs)
           p == Cardinality(pool)
           pp == Cardinality(pool')
           l == Cardinality(Launching)
           ll == Cardinality(Launching')
<1>1. Launching \in SUBSET Procs /\ Launching' \in SUBSET Procs
  BY DEF Launching
<1>2. p \in Nat /\ pp \in Nat /\ l \in Nat /\ ll \in Nat /\ n \in Nat /\ pp <= p /\ ll <= n
  BY <1>1, Counts DEF PoolTypeOK
<1>3. CASE PoolRoom /\ Launching' \subseteq Launching
  <2>1. ll <= l
    BY <1>1, <1>3, Counts
  <2>2. p + l < MaxPool + n
    BY <1>3 DEF PoolRoom
  <2>3. pp + ll < MaxPool + n
    <3> HIDE DEF n, p, pp, l, ll
    <3>1. QED
      BY <1>2, <2>1, <2>2, PoolAssumption
  <2>4. QED
    BY <2>3 DEF PoolRoom
<1>4. CASE p < MaxPool
  <2>1. pp + ll < MaxPool + n
    <3> HIDE DEF n, p, pp, l, ll
    <3>1. QED
      BY <1>2, <1>4, PoolAssumption
  <2>2. QED
    BY <2>1 DEF PoolRoom
<1>5. QED
  BY <1>3, <1>4

LEMMA TabRoomKept ==
  ASSUME PoolTypeOK, PoolTypeOK', NEW b \in Browsers,
         inst'[b].openTabs <= inst[b].openTabs,
         \/ TabRoom(b) /\ Heading(b)' \subseteq Heading(b)
         \/ inst[b].openTabs < MaxTabs
  PROVE  TabRoom(b)'
<1> DEFINE n == Cardinality(Callers)
           i == inst[b].openTabs
           ii == inst'[b].openTabs
           h == Cardinality(Heading(b))
           hh == Cardinality(Heading(b)')
<1>1. Heading(b) \in SUBSET Callers /\ Heading(b)' \in SUBSET Callers
  BY DEF Heading
<1>2. i \in Nat /\ ii \in Nat
  BY DEF PoolTypeOK, Instances
<1>3. h \in Nat /\ hh \in Nat /\ n \in Nat /\ hh <= n
  BY <1>1, Counts
<1>4. CASE TabRoom(b) /\ Heading(b)' \subseteq Heading(b)
  <2>1. hh <= h
    BY <1>1, <1>4, Counts
  <2>2. i + h < MaxTabs + n
    BY <1>4 DEF TabRoom
  <2>3. ii + hh < MaxTabs + n
    <3> HIDE DEF n, i, ii, h, hh
    <3>0. ii <= i
      BY DEF i, ii
    <3>1. QED
      BY <1>2, <1>3, <2>1, <2>2, <3>0, PoolAssumption
  <2>4. QED
    BY <2>3 DEF TabRoom
<1>5. CASE i < MaxTabs
  <2>1. ii + hh < MaxTabs + n
    <3> HIDE DEF n, i, ii, h, hh
    <3>0. ii <= i
      BY DEF i, ii
    <3>1. QED
      BY <1>2, <1>3, <1>5, <3>0, PoolAssumption
  <2>2. QED
    BY <2>1 DEF TabRoom
<1>6. QED
  BY <1>4, <1>5

LEMMA RoomKept ==
  ASSUME PoolTypeOK, PoolTypeOK', Room, pool' \subseteq pool,
         \A p \in Procs : task'[p].at = "launch" => task[p].at = "launch",
         \A b \in Browsers : inst'[b].openTabs <= inst[b].openTabs,
         \A c \in Callers : 
           task'[c].at \in {"chosen", "newPage", "register"} =>
             /\ task[c].at \in {"chosen", "newPage", "register"}
             /\ task'[c].b = task[c].b
  PROVE  Room'
<1>1. Launching' \subseteq Launching
  BY DEF Launching
<1>2. \A b \in Browsers : Heading(b)' \subseteq Heading(b)
  BY DEF Heading
<1>3. QED
  BY <1>1, <1>2, PoolRoomKept, TabRoomKept DEF Room

\* One process goes on, without being let through.
GoesOn(p) ==
  /\ \A q \in Procs : q # p => task'[q] = task[q]
  /\ task'[p].at = "launch" => task[p].at = "launch"
  /\ task'[p].at \in {"chosen", "newPage", "register"} =>
       /\ task[p].at \in {"chosen", "newPage", "register"}
       /\ task'[p].b = task[p].b

LEMMA GoesOnRoom ==
  ASSUME PoolTypeOK, PoolTypeOK', Room, NEW p \in Procs, GoesOn(p),
         pool' \subseteq pool, \A b \in Browsers : inst'[b].openTabs <= inst[b].openTabs
  PROVE  Room'
BY RoomKept DEF GoesOn, Procs

LEMMA RoomCaller ==
  ASSUME PoolTypeOK, PoolTypeOK', Room, NEW c \in Callers,
         \/ ChooseBrowser(c) \/ CheckSize(c) \/ CheckTabs(c) \/ NewPage(c)
         \/ NewPageFails(c) \/ CloseBad(c) \/ Register(c) \/ StartClose(c)
         \/ Forget(c) \/ ClosePage(c) \/ DropTab(c) \/ Uncount(c)
  PROVE  Room'
<1>p. c \in Procs
  BY DEF Procs
<1>t. /\ task \in [Procs -> Tasks] /\ task[c] \in Tasks
      /\ inst \in [Browsers -> Instances]
      /\ \A b \in Browsers : inst[b].openTabs \in Nat /\ inst[b].openTabs <= inst[b].openTabs
  BY <1>p DEF PoolTypeOK, Instances
<1>1. CASE ChooseBrowser(c)
  <2>0. UNCHANGED <<pool, inst>>
    BY <1>1 DEF ChooseBrowser, poolVars
  <2>1. CASE task' = [task EXCEPT ![c] = [NoTask EXCEPT !.op = "open", !.at = "none"]]
    <3>1. GoesOn(c)
      BY <1>p, <1>t, <2>1 DEF GoesOn, NoTask
    <3>2. QED
      BY <1>p, <1>t, <2>0, <3>1, GoesOnRoom
  <2>2. ASSUME NEW b \in Suitable,
               task' = [task EXCEPT ![c] = [NoTask EXCEPT !.op = "open",
                                              !.at = "chosen", !.b = b]]
        PROVE  Room'
    <3>1. Launching' \subseteq Launching
      BY <1>p, <1>t, <2>2 DEF Launching, NoTask
    <3>2. ASSUME NEW d \in Browsers PROVE TabRoom(d)'
      <4>1. d # b => Heading(d)' \subseteq Heading(d)
        BY <1>p, <1>t, <2>2 DEF Heading, NoTask, Procs
      <4>2. inst[b].openTabs < MaxTabs
        BY DEF Suitable
      <4>3. inst'[d].openTabs <= inst[d].openTabs
        BY <1>t, <2>0
      <4>4. QED
        BY <4>1, <4>2, <4>3, TabRoomKept DEF Room
    <3>3. QED
      BY <2>0, <3>1, <3>2, PoolRoomKept DEF Room
  <2>3. QED
    BY <1>1, <2>1, <2>2 DEF ChooseBrowser
<1>2. CASE CheckSize(c)
  <2>0. UNCHANGED <<pool, inst>>
    BY <1>2 DEF CheckSize, poolVars
  <2>1. CASE Finish(c)
    <3>1. GoesOn(c)
      BY <1>p, <1>t, <2>1 DEF Finish, GoesOn, NoTask
    <3>2. QED
      BY <1>p, <1>t, <2>0, <3>1, GoesOnRoom
  <2>2. CASE Cardinality(pool) < MaxPool /\ MoveTo(c, "launch")
    <3>1. \A b \in Browsers : Heading(b)' \subseteq Heading(b)
      BY <1>p, <1>t, <2>2 DEF MoveTo, Heading, Tasks, Procs
    <3>2. QED
      BY <1>t, <2>0, <2>2, <3>1, PoolRoomKept, TabRoomKept DEF Room
  <2>3. ~(Cardinality(pool) >= MaxPool) => Cardinality(pool) < MaxPool
    BY Counts, PoolAssumption DEF PoolTypeOK
  <2>4. QED
    BY <1>2, <2>1, <2>2, <2>3 DEF CheckSize
<1>3. CASE CheckTabs(c)
  <2>1. GoesOn(c)
    BY <1>3, <1>p, <1>t DEF CheckTabs, Finish, MoveTo, GoesOn, NoTask, Tasks
  <2>2. QED
    BY <1>3, <1>p, <1>t, <2>1, GoesOnRoom DEF CheckTabs, poolVars
<1>4. CASE NewPage(c)
  <2>1. GoesOn(c)
    BY <1>4, <1>p, <1>t DEF NewPage, GoesOn, Tasks
  <2>2. QED
    BY <1>4, <1>p, <1>t, <2>1, GoesOnRoom DEF NewPage, poolVars
<1>5. CASE NewPageFails(c) \/ CloseBad(c)
  <2>1. GoesOn(c)
    BY <1>5, <1>p, <1>t DEF NewPageFails, CloseBad, Finish, GoesOn, NoTask
  <2>2. QED
    BY <1>5, <1>p, <1>t, <2>1, GoesOnRoom DEF NewPageFails, CloseBad, poolVars
<1>6. CASE Register(c)
  <2> DEFINE b == task[c].b
             t == task[c].t
  <2>1. UNCHANGED pool /\ Finish(c) /\ task[c].at = "register"
    BY <1>6 DEF Register
  <2>2. GoesOn(c)
    BY <1>p, <1>t, <2>1 DEF Finish, GoesOn, NoTask
  <2>3. CASE inst' = inst
    BY <1>p, <1>t, <2>1, <2>2, <2>3, GoesOnRoom
  <2>4. CASE inst' = [inst EXCEPT ![b] = WithTab(@, t)]
    <3>1. Launching' \subseteq Launching
      BY <2>2 DEF Launching, GoesOn
    <3>2. ASSUME NEW d \in Browsers PROVE TabRoom(d)'
      <4>1. CASE d = b
        <5>1. inst'[d].openTabs = inst[d].openTabs + 1
          BY <1>t, <2>4, <4>1 DEF WithTab, Instances
        <5>2. Heading(d)' = Heading(d) \ {c} /\ c \in Heading(d)
          BY <1>p, <1>t, <2>1, <4>1 DEF Heading, Finish, NoTask, Procs
        <5>3. Heading(d) \in SUBSET Callers
          BY DEF Heading
        <5>4. Cardinality(Heading(d)') = Cardinality(Heading(d)) - 1
          BY <5>2, <5>3, Counts, FS_RemoveElement
        <5>5. Cardinality(Heading(d)) \in Nat /\ Cardinality(Callers) \in Nat
          BY <5>3, Counts
        <5>6. inst[d].openTabs + Cardinality(Heading(d)) < MaxTabs + Cardinality(Callers)
          BY DEF Room, TabRoom
        <5>7. inst'[d].openTabs + Cardinality(Heading(d)')
                 = inst[d].openTabs + Cardinality(Heading(d))
          BY <1>t, <5>1, <5>4, <5>5
        <5>8. QED
          BY <5>6, <5>7 DEF TabRoom
      <4>2. CASE d # b
        <5>1. inst'[d].openTabs <= inst[d].openTabs
          BY <1>t, <2>4, <4>2
        <5>2. Heading(d)' \subseteq Heading(d)
          BY <2>2 DEF GoesOn, Heading, Procs
        <5>3. QED
          BY <5>1, <5>2, TabRoomKept DEF Room
      <4>3. QED
        BY <4>1, <4>2
    <3>3. QED
      BY <2>1, <3>1, <3>2, PoolRoomKept DEF Room
  <2>5. QED
    BY <1>6, <2>3, <2>4 DEF Register
<1>7. CASE StartClose(c) \/ Forget(c)
  <2>1. GoesOn(c)
    <3>1. CASE UNCHANGED task
      BY <3>1 DEF GoesOn
    <3>2. ASSUME NEW at \in {"closePage", "dropTab"},
                 task' = [task EXCEPT ![c] = [NoTask EXCEPT !.op = "close",
                            !.b = home[have[c]], !.t = have[c], !.at = at]]
          PROVE  GoesOn(c)
      BY <1>p, <1>t, <3>2 DEF GoesOn, NoTask
    <3>3. QED
      BY <1>7, <3>1, <3>2 DEF StartClose, Forget
  <2>2. QED
    BY <1>7, <1>p, <1>t, <2>1, GoesOnRoom DEF StartClose, Forget, poolVars
<1>8. CASE ClosePage(c)
  <2>1. GoesOn(c)
    BY <1>8, <1>p, <1>t DEF ClosePage, MoveTo, GoesOn, Tasks
  <2>2. QED
    BY <1>8, <1>p, <1>t, <2>1, GoesOnRoom DEF ClosePage, poolVars
<1>9. CASE DropTab(c) \/ Uncount(c)
  <2>1. \A b \in Browsers : inst'[b].openTabs <= inst[b].openTabs
    <3>1. CASE inst' = [inst EXCEPT ![task[c].b] = WithoutTab(@, task[c].t)]
      BY <1>t, <3>1 DEF WithoutTab, Instances
    <3>2. QED
      BY <1>9, <1>t, <3>1 DEF DropTab, Uncount
  <2>2. GoesOn(c)
    <3>1. MoveTo(c, "uncount") \/ Finish(c)
      BY <1>9 DEF DropTab, Uncount
    <3>2. QED
      BY <1>p, <1>t, <3>1 DEF MoveTo, Finish, GoesOn, NoTask, Tasks
  <2>3. QED
    BY <1>9, <1>p, <2>1, <2>2, GoesOnRoom DEF DropTab, Uncount
<1>10. QED
  BY <1>1, <1>2, <1>3, <1>4, <1>5, <1>6, <1>7, <1>8, <1>9

LEMMA RoomSweeper ==
  ASSUME PoolTypeOK, PoolTypeOK', Room, NEW s \in Sweepers,
         \/ StartCleanup(s) \/ StartHealth(s) \/ StartPreWarm(s) \/ Visit(s)
         \/ Check(s) \/ Release(s) \/ ListKeys(s) \/ CloseTabs(s)
         \/ ClosePages(s) \/ CloseChrome(s) \/ CloseFails(s) \/ Closed(s)
         \/ Remove(s)
  PROVE  Room'
<1>p. s \in Procs
  BY DEF Procs
<1>t. /\ task \in [Procs -> Tasks] /\ task[s] \in Tasks
      /\ inst \in [Browsers -> Instances]
      /\ \A b \in Browsers : inst[b].openTabs \in Nat /\ inst[b].openTabs <= inst[b].openTabs
  BY <1>p DEF PoolTypeOK, Instances
<1>1. ASSUME NEW op, NEW left, NEW more, StartSweep(s, op, left, more) PROVE Room'
  <2>1. GoesOn(s)
    BY <1>1, <1>p, <1>t DEF StartSweep, GoesOn, NoTask
  <2>2. QED
    BY <1>1, <1>p, <1>t, <2>1, GoesOnRoom DEF StartSweep, poolVars
<1>2. CASE StartCleanup(s) \/ StartHealth(s) \/ StartPreWarm(s)
  BY <1>1, <1>2 DEF StartCleanup, StartHealth, StartPreWarm
<1>3. CASE Visit(s)
  <2>0. UNCHANGED pool
    BY <1>3 DEF Visit
  <2>1. CASE Finish(s) /\ UNCHANGED inst
    <3>1. GoesOn(s)
      BY <1>p, <1>t, <2>1 DEF Finish, GoesOn, NoTask
    <3>2. QED
      BY <1>p, <1>t, <2>0, <2>1, <3>1, GoesOnRoom
  <2>2. CASE ~(Cardinality(pool) >= MaxPool) /\ MoveTo(s, "launch") /\ UNCHANGED inst
    <3>1. \A b \in Browsers : Heading(b)' \subseteq Heading(b)
      BY <1>p, <1>t, <2>2, PoolAssumption DEF MoveTo, Heading, Tasks, Procs
    <3>2. Cardinality(pool) < MaxPool
      BY <2>2, Counts, PoolAssumption DEF PoolTypeOK
    <3>3. QED
      BY <1>t, <2>0, <2>2, <3>1, <3>2, PoolRoomKept, TabRoomKept DEF Room
  <2>3. ASSUME NEW b \in task[s].left, NEW at \in {"check", "tabKeys"}, NEW doomed,
               task' = [task EXCEPT ![s].b = b, ![s].left = @ \ {b}, ![s].at = at,
                                    ![s].doomed = doomed],
               \/ inst' = inst
               \/ inst' = [inst EXCEPT ![b].state = "CLOSING"]
        PROVE  Room'
    <3>1. GoesOn(s)
      BY <1>p, <1>t, <2>3 DEF GoesOn, Tasks
    <3>2. \A d \in Browsers : inst'[d].openTabs <= inst[d].openTabs
      BY <1>t, <2>3 DEF Instances
    <3>3. QED
      BY <1>p, <2>0, <3>1, <3>2, GoesOnRoom
  <2>4. ASSUME NEW b \in task[s].left,
               task' = [task EXCEPT ![s].b = b, ![s].left = @ \ {b},
                 ![s].at = IF task[s].op = "health" THEN "check" ELSE "tabKeys",
                 ![s].doomed = IF task[s].op = "health" THEN {} ELSE TabsOf(b) \cap tabs],
               inst' = IF task[s].op = "health" THEN inst
                       ELSE [inst EXCEPT ![b].state = "CLOSING"]
        PROVE  Room'
    BY <2>3, <2>4
  <2>5. QED
    BY <1>3, <2>1, <2>2, <2>4 DEF Visit
<1>4. CASE Check(s)
  <2>1. GoesOn(s)
    BY <1>4, <1>p, <1>t DEF Check, MoveTo, GoesOn, Tasks
  <2>2. \A d \in Browsers : inst'[d].openTabs <= inst[d].openTabs
    <3>1. ASSUME NEW v, inst' = [inst EXCEPT ![task[s].b].healthy = v]
          PROVE  \A d \in Browsers : inst'[d].openTabs <= inst[d].openTabs
      BY <1>t, <3>1 DEF Instances
    <3>2. QED
      BY <1>4, <3>1 DEF Check
  <2>3. QED
    BY <1>4, <1>p, <2>1, <2>2, GoesOnRoom DEF Check
<1>5. CASE Release(s)
  <2>1. GoesOn(s)
    BY <1>5, <1>p, <1>t DEF Release, GoesOn, Tasks
  <2>2. \A d \in Browsers : inst'[d].openTabs <= inst[d].openTabs
    BY <1>5, <1>t DEF Release, Instances
  <2>3. QED
    BY <1>5, <1>p, <2>1, <2>2, GoesOnRoom DEF Release
<1>6. CASE ListKeys(s) \/ CloseTabs(s)
  <2>1. GoesOn(s)
    BY <1>6, <1>p, <1>t DEF ListKeys, CloseTabs, GoesOn, Tasks
  <2>2. QED
    BY <1>6, <1>p, <1>t, <2>1, GoesOnRoom DEF ListKeys, CloseTabs, poolVars
<1>7. CASE ClosePages(s)
  <2>1. GoesOn(s)
    BY <1>7, <1>p, <1>t DEF ClosePages, GoesOn, Tasks
  <2>2. QED
    BY <1>7, <1>p, <1>t, <2>1, GoesOnRoom DEF ClosePages, poolVars
<1>8. CASE CloseChrome(s) \/ CloseFails(s)
  <2>1. GoesOn(s)
    BY <1>8, <1>p, <1>t DEF CloseChrome, CloseFails, MoveTo, GoesOn, Tasks
  <2>2. QED
    BY <1>8, <1>p, <1>t, <2>1, GoesOnRoom DEF CloseChrome, CloseFails, poolVars
<1>9. CASE Closed(s) \/ Remove(s)
  <2>1. GoesOn(s)
    BY <1>9, <1>p, <1>t DEF Closed, Remove, MoveTo, GoesOn, Tasks
  <2>2. QED
    BY <1>9, <1>p, <1>t, <2>1, GoesOnRoom DEF Closed, Remove
<1>10. QED
  BY <1>2, <1>3, <1>4, <1>5, <1>6, <1>7, <1>8, <1>9

LEMMA RoomLaunch ==
  ASSUME PoolTypeOK, PoolTypeOK', Room, NEW p \in Procs, Launch(p) \/ LaunchFails(p)
  PROVE  Room'
<1>t. /\ task \in [Procs -> Tasks] /\ task[p] \in Tasks
      /\ inst \in [Browsers -> Instances]
      /\ \A b \in Browsers : inst[b].openTabs \in Nat /\ inst[b].openTabs <= inst[b].openTabs
  BY DEF PoolTypeOK, Instances
<1>1. CASE LaunchFails(p)
  <2>1. GoesOn(p)
    <3>1. CASE Finish(p)
      BY <1>t, <3>1 DEF Finish, GoesOn, NoTask
    <3>2. CASE task' = [task EXCEPT ![p].at = "next", ![p].more = @ - 1]
      BY <1>t, <3>2 DEF GoesOn, Tasks
    <3>3. QED
      BY <1>1, <3>1, <3>2 DEF LaunchFails
  <2>2. QED
    BY <1>1, <1>t, <2>1, GoesOnRoom DEF LaunchFails, poolVars
<1>2. CASE Launch(p)
  <2> PICK b \in Browsers :
        /\ pool' = pool \cup {b}
        /\ inst' = [inst EXCEPT ![b] = FreshInstance]
        /\ \/ task' = [task EXCEPT ![p].at = "chosen", ![p].b = b]
           \/ task' = [task EXCEPT ![p].at = "next", ![p].more = @ - 1]
    BY <1>2 DEF Launch
  <2>1. p \in Launching /\ Launching' = Launching \ {p}
    <3>1. p \in Launching
      BY <1>2 DEF Launch, Launching
    <3>2. task'[p].at # "launch" /\ \A q \in Procs : q # p => task'[q] = task[q]
      BY <1>t DEF Tasks
    <3>3. QED
      BY <3>1, <3>2 DEF Launching
  <2>2. PoolRoom'
    <3> DEFINE k == Cardinality(pool)
               kk == Cardinality(pool')
               l == Cardinality(Launching)
               ll == Cardinality(Launching')
               n == Cardinality(Procs)
    <3>1. pool \in SUBSET Browsers /\ Launching \in SUBSET Procs
      BY DEF PoolTypeOK, Launching
    <3>2. k \in Nat /\ l \in Nat /\ n \in Nat /\ kk <= k + 1 /\ kk \in Nat /\ ll = l - 1
      <4>1. /\ IsFiniteSet(pool) /\ k \in Nat /\ IsFiniteSet(Launching) /\ l \in Nat
            /\ n \in Nat
        BY <3>1, Counts
      <4>2. kk = IF b \in pool THEN k ELSE k + 1
        BY <4>1, FS_AddElement
      <4>3. ll = l - 1
        BY <2>1, <4>1, FS_RemoveElement
      <4>4. QED
        BY <4>1, <4>2, <4>3
    <3>3. k + l < MaxPool + n
      BY DEF Room, PoolRoom
    <3>4. kk + ll < MaxPool + n
      <4> HIDE DEF k, kk, l, ll, n
      <4>1. QED
        BY <3>2, <3>3, PoolAssumption
    <3>5. QED
      BY <3>4 DEF PoolRoom
  <2>3. ASSUME NEW d \in Browsers PROVE TabRoom(d)'
    <3>1. CASE d = b
      <4>1. inst'[b].openTabs = 0
        BY <1>t DEF FreshInstance
      <4>2. Heading(d)' \in SUBSET Callers
        BY DEF Heading
      <4>3. QED
        BY <3>1, <4>1, <4>2, Counts, PoolAssumption DEF TabRoom
    <3>2. CASE d # b
      <4>1. inst'[d].openTabs <= inst[d].openTabs
        BY <1>t, <3>2
      <4>2. Heading(d)' \subseteq Heading(d)
        BY <1>t, <3>2 DEF Heading, Tasks, Procs
      <4>3. QED
        BY <4>1, <4>2, TabRoomKept DEF Room
    <3>3. QED
      BY <3>1, <3>2
  <2>4. QED
    BY <2>2, <2>3 DEF Room
<1>3. QED
  BY <1>1, <1>2

LEMMA RoomWorld ==
  ASSUME PoolTypeOK, PoolTypeOK', Room,
         \/ \E b \in Browsers : Expire(b) \/ ExpireRecord(b) \/ ChromeDies(b)
         \/ \E t \in Tabs : PageCrashes(t)
         \/ Restart
         \/ UNCHANGED poolSystemVars
  PROVE  Room'
<1>t. /\ task \in [Procs -> Tasks]
      /\ inst \in [Browsers -> Instances]
      /\ \A b \in Browsers : inst[b].openTabs \in Nat /\ inst[b].openTabs <= inst[b].openTabs
  BY DEF PoolTypeOK, Instances
<1>1. pool' \subseteq pool
  BY DEF Expire, ExpireRecord, ChromeDies, PageCrashes, Restart, poolSystemVars, poolVars
<1>2. \A d \in Browsers : inst'[d].openTabs <= inst[d].openTabs
  <2>1. inst' = inst \/ \E b \in Browsers : inst' = [inst EXCEPT ![b].expired = TRUE]
    BY DEF Expire, ExpireRecord, ChromeDies, PageCrashes, Restart, poolSystemVars, poolVars
  <2>2. QED
    BY <1>t, <2>1 DEF Instances
<1>3. task' = task \/ task' = [p \in Procs |-> NoTask]
  BY DEF Expire, ExpireRecord, ChromeDies, PageCrashes, Restart, poolSystemVars
<1>4. \A p \in Procs : task'[p] = task[p] \/ task'[p].at = "idle"
  BY <1>3 DEF NoTask
<1>5. QED
  BY <1>1, <1>2, <1>4, RoomKept DEF Procs

\* The pool exceeds its size by less than the number of processes, and a browser
\* its tabs by less than the number of callers: the checks that createTabForRequest
\* makes before it awaits are worth that much and no more.
THEOREM PoolOvershootBounded == PoolSpec => []OvershootBounded
<1>1. PoolInit => Room
  <2> SUFFICES ASSUME PoolInit PROVE Room
    OBVIOUS
  <2>1. pool = {} /\ Launching = {}
    BY DEF PoolInit, Launching, NoTask
  <2>2. \A b \in Browsers : Heading(b) = {} /\ inst[b].openTabs = 0
    BY DEF PoolInit, Heading, NoTask, FreshInstance, Procs
  <2>3. Cardinality(Callers) \in Nat /\ Cardinality(Procs) \in Nat /\ Cardinality({}) = 0
    BY Counts, FS_EmptySet
  <2>4. QED
    <3>2. PoolRoom
      BY <2>1, <2>3, PoolAssumption DEF PoolRoom
    <3>3. ASSUME NEW b \in Browsers PROVE TabRoom(b)
      <4>1. Cardinality(Heading(b)) = 0 /\ inst[b].openTabs = 0
        BY <2>2, <2>3
      <4>2. QED
        BY <4>1, <2>3, PoolAssumption DEF TabRoom
    <3>4. QED
      BY <3>2, <3>3 DEF Room
<1>2. PoolTypeOK /\ PoolTypeOK' /\ Room /\ [PoolNext]_poolSystemVars => Room'
  BY PoolSteps, RoomCaller, RoomSweeper, RoomLaunch, RoomWorld
<1>3. PoolTypeOK /\ Room => OvershootBounded
  <2> SUFFICES ASSUME PoolTypeOK, Room PROVE OvershootBounded
    OBVIOUS
  <2>1. Cardinality(pool) < MaxPool + Cardinality(Procs)
    <3>1. Launching \in SUBSET Procs
      BY DEF Launching
    <3>2. QED
      BY <3>1, Counts, PoolAssumption DEF Room, PoolRoom, PoolTypeOK
  <2>2. ASSUME NEW b \in Browsers
        PROVE  inst[b].openTabs < MaxTabs + Cardinality(Callers)
    <3>1. Heading(b) \in SUBSET Callers /\ inst[b].openTabs \in Nat
      BY DEF Heading, PoolTypeOK, Instances
    <3>2. QED
      BY <3>1, Counts, PoolAssumption DEF Room, TabRoom
  <2>3. QED
    BY <2>1, <2>2 DEF OvershootBounded
<1>4. QED
  BY <1>1, <1>2, <1>3, PoolTypeCorrect, PTL DEF PoolSpec
-----------------------------------------------------------------------------
(* Tabs and who holds them: a tab is in the hands of at most one caller, which  *)
(* registers it once and counts it off once.                                    *)

\* The tab a caller is opening or closing, or has been given.
Held(c) == IF task[c].at \in TabAwaits THEN task[c].t ELSE have[c]

Holder(c) ==
  /\ have[c] # NoTab => /\ Idle(c) /\ home[have[c]] # NoBrowser
                        /\ have[c] \in inst[home[have[c]]].tabIds
  /\ task[c].at \in TabAwaits => home[task[c].t] = task[c].b
  /\ task[c].at \in {"register", "closeBad"} =>
       task[c].t \notin active \cup inst[task[c].b].tabIds
  /\ task[c].at \in CloseAwaits => task[c].t \in inst[task[c].b].tabIds

Holders ==
  /\ \A c \in Callers : Holder(c)
  /\ \A c, d \in Callers : c # d => Held(c) = NoTab \/ Held(c) # Held(d)

TabBooks ==
  /\ \A b \in Browsers : inst[b].tabIds \subseteq TabsOf(b)
  /\ \A t \in active : home[t] # NoBrowser
  /\ ActivePagesOpen
  /\ TabsCounted

TabsHeld == Holders /\ TabBooks

\* What a step that moves tab t leaves alone: the other tabs.
Elsewhere(t) ==
  \A u \in Tabs \ {t} :
    /\ home[u] # NoBrowser => home'[u] = home[u]
    /\ u \in active' => u \in active
    /\ \A b \in issued : u \in inst'[b].tabIds <=> u \in inst[b].tabIds

LEMMA OthersHold ==
  ASSUME PoolTyped, Holders, NEW t, Elsewhere(t), NEW d \in Callers,
         task'[d] = task[d], have'[d] = have[d], Held(d) = NoTab \/ Held(d) # t
  PROVE  Holder(d)' /\ Held(d)' = Held(d)
<1> USE PoolAssumption DEF Procs
<1>t. /\ PoolTypeOK /\ TaskShape(task[d], issued) /\ task[d] \in Tasks
      /\ have[d] \in Tabs \cup {NoTab} /\ Holder(d)
      /\ home \in [Tabs -> issued \cup {NoBrowser}]
  BY DEF PoolTyped, PoolTypeOK, PoolShape, Holders
<1>1. Held(d)' = Held(d)
  BY DEF Held
<1>2. ASSUME have[d] # NoTab
      PROVE  /\ Idle(d)' /\ home'[have[d]] # NoBrowser
             /\ have[d] \in inst'[home'[have[d]]].tabIds
  <2>1. Idle(d) /\ Held(d) = have[d] /\ have[d] \in Tabs \ {t}
    BY <1>2, <1>t DEF Held, Holder, Idle, TabAwaits, CloseAwaits
  <2>2. home[have[d]] \in issued /\ have[d] \in inst[home[have[d]]].tabIds
    BY <1>2, <1>t, <2>1 DEF Holder
  <2>3. home'[have[d]] = home[have[d]] /\ home[have[d]] # NoBrowser
    BY <1>2, <1>t, <2>1 DEF Holder, Elsewhere
  <2>4. QED
    BY <2>1, <2>2, <2>3 DEF Elsewhere, Idle
<1>3. ASSUME task[d].at \in TabAwaits
      PROVE  /\ home'[task[d].t] = task[d].b
             /\ task[d].t \in active' => task[d].t \in active
             /\ task[d].t \in inst'[task[d].b].tabIds
                  <=> task[d].t \in inst[task[d].b].tabIds
  <2>1. task[d].t \in Tabs \ {t} /\ task[d].b \in issued
    BY <1>3, <1>t DEF Held, TaskShape, Placed
  <2>2. home[task[d].t] = task[d].b /\ home[task[d].t] # NoBrowser
    BY <1>3, <1>t, <2>1 DEF Holder, PoolTypeOK
  <2>3. QED
    BY <2>1, <2>2 DEF Elsewhere
<1>4. QED
  BY <1>1, <1>2, <1>3, <1>t DEF Holder, TabAwaits

\* Caller c moves the tab it holds, or takes one that nobody has had.
LEMMA HoldersKept ==
  ASSUME PoolTyped, Holders, TabBooks, NEW c \in Callers, NEW t, Elsewhere(t),
         \A d \in Callers \ {c} : task'[d] = task[d] /\ have'[d] = have[d],
         t = Held(c) \/ (t \in Tabs /\ home[t] = NoBrowser),
         Holder(c)', Held(c)' \in {NoTab, t}
  PROVE  Holders'
<1> USE PoolAssumption DEF Procs
<1>1. ASSUME NEW d \in Callers PROVE Held(d) = NoTab \/ home[Held(d)] # NoBrowser
  BY DEF Holders, Holder, Held, PoolTyped, PoolTypeOK, PoolShape, TaskShape, Placed
<1>2. ASSUME NEW d \in Callers \ {c} PROVE Held(d) = NoTab \/ Held(d) # t
  BY <1>1 DEF Holders
<1>3. \A d \in Callers \ {c} : Holder(d)' /\ Held(d)' = Held(d)
  BY <1>2, OthersHold
<1>4. ASSUME NEW d \in Callers, NEW e \in Callers, d # e
      PROVE  Held(d)' = NoTab \/ Held(d)' # Held(e)'
  BY <1>2, <1>3, <1>4 DEF Holders
<1>5. QED
  BY <1>3, <1>4 DEF Holders

\* The steps of sweepers and of the world move no tab of a caller.
LEMMA AllHold ==
  ASSUME PoolTyped, Holders, Elsewhere(NoTab),
         \A d \in Callers : task'[d] = task[d] /\ have'[d] = have[d]
  PROVE  Holders'
<1>1. \A d \in Callers : Holder(d)' /\ Held(d)' = Held(d)
  BY OthersHold
<1>2. QED
  BY <1>1 DEF Holders

\* What counting a tab and counting it off set.
LEMMA CounterFields ==
  ASSUME NEW i \in Instances, NEW t
  PROVE  /\ WithTab(i, t).openTabs = i.openTabs + 1
         /\ WithTab(i, t).tabIds = i.tabIds \cup {t}
         /\ WithoutTab(i, t).openTabs = IF i.openTabs = 0 THEN 0 ELSE i.openTabs - 1
         /\ WithoutTab(i, t).tabIds = i.tabIds \ {t}
BY DEF WithTab, WithoutTab, Instances

\* A tab that is counted once and counted off once leaves the count right.
LEMMA CountKept ==
  ASSUME NEW i \in Instances, NEW t \in Tabs, i.openTabs = Cardinality(i.tabIds)
  PROVE  /\ t \notin i.tabIds =>
              WithTab(i, t).openTabs = Cardinality(WithTab(i, t).tabIds)
         /\ t \in i.tabIds =>
              WithoutTab(i, t).openTabs = Cardinality(WithoutTab(i, t).tabIds)
<1>1. IsFiniteSet(i.tabIds) /\ i.tabIds \in SUBSET Tabs /\ i.openTabs \in Nat
  BY PoolAssumption, FS_Subset DEF Instances
<1>4. ASSUME t \in i.tabIds PROVE i.openTabs # 0
  BY <1>1, <1>4, FS_EmptySet
<1>5. ASSUME t \notin i.tabIds
      PROVE  Cardinality(i.tabIds \cup {t}) = i.openTabs + 1
  BY <1>1, <1>5, FS_AddElement
<1>6. ASSUME t \in i.tabIds
      PROVE  Cardinality(i.tabIds \ {t}) = i.openTabs - 1
  <2>1. Cardinality(i.tabIds \ {t}) = Cardinality(i.tabIds) - 1
    BY <1>1, <1>6, FS_RemoveElement
  <2>2. QED
    BY <2>1
<1>7. QED
  BY <1>4, <1>5, <1>6, CounterFields

\* A step that leaves what each browser counts alone.
LEMMA BooksKept ==
  ASSUME PoolTyped, TabBooks,
         \A b \in Browsers : /\ inst'[b].openTabs = inst[b].openTabs
                             /\ inst'[b].tabIds = inst[b].tabIds,
         \A u \in Tabs : home[u] # NoBrowser => home'[u] = home[u],
         active' \subseteq active, ActivePagesOpen'
  PROVE  TabBooks'
<1> USE PoolAssumption
<1>1. \A b \in Browsers : TabsOf(b) \subseteq TabsOf(b)'
  BY DEF TabsOf, PoolTyped, PoolTypeOK
<1>2. QED
  BY <1>1 DEF TabBooks, TabsCounted, PoolTyped, PoolTypeOK

LEMMA HeldCaller ==
  ASSUME PoolTyped, PoolTyped', TabsHeld, NEW c \in Callers,
         \/ ChooseBrowser(c) \/ CheckSize(c) \/ CheckTabs(c) \/ NewPage(c)
         \/ NewPageFails(c) \/ CloseBad(c) \/ Register(c) \/ StartClose(c)
         \/ Forget(c) \/ ClosePage(c) \/ DropTab(c) \/ Uncount(c)
  PROVE  TabsHeld'
<1> USE PoolAssumption DEF Procs
<1>t. /\ PoolTypeOK /\ TaskShape(task[c], issued) /\ task[c] \in Tasks
      /\ task \in [Procs -> Tasks] /\ have \in [Callers -> Tabs \cup {NoTab}]
      /\ home \in [Tabs -> issued \cup {NoBrowser}] /\ issued \subseteq Browsers
      /\ NoBrowser \notin issued /\ inst \in [Browsers -> Instances]
  BY DEF PoolTyped, PoolTypeOK, PoolShape
<1>h. Holders /\ TabBooks /\ Holder(c)
  BY DEF TabsHeld, Holders
<1>q. ASSUME UNCHANGED <<home, inst>>, active' \subseteq active, ActivePagesOpen'
      PROVE  TabBooks' /\ \A t : Elsewhere(t)
  BY <1>q, <1>h, BooksKept DEF Elsewhere
<1>n. NoTask.at \notin TabAwaits /\ NoTask.at = "idle"
  BY DEF NoTask, TabAwaits, CloseAwaits
\* Nothing held before, nothing held after.
<1>e. ASSUME \A d \in Callers \ {c} : task'[d] = task[d], UNCHANGED <<have, chromeVars, home, inst>>,
             have[c] = NoTab, task[c].at \notin TabAwaits, task'[c].at \notin TabAwaits
      PROVE  TabsHeld'
  <2>1. TabBooks' /\ Elsewhere(NoTab)
    BY <1>e, <1>h, <1>q DEF chromeVars, TabBooks, ActivePagesOpen
  <2>2. Held(c) = NoTab /\ Held(c)' = NoTab /\ Holder(c)'
    BY <1>e DEF Held, Holder, TabAwaits
  <2>3. \A d \in Callers \ {c} : task'[d] = task[d] /\ have'[d] = have[d]
    BY <1>e
  <2>4. QED
    BY <1>h, <2>1, <2>2, <2>3, HoldersKept DEF TabsHeld
<1>1. CASE ChooseBrowser(c) \/ CheckSize(c) \/ CheckTabs(c) \/ NewPageFails(c)
  <2>1. /\ UNCHANGED <<have, chromeVars, home, inst>>
        /\ \A d \in Callers \ {c} : task'[d] = task[d]
    BY <1>1, <1>t DEF ChooseBrowser, CheckSize, CheckTabs, NewPageFails, Finish,
       MoveTo, poolVars, tabVars
  <2>2. have[c] = NoTab /\ task[c].at \notin TabAwaits /\ task'[c].at \notin TabAwaits
    <3>1. CASE ChooseBrowser(c)
      <4>1. Idle(c) /\ have[c] = NoTab
        BY <3>1 DEF ChooseBrowser
      <4>2. task'[c].at \in {"none", "chosen"}
        <5>1. CASE task' = [task EXCEPT ![c] = [NoTask EXCEPT !.op = "open", !.at = "none"]]
          BY <1>t, <5>1 DEF NoTask
        <5>2. ASSUME NEW b, task' = [task EXCEPT ![c] = [NoTask EXCEPT !.op = "open",
                                                           !.at = "chosen", !.b = b]]
              PROVE  task'[c].at = "chosen"
          BY <1>t, <5>2 DEF NoTask
        <5>3. QED
          BY <3>1, <5>1, <5>2 DEF ChooseBrowser
      <4>3. QED
        BY <4>1, <4>2 DEF Idle, TabAwaits, CloseAwaits
    <3>2. CASE CheckSize(c) \/ CheckTabs(c) \/ NewPageFails(c)
      <4>1. task[c].at \in {"none", "chosen", "newPage"}
        BY <3>2 DEF CheckSize, CheckTabs, NewPageFails
      <4>2. task'[c].at \in {"launch", "newPage", "idle"}
        <5>1. \/ Finish(c) \/ MoveTo(c, "launch") \/ MoveTo(c, "newPage")
          BY <3>2 DEF CheckSize, CheckTabs, NewPageFails
        <5>2. ASSUME NEW at, MoveTo(c, at) PROVE task'[c].at = at
          BY <1>t, <5>2 DEF MoveTo, Tasks
        <5>3. Finish(c) => task'[c].at = "idle"
          BY <1>t, <1>n DEF Finish
        <5>4. QED
          BY <5>1, <5>2, <5>3
      <4>3. QED
        BY <1>h, <4>1, <4>2 DEF Holder, Idle, TabAwaits, CloseAwaits
    <3>3. QED
      BY <1>1, <3>1, <3>2
  <2>3. QED
    BY <1>e, <2>1, <2>2
<1>2. CASE NewPage(c)
  <2> PICK t \in Tabs :
        /\ home[t] = NoBrowser /\ home' = [home EXCEPT ![t] = task[c].b]
        /\ open' = open \cup {t}
        /\ \E at \in {"register", "closeBad"} :
             task' = [task EXCEPT ![c].at = at, ![c].t = t]
    BY <1>2 DEF NewPage
  <2>1. /\ UNCHANGED <<active, have, inst>> /\ task[c].at = "newPage"
        /\ \A d \in Callers \ {c} : task'[d] = task[d]
    BY <1>2, <1>t DEF NewPage, poolVars
  <2>2. /\ task[c].b \in issued /\ have[c] = NoTab
        /\ task'[c].at \in {"register", "closeBad"} /\ task'[c].t = t
        /\ task'[c].b = task[c].b
    BY <1>t, <1>h, <2>1 DEF TaskShape, Placed, Holder, Idle
  <2>3. t \notin active /\ t \notin inst[task[c].b].tabIds
    BY <1>t, <1>h, <2>2 DEF TabBooks, TabsOf
  <2>4. Holder(c)' /\ Held(c)' = t
    BY <1>t, <2>1, <2>2, <2>3 DEF Holder, Held, TabAwaits, CloseAwaits
  <2>5. Elsewhere(t)
    BY <1>t, <2>1 DEF Elsewhere
  <2>6. TabBooks'
    BY <1>t, <1>h, <2>1, BooksKept DEF TabBooks, ActivePagesOpen
  <2>7. QED
    BY <1>h, <2>1, <2>4, <2>5, <2>6, HoldersKept DEF TabsHeld
<1>3. CASE CloseBad(c)
  <2> DEFINE t == task[c].t
  <2>1. /\ UNCHANGED <<active, have, inst, home>> /\ task[c].at = "closeBad"
        /\ task' = [task EXCEPT ![c] = NoTask]
        /\ open' \in {open, open \ {t}}
    BY <1>3 DEF CloseBad, poolVars, tabVars, Finish
  <2>2. t \notin active /\ have[c] = NoTab /\ Held(c) = t
    BY <1>h, <2>1 DEF Holder, Idle, Held, TabAwaits
  <2>3. ActivePagesOpen'
    BY <1>h, <2>1, <2>2 DEF TabBooks, ActivePagesOpen
  <2>4. TabBooks' /\ Elsewhere(t)
    BY <1>q, <2>1, <2>3
  <2>5. /\ Holder(c)' /\ Held(c)' = NoTab
        /\ \A d \in Callers \ {c} : task'[d] = task[d] /\ have'[d] = have[d]
    BY <1>t, <1>n, <2>1, <2>2 DEF Holder, Held, TabAwaits, CloseAwaits
  <2>6. QED
    BY <1>h, <2>2, <2>4, <2>5, HoldersKept DEF TabsHeld
<1>4. CASE Register(c)
  <2> DEFINE t == task[c].t
             b == task[c].b
  <2>1. /\ task[c].at = "register" /\ UNCHANGED <<issued, open, home>>
        /\ task' = [task EXCEPT ![c] = NoTask]
    BY <1>4 DEF Register, Finish
  <2>2. /\ t \in Tabs /\ b \in issued /\ home[t] = b /\ have[c] = NoTab
        /\ Held(c) = t /\ t \notin active /\ t \notin inst[b].tabIds
    BY <1>t, <1>h, <2>1 DEF Holder, Idle, Held, TaskShape, Placed, TabAwaits
  <2>3. CASE /\ t \in open /\ active' = active \cup {t}
             /\ inst' = [inst EXCEPT ![b] = WithTab(@, t)]
             /\ have' = [have EXCEPT ![c] = t]
    <3>1. /\ b \in Browsers /\ inst[b] \in Instances
          /\ inst'[b] = WithTab(inst[b], t)
          /\ inst'[b].tabIds = inst[b].tabIds \cup {t}
          /\ \A d \in Browsers \ {b} : inst'[d] = inst[d]
      BY <1>t, <2>2, <2>3, CounterFields
    <3>2. Elsewhere(t)
      BY <1>t, <2>1, <2>3, <3>1 DEF Elsewhere
    <3>3. Holder(c)' /\ Held(c)' = t
      <4>1. task'[c] = NoTask /\ have'[c] = t /\ home'[t] = b /\ t \in inst'[b].tabIds
        BY <1>t, <2>1, <2>2, <2>3, <3>1
      <4>2. QED
        BY <1>n, <1>t, <2>2, <4>1 DEF Holder, Held, Idle, TabAwaits, CloseAwaits
    <3>4. \A d \in Callers \ {c} : task'[d] = task[d] /\ have'[d] = have[d]
      BY <1>t, <2>1, <2>3
    <3>5. Holders'
      BY <1>h, <2>2, <3>2, <3>3, <3>4, HoldersKept
    <3>6. TabsCounted'
      BY <1>h, <2>2, <3>1, CountKept DEF TabBooks, TabsCounted
    <3>7. \A d \in Browsers : (inst[d].tabIds \subseteq TabsOf(d))'
      BY <1>h, <2>1, <2>2, <3>1 DEF TabBooks, TabsOf
    <3>8. (\A u \in active : home[u] # NoBrowser)' /\ ActivePagesOpen'
      BY <1>h, <1>t, <2>1, <2>2, <2>3 DEF TabBooks, ActivePagesOpen
    <3>9. QED
      BY <3>5, <3>6, <3>7, <3>8 DEF TabsHeld, TabBooks
  <2>4. CASE UNCHANGED <<active, inst, have>>
    <3>1. TabBooks' /\ Elsewhere(t)
      BY <1>h, <1>q, <2>1, <2>4 DEF TabBooks, ActivePagesOpen
    <3>2. /\ Holder(c)' /\ Held(c)' = NoTab
          /\ \A d \in Callers \ {c} : task'[d] = task[d] /\ have'[d] = have[d]
      BY <1>t, <1>n, <2>1, <2>2, <2>4 DEF Holder, Held, TabAwaits, CloseAwaits
    <3>3. QED
      BY <1>h, <2>2, <3>1, <3>2, HoldersKept DEF TabsHeld
  <2>5. QED
    BY <1>4, <2>3, <2>4 DEF Register
<1>5. CASE StartClose(c) \/ Forget(c)
  <2> DEFINE t == have[c]
  <2>1. /\ Idle(c) /\ t # NoTab /\ have' = [have EXCEPT ![c] = NoTab]
        /\ UNCHANGED <<inst, home, active, open>>
    BY <1>5 DEF StartClose, Forget, poolVars, chromeVars, tabVars
  <2>2. /\ t \in Tabs /\ Held(c) = t /\ home[t] \in issued
        /\ t \in inst[home[t]].tabIds
    BY <1>t, <1>h, <2>1 DEF Holder, Held, Idle, TabAwaits, CloseAwaits
  <2>3. TabBooks' /\ Elsewhere(t)
    BY <1>h, <1>q, <2>1 DEF TabBooks, ActivePagesOpen
  <2>4. \/ task' = task
        \/ \E at \in {"closePage", "dropTab"} :
             task' = [task EXCEPT ![c] = [NoTask EXCEPT !.op = "close", !.b = home[t],
                                            !.t = t, !.at = at]]
    BY <1>5 DEF StartClose, Forget
  <2>5. Holder(c)' /\ Held(c)' \in {NoTab, t}
    <3>1. CASE task' = task
      BY <1>t, <2>1, <3>1 DEF Holder, Held, Idle, TabAwaits, CloseAwaits
    <3>2. ASSUME NEW at \in {"closePage", "dropTab"},
                 task' = [task EXCEPT ![c] = [NoTask EXCEPT !.op = "close",
                            !.b = home[t], !.t = t, !.at = at]]
          PROVE  Holder(c)' /\ Held(c)' = t
      <4>1. task'[c].at = at /\ task'[c].b = home[t] /\ task'[c].t = t /\ have'[c] = NoTab
        BY <1>t, <2>1, <3>2 DEF NoTask
      <4>2. QED
        BY <2>1, <2>2, <4>1 DEF Holder, Held, TabAwaits, CloseAwaits
    <3>3. QED
      BY <2>4, <3>1, <3>2
  <2>6. \A d \in Callers \ {c} : task'[d] = task[d] /\ have'[d] = have[d]
    BY <1>t, <2>1, <2>4
  <2>7. QED
    BY <1>h, <2>2, <2>3, <2>5, <2>6, HoldersKept DEF TabsHeld
<1>6. CASE ClosePage(c)
  <2> DEFINE t == task[c].t
  <2>1. /\ task[c].at = "closePage" /\ UNCHANGED <<have, inst, home>>
        /\ active' = active \ {t} /\ open' \in {open, open \ {t}}
        /\ task' = [task EXCEPT ![c].at = "dropTab"]
    BY <1>6 DEF ClosePage, MoveTo, poolVars, tabVars
  <2>2. Held(c) = t /\ have[c] = NoTab
    BY <1>h, <2>1 DEF Held, Holder, Idle, TabAwaits, CloseAwaits
  <2>3. TabBooks' /\ Elsewhere(t)
    BY <1>h, <1>q, <2>1 DEF TabBooks, ActivePagesOpen
  <2>4. task'[c].at = "dropTab" /\ task'[c].t = t /\ task'[c].b = task[c].b
    BY <1>t, <2>1
  <2>5. Holder(c)' /\ Held(c)' = t
    BY <1>h, <2>1, <2>2, <2>4 DEF Holder, Held, TabAwaits, CloseAwaits
  <2>6. \A d \in Callers \ {c} : task'[d] = task[d] /\ have'[d] = have[d]
    BY <1>t, <2>1
  <2>7. QED
    BY <1>h, <2>2, <2>3, <2>5, <2>6, HoldersKept DEF TabsHeld
<1>7. CASE DropTab(c) \/ Uncount(c)
  <2> DEFINE t == task[c].t
             b == task[c].b
  <2>1. /\ task[c].at \in {"dropTab", "uncount"} /\ UNCHANGED <<have, home, active, open, issued>>
        /\ \A d \in Callers \ {c} : task'[d] = task[d] /\ have'[d] = have[d]
        /\ \/ task'[c] = [task[c] EXCEPT !.at = "uncount"] /\ UNCHANGED inst
           \/ task'[c] = NoTask /\ UNCHANGED inst
           \/ task'[c] = NoTask /\ inst' = [inst EXCEPT ![b] = WithoutTab(@, t)]
    BY <1>7, <1>t DEF DropTab, Uncount, MoveTo, Finish, chromeVars, tabVars
  <2>2. /\ t \in Tabs /\ b \in issued /\ have[c] = NoTab /\ home[t] = b
        /\ Held(c) = t /\ t \in inst[b].tabIds
    BY <1>t, <1>h, <2>1 DEF Holder, Idle, Held, TaskShape, Placed, TabAwaits, CloseAwaits
  <2>3. Holder(c)' /\ Held(c)' \in {NoTab, t}
    <3>1. CASE task'[c] = [task[c] EXCEPT !.at = "uncount"] /\ UNCHANGED inst
      <4>1. task'[c].at = "uncount" /\ task'[c].t = t /\ task'[c].b = b /\ have'[c] = NoTab
        BY <1>t, <2>1, <2>2, <3>1 DEF Tasks
      <4>2. QED
        BY <2>1, <2>2, <3>1, <4>1 DEF Holder, Held, TabAwaits, CloseAwaits
    <3>2. CASE task'[c] = NoTask
      BY <1>n, <2>1, <2>2, <3>2 DEF Holder, Held, TabAwaits, CloseAwaits
    <3>3. QED
      BY <2>1, <3>1, <3>2
  <2>4. CASE UNCHANGED inst
    <3>1. TabBooks' /\ Elsewhere(t)
      BY <1>h, <1>q, <2>1, <2>4 DEF TabBooks, ActivePagesOpen
    <3>2. QED
      BY <1>h, <2>1, <2>2, <2>3, <3>1, HoldersKept DEF TabsHeld
  <2>5. CASE inst' = [inst EXCEPT ![b] = WithoutTab(@, t)]
    <3>1. /\ b \in Browsers /\ inst[b] \in Instances
          /\ inst'[b] = WithoutTab(inst[b], t)
          /\ inst'[b].tabIds = inst[b].tabIds \ {t}
          /\ \A d \in Browsers \ {b} : inst'[d] = inst[d]
      BY <1>t, <2>2, <2>5, CounterFields
    <3>2. Elsewhere(t)
      BY <1>t, <2>1, <3>1 DEF Elsewhere
    <3>3. Holders'
      BY <1>h, <2>1, <2>2, <2>3, <3>2, HoldersKept
    <3>4. TabsCounted'
      BY <1>h, <2>2, <3>1, CountKept DEF TabBooks, TabsCounted
    <3>5. \A d \in Browsers : (inst[d].tabIds \subseteq TabsOf(d))'
      BY <1>h, <2>1, <2>2, <3>1 DEF TabBooks, TabsOf
    <3>6. QED
      BY <1>h, <2>1, <3>3, <3>4, <3>5 DEF TabsHeld, TabBooks, ActivePagesOpen
  <2>6. QED
    BY <2>1, <2>4, <2>5
<1>8. QED
  BY <1>1, <1>2, <1>3, <1>4, <1>5, <1>6, <1>7

\* Sweepers take no tab into their hands; a closing browser loses open pages only
\* together with its active ones.
LEMMA HeldSweeper ==
  ASSUME PoolTyped, PoolTyped', TabsHeld, NEW s \in Sweepers,
         \/ StartCleanup(s) \/ StartHealth(s) \/ StartPreWarm(s) \/ Visit(s)
         \/ Check(s) \/ Release(s) \/ ListKeys(s) \/ CloseTabs(s)
         \/ ClosePages(s) \/ CloseChrome(s) \/ CloseFails(s) \/ Closed(s)
         \/ Remove(s)
  PROVE  TabsHeld'
<1> USE PoolAssumption DEF Procs
<1>t. /\ PoolTypeOK /\ task \in [Procs -> Tasks] /\ inst \in [Browsers -> Instances]
  BY DEF PoolTyped, PoolTypeOK
<1>1. \A d \in Callers : task'[d] = task[d]
  <2>1. \/ \E k : task' = [task EXCEPT ![s] = k]
        \/ task' = task
    BY DEF StartCleanup, StartHealth, StartPreWarm, StartSweep, Visit, Check, Release,
       ListKeys, CloseTabs, ClosePages, CloseChrome, CloseFails, Closed, Remove,
       MoveTo, Finish
  <2>2. QED
    BY <2>1, <1>t
<1>2. UNCHANGED <<have, home, issued>>
  BY DEF StartCleanup, StartHealth, StartPreWarm, StartSweep, Visit, Check, Release,
     ListKeys, CloseTabs, ClosePages, CloseChrome, CloseFails, Closed, Remove,
     poolVars, tabVars
<1>3. \A b \in Browsers : /\ inst'[b].openTabs = inst[b].openTabs
                          /\ inst'[b].tabIds = inst[b].tabIds
  <2>1. \/ inst' = inst
        \/ \E b \in Browsers : inst' = [inst EXCEPT ![b].state = "CLOSING"]
        \/ \E b \in Browsers, v \in BOOLEAN : inst' = [inst EXCEPT ![b].healthy = v]
    <3>1. CASE Visit(s)
      BY <1>t, <3>1 DEF Visit, Tasks
    <3>2. CASE Check(s)
      <4>1. task[s].b \in Browsers
        BY <1>t, <3>2 DEF Check, PoolTyped, PoolShape, TaskShape, Placed, PoolTypeOK
      <4>2. \/ inst' = [inst EXCEPT ![task[s].b].healthy = TRUE]
            \/ inst' = [inst EXCEPT ![task[s].b].healthy = FALSE]
        BY <3>2 DEF Check
      <4>3. QED
        BY <4>1, <4>2
    <3>3. CASE Release(s)
      BY <1>t, <3>3 DEF Release, PoolTyped, PoolShape, TaskShape, Placed
    <3>4. CASE ~Visit(s) /\ ~Check(s) /\ ~Release(s)
      BY <3>4 DEF StartCleanup, StartHealth, StartPreWarm, StartSweep,
         ListKeys, CloseTabs, ClosePages, CloseChrome, CloseFails, Closed, Remove,
         poolVars
    <3>5. QED
      BY <3>1, <3>2, <3>3, <3>4
  <2>2. QED
    BY <1>t, <2>1 DEF Instances
<1>4. active' \subseteq active /\ ActivePagesOpen'
  <2>1. \/ UNCHANGED <<active, open>>
        \/ \E t \in Tabs : open' = open \ {t} /\ active' = active \ {t}
        \/ \E b : Kill(b)
    <3>1. CASE ClosePages(s)
      BY <1>t, <3>1 DEF ClosePages, PoolTyped, PoolTypeOK
    <3>2. CASE ~ClosePages(s)
      BY <3>2 DEF StartCleanup, StartHealth, StartPreWarm, StartSweep, Visit, Check,
         Release, ListKeys, CloseTabs, CloseChrome, CloseFails, Closed, Remove,
         chromeVars
    <3>3. QED
      BY <3>1, <3>2
  <2>2. QED
    BY <2>1 DEF Kill, TabsHeld, TabBooks, ActivePagesOpen
<1>5. Elsewhere(NoTab)
  BY <1>t, <1>2, <1>3, <1>4 DEF Elsewhere, PoolTypeOK
<1>6. QED
  BY <1>1, <1>2, <1>3, <1>4, <1>5, AllHold, BooksKept DEF TabsHeld

\* A browser that is launched has no tabs yet.
LEMMA HeldLaunch ==
  ASSUME PoolTyped, PoolTyped', TabsHeld, NEW p \in Procs, Launch(p) \/ LaunchFails(p)
  PROVE  TabsHeld'
<1> USE PoolAssumption DEF Procs
<1>t. /\ PoolTypeOK /\ task \in [Procs -> Tasks] /\ task[p] \in Tasks
      /\ inst \in [Browsers -> Instances]
      /\ home \in [Tabs -> issued \cup {NoBrowser}] /\ issued \subseteq Browsers
  BY DEF PoolTyped, PoolTypeOK, PoolShape
<1>1. /\ UNCHANGED <<have, home, active, open>> /\ task[p].at = "launch"
      /\ \A d \in Procs \ {p} : task'[d] = task[d]
      /\ task'[p].at \in {"chosen", "next", "idle"}
  <2>1. UNCHANGED <<have, home, active, open>> /\ task[p].at = "launch"
    BY DEF Launch, LaunchFails, chromeVars, tabVars
  <2>2. \/ \E b : task' = [task EXCEPT ![p].at = "chosen", ![p].b = b]
        \/ task' = [task EXCEPT ![p].at = "next", ![p].more = @ - 1]
        \/ task' = [task EXCEPT ![p] = NoTask]
    BY DEF Launch, LaunchFails, Finish
  <2>3. ASSUME NEW b, task' = [task EXCEPT ![p].at = "chosen", ![p].b = b]
        PROVE  task'[p].at = "chosen"
    BY <1>t, <2>3 DEF Tasks
  <2>4. task' = [task EXCEPT ![p].at = "next", ![p].more = @ - 1] => task'[p].at = "next"
    BY <1>t DEF Tasks
  <2>5. task' = [task EXCEPT ![p] = NoTask] => task'[p].at = "idle"
    BY <1>t DEF NoTask
  <2>6. \A d \in Procs \ {p} : task'[d] = task[d]
    BY <1>t, <2>2
  <2>7. QED
    BY <2>1, <2>2, <2>3, <2>4, <2>5, <2>6
<1>2. \/ inst' = inst
      \/ \E b \in Browsers \ issued : inst' = [inst EXCEPT ![b] = FreshInstance]
  BY DEF Launch, LaunchFails, poolVars
<1>3. \A b \in issued : inst'[b] = inst[b]
  BY <1>t, <1>2
<1>4. Elsewhere(NoTab)
  BY <1>1, <1>3 DEF Elsewhere
<1>5. Holders'
  <2>1. CASE p \notin Callers
    BY <1>1, <1>4, <2>1, AllHold DEF TabsHeld
  <2>2. CASE p \in Callers
    <3>1. have[p] = NoTab /\ Held(p) = NoTab
      BY <1>1, <2>2 DEF TabsHeld, Holders, Holder, Idle, Held, TabAwaits, CloseAwaits
    <3>2. Holder(p)' /\ Held(p)' = NoTab
      BY <1>1, <3>1 DEF Holder, Held, TabAwaits, CloseAwaits
    <3>3. QED
      BY <1>1, <1>4, <2>2, <3>1, <3>2, HoldersKept DEF TabsHeld
  <2>3. QED
    BY <2>1, <2>2
<1>6. TabBooks'
  <2>1. FreshInstance.openTabs = 0 /\ FreshInstance.tabIds = {}
    BY DEF FreshInstance
  <2>2. Cardinality({}) = 0
    BY FS_EmptySet
  <2>3. ASSUME NEW b \in Browsers
        PROVE  /\ inst'[b].tabIds \subseteq TabsOf(b)
               /\ inst'[b].openTabs = Cardinality(inst'[b].tabIds)
    <3>1. CASE inst'[b] = inst[b]
      BY <3>1 DEF TabsHeld, TabBooks, TabsCounted
    <3>2. CASE inst'[b] = FreshInstance
      BY <2>1, <2>2, <3>2
    <3>3. QED
      BY <1>2, <1>t, <3>1, <3>2
  <2>4. \A b \in Browsers : TabsOf(b)' = TabsOf(b)
    BY <1>1 DEF TabsOf
  <2>5. QED
    BY <1>1, <2>3, <2>4 DEF TabsHeld, TabBooks, TabsCounted, ActivePagesOpen
<1>7. QED
  BY <1>5, <1>6 DEF TabsHeld

LEMMA HeldWorld ==
  ASSUME PoolTyped, TabsHeld,
         \/ \E b \in Browsers : Expire(b) \/ ExpireRecord(b) \/ ChromeDies(b)
         \/ \E t \in Tabs : PageCrashes(t)
         \/ Restart
         \/ UNCHANGED poolSystemVars
  PROVE  TabsHeld'
<1> USE PoolAssumption DEF Procs
<1>t. /\ PoolTypeOK /\ task \in [Procs -> Tasks] /\ have \in [Callers -> Tabs \cup {NoTab}]
      /\ inst \in [Browsers -> Instances] /\ Holders /\ TabBooks /\ issued \subseteq Browsers
  BY DEF PoolTyped, PoolTypeOK, TabsHeld
<1>1. CASE Restart
  <2>1. /\ active' = {} /\ open' = {} /\ UNCHANGED <<inst, home>>
        /\ \A c \in Callers : task'[c] = NoTask /\ have'[c] = NoTab
    BY <1>1 DEF Restart
  <2>2. \A c \in Callers : Holder(c)' /\ Held(c)' = NoTab
    BY <2>1 DEF Holder, Held, NoTask, TabAwaits, CloseAwaits
  <2>3. TabBooks'
    BY <1>t, <2>1, BooksKept DEF ActivePagesOpen
  <2>4. QED
    BY <2>2, <2>3 DEF TabsHeld, Holders
<1>2. CASE ~Restart
  <2>1. UNCHANGED <<task, have, home, issued>>
    BY <1>2 DEF Expire, ExpireRecord, ChromeDies, PageCrashes, poolSystemVars, poolVars,
       tabVars
  <2>2. \A b \in Browsers : /\ inst'[b].openTabs = inst[b].openTabs
                            /\ inst'[b].tabIds = inst[b].tabIds
    <3>1. inst' = inst \/ \E b \in Browsers : inst' = [inst EXCEPT ![b].expired = TRUE]
      BY <1>2 DEF Expire, ExpireRecord, ChromeDies, PageCrashes, poolSystemVars, poolVars
    <3>2. QED
      BY <1>t, <3>1 DEF Instances
  <2>3. active' \subseteq active /\ ActivePagesOpen'
    BY <1>2, <1>t DEF Expire, ExpireRecord, ChromeDies, PageCrashes, poolSystemVars,
       chromeVars, Kill, TabBooks, ActivePagesOpen
  <2>4. Elsewhere(NoTab)
    BY <1>t, <2>1, <2>2, <2>3 DEF Elsewhere
  <2>5. QED
    BY <1>t, <2>1, <2>2, <2>3, <2>4, AllHold, BooksKept DEF TabsHeld
<1>3. QED
  BY <1>1, <1>2

LEMMA InitHeld == PoolInit => TabsHeld
<1> SUFFICES ASSUME PoolInit PROVE TabsHeld
    OBVIOUS
<1>1. \A c \in Callers : task[c] = NoTask /\ have[c] = NoTab
  BY DEF PoolInit, Procs
<1>2. \A c \in Callers : Holder(c) /\ Held(c) = NoTab
  BY <1>1 DEF Holder, Held, NoTask, TabAwaits, CloseAwaits
<1>3. Cardinality({}) = 0
  BY FS_EmptySet
<1>4. TabBooks
  BY <1>3 DEF PoolInit, TabBooks, TabsOf, TabsCounted, ActivePagesOpen, FreshInstance
<1>5. QED
  BY <1>2, <1>4 DEF TabsHeld, Holders

LEMMA AlwaysHeld == PoolSpec => []TabsHeld
<1>1. PoolTyped /\ PoolTyped' /\ TabsHeld /\ [PoolNext]_poolSystemVars => TabsHeld'
  BY PoolSteps, HeldCaller, HeldSweeper, HeldLaunch, HeldWorld
<1>2. QED
  BY <1>1, InitHeld, AlwaysTyped, PTL DEF PoolSpec

\* openTabs is the number of tabIds: no interleaving of callers, closings, failing
\* commands and restarts counts a tab twice or counts it off twice.
THEOREM TabsAlwaysCounted == PoolSpec => []TabsCounted
<1>1. TabsHeld => TabsCounted
  BY DEF TabsHeld, TabBooks
<1>2. QED
  BY <1>1, AlwaysHeld, PTL

\* A page that can be handed out is open, although browsers close, crash and are
\* cleaned up while tabs are created in them.
THEOREM ActivePagesStayOpen == PoolSpec => []ActivePagesOpen
<1>1. TabsHeld => ActivePagesOpen
  BY DEF TabsHeld, TabBooks
<1>2. QED
  BY <1>1, AlwaysHeld, PTL
-----------------------------------------------------------------------------
(* Chromium processes and the pool, when no health check releases browsers      *)

InPool ==
  /\ ProcessesInPool
  /\ \A p \in Procs : task[p].op # "health"
  /\ \A s \in Sweepers :
       task[s].at \in {"closed", "remove"} => task[s].b \notin alive

\* A step of one process that ends at most its browser's Chromium.
LEMMA InPoolKept ==
  ASSUME InPool, task \in [Procs -> Tasks], NEW p \in Procs, NEW k,
         task' = [task EXCEPT ![p] = k], k.op # "health",
         alive' \subseteq alive, pool \cap alive' \subseteq pool',
         k.at \in {"closed", "remove"} => k.b \notin alive'
  PROVE  InPool'
BY DEF InPool, ProcessesInPool, Procs

LEMMA InPoolCaller ==
  ASSUME PoolTyped, InPool, NEW c \in Callers,
         \/ ChooseBrowser(c) \/ CheckSize(c) \/ CheckTabs(c) \/ NewPage(c)
         \/ NewPageFails(c) \/ CloseBad(c) \/ Register(c) \/ StartClose(c)
         \/ Forget(c) \/ ClosePage(c) \/ DropTab(c) \/ Uncount(c)
  PROVE  InPool'
<1> USE DEF Procs
<1>t. /\ task \in [Procs -> Tasks] /\ task[c] \in Tasks /\ c \notin Sweepers
  BY PoolAssumption DEF PoolTyped, PoolTypeOK
<1>1. UNCHANGED <<alive, pool>>
  BY DEF ChooseBrowser, CheckSize, CheckTabs, NewPage, NewPageFails, CloseBad, Register,
     StartClose, Forget, ClosePage, DropTab, Uncount, poolVars, chromeVars
<1>2. \/ task' = task
      \/ task' = [task EXCEPT ![c] = NoTask]
      \/ task' = [task EXCEPT ![c] = [NoTask EXCEPT !.op = "open", !.at = "none"]]
      \/ \E b : task' = [task EXCEPT ![c] = [NoTask EXCEPT !.op = "open", !.at = "chosen",
                                               !.b = b]]
      \/ \E at, t, b : task' = [task EXCEPT ![c] = [NoTask EXCEPT !.op = "close", !.b = b,
                                                      !.t = t, !.at = at]]
      \/ \E at : task' = [task EXCEPT ![c].at = at]
      \/ \E at, t : task' = [task EXCEPT ![c].at = at, ![c].t = t]
  BY DEF ChooseBrowser, CheckSize, CheckTabs, NewPage, NewPageFails, CloseBad, Register,
     StartClose, Forget, ClosePage, DropTab, Uncount, MoveTo, Finish
<1>3. task'[c].op # "health" /\ \A q \in Procs \ {c} : task'[q] = task[q]
  <2>1. task[c].op # "health" /\ NoTask.op = "none"
    BY DEF InPool, NoTask
  <2>2. ASSUME NEW at, task' = [task EXCEPT ![c].at = at] PROVE task'[c].op # "health"
    BY <1>t, <2>1, <2>2 DEF Tasks
  <2>3. ASSUME NEW at, NEW t, task' = [task EXCEPT ![c].at = at, ![c].t = t]
        PROVE  task'[c].op # "health"
    BY <1>t, <2>1, <2>3 DEF Tasks
  <2>4. ASSUME NEW b, task' = [task EXCEPT ![c] = [NoTask EXCEPT !.op = "open",
                                                     !.at = "chosen", !.b = b]]
        PROVE  task'[c].op # "health"
    BY <1>t, <2>4 DEF NoTask
  <2>5. ASSUME NEW at, NEW t, NEW b,
               task' = [task EXCEPT ![c] = [NoTask EXCEPT !.op = "close", !.b = b,
                                              !.t = t, !.at = at]]
        PROVE  task'[c].op # "health"
    BY <1>t, <2>5 DEF NoTask
  <2>6. task' = [task EXCEPT ![c] = [NoTask EXCEPT !.op = "open", !.at = "none"]]
          => task'[c].op # "health"
    BY <1>t DEF NoTask
  <2>7. \A q \in Procs \ {c} : task'[q] = task[q]
    BY <1>2, <1>t
  <2>8. task' = task \/ task' = [task EXCEPT ![c] = NoTask] => task'[c].op # "health"
    BY <1>t, <2>1
  <2>9. QED
    BY <1>2, <2>2, <2>3, <2>4, <2>5, <2>6, <2>7, <2>8
<1>4. QED
  BY <1>t, <1>1, <1>3 DEF InPool, ProcessesInPool

LEMMA InPoolSweeper ==
  ASSUME "health" \notin Sweeps, PoolTyped, InPool, NEW s \in Sweepers,
         \/ StartCleanup(s) \/ StartHealth(s) \/ StartPreWarm(s) \/ Visit(s)
         \/ Check(s) \/ Release(s) \/ ListKeys(s) \/ CloseTabs(s)
         \/ ClosePages(s) \/ CloseChrome(s) \/ CloseFails(s) \/ Closed(s)
         \/ Remove(s)
  PROVE  InPool'
<1> USE DEF Procs
<1>t. /\ task \in [Procs -> Tasks] /\ task[s] \in Tasks /\ task[s].op # "health"
  BY DEF PoolTyped, PoolTypeOK, InPool
\* One field after the other, or a task that has just begun.
<1>m. ASSUME NEW at, NEW b, NEW left, NEW doomed,
             task' = [task EXCEPT ![s] = [task[s] EXCEPT !.at = at, !.b = b, !.left = left,
                                                         !.doomed = doomed]],
             alive' \subseteq alive, pool \cap alive' \subseteq pool',
             at \in {"closed", "remove"} => b \notin alive'
      PROVE  InPool'
  <2> DEFINE k == [task[s] EXCEPT !.at = at, !.b = b, !.left = left, !.doomed = doomed]
  <2>1. k.op # "health" /\ k.at = at /\ k.b = b
    BY <1>t DEF Tasks
  <2>2. task' = [task EXCEPT ![s] = k]
    BY <1>m
  <2>3. QED
    <3> HIDE DEF k
    <3>1. QED
      BY <1>t, <1>m, <2>1, <2>2, InPoolKept
<1>a. ASSUME NEW at, MoveTo(s, at), alive' \subseteq alive, pool \cap alive' \subseteq pool',
             at \in {"closed", "remove"} => task[s].b \notin alive'
      PROVE  InPool'
  <2> DEFINE k == [task[s] EXCEPT !.at = at]
  <2>1. k.op # "health" /\ k.at = at /\ k.b = task[s].b
    BY <1>t DEF Tasks
  <2>2. task' = [task EXCEPT ![s] = k]
    BY <1>a DEF MoveTo
  <2>3. QED
    <3> HIDE DEF k
    <3>1. QED
      BY <1>t, <1>a, <2>1, <2>2, InPoolKept
<1>d. ASSUME NEW at, NEW doomed, UNCHANGED <<alive, pool>>, at \notin {"closed", "remove"},
             task' = [task EXCEPT ![s].at = at, ![s].doomed = doomed]
      PROVE  InPool'
  <2> DEFINE k == [task[s] EXCEPT !.at = at, !.doomed = doomed]
  <2>1. k.op # "health" /\ k.at = at
    BY <1>t DEF Tasks
  <2>2. task' = [task EXCEPT ![s] = k]
    BY <1>d
  <2>3. QED
    <3> HIDE DEF k
    <3>1. QED
      BY <1>t, <1>d, <2>1, <2>2, InPoolKept
<1>f. ASSUME Finish(s), UNCHANGED <<alive, pool>> PROVE InPool'
  <2>1. NoTask.op # "health" /\ NoTask.at \notin {"closed", "remove"}
    BY DEF NoTask
  <2>2. QED
    BY <1>t, <1>f, <2>1, InPoolKept DEF Finish
<1>1. CASE StartCleanup(s) \/ StartHealth(s) \/ StartPreWarm(s)
  <2>1. PICK op, left, more : op \in Sweeps /\ StartSweep(s, op, left, more)
    BY <1>1 DEF StartCleanup, StartHealth, StartPreWarm, StartSweep
  <2> DEFINE k == [NoTask EXCEPT !.op = op, !.at = "next", !.left = left, !.more = more]
  <2>2. k.op # "health" /\ k.at = "next"
    BY <2>1 DEF NoTask
  <2>3. task' = [task EXCEPT ![s] = k] /\ UNCHANGED <<alive, pool>>
    BY <2>1 DEF StartSweep, poolVars, chromeVars
  <2>4. QED
    <3> HIDE DEF k
    <3>1. QED
      BY <1>t, <2>2, <2>3, InPoolKept
<1>2. CASE Visit(s)
  <2>1. UNCHANGED <<alive, pool>>
    BY <1>2 DEF Visit, chromeVars
  <2>2. \/ Finish(s) \/ MoveTo(s, "launch")
        \/ \E b, left, doomed :
             task' = [task EXCEPT ![s].b = b, ![s].left = left, ![s].at = "tabKeys",
                                  ![s].doomed = doomed]
    <3>1. CASE task[s].op = "prewarm" \/ task[s].left = {}
      BY <1>2, <3>1 DEF Visit
    <3>2. ASSUME NEW b \in task[s].left,
                 task' = [task EXCEPT ![s].b = b, ![s].left = @ \ {b},
                   ![s].at = IF task[s].op = "health" THEN "check" ELSE "tabKeys",
                   ![s].doomed = IF task[s].op = "health" THEN {} ELSE TabsOf(b) \cap tabs]
          PROVE  task' = [task EXCEPT ![s].b = b, ![s].left = task[s].left \ {b},
                            ![s].at = "tabKeys", ![s].doomed = TabsOf(b) \cap tabs]
      BY <1>t, <3>2 DEF Tasks
    <3>3. CASE ~(task[s].op = "prewarm" \/ task[s].left = {})
      <4>1. \E b \in task[s].left :
              task' = [task EXCEPT ![s].b = b, ![s].left = @ \ {b},
                ![s].at = IF task[s].op = "health" THEN "check" ELSE "tabKeys",
                ![s].doomed = IF task[s].op = "health" THEN {} ELSE TabsOf(b) \cap tabs]
        BY <1>2, <3>3 DEF Visit
      <4>2. PICK b \in task[s].left :
              task' = [task EXCEPT ![s].b = b, ![s].left = task[s].left \ {b},
                         ![s].at = "tabKeys", ![s].doomed = TabsOf(b) \cap tabs]
        BY <3>2, <4>1
      <4>3. QED
        BY <4>2
    <3>4. QED
      BY <3>1, <3>3
  <2>3. ASSUME NEW b, NEW left, NEW doomed,
               task' = [task EXCEPT ![s].b = b, ![s].left = left, ![s].at = "tabKeys",
                                    ![s].doomed = doomed]
        PROVE  InPool'
    <3> DEFINE k == [task[s] EXCEPT !.b = b, !.left = left, !.at = "tabKeys",
                                    !.doomed = doomed]
    <3>1. k.op # "health" /\ k.at = "tabKeys"
      BY <1>t DEF Tasks
    <3>2. task' = [task EXCEPT ![s] = k]
      BY <2>3
    <3>3. QED
      <4> HIDE DEF k
      <4>1. QED
        BY <1>t, <2>1, <3>1, <3>2, InPoolKept
  <2>4. QED
    BY <1>a, <1>f, <2>1, <2>2, <2>3
<1>3. CASE Check(s)
  <2>1. UNCHANGED <<alive, pool>> /\ (MoveTo(s, "next") \/ MoveTo(s, "release"))
    BY <1>3 DEF Check, chromeVars
  <2>2. QED
    BY <1>a, <2>1
<1>4. CASE Release(s)
  <2>1. UNCHANGED <<alive, pool>>
    BY <1>4 DEF Release, chromeVars
  <2>2. \E at \in {"tabKeys", "next"} : \E doomed :
          task' = [task EXCEPT ![s].at = at, ![s].doomed = doomed]
    BY <1>4 DEF Release
  <2>3. QED
    BY <1>d, <2>1, <2>2
<1>5. CASE ListKeys(s)
  <2>1. UNCHANGED <<alive, pool>>
    BY <1>5 DEF ListKeys, chromeVars, poolVars
  <2>2. \E at \in {"closeTabs"} : \E doomed :
          task' = [task EXCEPT ![s].at = at, ![s].doomed = doomed]
    <3>1. \E more : task' = [task EXCEPT ![s].doomed = @ \cup more, ![s].at = "closeTabs"]
      BY <1>5 DEF ListKeys
    <3>2. PICK more : task' = [task EXCEPT ![s].doomed = @ \cup more, ![s].at = "closeTabs"]
      BY <3>1
    <3>3. task' = [task EXCEPT ![s].at = "closeTabs", ![s].doomed = task[s].doomed \cup more]
      BY <1>t, <3>2 DEF Tasks
    <3>4. QED
      BY <3>3
  <2>3. QED
    BY <1>d, <2>1, <2>2
<1>6. CASE CloseTabs(s)
  <2>1. UNCHANGED <<alive, pool>> /\ task[s].at = "closeTabs"
    BY <1>6 DEF CloseTabs, chromeVars, poolVars
  <2>2. \/ \E doomed : task' = [task EXCEPT ![s].at = "closePages", ![s].doomed = doomed]
        \/ \E t : task' = [task EXCEPT ![s].doomed = @ \ {t}]
    BY <1>6 DEF CloseTabs
  <2>3. ASSUME NEW t, task' = [task EXCEPT ![s].doomed = @ \ {t}]
        PROVE  task' = [task EXCEPT ![s].at = "closeTabs", ![s].doomed = task[s].doomed \ {t}]
    BY <1>t, <2>1, <2>3 DEF Tasks
  <2>4. \E at \in {"closePages", "closeTabs"} : \E doomed :
          task' = [task EXCEPT ![s].at = at, ![s].doomed = doomed]
    BY <2>2, <2>3
  <2>5. QED
    BY <1>d, <2>1, <2>4
<1>7. CASE ClosePages(s)
  <2>1. UNCHANGED <<alive, pool>>
    BY <1>7 DEF ClosePages, poolVars
  <2>2. \/ task' = task
        \/ task' = [task EXCEPT ![s].at = "closeChrome", ![s].doomed = {}]
    BY <1>7 DEF ClosePages
  <2>3. task' = task => InPool'
    BY <2>1 DEF InPool, ProcessesInPool
  <2>4. QED
    BY <1>d, <2>1, <2>2, <2>3
<1>8. CASE CloseChrome(s)
  <2>1. MoveTo(s, "closed") /\ alive' = alive \ {task[s].b} /\ pool' = pool
    BY <1>8 DEF CloseChrome, Kill, poolVars
  <2>2. QED
    BY <1>a, <2>1
<1>9. CASE CloseFails(s)
  <2>1. /\ UNCHANGED <<alive, pool>>
        /\ \E at \in {"next"} : \E doomed :
             task' = [task EXCEPT ![s].at = at, ![s].doomed = doomed]
    BY <1>9, <1>t DEF CloseFails, poolVars, chromeVars
  <2>2. QED
    BY <1>d, <2>1
<1>10. CASE Closed(s)
  <2>1. MoveTo(s, "remove") /\ UNCHANGED <<alive, pool>> /\ task[s].at = "closed"
    BY <1>10, <1>t DEF Closed, chromeVars
  <2>2. QED
    BY <1>a, <2>1 DEF InPool
<1>11. CASE Remove(s)
  <2>1. /\ MoveTo(s, "next") /\ UNCHANGED alive /\ task[s].at = "remove"
        /\ pool' = pool \ {task[s].b}
    BY <1>11 DEF Remove, chromeVars
  <2>2. QED
    BY <1>a, <2>1 DEF InPool
<1>12. QED
  BY <1>1, <1>2, <1>3, <1>4, <1>5, <1>6, <1>7, <1>8, <1>9, <1>10, <1>11

LEMMA InPoolLaunch ==
  ASSUME PoolTyped, InPool, NEW p \in Procs, Launch(p) \/ LaunchFails(p)
  PROVE  InPool'
<1> USE DEF Procs
<1>t. /\ task \in [Procs -> Tasks] /\ task[p] \in Tasks
  BY DEF PoolTyped, PoolTypeOK
<1>1. /\ \A q \in Procs \ {p} : task'[q] = task[q]
      /\ task'[p].op # "health" /\ task'[p].at \in {"chosen", "next", "idle"}
  <2>1. \/ \E b : task' = [task EXCEPT ![p].at = "chosen", ![p].b = b]
        \/ task' = [task EXCEPT ![p].at = "next", ![p].more = @ - 1]
        \/ task' = [task EXCEPT ![p] = NoTask]
    BY DEF Launch, LaunchFails, Finish
  <2>2. task[p].op # "health"
    BY DEF InPool
  <2>3. ASSUME NEW b, task' = [task EXCEPT ![p].at = "chosen", ![p].b = b]
        PROVE  task'[p].at = "chosen" /\ task'[p].op = task[p].op
    BY <1>t, <2>3 DEF Tasks
  <2>4. task' = [task EXCEPT ![p].at = "next", ![p].more = @ - 1]
          => task'[p].at = "next" /\ task'[p].op = task[p].op
    BY <1>t DEF Tasks
  <2>5. task' = [task EXCEPT ![p] = NoTask] => task'[p].at = "idle" /\ task'[p].op = "none"
    BY <1>t DEF NoTask
  <2>6. QED
    BY <1>t, <2>1, <2>2, <2>3, <2>4, <2>5
<1>2. \/ UNCHANGED <<pool, alive>>
      \/ \E b \in Browsers \ issued : pool' = pool \cup {b} /\ alive' = alive \cup {b}
  BY DEF Launch, LaunchFails, poolVars, chromeVars
<1>3. ASSUME NEW s \in Sweepers, task'[s].at \in {"closed", "remove"}
      PROVE  task'[s].b \notin alive'
  <2>1. task'[s] = task[s] /\ task[s].b \notin alive /\ task[s].b \in issued
    BY <1>1, <1>3 DEF InPool, PoolTyped, PoolShape, TaskShape, Placed
  <2>2. QED
    BY <1>2, <2>1
<1>4. QED
  BY <1>1, <1>2, <1>3 DEF InPool, ProcessesInPool

LEMMA InPoolWorld ==
  ASSUME InPool,
         \/ \E b \in Browsers : Expire(b) \/ ExpireRecord(b) \/ ChromeDies(b)
         \/ \E t \in Tabs : PageCrashes(t)
         \/ Restart
         \/ UNCHANGED poolSystemVars
  PROVE  InPool'
<1>1. CASE Restart
  BY <1>1 DEF Restart, InPool, ProcessesInPool, NoTask, Procs
<1>2. CASE ~Restart
  <2>1. UNCHANGED <<task, pool>> /\ alive' \subseteq alive
    BY <1>2 DEF Expire, ExpireRecord, ChromeDies, PageCrashes, Kill, poolSystemVars,
       poolVars, chromeVars
  <2>2. QED
    BY <2>1 DEF InPool, ProcessesInPool
<1>3. QED
  BY <1>1, <1>2

\* No Chromium process runs that the pool has forgotten, for any number of cleanups
\* and pre-warmings at once, with failing commands, dying browsers and restarts. Only
\* releaseBrowser, which the health check calls, forgets a browser it did not close.
THEOREM ProcessesStayInPool ==
  "health" \notin Sweeps => (PoolSpec => []ProcessesInPool)
<1> SUFFICES ASSUME "health" \notin Sweeps PROVE PoolSpec => []ProcessesInPool
    OBVIOUS
<1>1. PoolInit => InPool
  BY DEF PoolInit, InPool, ProcessesInPool, NoTask, Procs
<1>2. PoolTyped /\ InPool /\ [PoolNext]_poolSystemVars => InPool'
  BY PoolSteps, InPoolCaller, InPoolSweeper, InPoolLaunch, InPoolWorld
<1>3. InPool => ProcessesInPool
  BY DEF InPool
<1>4. QED
  BY <1>1, <1>2, <1>3, AlwaysTyped, PTL DEF PoolSpec
-----------------------------------------------------------------------------
(* The three books of tabs, when no command fails and nothing crashes           *)

ClosesIn == ClosingAwaits \cup {"closed", "remove"}
Closing(b) == \E s \in Sweepers : task[s].at \in ClosesIn /\ task[s].b = b
InUse(b) == b \in pool /\ ~Closing(b)

\* Some caller opens or closes tab t and waits there.
At(t, where) == \E c \in Callers : task[c].at \in where /\ task[c].t = t

\* In a browser that nobody closes, a tab is in the map when it is counted or about
\* to be, except while it is counted off; its page is open as long.
Booked(t) ==
  LET counted == t \in inst[home[t]].tabIds IN
  InUse(home[t]) =>
    /\ t \in tabs <=> \/ counted /\ ~At(t, {"uncount"})
                      \/ At(t, {"register"})
    /\ t \in open <=> \/ counted /\ ~At(t, {"dropTab", "uncount"})
                      \/ At(t, {"register"})
    /\ counted /\ t \in open => t \in active

BooksInv ==
  /\ \A t \in Tabs : Booked(t)
  /\ \A c \in Callers : task[c].at # "closeBad"
  /\ \A s \in Sweepers : task[s].at \in {"tabKeys", "closeTabs"} =>
                           task[s].doomed \subseteq TabsOf(task[s].b)

\* Who waits where with a tab: the caller that moves it and nobody else.
LEMMA AtMover ==
  ASSUME PoolTyped, Holders, NEW c \in Callers, NEW t \in Tabs,
         NEW where \in SUBSET TabAwaits,
         \A d \in Callers \ {c} : task'[d] = task[d],
         t = Held(c) \/ home[t] = NoBrowser
  PROVE  /\ At(t, where) <=> task[c].at \in where /\ task[c].t = t
         /\ At(t, where)' <=> task'[c].at \in where /\ task'[c].t = t
<1> USE PoolAssumption DEF Procs
<1>1. ASSUME NEW d \in Callers \ {c}, task[d].at \in where, task[d].t = t
      PROVE  FALSE
  <2>1. Held(d) = t /\ home[t] = task[d].b /\ task[d].b \in Browsers
    BY <1>1 DEF Held, Holders, Holder, PoolTyped, PoolTypeOK, PoolShape, TaskShape, Placed
  <2>2. t # NoTab /\ home[t] # NoBrowser
    BY <2>1
  <2>3. QED
    BY <2>1, <2>2 DEF Holders
<1>2. QED
  BY <1>1 DEF At

\* Other tabs are waited for as before.
LEMMA AtOthers ==
  ASSUME NEW c \in Callers, NEW u, NEW where \in SUBSET TabAwaits,
         \A d \in Callers \ {c} : task'[d] = task[d],
         task[c].at \in TabAwaits => task[c].t # u,
         task'[c].at \in TabAwaits => task'[c].t # u
  PROVE  At(u, where)' <=> At(u, where)
BY DEF At

\* What a step that moves tab t leaves alone in the books, the others being waited
\* for as before.
Untouched(u) ==
  /\ home'[u] = home[u]
  /\ u \in tabs' <=> u \in tabs
  /\ u \in open' <=> u \in open
  /\ u \in active => u \in active'
  /\ u \in inst'[home[u]].tabIds <=> u \in inst[home[u]].tabIds
  /\ \A where \in SUBSET TabAwaits : At(u, where)' <=> At(u, where)

LEMMA StaysBooked ==
  ASSUME NEW t, Booked(t), Untouched(t), InUse(home[t])' => InUse(home[t])
  PROVE  Booked(t)'
<1>1. {"register"} \in SUBSET TabAwaits /\ {"uncount"} \in SUBSET TabAwaits
      /\ {"dropTab", "uncount"} \in SUBSET TabAwaits
  BY DEF TabAwaits, CloseAwaits
<1>2. /\ At(t, {"register"})' <=> At(t, {"register"})
      /\ At(t, {"uncount"})' <=> At(t, {"uncount"})
      /\ At(t, {"dropTab", "uncount"})' <=> At(t, {"dropTab", "uncount"})
  BY <1>1 DEF Untouched
<1>3. QED
  BY <1>2 DEF Booked, Untouched

LEMMA BooksCaller ==
  ASSUME MaxFaults = 0, PoolTyped, PoolTyped', TabsHeld, TabsHeld', BooksInv,
         NEW c \in Callers,
         \/ ChooseBrowser(c) \/ CheckSize(c) \/ CheckTabs(c) \/ NewPage(c)
         \/ NewPageFails(c) \/ CloseBad(c) \/ Register(c) \/ StartClose(c)
         \/ Forget(c) \/ ClosePage(c) \/ DropTab(c) \/ Uncount(c)
  PROVE  BooksInv'
<1> USE PoolAssumption DEF Procs
<1>t. /\ PoolTypeOK /\ TaskShape(task[c], issued) /\ task[c] \in Tasks
      /\ task \in [Procs -> Tasks] /\ have \in [Callers -> Tabs \cup {NoTab}]
      /\ home \in [Tabs -> issued \cup {NoBrowser}] /\ issued \subseteq Browsers
      /\ NoBrowser \notin issued /\ inst \in [Browsers -> Instances]
      /\ pool \subseteq Browsers /\ task' \in [Procs -> Tasks]
  BY DEF PoolTyped, PoolTypeOK, PoolShape
<1>h. Holders /\ TabBooks /\ Holder(c) /\ task[c].at # "closeBad" /\ ~Fault
  BY <1>t DEF TabsHeld, Holders, BooksInv, Fault, PoolTypeOK
<1>p. /\ UNCHANGED pool /\ \A d \in Procs \ {c} : task'[d] = task[d]
      /\ \A d \in Sweepers \cup (Callers \ {c}) : task'[d] = task[d]
  <2>1. UNCHANGED pool
    BY DEF ChooseBrowser, CheckSize, CheckTabs, NewPage, NewPageFails, CloseBad, Register,
       StartClose, Forget, ClosePage, DropTab, Uncount, poolVars
  <2>2. task' = task \/ \E k : task' = [task EXCEPT ![c] = k]
    BY DEF ChooseBrowser, CheckSize, CheckTabs, NewPage, NewPageFails, CloseBad, Register,
       StartClose, Forget, ClosePage, DropTab, Uncount, MoveTo, Finish
  <2>3. QED
    BY <1>t, <2>1, <2>2
<1>s. \A b : InUse(b)' <=> InUse(b)
  BY <1>p DEF InUse, Closing
\* Only tab t is moved, and its books are right afterwards.
<1>m. ASSUME NEW t \in Tabs, t = Held(c) \/ home[t] = NoBrowser, Booked(t)',
             home[t] # NoBrowser => home'[t] = home[t],
             \A u \in Tabs \ {t} :
               /\ home'[u] = home[u]
               /\ u \in tabs' <=> u \in tabs
               /\ u \in open' <=> u \in open
               /\ u \in active => u \in active'
               /\ u \in inst'[home[u]].tabIds <=> u \in inst[home[u]].tabIds,
             task[c].at \in TabAwaits => task[c].t = t,
             task'[c].at \in TabAwaits => task'[c].t = t,
             task'[c].at # "closeBad"
      PROVE  BooksInv'
  <2>1. ASSUME NEW u \in Tabs \ {t} PROVE Booked(u)'
    <3>1. Untouched(u)
      BY <1>m, <1>p, <2>1, AtOthers DEF Untouched
    <3>2. InUse(home[u])' => InUse(home[u])
      BY <1>p, <3>1 DEF Untouched, InUse, Closing
    <3>3. QED
      BY <3>1, <3>2, StaysBooked DEF BooksInv
  <2>2. \A d \in Callers : task'[d].at # "closeBad"
    BY <1>m, <1>p DEF BooksInv
  <2>3. \A s \in Sweepers : (task[s].at \in {"tabKeys", "closeTabs"} =>
                               task[s].doomed \subseteq TabsOf(task[s].b))'
    <3>1. ASSUME NEW b \in issued PROVE TabsOf(b) \subseteq TabsOf(b)'
      BY <1>t, <1>m, <3>1 DEF TabsOf, Booked
    <3>2. ASSUME NEW s \in Sweepers PROVE task'[s] = task[s]
      BY <1>p
    <3>3. QED
      BY <3>1, <3>2 DEF BooksInv, PoolTyped, PoolShape, TaskShape, Placed, ClosingAwaits
  <2>4. QED
    BY <1>m, <2>1, <2>2, <2>3 DEF BooksInv
<1>w. {"register"} \in SUBSET TabAwaits /\ {"uncount"} \in SUBSET TabAwaits
      /\ {"dropTab", "uncount"} \in SUBSET TabAwaits
  BY DEF TabAwaits, CloseAwaits
\* The books of the tab that is moved.
<1>b. ASSUME NEW t \in Tabs, t = Held(c) \/ home[t] = NoBrowser,
             InUse(home'[t]) =>
               LET counted == t \in inst'[home'[t]].tabIds
                   at == IF task'[c].t = t THEN task'[c].at ELSE "idle" IN
               /\ t \in tabs' <=> (counted /\ at # "uncount") \/ at = "register"
               /\ t \in open' <=> (counted /\ at \notin {"dropTab", "uncount"}) \/ at = "register"
               /\ counted /\ t \in open' => t \in active'
      PROVE  Booked(t)'
  <2>1. \A where \in SUBSET TabAwaits :
          At(t, where)' <=> task'[c].at \in where /\ task'[c].t = t
    BY <1>b, <1>h, <1>p, AtMover
  <2>2. /\ At(t, {"register"})' <=> task'[c].at = "register" /\ task'[c].t = t
        /\ At(t, {"uncount"})' <=> task'[c].at = "uncount" /\ task'[c].t = t
        /\ At(t, {"dropTab", "uncount"})'
             <=> task'[c].at \in {"dropTab", "uncount"} /\ task'[c].t = t
    BY <2>1, <1>w
  <2>3. QED
    BY <1>b, <1>s, <2>2 DEF Booked
\* And before.
<1>k. ASSUME NEW t \in Tabs, t = Held(c), InUse(home[t])
      PROVE  LET counted == t \in inst[home[t]].tabIds
                 at == IF task[c].t = t THEN task[c].at ELSE "idle" IN
             /\ t \in tabs <=> (counted /\ at # "uncount") \/ at = "register"
             /\ t \in open <=> (counted /\ at \notin {"dropTab", "uncount"}) \/ at = "register"
             /\ counted /\ t \in open => t \in active
  <2>1. \A where \in SUBSET TabAwaits :
          At(t, where) <=> task[c].at \in where /\ task[c].t = t
    BY <1>k, <1>h, <1>p, AtMover
  <2>2. /\ At(t, {"register"}) <=> task[c].at = "register" /\ task[c].t = t
        /\ At(t, {"uncount"}) <=> task[c].at = "uncount" /\ task[c].t = t
        /\ At(t, {"dropTab", "uncount"})
             <=> task[c].at \in {"dropTab", "uncount"} /\ task[c].t = t
    BY <2>1, <1>w
  <2>3. QED
    BY <1>k, <2>2 DEF Booked, BooksInv
\* No tab is moved at all.
<1>e. ASSUME UNCHANGED <<chromeVars, tabVars, inst>>,
             task[c].at \notin TabAwaits, task'[c].at \notin TabAwaits
      PROVE  BooksInv'
  <2>1. ASSUME NEW u \in Tabs PROVE Booked(u)'
    <3>1. Untouched(u)
      BY <1>e, <1>p, AtOthers DEF Untouched, chromeVars, tabVars
    <3>2. InUse(home[u])' => InUse(home[u])
      BY <1>p, <3>1 DEF Untouched, InUse, Closing
    <3>3. QED
      BY <3>1, <3>2, StaysBooked DEF BooksInv
  <2>2. \A d \in Callers : task'[d].at # "closeBad"
    BY <1>e, <1>p DEF BooksInv, TabAwaits
  <2>3. QED
    BY <1>e, <1>p, <2>1, <2>2 DEF BooksInv, TabsOf, tabVars
<1>1. CASE ChooseBrowser(c) \/ CheckSize(c) \/ CheckTabs(c) \/ NewPageFails(c)
  <2>1. UNCHANGED <<chromeVars, tabVars, inst>>
    BY <1>1 DEF ChooseBrowser, CheckSize, CheckTabs, NewPageFails, poolVars
  <2>2. task[c].at \in {"idle", "none", "chosen", "newPage"}
    BY <1>1 DEF ChooseBrowser, CheckSize, CheckTabs, NewPageFails, Idle
  <2>3. task'[c].at \in {"none", "chosen", "launch", "newPage", "idle"}
    <3>1. \/ \E b : task' = [task EXCEPT ![c] = [NoTask EXCEPT !.op = "open",
                                                    !.at = "chosen", !.b = b]]
          \/ task' = [task EXCEPT ![c] = [NoTask EXCEPT !.op = "open", !.at = "none"]]
          \/ task' = [task EXCEPT ![c] = NoTask]
          \/ MoveTo(c, "launch") \/ MoveTo(c, "newPage")
      BY <1>1 DEF ChooseBrowser, CheckSize, CheckTabs, NewPageFails, Finish
    <3>2. ASSUME NEW b, task' = [task EXCEPT ![c] = [NoTask EXCEPT !.op = "open",
                                                       !.at = "chosen", !.b = b]]
          PROVE  task'[c].at = "chosen"
      BY <1>t, <3>2 DEF NoTask
    <3>3. task' = [task EXCEPT ![c] = [NoTask EXCEPT !.op = "open", !.at = "none"]]
            => task'[c].at = "none"
      BY <1>t DEF NoTask
    <3>4. task' = [task EXCEPT ![c] = NoTask] => task'[c].at = "idle"
      BY <1>t DEF NoTask
    <3>5. ASSUME NEW at, MoveTo(c, at) PROVE task'[c].at = at
      BY <1>t, <3>5 DEF MoveTo, Tasks
    <3>6. QED
      BY <3>1, <3>2, <3>3, <3>4, <3>5
  <2>4. QED
    BY <1>e, <2>1, <2>2, <2>3 DEF TabAwaits, CloseAwaits
<1>2. CASE NewPage(c)
  <2> PICK t \in Tabs :
        /\ home[t] = NoBrowser /\ home' = [home EXCEPT ![t] = task[c].b]
        /\ open' = open \cup {t} /\ tabs' = tabs \cup {t}
        /\ task' = [task EXCEPT ![c].at = "register", ![c].t = t]
    BY <1>2, <1>h DEF NewPage
  <2>1. UNCHANGED <<active, inst>> /\ task[c].at = "newPage"
    BY <1>2 DEF NewPage, poolVars
  <2>2. task'[c].at = "register" /\ task'[c].t = t /\ task[c].b \in issued
    BY <1>t, <2>1 DEF Tasks, TaskShape, Placed
  <2>3. home'[t] = task[c].b /\ t \notin inst[task[c].b].tabIds
    BY <1>t, <1>h, <2>2 DEF TabBooks, TabsOf
  <2>4. Booked(t)'
    BY <1>b, <2>1, <2>2, <2>3
  <2>5. \A u \in Tabs \ {t} : /\ home'[u] = home[u]
                              /\ u \in tabs' <=> u \in tabs
                              /\ u \in open' <=> u \in open
    BY <1>t
  <2>6. QED
    BY <1>m, <2>1, <2>2, <2>4, <2>5 DEF TabAwaits, CloseAwaits
<1>3. CASE Register(c)
  <2> PICK t \in Tabs : t = task[c].t
    BY <1>t, <1>3 DEF Register, TaskShape, TabAwaits
  <2> DEFINE b == task[c].b
  <2>1. /\ task[c].at = "register" /\ UNCHANGED <<issued, open, home>>
        /\ task' = [task EXCEPT ![c] = NoTask]
    BY <1>3 DEF Register, Finish
  <2>2. /\ t \in Tabs /\ b \in issued /\ home[t] = b /\ t \notin inst[b].tabIds
        /\ Held(c) = t
    BY <1>t, <1>h, <2>1 DEF Holder, Held, TaskShape, Placed, TabAwaits
  <2>3. InUse(b) => t \in tabs /\ t \in open
    BY <1>k, <2>1, <2>2
  <2>4. task'[c] = NoTask /\ NoTask.at = "idle"
    BY <1>t, <2>1 DEF NoTask
  <2>5. CASE /\ t \in open /\ active' = active \cup {t} /\ UNCHANGED tabs
             /\ inst' = [inst EXCEPT ![b] = WithTab(@, t)]
    <3>1. /\ inst'[b].tabIds = inst[b].tabIds \cup {t}
          /\ \A d \in Browsers \ {b} : inst'[d] = inst[d]
      <4>1. b \in Browsers /\ inst[b] \in Instances /\ inst'[b] = WithTab(inst[b], t)
        BY <1>t, <2>2, <2>5
      <4>2. QED
        BY <1>t, <2>5, <4>1, CounterFields
    <3>2. Booked(t)'
      <4>1. home'[t] = b /\ t \in inst'[b].tabIds /\ t \in open' /\ t \in active'
        BY <2>1, <2>2, <2>5, <3>1
      <4>2. InUse(b) => t \in tabs'
        BY <2>3, <2>5
      <4>3. (IF task'[c].t = t THEN task'[c].at ELSE "idle") = "idle"
        BY <2>4
      <4>4. QED
        BY <1>b, <2>2, <4>1, <4>2, <4>3
    <3>3. \A u \in Tabs \ {t} :
            /\ home'[u] = home[u]
            /\ u \in tabs' <=> u \in tabs
            /\ u \in open' <=> u \in open
            /\ u \in active => u \in active'
            /\ u \in inst'[home[u]].tabIds <=> u \in inst[home[u]].tabIds
      <4>1. ASSUME NEW u \in Tabs \ {t}
            PROVE  u \in inst'[home[u]].tabIds <=> u \in inst[home[u]].tabIds
        <5>1. CASE home[u] = b
          BY <3>1, <5>1
        <5>2. CASE home[u] # b
          <6>1. inst'[home[u]] = inst[home[u]]
            BY <1>t, <2>5, <3>1, <5>2
          <6>2. QED
            BY <6>1
        <5>3. QED
          BY <5>1, <5>2
      <4>2. QED
        BY <2>1, <2>5, <4>1
    <3>4. QED
      BY <1>m, <2>1, <2>2, <2>4, <3>2, <3>3 DEF TabAwaits, CloseAwaits
  <2>6. CASE t \notin open /\ tabs' = tabs \ {t} /\ UNCHANGED <<active, inst>>
    <3>1. Booked(t)'
      BY <1>b, <2>1, <2>2, <2>3, <2>6
    <3>2. QED
      BY <1>m, <2>1, <2>2, <2>4, <2>6, <3>1 DEF TabAwaits, CloseAwaits
  <2>7. QED
    BY <1>3, <2>5, <2>6 DEF Register
<1>4. CASE StartClose(c) \/ Forget(c)
  <2> PICK t \in Tabs : t = have[c]
    BY <1>4, <1>t DEF StartClose, Forget
  <2>1. /\ Idle(c) /\ t \in Tabs /\ Held(c) = t /\ task[c].at \notin TabAwaits
        /\ UNCHANGED <<chromeVars, tabVars, inst>>
    BY <1>4, <1>t DEF StartClose, Forget, Idle, Held, TabAwaits, CloseAwaits, poolVars
  <2>2. CASE task' = task
    BY <1>e, <2>1, <2>2
  <2>3. CASE StartClose(c) /\ task' # task
    <3>1. home[t] \in issued /\ t \in inst[home[t]].tabIds
      BY <1>t, <1>h, <2>1 DEF Holder
    <3>2. home[t] \in pool /\
          task' = [task EXCEPT ![c] =
            [NoTask EXCEPT !.op = "close", !.b = home[t], !.t = t,
               !.at = IF t \in active THEN "closePage" ELSE "dropTab"]]
      BY <2>3 DEF StartClose
    <3>3. /\ task'[c].t = t
          /\ task'[c].at = IF t \in active THEN "closePage" ELSE "dropTab"
      BY <1>t, <3>2 DEF NoTask
    <3>4. InUse(home[t]) => t \in tabs /\ t \in open /\ t \in active
      <4>1. (IF task[c].t = t THEN task[c].at ELSE "idle") \notin TabAwaits
        BY <2>1 DEF TabAwaits, CloseAwaits
      <4>2. QED
        BY <1>k, <2>1, <3>1, <4>1 DEF TabAwaits, CloseAwaits
    <3>5. Booked(t)'
      <4>1. /\ home'[t] = home[t] /\ inst' = inst /\ tabs' = tabs /\ open' = open
            /\ active' = active
        BY <2>1 DEF chromeVars, tabVars
      <4>2. (IF task'[c].t = t THEN task'[c].at ELSE "idle")
              = IF t \in active THEN "closePage" ELSE "dropTab"
        BY <3>3
      <4>3. QED
        BY <1>b, <2>1, <3>1, <3>4, <4>1, <4>2
    <3>6. QED
      <4>1. task'[c].at # "closeBad"
        BY <3>3
      <4>2. QED
        BY <1>m, <2>1, <3>3, <3>5, <4>1 DEF chromeVars, tabVars
  <2>4. QED
    BY <1>4, <2>2, <2>3 DEF Forget
<1>5. CASE ClosePage(c)
  <2> PICK t \in Tabs : t = task[c].t
    BY <1>t, <1>5 DEF ClosePage, TaskShape, TabAwaits, CloseAwaits
  <2>1. /\ task[c].at = "closePage" /\ UNCHANGED <<inst, tabVars>>
        /\ active' = active \ {t} /\ open' = open \ {t}
        /\ task' = [task EXCEPT ![c].at = "dropTab"]
    BY <1>5, <1>h DEF ClosePage, MoveTo, poolVars
  <2>2. /\ t \in Tabs /\ Held(c) = t /\ home[t] = task[c].b
        /\ task'[c].at = "dropTab" /\ task'[c].t = t
    BY <1>t, <1>h, <2>1 DEF Holder, Held, TaskShape, TabAwaits, CloseAwaits, Tasks
  <2>3. InUse(home[t]) => (t \in tabs <=> t \in inst[home[t]].tabIds)
    BY <1>k, <2>1, <2>2
  <2>4. Booked(t)'
    BY <1>b, <2>1, <2>2, <2>3 DEF tabVars
  <2>5. QED
    BY <1>m, <2>1, <2>2, <2>4 DEF tabVars
<1>6. CASE DropTab(c)
  <2> PICK t \in Tabs : t = task[c].t
    BY <1>t, <1>6 DEF DropTab, TaskShape, TabAwaits, CloseAwaits
  <2>1. task[c].at = "dropTab" /\ UNCHANGED <<chromeVars, home>>
    BY <1>6 DEF DropTab
  <2>2. /\ t \in Tabs /\ Held(c) = t /\ home[t] = task[c].b
        /\ t \in inst[home[t]].tabIds /\ task[c].b \in issued
    BY <1>t, <1>h, <2>1 DEF Holder, Held, TaskShape, TabAwaits, CloseAwaits, Placed
  <2>3. InUse(home[t]) => t \in tabs /\ t \notin open
    BY <1>k, <2>1, <2>2
  <2>4. CASE /\ t \in tabs \cup tabKeys /\ tabs' = tabs \ {t} /\ UNCHANGED inst
             /\ MoveTo(c, "uncount")
    <3>1. task'[c].at = "uncount" /\ task'[c].t = t
      BY <1>t, <2>4 DEF MoveTo, Tasks
    <3>2. Booked(t)'
      BY <1>b, <2>1, <2>2, <2>3, <2>4, <3>1 DEF chromeVars
    <3>3. QED
      BY <1>m, <2>1, <2>2, <2>4, <3>1, <3>2 DEF chromeVars
  <2>5. CASE /\ t \notin tabs \cup tabKeys /\ UNCHANGED <<tabs, tabKeys>> /\ Finish(c)
             /\ inst' = [inst EXCEPT ![task[c].b] = WithoutTab(@, t)]
    <3>1. ~InUse(home[t]) /\ home'[t] = home[t]
      BY <2>1, <2>3, <2>5
    <3>2. Booked(t)'
      BY <1>b, <2>2, <3>1
    <3>3. task'[c] = NoTask /\ NoTask.at = "idle"
      BY <1>t, <2>5 DEF Finish, NoTask
    <3>4. ASSUME NEW u \in Tabs \ {t}
          PROVE  u \in inst'[home[u]].tabIds <=> u \in inst[home[u]].tabIds
      <4>1. CASE home[u] = task[c].b
        <5>1. /\ task[c].b \in Browsers /\ inst[task[c].b] \in Instances
              /\ inst'[task[c].b] = WithoutTab(inst[task[c].b], t)
          BY <1>t, <2>2, <2>5
        <5>2. inst'[task[c].b].tabIds = inst[task[c].b].tabIds \ {t}
          BY <5>1, CounterFields
        <5>3. QED
          BY <4>1, <5>2
      <4>2. CASE home[u] # task[c].b
        <5>1. inst'[home[u]] = inst[home[u]]
          BY <1>t, <2>5, <4>2
        <5>2. QED
          BY <5>1
      <4>3. QED
        BY <4>1, <4>2
    <3>5. QED
      BY <1>m, <2>1, <2>2, <2>5, <3>2, <3>3, <3>4 DEF chromeVars, TabAwaits, CloseAwaits
  <2>6. QED
    BY <1>6, <1>h, <2>4, <2>5 DEF DropTab
<1>7. CASE Uncount(c)
  <2> PICK t \in Tabs : t = task[c].t
    BY <1>t, <1>7 DEF Uncount, TaskShape, TabAwaits, CloseAwaits
  <2>1. /\ task[c].at = "uncount" /\ UNCHANGED <<chromeVars, tabVars>>
        /\ inst' = [inst EXCEPT ![task[c].b] = WithoutTab(@, t)] /\ Finish(c)
    BY <1>7 DEF Uncount
  <2>2. /\ t \in Tabs /\ Held(c) = t /\ home[t] = task[c].b
        /\ t \in inst[home[t]].tabIds /\ task[c].b \in issued
    BY <1>t, <1>h, <2>1 DEF Holder, Held, TaskShape, TabAwaits, CloseAwaits, Placed
  <2>3. InUse(home[t]) => t \notin tabs /\ t \notin open
    BY <1>k, <2>1, <2>2
  <2>4. task'[c] = NoTask /\ NoTask.at = "idle"
    BY <1>t, <2>1 DEF Finish, NoTask
  <2>5. inst'[task[c].b].tabIds = inst[task[c].b].tabIds \ {t}
    <3>1. /\ task[c].b \in Browsers /\ inst[task[c].b] \in Instances
          /\ inst'[task[c].b] = WithoutTab(inst[task[c].b], t)
      BY <1>t, <2>1, <2>2
    <3>2. QED
      BY <3>1, CounterFields
  <2>6. Booked(t)'
    <3>1. home'[t] = task[c].b /\ tabs' = tabs /\ open' = open
      BY <2>1, <2>2 DEF chromeVars, tabVars
    <3>2. t \notin inst'[home'[t]].tabIds
      BY <2>5, <3>1
    <3>3. (IF task'[c].t = t THEN task'[c].at ELSE "idle") = "idle"
      BY <2>4
    <3>4. QED
      BY <1>b, <2>2, <2>3, <3>1, <3>2, <3>3
  <2>7. ASSUME NEW u \in Tabs \ {t}
        PROVE  u \in inst'[home[u]].tabIds <=> u \in inst[home[u]].tabIds
    <3>1. CASE home[u] = task[c].b
      BY <2>5, <3>1
    <3>2. CASE home[u] # task[c].b
      <4>1. inst'[home[u]] = inst[home[u]]
        BY <1>t, <2>1, <3>2
      <4>2. QED
        BY <4>1
    <3>3. QED
      BY <3>1, <3>2
  <2>8. QED
    BY <1>m, <2>1, <2>2, <2>4, <2>6, <2>7 DEF chromeVars, tabVars, TabAwaits, CloseAwaits
<1>8. QED
  BY <1>h, <1>1, <1>2, <1>3, <1>4, <1>5, <1>6, <1>7 DEF CloseBad

\* No step of a sweeper moves a tab of a browser that is in use and stays so; where
\* it stops closing one, the browser leaves the pool.
LEMMA BooksSweeper ==
  ASSUME MaxFaults = 0, PoolTyped, PoolTyped', TabsHeld, BooksInv, NEW s \in Sweepers,
         \/ StartCleanup(s) \/ StartHealth(s) \/ StartPreWarm(s) \/ Visit(s)
         \/ Check(s) \/ Release(s) \/ ListKeys(s) \/ CloseTabs(s)
         \/ ClosePages(s) \/ CloseChrome(s) \/ CloseFails(s) \/ Closed(s)
         \/ Remove(s)
  PROVE  BooksInv'
<1> USE PoolAssumption DEF Procs
<1>t. /\ PoolTypeOK /\ task[s] \in Tasks /\ task \in [Procs -> Tasks]
      /\ inst \in [Browsers -> Instances] /\ pool \subseteq Browsers
      /\ home \in [Tabs -> Browsers \cup {NoBrowser}] /\ task' \in [Procs -> Tasks]
      /\ tabs \subseteq Tabs /\ pool' \subseteq Browsers
  BY DEF PoolTyped, PoolTypeOK
<1>f. ~Fault /\ TaskShape(task[s], issued) /\ issued \subseteq Browsers /\ TabBooks
  BY <1>t DEF Fault, PoolTypeOK, PoolTyped, PoolShape, TabsHeld
<1> DEFINE b == task[s].b
\* The others go on as they were, and s in browser at in phase where.
<1>m. ASSUME NEW at, NEW d, NEW doomed, UNCHANGED home,
             \A p \in Procs \ {s} : task'[p] = task[p],
             task'[s].at = at, task'[s].b = d, task'[s].doomed = doomed,
             at \in {"tabKeys", "closeTabs"} => doomed \subseteq TabsOf(d),
             pool' \subseteq pool,
             task[s].at \in ClosesIn =>
               (at \in ClosesIn /\ d = b) \/ b \notin pool',
             \A u \in Tabs : (home[u] = b /\ task[s].at \in ClosesIn) \/
               /\ u \in tabs' <=> u \in tabs
               /\ u \in open' <=> u \in open
               /\ u \in active => u \in active'
               /\ home[u] \in Browsers => inst'[home[u]].tabIds = inst[home[u]].tabIds
      PROVE  BooksInv'
  <2>1. ASSUME NEW e, InUse(e)' PROVE InUse(e) /\ (e # b \/ task[s].at \notin ClosesIn)
    BY <1>m, <2>1 DEF InUse, Closing
  <2>2. ASSUME NEW u \in Tabs PROVE Booked(u)'
    <3>1. CASE InUse(home[u])
      <4>1. CASE ~(home[u] = b /\ task[s].at \in ClosesIn)
        <5>1. \A where \in SUBSET TabAwaits : At(u, where)' <=> At(u, where)
          <6>1. \A c \in Callers : task'[c] = task[c]
            BY <1>m
          <6>2. QED
            BY <6>1 DEF At
        <5>2. home[u] \in Browsers
          BY <3>1, <1>t DEF InUse
        <5>3. Untouched(u)
          BY <1>m, <4>1, <5>1, <5>2 DEF Untouched
        <5>4. QED
          BY <3>1, <5>3, StaysBooked DEF BooksInv
      <4>2. CASE home[u] = b /\ task[s].at \in ClosesIn
        BY <3>1, <4>2 DEF InUse, Closing
      <4>3. QED
        BY <4>1, <4>2
    <3>2. CASE ~InUse(home[u])
      <4>1. home'[u] = home[u]
        BY <1>m
      <4>2. ~InUse(home[u])'
        <5>1. InUse(home[u])' => InUse(home[u])
          BY <1>m, <4>1 DEF InUse, Closing
        <5>2. QED
          BY <3>2, <5>1
      <4>3. QED
        BY <4>2 DEF Booked
    <3>3. QED
      BY <3>1, <3>2
  <2>3. \A c \in Callers : task'[c].at # "closeBad"
    BY <1>m DEF BooksInv
  <2>4. ASSUME NEW q \in Sweepers, task'[q].at \in {"tabKeys", "closeTabs"}
        PROVE  task'[q].doomed \subseteq TabsOf(task[q].b)'
    BY <1>m, <2>4 DEF BooksInv, TabsOf
  <2>5. QED
    BY <2>2, <2>3, <2>4 DEF BooksInv
\* The books are not touched.
<1>n. ASSUME NEW at, NEW d, NEW doomed, UNCHANGED <<chromeVars, tabVars>>,
             \A e \in Browsers : inst'[e].tabIds = inst[e].tabIds,
             \A p \in Procs \ {s} : task'[p] = task[p],
             task'[s].at = at, task'[s].b = d, task'[s].doomed = doomed,
             at \in {"tabKeys", "closeTabs"} => doomed \subseteq TabsOf(d),
             pool' \subseteq pool,
             task[s].at \in ClosesIn =>
               (at \in ClosesIn /\ d = b) \/ b \notin pool'
      PROVE  BooksInv'
  BY <1>n, <1>m DEF chromeVars, tabVars
<1>v. ASSUME NEW at, MoveTo(s, at)
      PROVE  /\ \A p \in Procs \ {s} : task'[p] = task[p]
             /\ task'[s].at = at /\ task'[s].b = b /\ task'[s].doomed = task[s].doomed
  BY <1>v, <1>t DEF MoveTo, Tasks
<1>w. ASSUME NEW at, NEW doomed, task' = [task EXCEPT ![s].at = at, ![s].doomed = doomed]
      PROVE  /\ \A p \in Procs \ {s} : task'[p] = task[p]
             /\ task'[s].at = at /\ task'[s].b = b /\ task'[s].doomed = doomed
  BY <1>w, <1>t DEF Tasks
<1>z. /\ {"next", "check", "release", "idle", "launch"} \cap ClosesIn = {}
      /\ {"tabKeys", "closeTabs", "closePages", "closeChrome", "closed", "remove"} \subseteq ClosesIn
  BY DEF ClosesIn, ClosingAwaits
<1>1. CASE StartCleanup(s) \/ StartHealth(s) \/ StartPreWarm(s)
  <2>1. PICK op, left, more : StartSweep(s, op, left, more)
    BY <1>1 DEF StartCleanup, StartHealth, StartPreWarm
  <2>2. /\ UNCHANGED <<chromeVars, tabVars, pool, inst>> /\ task[s].at = "idle"
        /\ task' = [task EXCEPT ![s] = [NoTask EXCEPT !.op = op, !.at = "next",
                                          !.left = left, !.more = more]]
    BY <2>1 DEF StartSweep, Idle, poolVars
  <2>3. /\ \A p \in Procs \ {s} : task'[p] = task[p]
        /\ task'[s].at = "next" /\ task'[s].b = NoBrowser /\ task'[s].doomed = {}
    BY <1>t, <2>2 DEF NoTask
  <2>4. QED
    BY <1>n, <1>z, <2>2, <2>3
<1>2. CASE Visit(s)
  <2>1. UNCHANGED <<chromeVars, tabVars, pool>> /\ task[s].at = "next"
    BY <1>2 DEF Visit
  <2>2. \A e \in Browsers : inst'[e].tabIds = inst[e].tabIds
    <3>1. inst' = inst \/ \E e \in Browsers : inst' = [inst EXCEPT ![e].state = "CLOSING"]
      BY <1>2, <1>t DEF Visit, Tasks
    <3>2. QED
      BY <1>t, <3>1 DEF Instances
  <2>3. \/ Finish(s) \/ MoveTo(s, "launch")
        \/ \E d \in task[s].left :
             task' = [task EXCEPT ![s].b = d, ![s].left = @ \ {d},
               ![s].at = IF task[s].op = "health" THEN "check" ELSE "tabKeys",
               ![s].doomed = IF task[s].op = "health" THEN {} ELSE TabsOf(d) \cap tabs]
    <3>1. CASE task[s].op = "prewarm" \/ task[s].left = {}
      BY <1>2, <3>1 DEF Visit
    <3>2. CASE ~(task[s].op = "prewarm" \/ task[s].left = {})
      BY <1>2, <3>2 DEF Visit
    <3>3. QED
      BY <3>1, <3>2
  <2>4. CASE Finish(s)
    <3>1. /\ \A p \in Procs \ {s} : task'[p] = task[p]
          /\ task'[s].at = "idle" /\ task'[s].b = NoBrowser /\ task'[s].doomed = {}
      BY <1>t, <2>4 DEF Finish, NoTask
    <3>2. QED
      BY <1>n, <1>z, <2>1, <2>2, <3>1
  <2>5. CASE MoveTo(s, "launch")
    BY <1>n, <1>v, <1>z, <2>1, <2>2, <2>5
  <2>6. ASSUME NEW d \in task[s].left,
               task' = [task EXCEPT ![s].b = d, ![s].left = @ \ {d},
                 ![s].at = IF task[s].op = "health" THEN "check" ELSE "tabKeys",
                 ![s].doomed = IF task[s].op = "health" THEN {} ELSE TabsOf(d) \cap tabs]
        PROVE  BooksInv'
    <3>1. /\ \A p \in Procs \ {s} : task'[p] = task[p]
          /\ task'[s].b = d
          /\ task'[s].at = IF task[s].op = "health" THEN "check" ELSE "tabKeys"
          /\ task'[s].doomed = IF task[s].op = "health" THEN {} ELSE TabsOf(d) \cap tabs
      BY <1>t, <2>6 DEF Tasks
    <3>2. QED
      BY <1>n, <1>z, <2>1, <2>2, <3>1
  <2>7. QED
    BY <2>3, <2>4, <2>5, <2>6
<1>3. CASE Check(s)
  <2>1. UNCHANGED <<chromeVars, tabVars, pool>> /\ task[s].at = "check"
        /\ (MoveTo(s, "next") \/ MoveTo(s, "release"))
    BY <1>3 DEF Check
  <2>2. \A e \in Browsers : inst'[e].tabIds = inst[e].tabIds
    <3>1. \/ inst' = [inst EXCEPT ![b].healthy = TRUE]
          \/ inst' = [inst EXCEPT ![b].healthy = FALSE]
      BY <1>3 DEF Check
    <3>2. QED
      BY <1>t, <3>1 DEF Instances
  <2>3. QED
    BY <1>n, <1>v, <1>z, <2>1, <2>2
<1>4. CASE Release(s)
  <2>1. UNCHANGED <<chromeVars, tabVars, pool>> /\ task[s].at = "release"
    BY <1>4 DEF Release
  <2>2. \A e \in Browsers : inst'[e].tabIds = inst[e].tabIds
    <3>1. inst' = inst \/ inst' = [inst EXCEPT ![b].state = "CLOSING"]
      BY <1>4 DEF Release
    <3>2. QED
      BY <1>t, <3>1 DEF Instances
  <2>3. \E at \in {"tabKeys", "next"}, doomed \in SUBSET TabsOf(b) :
          task' = [task EXCEPT ![s].at = at, ![s].doomed = doomed]
    BY <1>4 DEF Release
  <2>4. PICK at \in {"tabKeys", "next"}, doomed \in SUBSET TabsOf(b) :
          task' = [task EXCEPT ![s].at = at, ![s].doomed = doomed]
    BY <2>3
  <2>5. /\ \A p \in Procs \ {s} : task'[p] = task[p]
        /\ task'[s].at = at /\ task'[s].b = b /\ task'[s].doomed = doomed
    BY <1>w, <2>4
  <2>6. QED
    BY <1>n, <1>z, <2>1, <2>2, <2>5
<1>5. CASE ListKeys(s)
  <2> DEFINE more == (TabsOf(b) \cap tabKeys) \ tabs
  <2>1. /\ UNCHANGED <<chromeVars, home, pool, inst>> /\ task[s].at = "tabKeys"
        /\ tabs' = tabs \cup more
    BY <1>5 DEF ListKeys, poolVars
  <2>2. /\ \A p \in Procs \ {s} : task'[p] = task[p]
        /\ task'[s].at = "closeTabs" /\ task'[s].b = b
        /\ task'[s].doomed = task[s].doomed \cup more
    BY <1>t, <1>5 DEF ListKeys, Tasks
  <2>3. task[s].doomed \cup more \subseteq TabsOf(b)
    BY <2>1 DEF BooksInv
  <2>4. \A u \in Tabs : home[u] = b \/ (u \in tabs' <=> u \in tabs)
    BY <2>1 DEF TabsOf
  <2>5. QED
    BY <1>m, <1>z, <2>1, <2>2, <2>3, <2>4 DEF chromeVars
<1>6. CASE CloseTabs(s)
  <2>1. UNCHANGED <<chromeVars, home, pool, inst>> /\ task[s].at = "closeTabs"
        /\ task[s].doomed \subseteq TabsOf(b)
    BY <1>6 DEF CloseTabs, poolVars, BooksInv
  <2>2. CASE task' = [task EXCEPT ![s].at = "closePages", ![s].doomed = inst[b].tabIds]
             /\ UNCHANGED tabs
    <3>1. /\ \A p \in Procs \ {s} : task'[p] = task[p]
          /\ task'[s].at = "closePages" /\ task'[s].b = b
          /\ task'[s].doomed = inst[b].tabIds
      BY <1>w, <2>2
    <3>2. QED
      BY <1>m, <1>z, <2>1, <2>2, <3>1 DEF chromeVars
  <2>3. ASSUME NEW t \in task[s].doomed, tabs' = tabs \ {t},
               task' = [task EXCEPT ![s].doomed = @ \ {t}]
        PROVE  BooksInv'
    <3>1. /\ \A p \in Procs \ {s} : task'[p] = task[p]
          /\ task'[s].at = "closeTabs" /\ task'[s].b = b
          /\ task'[s].doomed = task[s].doomed \ {t}
      BY <1>t, <2>1, <2>3 DEF Tasks
    <3>2. \A u \in Tabs : home[u] = b \/ (u \in tabs' <=> u \in tabs)
      BY <2>1, <2>3 DEF TabsOf
    <3>3. QED
      BY <1>m, <1>z, <2>1, <3>1, <3>2 DEF chromeVars
  <2>4. QED
    BY <1>6, <2>2, <2>3 DEF CloseTabs
<1>7. CASE ClosePages(s)
  <2>1. UNCHANGED <<tabVars, pool, inst>> /\ task[s].at = "closePages" /\ b \in Browsers
    BY <1>7, <1>f DEF ClosePages, poolVars, TaskShape, Placed, ClosingAwaits
  <2>2. CASE task' = [task EXCEPT ![s].at = "closeChrome", ![s].doomed = {}]
             /\ UNCHANGED <<open, active>>
    <3>1. /\ \A p \in Procs \ {s} : task'[p] = task[p]
          /\ task'[s].at = "closeChrome" /\ task'[s].b = b /\ task'[s].doomed = {}
      BY <1>w, <2>2
    <3>2. QED
      BY <1>m, <1>z, <2>1, <2>2, <3>1 DEF tabVars
  <2>3. ASSUME NEW t \in inst[b].tabIds \cap active, open' = open \ {t},
               active' = active \ {t}, UNCHANGED task
        PROVE  BooksInv'
    <3>1. home[t] = b
      BY <1>f, <2>1 DEF TabBooks, TabsOf
    <3>2. QED
      BY <1>m, <1>z, <2>1, <2>3, <3>1 DEF tabVars
  <2>4. QED
    BY <1>7, <2>2, <2>3 DEF ClosePages
<1>8. CASE CloseChrome(s)
  <2>1. /\ UNCHANGED <<tabVars, pool, inst>> /\ task[s].at = "closeChrome"
        /\ MoveTo(s, "closed") /\ open' = open \ TabsOf(b)
        /\ active' = active \ TabsOf(b)
    BY <1>8 DEF CloseChrome, Kill, poolVars
  <2>2. /\ \A p \in Procs \ {s} : task'[p] = task[p]
        /\ task'[s].at = "closed" /\ task'[s].b = b
        /\ task'[s].doomed = task[s].doomed
    BY <1>v, <2>1
  <2>3. \A u \in Tabs : home[u] = b \/ /\ u \in open' <=> u \in open
                                       /\ u \in active => u \in active'
    BY <2>1 DEF TabsOf
  <2>4. QED
    BY <1>m, <1>z, <2>1, <2>2, <2>3 DEF tabVars
<1>9. CASE Closed(s) \/ Remove(s)
  <2>1. /\ UNCHANGED <<chromeVars, tabVars, inst>> /\ pool' \subseteq pool
        /\ \/ MoveTo(s, "next") /\ b \notin pool'
           \/ MoveTo(s, "remove")
    BY <1>9 DEF Closed, Remove
  <2>2. QED
    BY <1>n, <1>v, <1>z, <2>1
<1>10. QED
  BY <1>f, <1>1, <1>2, <1>3, <1>4, <1>5, <1>6, <1>7, <1>8, <1>9 DEF CloseFails

\* A new browser has no tabs; time moves none.
LEMMA BooksOther ==
  ASSUME MaxFaults = 0, PoolTyped, PoolTyped', TabsHeld, BooksInv,
         \/ \E p \in Procs : Launch(p) \/ LaunchFails(p)
         \/ \E b \in Browsers : Expire(b) \/ ExpireRecord(b) \/ ChromeDies(b)
         \/ \E t \in Tabs : PageCrashes(t)
         \/ Restart
         \/ UNCHANGED poolSystemVars
  PROVE  BooksInv'
<1> USE PoolAssumption DEF Procs
<1>t. /\ PoolTypeOK /\ task \in [Procs -> Tasks] /\ inst \in [Browsers -> Instances]
      /\ home \in [Tabs -> issued \cup {NoBrowser}] /\ issued \subseteq Browsers
      /\ NoBrowser \notin issued /\ pool \subseteq issued /\ ~Fault
  BY DEF PoolTyped, PoolTypeOK, PoolShape, Fault
\* Nobody starts or stops moving a tab or closing a browser.
<1>m. ASSUME UNCHANGED <<home, tabs, open, active>>,
             \A b \in issued : inst'[b].tabIds = inst[b].tabIds,
             \A b \in issued : b \in pool' <=> b \in pool,
             NoBrowser \notin pool',
             \A p \in Procs :
               \/ task'[p] = task[p]
               \/ {task[p].at, task'[p].at} \subseteq {"launch", "chosen", "next", "idle"}
      PROVE  BooksInv'
  <2>1. \A p \in Procs :
          \/ task'[p] = task[p]
          \/ /\ task[p].at \notin TabAwaits \cup ClosesIn
             /\ task'[p].at \notin TabAwaits \cup ClosesIn
    BY <1>m DEF TabAwaits, CloseAwaits, ClosesIn, ClosingAwaits
  <2>2. ASSUME NEW u \in Tabs PROVE Booked(u)'
    <3>1. \A where \in SUBSET TabAwaits : At(u, where)' <=> At(u, where)
      BY <2>1 DEF At
    <3>2. CASE home[u] = NoBrowser
      BY <1>m, <3>2 DEF Booked, InUse
    <3>3. CASE home[u] \in issued
      <4>1. Untouched(u)
        BY <1>m, <3>1, <3>3 DEF Untouched
      <4>2. InUse(home[u])' => InUse(home[u])
        BY <1>m, <2>1, <3>3 DEF InUse, Closing
      <4>3. QED
        BY <4>1, <4>2, StaysBooked DEF BooksInv
    <3>4. QED
      BY <1>t, <3>2, <3>3
  <2>3. \A c \in Callers : task'[c].at # "closeBad"
    BY <1>m DEF BooksInv
  <2>4. ASSUME NEW q \in Sweepers, task'[q].at \in {"tabKeys", "closeTabs"}
        PROVE  task'[q].doomed \subseteq TabsOf(task[q].b)'
    BY <1>m, <2>4 DEF BooksInv, TabsOf
  <2>5. QED
    BY <2>2, <2>3, <2>4 DEF BooksInv
<1>1. ASSUME NEW p \in Procs, Launch(p) \/ LaunchFails(p) PROVE BooksInv'
  <2>1. /\ UNCHANGED <<home, tabs, open, active>> /\ task[p].at = "launch"
        /\ \/ UNCHANGED <<pool, inst>>
           \/ \E b \in Browsers \ issued : /\ pool' = pool \cup {b}
                                           /\ inst' = [inst EXCEPT ![b] = FreshInstance]
    BY <1>1 DEF Launch, LaunchFails, poolVars, chromeVars, tabVars
  <2>2. \/ \E b : task' = [task EXCEPT ![p].at = "chosen", ![p].b = b]
        \/ task' = [task EXCEPT ![p].at = "next", ![p].more = @ - 1]
        \/ task' = [task EXCEPT ![p] = NoTask]
    BY <1>1 DEF Launch, LaunchFails, Finish
  <2>3. ASSUME NEW b, task' = [task EXCEPT ![p].at = "chosen", ![p].b = b]
        PROVE  task'[p].at = "chosen"
    BY <1>t, <2>3 DEF Tasks
  <2>4. task' = [task EXCEPT ![p].at = "next", ![p].more = @ - 1] => task'[p].at = "next"
    BY <1>t DEF Tasks
  <2>5. task' = [task EXCEPT ![p] = NoTask] => task'[p].at = "idle"
    BY <1>t DEF NoTask
  <2>6. \A q \in Procs : task'[q] = task[q] \/
          {task[q].at, task'[q].at} \subseteq {"launch", "chosen", "next", "idle"}
    <3>1. \A q \in Procs \ {p} : task'[q] = task[q]
      BY <1>t, <2>2
    <3>2. task'[p].at \in {"chosen", "next", "idle"}
      BY <2>2, <2>3, <2>4, <2>5
    <3>3. QED
      BY <2>1, <3>1, <3>2
  <2>7. QED
    BY <1>t, <1>m, <2>1, <2>6
<1>2. CASE \/ \E b \in Browsers : Expire(b) \/ ExpireRecord(b)
           \/ UNCHANGED poolSystemVars
  <2>1. UNCHANGED <<home, tabs, open, active, task, pool>>
    BY <1>2 DEF Expire, ExpireRecord, poolSystemVars, poolVars, chromeVars, tabVars
  <2>2. inst' = inst \/ \E b \in Browsers : inst' = [inst EXCEPT ![b].expired = TRUE]
    BY <1>2 DEF Expire, ExpireRecord, poolSystemVars, poolVars
  <2>3. \A b \in Browsers : inst'[b].tabIds = inst[b].tabIds
    BY <1>t, <2>2 DEF Instances
  <2>4. QED
    BY <1>t, <1>m, <2>1, <2>3
<1>3. QED
  BY <1>t, <1>1, <1>2 DEF ChromeDies, PageCrashes, Restart

LEMMA InitBooks == PoolInit => BooksInv
<1> SUFFICES ASSUME PoolInit PROVE BooksInv
    OBVIOUS
<1>1. \A p \in Procs : task[p].at = "idle"
  BY DEF PoolInit, NoTask
<1>2. pool = {}
  BY DEF PoolInit
<1>3. QED
  BY <1>1, <1>2 DEF BooksInv, Booked, InUse, Procs

\* While no command fails and nothing crashes, the three books of createTab and
\* closeTab are the same whenever nobody is at work, for any number of callers,
\* cleanups, health checks and browsers.
THEOREM BooksAgreeWhenQuiet ==
  MaxFaults = 0 => (PoolSpec => []QuietBooksAgree)
<1> SUFFICES ASSUME MaxFaults = 0 PROVE PoolSpec => []QuietBooksAgree
    OBVIOUS
<1>1. PoolTyped /\ PoolTyped' /\ TabsHeld /\ TabsHeld' /\ BooksInv
        /\ [PoolNext]_poolSystemVars => BooksInv'
  BY PoolSteps, BooksCaller, BooksSweeper, BooksOther
<1>2. PoolTyped /\ TabsHeld /\ BooksInv => QuietBooksAgree
  <2> SUFFICES ASSUME PoolTyped, TabsHeld, BooksInv, \A p \in Procs : Idle(p),
                      NEW b \in pool
               PROVE  /\ inst[b].tabIds = TabsOf(b) \cap tabs
                      /\ inst[b].tabIds = TabsOf(b) \cap open
    BY DEF QuietBooksAgree
  <2>1. b \in Browsers /\ inst[b].tabIds \subseteq TabsOf(b)
    BY DEF PoolTyped, PoolTypeOK, TabsHeld, TabBooks
  <2>2. InUse(b)
    BY DEF InUse, Closing, Idle, Procs, ClosesIn, ClosingAwaits
  <2>3. \A t : ~At(t, {"register"}) /\ ~At(t, {"uncount"}) /\ ~At(t, {"dropTab", "uncount"})
    BY DEF At, Idle, Procs
  <2>4. \A t \in TabsOf(b) : /\ t \in tabs <=> t \in inst[b].tabIds
                             /\ t \in open <=> t \in inst[b].tabIds
    BY <2>2, <2>3 DEF BooksInv, Booked, TabsOf
  <2>5. QED
    BY <2>1, <2>4
<1>3. QED
  BY <1>1, <1>2, InitBooks, AlwaysTyped, AlwaysHeld, PTL DEF PoolSpec
==============================================================================
