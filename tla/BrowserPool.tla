----------------------------- MODULE BrowserPool -----------------------------
(***************************************************************************)
(* BrowserPoolService with BrowserLifecycleManager, TabManager and the     *)
(* browser records in Redis: callers open and close tabs, timers and cron  *)
(* jobs close expired browsers, check health and pre-warm the pool. Every  *)
(* action runs from one await to the next. A command to Redis takes effect *)
(* in the action that sends it: there is one connection, and the next      *)
(* action of the process is the reply. Whether a record is stored decides  *)
(* nothing, so a save that fails is left out.                              *)
(***************************************************************************)
EXTENDS Naturals, FiniteSets

CONSTANTS
  Browsers,   \* browser ids (uuids) ever issued
  Tabs,       \* tab ids (uuids) ever issued
  Callers,    \* scrapes and logins, each with at most one tab
  Sweepers,   \* timers and cron jobs
  MaxPool,    \* config.maxPoolSize
  MaxTabs,    \* config.maxTabsPerBrowser
  HardTabs,   \* MAX_TABS_PER_BROWSER of the lifecycle manager
  Warm,       \* minPoolSize * preWarmThreshold / 100, rounded down
  Sweeps,     \* which of "cleanup", "health", "prewarm" run
  Expiring,   \* whether browsers reach their time to live
  MaxFaults,  \* bound: failing commands, crashes and restarts
  NoBrowser, NoTab

Procs == Callers \cup Sweepers

ASSUME PoolAssumption ==
  /\ IsFiniteSet(Procs) /\ Procs # {} /\ Callers \cap Sweepers = {}
  /\ IsFiniteSet(Browsers) /\ IsFiniteSet(Tabs)
  /\ NoBrowser \notin Browsers /\ NoTab \notin Tabs
  /\ MaxPool \in Nat \ {0} /\ MaxTabs \in Nat \ {0} /\ HardTabs \in Nat \ {0}
  /\ Warm \in Nat /\ MaxFaults \in Nat
  /\ Sweeps \subseteq {"cleanup", "health", "prewarm"} /\ Expiring \in BOOLEAN

VARIABLES
  pool,     \* keys of activeBrowsers
  inst,     \* browser -> its BrowserInstance, shared by all who hold it
  records,  \* browsers with a key browser:<id> in Redis
  issued,   \* browsers ever launched
  alive,    \* browsers whose Chromium process runs
  open,     \* tabs whose Playwright page is not closed
  active,   \* keys of activePages
  home,     \* tab -> browser in which it was opened
  tabs,     \* keys of the TabManager's map
  tabKeys,  \* tabs with a key tab:<id> in Redis
  task,     \* process -> the operation it is in
  have,     \* caller -> the tab it has been given
  faults    \* faults so far

poolVars == <<pool, inst, records, issued>>
chromeVars == <<alive, open, active>>
tabVars == <<home, tabs, tabKeys>>
poolSystemVars == <<poolVars, chromeVars, tabVars, task, have, faults>>

\* The state FULL is never given to a browser.
Instances == [state : {"AVAILABLE", "IN_USE", "CLOSING"}, openTabs : Nat,
              tabIds : SUBSET Tabs, healthy : BOOLEAN, expired : BOOLEAN]

FreshInstance == [state |-> "AVAILABLE", openTabs |-> 0, tabIds |-> {},
                  healthy |-> TRUE, expired |-> FALSE]

OpenAwaits == {"chosen", "none", "launch", "newPage", "register", "closeBad"}
CloseAwaits == {"closePage", "dropTab", "uncount"}
ClosingAwaits == {"tabKeys", "closeTabs", "closePages", "closeChrome"}
SweepAwaits == {"next", "check", "release", "closed", "remove"}

Tasks == [op : {"none", "open", "close", "cleanup", "health", "prewarm"},
          at : {"idle"} \cup OpenAwaits \cup CloseAwaits \cup ClosingAwaits
                 \cup SweepAwaits,
          b : Browsers \cup {NoBrowser},
          t : Tabs \cup {NoTab},
          left : SUBSET Browsers,   \* browsers of the snapshot still to visit
          doomed : SUBSET Tabs,     \* tabs closeBrowser has still to close
          more : 0..Warm]           \* browsers still to pre-warm

NoTask == [op |-> "none", at |-> "idle", b |-> NoBrowser, t |-> NoTab,
           left |-> {}, doomed |-> {}, more |-> 0]

PoolTypeOK ==
  /\ pool \in SUBSET Browsers
  /\ inst \in [Browsers -> Instances]
  /\ records \in SUBSET Browsers /\ issued \in SUBSET Browsers
  /\ alive \in SUBSET Browsers
  /\ open \in SUBSET Tabs /\ active \in SUBSET Tabs
  /\ home \in [Tabs -> Browsers \cup {NoBrowser}]
  /\ tabs \in SUBSET Tabs /\ tabKeys \in SUBSET Tabs
  /\ task \in [Procs -> Tasks]
  /\ have \in [Callers -> Tabs \cup {NoTab}]
  /\ faults \in 0..MaxFaults

PoolInit ==
  /\ pool = {} /\ records = {} /\ issued = {} /\ alive = {}
  /\ inst = [b \in Browsers |-> FreshInstance]
  /\ open = {} /\ active = {} /\ tabs = {} /\ tabKeys = {}
  /\ home = [t \in Tabs |-> NoBrowser]
  /\ task = [p \in Procs |-> NoTask]
  /\ have = [c \in Callers |-> NoTab]
  /\ faults = 0

Idle(p) == task[p].at = "idle"
MoveTo(p, at) == task' = [task EXCEPT ![p].at = at]
Finish(p) == task' = [task EXCEPT ![p] = NoTask]

Fault == faults < MaxFaults /\ faults' = faults + 1

TabsOf(b) == {t \in Tabs : home[t] = b}

-----------------------------------------------------------------------------
(* createTabForRequest and createSystemTabForSession                       *)

\* Mutant: a full browser passes.
SuitableWhenFull == {b \in pool : /\ inst[b].openTabs <= MaxTabs
                                  /\ inst[b].state # "CLOSING"
                                  /\ inst[b].healthy}

Suitable == {b \in pool : /\ inst[b].openTabs < MaxTabs
                          /\ inst[b].state # "CLOSING"
                          /\ inst[b].healthy}

\* The least loaded browser with capacity, or none.
ChooseBrowser(c) ==
  /\ Idle(c) /\ have[c] = NoTab
  /\ \/ /\ Suitable = {}
        /\ task' = [task EXCEPT ![c] = [NoTask EXCEPT !.op = "open", !.at = "none"]]
     \/ \E b \in Suitable :
          /\ \A d \in Suitable : inst[b].openTabs <= inst[d].openTabs
          /\ task' = [task EXCEPT ![c] = [NoTask EXCEPT !.op = "open",
                                            !.at = "chosen", !.b = b]]
  /\ UNCHANGED <<poolVars, chromeVars, tabVars, have, faults>>

CheckSize(c) ==
  /\ task[c].at = "none"
  /\ IF Cardinality(pool) >= MaxPool THEN Finish(c) ELSE MoveTo(c, "launch")
  /\ UNCHANGED <<poolVars, chromeVars, tabVars, have, faults>>

\* chromium.launch has come back: into the pool, the record is saved.
\* createTab in the new browser is next, or the next browser to pre-warm.
Launch(p) ==
  /\ task[p].at = "launch"
  /\ \E b \in Browsers \ issued :
       /\ issued' = issued \cup {b}
       /\ pool' = pool \cup {b}
       /\ alive' = alive \cup {b}
       /\ inst' = [inst EXCEPT ![b] = FreshInstance]
       /\ records' = records \cup {b}
       /\ task' = IF task[p].op = "open"
                  THEN [task EXCEPT ![p].at = "chosen", ![p].b = b]
                  ELSE [task EXCEPT ![p].at = "next", ![p].more = @ - 1]
  /\ UNCHANGED <<open, active, tabVars, have, faults>>

\* Launching may fail at any time, and does once the ids of the model are out.
LaunchFails(p) ==
  /\ task[p].at = "launch"
  /\ IF task[p].op = "open" THEN Finish(p)
     ELSE task' = [task EXCEPT ![p].at = "next", ![p].more = @ - 1]
  /\ UNCHANGED <<poolVars, chromeVars, tabVars, have, faults>>

CheckTabs(c) ==
  /\ task[c].at = "chosen"
  /\ IF inst[task[c].b].openTabs >= HardTabs THEN Finish(c) ELSE MoveTo(c, "newPage")
  /\ UNCHANGED <<poolVars, chromeVars, tabVars, have, faults>>

\* The page is there; the tab goes into the TabManager's map and to Redis.
\* When Redis refuses one of its two keys, createTab never learns of the tab.
NewPage(c) ==
  /\ task[c].at = "newPage" /\ task[c].b \in alive
  /\ \E t \in Tabs :
       /\ home[t] = NoBrowser
       /\ home' = [home EXCEPT ![t] = task[c].b]
       /\ open' = open \cup {t}
       /\ tabs' = tabs \cup {t}
       /\ \/ /\ tabKeys' = tabKeys \cup {t}
             /\ task' = [task EXCEPT ![c].at = "register", ![c].t = t]
             /\ UNCHANGED faults
          \/ /\ Fault
             /\ task' = [task EXCEPT ![c].at = "closeBad", ![c].t = t]
             /\ tabKeys' \in {tabKeys, tabKeys \cup {t}}
  /\ UNCHANGED <<poolVars, alive, active, have>>

\* A closed browser has no new pages, a live one may still fail.
NewPageFails(c) ==
  /\ task[c].at = "newPage"
  /\ Finish(c)
  /\ UNCHANGED <<poolVars, chromeVars, tabVars, have, faults>>

\* Whether page.close() succeeds or not, the caller gets null.
CloseBad(c) ==
  /\ task[c].at = "closeBad"
  /\ \/ open' = open \ {task[c].t} /\ UNCHANGED faults
     \/ Fault /\ UNCHANGED open
  /\ Finish(c)
  /\ UNCHANGED <<poolVars, alive, active, tabVars, have>>

WithTab(i, t) ==
  [i EXCEPT !.openTabs = @ + 1, !.tabIds = @ \cup {t},
            !.state = IF i.openTabs = 0 THEN "IN_USE" ELSE @]

\* Mutant: the page is not asked whether it was closed meanwhile.
RegisterUnchecked(c) ==
  LET b == task[c].b
      t == task[c].t IN
  /\ task[c].at = "register"
  /\ active' = active \cup {t}
  /\ inst' = [inst EXCEPT ![b] = WithTab(@, t)]
  /\ records' = records \cup {b}
  /\ have' = [have EXCEPT ![c] = t]
  /\ Finish(c)
  /\ UNCHANGED <<pool, issued, alive, open, tabVars, faults>>

\* The tab is counted and handed out, unless its page was closed meanwhile:
\* then its metadata is dropped and the caller gets null.
Register(c) ==
  LET b == task[c].b
      t == task[c].t IN
  /\ task[c].at = "register"
  /\ \/ /\ t \in open
        /\ active' = active \cup {t}
        /\ inst' = [inst EXCEPT ![b] = WithTab(@, t)]
        /\ records' = records \cup {b}
        /\ have' = [have EXCEPT ![c] = t]
        /\ UNCHANGED <<tabs, tabKeys, faults>>
     \/ /\ t \notin open
        /\ tabs' = tabs \ {t}
        /\ \/ tabKeys' = tabKeys \ {t} /\ UNCHANGED faults
           \/ Fault /\ UNCHANGED tabKeys
        /\ UNCHANGED <<active, inst, records, have>>
  /\ Finish(c)
  /\ UNCHANGED <<pool, issued, alive, open, home>>

-----------------------------------------------------------------------------
(* closeTab: a caller closes its tab once                                  *)

\* A browser that has left the pool is not found and nothing is done.
StartClose(c) ==
  LET t == have[c]
      b == home[t] IN
  /\ Idle(c) /\ t # NoTab
  /\ have' = [have EXCEPT ![c] = NoTab]
  /\ IF b \in pool
     THEN task' = [task EXCEPT ![c] =
            [NoTask EXCEPT !.op = "close", !.b = b, !.t = t,
               !.at = IF t \in active THEN "closePage" ELSE "dropTab"]]
     ELSE UNCHANGED task
  /\ UNCHANGED <<poolVars, chromeVars, tabVars, faults>>

\* The capture of API configurations never closes the tabs it opens.
Forget(c) ==
  /\ Idle(c) /\ have[c] # NoTab
  /\ have' = [have EXCEPT ![c] = NoTab]
  /\ UNCHANGED <<poolVars, chromeVars, tabVars, task, faults>>

\* An error of page.close() is logged and the page forgotten.
ClosePage(c) ==
  /\ task[c].at = "closePage"
  /\ active' = active \ {task[c].t}
  /\ \/ open' = open \ {task[c].t} /\ UNCHANGED faults
     \/ Fault /\ UNCHANGED open
  /\ MoveTo(c, "dropTab")
  /\ UNCHANGED <<poolVars, alive, tabVars, have>>

WithoutTab(i, t) ==
  LET n == IF i.openTabs = 0 THEN 0 ELSE i.openTabs - 1 IN
  [i EXCEPT !.openTabs = n, !.tabIds = @ \ {t},
            !.state = IF n = 0 THEN "AVAILABLE" ELSE @]

\* A tab that is in neither map is uncounted at once and nothing is saved. When
\* Redis fails to delete its keys, it is not uncounted at all.
DropTab(c) ==
  LET t == task[c].t IN
  /\ task[c].at = "dropTab"
  /\ \/ /\ t \in tabs \cup tabKeys
        /\ tabs' = tabs \ {t}
        /\ tabKeys' = tabKeys \ {t}
        /\ MoveTo(c, "uncount")
        /\ UNCHANGED <<inst, faults>>
     \/ /\ t \notin tabs \cup tabKeys
        /\ inst' = [inst EXCEPT ![task[c].b] = WithoutTab(@, t)]
        /\ Finish(c)
        /\ UNCHANGED <<tabs, tabKeys, faults>>
     \/ /\ Fault
        /\ tabs' = tabs \ {t}
        /\ Finish(c)
        /\ UNCHANGED <<inst, tabKeys>>
  /\ UNCHANGED <<pool, records, issued, chromeVars, home, have>>

\* Mutant: the tab is counted off but stays in tabIds.
UncountKeeping(c) ==
  LET b == task[c].b IN
  /\ task[c].at = "uncount"
  /\ inst' = [inst EXCEPT ![b] = [WithoutTab(@, task[c].t) EXCEPT
                                    !.tabIds = inst[b].tabIds]]
  /\ records' = records \cup {b}
  /\ Finish(c)
  /\ UNCHANGED <<pool, issued, chromeVars, tabVars, have, faults>>

\* The record is saved again, whether the browser is still in the pool or not.
Uncount(c) ==
  LET b == task[c].b IN
  /\ task[c].at = "uncount"
  /\ inst' = [inst EXCEPT ![b] = WithoutTab(@, task[c].t)]
  /\ records' = records \cup {b}
  /\ Finish(c)
  /\ UNCHANGED <<pool, issued, chromeVars, tabVars, have, faults>>

-----------------------------------------------------------------------------
(* Timers and cron jobs                                                    *)

StartSweep(s, op, left, more) ==
  /\ op \in Sweeps /\ Idle(s)
  /\ left # {} \/ more > 0
  /\ task' = [task EXCEPT ![s] = [NoTask EXCEPT !.op = op, !.at = "next",
                                    !.left = left, !.more = more]]
  /\ UNCHANGED <<poolVars, chromeVars, tabVars, have, faults>>

\* The timer of the pool and the cron job of RequestScheduler both start it.
StartCleanup(s) == StartSweep(s, "cleanup", {b \in pool : inst[b].expired}, 0)

StartHealth(s) == StartSweep(s, "health", pool, 0)

StartPreWarm(s) ==
  LET available == Cardinality({b \in pool : inst[b].state = "AVAILABLE"}) IN
  StartSweep(s, "prewarm", {}, IF available < Warm THEN Warm - available ELSE 0)

\* Mutant: one round more than there are browsers to pre-warm.
VisitOnceMore(s) ==
  /\ task[s].at = "next"
  /\ IF task[s].op = "prewarm" /\ Cardinality(pool) < MaxPool
     THEN MoveTo(s, "launch") ELSE Finish(s)
  /\ UNCHANGED <<poolVars, chromeVars, tabVars, have, faults>>

\* The next browser of the snapshot, or the next one to launch. closeBrowser
\* marks the instance and collects the tabs in memory before its first await.
Visit(s) ==
  LET op == task[s].op IN
  /\ task[s].at = "next"
  /\ \/ /\ op = "prewarm"
        /\ IF task[s].more = 0 \/ Cardinality(pool) >= MaxPool
           THEN Finish(s) ELSE MoveTo(s, "launch")
        /\ UNCHANGED inst
     \/ /\ op # "prewarm" /\ task[s].left = {}
        /\ Finish(s)
        /\ UNCHANGED inst
     \/ \E b \in task[s].left :
          /\ op # "prewarm"
          /\ task' = [task EXCEPT ![s].b = b, ![s].left = @ \ {b},
               ![s].at = IF op = "health" THEN "check" ELSE "tabKeys",
               ![s].doomed = IF op = "health" THEN {} ELSE TabsOf(b) \cap tabs]
          /\ inst' = IF op = "health" THEN inst
                     ELSE [inst EXCEPT ![b].state = "CLOSING"]
  /\ UNCHANGED <<pool, records, issued, chromeVars, tabVars, have, faults>>

\* A context opened and closed shows that the browser lives; the status is
\* set and the record saved, whether the browser is still in the pool or not.
Check(s) ==
  LET b == task[s].b IN
  /\ task[s].at = "check"
  /\ \/ /\ b \in alive
        /\ inst' = [inst EXCEPT ![b].healthy = TRUE]
        /\ MoveTo(s, "next")
        /\ UNCHANGED faults
     \/ /\ IF b \in alive THEN Fault ELSE UNCHANGED faults
        /\ inst' = [inst EXCEPT ![b].healthy = FALSE]
        /\ MoveTo(s, "release")
  /\ records' = records \cup {b}
  /\ UNCHANGED <<pool, issued, chromeVars, tabVars, have>>

\* releaseBrowser: not while the browser has tabs.
Release(s) ==
  LET b == task[s].b
      closes == b \in pool /\ inst[b].openTabs = 0 IN
  /\ task[s].at = "release"
  /\ task' = [task EXCEPT ![s].at = IF closes THEN "tabKeys" ELSE "next",
                          ![s].doomed = IF closes THEN TabsOf(b) \cap tabs ELSE {}]
  /\ inst' = IF closes THEN [inst EXCEPT ![b].state = "CLOSING"] ELSE inst
  /\ UNCHANGED <<pool, records, issued, chromeVars, tabVars, have, faults>>

-----------------------------------------------------------------------------
(* closeBrowser                                                            *)

\* Tabs of the browser that are only in Redis are taken into memory and doomed.
ListKeys(s) ==
  LET more == (TabsOf(task[s].b) \cap tabKeys) \ tabs IN
  /\ task[s].at = "tabKeys"
  /\ tabs' = tabs \cup more
  /\ task' = [task EXCEPT ![s].doomed = @ \cup more, ![s].at = "closeTabs"]
  /\ UNCHANGED <<poolVars, chromeVars, home, tabKeys, have, faults>>

CloseTabs(s) ==
  /\ task[s].at = "closeTabs"
  /\ \/ /\ task[s].doomed = {}
        /\ task' = [task EXCEPT ![s].at = "closePages",
                                ![s].doomed = inst[task[s].b].tabIds]
        /\ UNCHANGED <<tabs, tabKeys>>
     \/ \E t \in task[s].doomed :
          /\ tabs' = tabs \ {t}
          /\ tabKeys' = tabKeys \ {t}
          /\ task' = [task EXCEPT ![s].doomed = @ \ {t}]
  /\ UNCHANGED <<poolVars, chromeVars, home, have, faults>>

\* A tab added during the loop is in its array, unless closeTab has replaced it.
ClosePages(s) ==
  LET b == task[s].b IN
  /\ task[s].at = "closePages"
  /\ \/ /\ task[s].doomed \cap active = {}
        /\ task' = [task EXCEPT ![s].at = "closeChrome", ![s].doomed = {}]
        /\ UNCHANGED <<open, active>>
     \/ \E t \in inst[b].tabIds \cap active :
          /\ open' = open \ {t}
          /\ active' = active \ {t}
          /\ UNCHANGED task
  /\ UNCHANGED <<poolVars, alive, tabVars, have, faults>>

\* The process of b ends; every page in it emits 'close'.
Kill(b) ==
  /\ alive' = alive \ {b}
  /\ open' = open \ TabsOf(b)
  /\ active' = active \ TabsOf(b)

CloseChrome(s) ==
  /\ task[s].at = "closeChrome"
  /\ Kill(task[s].b)
  /\ MoveTo(s, "closed")
  /\ UNCHANGED <<poolVars, tabVars, have, faults>>

\* Mutant: the cleanup forgets the browser although it could not close it.
CloseFailsForgetting(s) ==
  /\ task[s].at \in ClosingAwaits
  /\ Fault
  /\ MoveTo(s, "closed")
  /\ UNCHANGED <<poolVars, chromeVars, tabVars, have>>

\* Any command of closeBrowser may fail: the cleanup leaves the browser in the
\* pool, marked as closing; releaseBrowser does not look at the result.
CloseFails(s) ==
  /\ task[s].at \in ClosingAwaits
  /\ Fault
  /\ task' = [task EXCEPT ![s].at = IF task[s].op = "health" THEN "closed" ELSE "next",
                          ![s].doomed = {}]
  /\ UNCHANGED <<poolVars, chromeVars, tabVars, have>>

\* releaseBrowser removes the browser and then its record, the cleanup the
\* other way round.
Closed(s) ==
  LET b == task[s].b IN
  /\ task[s].at = "closed"
  /\ records' = records \ {b}
  /\ pool' = IF task[s].op = "health" THEN pool \ {b} ELSE pool
  /\ MoveTo(s, IF task[s].op = "health" THEN "next" ELSE "remove")
  /\ UNCHANGED <<inst, issued, chromeVars, tabVars, have, faults>>

\* Mutant: the browser's record is deleted, the browser stays in the pool.
RemoveNothing(s) ==
  /\ task[s].at = "remove"
  /\ MoveTo(s, "next")
  /\ UNCHANGED <<poolVars, chromeVars, tabVars, have, faults>>

Remove(s) ==
  /\ task[s].at = "remove"
  /\ pool' = pool \ {task[s].b}
  /\ MoveTo(s, "next")
  /\ UNCHANGED <<inst, records, issued, chromeVars, tabVars, have, faults>>

-----------------------------------------------------------------------------
(* Environment                                                             *)

\* Fifteen minutes since the launch: nothing ever extends them.
Expire(b) ==
  /\ Expiring /\ b \in pool /\ ~inst[b].expired
  /\ inst' = [inst EXCEPT ![b].expired = TRUE]
  /\ UNCHANGED <<pool, records, issued, chromeVars, tabVars, task, have, faults>>

\* browserTTL seconds since the record was last saved.
ExpireRecord(b) ==
  /\ Expiring /\ b \in records
  /\ records' = records \ {b}
  /\ UNCHANGED <<pool, inst, issued, chromeVars, tabVars, task, have, faults>>

ChromeDies(b) ==
  /\ b \in alive /\ Fault
  /\ Kill(b)
  /\ UNCHANGED <<poolVars, tabVars, task, have>>

\* A crashed page leaves activePages but is not closed.
PageCrashes(t) ==
  /\ t \in active /\ Fault
  /\ active' = active \ {t}
  /\ UNCHANGED <<poolVars, alive, open, tabVars, task, have>>

\* The server is started again with an empty pool: synchronizeBrowsers deletes
\* every record it finds, unless Redis fails.
Restart ==
  /\ Fault
  /\ pool' = {} /\ alive' = {} /\ open' = {} /\ active' = {} /\ tabs' = {}
  /\ \E kept \in {{}, records} : records' = kept
  /\ task' = [p \in Procs |-> NoTask]
  /\ have' = [c \in Callers |-> NoTab]
  /\ UNCHANGED <<inst, issued, home, tabKeys>>

CallerStep(c) ==
  \/ CheckSize(c) \/ CheckTabs(c) \/ NewPage(c) \/ NewPageFails(c)
  \/ CloseBad(c) \/ Register(c)
  \/ StartClose(c) \/ Forget(c) \/ ClosePage(c) \/ DropTab(c) \/ Uncount(c)

SweepStep(s) ==
  \/ StartCleanup(s) \/ StartHealth(s) \/ StartPreWarm(s)
  \/ Visit(s) \/ Check(s) \/ Release(s)
  \/ ListKeys(s) \/ CloseTabs(s) \/ ClosePages(s) \/ CloseChrome(s)
  \/ CloseFails(s) \/ Closed(s) \/ Remove(s)

LaunchStep(p) == Launch(p) \/ LaunchFails(p)

PoolNext ==
  \/ \E c \in Callers : ChooseBrowser(c) \/ CallerStep(c)
  \/ \E s \in Sweepers : SweepStep(s)
  \/ \E p \in Procs : LaunchStep(p)
  \/ \E b \in Browsers : Expire(b) \/ ExpireRecord(b) \/ ChromeDies(b)
  \/ \E t \in Tabs : PageCrashes(t)
  \/ Restart

PoolSpec == PoolInit /\ [][PoolNext]_poolSystemVars

\* The event loop drives what has been started. The cleanup has a timer of its
\* own and a cron job: other sweeps do not keep it from starting, hence SF.
\* Nothing makes callers ask for tabs or browsers expire.
FairPoolSpec ==
  /\ PoolSpec
  /\ \A c \in Callers : WF_poolSystemVars(CallerStep(c))
  /\ \A s \in Sweepers : /\ WF_poolSystemVars(SweepStep(s))
                         /\ SF_poolSystemVars(StartCleanup(s))
  /\ \A p \in Procs : WF_poolSystemVars(LaunchStep(p))

-----------------------------------------------------------------------------
(* Properties                                                              *)

\* openTabs counts tabIds, whoever opens, closes or fails in between
\* (createTab and closeTab of the lifecycle manager).
TabsCounted ==
  \A b \in Browsers : inst[b].openTabs = Cardinality(inst[b].tabIds)

\* getPageForTab never hands out a closed page: what activePages holds is open,
\* although browsers close while tabs are being created and closed.
ActivePagesOpen == active \subseteq open

\* Size and tab limits are checked before the awaits that use them up: every
\* other process may have passed the check too, and no more than that.
OvershootBounded ==
  /\ Cardinality(pool) < MaxPool + Cardinality(Procs)
  /\ \A b \in Browsers : inst[b].openTabs < MaxTabs + Cardinality(Callers)

\* No Chromium process runs that the pool has forgotten: a cleanup that could
\* not close a browser keeps it and tries again.
ProcessesInPool == alive \subseteq pool

\* Between operations a browser's tabIds, the TabManager's map and the open
\* pages are the same tabs (createTab and closeTab keep three books).
QuietBooksAgree ==
  (\A p \in Procs : Idle(p)) =>
    \A b \in pool : /\ inst[b].tabIds = TabsOf(b) \cap tabs
                    /\ inst[b].tabIds = TabsOf(b) \cap open

\* A browser whose time to live is over leaves the pool, though callers go on
\* opening tabs in it and two cleanups may close it at once.
ExpiredLeaves ==
  \A b \in Browsers : b \in pool /\ inst[b].expired ~> b \notin pool

\* "Released and closed browser": what releaseBrowser removes from the pool
\* does not run any more.
ReleasedIsClosed ==
  [][\A s \in Sweepers :
       task[s].op = "health" /\ task[s].at = "closed" /\ task'[s].at = "next"
         => task[s].b \notin alive']_poolSystemVars
=============================================================================
