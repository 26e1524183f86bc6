------------------------------ MODULE ApiConfigs ------------------------------
(***************************************************************************)
(* ApiConfigManager with TikTokApiConfigAdapter: the rows of               *)
(* ApiConfiguration in the database, the cache and the error history in    *)
(* memory, the timers that end a cooling-down period, and the scrapes that *)
(* ask for a configuration, use it and report its errors. Every action     *)
(* runs from one await to the next; a database call is answered in a later *)
(* action, in any order. One tick is five minutes: the period of the cache *)
(* refresh and the window of "recent" errors. The end of a configuration's *)
(* 24 hours is not counted in ticks: it may come at any time.              *)
(***************************************************************************)
EXTENDS Naturals, FiniteSets

CONSTANTS
  Configs,     \* rows ever captured
  Exact,       \* those whose endpoint is, letter for letter, the list URL
  Users,       \* scrapes
  Slots,       \* bound: cache refreshes nobody awaits, at one time
  Cool,        \* coolingDownPeriod in ticks
  TooMany,     \* recent errors that make a configuration cool down
  MaxFaults,   \* bound: database calls that fail, and restarts
  NoConfig

ASSUME ConfigsAssumption ==
  /\ IsFiniteSet(Configs) /\ NoConfig \notin Configs /\ Exact \subseteq Configs
  /\ Users \cap Slots = {} /\ Slots # {}
  /\ Cool \in Nat \ {0} /\ TooMany \in Nat \ {0} /\ MaxFaults \in Nat

VARIABLES
  status,    \* row -> "none" before it is captured, then ApiConfigStatus
  lapsed,    \* rows captured 24 hours ago or more
  cut,       \* rows whose expiresAt was brought forward to the present
  cache,     \* configCache.get(list URL)[0]
  refresh,   \* refreshConfigCache calls: awaiting the query, or its answer
  recent,    \* config -> errors in configErrors less than a tick old
  age,       \* config -> ticks since its newest error, Cool when longer ago
  fatal,     \* configs with a fatal error in configErrors
  timers,    \* config -> ticks left of the setTimeouts to reactivate it
  reviving,  \* configs whose reactivation awaits the database
  pc, held,  \* user -> what it awaits, the configuration it works with
  faults

rows == <<status, lapsed, cut>>
errors == <<recent, age, fatal>>
users == <<pc, held>>
vars == <<rows, cache, refresh, errors, timers, reviving, users, faults>>

Readers == Users \cup Slots
Heads == Configs \cup {NoConfig}
Lowest(n, m) == IF n < m THEN n ELSE m

(* The first refresh of a process is that of init.                          *)
Asking(s) == [r \in Readers |-> IF r = s THEN "asked" ELSE "idle"]

Usable(c) == status[c] = "ACTIVE" /\ c \notin lapsed \cup cut

Init ==
  /\ status = [c \in Configs |-> "none"]
  /\ lapsed = {} /\ cut = {}
  /\ cache = NoConfig
  /\ \E s \in Slots : refresh = Asking(s)
  /\ recent = [c \in Configs |-> 0] /\ age = [c \in Configs |-> Cool]
  /\ fatal = {} /\ reviving = {}
  /\ timers = [c \in Configs |-> {}]
  /\ pc = [u \in Users |-> "idle"] /\ held = [u \in Users |-> NoConfig]
  /\ faults = 0

-----------------------------------------------------------------------------
(* The cache, refreshed with every tick. A refresh asks for the usable      *)
(* rows, least used first, and replaces the map when the answer arrives.    *)
(* Usage counts decide nothing else: any usable row of the endpoint may be  *)
(* the least used one.                                                      *)

AskRefresh ==
  \E s \in Slots : refresh[s] = "idle" /\ refresh' = [refresh EXCEPT ![s] = "asked"]

(* A plausible error in Offered, for the runs' mutants. *)
OfferedByAge == {c \in Exact : status[c] # "none" /\ c \notin lapsed}

Offered == {c \in Exact : Usable(c)}

Query(r) ==
  /\ refresh[r] = "asked"
  /\ \E c \in Heads :
       /\ IF Offered = {} THEN c = NoConfig ELSE c \in Offered
       /\ refresh' = [refresh EXCEPT ![r] = c]
  /\ UNCHANGED <<rows, cache, errors, timers, reviving, users, faults>>

(* A user that awaits its refresh goes on whether or not it failed.         *)
Resume(r) == pc' = IF r \in Users THEN [pc EXCEPT ![r] = "lookup"] ELSE pc

Replace(r) ==
  /\ refresh[r] \in Heads
  /\ cache' = refresh[r] /\ refresh' = [refresh EXCEPT ![r] = "idle"]
  /\ Resume(r)
  /\ UNCHANGED <<rows, errors, timers, reviving, held, faults>>

Fault == faults < MaxFaults /\ faults' = faults + 1

RefreshFails(r) ==
  /\ Fault /\ refresh[r] = "asked"
  /\ refresh' = [refresh EXCEPT ![r] = "idle"]
  /\ Resume(r)
  /\ UNCHANGED <<rows, cache, errors, timers, reviving, held>>

-----------------------------------------------------------------------------
(* A scrape asks for a configuration, by the list URL or the detail URL.    *)

Take(u, c) == held' = [held EXCEPT ![u] = c] /\ pc' = [pc EXCEPT ![u] = "holding"]

(* A plausible error in Hit, for the runs' mutants. *)
HitUnchecked == cache \notin lapsed

(* The cache is hit for the list URL alone; what counts there is the        *)
(* expiresAt the copy was read with.                                        *)
Hit == cache # NoConfig /\ cache \notin lapsed

FromCache(u) ==
  /\ pc[u] \in {"idle", "lookup"} /\ Hit
  /\ Take(u, cache)
  /\ UNCHANGED <<rows, cache, refresh, errors, timers, reviving, faults>>

Miss(u) ==
  /\ pc[u] \in {"idle", "lookup"}
  /\ pc' = [pc EXCEPT ![u] = "find"]
  /\ UNCHANGED <<rows, cache, refresh, errors, timers, reviving, held, faults>>

(* findFirst looks at every endpoint; the answer also starts a refresh.     *)
Find(u) ==
  /\ pc[u] = "find"
  /\ \E c \in Configs : Usable(c) /\ Take(u, c)
  /\ AskRefresh
  /\ UNCHANGED <<rows, cache, errors, timers, reviving, faults>>

(* No configuration: a scrape that asked for a fallback keeps the old one.  *)
GiveUp(u) == pc' = [pc EXCEPT ![u] = IF held[u] = NoConfig THEN "idle" ELSE "holding"]

FindNothing(u) ==
  /\ pc[u] = "find" /\ \A c \in Configs : ~Usable(c)
  /\ GiveUp(u)
  /\ UNCHANGED <<rows, cache, refresh, errors, timers, reviving, held, faults>>

FindFails(u) ==
  /\ Fault /\ pc[u] = "find"
  /\ GiveUp(u)
  /\ UNCHANGED <<rows, cache, refresh, errors, timers, reviving, held>>

Fallback(u) ==
  /\ pc[u] = "holding" /\ refresh[u] = "idle"
  /\ refresh' = [refresh EXCEPT ![u] = "asked"]
  /\ pc' = [pc EXCEPT ![u] = "refresh"]
  /\ UNCHANGED <<rows, cache, errors, timers, reviving, held, faults>>

Finish(u) ==
  /\ pc[u] = "holding"
  /\ pc' = [pc EXCEPT ![u] = "idle"] /\ held' = [held EXCEPT ![u] = NoConfig]
  /\ UNCHANGED <<rows, cache, refresh, errors, timers, reviving, faults>>

-----------------------------------------------------------------------------
(* A scrape reports an error and awaits what is made of it. Three recent    *)
(* errors cool the configuration down before a fatal one is looked for.     *)

Verdict(c, n, fatals) ==
  IF n >= TooMany THEN "cool" ELSE IF c \in fatals THEN "expire" ELSE "holding"

ReportError(u, grave) ==
  LET c == held[u]
      n == Lowest(recent[c] + 1, TooMany)
      fatals == IF grave THEN fatal \cup {c} ELSE fatal
  IN  /\ pc[u] = "holding"
      /\ recent' = [recent EXCEPT ![c] = n] /\ age' = [age EXCEPT ![c] = 0]
      /\ fatal' = fatals
      /\ pc' = [pc EXCEPT ![u] = Verdict(c, n, fatals)]
      /\ UNCHANGED <<rows, cache, refresh, timers, reviving, held, faults>>

(* A plausible error in MarkAsCoolingDown, for the runs' mutants. *)
MarkAsCoolingDownUntimed(u) ==
  /\ pc[u] = "cool" /\ AskRefresh
  /\ status' = [status EXCEPT ![held[u]] = "COOLING_DOWN"]
  /\ pc' = [pc EXCEPT ![u] = "holding"]
  /\ UNCHANGED <<lapsed, cut, cache, errors, timers, reviving, held, faults>>

MarkAsCoolingDown(u) ==
  /\ pc[u] = "cool" /\ AskRefresh
  /\ status' = [status EXCEPT ![held[u]] = "COOLING_DOWN"]
  /\ timers' = [timers EXCEPT ![held[u]] = @ \cup {Cool}]
  /\ pc' = [pc EXCEPT ![u] = "holding"]
  /\ UNCHANGED <<lapsed, cut, cache, errors, reviving, held, faults>>

(* A plausible error in MarkAsExpired, for the runs' mutants. *)
MarkAsExpiredKeepingTheDate(u) ==
  /\ pc[u] = "expire" /\ AskRefresh
  /\ status' = [status EXCEPT ![held[u]] = "EXPIRED"]
  /\ pc' = [pc EXCEPT ![u] = "holding"]
  /\ UNCHANGED <<lapsed, cut, cache, errors, timers, reviving, held, faults>>

MarkAsExpired(u) ==
  /\ pc[u] = "expire" /\ AskRefresh
  /\ status' = [status EXCEPT ![held[u]] = "EXPIRED"]
  /\ cut' = cut \cup {held[u]}
  /\ pc' = [pc EXCEPT ![u] = "holding"]
  /\ UNCHANGED <<lapsed, cache, errors, timers, reviving, held, faults>>

MarkFails(u) ==
  /\ Fault /\ pc[u] \in {"cool", "expire"}
  /\ pc' = [pc EXCEPT ![u] = "holding"]
  /\ UNCHANGED <<rows, cache, refresh, errors, timers, reviving, held>>

-----------------------------------------------------------------------------
(* The end of a cooling-down period.                                        *)

(* A plausible error in TimerFires, for the runs' mutants. *)
TimerFiresOnce(c) ==
  /\ 0 \in timers[c]
  /\ timers' = [timers EXCEPT ![c] = @ \ {0}]
  /\ reviving' = IF age[c] < Cool THEN reviving ELSE reviving \cup {c}
  /\ UNCHANGED <<rows, cache, refresh, errors, users, faults>>

TimerFires(c) ==
  /\ 0 \in timers[c]
  /\ IF age[c] < Cool
     THEN timers' = [timers EXCEPT ![c] = (@ \ {0}) \cup {Cool}] /\ UNCHANGED reviving
     ELSE timers' = [timers EXCEPT ![c] = @ \ {0}] /\ reviving' = reviving \cup {c}
  /\ UNCHANGED <<rows, cache, refresh, errors, users, faults>>

(* The update asks for a row that is still cooling down and throws if there *)
(* is none; then the history of errors stays as well.                       *)
Reactivate(c) ==
  /\ c \in reviving /\ reviving' = reviving \ {c}
  /\ status[c] = "COOLING_DOWN" /\ AskRefresh
  /\ status' = [status EXCEPT ![c] = "ACTIVE"]
  /\ recent' = [recent EXCEPT ![c] = 0] /\ age' = [age EXCEPT ![c] = Cool]
  /\ fatal' = fatal \ {c}
  /\ UNCHANGED <<lapsed, cut, cache, timers, users, faults>>

ReactivateThrows(c) ==
  /\ c \in reviving /\ reviving' = reviving \ {c}
  /\ \/ status[c] # "COOLING_DOWN" /\ UNCHANGED faults
     \/ Fault
  /\ UNCHANGED <<rows, cache, refresh, errors, timers, users>>

-----------------------------------------------------------------------------
(* The environment: pages capture requests, time passes, the process dies.  *)

Capture(c) ==
  /\ status[c] = "none"
  /\ status' = [status EXCEPT ![c] = "ACTIVE"]
  /\ UNCHANGED <<lapsed, cut, cache, refresh, errors, timers, reviving, users, faults>>

Lapse(c) ==
  /\ status[c] # "none" /\ c \notin lapsed
  /\ lapsed' = lapsed \cup {c}
  /\ UNCHANGED <<status, cut, cache, refresh, errors, timers, reviving, users, faults>>

Tick ==
  /\ \A c \in Configs : 0 \notin timers[c]
  /\ AskRefresh
  /\ recent' = [c \in Configs |-> 0]
  /\ age' = [c \in Configs |-> Lowest(age[c] + 1, Cool)]
  /\ timers' = [c \in Configs |-> {t - 1 : t \in timers[c]}]
  /\ UNCHANGED <<rows, cache, fatal, reviving, users, faults>>

Restart ==
  /\ Fault
  /\ cache' = NoConfig
  /\ \E s \in Slots : refresh' = Asking(s)
  /\ recent' = [c \in Configs |-> 0] /\ age' = [c \in Configs |-> Cool]
  /\ fatal' = {} /\ reviving' = {}
  /\ timers' = [c \in Configs |-> {}]
  /\ pc' = [u \in Users |-> "idle"] /\ held' = [u \in Users |-> NoConfig]
  /\ UNCHANGED rows

-----------------------------------------------------------------------------
RefreshStep(r) == Query(r) \/ Replace(r) \/ RefreshFails(r)

UserStep(u) ==
  \/ FromCache(u) \/ Miss(u) \/ Find(u) \/ FindNothing(u) \/ FindFails(u)
  \/ Fallback(u) \/ Finish(u)
  \/ \E grave \in BOOLEAN : ReportError(u, grave)
  \/ MarkAsCoolingDown(u) \/ MarkAsExpired(u) \/ MarkFails(u)

TimerStep(c) == TimerFires(c) \/ Reactivate(c) \/ ReactivateThrows(c)

Next ==
  \/ Tick \/ Restart
  \/ \E r \in Readers : RefreshStep(r)
  \/ \E u \in Users : UserStep(u)
  \/ \E c \in Configs : TimerStep(c) \/ Capture(c) \/ Lapse(c)

Spec == Init /\ [][Next]_vars

(* Timers fire, the clock moves and the database answers; a scrape may stop *)
(* anywhere, and nothing makes a configuration fail or expire.              *)
Fairness ==
  /\ WF_vars(Tick)
  /\ \A r \in Readers : WF_vars(Query(r) \/ Replace(r))
  /\ \A c \in Configs : WF_vars(TimerStep(c))

FairSpec == Spec /\ Fairness

-----------------------------------------------------------------------------
(* A scrape that works with a configuration, or reports an error of it, has *)
(* one: neither an empty cache, nor a refresh that empties it, nor a search *)
(* without a hit leaves it with none.                                       *)
UsersHold == \A u \in Users : pc[u] \in {"holding", "cool", "expire"} => held[u] \in Configs

(* The type invariant of the rows, the memory of the manager and its users. *)
ConfigsTypeOK ==
  /\ status \in [Configs -> {"none", "ACTIVE", "COOLING_DOWN", "EXPIRED"}]
  /\ lapsed \subseteq Configs /\ cut \subseteq Configs
  /\ cache \in Heads
  /\ refresh \in [Readers -> Heads \cup {"idle", "asked"}]
  /\ recent \in [Configs -> 0..TooMany] /\ age \in [Configs -> 0..Cool]
  /\ fatal \subseteq Configs /\ reviving \subseteq Configs
  /\ timers \in [Configs -> SUBSET (0..Cool)]
  /\ pc \in [Users -> {"idle", "find", "holding", "cool", "expire", "refresh", "lookup"}]
  /\ held \in [Users -> Heads] /\ UsersHold
  /\ faults \in 0..MaxFaults

(* A configuration that cools down is on its way back, unless a call failed *)
(* or the process restarted: reactivateConfig is scheduled or running,      *)
(* however many reports, extensions and reactivations crossed each other.   *)
CoolingIsScheduled ==
  faults = 0 => \A c \in Configs :
    status[c] = "COOLING_DOWN" => timers[c] # {} \/ c \in reviving

(* Once marked expired ("permanently invalid"), a configuration is never    *)
(* again one the database offers, although late reports cool its row down   *)
(* and timers set before or after make it ACTIVE again.                     *)
PermanentlyInvalid ==
  \A c \in Configs : [](status[c] = "EXPIRED" => []~Usable(c))

(* And it leaves the cache for good, although a refresh that read it before *)
(* may be answered after one that did not.                                  *)
LeavesCache ==
  \A c \in Configs : status[c] = "EXPIRED" ~> [](cache # c)

(* No configuration cools down for ever while none of its errors is newer   *)
(* than the period, unless a call failed or the process restarted.          *)
CoolingEnds ==
  \A c \in Configs :
    []<>(status[c] # "COOLING_DOWN" \/ age[c] < Cool \/ faults > 0)
=============================================================================
