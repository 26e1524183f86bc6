--------------------------- MODULE ApiConfigs_proofs ---------------------------
(***************************************************************************)
(* Proofs about ApiConfigs, for any configurations, scrapes, refreshes and *)
(* periods: the types, that a configuration that cools down is on its way   *)
(* back, and that an expired one is not offered again.                      *)
(***************************************************************************)
EXTENDS ApiConfigs, TLAPS

-----------------------------------------------------------------------------
(* The types: in particular a scrape that works with a configuration, or     *)
(* reports an error of it, has one.                                         *)

Stages == {"idle", "find", "holding", "cool", "expire", "refresh", "lookup"}

LEMMA FaultCounted ==
  ASSUME ConfigsTypeOK, Fault
  PROVE  faults' \in 0..MaxFaults
  BY ConfigsAssumption DEF ConfigsTypeOK, Fault

LEMMA RefreshAsked ==
  ASSUME ConfigsTypeOK, AskRefresh
  PROVE  refresh' \in [Readers -> Heads \cup {"idle", "asked"}]
  BY DEF ConfigsTypeOK, AskRefresh

\* Who resumes works with no configuration until it looks one up.
LEMMA ResumeTyped ==
  ASSUME ConfigsTypeOK, NEW r \in Readers, Resume(r), UNCHANGED held
  PROVE  pc' \in [Users -> Stages] /\ UsersHold'
  BY DEF ConfigsTypeOK, UsersHold, Resume, Stages

LEMMA TakeTyped ==
  ASSUME ConfigsTypeOK, NEW u \in Users, NEW c \in Configs, Take(u, c)
  PROVE  pc' \in [Users -> Stages] /\ held' \in [Users -> Heads] /\ UsersHold'
  BY DEF ConfigsTypeOK, UsersHold, Take, Heads, Stages

LEMMA GiveUpTyped ==
  ASSUME ConfigsTypeOK, NEW u \in Users, GiveUp(u), UNCHANGED held
  PROVE  pc' \in [Users -> Stages] /\ UsersHold'
  BY DEF ConfigsTypeOK, UsersHold, GiveUp, Heads, Stages

\* A user that holds a configuration goes on with it, or lets go of it.
LEMMA HolderTyped ==
  ASSUME ConfigsTypeOK, NEW u \in Users, held[u] \in Configs, NEW stage \in Stages,
         pc' = [pc EXCEPT ![u] = stage], UNCHANGED held
  PROVE  pc' \in [Users -> Stages] /\ UsersHold'
  BY DEF ConfigsTypeOK, UsersHold, Stages

LEMMA RefreshStepTyped ==
  ASSUME ConfigsTypeOK, NEW r \in Readers, RefreshStep(r)
  PROVE  ConfigsTypeOK'
<1>1. CASE Query(r)
  BY <1>1 DEF ConfigsTypeOK, UsersHold, Query, rows, errors, users
<1>2. CASE Replace(r)
  <2>1. pc' \in [Users -> Stages] /\ UsersHold'
    BY <1>2, ResumeTyped DEF Replace
  <2>2. cache' \in Heads /\ refresh' \in [Readers -> Heads \cup {"idle", "asked"}]
    BY <1>2 DEF ConfigsTypeOK, Replace
  <2> QED BY <1>2, <2>1, <2>2 DEF ConfigsTypeOK, Replace, Stages, rows, errors
<1>3. CASE RefreshFails(r)
  <2>1. pc' \in [Users -> Stages] /\ UsersHold'
    BY <1>3, ResumeTyped DEF RefreshFails
  <2>2. faults' \in 0..MaxFaults
    BY <1>3, FaultCounted DEF RefreshFails, ConfigsTypeOK
  <2>3. refresh' \in [Readers -> Heads \cup {"idle", "asked"}]
    BY <1>3 DEF ConfigsTypeOK, RefreshFails
  <2> QED BY <1>3, <2>1, <2>2, <2>3 DEF ConfigsTypeOK, RefreshFails, Stages, rows, errors
<1> QED BY <1>1, <1>2, <1>3 DEF RefreshStep

LEMMA LookupTyped ==
  ASSUME ConfigsTypeOK, NEW u \in Users,
         FromCache(u) \/ Miss(u) \/ Find(u) \/ FindNothing(u) \/ FindFails(u)
  PROVE  ConfigsTypeOK'
<1>1. CASE FromCache(u)
  <2>1. cache \in Configs
    BY <1>1 DEF FromCache, Hit, ConfigsTypeOK, Heads
  <2>2. pc' \in [Users -> Stages] /\ held' \in [Users -> Heads] /\ UsersHold'
    BY <1>1, <2>1, TakeTyped DEF FromCache
  <2> QED BY <1>1, <2>2 DEF ConfigsTypeOK, FromCache, Stages, rows, errors
<1>2. CASE Miss(u)
  <2>1. pc' \in [Users -> Stages] /\ UsersHold'
    BY <1>2 DEF Miss, ConfigsTypeOK, UsersHold, Stages
  <2> QED BY <1>2, <2>1 DEF ConfigsTypeOK, Miss, Stages, rows, errors
<1>3. CASE Find(u)
  <2>1. pc' \in [Users -> Stages] /\ held' \in [Users -> Heads] /\ UsersHold'
    BY <1>3, TakeTyped DEF Find
  <2>2. refresh' \in [Readers -> Heads \cup {"idle", "asked"}]
    BY <1>3, RefreshAsked DEF Find, ConfigsTypeOK
  <2> QED BY <1>3, <2>1, <2>2 DEF ConfigsTypeOK, Find, Stages, rows, errors
<1>4. CASE FindNothing(u)
  <2>1. pc' \in [Users -> Stages] /\ UsersHold'
    BY <1>4, GiveUpTyped DEF FindNothing
  <2> QED BY <1>4, <2>1 DEF ConfigsTypeOK, FindNothing, Stages, rows, errors
<1>5. CASE FindFails(u)
  <2>1. pc' \in [Users -> Stages] /\ UsersHold'
    BY <1>5, GiveUpTyped DEF FindFails
  <2>2. faults' \in 0..MaxFaults
    BY <1>5, FaultCounted DEF FindFails, ConfigsTypeOK
  <2> QED BY <1>5, <2>1, <2>2 DEF ConfigsTypeOK, FindFails, Stages, rows, errors
<1> QED BY <1>1, <1>2, <1>3, <1>4, <1>5

LEMMA HoldingTyped ==
  ASSUME ConfigsTypeOK, NEW u \in Users,
         Fallback(u) \/ Finish(u) \/ \E grave \in BOOLEAN : ReportError(u, grave)
  PROVE  ConfigsTypeOK'
<1>0. held[u] \in Configs
  BY DEF Fallback, Finish, ReportError, ConfigsTypeOK, UsersHold
<1>1. CASE Fallback(u)
  <2>1. pc' \in [Users -> Stages] /\ UsersHold'
    BY <1>0, <1>1, HolderTyped DEF Fallback, Stages
  <2>2. refresh' \in [Readers -> Heads \cup {"idle", "asked"}]
    BY <1>1 DEF ConfigsTypeOK, Fallback
  <2> QED BY <1>1, <2>1, <2>2 DEF ConfigsTypeOK, Fallback, Stages, rows, errors
<1>2. CASE Finish(u)
  <2>1. /\ pc' \in [Users -> Stages] /\ held' \in [Users -> Heads] /\ UsersHold'
    BY <1>2 DEF Finish, ConfigsTypeOK, UsersHold, Stages, Heads
  <2> QED BY <1>2, <2>1 DEF ConfigsTypeOK, Finish, Stages, rows, errors
<1>3. ASSUME NEW grave \in BOOLEAN, ReportError(u, grave)
      PROVE  ConfigsTypeOK'
  <2> DEFINE c == held[u]
             n == Lowest(recent[c] + 1, TooMany)
             fatals == IF grave THEN fatal \cup {c} ELSE fatal
  <2>1. n \in 0..TooMany
    <3>1. recent[c] \in 0..TooMany
      BY <1>0 DEF ConfigsTypeOK
    <3> QED BY <3>1, ConfigsAssumption DEF Lowest
  <2>2. Verdict(c, n, fatals) \in Stages
    BY DEF Verdict, Stages
  <2>3. pc' = [pc EXCEPT ![u] = Verdict(c, n, fatals)] /\ held' = held
    BY <1>3 DEF ReportError
  <2>4. pc' \in [Users -> Stages] /\ UsersHold'
    BY <1>0, <2>2, <2>3, HolderTyped
  <2>5. fatal' \subseteq Configs
    BY <1>0, <1>3 DEF ReportError, ConfigsTypeOK
  <2>6. recent' \in [Configs -> 0..TooMany] /\ age' \in [Configs -> 0..Cool]
    <3> HIDE DEF n, fatals
    <3>1. recent' = [recent EXCEPT ![c] = n] /\ age' = [age EXCEPT ![c] = 0]
      BY <1>3 DEF ReportError, n
    <3>2. 0 \in 0..Cool
      BY ConfigsAssumption
    <3> QED BY <2>1, <3>1, <3>2 DEF ConfigsTypeOK
  <2> QED BY <1>3, <2>4, <2>5, <2>6 DEF ConfigsTypeOK, ReportError, Stages, rows
<1> QED BY <1>1, <1>2, <1>3

LEMMA MarkTyped ==
  ASSUME ConfigsTypeOK, NEW u \in Users, MarkAsCoolingDown(u) \/ MarkAsExpired(u) \/ MarkFails(u)
  PROVE  ConfigsTypeOK'
<1>0. held[u] \in Configs
  BY DEF MarkAsCoolingDown, MarkAsExpired, MarkFails, ConfigsTypeOK, UsersHold
<1>1. pc' \in [Users -> Stages] /\ UsersHold'
  BY <1>0, HolderTyped DEF MarkAsCoolingDown, MarkAsExpired, MarkFails, Stages
<1>2. CASE MarkAsCoolingDown(u)
  <2>1. refresh' \in [Readers -> Heads \cup {"idle", "asked"}]
    BY <1>2, RefreshAsked DEF MarkAsCoolingDown, ConfigsTypeOK
  <2>2. timers' \in [Configs -> SUBSET (0..Cool)]
    <3>1. Cool \in 0..Cool
      BY ConfigsAssumption
    <3> QED BY <1>0, <1>2, <3>1 DEF MarkAsCoolingDown, ConfigsTypeOK
  <2>3. status' \in [Configs -> {"none", "ACTIVE", "COOLING_DOWN", "EXPIRED"}]
    BY <1>0, <1>2 DEF MarkAsCoolingDown, ConfigsTypeOK
  <2> QED BY <1>1, <1>2, <2>1, <2>2, <2>3 DEF ConfigsTypeOK, MarkAsCoolingDown, Stages, errors
<1>3. CASE MarkAsExpired(u)
  <2>1. refresh' \in [Readers -> Heads \cup {"idle", "asked"}]
    BY <1>3, RefreshAsked DEF MarkAsExpired, ConfigsTypeOK
  <2>2. /\ status' \in [Configs -> {"none", "ACTIVE", "COOLING_DOWN", "EXPIRED"}]
        /\ cut' \subseteq Configs
    BY <1>0, <1>3 DEF MarkAsExpired, ConfigsTypeOK
  <2> QED BY <1>1, <1>3, <2>1, <2>2 DEF ConfigsTypeOK, MarkAsExpired, Stages, errors
<1>4. CASE MarkFails(u)
  <2>1. faults' \in 0..MaxFaults
    BY <1>4, FaultCounted DEF MarkFails, ConfigsTypeOK
  <2> QED BY <1>1, <1>4, <2>1 DEF ConfigsTypeOK, MarkFails, Stages, rows, errors
<1> QED BY <1>2, <1>3, <1>4

LEMMA TimerTyped ==
  ASSUME ConfigsTypeOK, NEW c \in Configs, TimerStep(c)
  PROVE  ConfigsTypeOK'
<1>0. Cool \in 0..Cool
  BY ConfigsAssumption
<1>1. CASE TimerFires(c)
  <2>1. timers' \in [Configs -> SUBSET (0..Cool)] /\ reviving' \subseteq Configs
    BY <1>0, <1>1 DEF TimerFires, ConfigsTypeOK
  <2> QED BY <1>1, <2>1 DEF ConfigsTypeOK, UsersHold, TimerFires, rows, errors, users
<1>2. CASE Reactivate(c)
  <2>1. refresh' \in [Readers -> Heads \cup {"idle", "asked"}]
    BY <1>2, RefreshAsked DEF Reactivate, ConfigsTypeOK
  <2>2. recent' \in [Configs -> 0..TooMany] /\ age' \in [Configs -> 0..Cool]
    <3>1. 0 \in 0..TooMany
      BY ConfigsAssumption
    <3> QED BY <1>0, <1>2, <3>1 DEF Reactivate, ConfigsTypeOK
  <2> QED BY <1>2, <2>1, <2>2 DEF ConfigsTypeOK, UsersHold, Reactivate, users
<1>3. CASE ReactivateThrows(c)
  <2>1. faults' \in 0..MaxFaults
    BY <1>3, FaultCounted DEF ReactivateThrows, ConfigsTypeOK
  <2> QED BY <1>3, <2>1 DEF ConfigsTypeOK, UsersHold, ReactivateThrows, rows, errors, users
<1> QED BY <1>1, <1>2, <1>3 DEF TimerStep

LEMMA EnvironmentTyped ==
  ASSUME ConfigsTypeOK, Tick \/ Restart \/ \E c \in Configs : Capture(c) \/ Lapse(c)
  PROVE  ConfigsTypeOK'
<1>1. CASE Tick
  <2>1. refresh' \in [Readers -> Heads \cup {"idle", "asked"}]
    BY <1>1, RefreshAsked DEF Tick, ConfigsTypeOK
  <2>2. recent' \in [Configs -> 0..TooMany] /\ age' \in [Configs -> 0..Cool]
    <3>1. \A c \in Configs : Lowest(age[c] + 1, Cool) \in 0..Cool
      BY ConfigsAssumption DEF Lowest, ConfigsTypeOK
    <3>2. 0 \in 0..TooMany
      BY ConfigsAssumption
    <3> QED BY <1>1, <3>1, <3>2 DEF Tick
  <2>3. timers' \in [Configs -> SUBSET (0..Cool)]
    <3>1. ASSUME NEW c \in Configs, NEW t \in timers[c]
          PROVE  t - 1 \in 0..Cool
      BY <1>1, <3>1, ConfigsAssumption DEF Tick, ConfigsTypeOK
    <3> QED BY <1>1, <3>1 DEF Tick
  <2> QED BY <1>1, <2>1, <2>2, <2>3 DEF ConfigsTypeOK, UsersHold, Tick, rows, users
<1>2. CASE Restart
  <2>1. faults' \in 0..MaxFaults
    BY <1>2, FaultCounted DEF Restart, ConfigsTypeOK
  <2>2. refresh' \in [Readers -> Heads \cup {"idle", "asked"}]
    BY <1>2 DEF Restart, Asking
  <2>3. 0 \in 0..TooMany /\ Cool \in 0..Cool
    BY ConfigsAssumption
  <2> QED BY <1>2, <2>1, <2>2, <2>3 DEF ConfigsTypeOK, UsersHold, Restart, rows, Heads
<1>3. ASSUME NEW c \in Configs, Capture(c)
      PROVE  ConfigsTypeOK'
  BY <1>3 DEF ConfigsTypeOK, UsersHold, Capture, errors, users
<1>4. ASSUME NEW c \in Configs, Lapse(c)
      PROVE  ConfigsTypeOK'
  BY <1>4 DEF ConfigsTypeOK, UsersHold, Lapse, errors, users
<1> QED BY <1>1, <1>2, <1>3, <1>4

LEMMA InitTyped == Init => ConfigsTypeOK
<1>1. 0 \in 0..TooMany /\ Cool \in 0..Cool /\ 0 \in 0..MaxFaults
  BY ConfigsAssumption
<1> QED BY <1>1 DEF Init, ConfigsTypeOK, UsersHold, Asking, Heads

LEMMA NextTyped == ConfigsTypeOK /\ [Next]_vars => ConfigsTypeOK'
<1> SUFFICES ASSUME ConfigsTypeOK, [Next]_vars PROVE ConfigsTypeOK'
  OBVIOUS
<1>1. ASSUME NEW u \in Users, UserStep(u)
      PROVE  ConfigsTypeOK'
  BY <1>1, LookupTyped, HoldingTyped, MarkTyped DEF UserStep
<1>2. CASE UNCHANGED vars
  BY <1>2 DEF vars, rows, errors, users, ConfigsTypeOK, UsersHold
<1> QED BY <1>1, <1>2, RefreshStepTyped, TimerTyped, EnvironmentTyped DEF Next

(* The rows, the cache, the history of errors, the timers and the scrapes   *)
(* stay within their types: no error is reported of a configuration nobody  *)
(* holds, and no timer runs longer than the cooling-down period.            *)
THEOREM ConfigsTypeCorrect == Spec => []ConfigsTypeOK
  BY InitTyped, NextTyped, PTL DEF Spec

-----------------------------------------------------------------------------
(* What cools down is scheduled.                                            *)

LEMMA InitScheduled == Init => CoolingIsScheduled
  BY DEF Init, CoolingIsScheduled

LEMMA FaultExcuses ==
  ASSUME ConfigsTypeOK, Fault
  PROVE  CoolingIsScheduled'
  BY ConfigsAssumption DEF ConfigsTypeOK, Fault, CoolingIsScheduled

\* A timer becomes a reactivation, or a timer of another period.
LEMMA TimersKeepScheduled ==
  ASSUME ConfigsTypeOK, CoolingIsScheduled, NEW c \in Configs, TimerStep(c)
  PROVE  CoolingIsScheduled'
<1>1. CASE TimerFires(c)
  <2>1. timers'[c] # {} \/ c \in reviving'
    BY <1>1 DEF TimerFires, ConfigsTypeOK
  <2>2. /\ \A d \in Configs \ {c} : timers'[d] = timers[d] /\ (d \in reviving => d \in reviving')
        /\ UNCHANGED <<status, faults>>
    BY <1>1 DEF TimerFires, ConfigsTypeOK, rows
  <2> QED BY <2>1, <2>2 DEF CoolingIsScheduled
<1>2. CASE Reactivate(c)
  <2>1. status'[c] = "ACTIVE" /\ \A d \in Configs \ {c} : status'[d] = status[d]
    BY <1>2 DEF Reactivate, ConfigsTypeOK
  <2> QED BY <1>2, <2>1 DEF Reactivate, CoolingIsScheduled
<1>3. CASE ReactivateThrows(c)
  BY <1>3, FaultExcuses DEF ReactivateThrows, CoolingIsScheduled, rows
<1> QED BY <1>1, <1>2, <1>3 DEF TimerStep

\* A tick shortens every timer and ends none.
LEMMA TickKeepsScheduled ==
  ASSUME CoolingIsScheduled, Tick
  PROVE  CoolingIsScheduled'
<1>1. \A c \in Configs : timers[c] # {} => timers'[c] # {}
  <2>1. \A c \in Configs : timers'[c] = {t - 1 : t \in timers[c]}
    BY DEF Tick
  <2> QED BY <2>1
<1> QED BY <1>1 DEF Tick, CoolingIsScheduled, rows

LEMMA UsersKeepScheduled ==
  ASSUME ConfigsTypeOK, CoolingIsScheduled, NEW u \in Users, UserStep(u)
  PROVE  CoolingIsScheduled'
<1>1. CASE MarkAsCoolingDown(u)
  <2>1. held[u] \in Configs
    BY <1>1 DEF MarkAsCoolingDown, ConfigsTypeOK, UsersHold
  <2>2. /\ timers'[held[u]] # {} /\ UNCHANGED <<reviving, faults>>
        /\ \A c \in Configs \ {held[u]} : timers'[c] = timers[c] /\ status'[c] = status[c]
    BY <1>1, <2>1 DEF MarkAsCoolingDown, ConfigsTypeOK
  <2> QED BY <2>1, <2>2 DEF CoolingIsScheduled
<1>2. CASE MarkAsExpired(u)
  <2>1. held[u] \in Configs
    BY <1>2 DEF MarkAsExpired, ConfigsTypeOK, UsersHold
  <2>2. /\ status'[held[u]] = "EXPIRED" /\ UNCHANGED <<timers, reviving, faults>>
        /\ \A c \in Configs \ {held[u]} : status'[c] = status[c]
    BY <1>2, <2>1 DEF MarkAsExpired, ConfigsTypeOK
  <2> QED BY <2>1, <2>2 DEF CoolingIsScheduled
<1>3. CASE ~MarkAsCoolingDown(u) /\ ~MarkAsExpired(u)
  <2>1. UNCHANGED <<status, timers, reviving>> /\ (UNCHANGED faults \/ Fault)
    BY <1>3
    DEF UserStep, FromCache, Miss, Find, FindNothing, FindFails, Fallback, Finish, ReportError,
        MarkFails, rows
  <2> QED BY <2>1, FaultExcuses DEF CoolingIsScheduled
<1> QED BY <1>1, <1>2, <1>3

LEMMA NextKeepsScheduled == ConfigsTypeOK /\ CoolingIsScheduled /\ [Next]_vars => CoolingIsScheduled'
<1> SUFFICES ASSUME ConfigsTypeOK, CoolingIsScheduled, [Next]_vars PROVE CoolingIsScheduled'
  OBVIOUS
<1>1. ASSUME NEW r \in Readers, RefreshStep(r)
      PROVE  CoolingIsScheduled'
  <2>1. UNCHANGED <<status, timers, reviving>> /\ (UNCHANGED faults \/ Fault)
    BY <1>1 DEF RefreshStep, Query, Replace, RefreshFails, rows
  <2> QED BY <2>1, FaultExcuses DEF CoolingIsScheduled
<1>2. ASSUME NEW c \in Configs, Capture(c) \/ Lapse(c)
      PROVE  CoolingIsScheduled'
  <2>1. \A d \in Configs : status'[d] = "COOLING_DOWN" => status[d] = "COOLING_DOWN"
    BY <1>2 DEF Capture, Lapse, ConfigsTypeOK
  <2> QED BY <1>2, <2>1 DEF Capture, Lapse, CoolingIsScheduled
<1>3. CASE Restart
  BY <1>3, FaultExcuses DEF Restart
<1>4. CASE UNCHANGED vars
  BY <1>4 DEF vars, rows, CoolingIsScheduled
<1> QED BY <1>1, <1>2, <1>3, <1>4, TickKeepsScheduled, UsersKeepScheduled, TimersKeepScheduled
        DEF Next

(* A configuration that cools down has a timer or is being reactivated, for *)
(* any number of scrapes and reports, as long as no call failed and the     *)
(* process was not restarted: extensions and reactivations that cross each  *)
(* other never leave one behind.                                            *)
THEOREM CoolingAlwaysScheduled == Spec => []CoolingIsScheduled
  BY InitScheduled, NextKeepsScheduled, ConfigsTypeCorrect, PTL DEF Spec

-----------------------------------------------------------------------------
(* What is expired stays out of use: its date was brought forward, and      *)
(* nothing puts that off.                                                   *)

ExpiredIsCut == \A c \in Configs : status[c] = "EXPIRED" => c \in cut

CutStays == \A c \in Configs : c \in cut => c \in cut'

LEMMA InitCut == Init => ExpiredIsCut
  BY DEF Init, ExpiredIsCut

\* Marking it expired is all that brings a date forward.
LEMMA UsersKeepCut ==
  ASSUME ConfigsTypeOK, ExpiredIsCut, NEW u \in Users, UserStep(u)
  PROVE  ExpiredIsCut' /\ CutStays
<1>1. CASE MarkAsCoolingDown(u)
  <2>1. held[u] \in Configs
    BY <1>1 DEF MarkAsCoolingDown, ConfigsTypeOK, UsersHold
  <2>2. /\ status'[held[u]] = "COOLING_DOWN" /\ UNCHANGED cut
        /\ \A c \in Configs \ {held[u]} : status'[c] = status[c]
    BY <1>1, <2>1 DEF MarkAsCoolingDown, ConfigsTypeOK
  <2> QED BY <2>1, <2>2 DEF ExpiredIsCut, CutStays
<1>2. CASE MarkAsExpired(u)
  <2>1. held[u] \in Configs
    BY <1>2 DEF MarkAsExpired, ConfigsTypeOK, UsersHold
  <2>2. /\ cut' = cut \cup {held[u]}
        /\ \A c \in Configs \ {held[u]} : status'[c] = status[c]
    BY <1>2, <2>1 DEF MarkAsExpired, ConfigsTypeOK
  <2> QED BY <2>1, <2>2 DEF ExpiredIsCut, CutStays
<1>3. CASE ~MarkAsCoolingDown(u) /\ ~MarkAsExpired(u)
  <2>1. UNCHANGED <<status, cut>>
    BY <1>3
    DEF UserStep, FromCache, Miss, Find, FindNothing, FindFails, Fallback, Finish, ReportError,
        MarkFails, rows
  <2> QED BY <2>1 DEF ExpiredIsCut, CutStays
<1> QED BY <1>1, <1>2, <1>3

LEMMA NextKeepsCut == ConfigsTypeOK /\ ExpiredIsCut /\ [Next]_vars => ExpiredIsCut' /\ CutStays
<1> SUFFICES ASSUME ConfigsTypeOK, ExpiredIsCut, [Next]_vars PROVE ExpiredIsCut' /\ CutStays
  OBVIOUS
<1>1. ASSUME NEW c \in Configs, TimerStep(c) \/ Capture(c) \/ Lapse(c)
      PROVE  ExpiredIsCut' /\ CutStays
  <2>1. /\ UNCHANGED cut
        /\ \A d \in Configs : status'[d] = status[d] \/ status'[d] = "ACTIVE"
    BY <1>1 DEF TimerStep, TimerFires, Reactivate, ReactivateThrows, Capture, Lapse, rows,
       ConfigsTypeOK
  <2> QED BY <2>1 DEF ExpiredIsCut, CutStays
<1>2. CASE \/ \E r \in Readers : RefreshStep(r)
           \/ Tick \/ Restart \/ UNCHANGED vars
  <2>1. UNCHANGED <<status, cut>>
    BY <1>2 DEF RefreshStep, Query, Replace, RefreshFails, Tick, Restart, vars, rows
  <2> QED BY <2>1 DEF ExpiredIsCut, CutStays
<1> QED BY <1>1, <1>2, UsersKeepCut DEF Next

(* "Permanently invalid" is permanent, for any scrapes, reports and timers: *)
(* a row once marked expired is not offered again, though it may be ACTIVE  *)
(* again.                                                                   *)
THEOREM ExpiredForGood == Spec => PermanentlyInvalid
<1>1. ASSUME NEW c \in Configs
      PROVE  Spec => [](status[c] = "EXPIRED" => []~Usable(c))
  <2>1. ConfigsTypeOK /\ ExpiredIsCut /\ [Next]_vars => ExpiredIsCut' /\ (c \in cut => (c \in cut)')
    BY NextKeepsCut DEF CutStays
  <2>2. ExpiredIsCut => (status[c] = "EXPIRED" => c \in cut)
    BY DEF ExpiredIsCut
  <2>3. c \in cut => ~Usable(c)
    BY DEF Usable
  <2> QED BY <2>1, <2>2, <2>3, InitCut, ConfigsTypeCorrect, PTL DEF Spec
<1> QED BY <1>1 DEF PermanentlyInvalid
=============================================================================
