------------------------------ MODULE SessionSaves ------------------------------
(***************************************************************************)
(* What logins promise to whoever reads the sessions: an account's file,   *)
(* row and state are written in this order, any of them may be left out,   *)
(* and they log in that account or nobody, one account after the other,    *)
(* as long as no two runs of the schedule overlap.                         *)
(***************************************************************************)
EXTENDS SessionStore

CONSTANT Runs

VARIABLES
  saving,  \* run -> the account it saves, and what comes next
  stuck    \* the runs that were begun beside one taken for stuck

savesVars == <<store, saving, stuck>>

Away == [next |-> "none", account |-> "none", as |-> "none"]

SavesInit == StoreInit /\ saving = [r \in Runs |-> Away] /\ stuck = 0

Goes(r, next) == saving' = [saving EXCEPT ![r].next = next]

Save(r) ==
  /\ saving[r] = Away
  /\ stuck > 0 \/ \A q \in Runs : saving[q] = Away
  /\ \E a \in Accounts : \E as \in IF stuck > 0 THEN Logins ELSE {a, "out"} :
       /\ WriteFile(a, as)
       /\ saving' = [saving EXCEPT ![r] = [next |-> "state", account |-> a, as |-> as]]
  /\ UNCHANGED <<rows, live, recent, cookies, state, stuck>>

SaveState(r) ==
  /\ saving[r].next = "state"
  /\ saving' = [saving EXCEPT ![r].next = "row", ![r].as = "none"]
  /\ \E saved \in BOOLEAN : SaveSessionState(saving[r].account, saving[r].as, saved)
  /\ UNCHANGED stuck

SaveRow(r) ==
  /\ saving[r].next = "row" /\ Goes(r, "login")
  /\ UpdateSession(saving[r].account) \/ UNCHANGED store
  /\ UNCHANGED stuck

SaveLogin(r) ==
  /\ saving[r].next = "login" /\ saving' = [saving EXCEPT ![r] = Away]
  /\ CreateSession(saving[r].account) \/ UNCHANGED store
  /\ UNCHANGED stuck

(* A login fails, or all are lost with the process. *)
Abandon(rs) ==
  /\ saving' = [r \in Runs |-> IF r \in rs THEN Away ELSE saving[r]]
  /\ UNCHANGED <<store, stuck>>

Overlap == stuck' = stuck + 1 /\ UNCHANGED <<store, saving>>

SavesStep(r) == Save(r) \/ SaveState(r) \/ SaveRow(r) \/ SaveLogin(r)

SavesNext ==
  \/ \E r \in Runs : SavesStep(r)
  \/ \E rs \in SUBSET Runs : Abandon(rs)
  \/ \E s \in SessionIds : Lapse(s) /\ UNCHANGED <<saving, stuck>>
  \/ \E a \in Accounts : LoseFile(a) /\ UNCHANGED <<saving, stuck>>
  \/ Overlap

SavesSpec == SavesInit /\ [][SavesNext]_savesVars
=============================================================================
