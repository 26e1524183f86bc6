---------------------------- MODULE TaskDelivery ----------------------------
(***************************************************************************)
(* What the queue and its consumers promise together: at-most-once         *)
(* delivery. A task is submitted once, taken by one worker at most and     *)
(* never comes back. It may be lost; it is never duplicated.               *)
(***************************************************************************)
CONSTANTS Tasks, Takers, Nobody

VARIABLES
  phase,   \* task -> "new", "queued", "taken" or "gone"
  holder   \* task -> the worker that has it, or Nobody

taskVars == <<phase, holder>>

TaskInit ==
  /\ phase = [t \in Tasks |-> "new"]
  /\ holder = [t \in Tasks |-> Nobody]

Submit(t) ==
  /\ phase[t] = "new"
  /\ phase' = [phase EXCEPT ![t] = "queued"]
  /\ UNCHANGED holder

Take(t, w) ==
  /\ phase[t] = "queued"
  /\ \A u \in Tasks : holder[u] # w
  /\ phase' = [phase EXCEPT ![t] = "taken"]
  /\ holder' = [holder EXCEPT ![t] = w]

\* The submission failed, the queue lost the task, or its worker is done.
Leave(t) ==
  /\ phase[t] # "gone"
  /\ phase' = [phase EXCEPT ![t] = "gone"]
  /\ holder' = [holder EXCEPT ![t] = Nobody]

\* A crash takes every task that is in someone's hands; queued tasks survive.
LoseHands ==
  \E lost \in SUBSET {t \in Tasks : phase[t] \in {"new", "taken"}} :
    /\ {t \in Tasks : phase[t] = "taken"} \subseteq lost
    /\ phase' = [t \in Tasks |-> IF t \in lost THEN "gone" ELSE phase[t]]
    /\ holder' = [t \in Tasks |-> Nobody]

TaskNext ==
  \/ \E t \in Tasks : Submit(t) \/ Leave(t) \/ \E w \in Takers : Take(t, w)
  \/ LoseHands

TaskSpec == TaskInit /\ [][TaskNext]_taskVars
=============================================================================
