-------------------------- MODULE RequestDelivery --------------------------
(***************************************************************************)
(* RequestSystem seen as TaskDelivery: the phase and the holder of each    *)
(* request, read off the queue, the workers and the creations in progress. *)
(***************************************************************************)
EXTENDS RequestSystem

PhaseOf(r) ==
  CASE r \in queue -> "queued"
    [] r \notin queue /\ Held(r) -> "taken"
    [] OTHER ->
         IF r \notin issued \/ \E p \in Procs : Creating(p, r) THEN "new" ELSE "gone"

HolderOf(r) ==
  IF Held(r) THEN CHOOSE w \in Workers : Holding(w, r) ELSE NoRequest

Delivery == INSTANCE TaskDelivery WITH
  Tasks <- Requests, Takers <- Workers, Nobody <- NoRequest,
  phase <- [r \in Requests |-> PhaseOf(r)],
  holder <- [r \in Requests |-> HolderOf(r)]

\* The request system delivers each request to a worker at most once: a popped
\* request is never queued again and never handed to a second worker
\* (createRequest, dequeueRequest, processRequest and restarts together).
DeliversAtMostOnce == Delivery!TaskSpec
=============================================================================
