--------------------------------- MODULE Capture ---------------------------------
(***************************************************************************)
(* The capture of API configurations: the job of                           *)
(* ApiConfigurationSchedulerService and its pipeline of InitAccountsStep,  *)
(* SessionRestoreStep and CleanupStep, the contexts that the browser pool  *)
(* keeps for sessions, and the handlers of intercepted requests, which     *)
(* outlive the page they were intercepted on.                              *)
(***************************************************************************)
EXTENDS SessionStore

CONSTANT MaxPending  \* bound: intercepted requests that are not yet saved

ASSUME CaptureAssumption == MaxPending \in Nat

VARIABLES
  capture,   \* the job: where it stands, the sessions left, the one at hand
  contexts,  \* session -> whom the context that the pool keeps for it logs in
  success,   \* the sessions counted as restored the last time they were tried
  pending,   \* intercepted requests <<session, login>> not yet saved
  config     \* the one saved last as an ApiConfiguration of its session

captureVars == <<capture, contexts, success, pending, config>>

NoSession == <<"none", 0>>
NoCapture == [at |-> "idle", plan |-> {}, session |-> NoSession, cookies |-> FALSE, ok |-> FALSE]

CaptureInit ==
  /\ capture = NoCapture
  /\ contexts = [s \in SessionIds |-> "none"]
  /\ success = {} /\ pending = {} /\ config = <<NoSession, "out">>

Doing(place) == capture.at = place
Proceed(place) == capture' = [capture EXCEPT !.at = place]
NextOne == capture' = [capture EXCEPT !.at = "next", !.session = NoSession, !.cookies = FALSE, !.ok = FALSE]
Put(st) == contexts' = [contexts EXCEPT ![capture.session] = st]

(* The session failed: its context is closed and leaves the pool's map. *)
GivenUp == Put("none") /\ success' = success \ {capture.session} /\ NextOne
Succeeded == success' = success \cup {capture.session} /\ NextOne

-----------------------------------------------------------------------------
(* processAccountsForApiConfig, unless the last call is still running.      *)
ProcessAccounts ==
  /\ Doing("idle") /\ Proceed("init")
  /\ UNCHANGED <<contexts, success, pending, config>>

(* InitAccountsStep: the first live session of each account, with what is   *)
(* known of its cookies now.                                                *)
FirstLive == {s \in live : \A n \in LiveRows(s[1]) : s[2] <= n}

InitAccounts ==
  /\ Doing("init")
  /\ capture' = [capture EXCEPT !.at = "next",
                   !.plan = {<<s, s[2] = 1 /\ s[1] \in cookies>> : s \in FirstLive}]
  /\ UNCHANGED <<contexts, success, pending, config>>

InitAccountsFails ==
  /\ Doing("init") /\ capture' = NoCapture
  /\ UNCHANGED <<contexts, success, pending, config>>

(* getBrowserForSessionRestore: the context the pool has for the session,   *)
(* unless its browser is gone, or a new one.                                *)
NextSession ==
  /\ Doing("next")
  /\ \E p \in capture.plan :
       /\ capture' = [capture EXCEPT !.at = "open", !.session = p[1], !.cookies = p[2],
                                     !.plan = @ \ {p}]
       /\ contexts' = [contexts EXCEPT ![p[1]] = IF @ \in {"none", "lost"} THEN "out" ELSE @]
  /\ UNCHANGED <<success, pending, config>>

(* The pool has no browser, or the new context cannot be had. *)
NoContext ==
  /\ Doing("next")
  /\ \E p \in capture.plan :
       /\ contexts[p[1]] \notin Logins
       /\ capture' = [capture EXCEPT !.plan = @ \ {p}]
       /\ contexts' = [contexts EXCEPT ![p[1]] = "none"]
       /\ success' = success \ {p[1]}
  /\ UNCHANGED <<pending, config>>

(* A page in the context and its navigation. *)
Navigate ==
  /\ Doing("open")
  /\ \/ contexts[capture.session] # "lost" /\ Proceed("state") /\ UNCHANGED <<contexts, success>>
     \/ GivenUp
  /\ UNCHANGED <<pending, config>>

(* The state in the database, if there were cookies; a login TikTok does    *)
(* not accept is cleared.                                                   *)
RestoreState ==
  LET s == capture.session
      st == StateOf(s[1], s[2])
  IN  /\ Doing("state")
      /\ IF ~capture.cookies THEN Proceed("file") /\ UNCHANGED <<contexts, success>>
         ELSE \/ /\ contexts[s] # "lost" /\ st \in Accounts /\ Put(st)
                 /\ capture' = [capture EXCEPT !.at = "file", !.ok = TRUE] /\ UNCHANGED success
              \/ /\ Put(IF contexts[s] = "lost" THEN "lost" ELSE "out")
                 /\ Proceed("file") /\ UNCHANGED success
              \/ GivenUp
      /\ UNCHANGED <<pending, config>>

(* And the file in any case; without the file the session is given up. *)
RestoreFile ==
  LET s == capture.session
  IN  /\ Doing("file") /\ file[s[1]] # "none"
      /\ contexts[s] # "lost" /\ file[s[1]] \in Accounts
      /\ Put(file[s[1]]) /\ Proceed("scroll")
      /\ UNCHANGED <<success, pending, config>>

(* A plausible error in FileMissing, for the runs' mutants. *)
FileMissingKept ==
  /\ Doing("file") /\ file[capture.session[1]] = "none"
  /\ success' = success \ {capture.session} /\ NextOne
  /\ UNCHANGED <<contexts, pending, config>>

FileMissing ==
  /\ Doing("file") /\ file[capture.session[1]] = "none" /\ GivenUp
  /\ UNCHANGED <<pending, config>>

(* The file does not restore: the context is cleared, though a session that *)
(* the database restored before is counted a success unless it throws.      *)
FileFails ==
  /\ Doing("file") /\ Put("none") /\ NextOne
  /\ \/ success' = success \ {capture.session}
     \/ capture.ok /\ success' = success \cup {capture.session}
  /\ UNCHANGED <<pending, config>>

-----------------------------------------------------------------------------
(* setupInterception and scrollNaturally on a new page of the context.      *)
Intercept ==
  /\ Doing("scroll") /\ contexts[capture.session] \in Logins
  /\ LET request == <<capture.session, contexts[capture.session]>>
     IN  Cardinality(pending) < MaxPending /\ pending' = pending \cup {request}
  /\ UNCHANGED <<capture, contexts, success, config>>

EndScrolling ==
  /\ Doing("scroll") /\ Succeeded
  /\ UNCHANGED <<contexts, pending, config>>

(* A plausible error in OwnerOf, for the runs' mutants. *)
OwnerNow(request) == IF Doing("scroll") THEN capture.session ELSE request[1]

(* captureRequest: each handler belongs to the service made for its session. *)
OwnerOf(request) == request[1]

CaptureRequest(request) ==
  /\ request \in pending /\ pending' = pending \ {request}
  /\ config' = <<OwnerOf(request), request[2]>>
  /\ UNCHANGED <<capture, contexts, success>>

CaptureFails(request) ==
  /\ request \in pending /\ pending' = pending \ {request}
  /\ UNCHANGED <<capture, contexts, success, config>>

EndCapture ==
  /\ Doing("next") /\ capture.plan = {} /\ capture' = NoCapture
  /\ UNCHANGED <<contexts, success, pending, config>>

(* The pool drops a browser; the contexts it had are found lost when used.  *)
BrowserLost(s) ==
  /\ contexts[s] \in Logins /\ contexts' = [contexts EXCEPT ![s] = "lost"]
  /\ UNCHANGED <<capture, success, pending, config>>

CaptureStep ==
  \/ InitAccounts \/ InitAccountsFails \/ NextSession \/ NoContext \/ Navigate
  \/ RestoreState \/ RestoreFile \/ FileMissing \/ FileFails \/ EndScrolling \/ EndCapture

CaptureTypeOK ==
  /\ capture.at \in {"idle", "init", "next", "open", "state", "file", "scroll"}
  /\ capture.plan \subseteq SessionIds \X BOOLEAN
  /\ capture.session \in SessionIds \cup {NoSession}
  /\ contexts \in [SessionIds -> Logins \cup {"none", "lost"}]
  /\ success \subseteq SessionIds
  /\ pending \subseteq SessionIds \X Logins /\ config \in (SessionIds \cup {NoSession}) \X Logins
=============================================================================
