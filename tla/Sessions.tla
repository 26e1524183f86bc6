-------------------------------- MODULE Sessions --------------------------------
(***************************************************************************)
(* Logins and captures of one process share the rows of Session and the    *)
(* session files and nothing else. So a behaviour is about one part: the   *)
(* logins, which implement SessionSaves, or the captures beside logins     *)
(* that do what SessionSaves says of them.                                 *)
(***************************************************************************)
EXTENDS Login, Capture

CONSTANTS
  MaxLogins,   \* bound: the accounts that logins are begun for
  MaxFaults    \* bound: restarts, rows that expire, lost files, runs taken for stuck

ASSUME SessionsAssumption == {MaxLogins, MaxFaults} \subseteq Nat

VARIABLES part, saves, logins, faults

vars == <<store, loginVars, captureVars, part, saves, logins, faults>>
bounds == <<logins, faults>>

Parts == {"logins", "captures"}

(* What a run of logins is about to save. *)
Saves ==
  [r \in Runs |->
    LET next == CASE At(r, "store") -> "state"
                  [] At(r, "update") -> "row"
                  [] At(r, "record") \/ (At(r, "close") /\ run[r].ok) -> "login"
                  [] OTHER -> "none"
    IN  [next |-> next,
         account |-> IF next = "none" THEN "none" ELSE run[r].account,
         as |-> IF next = "state" THEN run[r].as ELSE "none"]]

Saving == INSTANCE SessionSaves WITH saving <- IF part = "logins" THEN Saves ELSE saves
Others == INSTANCE SessionSaves WITH saving <- saves

Init ==
  /\ StoreInit /\ LoginInit /\ CaptureInit
  /\ part \in Parts /\ saves = [r \in Runs |-> Others!Away] /\ logins = 0 /\ faults = 0

-----------------------------------------------------------------------------
RunStep(r) ==
  \/ SelectAccounts(r) \/ (\E a \in Accounts : NoTab(r, a)) \/ EndRun(r)
  \/ Initialization(r) \/ Navigation(r) \/ SessionRestore(r) \/ SkipStep(r) \/ StepFails(r)
  \/ CookieConsent(r) \/ LoginButton(r) \/ SelectPhoneEmailLogin(r)
  \/ FillLoginForm(r) \/ SubmitLoginForm(r)
  \/ CaptchaVerification(r) \/ SolveByApi(r) \/ PollCaptcha(r) \/ CaptchaTimesOut(r)
  \/ EmailVerification(r) \/ PollMail(r) \/ MailTimesOut(r) \/ EnterCode(r) \/ CodeNotEntered(r)
  \/ SaveSession(r) \/ StoreState(r) \/ SaveSessionToDatabase(r) \/ CloseTab(r) \/ RecordLogin(r)

WorkOn(r) ==
  /\ part = "logins"
  /\ \/ RunStep(r) /\ UNCHANGED bounds
     \/ /\ \E a \in Accounts : NextAccount(r, a)
        /\ logins < MaxLogins /\ logins' = logins + 1 /\ UNCHANGED faults
  /\ UNCHANGED <<captureVars, part, saves>>

LoginNext ==
  \/ \E r \in Runs : WorkOn(r)
  \/ /\ part = "logins"
     /\ \E r \in Runs : CheckAndRefresh(r) \/ SolveByHand(r) \/ SendCode(r)
     /\ faults + stuck' <= MaxFaults
     /\ UNCHANGED <<captureVars, part, saves, bounds>>

CaptureNext ==
  /\ part = "captures"
  /\ \/ CaptureStep \/ ProcessAccounts \/ Intercept
     \/ \E request \in pending : CaptureRequest(request) \/ CaptureFails(request)
     \/ \E s \in SessionIds : BrowserLost(s)
  /\ UNCHANGED <<store, loginVars, part, saves, bounds>>

SaveNext ==
  /\ part = "captures"
  /\ \/ \E r \in Runs : Others!Save(r) /\ logins < MaxLogins /\ logins' = logins + 1
     \/ /\ \/ \E r \in Runs : Others!SaveState(r) \/ Others!SaveRow(r) \/ Others!SaveLogin(r)
           \/ \E r \in Runs : saves[r] # Others!Away /\ Others!Abandon({r})
        /\ UNCHANGED logins
  /\ UNCHANGED <<loginVars, captureVars, part, faults>>

(* What the process has in memory is lost, with the browsers; a capture     *)
(* begins with nothing anyway.                                              *)
Restart ==
  /\ part = "logins" /\ faults + stuck < MaxFaults /\ faults' = faults + 1
  /\ up' = FALSE /\ isRefreshing' = FALSE /\ run' \in StartUps
  /\ page' = [r \in Runs |-> Closed] /\ shared' = "none" /\ restored' = FALSE /\ imap' = "none"
  /\ UNCHANGED <<store, captureVars, stuck, mail, recorded, typed, part, saves, logins>>

Fault ==
  /\ \/ \E s \in SessionIds : Lapse(s)
     \/ \E a \in Accounts : LoseFile(a)
  /\ faults + stuck < MaxFaults /\ faults' = faults + 1
  /\ UNCHANGED <<loginVars, captureVars, part, saves, logins>>

Next == LoginNext \/ CaptureNext \/ SaveNext \/ Restart \/ Fault

Spec == Init /\ [][Next]_vars

-----------------------------------------------------------------------------
(* The type invariant of the store, the runs and the capture. *)
SessionsTypeOK ==
  /\ StoreTypeOK /\ CaptureTypeOK
  /\ {up, isRefreshing, restored} \subseteq BOOLEAN /\ stuck \in 0..MaxFaults
  /\ \A r \in Runs :
       /\ run[r].todo \subseteq Accounts /\ run[r].account \in Accounts \cup {"none"}
       /\ run[r].held \in Runs \cup {"none"}
       /\ run[r].tries \in 0..MaxAttempts \cup 0..(MaxRetries - 1)
       /\ run[r].at = "mail" => run[r].tries < MaxRetries
       /\ page[r].at \in {"closed", "blank", "home", "modal", "form", "filled",
                          "captcha", "code", "in", "refused"}
       /\ page[r].as \in Accounts \cup {"nobody"}
  /\ shared \in Runs \cup {"none"} /\ imap \in Accounts \cup {"none"}
  /\ mail \in [Accounts -> 0..MaxMail] /\ recorded \subseteq Messages

(* Logins implement SessionSaves: one account is saved after the other, and *)
(* what is saved of it logs in that account or nobody, though the page it   *)
(* is taken from is in a context that all logins share. The schedule keeps  *)
(* them apart, as long as no run is taken for stuck.                        *)
LoginsSave == Saving!SavesSpec

(* A configuration is captured with the login of the session it is          *)
(* connected to, though requests are saved while the next session is        *)
(* already restored and contexts are kept from one capture to the next.     *)
(* Logins that overlapped saved what they like: they are not in this part.  *)
CapturedIsOwn == config[2] \in {config[1][1], "out"}

(* No code sent by e-mail is entered twice, whatever is retried and however *)
(* many runs poll one mailbox, before and after a restart.                  *)
CodesOnce == \A m \in Messages : typed[m] <= 1

(* Between two sessions, the pool keeps contexts of those sessions only     *)
(* whose last restore was counted a success, at whichever step the others   *)
(* failed.                                                                  *)
LeftIsRestored ==
  Doing("next") \/ Doing("idle") =>
    \A s \in SessionIds : contexts[s] # "none" => s \in success
=============================================================================
