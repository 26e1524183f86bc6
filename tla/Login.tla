---------------------------------- MODULE Login ----------------------------------
(***************************************************************************)
(* The schedule that logs accounts in (SessionScheduleService), the login  *)
(* of one account (TikTokAuthService, TikTokAuthenticator and its          *)
(* pipeline) with its steps, the captcha and the code sent by e-mail. One  *)
(* authenticator, one pipeline and one e-mail service serve all calls.     *)
(* The page is TikTok's: what it shows, and whom it logs in.               *)
(***************************************************************************)
EXTENDS SessionStore

CONSTANTS
  Runs,         \* calls of createSessionsForTikTokAccounts
  MaxAttempts,  \* maxAttempts of CaptchaVerificationStep
  MaxRetries,   \* maxRetries of EmailVerificationStep
  MaxMail       \* bound: the e-mails with a code

ASSUME LoginAssumption ==
  /\ {MaxAttempts, MaxRetries} \subseteq Nat \ {0} /\ MaxMail \in Nat
  /\ "none" \notin Runs

VARIABLES
  up,            \* the initial check is over, the cron jobs are started
  isRefreshing,
  stuck,         \* runs taken for stuck because they last more than an hour
  run,           \* run -> where it stands
  page,          \* run -> the page of its tab
  shared,        \* the authenticator's context.state.page, by its run
  restored,      \* sessionRestored of the pipeline
  imap,          \* the mailbox the e-mail service is configured for
  mail,          \* account -> messages in its mailbox
  recorded,      \* messages with a row of VerificationCode
  typed          \* message -> how often its code was entered

loginVars == <<up, isRefreshing, stuck, run, page, shared, restored, imap, mail, recorded, typed>>
mailVars == <<imap, mail, recorded, typed>>

NoMessage == <<"none", 0>>
Messages == Accounts \X (1..MaxMail)
Closed == [at |-> "closed", as |-> "nobody"]
NewRun == [at |-> "idle", todo |-> {}, account |-> "none", ok |-> FALSE,
           held |-> "none", tries |-> 0, taken |-> NoMessage, as |-> "none"]

(* The application starts with one run before the cron jobs. *)
StartUps == {[[r \in Runs |-> NewRun] EXCEPT ![q].at = "select"] : q \in Runs}

LoginInit ==
  /\ up = FALSE /\ isRefreshing = FALSE /\ stuck = 0
  /\ run \in StartUps /\ page = [r \in Runs |-> Closed]
  /\ shared = "none" /\ restored = FALSE
  /\ imap = "none" /\ mail = [a \in Accounts |-> 0]
  /\ recorded = {} /\ typed = [m \in Messages |-> 0]

-----------------------------------------------------------------------------
At(r, place) == run[r].at = place
Go(r, place) == run' = [run EXCEPT ![r].at = place]
Shown(p) == IF p = "none" THEN "closed" ELSE page[p].at
Show(p, at) == page' = [page EXCEPT ![p].at = at]
ShowAs(p, at, a) == page' = [page EXCEPT ![p] = [at |-> at, as |-> a]]

(* The pipeline's steps in their order. *)
Following ==
  [initialization |-> "navigation", navigation |-> "restore", restore |-> "consent",
   consent |-> "button", button |-> "option", option |-> "fill", fill |-> "submit",
   submit |-> "captcha", captcha |-> "code", code |-> "save"]
LoginSteps == {"consent", "button", "option", "fill", "submit", "captcha", "code"}

Advance(r) == Go(r, Following[run[r].at])
Fails(r) ==
  run' = [run EXCEPT ![r] = [@ EXCEPT !.at = "close", !.ok = FALSE, !.held = "none",
                                      !.tries = 0, !.taken = NoMessage, !.as = "none"]]
Executes(r, step) == At(r, step) /\ (step \in LoginSteps => ~restored)
Waits(r, place) ==
  run' = [run EXCEPT ![r] = [@ EXCEPT !.at = place, !.held = shared, !.tries = 0]]
WaitIsOver(r, place) ==
  run' = [run EXCEPT ![r] = [@ EXCEPT !.at = place, !.held = "none", !.tries = 0]]

-----------------------------------------------------------------------------
(* A plausible error in CheckAndRefresh, for the runs' mutants. *)
CheckAndRefreshAlways(r) ==
  /\ up /\ At(r, "idle")
  /\ isRefreshing' = TRUE /\ Go(r, "select")
  /\ UNCHANGED <<up, stuck, page, shared, restored, mailVars, store>>

(* checkAndRefreshSessions; the clock is not modelled, so a run may be      *)
(* taken for stuck at any time.                                             *)
CheckAndRefresh(r) ==
  /\ up /\ At(r, "idle")
  /\ IF isRefreshing THEN stuck' = stuck + 1 ELSE UNCHANGED stuck
  /\ isRefreshing' = TRUE /\ Go(r, "select")
  /\ UNCHANGED <<up, page, shared, restored, mailVars, store>>

(* The accounts without a live session, or none if the database fails. *)
SelectAccounts(r) ==
  /\ At(r, "select")
  /\ \E todo \in {{}, {a \in Accounts : LiveRows(a) = {}}} :
       run' = [run EXCEPT ![r].at = "next", ![r].todo = todo]
  /\ UNCHANGED <<up, isRefreshing, stuck, page, shared, restored, mailVars, store>>

(* runAuthenticator: a system tab, whose page goes into the one context. *)
NextAccount(r, a) ==
  /\ At(r, "next") /\ a \in run[r].todo
  /\ run' = [run EXCEPT ![r].todo = @ \ {a}, ![r].at = "initialization", ![r].account = a]
  /\ ShowAs(r, "blank", "nobody") /\ shared' = r
  /\ UNCHANGED <<up, isRefreshing, stuck, restored, mailVars, store>>

NoTab(r, a) ==
  /\ At(r, "next") /\ a \in run[r].todo
  /\ run' = [run EXCEPT ![r].todo = @ \ {a}]
  /\ UNCHANGED <<up, isRefreshing, stuck, page, shared, restored, mailVars, store>>

EndRun(r) ==
  /\ At(r, "next") /\ run[r].todo = {}
  /\ run' = [run EXCEPT ![r] = NewRun]
  /\ up' = TRUE /\ isRefreshing' = (isRefreshing /\ ~up)
  /\ UNCHANGED <<stuck, page, shared, restored, mailVars, store>>

-----------------------------------------------------------------------------
(* The steps before the session; when they fail the pipeline goes on.       *)
Initialization(r) ==
  /\ At(r, "initialization") /\ restored' = FALSE /\ Advance(r)
  /\ UNCHANGED <<up, isRefreshing, stuck, page, shared, mailVars, store>>

Navigation(r) ==
  /\ At(r, "navigation") /\ Advance(r)
  /\ \/ Shown(shared) \notin {"closed", "in"} /\ ShowAs(shared, "home", "nobody") /\ UNCHANGED restored
     \/ restored' = FALSE /\ UNCHANGED page
  /\ UNCHANGED <<up, isRefreshing, stuck, shared, mailVars, store>>

(* SessionRestoreStep: the state of the latest row, then the file; whatever *)
(* TikTok does not accept is cleared from the page.                         *)
SessionRestore(r) ==
  LET a == run[r].account
      tried == {StateOf(a, recent[a]), file[a]}
  IN  /\ At(r, "restore") /\ Advance(r)
      /\ IF Shown(shared) = "closed" THEN restored' = FALSE /\ UNCHANGED page
         ELSE \/ \E who \in tried \cap Accounts : ShowAs(shared, "in", who) /\ restored' = TRUE
              \/ /\ restored' = FALSE
                 /\ IF tried = {"none"} THEN UNCHANGED page ELSE ShowAs(shared, "home", "nobody")
      /\ UNCHANGED <<up, isRefreshing, stuck, shared, mailVars, store>>

(* Steps of the login are skipped when the session was restored. *)
SkipStep(r) ==
  /\ run[r].at \in LoginSteps /\ restored /\ Advance(r)
  /\ UNCHANGED <<up, isRefreshing, stuck, page, shared, restored, mailVars, store>>

(* A step does not find its element, or throws. *)
StepFails(r) ==
  /\ \E step \in {"button", "option", "fill", "submit"} : Executes(r, step)
  /\ Fails(r)
  /\ UNCHANGED <<up, isRefreshing, stuck, page, shared, restored, mailVars, store>>

CookieConsent(r) ==
  /\ Executes(r, "consent") /\ Advance(r)
  /\ UNCHANGED <<up, isRefreshing, stuck, page, shared, restored, mailVars, store>>

LoginButton(r) ==
  /\ Executes(r, "button") /\ Shown(shared) = "home" /\ Show(shared, "modal") /\ Advance(r)
  /\ UNCHANGED <<up, isRefreshing, stuck, shared, restored, mailVars, store>>

SelectPhoneEmailLogin(r) ==
  /\ Executes(r, "option") /\ Shown(shared) = "modal" /\ Show(shared, "form") /\ Advance(r)
  /\ UNCHANGED <<up, isRefreshing, stuck, shared, restored, mailVars, store>>

FillLoginForm(r) ==
  /\ Executes(r, "fill") /\ Shown(shared) \in {"form", "filled"}
  /\ ShowAs(shared, "filled", run[r].account) /\ Advance(r)
  /\ UNCHANGED <<up, isRefreshing, stuck, shared, restored, mailVars, store>>

(* TikTok logs in, asks for more or refuses; checkLoginSuccess takes every  *)
(* page whose address is not a login page for a success.                    *)
SubmitLoginForm(r) ==
  /\ Executes(r, "submit") /\ Shown(shared) = "filled"
  /\ \E answer \in {"in", "captcha", "code", "refused"} : Show(shared, answer)
  /\ Advance(r)
  /\ UNCHANGED <<up, isRefreshing, stuck, shared, restored, mailVars, store>>

-----------------------------------------------------------------------------
(* CaptchaVerificationStep: pass when none is detected, else wait for it to *)
(* go away on the page that was the context's when the step began.          *)
CaptchaVerification(r) ==
  /\ Executes(r, "captcha")
  /\ Advance(r) \/ (Shown(shared) = "captcha" /\ Waits(r, "solve"))
  /\ UNCHANGED <<up, isRefreshing, stuck, page, shared, restored, mailVars, store>>

Answers(p) == \E answer \in {"in", "code"} : Show(p, answer)

(* solve: the two points are clicked and the button; a captcha that is      *)
(* still there counts as solved when the address does not name it.          *)
SolveByApi(r) ==
  /\ At(r, "solve") /\ run[r].tries = 0 /\ Shown(run[r].held) = "captcha"
  /\ WaitIsOver(r, "code")
  /\ Answers(run[r].held) \/ UNCHANGED page
  /\ UNCHANGED <<up, isRefreshing, stuck, shared, restored, mailVars, store>>

PollCaptcha(r) ==
  /\ At(r, "solve") /\ run[r].tries < MaxAttempts
  /\ IF Shown(run[r].held) = "captcha"
     THEN run' = [run EXCEPT ![r].tries = @ + 1]
     ELSE WaitIsOver(r, "code")
  /\ UNCHANGED <<up, isRefreshing, stuck, page, shared, restored, mailVars, store>>

CaptchaTimesOut(r) ==
  /\ At(r, "solve") /\ run[r].tries = MaxAttempts /\ Fails(r)
  /\ UNCHANGED <<up, isRefreshing, stuck, page, shared, restored, mailVars, store>>

(* A person solves the captcha. *)
SolveByHand(p) ==
  /\ Shown(p) = "captcha" /\ Answers(p)
  /\ UNCHANGED <<up, isRefreshing, stuck, run, shared, restored, mailVars, store>>

-----------------------------------------------------------------------------
(* EmailVerificationStep. *)
EmailVerification(r) ==
  /\ Executes(r, "code")
  /\ IF Shown(shared) # "code" THEN Advance(r) /\ UNCHANGED imap
     ELSE Waits(r, "mail") /\ imap' = run[r].account
  /\ UNCHANGED <<up, isRefreshing, stuck, page, shared, restored, mail, recorded, typed, store>>

(* TikTok sends a code when it asks for one, sooner or later or never. *)
Sent == {m \in Messages : m[2] <= mail[m[1]]}

SendCode(p) ==
  /\ Shown(p) = "code" /\ Cardinality(Sent) < MaxMail
  /\ mail' = [mail EXCEPT ![page[p].as] = @ + 1]
  /\ UNCHANGED <<up, isRefreshing, stuck, run, page, shared, restored, imap, recorded, typed, store>>

(* A plausible error in PollMail, for the runs' mutants. *)
PollMailAgain(r) ==
  /\ At(r, "mail") /\ mail[imap] > 0
  /\ recorded' = recorded \cup {<<imap, mail[imap]>>}
  /\ run' = [run EXCEPT ![r].at = "enter", ![r].taken = <<imap, mail[imap]>>]
  /\ UNCHANGED <<up, isRefreshing, stuck, page, shared, restored, imap, mail, typed, store>>

(* getLatestVerificationCode: only the latest message counts, and a second  *)
(* row for a message is refused.                                            *)
PollMail(r) ==
  LET m == <<imap, mail[imap]>>
  IN  /\ At(r, "mail") /\ mail[imap] > 0 /\ m \notin recorded
      /\ recorded' = recorded \cup {m}
      /\ run' = [run EXCEPT ![r].at = "enter", ![r].taken = m]
      /\ UNCHANGED <<up, isRefreshing, stuck, page, shared, restored, imap, mail, typed, store>>

(* A plausible error in RetryMail, for the runs' mutants. *)
RetryMailOnce(r) ==
  IF run[r].tries = MaxRetries THEN Fails(r)
  ELSE run' = [run EXCEPT ![r].at = "mail", ![r].tries = @ + 1, ![r].taken = NoMessage]

RetryMail(r) ==
  IF run[r].tries + 1 = MaxRetries THEN Fails(r)
  ELSE run' = [run EXCEPT ![r].at = "mail", ![r].tries = @ + 1, ![r].taken = NoMessage]

MailTimesOut(r) ==
  /\ At(r, "mail") /\ RetryMail(r)
  /\ UNCHANGED <<up, isRefreshing, stuck, page, shared, restored, mailVars, store>>

(* TikTok may refuse a code, that of another mailbox always; no answer fails *)
(* the step. When the code cannot be marked as used it waits for another.   *)
EnterCode(r) ==
  LET p == run[r].held
      m == run[r].taken
  IN  /\ At(r, "enter") /\ Shown(p) = "code"
      /\ typed' = [typed EXCEPT ![m] = @ + 1]
      /\ UNCHANGED page \/ (m[1] = page[p].as /\ Show(p, "in"))
      /\ \/ run' = [run EXCEPT ![r] = [@ EXCEPT !.at = "save", !.held = "none", !.tries = 0, !.taken = NoMessage]]
         \/ RetryMail(r)
      /\ UNCHANGED <<up, isRefreshing, stuck, shared, restored, imap, mail, recorded, store>>

CodeNotEntered(r) ==
  /\ At(r, "enter") /\ Fails(r)
  /\ UNCHANGED <<up, isRefreshing, stuck, page, shared, restored, mailVars, store>>

-----------------------------------------------------------------------------
(* SaveSessionStep: the state of the context's page goes into the file and  *)
(* the row of the account that logs in.                                     *)
StateTaken(p) == IF Shown(p) = "in" THEN page[p].as ELSE "out"

SaveSession(r) ==
  /\ At(r, "save")
  /\ \/ /\ Shown(shared) # "closed"
        /\ WriteFile(run[r].account, StateTaken(shared))
        /\ run' = [run EXCEPT ![r].at = "store", ![r].as = StateTaken(shared)]
     \/ Fails(r) /\ UNCHANGED file
  /\ UNCHANGED <<up, isRefreshing, stuck, page, shared, restored, mailVars>>
  /\ UNCHANGED <<rows, live, recent, cookies, state>>

StoreState(r) ==
  /\ At(r, "store")
  /\ \/ /\ \E saved \in BOOLEAN : SaveSessionState(run[r].account, run[r].as, saved)
        /\ run' = [run EXCEPT ![r].at = "update", ![r].as = "none"]
     \/ Fails(r) /\ UNCHANGED store
  /\ UNCHANGED <<up, isRefreshing, stuck, page, shared, restored, mailVars>>

(* saveSessionToDatabase, whose errors are swallowed. *)
SaveSessionToDatabase(r) ==
  /\ At(r, "update") /\ run' = [run EXCEPT ![r].at = "close", ![r].ok = TRUE]
  /\ UpdateSession(run[r].account) \/ UNCHANGED store
  /\ UNCHANGED <<up, isRefreshing, stuck, page, shared, restored, mailVars>>

(* The finally block: who still works on this page finds it closed. *)
CloseTab(r) ==
  /\ At(r, "close") /\ page' = [page EXCEPT ![r] = Closed]
  /\ run' = [q \in Runs |->
       IF q = r THEN IF run[r].ok THEN [run[r] EXCEPT !.at = "record", !.ok = FALSE]
                     ELSE [run[r] EXCEPT !.at = "next", !.account = "none"]
       ELSE [run[q] EXCEPT !.held = IF @ = r THEN "none" ELSE @]]
  /\ UNCHANGED <<up, isRefreshing, stuck, shared, restored, mailVars, store>>

(* createSessionsForTikTokAccounts gives the account a row more. *)
RecordLogin(r) ==
  /\ At(r, "record") /\ run' = [run EXCEPT ![r].at = "next", ![r].account = "none"]
  /\ CreateSession(run[r].account) \/ UNCHANGED store
  /\ UNCHANGED <<up, isRefreshing, stuck, page, shared, restored, mailVars>>
=============================================================================
