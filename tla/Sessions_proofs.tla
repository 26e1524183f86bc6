---------------------------- MODULE Sessions_proofs ----------------------------
(***************************************************************************)
(* Proofs about Sessions, for any accounts, runs and bounds: the types, the *)
(* codes entered once, the logins captured with their sessions, and that    *)
(* the logins implement SessionSaves.                                       *)
(***************************************************************************)
EXTENDS Sessions, FiniteSetTheorems, TLAPS

-----------------------------------------------------------------------------
(* Types, in full: SessionsTypeOK leaves out what TLC need not be told.    *)

Places ==
  {"idle", "select", "next", "initialization", "navigation", "restore", "consent", "button",
   "option", "fill", "submit", "captcha", "solve", "code", "mail", "enter", "save", "store",
   "update", "close", "record"}

Tries == 0..MaxAttempts \cup 0..(MaxRetries - 1)

RunStates ==
  [at : Places, todo : SUBSET Accounts, account : Accounts \cup {"none"}, ok : BOOLEAN,
   held : Runs \cup {"none"}, tries : Tries, taken : Messages \cup {NoMessage},
   as : Logins \cup {"none"}]

Pages ==
  [at : {"closed", "blank", "home", "modal", "form", "filled", "captcha", "code", "in", "refused"},
   as : Accounts \cup {"nobody"}]

Captures ==
  [at : {"idle", "init", "next", "open", "state", "file", "scroll"},
   plan : SUBSET (SessionIds \X BOOLEAN), session : SessionIds \cup {NoSession},
   cookies : BOOLEAN, ok : BOOLEAN]

SaveStates ==
  [next : {"none", "state", "row", "login"}, account : Accounts \cup {"none"},
   as : Logins \cup {"none"}]

LoginTyped ==
  /\ up \in BOOLEAN /\ isRefreshing \in BOOLEAN /\ restored \in BOOLEAN /\ stuck \in Nat
  /\ run \in [Runs -> RunStates] /\ page \in [Runs -> Pages]
  /\ shared \in Runs \cup {"none"} /\ imap \in Accounts \cup {"none"}
  /\ mail \in [Accounts -> 0..MaxMail] /\ recorded \subseteq Messages
  /\ typed \in [Messages -> Nat]

CaptureTyped ==
  /\ capture \in Captures
  /\ contexts \in [SessionIds -> Logins \cup {"none", "lost"}]
  /\ success \subseteq SessionIds
  /\ pending \subseteq SessionIds \X Logins /\ config \in (SessionIds \cup {NoSession}) \X Logins

OthersTyped ==
  /\ part \in Parts /\ saves \in [Runs -> SaveStates] /\ logins \in Nat
  /\ faults \in Nat /\ faults + stuck <= MaxFaults

-----------------------------------------------------------------------------
(* Where a run stands says what it has. *)

Outside == {"idle", "select", "next"}
Answered == {"filled", "captcha", "code", "in", "refused"}

HasAccount(r) == run[r].at \notin Outside => run[r].account \in Accounts
HasMailbox(r) ==
  run[r].at \in {"mail", "enter"} => run[r].tries < MaxRetries /\ imap \in Accounts
HasLogin(r) == run[r].at = "store" => run[r].as \in Logins

RunsShaped ==
  /\ \A r \in Runs : HasAccount(r) /\ HasMailbox(r) /\ HasLogin(r)
  /\ \A p \in Runs : page[p].at \in Answered => page[p].as \in Accounts

CaptureShaped ==
  capture.at \in {"open", "state", "file", "scroll"} => capture.session \in SessionIds

SavesShaped ==
  \A r \in Runs :
       /\ saves[r].next = "none" => saves[r] = Others!Away
       /\ saves[r].next # "none" => saves[r].account \in Accounts
       /\ saves[r].next = "state" => saves[r].as \in Logins

-----------------------------------------------------------------------------
(* A code that is about to be entered was taken by nobody else and has not  *)
(* been entered: its message was recorded when it was taken.                *)

CodesTaken ==
  /\ \A m \in Messages : typed[m] <= 1 /\ (m \notin recorded => typed[m] = 0)
  /\ \A r \in Runs : At(r, "enter") => run[r].taken \in recorded /\ typed[run[r].taken] = 0
  /\ \A r, q \in Runs : At(r, "enter") /\ At(q, "enter") /\ r # q => run[r].taken # run[q].taken

-----------------------------------------------------------------------------
(* Until a run is taken for stuck, at most one is at work, and the page in  *)
(* the shared context is its own.                                           *)

OneAtWork ==
  /\ ~up => ~isRefreshing
  /\ stuck = 0 => \A r, q \in Runs : run[r].at # "idle" /\ run[q].at # "idle" => r = q
  /\ stuck = 0 /\ up /\ ~isRefreshing => \A r \in Runs : run[r].at = "idle"

OwnPage ==
  /\ \A p \in Runs : page[p].at # "closed" => run[p].at \notin Outside \cup {"record"}
  /\ stuck = 0 => \A r \in Runs :
       /\ run[r].at \notin Outside => shared = r
       /\ page[r].at \in Answered => page[r].as = run[r].account
       /\ run[r].at = "store" => run[r].as \in {run[r].account, "out"}

OwnRows == stuck = 0 => \A a \in Accounts : {state[a], file[a]} \subseteq {a, "out", "none"}

OwnSaves ==
  /\ part = "captures" => stuck = 0
  /\ stuck = 0 => \A r \in Runs : saves[r].next = "state" => saves[r].as \in {saves[r].account, "out"}

OwnContexts ==
  /\ \A s \in SessionIds : contexts[s] \in {s[1], "out", "none", "lost"}
  /\ \A request \in pending : request[2] \in {request[1][1], "out"}
  /\ CapturedIsOwn

(* What the pool keeps beside the session at hand was counted a success.    *)
RestoredButOne ==
  \A s \in SessionIds : contexts[s] # "none" =>
    s \in success \/ (s = capture.session /\ capture.at \in {"open", "state", "file", "scroll"})

LoginInv == StoreTypeOK /\ LoginTyped /\ RunsShaped /\ CodesTaken /\ OneAtWork /\ OwnPage

CaptureInv == CaptureTyped /\ CaptureShaped /\ OwnContexts /\ RestoredButOne

SavesInv == OthersTyped /\ SavesShaped /\ OwnSaves

Inv == LoginInv /\ OwnRows /\ CaptureInv /\ SavesInv
-----------------------------------------------------------------------------
(* What a step of run r does to the runs.                                   *)

Untouched(q) ==
  /\ run'[q].at = run[q].at /\ run'[q].account = run[q].account
  /\ run'[q].ok = run[q].ok /\ run'[q].tries = run[q].tries
  /\ run'[q].taken = run[q].taken /\ run'[q].as = run[q].as

Acts(r) ==
  /\ run' \in [Runs -> RunStates]
  /\ \A q \in Runs \ {r} : Untouched(q)

Moves(r, place) == Acts(r) /\ run'[r].at = place /\ run'[r].account = run[r].account

LEMMA NoTries == 0 \in Tries
  BY LoginAssumption DEF Tries

LEMMA RunChanges ==
  ASSUME run \in [Runs -> RunStates], NEW r \in Runs, NEW new \in RunStates,
         run' = [run EXCEPT ![r] = new]
  PROVE  Acts(r) /\ run'[r] = new
  BY DEF Acts, Untouched

LEMMA GoActs ==
  ASSUME run \in [Runs -> RunStates], NEW r \in Runs, NEW place \in Places, Go(r, place)
  PROVE  Moves(r, place) /\ run'[r] = [run[r] EXCEPT !.at = place]
<1> DEFINE new == [run[r] EXCEPT !.at = place]
<1>1. run[r] \in RunStates
  OBVIOUS
<1>2. new \in RunStates
  BY <1>1 DEF RunStates
<1>3. run' = [run EXCEPT ![r] = new]
  BY DEF Go
<1>4. Acts(r) /\ run'[r] = new
  BY <1>2, <1>3, RunChanges
<1> QED BY <1>1, <1>4 DEF RunStates, Moves

LEMMA FailsActs ==
  ASSUME run \in [Runs -> RunStates], NEW r \in Runs, Fails(r)
  PROVE  Moves(r, "close") /\ run'[r].ok = FALSE
<1> DEFINE new == [run[r] EXCEPT !.at = "close", !.ok = FALSE, !.held = "none",
                                !.tries = 0, !.taken = NoMessage, !.as = "none"]
<1>1. run[r] \in RunStates /\ "close" \in Places
  BY DEF Places
<1>2. new \in RunStates
  BY <1>1, NoTries DEF RunStates
<1>3. run' = [run EXCEPT ![r] = new]
  BY DEF Fails
<1>4. Acts(r) /\ run'[r] = new
  BY <1>2, <1>3, RunChanges
<1> QED BY <1>1, <1>4 DEF RunStates, Moves

LEMMA WaitsActs ==
  ASSUME run \in [Runs -> RunStates], shared \in Runs \cup {"none"},
         NEW r \in Runs, NEW place \in Places, Waits(r, place)
  PROVE  Moves(r, place) /\ run'[r].tries = 0
<1> DEFINE new == [run[r] EXCEPT !.at = place, !.held = shared, !.tries = 0]
<1>1. run[r] \in RunStates
  OBVIOUS
<1>2. new \in RunStates
  BY <1>1, NoTries DEF RunStates
<1>3. run' = [run EXCEPT ![r] = new]
  BY DEF Waits
<1>4. Acts(r) /\ run'[r] = new
  BY <1>2, <1>3, RunChanges
<1> QED BY <1>1, <1>4 DEF RunStates, Moves

LEMMA WaitIsOverActs ==
  ASSUME run \in [Runs -> RunStates], NEW r \in Runs, NEW place \in Places, WaitIsOver(r, place)
  PROVE  Moves(r, place)
<1> DEFINE new == [run[r] EXCEPT !.at = place, !.held = "none", !.tries = 0]
<1>1. run[r] \in RunStates
  OBVIOUS
<1>2. new \in RunStates
  BY <1>1, NoTries DEF RunStates
<1>3. run' = [run EXCEPT ![r] = new]
  BY DEF WaitIsOver
<1>4. Acts(r) /\ run'[r] = new
  BY <1>2, <1>3, RunChanges
<1> QED BY <1>1, <1>4 DEF RunStates, Moves

\* A retry that is not the last waits for mail once more.
LEMMA RetryActs ==
  ASSUME run \in [Runs -> RunStates], NEW r \in Runs, RetryMail(r), run[r].tries < MaxRetries
  PROVE  \/ Moves(r, "close")
         \/ Moves(r, "mail") /\ run'[r].tries < MaxRetries
<1>1. CASE run[r].tries + 1 = MaxRetries
  BY <1>1, FailsActs DEF RetryMail
<1>2. CASE run[r].tries + 1 # MaxRetries
  <2> DEFINE new == [run[r] EXCEPT !.at = "mail", !.tries = @ + 1, !.taken = NoMessage]
  <2>1. run[r] \in RunStates /\ "mail" \in Places
    BY DEF Places
  <2>2. run[r].tries \in Nat /\ run[r].tries + 1 < MaxRetries /\ run[r].tries + 1 \in Tries
    BY <1>2, <2>1, LoginAssumption DEF RunStates, Tries
  <2>3. new \in RunStates
    BY <2>1, <2>2 DEF RunStates
  <2>4. run' = [run EXCEPT ![r] = new]
    BY <1>2 DEF RetryMail
  <2>5. Acts(r) /\ run'[r] = new
    BY <2>3, <2>4, RunChanges
  <2> QED BY <2>1, <2>2, <2>5 DEF RunStates, Moves
<1> QED BY <1>1, <1>2

-----------------------------------------------------------------------------
(* What a step does to the pages: none is opened, and a page that is filled *)
(* in or answers does so for an account, the one of its run.                *)

PageStates == {"closed", "blank", "home", "modal", "form"} \cup Answered

PagesKept ==
  /\ page' \in [Runs -> Pages]
  /\ \A p \in Runs :
       /\ page'[p].at # "closed" => page[p].at # "closed"
       /\ page'[p].at \in Answered =>
            page'[p].as \in Accounts /\ (stuck = 0 => page'[p].as = run[p].account)

PageInv == LoginTyped /\ RunsShaped /\ OwnPage

LEMMA PagesStay ==
  ASSUME PageInv, UNCHANGED page
  PROVE  PagesKept
  BY DEF PageInv, PagesKept, LoginTyped, RunsShaped, OwnPage

LEMMA PageChanges ==
  ASSUME PageInv, NEW p \in Runs, page[p].at # "closed", NEW new \in Pages,
         new.at \in Answered => new.as \in Accounts /\ (stuck = 0 => new.as = run[p].account),
         page' = [page EXCEPT ![p] = new]
  PROVE  PagesKept
<1>1. page'[p] = new /\ \A q \in Runs \ {p} : page'[q] = page[q]
  BY DEF PageInv, LoginTyped
<1>2. page' \in [Runs -> Pages]
  BY DEF PageInv, LoginTyped
<1> QED BY <1>1, <1>2 DEF PageInv, PagesKept, LoginTyped, RunsShaped, OwnPage

LEMMA ShowAsKeeps ==
  ASSUME PageInv, NEW p \in Runs, page[p].at # "closed",
         NEW at \in PageStates, NEW a \in Accounts \cup {"nobody"}, ShowAs(p, at, a),
         at \in Answered => a \in Accounts /\ (stuck = 0 => a = run[p].account)
  PROVE  PagesKept
<1> DEFINE new == [at |-> at, as |-> a]
<1>1. new \in Pages
  BY DEF Pages, PageStates, Answered
<1>2. page' = [page EXCEPT ![p] = new]
  BY DEF ShowAs
<1> QED BY <1>1, <1>2, PageChanges

LEMMA ShowKeeps ==
  ASSUME PageInv, NEW p \in Runs, page[p].at # "closed", NEW at \in PageStates, Show(p, at),
         at \in Answered => page[p].at \in Answered
  PROVE  PagesKept
<1> DEFINE new == [page[p] EXCEPT !.at = at]
<1>1. page[p] \in Pages
  BY DEF PageInv, LoginTyped
<1>2. new \in Pages /\ new.at = at /\ new.as = page[p].as
  BY <1>1 DEF Pages, PageStates, Answered
<1>3. page' = [page EXCEPT ![p] = new]
  BY DEF Show
<1>4. at \in Answered => new.as \in Accounts /\ (stuck = 0 => new.as = run[p].account)
  BY <1>2 DEF PageInv, RunsShaped, OwnPage
<1> QED BY <1>2, <1>3, <1>4, PageChanges

LEMMA ShownIsOpen ==
  ASSUME NEW p \in Runs \cup {"none"}, Shown(p) # "closed"
  PROVE  p \in Runs /\ page[p].at = Shown(p)
  BY DEF Shown

LEMMA AnswersKeeps ==
  ASSUME PageInv, NEW p \in Runs \cup {"none"}, Shown(p) \in Answered, Answers(p)
  PROVE  PagesKept
<1>1. p \in Runs /\ page[p].at \in Answered /\ page[p].at # "closed"
  BY ShownIsOpen DEF Answered
<1>2. PICK answer \in {"in", "code"} : Show(p, answer)
  BY DEF Answers
<1>3. answer \in PageStates
  BY DEF PageStates, Answered
<1> QED BY <1>1, <1>2, <1>3, ShowKeeps

-----------------------------------------------------------------------------
(* Most steps of a run stay within the login of one account.                *)

Within(r, place) ==
  /\ Moves(r, place)
  /\ run[r].at \notin Outside \cup {"record"} /\ place \notin Outside \cup {"record"}
  /\ UNCHANGED <<up, isRefreshing, stuck, shared>>

LEMMA WithinKeeps ==
  ASSUME LoginTyped, RunsShaped, OneAtWork, OwnPage, PagesKept,
         NEW r \in Runs, NEW place \in Places, Within(r, place),
         imap' = imap \/ imap' \in Accounts,
         place \in {"mail", "enter"} => run'[r].tries < MaxRetries /\ imap' \in Accounts,
         place = "store" =>
           run'[r].as \in Logins /\ (stuck = 0 => run'[r].as \in {run[r].account, "out"})
  PROVE  RunsShaped' /\ OneAtWork' /\ OwnPage'
<1>1. /\ run' \in [Runs -> RunStates] /\ run'[r].at = place /\ run'[r].account = run[r].account
      /\ \A q \in Runs \ {r} : Untouched(q)
  BY DEF Within, Moves, Acts
<1>2. run[r].at \notin Outside \cup {"record"} /\ place \notin Outside \cup {"record"}
  BY DEF Within
<1>3. UNCHANGED <<up, isRefreshing, stuck, shared>>
  BY DEF Within
<1>4. ASSUME NEW q \in Runs
      PROVE  HasAccount(q)' /\ HasMailbox(q)' /\ HasLogin(q)'
  <2>1. CASE q = r
    BY <1>1, <1>2, <2>1 DEF RunsShaped, HasAccount, HasMailbox, HasLogin
  <2>2. CASE q # r
    BY <1>1, <2>2 DEF RunsShaped, HasAccount, HasMailbox, HasLogin, Untouched
  <2> QED BY <2>1, <2>2
<1>5. RunsShaped'
  BY <1>4 DEF RunsShaped, PagesKept
<1>6. \A q \in Runs : (run'[q].at # "idle") = (run[q].at # "idle")
  BY <1>1, <1>2 DEF Untouched, Outside
<1>7. OneAtWork'
  BY <1>3, <1>6 DEF OneAtWork
<1>8. OwnPage'
  <2>1. \A q \in Runs :
          /\ run'[q].at \in Outside \cup {"record"} => run[q].at \in Outside \cup {"record"}
          /\ run'[q].at \in Outside => run[q].at \in Outside
          /\ run'[q].at \notin Outside => run[q].at \notin Outside
          /\ run'[q].account = run[q].account
    BY <1>1, <1>2 DEF Untouched
  <2>2. \A q \in Runs \ {r} : run'[q].at = run[q].at /\ run'[q].as = run[q].as
    BY <1>1 DEF Untouched
  <2>3. stuck' = 0 => \A q \in Runs : run'[q].at = "store" => run'[q].as \in {run'[q].account, "out"}
    BY <1>1, <1>3, <2>1, <2>2 DEF OwnPage
  <2> QED BY <1>3, <2>1, <2>3 DEF OwnPage, PagesKept
<1> QED BY <1>5, <1>7, <1>8

-----------------------------------------------------------------------------
(* Most steps take no code.                                                 *)

LEMMA CodesStay ==
  ASSUME CodesTaken, NEW r \in Runs, Acts(r), run'[r].at # "enter", UNCHANGED <<recorded, typed>>
  PROVE  CodesTaken'
<1>1. \A q \in Runs \ {r} : run'[q].at = run[q].at /\ run'[q].taken = run[q].taken
  BY DEF Acts, Untouched
<1>2. \A q \in Runs : At(q, "enter")' => At(q, "enter") /\ run'[q].taken = run[q].taken
  BY <1>1 DEF At
<1> QED BY <1>2 DEF CodesTaken, At

-----------------------------------------------------------------------------
(* The steps of a login that neither take nor enter a code nor save.        *)

LEMMA StepWithin ==
  ASSUME LoginInv, PagesKept, NEW r \in Runs, NEW place \in Places, Within(r, place),
         place \notin {"enter", "store"}, restored' \in BOOLEAN,
         imap' = imap \/ imap' \in Accounts,
         place = "mail" => run'[r].tries < MaxRetries /\ imap' \in Accounts,
         UNCHANGED <<mail, recorded, typed, store>>
  PROVE  LoginInv'
<1>1. RunsShaped' /\ OneAtWork' /\ OwnPage'
  BY WithinKeeps DEF LoginInv
<1>2. CodesTaken'
  BY CodesStay DEF LoginInv, Within, Moves
<1>3. LoginTyped'
  BY DEF LoginInv, LoginTyped, Within, Moves, Acts, PagesKept
<1>4. StoreTypeOK'
  BY DEF LoginInv, StoreTypeOK, store
<1> QED BY <1>1, <1>2, <1>3, <1>4 DEF LoginInv

InnerPlaces == Places \ (Outside \cup {"record", "mail", "enter", "store"})

LEMMA FollowingIsInner ==
  ASSUME NEW at \in LoginSteps \cup {"initialization", "navigation", "restore"}
  PROVE  Following[at] \in InnerPlaces /\ at \in InnerPlaces
  BY DEF Following, LoginSteps, InnerPlaces, Places, Outside

LEMMA AdvanceIsWithin ==
  ASSUME LoginInv, NEW r \in Runs, Advance(r), UNCHANGED <<up, isRefreshing, stuck, shared>>,
         run[r].at \in LoginSteps \cup {"initialization", "navigation", "restore"}
  PROVE  \E place \in InnerPlaces : Within(r, place)
<1>1. Following[run[r].at] \in InnerPlaces /\ run[r].at \in InnerPlaces
  BY FollowingIsInner
<1>2. Moves(r, Following[run[r].at])
  BY <1>1, GoActs DEF Advance, LoginInv, LoginTyped, InnerPlaces
<1> QED BY <1>1, <1>2 DEF Within, InnerPlaces

LEMMA FailsIsWithin ==
  ASSUME LoginInv, NEW r \in Runs, Fails(r), UNCHANGED <<up, isRefreshing, stuck, shared>>,
         run[r].at \notin Outside \cup {"record"}
  PROVE  \E place \in InnerPlaces : Within(r, place)
<1>1. Moves(r, "close")
  BY FailsActs DEF LoginInv, LoginTyped
<1>2. "close" \in InnerPlaces
  BY DEF InnerPlaces, Places, Outside
<1> QED BY <1>1, <1>2 DEF Within, InnerPlaces

LEMMA InnerStep ==
  ASSUME LoginInv, PagesKept, NEW r \in Runs, \E place \in InnerPlaces : Within(r, place),
         restored' \in BOOLEAN, imap' = imap \/ imap' \in Accounts,
         UNCHANGED <<mail, recorded, typed, store>>
  PROVE  LoginInv'
<1>1. PICK place \in InnerPlaces : Within(r, place)
  OBVIOUS
<1>2. place \in Places \ {"enter", "store", "mail"}
  BY DEF InnerPlaces
<1> QED BY <1>1, <1>2, StepWithin

\* The steps that leave the pages alone.
LEMMA StillSteps ==
  ASSUME LoginInv, NEW r \in Runs,
         \/ Initialization(r) \/ SkipStep(r) \/ StepFails(r) \/ CookieConsent(r)
         \/ CaptchaVerification(r) \/ PollCaptcha(r) \/ CaptchaTimesOut(r) \/ CodeNotEntered(r)
  PROVE  LoginInv'
<1> USE DEF mailVars
<1>0. PageInv /\ restored \in BOOLEAN
  BY DEF LoginInv, PageInv, LoginTyped
<1>1. CASE Initialization(r)
  <2>1. \E place \in InnerPlaces : Within(r, place)
    BY <1>1, AdvanceIsWithin DEF Initialization, At
  <2> QED BY <1>0, <1>1, <2>1, PagesStay, InnerStep DEF Initialization
<1>2. CASE SkipStep(r)
  <2>1. \E place \in InnerPlaces : Within(r, place)
    BY <1>2, AdvanceIsWithin DEF SkipStep
  <2> QED BY <1>0, <1>2, <2>1, PagesStay, InnerStep DEF SkipStep
<1>3. CASE StepFails(r)
  <2>1. \E place \in InnerPlaces : Within(r, place)
    BY <1>3, FailsIsWithin DEF StepFails, Executes, At, Outside
  <2> QED BY <1>0, <1>3, <2>1, PagesStay, InnerStep DEF StepFails
<1>4. CASE CookieConsent(r)
  <2>1. \E place \in InnerPlaces : Within(r, place)
    BY <1>4, AdvanceIsWithin DEF CookieConsent, Executes, At, LoginSteps
  <2> QED BY <1>0, <1>4, <2>1, PagesStay, InnerStep DEF CookieConsent
<1>5. CASE CaptchaVerification(r)
  <2>1. \E place \in InnerPlaces : Within(r, place)
    <3>1. CASE Advance(r)
      BY <1>5, <3>1, AdvanceIsWithin DEF CaptchaVerification, Executes, At, LoginSteps
    <3>2. CASE Waits(r, "solve")
      <4>1. "solve" \in InnerPlaces /\ "solve" \in Places
        BY DEF InnerPlaces, Places, Outside
      <4>2. Moves(r, "solve")
        BY <3>2, <4>1, WaitsActs DEF LoginInv, LoginTyped
      <4> QED BY <1>5, <4>1, <4>2 DEF CaptchaVerification, Executes, At, Within, InnerPlaces, Outside
    <3> QED BY <1>5, <3>1, <3>2 DEF CaptchaVerification
  <2> QED BY <1>0, <1>5, <2>1, PagesStay, InnerStep DEF CaptchaVerification
<1>6. CASE PollCaptcha(r)
  <2>1. \E place \in InnerPlaces : Within(r, place)
    <3>1. CASE Shown(run[r].held) = "captcha"
      <4> DEFINE new == [run[r] EXCEPT !.tries = @ + 1]
      <4>1. run[r] \in RunStates /\ run[r].at = "solve" /\ run[r].tries < MaxAttempts
        BY <1>6 DEF PollCaptcha, At, LoginInv, LoginTyped
      <4>2. run[r].tries \in Nat /\ run[r].tries + 1 \in Tries
        BY <4>1, LoginAssumption DEF RunStates, Tries
      <4>3. new \in RunStates
        BY <4>1, <4>2 DEF RunStates
      <4>4. run' = [run EXCEPT ![r] = new]
        BY <1>6, <3>1 DEF PollCaptcha
      <4>5. Acts(r) /\ run'[r] = new
        BY <4>3, <4>4, RunChanges DEF LoginInv, LoginTyped
      <4>6. Moves(r, "solve")
        BY <4>1, <4>5 DEF Moves, RunStates
      <4>7. "solve" \in InnerPlaces
        BY DEF InnerPlaces, Places, Outside
      <4> QED BY <1>6, <4>1, <4>6, <4>7 DEF PollCaptcha, Within, InnerPlaces
    <3>2. CASE Shown(run[r].held) # "captcha"
      <4>1. "code" \in InnerPlaces /\ "code" \in Places /\ "solve" \in InnerPlaces
        BY DEF InnerPlaces, Places, Outside
      <4>2. Moves(r, "code")
        BY <1>6, <3>2, <4>1, WaitIsOverActs DEF PollCaptcha, LoginInv, LoginTyped
      <4> QED BY <1>6, <4>1, <4>2 DEF PollCaptcha, At, Within, InnerPlaces
    <3> QED BY <3>1, <3>2
  <2> QED BY <1>0, <1>6, <2>1, PagesStay, InnerStep DEF PollCaptcha
<1>7. CASE CaptchaTimesOut(r)
  <2>1. \E place \in InnerPlaces : Within(r, place)
    BY <1>7, FailsIsWithin DEF CaptchaTimesOut, At, Outside
  <2> QED BY <1>0, <1>7, <2>1, PagesStay, InnerStep DEF CaptchaTimesOut
<1>8. CASE CodeNotEntered(r)
  <2>1. \E place \in InnerPlaces : Within(r, place)
    BY <1>8, FailsIsWithin DEF CodeNotEntered, At, Outside
  <2> QED BY <1>0, <1>8, <2>1, PagesStay, InnerStep DEF CodeNotEntered
<1> QED BY <1>1, <1>2, <1>3, <1>4, <1>5, <1>6, <1>7, <1>8

\* The steps that act on the page of the shared context.
LEMMA PageSteps ==
  ASSUME LoginInv, OwnRows, NEW r \in Runs,
         \/ Navigation(r) \/ SessionRestore(r) \/ LoginButton(r) \/ SelectPhoneEmailLogin(r)
         \/ FillLoginForm(r) \/ SubmitLoginForm(r)
  PROVE  LoginInv'
<1> USE DEF mailVars
<1>0. /\ PageInv /\ restored \in BOOLEAN /\ shared \in Runs \cup {"none"}
      /\ Shown(shared) # "closed" => shared \in Runs /\ page[shared].at = Shown(shared)
  BY ShownIsOpen DEF LoginInv, PageInv, LoginTyped
<1>a. /\ run[r].at \notin Outside => run[r].account \in Accounts
      /\ stuck = 0 /\ run[r].at \notin Outside => shared = r
  BY DEF LoginInv, RunsShaped, HasAccount, OwnPage
<1>1. CASE Navigation(r)
  <2>1. \E place \in InnerPlaces : Within(r, place)
    BY <1>1, AdvanceIsWithin DEF Navigation, At
  <2>2. PagesKept
    <3>1. CASE UNCHANGED page
      BY <1>0, <3>1, PagesStay
    <3>2. CASE Shown(shared) \notin {"closed", "in"} /\ ShowAs(shared, "home", "nobody")
      BY <1>0, <3>2, ShowAsKeeps DEF PageStates, Answered
    <3> QED BY <1>1, <3>1, <3>2 DEF Navigation
  <2> QED BY <1>0, <1>1, <2>1, <2>2, InnerStep DEF Navigation
<1>2. CASE SessionRestore(r)
  <2>1. \E place \in InnerPlaces : Within(r, place)
    BY <1>2, AdvanceIsWithin DEF SessionRestore, At
  <2>2. PagesKept
    <3>1. CASE UNCHANGED page
      BY <1>0, <3>1, PagesStay
    <3>2. CASE Shown(shared) # "closed" /\ ShowAs(shared, "home", "nobody")
      BY <1>0, <3>2, ShowAsKeeps DEF PageStates, Answered
    <3>3. ASSUME Shown(shared) # "closed", NEW who \in Accounts, ShowAs(shared, "in", who),
                 who \in {StateOf(run[r].account, recent[run[r].account]), file[run[r].account]}
          PROVE  PagesKept
      <4>1. run[r].account \in Accounts /\ (stuck = 0 => shared = r)
        BY <1>a, <1>2 DEF SessionRestore, At, Outside
      <4>2. stuck = 0 => who = run[r].account
        BY <3>3, <4>1, StoreAssumption DEF OwnRows, StateOf
      <4>3. "in" \in PageStates
        BY DEF PageStates, Answered
      <4> QED BY <1>0, <3>3, <4>1, <4>2, <4>3, ShowAsKeeps
    <3> QED BY <1>2, <3>1, <3>2, <3>3 DEF SessionRestore
  <2>3. restored' \in BOOLEAN
    BY <1>2 DEF SessionRestore
  <2> QED BY <1>0, <1>2, <2>1, <2>2, <2>3, InnerStep DEF SessionRestore
<1>3. CASE LoginButton(r)
  <2>1. \E place \in InnerPlaces : Within(r, place)
    BY <1>3, AdvanceIsWithin DEF LoginButton, Executes, At, LoginSteps
  <2>2. PagesKept
    BY <1>0, <1>3, ShowKeeps DEF LoginButton, PageStates, Answered
  <2> QED BY <1>0, <1>3, <2>1, <2>2, InnerStep DEF LoginButton
<1>4. CASE SelectPhoneEmailLogin(r)
  <2>1. \E place \in InnerPlaces : Within(r, place)
    BY <1>4, AdvanceIsWithin DEF SelectPhoneEmailLogin, Executes, At, LoginSteps
  <2>2. PagesKept
    BY <1>0, <1>4, ShowKeeps DEF SelectPhoneEmailLogin, PageStates, Answered
  <2> QED BY <1>0, <1>4, <2>1, <2>2, InnerStep DEF SelectPhoneEmailLogin
<1>5. CASE FillLoginForm(r)
  <2>1. \E place \in InnerPlaces : Within(r, place)
    BY <1>5, AdvanceIsWithin DEF FillLoginForm, Executes, At, LoginSteps
  <2>2. PagesKept
    <3>1. run[r].account \in Accounts /\ (stuck = 0 => shared = r)
      BY <1>a, <1>5 DEF FillLoginForm, Executes, At, Outside
    <3>2. "filled" \in PageStates
      BY DEF PageStates, Answered
    <3> QED BY <1>0, <1>5, <3>1, <3>2, ShowAsKeeps DEF FillLoginForm
  <2> QED BY <1>0, <1>5, <2>1, <2>2, InnerStep DEF FillLoginForm
<1>6. CASE SubmitLoginForm(r)
  <2>1. \E place \in InnerPlaces : Within(r, place)
    BY <1>6, AdvanceIsWithin DEF SubmitLoginForm, Executes, At, LoginSteps
  <2>2. PagesKept
    <3>1. PICK answer \in {"in", "captcha", "code", "refused"} : Show(shared, answer)
      BY <1>6 DEF SubmitLoginForm
    <3>2. answer \in PageStates
      BY DEF PageStates, Answered
    <3> QED BY <1>0, <1>6, <3>1, <3>2, ShowKeeps DEF SubmitLoginForm, Answered
  <2> QED BY <1>0, <1>6, <2>1, <2>2, InnerStep DEF SubmitLoginForm
<1> QED BY <1>1, <1>2, <1>3, <1>4, <1>5, <1>6

\* The captcha solved by the API or by hand: the page may be one that
\* another run's context has left.
LEMMA SolveByApiStep ==
  ASSUME LoginInv, NEW r \in Runs, SolveByApi(r)
  PROVE  LoginInv'
<1>1. PageInv /\ restored \in BOOLEAN /\ run[r] \in RunStates
  BY DEF LoginInv, PageInv, LoginTyped
<1>2. run[r].held \in Runs \cup {"none"}
  BY <1>1 DEF RunStates
<1>3. PagesKept
  BY <1>1, <1>2, PagesStay, AnswersKeeps DEF SolveByApi, Answered
<1>4. "code" \in InnerPlaces /\ "code" \in Places /\ "solve" \in InnerPlaces
  BY DEF InnerPlaces, Places, Outside
<1>5. Moves(r, "code")
  BY <1>4, WaitIsOverActs DEF SolveByApi, LoginInv, LoginTyped
<1>6. Within(r, "code")
  BY <1>4, <1>5 DEF SolveByApi, At, Within, InnerPlaces
<1> QED BY <1>1, <1>3, <1>4, <1>6, InnerStep DEF SolveByApi, mailVars

LEMMA SolveByHandStep ==
  ASSUME LoginInv, NEW p \in Runs, SolveByHand(p)
  PROVE  LoginInv'
<1>1. PageInv /\ PagesKept
  BY AnswersKeeps DEF LoginInv, PageInv, LoginTyped, SolveByHand, Answered
<1> QED
  BY <1>1 DEF SolveByHand, mailVars, store, LoginInv, LoginTyped, StoreTypeOK, RunsShaped,
     HasAccount, HasMailbox, HasLogin, CodesTaken, At, OneAtWork, OwnPage, PagesKept

-----------------------------------------------------------------------------
(* The codes sent by e-mail.                                                *)

LEMMA EmailVerificationStep ==
  ASSUME LoginInv, NEW r \in Runs, EmailVerification(r)
  PROVE  LoginInv'
<1>1. PageInv /\ PagesKept /\ restored \in BOOLEAN
  BY PagesStay DEF EmailVerification, LoginInv, PageInv, LoginTyped
<1>2. CASE Advance(r) /\ UNCHANGED imap
  <2>1. \E place \in InnerPlaces : Within(r, place)
    BY <1>2, AdvanceIsWithin DEF EmailVerification, Executes, At, LoginSteps
  <2> QED BY <1>1, <1>2, <2>1, InnerStep DEF EmailVerification
<1>3. CASE Waits(r, "mail") /\ imap' = run[r].account
  <2>1. run[r].at = "code" /\ run[r].account \in Accounts
    BY DEF EmailVerification, Executes, At, LoginInv, RunsShaped, HasAccount, Outside
  <2>2. "mail" \in Places
    BY DEF Places
  <2>3. Moves(r, "mail") /\ run'[r].tries = 0
    BY <1>3, <2>2, WaitsActs DEF LoginInv, LoginTyped
  <2>4. Within(r, "mail")
    BY <2>1, <2>3 DEF EmailVerification, Within, Outside
  <2>5. run'[r].tries < MaxRetries
    BY <2>3, LoginAssumption
  <2> QED BY <1>1, <1>3, <2>1, <2>2, <2>4, <2>5, StepWithin DEF EmailVerification
<1> QED BY <1>2, <1>3 DEF EmailVerification

LEMMA MailTimesOutStep ==
  ASSUME LoginInv, NEW r \in Runs, MailTimesOut(r)
  PROVE  LoginInv'
<1>1. PageInv /\ PagesKept /\ restored \in BOOLEAN
  BY PagesStay DEF MailTimesOut, LoginInv, PageInv, LoginTyped
<1>2. run[r].at = "mail" /\ run[r].tries < MaxRetries /\ imap \in Accounts
  BY DEF MailTimesOut, At, LoginInv, RunsShaped, HasMailbox
<1>3. PICK place \in {"close", "mail"} :
        Moves(r, place) /\ (place = "mail" => run'[r].tries < MaxRetries)
  BY <1>2, RetryActs DEF MailTimesOut, LoginInv, LoginTyped
<1>4. place \in Places /\ Within(r, place)
  BY <1>2, <1>3 DEF MailTimesOut, Within, Places, Outside
<1> QED BY <1>1, <1>2, <1>3, <1>4, StepWithin DEF MailTimesOut, mailVars

\* MaxMail bounds the messages of all mailboxes, so those of each.
LEMMA OneMailbox ==
  ASSUME mail \in [Accounts -> 0..MaxMail], Cardinality(Sent) < MaxMail, NEW a \in Accounts
  PROVE  mail[a] < MaxMail
<1> SUFFICES ASSUME mail[a] = MaxMail
             PROVE  FALSE
  BY LoginAssumption
<1> DEFINE own == {m \in Messages : m[1] = a}
           number == [m \in own |-> m[2]]
<1>1. IsFiniteSet(Messages)
  <2>1. IsFiniteSet(1..MaxMail)
    BY LoginAssumption, FS_Interval
  <2> QED BY <2>1, StoreAssumption, FS_Product DEF Messages
<1>2. own \subseteq Sent /\ IsFiniteSet(Sent)
  BY <1>1, FS_Subset DEF Messages, Sent
<1>3. number \in Surjection(own, 1..MaxMail)
  <2>1. number \in [own -> 1..MaxMail]
    BY DEF Messages
  <2>2. ASSUME NEW n \in 1..MaxMail
        PROVE  \E m \in own : number[m] = n
    <3>1. <<a, n>> \in own
      BY DEF Messages
    <3> QED BY <3>1
  <2> QED BY <2>1, <2>2 DEF Surjection
<1>4. IsFiniteSet(own)
  BY <1>2, FS_Subset
<1>5. Cardinality(1..MaxMail) <= Cardinality(own)
  BY <1>3, <1>4, FS_Surjection
<1>6. Cardinality(1..MaxMail) = MaxMail
  BY LoginAssumption, FS_Interval
<1>7. Cardinality(own) <= Cardinality(Sent)
  BY <1>2, FS_Subset
<1>8. Cardinality(own) \in Nat /\ Cardinality(Sent) \in Nat
  BY <1>2, <1>4, FS_CardinalityType
<1> QED BY <1>5, <1>6, <1>7, <1>8, LoginAssumption

LEMMA SendCodeStep ==
  ASSUME LoginInv, NEW p \in Runs, SendCode(p)
  PROVE  LoginInv'
<1>1. mail \in [Accounts -> 0..MaxMail] /\ Cardinality(Sent) < MaxMail
  BY DEF LoginInv, LoginTyped, SendCode
<1>2. \A a \in Accounts : mail[a] < MaxMail
  BY <1>1, OneMailbox
<1>3. mail' \in [Accounts -> 0..MaxMail]
  <2> DEFINE a == page[p].as
  <2>1. a \in Accounts
    BY DEF SendCode, Shown, LoginInv, RunsShaped, Answered
  <2>2. mail[a] \in Nat /\ mail[a] + 1 \in 0..MaxMail
    BY <1>1, <1>2, <2>1, LoginAssumption
  <2>3. mail' = [mail EXCEPT ![a] = mail[a] + 1]
    BY DEF SendCode
  <2> QED BY <1>1, <2>2, <2>3
<1> QED
  BY <1>3 DEF SendCode, store, LoginInv, LoginTyped, StoreTypeOK, RunsShaped,
     HasAccount, HasMailbox, HasLogin, CodesTaken, At, OneAtWork, OwnPage

\* What is taken was not recorded before, so nobody else has taken it.
LEMMA PollMailStep ==
  ASSUME LoginInv, NEW r \in Runs, PollMail(r)
  PROVE  LoginInv'
<1> DEFINE m == <<imap, mail[imap]>>
           new == [run[r] EXCEPT !.at = "enter", !.taken = m]
<1>1. PageInv /\ PagesKept /\ restored \in BOOLEAN /\ run[r] \in RunStates
  BY PagesStay DEF PollMail, LoginInv, PageInv, LoginTyped
<1>2. run[r].at = "mail" /\ run[r].tries < MaxRetries /\ imap \in Accounts
  BY DEF PollMail, At, LoginInv, RunsShaped, HasMailbox
<1>3. m \in Messages /\ m \notin recorded /\ recorded' = recorded \cup {m} /\ typed' = typed
  BY <1>2 DEF PollMail, Messages, LoginInv, LoginTyped
<1>4. new \in RunStates
  BY <1>1, <1>3 DEF RunStates, Places
<1>5. run' = [run EXCEPT ![r] = new]
  BY DEF PollMail
<1>6. Acts(r) /\ run'[r] = new
  BY <1>4, <1>5, RunChanges DEF LoginInv, LoginTyped
<1>7. Moves(r, "enter") /\ run'[r].tries = run[r].tries /\ run'[r].taken = m
  BY <1>1, <1>6 DEF Moves, RunStates
<1>8. Within(r, "enter") /\ "enter" \in Places
  BY <1>2, <1>7 DEF PollMail, Within, Places, Outside
<1>9. RunsShaped' /\ OneAtWork' /\ OwnPage'
  BY <1>1, <1>2, <1>7, <1>8, WithinKeeps DEF PollMail, LoginInv
<1>10. CodesTaken'
  <2>1. \A q \in Runs \ {r} : run'[q].at = run[q].at /\ run'[q].taken = run[q].taken
    BY <1>6 DEF Acts, Untouched
  <2>2. \A q \in Runs \ {r} : At(q, "enter") => run[q].taken \in recorded
    BY DEF LoginInv, CodesTaken
  <2>3. typed[m] = 0
    BY <1>3 DEF LoginInv, CodesTaken
  <2> QED BY <1>3, <1>7, <2>1, <2>2, <2>3 DEF LoginInv, CodesTaken, At
<1>11. LoginTyped'
  BY <1>1, <1>3, <1>6 DEF PollMail, LoginInv, LoginTyped, Acts, PagesKept
<1>12. StoreTypeOK'
  BY DEF PollMail, LoginInv, StoreTypeOK, store
<1> QED BY <1>9, <1>10, <1>11, <1>12 DEF LoginInv

\* A code leaves the run's hands when it is entered.
LEMMA EnterCodeStep ==
  ASSUME LoginInv, NEW r \in Runs, EnterCode(r)
  PROVE  LoginInv'
<1> DEFINE m == run[r].taken
           new == [run[r] EXCEPT !.at = "save", !.held = "none", !.tries = 0, !.taken = NoMessage]
<1>1. PageInv /\ run[r] \in RunStates /\ run[r].held \in Runs \cup {"none"}
  BY DEF LoginInv, PageInv, LoginTyped, RunStates
<1>2. run[r].at = "enter" /\ run[r].tries < MaxRetries /\ imap \in Accounts
  BY DEF EnterCode, At, LoginInv, RunsShaped, HasMailbox
<1>3. m \in recorded /\ m \in Messages /\ typed[m] = 0
  BY <1>2 DEF LoginInv, CodesTaken, At, LoginTyped
<1>4. PagesKept
  <2>1. CASE UNCHANGED page
    BY <1>1, <2>1, PagesStay
  <2>2. CASE Show(run[r].held, "in")
    <3>1. run[r].held \in Runs /\ page[run[r].held].at = "code"
      BY <1>1, ShownIsOpen DEF EnterCode
    <3> QED BY <1>1, <2>2, <3>1, ShowKeeps DEF PageStates, Answered
  <2> QED BY <2>1, <2>2 DEF EnterCode
<1>5. PICK place \in {"save", "close", "mail"} :
        Moves(r, place) /\ (place = "mail" => run'[r].tries < MaxRetries)
  <2>1. CASE run' = [run EXCEPT ![r] = new]
    <3>1. new \in RunStates
      BY <1>1, NoTries DEF RunStates, Places
    <3>2. Acts(r) /\ run'[r] = new
      BY <2>1, <3>1, RunChanges DEF LoginInv, LoginTyped
    <3>3. Moves(r, "save")
      BY <1>1, <3>2 DEF Moves, RunStates
    <3> QED BY <3>3
  <2>2. CASE RetryMail(r)
    BY <1>2, <2>2, RetryActs DEF LoginInv, LoginTyped
  <2> QED BY <2>1, <2>2 DEF EnterCode
<1>6. place \in Places /\ Within(r, place)
  BY <1>2, <1>5 DEF EnterCode, Within, Places, Outside
<1>7. RunsShaped' /\ OneAtWork' /\ OwnPage'
  BY <1>2, <1>4, <1>5, <1>6, WithinKeeps DEF EnterCode, LoginInv
<1>8. typed' = [typed EXCEPT ![m] = 1] /\ recorded' = recorded
  BY <1>3 DEF EnterCode
<1>9. CodesTaken'
  <2>1. \A q \in Runs \ {r} : run'[q].at = run[q].at /\ run'[q].taken = run[q].taken
    BY <1>5 DEF Moves, Acts, Untouched
  <2>2. run'[r].at # "enter"
    BY <1>5 DEF Moves
  <2>3. \A q \in Runs \ {r} : At(q, "enter") => run[q].taken # m
    BY <1>2 DEF LoginInv, CodesTaken, At
  <2>4. typed'[m] = 1 /\ \A n \in Messages \ {m} : typed'[n] = typed[n]
    BY <1>3, <1>8 DEF LoginInv, LoginTyped
  <2>5. \A n \in Messages : typed'[n] <= 1 /\ (n \notin recorded' => typed'[n] = 0)
    BY <1>3, <1>8, <2>4 DEF LoginInv, CodesTaken
  <2>6. ASSUME NEW q \in Runs, At(q, "enter")'
        PROVE  q # r /\ At(q, "enter") /\ run'[q].taken = run[q].taken
               /\ run'[q].taken \in recorded' /\ typed'[run'[q].taken] = 0
    <3>1. q # r /\ At(q, "enter") /\ run'[q].taken = run[q].taken
      BY <2>1, <2>2, <2>6 DEF At
    <3>2. run[q].taken \in recorded /\ typed[run[q].taken] = 0 /\ run[q].taken \in Messages \ {m}
      BY <2>3, <3>1 DEF LoginInv, CodesTaken, LoginTyped
    <3> QED BY <1>8, <2>4, <3>1, <3>2
  <2> QED BY <2>5, <2>6 DEF LoginInv, CodesTaken
<1>10. LoginTyped'
  BY <1>3, <1>4, <1>5, <1>8 DEF EnterCode, LoginInv, LoginTyped, Moves, Acts, PagesKept
<1>11. StoreTypeOK'
  BY DEF EnterCode, LoginInv, StoreTypeOK, store
<1> QED BY <1>7, <1>9, <1>10, <1>11 DEF LoginInv

-----------------------------------------------------------------------------
(* The steps between two accounts, with the tab closed.                     *)

LEMMA BetweenKeeps ==
  ASSUME LoginInv, NEW r \in Runs, Acts(r), run[r].at # "idle", run'[r].at \in {"next", "record"},
         run'[r].at = "record" =>
           run[r].at \notin Outside /\ run'[r].account = run[r].account,
         page' \in [Runs -> Pages], page'[r].at = "closed", \A q \in Runs \ {r} : page'[q] = page[q],
         UNCHANGED <<up, isRefreshing, stuck, shared, restored, imap, mail, recorded, typed>>,
         StoreTypeOK'
  PROVE  LoginInv'
<1>1. run' \in [Runs -> RunStates] /\ \A q \in Runs \ {r} : Untouched(q)
  BY DEF Acts
<1>2. LoginTyped'
  BY <1>1 DEF LoginInv, LoginTyped
<1>3. ASSUME NEW q \in Runs
      PROVE  HasAccount(q)' /\ HasMailbox(q)' /\ HasLogin(q)'
  <2>1. CASE q = r
    BY <2>1 DEF LoginInv, RunsShaped, HasAccount, HasMailbox, HasLogin, Outside
  <2>2. CASE q # r
    BY <1>1, <2>2 DEF LoginInv, RunsShaped, HasAccount, HasMailbox, HasLogin, Untouched
  <2> QED BY <2>1, <2>2
<1>4. RunsShaped'
  BY <1>3 DEF LoginInv, RunsShaped, Answered
<1>5. CodesTaken'
  BY CodesStay DEF LoginInv
<1>6. OneAtWork'
  BY <1>1 DEF LoginInv, OneAtWork, Untouched
<1>7. OwnPage'
  <2>1. \A q \in Runs : page'[q].at # "closed" =>
          q # r /\ page'[q] = page[q] /\ run'[q].at = run[q].at /\ run'[q].account = run[q].account
    BY <1>1 DEF Untouched
  <2>2. \A q \in Runs : run'[q].at \notin Outside => run[q].at \notin Outside
    BY <1>1 DEF Untouched, Outside
  <2>3. \A q \in Runs : run'[q].at = "store" =>
          run[q].at = "store" /\ run'[q].as = run[q].as /\ run'[q].account = run[q].account
    BY <1>1 DEF Untouched
  <2> QED BY <2>1, <2>2, <2>3 DEF LoginInv, OwnPage, Answered
<1> QED BY <1>2, <1>4, <1>5, <1>6, <1>7, StoreTypeOK' DEF LoginInv

LEMMA SelectStep ==
  ASSUME LoginInv, NEW r \in Runs, SelectAccounts(r) \/ \E a \in Accounts : NoTab(r, a)
  PROVE  LoginInv'
<1>1. run[r].at \in {"select", "next"} /\ page[r].at = "closed" /\ run[r] \in RunStates
  BY DEF SelectAccounts, NoTab, At, LoginInv, LoginTyped, OwnPage, Outside
<1>2. PICK todo \in SUBSET Accounts :
        run' = [run EXCEPT ![r] = [run[r] EXCEPT !.at = "next", !.todo = todo]]
  <2>1. CASE SelectAccounts(r)
    <3>1. PICK todo \in {{}, {a \in Accounts : LiveRows(a) = {}}} :
            run' = [run EXCEPT ![r].at = "next", ![r].todo = todo]
      BY <2>1 DEF SelectAccounts
    <3> QED BY <3>1 DEF LoginInv, LoginTyped
  <2>2. ASSUME NEW a \in Accounts, NoTab(r, a)
        PROVE  \E todo \in SUBSET Accounts :
                 run' = [run EXCEPT ![r] = [run[r] EXCEPT !.at = "next", !.todo = todo]]
    <3>1. run[r].at = "next" /\ run' = [run EXCEPT ![r] = [run[r] EXCEPT !.todo = @ \ {a}]]
      BY <2>2 DEF NoTab, At
    <3>2. [run[r] EXCEPT !.todo = @ \ {a}] = [run[r] EXCEPT !.at = "next", !.todo = run[r].todo \ {a}]
      BY <1>1, <3>1 DEF RunStates
    <3>3. run[r].todo \ {a} \in SUBSET Accounts
      BY <1>1 DEF RunStates
    <3> QED BY <3>1, <3>2, <3>3
  <2> QED BY <2>1, <2>2
<1>3. [run[r] EXCEPT !.at = "next", !.todo = todo] \in RunStates
  BY <1>1 DEF RunStates, Places
<1>4. Acts(r) /\ run'[r].at = "next"
  BY <1>1, <1>2, <1>3, RunChanges DEF LoginInv, LoginTyped, RunStates
<1>5. /\ UNCHANGED <<up, isRefreshing, stuck, page, shared, restored, imap, mail, recorded, typed>>
      /\ UNCHANGED store
  BY DEF SelectAccounts, NoTab, mailVars
<1>6. StoreTypeOK'
  BY <1>5 DEF LoginInv, StoreTypeOK, store
<1> QED BY <1>1, <1>4, <1>5, <1>6, BetweenKeeps DEF LoginInv, LoginTyped

LEMMA CloseTabStep ==
  ASSUME LoginInv, NEW r \in Runs, CloseTab(r)
  PROVE  LoginInv'
<1> DEFINE after == IF run[r].ok THEN [run[r] EXCEPT !.at = "record", !.ok = FALSE]
                    ELSE [run[r] EXCEPT !.at = "next", !.account = "none"]
<1>1. run[r].at = "close" /\ \A q \in Runs : run[q] \in RunStates
  BY DEF CloseTab, At, LoginInv, LoginTyped
<1>2. /\ after \in RunStates /\ after.at \in {"next", "record"}
      /\ after.at = "record" => after.account = run[r].account
  BY <1>1 DEF RunStates, Places
<1>3. run'[r] = after /\ DOMAIN run' = Runs
  BY DEF CloseTab
<1>4. ASSUME NEW q \in Runs \ {r}
      PROVE  run'[q] \in RunStates /\ Untouched(q)
  <2>1. run'[q] = [run[q] EXCEPT !.held = IF @ = r THEN "none" ELSE @]
    BY DEF CloseTab
  <2> QED BY <1>1, <2>1 DEF RunStates, Untouched
<1>5. Acts(r)
  BY <1>2, <1>3, <1>4 DEF Acts, CloseTab
<1>6. /\ page' \in [Runs -> Pages] /\ page'[r].at = "closed"
      /\ \A q \in Runs \ {r} : page'[q] = page[q]
  BY DEF CloseTab, Closed, LoginInv, LoginTyped, Pages
<1>7. /\ UNCHANGED <<up, isRefreshing, stuck, shared, restored, imap, mail, recorded, typed>>
      /\ UNCHANGED store
  BY DEF CloseTab, mailVars
<1>8. StoreTypeOK'
  BY <1>7 DEF LoginInv, StoreTypeOK, store
<1>9. run[r].at \notin Outside
  BY <1>1 DEF Outside
<1> QED BY <1>1, <1>2, <1>3, <1>5, <1>6, <1>7, <1>8, <1>9, BetweenKeeps

\* A tab is opened for the account, and its page becomes the shared one.
LEMMA NextAccountStep ==
  ASSUME LoginInv, NEW r \in Runs, NEW a \in Accounts, NextAccount(r, a)
  PROVE  LoginInv'
<1> DEFINE new == [run[r] EXCEPT !.todo = run[r].todo \ {a}, !.at = "initialization", !.account = a]
<1>1. run[r].at = "next" /\ run[r] \in RunStates
  BY DEF NextAccount, At, LoginInv, LoginTyped
<1>2. new \in RunStates /\ new.at = "initialization" /\ new.account = a
  BY <1>1 DEF RunStates, Places
<1>3. run' = [run EXCEPT ![r] = new]
  BY DEF NextAccount, LoginInv, LoginTyped
<1>4. Acts(r) /\ run'[r] = new
  BY <1>2, <1>3, RunChanges DEF LoginInv, LoginTyped
<1>5. run' \in [Runs -> RunStates] /\ \A q \in Runs \ {r} : Untouched(q)
  BY <1>4 DEF Acts
<1>6. /\ page' \in [Runs -> Pages] /\ page'[r].at = "blank"
      /\ \A q \in Runs \ {r} : page'[q] = page[q]
  BY DEF NextAccount, ShowAs, LoginInv, LoginTyped, Pages
<1>7. /\ UNCHANGED <<up, isRefreshing, stuck, restored, imap, mail, recorded, typed>>
      /\ UNCHANGED store /\ shared' = r
  BY DEF NextAccount, mailVars
<1>8. StoreTypeOK' /\ LoginTyped'
  BY <1>5, <1>6, <1>7 DEF LoginInv, LoginTyped, StoreTypeOK, store
<1>9. ASSUME NEW q \in Runs
      PROVE  HasAccount(q)' /\ HasMailbox(q)' /\ HasLogin(q)'
  <2>1. CASE q = r
    BY <1>2, <1>4, <2>1 DEF HasAccount, HasMailbox, HasLogin
  <2>2. CASE q # r
    BY <1>5, <1>7, <2>2 DEF LoginInv, RunsShaped, HasAccount, HasMailbox, HasLogin, Untouched
  <2> QED BY <2>1, <2>2
<1>10. RunsShaped'
  BY <1>6, <1>9 DEF LoginInv, RunsShaped, Answered
<1>11. CodesTaken'
  BY <1>2, <1>4, <1>7, CodesStay DEF LoginInv
<1>12. OneAtWork'
  BY <1>1, <1>2, <1>4, <1>5, <1>7 DEF LoginInv, OneAtWork, Untouched
<1>13. OwnPage'
  <2>1. \A p \in Runs : page'[p].at # "closed" => run'[p].at \notin Outside \cup {"record"}
    BY <1>2, <1>4, <1>5, <1>6 DEF LoginInv, OwnPage, Untouched, Outside
  <2>2. ASSUME stuck' = 0, NEW q \in Runs
        PROVE  /\ run'[q].at \notin Outside => shared' = q
               /\ page'[q].at \in Answered => page'[q].as = run'[q].account
               /\ run'[q].at = "store" => run'[q].as \in {run'[q].account, "out"}
    <3>1. CASE q = r
      BY <1>2, <1>4, <1>6, <1>7, <3>1 DEF Answered
    <3>2. CASE q # r
      <4>1. run[q].at = "idle" /\ run'[q].at = "idle"
        BY <1>1, <1>5, <1>7, <2>2, <3>2 DEF LoginInv, OneAtWork, Untouched
      <4>2. page'[q].at = "closed"
        BY <1>6, <3>2, <4>1 DEF LoginInv, OwnPage, Outside
      <4> QED BY <4>1, <4>2 DEF Outside, Answered
    <3> QED BY <3>1, <3>2
  <2> QED BY <2>1, <2>2 DEF OwnPage
<1> QED BY <1>8, <1>10, <1>11, <1>12, <1>13 DEF LoginInv

-----------------------------------------------------------------------------
(* The schedule: one run at work at a time, unless one is taken for stuck.  *)

LEMMA NewRunIsRun == NewRun \in RunStates /\ NewRun.at = "idle"
  BY NoTries DEF NewRun, RunStates, Places

LEMMA EndRunStep ==
  ASSUME LoginInv, NEW r \in Runs, EndRun(r)
  PROVE  LoginInv'
<1>1. run[r].at = "next" /\ page[r].at = "closed"
  BY DEF EndRun, At, LoginInv, OwnPage, Outside
<1>2. Acts(r) /\ run'[r].at = "idle"
  BY NewRunIsRun, RunChanges DEF EndRun, LoginInv, LoginTyped
<1>3. run' \in [Runs -> RunStates] /\ \A q \in Runs \ {r} : Untouched(q)
  BY <1>2 DEF Acts
<1>4. /\ UNCHANGED <<stuck, page, shared, restored, imap, mail, recorded, typed>>
      /\ UNCHANGED store /\ up' = TRUE /\ isRefreshing' \in BOOLEAN
  BY DEF EndRun, mailVars
<1>5. StoreTypeOK' /\ LoginTyped'
  BY <1>3, <1>4 DEF LoginInv, LoginTyped, StoreTypeOK, store
<1>6. RunsShaped'
  <2>1. ASSUME NEW q \in Runs
        PROVE  HasAccount(q)' /\ HasMailbox(q)' /\ HasLogin(q)'
    <3>1. CASE q = r
      BY <1>2, <3>1 DEF HasAccount, HasMailbox, HasLogin, Outside
    <3>2. CASE q # r
      BY <1>3, <1>4, <3>2 DEF LoginInv, RunsShaped, HasAccount, HasMailbox, HasLogin, Untouched
    <3> QED BY <3>1, <3>2
  <2> QED BY <1>4, <2>1 DEF LoginInv, RunsShaped
<1>7. CodesTaken'
  BY <1>2, <1>4, CodesStay DEF LoginInv
<1>8. OneAtWork'
  BY <1>1, <1>2, <1>3, <1>4 DEF LoginInv, OneAtWork, Untouched
<1>9. OwnPage'
  <2>1. \A q \in Runs : run'[q].at \notin Outside =>
          q # r /\ run[q].at \notin Outside /\ run'[q].at = run[q].at
          /\ run'[q].as = run[q].as /\ run'[q].account = run[q].account
    BY <1>2, <1>3 DEF Untouched, Outside
  <2>2. \A q \in Runs : page[q].at # "closed" =>
          q # r /\ run'[q].at = run[q].at /\ run'[q].account = run[q].account
    BY <1>1, <1>3 DEF Untouched
  <2>3. \A p \in Runs : page'[p].at # "closed" => run'[p].at \notin Outside \cup {"record"}
    BY <1>4, <2>2 DEF LoginInv, OwnPage
  <2>4. ASSUME stuck' = 0, NEW q \in Runs
        PROVE  /\ run'[q].at \notin Outside => shared' = q
               /\ page'[q].at \in Answered => page'[q].as = run'[q].account
               /\ run'[q].at = "store" => run'[q].as \in {run'[q].account, "out"}
    <3>1. run'[q].at \notin Outside => shared' = q
      BY <1>4, <2>1, <2>4 DEF LoginInv, OwnPage
    <3>2. page'[q].at \in Answered => page'[q].as = run'[q].account
      BY <1>4, <2>2, <2>4 DEF LoginInv, OwnPage, Answered
    <3>3. run'[q].at = "store" => run'[q].as \in {run'[q].account, "out"}
      BY <1>4, <2>1, <2>4 DEF LoginInv, OwnPage, Outside
    <3> QED BY <3>1, <3>2, <3>3
  <2> QED BY <2>3, <2>4 DEF OwnPage
<1> QED BY <1>5, <1>6, <1>7, <1>8, <1>9 DEF LoginInv

LEMMA CheckAndRefreshStep ==
  ASSUME LoginInv, NEW r \in Runs, CheckAndRefresh(r)
  PROVE  LoginInv'
<1>1. run[r].at = "idle" /\ page[r].at = "closed" /\ run[r] \in RunStates
  BY DEF CheckAndRefresh, At, LoginInv, LoginTyped, OwnPage, Outside
<1>2. Acts(r) /\ run'[r].at = "select"
  BY GoActs DEF CheckAndRefresh, LoginInv, LoginTyped, Moves, Places
<1>3. run' \in [Runs -> RunStates] /\ \A q \in Runs \ {r} : Untouched(q)
  BY <1>2 DEF Acts
<1>4. /\ UNCHANGED <<up, page, shared, restored, imap, mail, recorded, typed>>
      /\ UNCHANGED store /\ up = TRUE /\ isRefreshing' = TRUE /\ stuck' \in Nat
      /\ stuck' = 0 => stuck = 0 /\ ~isRefreshing
  BY DEF CheckAndRefresh, mailVars, LoginInv, LoginTyped
<1>5. StoreTypeOK' /\ LoginTyped'
  BY <1>3, <1>4 DEF LoginInv, LoginTyped, StoreTypeOK, store
<1>6. RunsShaped'
  <2>1. ASSUME NEW q \in Runs
        PROVE  HasAccount(q)' /\ HasMailbox(q)' /\ HasLogin(q)'
    <3>1. CASE q = r
      BY <1>2, <3>1 DEF HasAccount, HasMailbox, HasLogin, Outside
    <3>2. CASE q # r
      BY <1>3, <1>4, <3>2 DEF LoginInv, RunsShaped, HasAccount, HasMailbox, HasLogin, Untouched
    <3> QED BY <3>1, <3>2
  <2> QED BY <1>4, <2>1 DEF LoginInv, RunsShaped
<1>7. CodesTaken'
  BY <1>2, <1>4, CodesStay DEF LoginInv
<1>8. OneAtWork'
  <2>1. stuck' = 0 => \A q \in Runs \ {r} : run'[q].at = "idle"
    BY <1>3, <1>4 DEF LoginInv, OneAtWork, Untouched
  <2> QED BY <1>4, <2>1 DEF OneAtWork
<1>9. OwnPage'
  <2>1. \A p \in Runs : page'[p].at # "closed" => run'[p].at \notin Outside \cup {"record"}
    BY <1>1, <1>3, <1>4 DEF LoginInv, OwnPage, Untouched
  <2>2. ASSUME stuck' = 0, NEW q \in Runs
        PROVE  run'[q].at \in Outside /\ page'[q].at = "closed"
    <3>1. run[q].at = "idle"
      BY <1>4, <2>2 DEF LoginInv, OneAtWork
    <3>2. page[q].at = "closed"
      BY <3>1 DEF LoginInv, OwnPage, Outside
    <3> QED BY <1>2, <1>3, <1>4, <3>1, <3>2 DEF Untouched, Outside
  <2> QED BY <2>1, <2>2 DEF OwnPage, Outside, Answered
<1> QED BY <1>5, <1>6, <1>7, <1>8, <1>9 DEF LoginInv

\* One run starts with the application, before the cron jobs.
LEMMA StartUpsAlone ==
  ASSUME NEW start \in StartUps
  PROVE  /\ start \in [Runs -> RunStates]
         /\ \A r \in Runs : start[r].at \in {"idle", "select"}
         /\ \A r, q \in Runs : start[r].at # "idle" /\ start[q].at # "idle" => r = q
<1>1. PICK s \in Runs : start = [[r \in Runs |-> NewRun] EXCEPT ![s].at = "select"]
  BY DEF StartUps
<1>2. start \in [Runs -> RunStates]
  BY <1>1, NewRunIsRun DEF RunStates, Places
<1>3. start[s].at = "select" /\ \A r \in Runs \ {s} : start[r].at = "idle"
  BY <1>1, NewRunIsRun DEF RunStates
<1> QED BY <1>2, <1>3

NothingBegun ==
  /\ run \in StartUps /\ up = FALSE /\ isRefreshing = FALSE
  /\ page = [r \in Runs |-> Closed] /\ shared = "none" /\ restored = FALSE /\ imap = "none"
  /\ stuck \in Nat /\ mail \in [Accounts -> 0..MaxMail]
  /\ recorded \subseteq Messages /\ typed \in [Messages -> Nat]
  /\ \A m \in Messages : typed[m] <= 1 /\ (m \notin recorded => typed[m] = 0)

LEMMA NothingAtWork ==
  NothingBegun => LoginTyped /\ RunsShaped /\ CodesTaken /\ OneAtWork /\ OwnPage
<1> SUFFICES ASSUME NothingBegun
             PROVE  LoginTyped /\ RunsShaped /\ CodesTaken /\ OneAtWork /\ OwnPage
  OBVIOUS
<1> USE DEF NothingBegun
<1>1. /\ run \in [Runs -> RunStates]
      /\ \A r \in Runs : run[r].at \in {"idle", "select"}
      /\ \A r, q \in Runs : run[r].at # "idle" /\ run[q].at # "idle" => r = q
  BY StartUpsAlone
<1>2. page \in [Runs -> Pages] /\ \A r \in Runs : page[r].at = "closed"
  BY DEF Closed, Pages
<1>3. LoginTyped
  BY <1>1, <1>2 DEF LoginTyped
<1>4. RunsShaped
  BY <1>1, <1>2 DEF RunsShaped, HasAccount, HasMailbox, HasLogin, Outside, Answered
<1>5. CodesTaken
  BY <1>1 DEF CodesTaken, At
<1>6. OneAtWork /\ OwnPage
  BY <1>1, <1>2 DEF OneAtWork, OwnPage, Outside, Answered
<1> QED BY <1>3, <1>4, <1>5, <1>6

LEMMA RestartStep ==
  ASSUME LoginInv, Restart
  PROVE  LoginInv'
<1>1. StoreTypeOK'
  BY DEF Restart, LoginInv, StoreTypeOK, store
<1>2. NothingBegun'
  BY DEF Restart, NothingBegun, LoginInv, LoginTyped, CodesTaken
<1>3. (LoginTyped /\ RunsShaped /\ CodesTaken /\ OneAtWork /\ OwnPage)'
  BY <1>2, NothingAtWork, PTL
<1> QED BY <1>1, <1>3 DEF LoginInv

-----------------------------------------------------------------------------
(* What a save does to the rows and files: a state it writes is of the      *)
(* account it is given.                                                     *)

Writes(a, st) ==
  \A b \in Accounts :
    {state'[b], file'[b]} \subseteq {state[b], file[b], "none"} \cup (IF b = a THEN {st} ELSE {})

LEMMA OwnRowsKept ==
  ASSUME OwnRows, NEW a \in Accounts, NEW st \in Logins, Writes(a, st), stuck' = stuck,
         stuck = 0 => st \in {a, "out"}
  PROVE  OwnRows'
  BY DEF OwnRows, Writes

LEMMA WriteFileWrites ==
  ASSUME StoreTypeOK, NEW a \in Accounts, NEW st \in Logins, WriteFile(a, st),
         UNCHANGED <<rows, live, recent, cookies, state>>
  PROVE  StoreTypeOK' /\ Writes(a, st)
  BY DEF StoreTypeOK, WriteFile, Writes

LEMMA SaveSessionStateWrites ==
  ASSUME StoreTypeOK, NEW a \in Accounts, NEW st \in Logins, NEW saved \in BOOLEAN,
         SaveSessionState(a, st, saved)
  PROVE  StoreTypeOK' /\ Writes(a, st)
<1>1. 1 \in 0..MaxRows /\ <<a, 1>> \in SessionIds
  BY StoreAssumption DEF SessionIds
<1>2. rows' \in [Accounts -> 0..MaxRows] /\ recent' \in [Accounts -> 0..MaxRows]
  BY <1>1 DEF SaveSessionState, StoreTypeOK
<1>3. live' \subseteq SessionIds /\ cookies' \subseteq Accounts
  BY <1>1 DEF SaveSessionState, StoreTypeOK
<1>4. state' \in [Accounts -> Logins \cup {"none"}] /\ file' = file
  BY DEF SaveSessionState, StoreTypeOK
<1>5. Writes(a, st)
  BY DEF SaveSessionState, StoreTypeOK, Writes
<1> QED BY <1>2, <1>3, <1>4, <1>5 DEF StoreTypeOK

LEMMA UpdateSessionWrites ==
  ASSUME StoreTypeOK, NEW a \in Accounts, UpdateSession(a) \/ UNCHANGED store
  PROVE  StoreTypeOK' /\ UNCHANGED <<state, file>>
<1>1. 1 \in 0..MaxRows
  BY StoreAssumption
<1> QED BY <1>1 DEF UpdateSession, StoreTypeOK, store

LEMMA CreateSessionWrites ==
  ASSUME StoreTypeOK, NEW a \in Accounts, CreateSession(a) \/ UNCHANGED store
  PROVE  StoreTypeOK' /\ UNCHANGED <<state, file>>
<1>1. CASE CreateSession(a)
  <2> DEFINE n == rows[a] + 1
  <2>1. rows[a] \in Nat /\ n \in 1..MaxRows
    BY <1>1, StoreAssumption DEF CreateSession, StoreTypeOK
  <2>2. <<a, n>> \in SessionIds
    BY <2>1 DEF SessionIds
  <2> QED BY <1>1, <2>1, <2>2 DEF CreateSession, StoreTypeOK
<1>2. CASE UNCHANGED store
  BY <1>2 DEF StoreTypeOK, store
<1> QED BY <1>1, <1>2

LEMMA LosesWrites ==
  ASSUME StoreTypeOK,
         (\E s \in SessionIds : Lapse(s)) \/ (\E a \in Accounts : LoseFile(a)), stuck' = stuck
  PROVE  StoreTypeOK' /\ (OwnRows => OwnRows')
<1>1. ASSUME NEW s \in SessionIds, Lapse(s)
      PROVE  StoreTypeOK' /\ (OwnRows => OwnRows')
  BY <1>1 DEF Lapse, StoreTypeOK, OwnRows
<1>2. ASSUME NEW a \in Accounts, LoseFile(a)
      PROVE  StoreTypeOK' /\ (OwnRows => OwnRows')
  BY <1>2 DEF LoseFile, WriteFile, StoreTypeOK, OwnRows
<1> QED BY <1>1, <1>2

-----------------------------------------------------------------------------
(* The steps that save what was logged in.                                  *)

LEMMA StoringKeeps ==
  ASSUME LoginInv, NEW r \in Runs, NEW place \in Places, Within(r, place),
         place \notin {"enter", "mail"},
         place = "store" =>
           run'[r].as \in Logins /\ (stuck = 0 => run'[r].as \in {run[r].account, "out"}),
         UNCHANGED <<page, restored, imap, mail, recorded, typed>>, StoreTypeOK'
  PROVE  LoginInv'
<1>1. PagesKept
  BY PagesStay DEF LoginInv, PageInv
<1>2. RunsShaped' /\ OneAtWork' /\ OwnPage'
  BY <1>1, WithinKeeps DEF LoginInv
<1>3. CodesTaken'
  BY CodesStay DEF LoginInv, Within, Moves
<1>4. LoginTyped'
  BY <1>1 DEF LoginInv, LoginTyped, Within, Moves, Acts, PagesKept
<1> QED BY <1>2, <1>3, <1>4 DEF LoginInv

\* What is taken from the shared page is the login of the account, or none.
LEMMA StateTakenIsOwn ==
  ASSUME LoginInv, NEW r \in Runs, run[r].at = "save", Shown(shared) # "closed"
  PROVE  /\ StateTaken(shared) \in Logins
         /\ stuck = 0 => StateTaken(shared) \in {run[r].account, "out"}
<1>1. shared \in Runs /\ page[shared].at = Shown(shared)
  BY ShownIsOpen DEF LoginInv, LoginTyped
<1>2. page[shared].at \in Answered => page[shared].as \in Accounts
  BY <1>1 DEF LoginInv, RunsShaped
<1>3. stuck = 0 =>
        shared = r /\ (page[shared].at \in Answered => page[shared].as = run[r].account)
  BY DEF LoginInv, OwnPage, Outside
<1> QED BY <1>1, <1>2, <1>3 DEF StateTaken, Answered, Logins

LEMMA SaveSessionStep ==
  ASSUME LoginInv, OwnRows, NEW r \in Runs, SaveSession(r)
  PROVE  LoginInv' /\ OwnRows'
<1>1. /\ run[r].at = "save" /\ run[r].account \in Accounts /\ run[r] \in RunStates
      /\ StoreTypeOK /\ run \in [Runs -> RunStates]
  BY DEF SaveSession, At, LoginInv, LoginTyped, RunsShaped, HasAccount, Outside
<1>2. /\ UNCHANGED <<page, restored, imap, mail, recorded, typed>>
      /\ UNCHANGED <<up, isRefreshing, stuck, shared>>
  BY DEF SaveSession, mailVars
<1>3. CASE Fails(r) /\ UNCHANGED file
  <2>1. Moves(r, "close") /\ "close" \in Places \ {"store"}
    BY <1>1, <1>3, FailsActs DEF Places
  <2>2. Within(r, "close")
    BY <1>1, <1>2, <2>1 DEF Within, Outside
  <2>3. StoreTypeOK' /\ OwnRows'
    BY <1>1, <1>2, <1>3 DEF SaveSession, StoreTypeOK, OwnRows
  <2> QED BY <1>2, <2>1, <2>2, <2>3, StoringKeeps
<1>4. CASE /\ Shown(shared) # "closed"
           /\ WriteFile(run[r].account, StateTaken(shared))
           /\ run' = [run EXCEPT ![r].at = "store", ![r].as = StateTaken(shared)]
  <2> DEFINE st == StateTaken(shared)
             new == [run[r] EXCEPT !.at = "store", !.as = st]
  <2>1. st \in Logins /\ (stuck = 0 => st \in {run[r].account, "out"})
    BY <1>1, <1>4, StateTakenIsOwn
  <2> HIDE DEF st
  <2>2. new \in RunStates /\ "store" \in Places
    BY <1>1, <2>1 DEF RunStates, Places
  <2>3. run' = [run EXCEPT ![r] = new]
    BY <1>1, <1>4 DEF st
  <2>4. Acts(r) /\ run'[r] = new
    BY <1>1, <2>2, <2>3, RunChanges
  <2>5. Moves(r, "store") /\ run'[r].as = st
    BY <1>1, <2>4 DEF Moves, RunStates
  <2>6. Within(r, "store")
    BY <1>1, <1>2, <2>5 DEF Within, Outside
  <2>7. WriteFile(run[r].account, st) /\ UNCHANGED <<rows, live, recent, cookies, state>>
    BY <1>4 DEF SaveSession, st
  <2>8. StoreTypeOK' /\ Writes(run[r].account, st)
    BY <1>1, <2>1, <2>7, WriteFileWrites
  <2>9. OwnRows'
    BY <1>1, <1>2, <2>1, <2>8, OwnRowsKept
  <2> QED BY <1>2, <2>1, <2>2, <2>5, <2>6, <2>8, <2>9, StoringKeeps
<1> QED BY <1>3, <1>4 DEF SaveSession

LEMMA StoreStateStep ==
  ASSUME LoginInv, OwnRows, NEW r \in Runs, StoreState(r)
  PROVE  LoginInv' /\ OwnRows'
<1>1. /\ run[r].at = "store" /\ run[r].account \in Accounts /\ run[r] \in RunStates
      /\ run[r].as \in Logins /\ (stuck = 0 => run[r].as \in {run[r].account, "out"})
      /\ StoreTypeOK /\ run \in [Runs -> RunStates]
  BY DEF StoreState, At, LoginInv, LoginTyped, RunsShaped, HasAccount, HasLogin, OwnPage, Outside
<1>2. /\ UNCHANGED <<page, restored, imap, mail, recorded, typed>>
      /\ UNCHANGED <<up, isRefreshing, stuck, shared>>
  BY DEF StoreState, mailVars
<1>3. CASE Fails(r) /\ UNCHANGED store
  <2>1. Moves(r, "close") /\ "close" \in Places \ {"store"}
    BY <1>1, <1>3, FailsActs DEF Places
  <2>2. Within(r, "close")
    BY <1>1, <1>2, <2>1 DEF Within, Outside
  <2>3. StoreTypeOK' /\ OwnRows'
    BY <1>1, <1>2, <1>3 DEF store, StoreTypeOK, OwnRows
  <2> QED BY <1>2, <2>1, <2>2, <2>3, StoringKeeps
<1>4. CASE /\ \E saved \in BOOLEAN : SaveSessionState(run[r].account, run[r].as, saved)
           /\ run' = [run EXCEPT ![r].at = "update", ![r].as = "none"]
  <2> DEFINE new == [run[r] EXCEPT !.at = "update", !.as = "none"]
  <2>1. new \in RunStates /\ "update" \in Places
    BY <1>1 DEF RunStates, Places
  <2>2. run' = [run EXCEPT ![r] = new]
    BY <1>1, <1>4
  <2>3. Acts(r) /\ run'[r] = new
    BY <1>1, <2>1, <2>2, RunChanges
  <2>4. Within(r, "update")
    BY <1>1, <1>2, <2>3 DEF Moves, RunStates, Within, Outside
  <2>5. StoreTypeOK' /\ Writes(run[r].account, run[r].as)
    BY <1>1, <1>4, SaveSessionStateWrites
  <2>6. OwnRows'
    BY <1>1, <1>2, <2>5, OwnRowsKept
  <2> QED BY <1>2, <2>1, <2>4, <2>5, <2>6, StoringKeeps
<1> QED BY <1>3, <1>4 DEF StoreState

LEMMA SaveSessionToDatabaseStep ==
  ASSUME LoginInv, OwnRows, NEW r \in Runs, SaveSessionToDatabase(r)
  PROVE  LoginInv' /\ OwnRows'
<1> DEFINE new == [run[r] EXCEPT !.at = "close", !.ok = TRUE]
<1>1. /\ run[r].at = "update" /\ run[r].account \in Accounts /\ run[r] \in RunStates
      /\ StoreTypeOK /\ run \in [Runs -> RunStates]
  BY DEF SaveSessionToDatabase, At, LoginInv, LoginTyped, RunsShaped, HasAccount, Outside
<1>2. /\ UNCHANGED <<page, restored, imap, mail, recorded, typed>>
      /\ UNCHANGED <<up, isRefreshing, stuck, shared>>
  BY DEF SaveSessionToDatabase, mailVars
<1>3. new \in RunStates /\ "close" \in Places
  BY <1>1 DEF RunStates, Places
<1>4. run' = [run EXCEPT ![r] = new]
  BY <1>1 DEF SaveSessionToDatabase
<1>5. Acts(r) /\ run'[r] = new
  BY <1>1, <1>3, <1>4, RunChanges
<1>6. Within(r, "close")
  BY <1>1, <1>2, <1>5 DEF Moves, RunStates, Within, Outside
<1>7. StoreTypeOK' /\ UNCHANGED <<state, file>>
  BY <1>1, UpdateSessionWrites DEF SaveSessionToDatabase
<1>8. OwnRows'
  BY <1>2, <1>7 DEF OwnRows
<1> QED BY <1>2, <1>3, <1>6, <1>7, <1>8, StoringKeeps

LEMMA RecordLoginStep ==
  ASSUME LoginInv, OwnRows, NEW r \in Runs, RecordLogin(r)
  PROVE  LoginInv' /\ OwnRows'
<1> DEFINE new == [run[r] EXCEPT !.at = "next", !.account = "none"]
<1>1. /\ run[r].at = "record" /\ run[r].account \in Accounts /\ run[r] \in RunStates
      /\ StoreTypeOK /\ run \in [Runs -> RunStates] /\ page \in [Runs -> Pages]
      /\ page[r].at = "closed"
  BY DEF RecordLogin, At, LoginInv, LoginTyped, RunsShaped, HasAccount, OwnPage, Outside
<1>2. /\ UNCHANGED <<page, restored, imap, mail, recorded, typed>>
      /\ UNCHANGED <<up, isRefreshing, stuck, shared>>
  BY DEF RecordLogin, mailVars
<1>3. new \in RunStates
  BY <1>1 DEF RunStates, Places
<1>4. run' = [run EXCEPT ![r] = new]
  BY <1>1 DEF RecordLogin
<1>5. Acts(r) /\ run'[r].at = "next"
  BY <1>1, <1>3, <1>4, RunChanges DEF RunStates
<1>6. StoreTypeOK' /\ UNCHANGED <<state, file>>
  BY <1>1, CreateSessionWrites DEF RecordLogin
<1>7. OwnRows'
  BY <1>2, <1>6 DEF OwnRows
<1> QED BY <1>1, <1>2, <1>5, <1>6, <1>7, BetweenKeeps

-----------------------------------------------------------------------------
(* The captures. Only the session at hand has its context changed.          *)

InHand == {"open", "state", "file", "scroll"}

ContextsOf(s) == contexts' \in [SessionIds -> Logins \cup {"none", "lost"}]
                 /\ \A t \in SessionIds \ {s} : contexts'[t] = contexts[t]

LEMMA PutChanges ==
  ASSUME CaptureInv, capture.at \in InHand, NEW st \in Logins \cup {"none", "lost"}, Put(st)
  PROVE  /\ capture.session \in SessionIds /\ ContextsOf(capture.session)
         /\ contexts'[capture.session] = st
  BY DEF CaptureInv, CaptureTyped, CaptureShaped, Put, InHand, ContextsOf

\* A step with a session in hand that keeps it there.
LEMMA InHandKeeps ==
  ASSUME CaptureInv, capture.at \in InHand, capture' \in Captures, capture'.at \in InHand,
         capture'.session = capture.session, ContextsOf(capture.session),
         contexts'[capture.session] \in {capture.session[1], "out", "none", "lost"},
         UNCHANGED <<success, pending, config>>
  PROVE  CaptureInv'
  BY DEF CaptureInv, CaptureTyped, CaptureShaped, OwnContexts, CapturedIsOwn, RestoredButOne,
     InHand, ContextsOf

\* A step that puts it down: either it is a success or it has no context.
LEMMA DoneKeeps ==
  ASSUME CaptureInv, capture.at \in InHand, NextOne, ContextsOf(capture.session),
         contexts'[capture.session] \in {capture.session[1], "out", "none", "lost"},
         success' \in {success \cup {capture.session}, success \ {capture.session}},
         contexts'[capture.session] # "none" => capture.session \in success',
         UNCHANGED <<pending, config>>
  PROVE  CaptureInv'
<1>1. capture.session \in SessionIds
  BY DEF CaptureInv, CaptureShaped, InHand
<1>2. capture' \in Captures /\ capture'.at = "next"
  BY DEF CaptureInv, CaptureTyped, Captures, NextOne
<1>3. CaptureTyped' /\ CaptureShaped'
  BY <1>1, <1>2 DEF CaptureInv, CaptureTyped, CaptureShaped, ContextsOf
<1>4. OwnContexts'
  BY <1>1 DEF CaptureInv, OwnContexts, CapturedIsOwn, ContextsOf
<1>5. RestoredButOne'
  BY <1>1 DEF CaptureInv, RestoredButOne, ContextsOf
<1> QED BY <1>3, <1>4, <1>5 DEF CaptureInv

\* A step between two sessions.
LEMMA RestingKeeps ==
  ASSUME CaptureInv, capture.at \notin InHand, capture' \in Captures, capture'.at \notin InHand,
         UNCHANGED <<contexts, success, pending, config>>
  PROVE  CaptureInv'
  BY DEF CaptureInv, CaptureTyped, CaptureShaped, OwnContexts, CapturedIsOwn, RestoredButOne, InHand

LEMMA CaptureSteps ==
  ASSUME StoreTypeOK, OwnRows, stuck = 0, CaptureInv, CaptureStep \/ ProcessAccounts
  PROVE  CaptureInv'
<1>0. capture \in Captures /\ capture.session \in SessionIds \cup {NoSession}
  BY DEF CaptureInv, CaptureTyped, Captures
<1>a. capture.at \in InHand => capture.session \in SessionIds
  BY DEF CaptureInv, CaptureShaped, InHand
<1>b. ASSUME NEW st \in Logins \cup {"none", "lost"}, st = contexts[capture.session],
             capture.at \in InHand, UNCHANGED contexts
      PROVE  /\ ContextsOf(capture.session)
             /\ contexts'[capture.session] \in {capture.session[1], "out", "none", "lost"}
  BY <1>a, <1>b DEF ContextsOf, CaptureInv, CaptureTyped, OwnContexts
<1>c. NoCapture \in Captures /\ NoCapture.at = "idle"
  BY DEF NoCapture, Captures
<1>1. CASE InitAccounts
  <2> DEFINE known(s) == s[2] = 1 /\ s[1] \in cookies
             plan == {<<s, known(s)>> : s \in FirstLive}
  <2>1. plan \in SUBSET (SessionIds \X BOOLEAN)
    <3>1. ASSUME NEW s \in FirstLive
          PROVE  s \in SessionIds /\ known(s) \in BOOLEAN
      BY DEF FirstLive, StoreTypeOK
    <3> HIDE DEF known
    <3> QED BY <3>1
  <2>2. capture' \in Captures /\ capture'.at = "next"
    BY <1>0, <1>1, <2>1 DEF InitAccounts, Captures
  <2> QED BY <1>1, <2>2, RestingKeeps DEF InitAccounts, Doing, InHand
<1>2. CASE InitAccountsFails
  BY <1>2, <1>c, RestingKeeps DEF InitAccountsFails, Doing, InHand
<1>3. CASE NextSession
  <2>1. PICK p \in capture.plan :
          /\ capture' = [capture EXCEPT !.at = "open", !.session = p[1], !.cookies = p[2],
                                        !.plan = @ \ {p}]
          /\ contexts' = [contexts EXCEPT ![p[1]] = IF @ \in {"none", "lost"} THEN "out" ELSE @]
    BY <1>3 DEF NextSession
  <2>2. p[1] \in SessionIds /\ p[2] \in BOOLEAN /\ capture.at = "next"
    BY <1>0, <1>3 DEF NextSession, Doing, Captures
  <2>3. capture' \in Captures /\ capture'.at = "open" /\ capture'.session = p[1]
    BY <1>0, <2>1, <2>2 DEF Captures
  <2>4. /\ ContextsOf(p[1])
        /\ contexts'[p[1]] \in {contexts[p[1]], "out"}
    BY <2>1, <2>2 DEF CaptureInv, CaptureTyped, ContextsOf, Logins
  <2>5. UNCHANGED <<success, pending, config>>
    BY <1>3 DEF NextSession
  <2>6. CaptureTyped' /\ CaptureShaped'
    BY <2>2, <2>3, <2>4, <2>5 DEF CaptureInv, CaptureTyped, CaptureShaped, ContextsOf
  <2>7. OwnContexts' /\ RestoredButOne'
    BY <2>2, <2>3, <2>4, <2>5
    DEF CaptureInv, OwnContexts, CapturedIsOwn, RestoredButOne, ContextsOf
  <2> QED BY <2>6, <2>7 DEF CaptureInv
<1>4. CASE NoContext
  <2>1. PICK p \in capture.plan :
          /\ capture' = [capture EXCEPT !.plan = @ \ {p}]
          /\ contexts' = [contexts EXCEPT ![p[1]] = "none"]
          /\ success' = success \ {p[1]}
    BY <1>4 DEF NoContext
  <2>2. p[1] \in SessionIds /\ capture.at = "next"
    BY <1>0, <1>4 DEF NoContext, Doing, Captures
  <2>3. capture' \in Captures /\ capture'.at = "next" /\ capture'.session = capture.session
    BY <1>0, <2>1, <2>2 DEF Captures
  <2>4. ContextsOf(p[1]) /\ contexts'[p[1]] = "none"
    BY <2>1, <2>2 DEF CaptureInv, CaptureTyped, ContextsOf
  <2>5. UNCHANGED <<pending, config>>
    BY <1>4 DEF NoContext
  <2>6. CaptureTyped' /\ CaptureShaped'
    BY <2>1, <2>2, <2>3, <2>4, <2>5 DEF CaptureInv, CaptureTyped, CaptureShaped, ContextsOf
  <2>7. OwnContexts' /\ RestoredButOne'
    BY <2>1, <2>2, <2>3, <2>4, <2>5
    DEF CaptureInv, OwnContexts, CapturedIsOwn, RestoredButOne, ContextsOf
  <2> QED BY <2>6, <2>7 DEF CaptureInv
<1>d. ASSUME capture.at \in InHand, GivenUp, UNCHANGED <<pending, config>>
      PROVE  CaptureInv'
  BY <1>d, PutChanges, DoneKeeps DEF GivenUp
<1>5. CASE Navigate
  <2>1. capture.at = "open"
    BY <1>5 DEF Navigate, Doing
  <2>2. CASE Proceed("state") /\ UNCHANGED <<contexts, success>>
    <3>1. capture' \in Captures /\ capture'.at = "state" /\ capture'.session = capture.session
      BY <1>0, <2>2 DEF Proceed, Captures
    <3> QED BY <1>5, <1>a, <1>b, <2>1, <2>2, <3>1, InHandKeeps
            DEF Navigate, InHand, CaptureInv, CaptureTyped
  <2>3. CASE GivenUp
    BY <1>5, <1>d, <2>1, <2>3 DEF Navigate, InHand
  <2> QED BY <1>5, <2>2, <2>3 DEF Navigate
<1>6. CASE RestoreState
  <2> DEFINE s == capture.session
             st == StateOf(s[1], s[2])
  <2>1. capture.at = "state" /\ s \in SessionIds /\ s[1] \in Accounts
    BY <1>6, <1>a DEF RestoreState, Doing, InHand, SessionIds
  <2>2. UNCHANGED <<pending, config>>
    BY <1>6 DEF RestoreState
  <2>3. CASE Proceed("file") /\ UNCHANGED <<contexts, success>>
    <3>1. capture' \in Captures /\ capture'.at = "file" /\ capture'.session = capture.session
      BY <1>0, <2>3 DEF Proceed, Captures
    <3> QED BY <1>b, <2>1, <2>2, <2>3, <3>1, InHandKeeps DEF InHand, CaptureInv, CaptureTyped
  <2>4. CASE /\ st \in Accounts /\ Put(st)
             /\ capture' = [capture EXCEPT !.at = "file", !.ok = TRUE] /\ UNCHANGED success
    <3>1. capture' \in Captures /\ capture'.at = "file" /\ capture'.session = capture.session
      BY <1>0, <2>4 DEF Captures
    <3>2. st = s[1]
      BY <2>1, <2>4, StoreAssumption DEF StateOf, OwnRows
    <3>3. ContextsOf(s) /\ contexts'[s] = st
      BY <2>1, <2>4, PutChanges DEF InHand, Logins
    <3> QED BY <2>1, <2>2, <2>4, <3>1, <3>2, <3>3, InHandKeeps DEF InHand
  <2>5. CASE /\ Put(IF contexts[s] = "lost" THEN "lost" ELSE "out")
             /\ Proceed("file") /\ UNCHANGED success
    <3>1. capture' \in Captures /\ capture'.at = "file" /\ capture'.session = capture.session
      BY <1>0, <2>5 DEF Proceed, Captures
    <3>2. PICK new \in {"lost", "out"} : Put(new)
      BY <2>5
    <3>3. ContextsOf(s) /\ contexts'[s] = new
      BY <2>1, <3>2, PutChanges DEF InHand, Logins
    <3> QED BY <2>1, <2>2, <2>5, <3>1, <3>3, InHandKeeps DEF InHand
  <2>6. CASE GivenUp
    BY <1>d, <2>1, <2>2, <2>6 DEF InHand
  <2> QED BY <1>6, <2>3, <2>4, <2>5, <2>6 DEF RestoreState
<1>7. CASE RestoreFile
  <2> DEFINE s == capture.session
  <2>1. capture.at = "file" /\ s \in SessionIds /\ s[1] \in Accounts
    BY <1>7, <1>a DEF RestoreFile, Doing, InHand, SessionIds
  <2>2. capture' \in Captures /\ capture'.at = "scroll" /\ capture'.session = capture.session
    BY <1>0, <1>7 DEF RestoreFile, Proceed, Captures
  <2>3. file[s[1]] = s[1]
    BY <1>7, <2>1, StoreAssumption DEF RestoreFile, OwnRows
  <2>4. ContextsOf(s) /\ contexts'[s] = s[1]
    BY <1>7, <2>1, <2>3, PutChanges DEF RestoreFile, InHand, Logins
  <2> QED BY <1>7, <2>1, <2>2, <2>4, InHandKeeps DEF RestoreFile, InHand
<1>8. CASE FileMissing
  BY <1>8, <1>d DEF FileMissing, Doing, InHand
<1>9. CASE FileFails
  <2>1. capture.at \in InHand
    BY <1>9 DEF FileFails, Doing, InHand
  <2> QED BY <1>9, <2>1, PutChanges, DoneKeeps DEF FileFails
<1>10. CASE EndScrolling
  <2>1. capture.at \in InHand
    BY <1>10 DEF EndScrolling, Doing, InHand
  <2> QED BY <1>10, <1>a, <1>b, <2>1, DoneKeeps
          DEF EndScrolling, Succeeded, CaptureInv, CaptureTyped
<1>11. CASE EndCapture
  BY <1>11, <1>c, RestingKeeps DEF EndCapture, Doing, InHand
<1>12. CASE ProcessAccounts
  <2>1. capture' \in Captures /\ capture'.at = "init"
    BY <1>0, <1>12 DEF ProcessAccounts, Proceed, Captures
  <2> QED BY <1>12, <2>1, RestingKeeps DEF ProcessAccounts, Doing, InHand
<1> QED
  BY <1>1, <1>2, <1>3, <1>4, <1>5, <1>6, <1>7, <1>8, <1>9, <1>10, <1>11, <1>12 DEF CaptureStep

\* Handlers outlive the session they were made for.
LEMMA RequestSteps ==
  ASSUME CaptureInv,
         \/ Intercept \/ (\E request \in pending : CaptureRequest(request) \/ CaptureFails(request))
         \/ \E s \in SessionIds : BrowserLost(s)
  PROVE  CaptureInv'
<1> USE DEF CaptureInv, CaptureTyped, CaptureShaped, OwnContexts, CapturedIsOwn, RestoredButOne
<1>1. CASE Intercept
  <2>1. capture.session \in SessionIds
    BY <1>1 DEF Intercept, Doing
  <2> QED BY <1>1, <2>1, StoreAssumption DEF Intercept, Logins
<1>2. ASSUME NEW request \in pending, CaptureRequest(request)
      PROVE  CaptureInv'
  BY <1>2 DEF CaptureRequest, OwnerOf
<1>3. ASSUME NEW request \in pending, CaptureFails(request)
      PROVE  CaptureInv'
  BY <1>3 DEF CaptureFails
<1>4. ASSUME NEW s \in SessionIds, BrowserLost(s)
      PROVE  CaptureInv'
  BY <1>4, StoreAssumption DEF BrowserLost, Logins
<1> QED BY <1>1, <1>2, <1>3, <1>4

-----------------------------------------------------------------------------
(* The whole.                                                               *)

LEMMA LoginStays ==
  ASSUME LoginInv, UNCHANGED loginVars, StoreTypeOK'
  PROVE  LoginInv'
  BY DEF loginVars, LoginInv, LoginTyped, RunsShaped, HasAccount, HasMailbox, HasLogin,
     CodesTaken, At, OneAtWork, OwnPage

LEMMA CaptureStays ==
  ASSUME CaptureInv, UNCHANGED captureVars
  PROVE  CaptureInv'
  BY DEF captureVars, CaptureInv, CaptureTyped, CaptureShaped, OwnContexts, CapturedIsOwn,
     RestoredButOne

LEMMA SavesStay ==
  ASSUME SavesInv, UNCHANGED <<part, saves>>, logins' \in Nat, faults' \in Nat,
         faults' + stuck' <= MaxFaults, stuck' = stuck \/ (part = "logins" /\ stuck' # 0)
  PROVE  SavesInv'
  BY DEF SavesInv, OthersTyped, SavesShaped, OwnSaves, Parts

LEMMA RowsStay ==
  ASSUME StoreTypeOK, OwnRows, UNCHANGED store, stuck' = stuck \/ stuck' # 0
  PROVE  StoreTypeOK' /\ OwnRows'
  BY DEF StoreTypeOK, OwnRows, store

LEMMA RunSteps ==
  ASSUME LoginInv, OwnRows, NEW r \in Runs, RunStep(r) \/ \E a \in Accounts : NextAccount(r, a)
  PROVE  LoginInv' /\ OwnRows' /\ stuck' = stuck
<1>0. StoreTypeOK
  BY DEF LoginInv
<1>1. CASE \/ Initialization(r) \/ SkipStep(r) \/ StepFails(r) \/ CookieConsent(r)
           \/ CaptchaVerification(r) \/ PollCaptcha(r) \/ CaptchaTimesOut(r) \/ CodeNotEntered(r)
  <2>1. UNCHANGED store /\ stuck' = stuck
    BY <1>1 DEF Initialization, SkipStep, StepFails, CookieConsent, CaptchaVerification,
       PollCaptcha, CaptchaTimesOut, CodeNotEntered
  <2> QED BY <1>0, <1>1, <2>1, RowsStay, StillSteps
<1>2. CASE \/ Navigation(r) \/ SessionRestore(r) \/ LoginButton(r) \/ SelectPhoneEmailLogin(r)
           \/ FillLoginForm(r) \/ SubmitLoginForm(r)
  <2>1. UNCHANGED store /\ stuck' = stuck
    BY <1>2 DEF Navigation, SessionRestore, LoginButton, SelectPhoneEmailLogin, FillLoginForm,
       SubmitLoginForm
  <2> QED BY <1>0, <1>2, <2>1, RowsStay, PageSteps
<1>3. CASE \/ SolveByApi(r) \/ EmailVerification(r) \/ PollMail(r) \/ MailTimesOut(r)
           \/ EnterCode(r)
  <2>1. UNCHANGED store /\ stuck' = stuck
    BY <1>3 DEF SolveByApi, EmailVerification, PollMail, MailTimesOut, EnterCode
  <2> QED BY <1>0, <1>3, <2>1, RowsStay, SolveByApiStep, EmailVerificationStep, PollMailStep,
             MailTimesOutStep, EnterCodeStep
<1>4. CASE \/ SelectAccounts(r) \/ (\E a \in Accounts : NoTab(r, a)) \/ EndRun(r) \/ CloseTab(r)
           \/ \E a \in Accounts : NextAccount(r, a)
  <2>1. UNCHANGED store /\ stuck' = stuck
    BY <1>4 DEF SelectAccounts, NoTab, EndRun, CloseTab, NextAccount
  <2> QED BY <1>0, <1>4, <2>1, RowsStay, SelectStep, EndRunStep, CloseTabStep, NextAccountStep
<1>5. CASE SaveSession(r) \/ StoreState(r) \/ SaveSessionToDatabase(r) \/ RecordLogin(r)
  <2>1. stuck' = stuck
    BY <1>5 DEF SaveSession, StoreState, SaveSessionToDatabase, RecordLogin
  <2> QED BY <1>5, <2>1, SaveSessionStep, StoreStateStep, SaveSessionToDatabaseStep, RecordLoginStep
<1> QED BY <1>1, <1>2, <1>3, <1>4, <1>5 DEF RunStep

LEMMA LoginPartSteps ==
  ASSUME Inv, LoginNext
  PROVE  Inv'
<1>1. ASSUME NEW r \in Runs, WorkOn(r)
      PROVE  Inv'
  <2>1. RunStep(r) \/ \E a \in Accounts : NextAccount(r, a)
    BY <1>1 DEF WorkOn
  <2>2. LoginInv' /\ OwnRows' /\ stuck' = stuck
    BY <2>1, RunSteps DEF Inv
  <2>3. /\ UNCHANGED <<captureVars, part, saves, faults>> /\ logins' \in Nat
    BY <1>1 DEF WorkOn, bounds, Inv, SavesInv, OthersTyped
  <2>4. CaptureInv' /\ SavesInv'
    BY <2>2, <2>3, CaptureStays, SavesStay DEF Inv, SavesInv, OthersTyped
  <2> QED BY <2>2, <2>4 DEF Inv
<1>2. ASSUME NEW r \in Runs, CheckAndRefresh(r) \/ SolveByHand(r) \/ SendCode(r),
             part = "logins", faults + stuck' <= MaxFaults,
             UNCHANGED <<captureVars, part, saves, bounds>>
      PROVE  Inv'
  <2>1. LoginInv'
    BY <1>2, CheckAndRefreshStep, SolveByHandStep, SendCodeStep DEF Inv
  <2>2. UNCHANGED store /\ (stuck' = stuck \/ stuck' # 0)
    BY <1>2 DEF CheckAndRefresh, SolveByHand, SendCode, Inv, LoginInv, LoginTyped
  <2>3. OwnRows'
    BY <2>2, RowsStay DEF Inv, LoginInv
  <2>4. CaptureInv' /\ SavesInv'
    BY <1>2, <2>2, CaptureStays, SavesStay DEF Inv, SavesInv, OthersTyped, bounds
  <2> QED BY <2>1, <2>3, <2>4 DEF Inv
<1> QED BY <1>1, <1>2 DEF LoginNext

\* Beside captures, saves are those of SessionSaves with nothing stuck.
LEMMA SaveStep ==
  ASSUME Inv, SaveNext
  PROVE  Inv'
<1>0. /\ stuck = 0 /\ StoreTypeOK /\ OwnRows /\ saves \in [Runs -> SaveStates]
      /\ UNCHANGED <<loginVars, captureVars, part, faults>> /\ stuck' = stuck
      /\ logins \in Nat /\ faults \in Nat /\ faults + stuck <= MaxFaults
      /\ SavesShaped /\ OwnSaves /\ SavesInv
  BY DEF SaveNext, Inv, LoginInv, SavesInv, OthersTyped, OwnSaves, loginVars
<1>a. logins' \in Nat
  BY <1>0 DEF SaveNext
<1>b. ASSUME NEW r \in Runs, NEW new \in SaveStates, saves' = [saves EXCEPT ![r] = new],
             new.next = "none" => new = Others!Away,
             new.next # "none" => new.account \in Accounts,
             new.next = "state" => new.as \in Logins /\ new.as \in {new.account, "out"},
             StoreTypeOK', OwnRows'
      PROVE  Inv'
  <2>1. saves' \in [Runs -> SaveStates] /\ saves'[r] = new /\ \A q \in Runs \ {r} : saves'[q] = saves[q]
    BY <1>0, <1>b
  <2>2. OthersTyped'
    BY <1>0, <1>a, <2>1 DEF SavesInv, OthersTyped
  <2>3. SavesShaped' /\ OwnSaves'
    BY <1>0, <1>b, <2>1 DEF SavesShaped, OwnSaves, Others!Away
  <2> QED BY <1>0, <1>b, <2>2, <2>3, LoginStays, CaptureStays DEF Inv, SavesInv
<1>c. /\ \A s \in SaveStates : s.next \in {"none", "state", "row", "login"}
      /\ Others!Away \in SaveStates /\ Others!Away.next = "none"
  BY DEF SaveStates, Others!Away
<1>1. ASSUME NEW r \in Runs, Others!Save(r)
      PROVE  Inv'
  <2>1. PICK a \in Accounts, as \in Logins :
          /\ as \in {a, "out"} /\ WriteFile(a, as)
          /\ saves' = [saves EXCEPT ![r] = [next |-> "state", account |-> a, as |-> as]]
    <3>0. ~(stuck > 0)
      BY <1>0
    <3>1. PICK a \in Accounts : \E as \in IF stuck > 0 THEN Logins ELSE {a, "out"} :
            /\ Others!WriteFile(a, as)
            /\ saves' = [saves EXCEPT ![r] = [next |-> "state", account |-> a, as |-> as]]
      BY <1>1 DEF Others!Save, Others!Logins, Logins
    <3>2. \A as \in {a, "out"} : as \in Logins
      BY DEF Logins
    <3> QED BY <3>0, <3>1, <3>2 DEF Others!WriteFile, WriteFile
  <2>2. UNCHANGED <<rows, live, recent, cookies, state>>
    BY <1>1 DEF Others!Save
  <2>3. StoreTypeOK' /\ Writes(a, as)
    BY <1>0, <2>1, <2>2, WriteFileWrites
  <2>4. OwnRows'
    BY <1>0, <2>1, <2>2, <2>3, OwnRowsKept
  <2>5. [next |-> "state", account |-> a, as |-> as] \in SaveStates
    BY <2>2 DEF SaveStates
  <2> QED BY <1>b, <2>1, <2>2, <2>3, <2>4, <2>5
<1>2. ASSUME NEW r \in Runs, Others!SaveState(r)
      PROVE  Inv'
  <2> DEFINE a == saves[r].account
             as == saves[r].as
             new == [saves[r] EXCEPT !.next = "row", !.as = "none"]
  <2>1. saves[r].next = "state" /\ saves[r] \in SaveStates
    BY <1>0, <1>2 DEF Others!SaveState
  <2>2. a \in Accounts /\ as \in Logins /\ as \in {a, "out"}
    BY <1>0, <2>1 DEF SavesShaped, OwnSaves
  <2>3. PICK saved \in BOOLEAN : SaveSessionState(a, as, saved)
    BY <1>2 DEF Others!SaveState, Others!SaveSessionState, SaveSessionState
  <2>4. StoreTypeOK' /\ Writes(a, as)
    BY <1>0, <2>2, <2>3, SaveSessionStateWrites
  <2>5. OwnRows'
    BY <1>0, <2>2, <2>4, OwnRowsKept
  <2>6. new \in SaveStates /\ new.next = "row" /\ new.account = a
    BY <2>1 DEF SaveStates
  <2>7. saves' = [saves EXCEPT ![r] = new]
    BY <1>0, <1>2 DEF Others!SaveState
  <2> QED BY <1>b, <2>2, <2>4, <2>5, <2>6, <2>7
<1>3. ASSUME NEW r \in Runs, Others!SaveRow(r)
      PROVE  Inv'
  <2> DEFINE new == [saves[r] EXCEPT !.next = "login"]
  <2>1. saves[r].next = "row" /\ saves[r] \in SaveStates /\ saves[r].account \in Accounts
    BY <1>0, <1>3 DEF Others!SaveRow, SavesShaped
  <2>2. UpdateSession(saves[r].account) \/ UNCHANGED store
    BY <1>3 DEF Others!SaveRow, Others!UpdateSession, UpdateSession, Others!store, store
  <2>3. StoreTypeOK' /\ UNCHANGED <<state, file>>
    BY <1>0, <2>1, <2>2, UpdateSessionWrites
  <2>4. OwnRows'
    BY <1>0, <2>3 DEF OwnRows
  <2>5. new \in SaveStates /\ new.next = "login" /\ new.account = saves[r].account
    BY <2>1 DEF SaveStates
  <2>6. saves' = [saves EXCEPT ![r] = new]
    BY <1>0, <1>3 DEF Others!SaveRow, Others!Goes
  <2> QED BY <1>b, <2>1, <2>3, <2>4, <2>5, <2>6
<1>4. ASSUME NEW r \in Runs, Others!SaveLogin(r)
      PROVE  Inv'
  <2>1. saves[r].next = "login" /\ saves[r] \in SaveStates /\ saves[r].account \in Accounts
    BY <1>0, <1>4 DEF Others!SaveLogin, SavesShaped
  <2>2. CreateSession(saves[r].account) \/ UNCHANGED store
    BY <1>4 DEF Others!SaveLogin, Others!CreateSession, CreateSession, Others!store, store
  <2>3. StoreTypeOK' /\ UNCHANGED <<state, file>>
    BY <1>0, <2>1, <2>2, CreateSessionWrites
  <2>4. OwnRows'
    BY <1>0, <2>3 DEF OwnRows
  <2>5. saves' = [saves EXCEPT ![r] = Others!Away]
    BY <1>4 DEF Others!SaveLogin
  <2> QED BY <1>b, <1>c, <2>3, <2>4, <2>5
<1>5. ASSUME NEW r \in Runs, Others!Abandon({r})
      PROVE  Inv'
  <2>1. saves' = [saves EXCEPT ![r] = Others!Away]
    BY <1>0, <1>5 DEF Others!Abandon
  <2>2. UNCHANGED store
    BY <1>5 DEF Others!Abandon, Others!store, store
  <2>3. StoreTypeOK' /\ OwnRows'
    BY <1>0, <2>2, RowsStay
  <2> QED BY <1>b, <1>c, <2>1, <2>3
<1> QED BY <1>1, <1>2, <1>3, <1>4, <1>5 DEF SaveNext

LEMMA InitInv == Init => Inv
<1> SUFFICES ASSUME Init PROVE Inv
  OBVIOUS
<1>1. StoreTypeOK /\ OwnRows
  BY StoreAssumption DEF Init, StoreInit, StoreTypeOK, OwnRows
<1>2. NothingBegun
  BY LoginAssumption DEF Init, LoginInit, NothingBegun
<1>3. LoginInv
  BY <1>1, <1>2, NothingAtWork DEF LoginInv
<1>4. CaptureInv
  BY DEF Init, CaptureInit, CaptureInv, CaptureTyped, CaptureShaped, OwnContexts, CapturedIsOwn,
     RestoredButOne, NoCapture, Captures, Logins
<1>5. SavesInv
  BY SessionsAssumption
  DEF Init, LoginInit, SavesInv, OthersTyped, SavesShaped, OwnSaves, Others!Away, SaveStates
<1> QED BY <1>1, <1>3, <1>4, <1>5 DEF Inv

LEMMA NextInv == Inv /\ [Next]_vars => Inv'
<1> SUFFICES ASSUME Inv, [Next]_vars PROVE Inv'
  OBVIOUS
<1>0. LoginInv /\ StoreTypeOK /\ OwnRows /\ CaptureInv /\ SavesInv
      /\ logins \in Nat /\ faults \in Nat /\ faults + stuck <= MaxFaults /\ stuck \in Nat
      /\ (part = "captures" => stuck = 0)
  BY DEF Inv, LoginInv, LoginTyped, SavesInv, OthersTyped, OwnSaves
<1>1. CASE LoginNext
  BY <1>1, LoginPartSteps
<1>2. CASE CaptureNext
  <2>1. /\ UNCHANGED <<store, loginVars, part, saves, bounds>>
        /\ stuck' = stuck /\ stuck = 0
    BY <1>0, <1>2 DEF CaptureNext, loginVars
  <2>2. CaptureInv'
    BY <1>0, <1>2, <2>1, CaptureSteps, RequestSteps DEF CaptureNext
  <2>3. StoreTypeOK' /\ OwnRows'
    BY <1>0, <2>1, RowsStay
  <2> QED BY <1>0, <2>1, <2>2, <2>3, LoginStays, SavesStay DEF Inv, bounds
<1>3. CASE SaveNext
  BY <1>3, SaveStep
<1>4. CASE Restart
  <2>1. LoginInv' /\ UNCHANGED <<store, captureVars, stuck, part, saves, logins>>
    BY <1>0, <1>4, RestartStep DEF Restart
  <2>2. faults' \in Nat /\ faults' + stuck' <= MaxFaults
    BY <1>0, <1>4, <2>1, SessionsAssumption DEF Restart
  <2> QED BY <1>0, <2>1, <2>2, RowsStay, CaptureStays, SavesStay DEF Inv
<1>5. CASE Fault
  <2>1. UNCHANGED <<loginVars, captureVars, part, saves, logins>> /\ stuck' = stuck
    BY <1>5 DEF Fault, loginVars
  <2>2. faults' \in Nat /\ faults' + stuck' <= MaxFaults
    BY <1>0, <1>5, <2>1, SessionsAssumption DEF Fault
  <2>3. StoreTypeOK' /\ OwnRows'
    BY <1>0, <1>5, <2>1, LosesWrites DEF Fault
  <2> QED BY <1>0, <2>1, <2>2, <2>3, LoginStays, CaptureStays, SavesStay DEF Inv
<1>6. CASE UNCHANGED vars
  <2>1. /\ UNCHANGED <<store, loginVars, captureVars, part, saves, logins, faults>>
        /\ stuck' = stuck
    BY <1>6 DEF vars, loginVars
  <2> QED BY <1>0, <2>1, RowsStay, LoginStays, CaptureStays, SavesStay DEF Inv
<1> QED BY <1>1, <1>2, <1>3, <1>4, <1>5, <1>6 DEF Next

LEMMA SessionsInv == Spec => []Inv
  BY InitInv, NextInv, PTL DEF Spec

-----------------------------------------------------------------------------
(* The invariants of the runs.                                              *)

(* The rows, files, runs, pages and the capture stay within their types:   *)
(* at most MaxFaults runs are taken for stuck, and no retry goes past the   *)
(* attempts its loop allows.                                                *)
THEOREM SessionsTypeCorrect == Spec => []SessionsTypeOK
<1>1. Inv => SessionsTypeOK
  <2> SUFFICES ASSUME Inv PROVE SessionsTypeOK
    OBVIOUS
  <2>1. StoreTypeOK /\ LoginTyped /\ CaptureTyped /\ OthersTyped /\ RunsShaped
    BY DEF Inv, LoginInv, CaptureInv, SavesInv
  <2>2. CaptureTypeOK
    BY <2>1 DEF CaptureTyped, CaptureTypeOK, Captures
  <2>3. stuck \in 0..MaxFaults
    BY <2>1, SessionsAssumption DEF LoginTyped, OthersTyped
  <2>4. ASSUME NEW r \in Runs
        PROVE  /\ run[r].todo \subseteq Accounts /\ run[r].account \in Accounts \cup {"none"}
               /\ run[r].held \in Runs \cup {"none"}
               /\ run[r].tries \in 0..MaxAttempts \cup 0..(MaxRetries - 1)
               /\ run[r].at = "mail" => run[r].tries < MaxRetries
               /\ page[r].at \in {"closed", "blank", "home", "modal", "form", "filled",
                                  "captcha", "code", "in", "refused"}
               /\ page[r].as \in Accounts \cup {"nobody"}
    <3>1. run[r] \in RunStates /\ page[r] \in Pages
      BY <2>1 DEF LoginTyped
    <3> QED BY <2>1, <3>1 DEF RunStates, Pages, Tries, RunsShaped, HasMailbox
  <2> QED BY <2>1, <2>2, <2>3, <2>4 DEF SessionsTypeOK, LoginTyped
<1> QED BY <1>1, SessionsInv, PTL

(* No code is entered twice, for any accounts, runs and messages: a message *)
(* is recorded as used when its code is taken, and no two runs hold the     *)
(* code of one message.                                                     *)
THEOREM EveryCodeOnce == Spec => []CodesOnce
<1>1. Inv => CodesOnce
  BY DEF Inv, LoginInv, CodesTaken, CodesOnce
<1> QED BY <1>1, SessionsInv, PTL

(* A configuration is captured with its session's login or none: a context  *)
(* holds the state of its own session, so a request that is saved late has  *)
(* been sent by the session it names.                                       *)
THEOREM CapturesOwnLogin == Spec => []CapturedIsOwn
<1>1. Inv => CapturedIsOwn
  BY DEF Inv, CaptureInv, OwnContexts
<1> QED BY <1>1, SessionsInv, PTL

(* Between two sessions, only contexts of successful sessions are left in   *)
(* the pool: every failing step closes the context of the session at hand.  *)
THEOREM OnlyRestoredLeft == Spec => []LeftIsRestored
<1>1. Inv => LeftIsRestored
  BY DEF Inv, CaptureInv, RestoredButOne, LeftIsRestored, Doing
<1> QED BY <1>1, SessionsInv, PTL

-----------------------------------------------------------------------------
(* Logins implement SessionSaves. What a run is about to save follows from  *)
(* where it stands.                                                         *)

ToSave(r, next) == [next |-> next, account |-> run[r].account,
                        as |-> IF next = "state" THEN run[r].as ELSE "none"]

SavesLogin(r) == run[r].at = "record" \/ (run[r].at = "close" /\ run[r].ok)

SavesNothing(r) == run[r].at \notin {"store", "update"} /\ ~SavesLogin(r)

SavesRead ==
  /\ Saves = [r \in Runs |-> Saves[r]]
  /\ \A r \in Runs :
       /\ run[r].at = "store" => Saves[r] = ToSave(r, "state")
       /\ run[r].at = "update" => Saves[r] = ToSave(r, "row")
       /\ SavesLogin(r) => Saves[r] = ToSave(r, "login")
       /\ SavesNothing(r) => Saves[r] = Saving!Away

LEMMA SavesAreRead == SavesRead
  BY DEF SavesRead, Saves, ToSave, SavesLogin, SavesNothing, At, Saving!Away

LEMMA OtherSaves ==
  ASSUME NEW q \in Runs, run'[q].at = run[q].at, run'[q].account = run[q].account,
         run'[q].ok = run[q].ok, run'[q].as = run[q].as
  PROVE  Saves'[q] = Saves[q]
  BY DEF Saves, At

\* A step of run r by which it saves nothing, or nothing any more.
Quiet(r) == (\A q \in Runs \ {r} : Untouched(q)) /\ SavesNothing(r)'

LEMMA QuietAbandons ==
  ASSUME part = "logins", part' = part, NEW r \in Runs, Quiet(r), UNCHANGED <<store, stuck>>
  PROVE  Saving!Abandon({r})
<1>1. SavesRead'
  BY SavesAreRead, PTL
<1>2. /\ \A q \in Runs \ {r} : Saves'[q] = Saves[q]
      /\ Saves'[r] = Saving!Away /\ Saves' = [q \in Runs |-> Saves'[q]]
  BY <1>1, OtherSaves DEF Quiet, Untouched, SavesRead, Saving!Away
<1>3. Saves' = [q \in Runs |-> IF q \in {r} THEN Saving!Away ELSE Saves[q]]
  BY <1>2
<1> QED BY <1>3 DEF Saving!Abandon, Saving!store, store

LEMMA ChangeIsQuiet ==
  ASSUME run \in [Runs -> RunStates], NEW r \in Runs, NEW new,
         run' = [run EXCEPT ![r] = new],
         new.at \notin {"store", "update", "record"}, new.at = "close" => new.ok = FALSE
  PROVE  Quiet(r)
  BY DEF Quiet, SavesNothing, SavesLogin, Untouched

LEMMA OperatorsAreQuiet ==
  ASSUME run \in [Runs -> RunStates], NEW r \in Runs,
         \/ Advance(r) /\ run[r].at \in LoginSteps \cup {"initialization", "navigation", "restore"}
         \/ Fails(r) \/ Waits(r, "solve") \/ Waits(r, "mail") \/ WaitIsOver(r, "code")
         \/ RetryMail(r)
  PROVE  Quiet(r)
<1>0. run[r] \in RunStates
  OBVIOUS
<1>1. CASE Advance(r) /\ run[r].at \in LoginSteps \cup {"initialization", "navigation", "restore"}
  <2>1. Following[run[r].at] \notin {"store", "update", "record", "close"}
    BY <1>1 DEF Following, LoginSteps
  <2> QED BY <1>0, <1>1, <2>1 DEF Advance, Go, RunStates, Quiet, SavesNothing, SavesLogin, Untouched
<1>2. CASE Fails(r)
  BY <1>0, <1>2 DEF Fails, RunStates, Quiet, SavesNothing, SavesLogin, Untouched
<1>3. CASE Waits(r, "solve") \/ Waits(r, "mail")
  <2>1. PICK place \in {"solve", "mail"} : Waits(r, place)
    BY <1>3
  <2>2. PICK new : /\ run' = [run EXCEPT ![r] = new]
                   /\ new = [run[r] EXCEPT !.at = place, !.held = shared, !.tries = 0]
    BY <2>1 DEF Waits
  <2>3. new.at = place
    BY <1>0, <2>2 DEF RunStates
  <2> QED BY <2>1, <2>2, <2>3, ChangeIsQuiet
<1>4. CASE WaitIsOver(r, "code")
  <2>1. PICK new : /\ run' = [run EXCEPT ![r] = new]
                   /\ new = [run[r] EXCEPT !.at = "code", !.held = "none", !.tries = 0]
    BY <1>4 DEF WaitIsOver
  <2>2. new.at = "code"
    BY <1>0, <2>1 DEF RunStates
  <2> QED BY <2>1, <2>2, ChangeIsQuiet
<1>5. CASE RetryMail(r) /\ ~Fails(r)
  <2>1. PICK new : /\ run' = [run EXCEPT ![r] = new]
                   /\ new = [run[r] EXCEPT !.at = "mail", !.tries = @ + 1, !.taken = NoMessage]
    BY <1>5 DEF RetryMail
  <2>2. new.at = "mail"
    BY <1>0, <2>1 DEF RunStates
  <2> QED BY <2>1, <2>2, ChangeIsQuiet
<1> QED BY <1>1, <1>2, <1>3, <1>4, <1>5

LEMMA QuietActions ==
  ASSUME LoginInv, NEW r \in Runs,
         \/ RunStep(r) /\ ~SaveSession(r) /\ ~StoreState(r) /\ ~SaveSessionToDatabase(r)
                       /\ ~CloseTab(r) /\ ~RecordLogin(r)
         \/ \E a \in Accounts : NextAccount(r, a)
  PROVE  Quiet(r) /\ UNCHANGED <<store, stuck>>
<1>0. run \in [Runs -> RunStates] /\ run[r] \in RunStates
  BY DEF LoginInv, LoginTyped
<1>1. CASE \/ Initialization(r) \/ SkipStep(r) \/ CookieConsent(r) \/ Navigation(r)
           \/ SessionRestore(r) \/ LoginButton(r) \/ SelectPhoneEmailLogin(r)
           \/ FillLoginForm(r) \/ SubmitLoginForm(r)
  <2>1. Advance(r) /\ UNCHANGED <<store, stuck>>
    BY <1>1 DEF Initialization, SkipStep, CookieConsent, Navigation, SessionRestore, LoginButton,
       SelectPhoneEmailLogin, FillLoginForm, SubmitLoginForm
  <2>2. run[r].at \in LoginSteps \cup {"initialization", "navigation", "restore"}
    BY <1>1 DEF Initialization, SkipStep, CookieConsent, Navigation, SessionRestore, LoginButton,
       SelectPhoneEmailLogin, FillLoginForm, SubmitLoginForm, Executes, At, LoginSteps
  <2> QED BY <1>0, <2>1, <2>2, OperatorsAreQuiet
<1>2. CASE StepFails(r) \/ CaptchaTimesOut(r) \/ CodeNotEntered(r) \/ MailTimesOut(r)
  <2>1. (Fails(r) \/ RetryMail(r)) /\ UNCHANGED <<store, stuck>>
    BY <1>2 DEF StepFails, CaptchaTimesOut, CodeNotEntered, MailTimesOut
  <2> QED BY <1>0, <2>1, OperatorsAreQuiet
<1>3. CASE CaptchaVerification(r) \/ EmailVerification(r)
  <2>1. /\ Advance(r) \/ Waits(r, "solve") \/ Waits(r, "mail")
        /\ UNCHANGED <<store, stuck>>
    BY <1>3 DEF CaptchaVerification, EmailVerification
  <2>2. run[r].at \in LoginSteps
    BY <1>3 DEF CaptchaVerification, EmailVerification, Executes, At, LoginSteps
  <2> QED BY <1>0, <2>1, <2>2, OperatorsAreQuiet
<1>4. CASE SolveByApi(r)
  BY <1>0, <1>4, OperatorsAreQuiet DEF SolveByApi
<1>5. CASE PollCaptcha(r)
  <2>1. CASE run' = [run EXCEPT ![r].tries = @ + 1]
    <3>1. PICK new : run' = [run EXCEPT ![r] = new] /\ new = [run[r] EXCEPT !.tries = @ + 1]
      BY <2>1
    <3>2. new.at = "solve"
      BY <1>0, <1>5, <3>1 DEF PollCaptcha, At, RunStates
    <3> QED BY <1>0, <1>5, <3>1, <3>2, ChangeIsQuiet DEF PollCaptcha
  <2> QED BY <1>0, <1>5, <2>1, OperatorsAreQuiet DEF PollCaptcha
<1>6. CASE PollMail(r)
  <2>1. PICK new : /\ run' = [run EXCEPT ![r] = new]
                   /\ new = [run[r] EXCEPT !.at = "enter", !.taken = <<imap, mail[imap]>>]
    BY <1>6 DEF PollMail
  <2>2. new.at = "enter"
    BY <1>0, <2>1 DEF RunStates
  <2> QED BY <1>0, <1>6, <2>1, <2>2, ChangeIsQuiet DEF PollMail
<1>7. CASE EnterCode(r)
  <2>1. CASE run' = [run EXCEPT ![r] = [@ EXCEPT !.at = "save", !.held = "none", !.tries = 0,
                                                 !.taken = NoMessage]]
    <3>1. PICK new : /\ run' = [run EXCEPT ![r] = new]
                     /\ new = [run[r] EXCEPT !.at = "save", !.held = "none", !.tries = 0,
                                             !.taken = NoMessage]
      BY <2>1
    <3>2. new.at = "save"
      BY <1>0, <3>1 DEF RunStates
    <3> QED BY <1>0, <1>7, <3>1, <3>2, ChangeIsQuiet DEF EnterCode
  <2> QED BY <1>0, <1>7, <2>1, OperatorsAreQuiet DEF EnterCode
<1>8. CASE SelectAccounts(r) \/ \E a \in Accounts : NoTab(r, a) \/ NextAccount(r, a)
  <2>1. PICK new : run' = [run EXCEPT ![r] = new] /\ new.at \in {"next", "initialization"}
    <3>1. CASE SelectAccounts(r)
      <4>1. PICK todo : run' = [run EXCEPT ![r].at = "next", ![r].todo = todo]
        BY <3>1 DEF SelectAccounts
      <4>2. [run[r] EXCEPT !.at = "next", !.todo = todo].at = "next"
        BY <1>0 DEF RunStates
      <4> QED BY <4>1, <4>2
    <3>2. ASSUME NEW a \in Accounts, NoTab(r, a)
          PROVE  \E new : run' = [run EXCEPT ![r] = new] /\ new.at = "next"
      <4>1. [run[r] EXCEPT !.todo = @ \ {a}].at = "next"
        BY <1>0, <3>2 DEF NoTab, At, RunStates
      <4> QED BY <3>2, <4>1 DEF NoTab
    <3>3. ASSUME NEW a \in Accounts, NextAccount(r, a)
          PROVE  \E new : run' = [run EXCEPT ![r] = new] /\ new.at = "initialization"
      <4>1. [run[r] EXCEPT !.todo = @ \ {a}, !.at = "initialization", !.account = a].at = "initialization"
        BY <1>0 DEF RunStates
      <4>2. run' = [run EXCEPT ![r] = [run[r] EXCEPT !.todo = @ \ {a}, !.at = "initialization",
                                                     !.account = a]]
        BY <3>3 DEF NextAccount
      <4> QED BY <4>1, <4>2
    <3> QED BY <1>8, <3>1, <3>2, <3>3
  <2>2. UNCHANGED <<store, stuck>>
    BY <1>8 DEF SelectAccounts, NoTab, NextAccount
  <2> QED BY <1>0, <2>1, <2>2, ChangeIsQuiet
<1>9. CASE EndRun(r)
  BY <1>0, <1>9, ChangeIsQuiet, NewRunIsRun DEF EndRun
<1> QED BY <1>1, <1>2, <1>3, <1>4, <1>5, <1>6, <1>7, <1>8, <1>9 DEF RunStep

\* The run that saves has nobody beside it, and saves what is its own.
LEMMA SaveSessionSaves ==
  ASSUME LoginInv, part = "logins", part' = part, NEW r \in Runs, SaveSession(r)
  PROVE  Saving!SavesNext
<1>1. /\ run \in [Runs -> RunStates] /\ run[r].at = "save" /\ run[r].account \in Accounts
      /\ stuck \in Nat /\ stuck' = stuck
  BY DEF SaveSession, At, LoginInv, LoginTyped, RunsShaped, HasAccount, Outside
<1>2. CASE Fails(r) /\ UNCHANGED file
  <2>1. Quiet(r)
    BY <1>1, <1>2, OperatorsAreQuiet
  <2>2. UNCHANGED store
    BY <1>2 DEF SaveSession, store
  <2>3. Saving!Abandon({r})
    BY <1>1, <2>1, <2>2, QuietAbandons
  <2> QED BY <2>3 DEF Saving!SavesNext
<1>3. CASE /\ Shown(shared) # "closed"
           /\ WriteFile(run[r].account, StateTaken(shared))
           /\ run' = [run EXCEPT ![r].at = "store", ![r].as = StateTaken(shared)]
  <2> DEFINE st == StateTaken(shared)
             a == run[r].account
  <2>1. st \in Logins /\ (stuck = 0 => st \in {a, "out"})
    BY <1>1, <1>3, StateTakenIsOwn
  <2>2. /\ run'[r].at = "store" /\ run'[r].account = a /\ run'[r].as = st
        /\ \A q \in Runs \ {r} : run'[q] = run[q]
    <3> HIDE DEF st
    <3>1. run[r] \in RunStates
      BY <1>1
    <3>2. run' = [run EXCEPT ![r] = [run[r] EXCEPT !.at = "store", !.as = st]]
      BY <1>1, <1>3 DEF st
    <3> QED BY <1>1, <3>1, <3>2 DEF RunStates
  <2>3. SavesRead /\ SavesRead'
    BY SavesAreRead, PTL
  <2>4. /\ Saves' = [Saves EXCEPT ![r] = [next |-> "state", account |-> a, as |-> st]]
        /\ Saves[r] = Saving!Away
    <3>1. Saves'[r] = [next |-> "state", account |-> a, as |-> st]
      BY <2>2, <2>3 DEF SavesRead, ToSave
    <3>2. \A q \in Runs \ {r} : Saves'[q] = Saves[q]
      BY <2>2, OtherSaves
    <3>3. Saves[r] = Saving!Away
      BY <1>1, <2>3 DEF SavesRead, SavesNothing, SavesLogin
    <3> HIDE DEF st, a
    <3> QED BY <2>3, <3>1, <3>2, <3>3 DEF SavesRead
  <2>5. stuck > 0 \/ \A q \in Runs : Saves[q] = Saving!Away
    <3>1. SUFFICES ASSUME stuck = 0, NEW q \in Runs
                   PROVE  Saves[q] = Saving!Away
      BY <1>1
    <3>2. q = r \/ run[q].at = "idle"
      BY <1>1, <3>1 DEF LoginInv, OneAtWork
    <3> QED BY <2>3, <2>4, <3>2 DEF SavesRead, SavesNothing, SavesLogin
  <2>6. st \in IF stuck > 0 THEN Logins ELSE {a, "out"}
    BY <1>1, <2>1
  <2>7. WriteFile(a, st) /\ UNCHANGED <<rows, live, recent, cookies, state, stuck>>
    BY <1>3 DEF SaveSession
  <2> HIDE DEF st, a
  <2>8. a \in Accounts
    BY <1>1 DEF a
  <2>9. Saving!Save(r)
    BY <2>4, <2>5, <2>6, <2>7, <2>8 DEF Saving!Save, Saving!WriteFile, WriteFile, Saving!Logins, Logins
  <2> QED BY <2>9 DEF Saving!SavesNext, Saving!SavesStep
<1> QED BY <1>2, <1>3 DEF SaveSession

LEMMA RowComesNext ==
  ASSUME NEW account \in Accounts, NEW new \in [next : {"state"}, account : Accounts, as : Logins],
         new.account = account
  PROVE  [new EXCEPT !.next = "row", !.as = "none"]
           = [next |-> "row", account |-> account, as |-> "none"]
<1>1. PICK row \in [next : {"row"}, account : Accounts, as : Logins] : row = [new EXCEPT !.next = "row"]
  OBVIOUS
<1>2. row.account = account
  BY <1>1
<1>3. [row EXCEPT !.as = "none"] = [next |-> "row", account |-> account, as |-> "none"]
  BY <1>2
<1> QED BY <1>1, <1>3

LEMMA StoreStateSaves ==
  ASSUME LoginInv, part = "logins", part' = part, NEW r \in Runs, StoreState(r)
  PROVE  Saving!SavesNext
<1>1. run \in [Runs -> RunStates] /\ run[r] \in RunStates /\ run[r].at = "store" /\ stuck' = stuck
  BY DEF StoreState, At, LoginInv, LoginTyped
<1>2. CASE Fails(r) /\ UNCHANGED store
  <2>1. Saving!Abandon({r})
    BY <1>1, <1>2, OperatorsAreQuiet, QuietAbandons
  <2> QED BY <2>1 DEF Saving!SavesNext
<1>3. CASE /\ \E saved \in BOOLEAN : SaveSessionState(run[r].account, run[r].as, saved)
           /\ run' = [run EXCEPT ![r].at = "update", ![r].as = "none"]
  <2>1. /\ run'[r].at = "update" /\ run'[r].account = run[r].account
        /\ \A q \in Runs \ {r} : run'[q] = run[q]
    <3>1. run' = [run EXCEPT ![r] = [run[r] EXCEPT !.at = "update", !.as = "none"]]
      BY <1>1, <1>3
    <3> QED BY <1>1, <3>1 DEF RunStates
  <2>2. SavesRead /\ SavesRead'
    BY SavesAreRead, PTL
  <2>3. Saves[r] = ToSave(r, "state") /\ Saves'[r] = ToSave(r, "row")'
    BY <1>1, <2>1, <2>2 DEF SavesRead
  <2>4. \A q \in Runs \ {r} : Saves'[q] = Saves[q]
    BY <2>1, OtherSaves
  <2>5. Saves' = [Saves EXCEPT ![r].next = "row", ![r].as = "none"]
    <3>1. Saves = [q \in Runs |-> Saves[q]] /\ Saves' = [q \in Runs |-> Saves'[q]]
      BY <2>2 DEF SavesRead
    <3>2. Saves[r] \in [next : {"state"}, account : Accounts, as : Logins]
      BY <1>1, <2>3 DEF ToSave, LoginInv, RunsShaped, HasAccount, HasLogin, Outside
    <3>3. /\ Saves[r].account = run[r].account
          /\ Saves'[r] = [next |-> "row", account |-> run[r].account, as |-> "none"]
      BY <2>1, <2>3 DEF ToSave
    <3>4. Saves'[r] = [Saves[r] EXCEPT !.next = "row", !.as = "none"]
      BY <3>2, <3>3, RowComesNext
    <3> QED BY <2>4, <3>1, <3>4
  <2>6. Saves[r].next = "state" /\ Saves[r].account = run[r].account /\ Saves[r].as = run[r].as
    BY <2>3 DEF ToSave
  <2>7. Saving!SaveState(r)
    BY <1>1, <1>3, <2>5, <2>6 DEF Saving!SaveState, Saving!SaveSessionState, SaveSessionState
  <2> QED BY <2>7 DEF Saving!SavesNext, Saving!SavesStep
<1> QED BY <1>2, <1>3 DEF StoreState

LEMMA SaveSessionToDatabaseSaves ==
  ASSUME LoginInv, part = "logins", part' = part, NEW r \in Runs, SaveSessionToDatabase(r)
  PROVE  Saving!SavesNext
<1>1. run \in [Runs -> RunStates] /\ run[r] \in RunStates /\ run[r].at = "update" /\ stuck' = stuck
  BY DEF SaveSessionToDatabase, At, LoginInv, LoginTyped
<1>2. /\ run'[r].at = "close" /\ run'[r].ok = TRUE /\ run'[r].account = run[r].account
      /\ \A q \in Runs \ {r} : run'[q] = run[q]
  <2>1. run' = [run EXCEPT ![r] = [run[r] EXCEPT !.at = "close", !.ok = TRUE]]
    BY <1>1 DEF SaveSessionToDatabase
  <2> QED BY <1>1, <2>1 DEF RunStates
<1>3. SavesRead /\ SavesRead'
  BY SavesAreRead, PTL
<1>4. Saves[r] = ToSave(r, "row") /\ Saves'[r] = ToSave(r, "login")'
  BY <1>1, <1>2, <1>3 DEF SavesRead, SavesLogin
<1>5. \A q \in Runs \ {r} : Saves'[q] = Saves[q]
  BY <1>2, OtherSaves
<1>6. Saves' = [Saves EXCEPT ![r].next = "login"]
  BY <1>2, <1>3, <1>4, <1>5 DEF SavesRead, ToSave
<1>7. Saves[r].next = "row" /\ Saves[r].account = run[r].account
  BY <1>4 DEF ToSave
<1>8. UpdateSession(run[r].account) \/ UNCHANGED store
  BY DEF SaveSessionToDatabase
<1>9. Saving!SaveRow(r)
  BY <1>1, <1>6, <1>7, <1>8
  DEF Saving!SaveRow, Saving!Goes, Saving!UpdateSession, UpdateSession, Saving!store, store
<1> QED BY <1>9 DEF Saving!SavesNext, Saving!SavesStep

LEMMA CloseTabSaves ==
  ASSUME LoginInv, part = "logins", part' = part, NEW r \in Runs, CloseTab(r)
  PROVE  Saving!SavesNext \/ UNCHANGED Saving!savesVars
<1> DEFINE after == IF run[r].ok THEN [run[r] EXCEPT !.at = "record", !.ok = FALSE]
                    ELSE [run[r] EXCEPT !.at = "next", !.account = "none"]
<1>1. run[r].at = "close" /\ \A q \in Runs : run[q] \in RunStates
  BY DEF CloseTab, At, LoginInv, LoginTyped
<1>2. ASSUME NEW q \in Runs \ {r}
      PROVE  Untouched(q)
  <2>1. run'[q] = [run[q] EXCEPT !.held = IF @ = r THEN "none" ELSE @]
    BY DEF CloseTab
  <2> QED BY <1>1, <2>1 DEF RunStates, Untouched
<1>3. run'[r] = after /\ UNCHANGED <<store, stuck>>
  BY DEF CloseTab
<1>4. CASE run[r].ok
  <2>1. run'[r].at = "record" /\ run'[r].account = run[r].account
    BY <1>1, <1>3, <1>4 DEF RunStates
  <2>2. SavesRead /\ SavesRead'
    BY SavesAreRead, PTL
  <2>3. Saves'[r] = Saves[r]
    BY <1>1, <1>4, <2>1, <2>2 DEF SavesRead, SavesLogin, ToSave
  <2>4. \A q \in Runs \ {r} : Saves'[q] = Saves[q]
    BY <1>2, OtherSaves DEF Untouched
  <2>5. Saves' = Saves
    BY <2>2, <2>3, <2>4 DEF SavesRead
  <2> QED BY <1>3, <2>5 DEF Saving!savesVars, Saving!store, store
<1>5. CASE ~run[r].ok
  <2>1. run'[r].at = "next"
    BY <1>1, <1>3, <1>5 DEF RunStates
  <2>2. Quiet(r)
    BY <1>2, <2>1 DEF Quiet, SavesNothing, SavesLogin
  <2>3. Saving!Abandon({r})
    BY <1>3, <2>2, QuietAbandons
  <2> QED BY <2>3 DEF Saving!SavesNext
<1> QED BY <1>4, <1>5

LEMMA RecordLoginSaves ==
  ASSUME LoginInv, part = "logins", part' = part, NEW r \in Runs, RecordLogin(r)
  PROVE  Saving!SavesNext
<1>1. run \in [Runs -> RunStates] /\ run[r] \in RunStates /\ run[r].at = "record" /\ stuck' = stuck
  BY DEF RecordLogin, At, LoginInv, LoginTyped
<1>2. run'[r].at = "next" /\ \A q \in Runs \ {r} : run'[q] = run[q]
  <2>1. run' = [run EXCEPT ![r] = [run[r] EXCEPT !.at = "next", !.account = "none"]]
    BY <1>1 DEF RecordLogin
  <2> QED BY <1>1, <2>1 DEF RunStates
<1>3. SavesRead /\ SavesRead'
  BY SavesAreRead, PTL
<1>4. Saves[r] = ToSave(r, "login") /\ Saves'[r] = Saving!Away
  BY <1>1, <1>2, <1>3 DEF SavesRead, SavesLogin, SavesNothing, Saving!Away
<1>5. \A q \in Runs \ {r} : Saves'[q] = Saves[q]
  BY <1>2, OtherSaves
<1>6. Saves' = [Saves EXCEPT ![r] = Saving!Away]
  BY <1>3, <1>4, <1>5 DEF SavesRead
<1>7. Saves[r].next = "login" /\ Saves[r].account = run[r].account
  BY <1>4 DEF ToSave
<1>8. CreateSession(run[r].account) \/ UNCHANGED store
  BY DEF RecordLogin
<1>9. Saving!SaveLogin(r)
  BY <1>1, <1>6, <1>7, <1>8
  DEF Saving!SaveLogin, Saving!CreateSession, CreateSession, Saving!store, store
<1> QED BY <1>9 DEF Saving!SavesNext, Saving!SavesStep

LEMMA RunSaves ==
  ASSUME LoginInv, part = "logins", part' = part, NEW r \in Runs,
         RunStep(r) \/ \E a \in Accounts : NextAccount(r, a)
  PROVE  Saving!SavesNext \/ UNCHANGED Saving!savesVars
<1>1. CASE SaveSession(r) \/ StoreState(r) \/ SaveSessionToDatabase(r) \/ RecordLogin(r)
  BY <1>1, SaveSessionSaves, StoreStateSaves, SaveSessionToDatabaseSaves, RecordLoginSaves
<1>2. CASE CloseTab(r)
  BY <1>2, CloseTabSaves
<1>3. CASE \/ RunStep(r) /\ ~SaveSession(r) /\ ~StoreState(r) /\ ~SaveSessionToDatabase(r)
                         /\ ~CloseTab(r) /\ ~RecordLogin(r)
           \/ \E a \in Accounts : NextAccount(r, a)
  <2>1. Saving!Abandon({r})
    BY <1>3, QuietActions, QuietAbandons
  <2> QED BY <2>1 DEF Saving!SavesNext
<1> QED BY <1>1, <1>2, <1>3

\* A run that is begun for one taken for stuck is an overlap.
LEMMA CheckAndRefreshSaves ==
  ASSUME LoginInv, part = "logins", part' = part, NEW r \in Runs, CheckAndRefresh(r)
  PROVE  Saving!SavesNext
<1>1. run \in [Runs -> RunStates] /\ run[r].at = "idle" /\ UNCHANGED store
  BY DEF CheckAndRefresh, At, LoginInv, LoginTyped
<1>2. run'[r].at = "select" /\ \A q \in Runs \ {r} : run'[q] = run[q]
  BY <1>1 DEF CheckAndRefresh, Go, RunStates
<1>3. CASE UNCHANGED stuck
  <2>1. Quiet(r)
    BY <1>2 DEF Quiet, Untouched, SavesNothing, SavesLogin
  <2>2. Saving!Abandon({r})
    BY <1>1, <1>3, <2>1, QuietAbandons
  <2> QED BY <2>2 DEF Saving!SavesNext
<1>4. CASE stuck' = stuck + 1
  <2>1. SavesRead /\ SavesRead'
    BY SavesAreRead, PTL
  <2>2. Saves'[r] = Saves[r]
    BY <1>1, <1>2, <2>1 DEF SavesRead, SavesNothing, SavesLogin, Saving!Away
  <2>3. \A q \in Runs \ {r} : Saves'[q] = Saves[q]
    BY <1>2, OtherSaves
  <2>4. Saves' = Saves
    BY <2>1, <2>2, <2>3 DEF SavesRead
  <2> QED BY <1>1, <1>4, <2>4 DEF Saving!SavesNext, Saving!Overlap, Saving!store, store
<1> QED BY <1>3, <1>4 DEF CheckAndRefresh

LEMMA SameSaves ==
  ASSUME UNCHANGED run
  PROVE  Saves' = Saves
  BY DEF Saves, At

LEMMA LoginsAtStart == run \in StartUps => Saves = [r \in Runs |-> Saving!Away]
<1> SUFFICES ASSUME run \in StartUps PROVE Saves = [r \in Runs |-> Saving!Away]
  OBVIOUS
<1>1. \A r \in Runs : SavesNothing(r)
  BY StartUpsAlone DEF SavesNothing, SavesLogin
<1> QED BY <1>1, SavesAreRead DEF SavesRead

LEMMA RestartAbandons ==
  ASSUME Restart
  PROVE  Saving!SavesNext
<1>1. run' \in StartUps /\ part = "logins" /\ UNCHANGED <<store, stuck, part>>
  BY DEF Restart
<1>2. (run \in StartUps)' => (Saves = [r \in Runs |-> Saving!Away])'
  BY LoginsAtStart, PTL
<1>3. Saves' = [r \in Runs |-> Saving!Away]
  BY <1>1, <1>2 DEF Saving!Away
<1>4. Saving!Abandon(Runs)
  BY <1>1, <1>3 DEF Saving!Abandon, Saving!store, store
<1> QED BY <1>4 DEF Saving!SavesNext

LEMMA FaultSaves ==
  ASSUME Fault
  PROVE  Saving!SavesNext
<1>1. UNCHANGED <<run, stuck, part, saves>>
  BY DEF Fault, loginVars
<1>2. Saves' = Saves
  BY <1>1, SameSaves
<1>3. CASE \E s \in SessionIds : Lapse(s)
  BY <1>1, <1>2, <1>3 DEF Saving!SavesNext, Saving!SessionIds, SessionIds, Saving!Lapse, Lapse
<1>4. CASE \E a \in Accounts : LoseFile(a)
  BY <1>1, <1>2, <1>4
  DEF Saving!SavesNext, Saving!LoseFile, LoseFile, Saving!WriteFile, WriteFile
<1> QED BY <1>3, <1>4 DEF Fault

\* Beside captures, the saves are those of SessionSaves as they stand.
LEMMA SaveNextSaves ==
  ASSUME SaveNext
  PROVE  Saving!SavesNext
<1>1. part = "captures" /\ part' = part
  BY DEF SaveNext
<1>2. ASSUME NEW r \in Runs, Others!SavesStep(r)
      PROVE  Saving!SavesStep(r)
  BY <1>1, <1>2
  DEF Others!SavesStep, Saving!SavesStep, Others!Save, Saving!Save, Others!SaveState,
      Saving!SaveState, Others!SaveRow, Saving!SaveRow, Others!SaveLogin, Saving!SaveLogin,
      Others!Away, Saving!Away, Others!Logins, Saving!Logins, Others!WriteFile, Saving!WriteFile,
      Others!SaveSessionState, Saving!SaveSessionState, Others!UpdateSession, Saving!UpdateSession,
      Others!CreateSession, Saving!CreateSession, Others!Goes, Saving!Goes, Others!store, Saving!store
<1>3. ASSUME NEW r \in Runs, Others!Abandon({r})
      PROVE  Saving!Abandon({r})
  BY <1>1, <1>3 DEF Others!Abandon, Saving!Abandon, Others!Away, Saving!Away, Others!store, Saving!store
<1>4. \/ \E r \in Runs : Others!SavesStep(r)
      \/ \E r \in Runs : Others!Abandon({r})
  BY DEF SaveNext, Others!SavesStep
<1> QED BY <1>2, <1>3, <1>4 DEF Saving!SavesNext

LEMMA SavesStep ==
  ASSUME Inv, [Next]_vars
  PROVE  [Saving!SavesNext]_(Saving!savesVars)
<1>0. LoginInv
  BY DEF Inv
<1>1. CASE LoginNext
  <2>1. part = "logins" /\ part' = part
    BY <1>1 DEF LoginNext, WorkOn
  <2>2. ASSUME NEW r \in Runs, WorkOn(r)
        PROVE  Saving!SavesNext \/ UNCHANGED Saving!savesVars
    <3>1. RunStep(r) \/ \E a \in Accounts : NextAccount(r, a)
      BY <2>2 DEF WorkOn
    <3> QED BY <1>0, <2>1, <3>1, RunSaves
  <2>3. ASSUME NEW r \in Runs, SolveByHand(r) \/ SendCode(r)
        PROVE  UNCHANGED Saving!savesVars
    <3>1. UNCHANGED <<run, store, stuck>>
      BY <2>3 DEF SolveByHand, SendCode
    <3>2. Saves' = Saves
      BY <3>1, SameSaves
    <3> QED BY <2>1, <3>1, <3>2 DEF Saving!savesVars, Saving!store, store
  <2>4. ASSUME NEW r \in Runs, CheckAndRefresh(r)
        PROVE  Saving!SavesNext
    BY <1>0, <2>1, <2>4, CheckAndRefreshSaves
  <2> QED BY <1>1, <2>2, <2>3, <2>4 DEF LoginNext
<1>2. CASE CaptureNext
  BY <1>2 DEF CaptureNext, loginVars, Saving!savesVars, Saving!store, store
<1>3. CASE SaveNext \/ Restart \/ Fault
  BY <1>3, SaveNextSaves, RestartAbandons, FaultSaves
<1>4. CASE UNCHANGED vars
  <2>1. UNCHANGED <<store, run, stuck, part, saves>>
    BY <1>4 DEF vars, loginVars
  <2>2. Saves' = Saves
    BY <2>1, SameSaves
  <2> QED BY <2>1, <2>2 DEF Saving!savesVars, Saving!store, store
<1> QED BY <1>1, <1>2, <1>3, <1>4 DEF Next

LEMMA SavesAtStart == Init => Saving!SavesInit
<1> SUFFICES ASSUME Init PROVE Saving!SavesInit
  OBVIOUS
<1>1. Saves = [r \in Runs |-> Saving!Away] /\ stuck = 0 /\ StoreInit
  BY LoginsAtStart DEF Init, LoginInit
<1>2. saves = [r \in Runs |-> Saving!Away]
  BY DEF Init, Others!Away, Saving!Away
<1> QED BY <1>1, <1>2 DEF Saving!SavesInit, Saving!StoreInit, StoreInit

(* The logins of the process implement SessionSaves, for any accounts and   *)
(* runs: what is saved of an account logs in that account or nobody and one *)
(* account is saved after the other, unless a run was taken for stuck. The  *)
(* shared page is the account's own because isRefreshing admits one run.    *)
THEOREM LoginsImplementSessionSaves == Spec => LoginsSave
<1>1. Spec => Saving!SavesSpec
  BY SavesAtStart, SavesStep, SessionsInv, PTL DEF Spec, Saving!SavesSpec
<1> QED BY <1>1 DEF LoginsSave
=============================================================================
