------------------------------ MODULE SessionStore ------------------------------
(***************************************************************************)
(* What is kept of the TikTok sessions of each account: the rows of table  *)
(* Session, the cookies and origins of the first row, and the session      *)
(* file. Every account has an e-mail address of its own, so the account    *)
(* stands for both. Rows are numbered in the order of their ids.           *)
(***************************************************************************)
EXTENDS Naturals, FiniteSets

CONSTANTS
  Accounts,
  MaxRows    \* bound: the rows of Session that one account gets

ASSUME StoreAssumption ==
  /\ MaxRows \in Nat \ {0}
  /\ IsFiniteSet(Accounts) /\ Accounts \cap {"out", "none", "nobody", "lost"} = {}

VARIABLES
  rows,      \* account -> number of its rows
  live,      \* the rows that have not expired
  recent,    \* account -> the row with the latest last_activity_timestamp
  cookies,   \* the accounts whose first row has rows of SessionCookie
  state,     \* account -> the browser state of its first row
  file       \* account -> the browser state in its session file

store == <<rows, live, recent, cookies, state, file>>

SessionIds == Accounts \X (1..MaxRows)

(* A browser state logs some account in, or nobody. *)
Logins == Accounts \cup {"out"}

StoreInit ==
  /\ rows = [a \in Accounts |-> 0] /\ recent = [a \in Accounts |-> 0]
  /\ live = {} /\ cookies = {}
  /\ state = [a \in Accounts |-> "none"] /\ file = [a \in Accounts |-> "none"]

-----------------------------------------------------------------------------
LiveRows(a) == {n \in 1..rows[a] : <<a, n>> \in live}

(* getSessionState: later rows are created without a browser state. *)
StateOf(a, n) == IF n = 1 THEN state[a] ELSE "none"

WriteFile(a, st) == file' = [file EXCEPT ![a] = st]

(* The first row, created with the state where there is none, and its       *)
(* cookies and origins in one transaction, whose failure is passed over.    *)
SaveSessionState(a, st, saved) ==
  /\ rows' = [rows EXCEPT ![a] = IF @ = 0 THEN 1 ELSE @]
  /\ live' = IF rows[a] = 0 THEN live \cup {<<a, 1>>} ELSE live
  /\ recent' = IF saved \/ rows[a] = 0 THEN [recent EXCEPT ![a] = 1] ELSE recent
  /\ state' = IF saved \/ rows[a] = 0 THEN [state EXCEPT ![a] = st] ELSE state
  /\ cookies' = IF saved THEN cookies \cup {a} ELSE cookies
  /\ UNCHANGED file

(* The first row becomes the latest; its expiry date is not moved. *)
UpdateSession(a) ==
  /\ recent' = [recent EXCEPT ![a] = 1]
  /\ UNCHANGED <<rows, live, cookies, state, file>>

CreateSession(a) ==
  LET n == rows[a] + 1
  IN  /\ n <= MaxRows
      /\ rows' = [rows EXCEPT ![a] = n] /\ recent' = [recent EXCEPT ![a] = n]
      /\ live' = live \cup {<<a, n>>}
      /\ UNCHANGED <<cookies, state, file>>

(* expires_at passes. *)
Lapse(s) == s \in live /\ live' = live \ {s} /\ UNCHANGED <<rows, recent, cookies, state, file>>

(* The directory of the session files is not part of the database. *)
LoseFile(a) ==
  /\ file[a] # "none" /\ WriteFile(a, "none")
  /\ UNCHANGED <<rows, live, recent, cookies, state>>

StoreTypeOK ==
  /\ rows \in [Accounts -> 0..MaxRows] /\ recent \in [Accounts -> 0..MaxRows]
  /\ live \subseteq SessionIds /\ cookies \subseteq Accounts
  /\ state \in [Accounts -> Logins \cup {"none"}] /\ file \in [Accounts -> Logins \cup {"none"}]
=============================================================================
