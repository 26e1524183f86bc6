---------------------------- MODULE MCBrowserPool ----------------------------
(* Browsers, tabs, callers and sweepers are interchangeable: no definition   *)
(* of BrowserPool chooses among them other than with \E.                     *)
EXTENDS BrowserPool, TLC

Interchangeable ==
  Permutations(Browsers) \cup Permutations(Tabs)
    \cup Permutations(Callers) \cup Permutations(Sweepers)
=============================================================================
