------------------------------- MODULE Scrapes -------------------------------
(***************************************************************************)
(* ScraperRegistry: the type of a request picks the scraper. The two share *)
(* nothing (the pools of browsers and workers are in other modules), so a  *)
(* behaviour is about the executions of one of them.                       *)
(***************************************************************************)
EXTENDS TiktokScrape, FacebookScrape

VARIABLE type  \* of the requests

Types == {"tiktok_scraper", "facebook_scraper"}

ScrapesInit == Init /\ FbInit /\ type \in Types

TiktokStep == type = "tiktok_scraper" /\ Next /\ UNCHANGED <<fbVars, type>>
FacebookStep == type = "facebook_scraper" /\ FbNext /\ UNCHANGED <<vars, type>>

ScrapesSpec ==
  ScrapesInit /\ [][TiktokStep \/ FacebookStep]_<<vars, fbVars, type>>
=============================================================================
