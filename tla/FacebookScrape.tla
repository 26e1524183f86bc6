---------------------------- MODULE FacebookScrape ----------------------------
(***************************************************************************)
(* FacebookBrowserScraper: a tab of the browser pool, the generic pipeline *)
(* with the Facebook steps, which run once since none of them is an        *)
(* ApiRequest step, and the handlers of the page's responses, which run    *)
(* beside the steps and collect the ads.                                   *)
(***************************************************************************)
EXTENDS Naturals, FiniteSets, SequencesExt

CONSTANTS
  Jobs,       \* executions of the scraper
  Ads,
  Responses,  \* bound: the responses with ads that pages receive
  PageAds,    \* bound: the ads of one response
  AdLimit,    \* behavior.maxAdsToCollect
  Attempts,   \* maxNoNewAdsAttempts
  BatchSize,  \* batchSize of saveCreatives
  MaxBroken   \* bound: calls of browser and database that fail

ASSUME FacebookAssumption ==
  /\ {AdLimit, Attempts, BatchSize} \subseteq Nat \ {0} /\ {PageAds, MaxBroken} \subseteq Nat
  /\ Jobs # {}

VARIABLES
  job,       \* execution -> its context and where it stands
  handler,   \* response -> how far its handler is
  material,  \* rows of FacebookAdMaterial
  broken     \* calls that failed

fbVars == <<job, handler, material, broken>>

NewJob ==
  [at |-> "idle", page |-> "none", tab |-> FALSE, ads |-> {}, late |-> {},
   force |-> FALSE, more |-> TRUE, unseen |-> 0, seen |-> 0, todo |-> {}]

(* adsCollected holds what the responses brought: a response may bring an   *)
(* ad more than once. No property is about the order, so it is a set.       *)
Found == [ad : Ads, from : Responses, nth : 1..PageAds]
Ids(found) == {x.ad : x \in found}

FbInit ==
  /\ job = [e \in Jobs |-> NewJob]
  /\ handler = [r \in Responses |-> [at |-> "none", job |-> CHOOSE e \in Jobs : TRUE, ads |-> <<>>]]
  /\ material = {} /\ broken = 0

Stands(e, place) == job[e].at = place
Full(e) == Cardinality(job[e].ads) >= AdLimit
Breaks == broken < MaxBroken /\ broken' = broken + 1
Works == UNCHANGED broken
GoOn(e, place) == job' = [job EXCEPT ![e].at = place]

-----------------------------------------------------------------------------
(* scrape: the tab and its page.                                            *)
GetTab(e) ==
  /\ Stands(e, "idle")
  /\ \/ Works /\ job' = [job EXCEPT ![e].at = "initialize", ![e].tab = TRUE, ![e].page = "open"]
     \/ Breaks /\ GoOn(e, "close")
     \/ Breaks /\ job' = [job EXCEPT ![e].at = "close", ![e].tab = TRUE, ![e].page = "closed"]
  /\ UNCHANGED <<handler, material>>

(* The steps. One that throws ends the pipeline; cleanup follows always.    *)
Initialize(e) ==
  /\ Stands(e, "initialize")
  /\ (Works /\ GoOn(e, "navigate")) \/ (Breaks /\ GoOn(e, "cleanup"))
  /\ UNCHANGED <<handler, material>>

(* A plausible error in Navigate, for the runs' mutants. *)
NavigateThrows(e) ==
  /\ Stands(e, "navigate")
  /\ (Works /\ GoOn(e, "intercept")) \/ (Breaks /\ GoOn(e, "done"))
  /\ UNCHANGED <<handler, material>>

Navigate(e) ==
  /\ Stands(e, "navigate")
  /\ \/ Works /\ GoOn(e, "intercept")
     \/ Breaks /\ job' = [job EXCEPT ![e].at = "cleanup", ![e].page = "closed"]
  /\ UNCHANGED <<handler, material>>

(* From here on the page's responses are handled, until it is closed.       *)
Intercept(e) ==
  /\ Stands(e, "intercept")
  /\ (Works /\ GoOn(e, "paginate")) \/ (Breaks /\ GoOn(e, "cleanup"))
  /\ UNCHANGED <<handler, material>>

Listening(e) ==
  job[e].page = "open" /\ job[e].at \notin {"idle", "initialize", "navigate", "intercept"}

(* PaginationStep.shouldExecute stops the pipeline when enough was found.   *)
Paginate(e) ==
  /\ Stands(e, "paginate")
  /\ job' = [job EXCEPT ![e].force = Full(e), ![e].more = @ /\ ~Full(e),
                        ![e].seen = Cardinality(job[e].ads),
                        ![e].at = IF Full(e) THEN "storage" ELSE "scroll"]
  /\ UNCHANGED <<handler, material, broken>>

Scroll(e) ==
  /\ Stands(e, "scroll")
  /\ job' = IF Full(e)
            THEN [job EXCEPT ![e].force = TRUE, ![e].more = FALSE, ![e].at = "storage"]
            ELSE [job EXCEPT ![e].at = "look"]
  /\ UNCHANGED <<handler, material, broken>>

(* A plausible error in NoMoreAttempts, for the runs' mutants. *)
OneMoreAttempt(unseen) == unseen > Attempts

NoMoreAttempts(unseen) == unseen >= Attempts

EndScrolling(e) == job' = [job EXCEPT ![e].more = FALSE, ![e].at = "storage"]

(* Two seconds later: were ads added, is this the bottom, is any ad in view? *)
Look(e) ==
  LET news == Cardinality(job[e].ads) # job[e].seen
      unseen == IF news THEN 0 ELSE job[e].unseen + 1
  IN  /\ Stands(e, "look")
      /\ \E bottom, visible \in BOOLEAN :
           IF bottom /\ ~news THEN job' = [job EXCEPT ![e].unseen = unseen, ![e].at = "wait"]
           ELSE IF (bottom /\ ~visible) \/ NoMoreAttempts(unseen) THEN EndScrolling(e)
           ELSE job' = [job EXCEPT ![e].unseen = unseen, ![e].seen = Cardinality(job[e].ads),
                                   ![e].at = "scroll"]
      /\ UNCHANGED <<handler, material, broken>>

(* Five seconds more at the bottom; what comes meanwhile is counted in the  *)
(* next round, if there is one.                                             *)
LookAgain(e) ==
  /\ Stands(e, "wait")
  /\ \/ EndScrolling(e)
     \/ ~NoMoreAttempts(job[e].unseen) /\ GoOn(e, "scroll")
  /\ UNCHANGED <<handler, material, broken>>

(* A page that fails while it is scrolled: the step throws.                 *)
ScrollFails(e) ==
  /\ job[e].at \in {"look", "wait"} /\ Breaks /\ GoOn(e, "cleanup")
  /\ UNCHANGED <<handler, material>>

(* A plausible error in Storage, for the runs' mutants. *)
StorageUnlessStopped(e) ==
  /\ Stands(e, "storage")
  /\ job' = [job EXCEPT ![e].todo = Ids(job[e].ads),
                        ![e].at = IF job[e].force \/ job[e].ads = {} THEN "cleanup" ELSE "save"]
  /\ UNCHANGED <<handler, material, broken>>

(* StorageFacebookCreativesStep, which executeSteps runs also after a forced *)
(* stop. It saves what has been collected by now, each ad once.             *)
Storage(e) ==
  /\ Stands(e, "storage")
  /\ job' = [job EXCEPT ![e].todo = Ids(job[e].ads),
                        ![e].at = IF job[e].ads = {} THEN "cleanup" ELSE "save"]
  /\ UNCHANGED <<handler, material, broken>>

(* Which ads share a batch is left open. A batch that fails may be saved in *)
(* part and is the last; nobody is told.                                    *)
Batches(todo) ==
  {batch \in SUBSET todo : Cardinality(batch) = BatchSize \/
                           (batch = todo /\ Cardinality(todo) < BatchSize)}

SaveBatch(e) ==
  /\ Stands(e, "save")
  /\ \E batch \in Batches(job[e].todo) :
       LET rest == job[e].todo \ batch
       IN  \/ /\ Works /\ material' = material \cup batch
              /\ job' = [job EXCEPT ![e].todo = rest,
                                    ![e].at = IF rest = {} THEN "cleanup" ELSE "save"]
           \/ /\ Breaks /\ GoOn(e, "cleanup")
              /\ \E some \in SUBSET batch : material' = material \cup some
  /\ UNCHANGED handler

(* NavigationStep.cleanup closes the page; an error there is only logged.   *)
Cleanup(e) ==
  /\ Stands(e, "cleanup")
  /\ \/ Works /\ job' = [job EXCEPT ![e].page = "closed", ![e].at = "close"]
     \/ Breaks /\ GoOn(e, "close")
  /\ UNCHANGED <<handler, material>>

(* scrape's finally: the tab goes back to the pool, if there is one.        *)
CloseTab(e) ==
  /\ Stands(e, "close")
  /\ \/ /\ Works
        /\ job' = [job EXCEPT ![e].at = "done", ![e].tab = FALSE,
                              ![e].page = IF job[e].tab THEN "closed" ELSE @]
     \/ job[e].tab /\ Breaks /\ GoOn(e, "done")
  /\ UNCHANGED <<handler, material>>

-----------------------------------------------------------------------------
(* The handlers. Between the text and the ads lie the validations, each an  *)
(* await; filter and push happen at once.                                   *)
Respond(r, e, ads) ==
  /\ handler[r].at = "none" /\ Listening(e)
  /\ handler' = [handler EXCEPT ![r] = [at |-> "text", job |-> e, ads |-> ads]]
  /\ UNCHANGED <<job, material, broken>>

(* The text of a response is gone with the page.                            *)
ReadText(r) ==
  /\ handler[r].at = "text"
  /\ handler' = [handler EXCEPT ![r].at =
                   IF job[handler[r].job].page = "open" THEN "ads" ELSE "done"]
  /\ UNCHANGED <<job, material, broken>>

Brought(r) ==
  {[ad |-> handler[r].ads[n], from |-> r, nth |-> n] : n \in DOMAIN handler[r].ads}

(* A plausible error in New, for the runs' mutants. *)
NewUnfiltered(r) == Brought(r)

(* The filter looks only at what was collected before this response.        *)
New(r) == {x \in Brought(r) : x.ad \notin Ids(job[handler[r].job].ads)}

Collect(r) ==
  LET e == handler[r].job
      ads == job[e].ads \cup New(r)
      late == job[e].at \in {"save", "cleanup", "close", "done"}
  IN  /\ handler[r].at = "ads"
      /\ handler' = [handler EXCEPT ![r].at = "done"]
      /\ job' = [job EXCEPT ![e].ads = ads,
                            ![e].late = IF late THEN @ \cup New(r) ELSE @,
                            ![e].more = @ /\ (New(r) = {} \/ Cardinality(ads) < AdLimit)]
      /\ UNCHANGED <<material, broken>>

JobStep(e) ==
  \/ GetTab(e) \/ Initialize(e) \/ Navigate(e) \/ Intercept(e)
  \/ Paginate(e) \/ Scroll(e) \/ Look(e) \/ LookAgain(e) \/ ScrollFails(e)
  \/ Storage(e) \/ SaveBatch(e) \/ Cleanup(e) \/ CloseTab(e)

FbNext ==
  \/ \E e \in Jobs : JobStep(e)
  \/ \E r \in Responses :
       \/ ReadText(r) \/ Collect(r)
       \/ \E e \in Jobs, ads \in SeqOf(Ads, PageAds) : Respond(r, e, ads)

FbSpec == FbInit /\ [][FbNext]_fbVars

-----------------------------------------------------------------------------
(* Types of the contexts, handlers and rows of the Facebook scraper.        *)
FbTypeOK ==
  /\ \A e \in Jobs :
       /\ job[e].at \in {"idle", "initialize", "navigate", "intercept", "paginate",
                         "scroll", "look", "wait", "storage", "save", "cleanup", "close", "done"}
       /\ job[e].page \in {"none", "open", "closed"}
       /\ {job[e].tab, job[e].force, job[e].more} \subseteq BOOLEAN
       /\ job[e].ads \subseteq Found /\ job[e].late \subseteq job[e].ads /\ job[e].todo \subseteq Ads
       /\ job[e].unseen \in 0..Attempts /\ job[e].seen \in Nat
  /\ handler \in [Responses -> [at : {"none", "text", "ads", "done"}, job : Jobs,
                                ads : SeqOf(Ads, PageAds)]]
  /\ material \subseteq Ads /\ broken \in 0..MaxBroken

(* No ad is collected from two responses, though the handlers of several    *)
(* validate at the same time and Facebook repeats ads. (One response that   *)
(* repeats an ad adds it as often; it is saved once.)                       *)
CollectedOnce ==
  \A e \in Jobs : \A x, y \in job[e].ads : x.ad = y.ad => x.from = y.from

(* An execution that is over leaves no open page, at whatever await a call  *)
(* failed: the pipeline's cleanup and the closing of the tab back up each   *)
(* other.                                                                   *)
NoPageLeft == \A e \in Jobs : Stands(e, "done") /\ broken <= 1 => job[e].page # "open"

(* Whether the page ended, the limit was reached before or while scrolling, *)
(* everything collected before the saving began is saved in the end.        *)
CollectedIsSaved ==
  broken = 0 => \A e \in Jobs : Stands(e, "done") => Ids(job[e].ads \ job[e].late) \subseteq material
=============================================================================
