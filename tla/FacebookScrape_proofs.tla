-------------------------- MODULE FacebookScrape_proofs --------------------------
(***************************************************************************)
(* Proofs about FacebookScrape, for any executions, responses and ads.     *)
(***************************************************************************)
EXTENDS Scrapes, FiniteSetTheorems, TLAPS

-----------------------------------------------------------------------------
(* The inductive invariant. Beside the types: while the page is scrolled,    *)
(* the rounds without new ads are below the limit; a page that is open has a *)
(* tab, and outlives the cleanup, and then the tab, only by one failed call  *)
(* each; while the ads are saved, those that are not yet are on the list; an *)
(* ad that was collected twice came twice with one response.                 *)

Places == {"idle", "initialize", "navigate", "intercept", "paginate",
           "scroll", "look", "wait", "storage", "save", "cleanup", "close", "done"}

JobStates ==
  [at : Places, page : {"none", "open", "closed"}, tab : BOOLEAN, ads : SUBSET Found,
   late : SUBSET Found, force : BOOLEAN, more : BOOLEAN, unseen : 0..Attempts, seen : Nat,
   todo : SUBSET Ads]

HandlerStates == [at : {"none", "text", "ads", "done"}, job : Jobs,
                  ads : SeqOf(Ads, PageAds)]

ScrapeTyped ==
  /\ job \in [Jobs -> JobStates] /\ handler \in [Responses -> HandlerStates]
  /\ material \subseteq Ads /\ broken \in 0..MaxBroken

Trying(x) ==
  x.at \in {"idle", "initialize", "navigate", "intercept", "paginate", "scroll", "look"}
    => x.unseen < Attempts

PageCovered(x, failed) ==
  /\ ~x.tab => x.page # "open"
  /\ x.at = "close" /\ x.page = "open" => failed >= 1
  /\ x.at = "done" /\ x.page = "open" => failed >= 2

SavedSoFar(x, failed, rows) ==
  /\ failed = 0 /\ x.at = "save" => Ids(x.ads \ x.late) \subseteq rows \cup x.todo
  /\ failed = 0 /\ x.at \in {"cleanup", "close", "done"} => Ids(x.ads \ x.late) \subseteq rows

Books(ads, late) ==
  /\ IsFiniteSet(ads) /\ late \subseteq ads
  /\ \A x, y \in ads : x.ad = y.ad => x.from = y.from

Sound(x, failed, rows) ==
  Trying(x) /\ PageCovered(x, failed) /\ SavedSoFar(x, failed, rows) /\ Books(x.ads, x.late)

ScrapeInv == ScrapeTyped /\ \A e \in Jobs : Sound(job[e], broken, material)

LEMMA InitSound == FbInit => ScrapeInv
<1> SUFFICES ASSUME FbInit PROVE ScrapeInv
  OBVIOUS
<1>1. NewJob \in JobStates
  BY FacebookAssumption DEF NewJob, JobStates, Places
<1>2. (CHOOSE e \in Jobs : TRUE) \in Jobs
  BY FacebookAssumption
<1>3. ScrapeTyped
  <2>1. <<>> \in SeqOf(Ads, PageAds)
    <3>1. <<>> \in [1..0 -> Ads] /\ 0 \in 0..PageAds
      BY FacebookAssumption
    <3> QED BY <3>1 DEF SeqOf
  <2>2. handler \in [Responses -> HandlerStates]
    BY <1>2, <2>1 DEF FbInit, HandlerStates
  <2> QED BY <1>1, <2>2, FacebookAssumption DEF FbInit, ScrapeTyped
<1>4. Sound(NewJob, 0, {})
  <2>1. Books({}, {})
    BY FS_EmptySet DEF Books
  <2> QED BY <2>1, FacebookAssumption DEF NewJob, Sound, Trying, PageCovered, SavedSoFar
<1> QED BY <1>3, <1>4 DEF FbInit, ScrapeInv

-----------------------------------------------------------------------------
(* What a step of an execution has to show: its new context is sound.        *)

Becomes(e, new) == new \in JobStates /\ job' = [job EXCEPT ![e] = new]

LEMMA StepSound ==
  ASSUME ScrapeInv, NEW e \in Jobs, NEW new, Becomes(e, new),
         handler' \in [Responses -> HandlerStates],
         material \subseteq material', material' \subseteq Ads,
         broken' \in 0..MaxBroken, broken <= broken', Sound(new, broken', material')
  PROVE  ScrapeInv'
<1>1. ScrapeTyped'
  BY DEF ScrapeInv, ScrapeTyped, Becomes
<1>2. ASSUME NEW d \in Jobs PROVE Sound(job'[d], broken', material')
  <2>1. CASE d = e
    BY <2>1 DEF Becomes, ScrapeInv, ScrapeTyped
  <2>2. CASE d # e
    <3>1. job'[d] = job[d] /\ Sound(job[d], broken, material) /\ broken \in Nat /\ broken' \in Nat
      BY <2>2, FacebookAssumption DEF Becomes, ScrapeInv, ScrapeTyped
    <3>2. PageCovered(job[d], broken') /\ Trying(job[d]) /\ Books(job[d].ads, job[d].late)
      BY <3>1 DEF Sound, PageCovered
    <3>3. SavedSoFar(job[d], broken', material')
      BY <3>1 DEF Sound, SavedSoFar
    <3> QED BY <3>1, <3>2, <3>3 DEF Sound
  <2> QED BY <2>1, <2>2
<1> QED BY <1>1, <1>2 DEF ScrapeInv

\* A call that fails, and one that does not.
LEMMA CallCounted ==
  ASSUME ScrapeInv, Breaks \/ Works
  PROVE  /\ broken \in Nat /\ broken' \in 0..MaxBroken /\ broken' \in Nat /\ broken <= broken'
         /\ Breaks => broken' = broken + 1
         /\ Works => broken' = broken
  BY FacebookAssumption DEF ScrapeInv, ScrapeTyped, Breaks, Works

\* A step that only goes on to another place.
LEMMA GoesOn ==
  ASSUME ScrapeInv, NEW e \in Jobs, NEW place \in Places, GoOn(e, place), Breaks \/ Works,
         UNCHANGED <<handler, material>>,
         Sound([job[e] EXCEPT !.at = place], broken', material)
  PROVE  ScrapeInv'
<1> DEFINE new == [job[e] EXCEPT !.at = place]
<1>1. job[e] \in JobStates /\ new \in JobStates
  BY DEF ScrapeInv, ScrapeTyped, JobStates
<1>2. job' = [job EXCEPT ![e] = new]
  BY DEF GoOn
<1> HIDE DEF new
<1>3. Becomes(e, new) /\ Sound(new, broken', material')
  BY <1>1, <1>2 DEF Becomes, new
<1> QED BY <1>3, StepSound, CallCounted DEF ScrapeInv, ScrapeTyped

LEMMA JobIsSound ==
  ASSUME ScrapeInv, NEW e \in Jobs
  PROVE  job[e] \in JobStates /\ Sound(job[e], broken, material)
  BY DEF ScrapeInv, ScrapeTyped

LEMMA AdsCounted ==
  ASSUME ScrapeInv, NEW e \in Jobs
  PROVE  Cardinality(job[e].ads) \in Nat
  BY JobIsSound, FS_CardinalityType DEF Sound, Books

-----------------------------------------------------------------------------
(* The steps.                                                                *)

LEMMA GetTabSound ==
  ASSUME ScrapeInv, NEW e \in Jobs, GetTab(e)
  PROVE  ScrapeInv'
<1>1. job[e] \in JobStates /\ Sound(job[e], broken, material) /\ job[e].at = "idle"
  BY JobIsSound DEF GetTab, Stands
<1>2. CASE Works /\ job' = [job EXCEPT ![e].at = "initialize", ![e].tab = TRUE, ![e].page = "open"]
  <2> DEFINE new == [job[e] EXCEPT !.at = "initialize", !.tab = TRUE, !.page = "open"]
  <2>1. job' = [job EXCEPT ![e] = new]
    BY <1>2
  <2>2. new \in JobStates /\ Sound(new, broken', material')
    BY <1>1 DEF JobStates, Places, Sound, Trying, PageCovered, SavedSoFar
  <2> HIDE DEF new
  <2>3. Becomes(e, new)
    BY <2>1, <2>2 DEF Becomes
  <2> QED BY <1>2, <2>2, <2>3, StepSound, CallCounted DEF GetTab, ScrapeInv, ScrapeTyped
<1>3. CASE Breaks /\ GoOn(e, "close")
  <2>1. "close" \in Places
    BY DEF Places
  <2>2. broken \in Nat /\ broken' = broken + 1
    BY <1>3, CallCounted
  <2>3. Sound([job[e] EXCEPT !.at = "close"], broken', material)
    BY <1>1, <2>2 DEF JobStates, Sound, Trying, PageCovered, SavedSoFar
  <2> QED BY <1>3, <2>1, <2>3, GoesOn DEF GetTab
<1>4. CASE Breaks /\ job' = [job EXCEPT ![e].at = "close", ![e].tab = TRUE, ![e].page = "closed"]
  <2> DEFINE new == [job[e] EXCEPT !.at = "close", !.tab = TRUE, !.page = "closed"]
  <2>1. job' = [job EXCEPT ![e] = new]
    BY <1>4
  <2>2. broken \in Nat /\ broken' = broken + 1
    BY <1>4, CallCounted
  <2>3. new \in JobStates /\ new.at = "close" /\ new.page = "closed" /\ new.ads = job[e].ads /\ new.late = job[e].late
    BY <1>1 DEF JobStates, Places
  <2> HIDE DEF new
  <2>4. Becomes(e, new) /\ Sound(new, broken', material')
    BY <1>1, <2>1, <2>2, <2>3 DEF Becomes, Sound, Trying, PageCovered, SavedSoFar
  <2> QED BY <1>4, <2>4, StepSound, CallCounted DEF GetTab, ScrapeInv, ScrapeTyped
<1> QED BY <1>2, <1>3, <1>4 DEF GetTab

\* A step that throws goes to the cleanup, with what was collected unsaved.
LEMMA ThrowsSound ==
  ASSUME ScrapeInv, NEW e \in Jobs, Breaks, GoOn(e, "cleanup"), UNCHANGED <<handler, material>>
  PROVE  ScrapeInv'
<1>1. job[e] \in JobStates /\ Sound(job[e], broken, material)
  BY JobIsSound
<1>2. broken \in Nat /\ broken' = broken + 1 /\ "cleanup" \in Places
  BY CallCounted DEF Places
<1>3. Sound([job[e] EXCEPT !.at = "cleanup"], broken', material)
  BY <1>1, <1>2 DEF JobStates, Sound, Trying, PageCovered, SavedSoFar
<1> QED BY <1>2, <1>3, GoesOn

\* A step before the saving that works and goes on to another before it.
LEMMA AdvanceSound ==
  ASSUME ScrapeInv, NEW e \in Jobs, job[e].unseen < Attempts, Works,
         NEW place \in {"navigate", "intercept", "paginate", "scroll", "look"}, GoOn(e, place),
         UNCHANGED <<handler, material>>
  PROVE  ScrapeInv'
<1>1. job[e] \in JobStates /\ Sound(job[e], broken, material)
  BY JobIsSound
<1>2. Sound([job[e] EXCEPT !.at = place], broken', material) /\ place \in Places
  BY <1>1 DEF JobStates, Places, Sound, Trying, PageCovered, SavedSoFar
<1> QED BY <1>2, GoesOn

LEMMA InitializeSound ==
  ASSUME ScrapeInv, NEW e \in Jobs, Initialize(e)
  PROVE  ScrapeInv'
<1>1. job[e].unseen < Attempts
  BY JobIsSound DEF Sound, Trying, Initialize, Stands
<1>2. CASE Works /\ GoOn(e, "navigate")
  BY <1>1, <1>2, AdvanceSound DEF Initialize
<1>3. CASE Breaks /\ GoOn(e, "cleanup")
  BY <1>3, ThrowsSound DEF Initialize
<1> QED BY <1>2, <1>3 DEF Initialize

LEMMA NavigateSound ==
  ASSUME ScrapeInv, NEW e \in Jobs, Navigate(e)
  PROVE  ScrapeInv'
<1>1. job[e] \in JobStates /\ Sound(job[e], broken, material) /\ job[e].unseen < Attempts
  BY JobIsSound DEF Sound, Trying, Navigate, Stands
<1>2. CASE Works /\ GoOn(e, "intercept")
  BY <1>1, <1>2, AdvanceSound DEF Navigate
<1>3. CASE Breaks /\ job' = [job EXCEPT ![e].at = "cleanup", ![e].page = "closed"]
  <2> DEFINE new == [job[e] EXCEPT !.at = "cleanup", !.page = "closed"]
  <2>1. job' = [job EXCEPT ![e] = new]
    BY <1>3
  <2>2. broken \in Nat /\ broken' = broken + 1
    BY <1>3, CallCounted
  <2>3. new \in JobStates /\ new.at = "cleanup" /\ new.page = "closed" /\ new.ads = job[e].ads /\ new.late = job[e].late
    BY <1>1 DEF JobStates, Places
  <2> HIDE DEF new
  <2>4. Becomes(e, new) /\ Sound(new, broken', material')
    BY <1>1, <2>1, <2>2, <2>3 DEF Becomes, Sound, Trying, PageCovered, SavedSoFar
  <2> QED BY <1>3, <2>4, StepSound, CallCounted DEF Navigate, ScrapeInv, ScrapeTyped
<1> QED BY <1>2, <1>3 DEF Navigate

LEMMA InterceptSound ==
  ASSUME ScrapeInv, NEW e \in Jobs, Intercept(e)
  PROVE  ScrapeInv'
<1>1. job[e].unseen < Attempts
  BY JobIsSound DEF Sound, Trying, Intercept, Stands
<1>2. CASE Works /\ GoOn(e, "paginate")
  BY <1>1, <1>2, AdvanceSound DEF Intercept
<1>3. CASE Breaks /\ GoOn(e, "cleanup")
  BY <1>3, ThrowsSound DEF Intercept
<1> QED BY <1>2, <1>3 DEF Intercept

\* The steps that scroll go on to another such step or to the storage.
LEMMA ScrollsOn ==
  ASSUME ScrapeInv, NEW e \in Jobs, NEW new,
         UNCHANGED <<handler, material, broken>>, Becomes(e, new),
         new.at \in {"scroll", "look", "wait", "storage"},
         new.at \in {"scroll", "look"} => new.unseen < Attempts,
         new.page = job[e].page, new.tab = job[e].tab, new.ads = job[e].ads, new.late = job[e].late
  PROVE  ScrapeInv'
<1>1. Sound(new, broken', material')
  BY JobIsSound DEF Sound, Trying, PageCovered, SavedSoFar
<1>2. broken' \in 0..MaxBroken /\ broken <= broken' /\ material' \subseteq Ads
      /\ handler' \in [Responses -> HandlerStates]
  BY FacebookAssumption DEF ScrapeInv, ScrapeTyped
<1> QED BY <1>1, <1>2, StepSound

LEMMA PaginateSound ==
  ASSUME ScrapeInv, NEW e \in Jobs, Paginate(e)
  PROVE  ScrapeInv'
<1> DEFINE new == [job[e] EXCEPT !.force = Full(e), !.more = job[e].more /\ ~Full(e),
                                 !.seen = Cardinality(job[e].ads),
                                 !.at = IF Full(e) THEN "storage" ELSE "scroll"]
<1>1. job[e] \in JobStates /\ Sound(job[e], broken, material) /\ job[e].at = "paginate"
  BY JobIsSound DEF Paginate, Stands
<1>2. Cardinality(job[e].ads) \in Nat
  BY AdsCounted
<1>3. job' = [job EXCEPT ![e] = new]
  BY <1>1 DEF Paginate, JobStates
<1>4. Full(e) \in BOOLEAN
  BY DEF Full
<1>5. /\ new \in JobStates /\ new.at \in {"scroll", "storage"} /\ new.unseen = job[e].unseen
      /\ new.page = job[e].page /\ new.tab = job[e].tab /\ new.ads = job[e].ads /\ new.late = job[e].late
  BY <1>1, <1>2, <1>4 DEF JobStates, Places
<1> HIDE DEF new
<1>6. job[e].unseen < Attempts
  BY <1>1 DEF Sound, Trying
<1> QED BY <1>3, <1>5, <1>6, ScrollsOn DEF Paginate, Becomes

LEMMA ScrollSound ==
  ASSUME ScrapeInv, NEW e \in Jobs, Scroll(e)
  PROVE  ScrapeInv'
<1>1. job[e] \in JobStates /\ Sound(job[e], broken, material) /\ job[e].at = "scroll"
  BY JobIsSound DEF Scroll, Stands
<1>2. CASE Full(e)
  <2> DEFINE new == [job[e] EXCEPT !.force = TRUE, !.more = FALSE, !.at = "storage"]
  <2>1. job' = [job EXCEPT ![e] = new]
    BY <1>2 DEF Scroll
  <2>2. /\ new \in JobStates /\ new.at = "storage"
        /\ new.page = job[e].page /\ new.tab = job[e].tab /\ new.ads = job[e].ads /\ new.late = job[e].late
    BY <1>1 DEF JobStates, Places
  <2> HIDE DEF new
  <2> QED BY <2>1, <2>2, ScrollsOn DEF Scroll, Becomes
<1>3. CASE ~Full(e)
  BY <1>1, <1>3, AdvanceSound DEF Scroll, GoOn, Works, Sound, Trying
<1> QED BY <1>2, <1>3

LEMMA EndScrollingSound ==
  ASSUME ScrapeInv, NEW e \in Jobs, EndScrolling(e), UNCHANGED <<handler, material, broken>>
  PROVE  ScrapeInv'
<1> DEFINE new == [job[e] EXCEPT !.more = FALSE, !.at = "storage"]
<1>1. job' = [job EXCEPT ![e] = new]
  BY DEF EndScrolling
<1>2. /\ new \in JobStates /\ new.at = "storage"
      /\ new.page = job[e].page /\ new.tab = job[e].tab /\ new.ads = job[e].ads /\ new.late = job[e].late
  BY JobIsSound DEF JobStates, Places
<1> HIDE DEF new
<1> QED BY <1>1, <1>2, ScrollsOn DEF Becomes

LEMMA LookSound ==
  ASSUME ScrapeInv, NEW e \in Jobs, Look(e)
  PROVE  ScrapeInv'
<1> DEFINE news == Cardinality(job[e].ads) # job[e].seen
           unseen == IF news THEN 0 ELSE job[e].unseen + 1
<1>1. job[e] \in JobStates /\ job[e].unseen < Attempts /\ job[e].unseen \in Nat /\ Attempts \in Nat \ {0}
  BY JobIsSound, FacebookAssumption DEF Look, Stands, Sound, Trying, JobStates
<1>2. unseen \in 0..Attempts
  BY <1>1
<1>3. Cardinality(job[e].ads) \in Nat
  BY AdsCounted
<1>4. PICK bottom \in BOOLEAN, visible \in BOOLEAN :
        IF bottom /\ ~news THEN job' = [job EXCEPT ![e].unseen = unseen, ![e].at = "wait"]
        ELSE IF (bottom /\ ~visible) \/ NoMoreAttempts(unseen) THEN EndScrolling(e)
        ELSE job' = [job EXCEPT ![e].unseen = unseen, ![e].seen = Cardinality(job[e].ads), ![e].at = "scroll"]
  BY DEF Look
<1> HIDE DEF unseen
<1>5. CASE bottom /\ ~news
  <2> DEFINE new == [job[e] EXCEPT !.unseen = unseen, !.at = "wait"]
  <2>1. job' = [job EXCEPT ![e] = new]
    BY <1>4, <1>5
  <2>2. /\ new \in JobStates /\ new.at = "wait"
        /\ new.page = job[e].page /\ new.tab = job[e].tab /\ new.ads = job[e].ads /\ new.late = job[e].late
    BY <1>1, <1>2 DEF JobStates, Places
  <2> HIDE DEF new
  <2> QED BY <2>1, <2>2, ScrollsOn DEF Look, Becomes
<1>6. CASE ~(bottom /\ ~news) /\ ((bottom /\ ~visible) \/ NoMoreAttempts(unseen))
  BY <1>4, <1>6, EndScrollingSound DEF Look
<1>7. CASE ~(bottom /\ ~news) /\ ~((bottom /\ ~visible) \/ NoMoreAttempts(unseen))
  <2> DEFINE new == [job[e] EXCEPT !.unseen = unseen, !.seen = Cardinality(job[e].ads), !.at = "scroll"]
  <2>1. job' = [job EXCEPT ![e] = new]
    BY <1>4, <1>7
  <2>2. /\ new \in JobStates /\ new.at = "scroll" /\ new.unseen = unseen
        /\ new.page = job[e].page /\ new.tab = job[e].tab /\ new.ads = job[e].ads /\ new.late = job[e].late
    BY <1>1, <1>2, <1>3 DEF JobStates, Places
  <2> HIDE DEF new
  <2>3. unseen < Attempts
    BY <1>1, <1>2, <1>7 DEF NoMoreAttempts
  <2> QED BY <2>1, <2>2, <2>3, ScrollsOn DEF Look, Becomes
<1> QED BY <1>5, <1>6, <1>7

LEMMA LookAgainSound ==
  ASSUME ScrapeInv, NEW e \in Jobs, LookAgain(e)
  PROVE  ScrapeInv'
<1>1. CASE EndScrolling(e)
  BY <1>1, EndScrollingSound DEF LookAgain
<1>2. CASE ~NoMoreAttempts(job[e].unseen) /\ GoOn(e, "scroll")
  <2>1. job[e].unseen < Attempts
    BY <1>2, JobIsSound, FacebookAssumption DEF NoMoreAttempts, JobStates
  <2> QED BY <1>2, <2>1, AdvanceSound DEF LookAgain, Works
<1> QED BY <1>1, <1>2 DEF LookAgain

LEMMA IdsOfAds ==
  ASSUME NEW ads \in SUBSET Found, NEW late
  PROVE  Ids(ads) \subseteq Ads /\ Ids(ads \ late) \subseteq Ids(ads) /\ Ids({}) = {}
  BY DEF Ids, Found

LEMMA StorageSound ==
  ASSUME ScrapeInv, NEW e \in Jobs, Storage(e)
  PROVE  ScrapeInv'
<1> DEFINE todo == Ids(job[e].ads)
           new == [job[e] EXCEPT !.todo = todo,
                                 !.at = IF job[e].ads = {} THEN "cleanup" ELSE "save"]
<1>1. job[e] \in JobStates /\ Sound(job[e], broken, material) /\ job[e].ads \in SUBSET Found
  BY JobIsSound DEF JobStates
<1>2. job' = [job EXCEPT ![e] = new]
  BY DEF Storage
<1>3. /\ todo \subseteq Ads /\ Ids(job[e].ads \ job[e].late) \subseteq todo
      /\ job[e].ads = {} => todo = {}
  BY <1>1, IdsOfAds
<1> HIDE DEF todo
<1>4. /\ new \in JobStates /\ new.at = (IF job[e].ads = {} THEN "cleanup" ELSE "save")
      /\ new.todo = todo /\ new.late = job[e].late
      /\ new.page = job[e].page /\ new.tab = job[e].tab /\ new.ads = job[e].ads
  BY <1>1, <1>3 DEF JobStates, Places
<1> HIDE DEF new
<1>5. Sound(new, broken', material')
  <2>1. SavedSoFar(new, broken', material')
    BY <1>3, <1>4 DEF SavedSoFar
  <2> QED BY <1>1, <1>4, <2>1 DEF Sound, Trying, PageCovered
<1>6. broken' \in 0..MaxBroken /\ broken <= broken' /\ material' \subseteq Ads
      /\ handler' \in [Responses -> HandlerStates] /\ material' = material
  BY FacebookAssumption DEF ScrapeInv, ScrapeTyped, Storage
<1> QED BY <1>2, <1>4, <1>5, <1>6, StepSound DEF Becomes

LEMMA SaveBatchSound ==
  ASSUME ScrapeInv, NEW e \in Jobs, SaveBatch(e)
  PROVE  ScrapeInv'
<1>1. /\ job[e] \in JobStates /\ Sound(job[e], broken, material) /\ job[e].todo \subseteq Ads
      /\ job[e].at = "save" /\ broken \in Nat
  BY JobIsSound, FacebookAssumption DEF JobStates, SaveBatch, Stands, ScrapeInv, ScrapeTyped
<1>2. PICK batch \in Batches(job[e].todo) :
        LET rest == job[e].todo \ batch
        IN  \/ /\ Works /\ material' = material \cup batch
               /\ job' = [job EXCEPT ![e].todo = rest, ![e].at = IF rest = {} THEN "cleanup" ELSE "save"]
            \/ /\ Breaks /\ GoOn(e, "cleanup")
               /\ \E some \in SUBSET batch : material' = material \cup some
  BY DEF SaveBatch
<1> DEFINE rest == job[e].todo \ batch
<1>3. rest \subseteq Ads /\ batch \subseteq Ads /\ job[e].todo \subseteq batch \cup rest
  BY <1>1 DEF Batches
<1>4. UNCHANGED handler /\ handler' \in [Responses -> HandlerStates] /\ material \subseteq Ads
  BY DEF SaveBatch, ScrapeInv, ScrapeTyped
<1>5. CASE /\ Works /\ material' = material \cup batch
           /\ job' = [job EXCEPT ![e].todo = rest, ![e].at = IF rest = {} THEN "cleanup" ELSE "save"]
  <2> HIDE DEF rest
  <2> DEFINE new == [job[e] EXCEPT !.todo = rest, !.at = IF rest = {} THEN "cleanup" ELSE "save"]
  <2>1. job' = [job EXCEPT ![e] = new]
    BY <1>5
  <2>2. /\ new \in JobStates /\ new.at = (IF rest = {} THEN "cleanup" ELSE "save")
        /\ new.todo = rest
        /\ new.page = job[e].page /\ new.tab = job[e].tab /\ new.ads = job[e].ads /\ new.late = job[e].late
    BY <1>1, <1>3 DEF JobStates, Places
  <2> HIDE DEF new
  <2>3. broken' = broken /\ broken' \in 0..MaxBroken /\ broken <= broken'
    BY <1>5, CallCounted
  <2>4. SavedSoFar(new, broken', material')
    BY <1>1, <1>3, <1>5, <2>2, <2>3 DEF Sound, SavedSoFar
  <2>5. Sound(new, broken', material')
    BY <1>1, <2>2, <2>3, <2>4 DEF Sound, Trying, PageCovered
  <2>6. material \subseteq material' /\ material' \subseteq Ads
    BY <1>3, <1>4, <1>5
  <2> QED BY <1>4, <2>1, <2>2, <2>3, <2>5, <2>6, StepSound DEF Becomes
<1>6. CASE /\ Breaks /\ GoOn(e, "cleanup")
           /\ \E some \in SUBSET batch : material' = material \cup some
  <2> HIDE DEF rest
  <2> DEFINE new == [job[e] EXCEPT !.at = "cleanup"]
  <2>1. job' = [job EXCEPT ![e] = new]
    BY <1>6 DEF GoOn
  <2>2. new \in JobStates /\ new.at = "cleanup"
        /\ new.page = job[e].page /\ new.tab = job[e].tab /\ new.ads = job[e].ads /\ new.late = job[e].late
    BY <1>1 DEF JobStates, Places
  <2> HIDE DEF new
  <2>3. broken' = broken + 1 /\ broken' \in 0..MaxBroken /\ broken <= broken'
    BY <1>6, CallCounted
  <2>4. Sound(new, broken', material')
    BY <1>1, <2>2, <2>3 DEF Sound, Trying, PageCovered, SavedSoFar
  <2>5. material \subseteq material' /\ material' \subseteq Ads
    BY <1>3, <1>4, <1>6
  <2> QED BY <1>4, <2>1, <2>2, <2>3, <2>4, <2>5, StepSound DEF Becomes
<1> QED BY <1>2, <1>5, <1>6

LEMMA CleanupSound ==
  ASSUME ScrapeInv, NEW e \in Jobs, Cleanup(e)
  PROVE  ScrapeInv'
<1>1. job[e] \in JobStates /\ Sound(job[e], broken, material) /\ job[e].at = "cleanup"
  BY JobIsSound DEF Cleanup, Stands
<1>2. CASE Works /\ job' = [job EXCEPT ![e].page = "closed", ![e].at = "close"]
  <2> DEFINE new == [job[e] EXCEPT !.page = "closed", !.at = "close"]
  <2>1. job' = [job EXCEPT ![e] = new]
    BY <1>2
  <2>2. /\ new \in JobStates /\ new.at = "close" /\ new.page = "closed"
        /\ new.ads = job[e].ads /\ new.late = job[e].late
    BY <1>1 DEF JobStates, Places
  <2> HIDE DEF new
  <2>3. Becomes(e, new) /\ Sound(new, broken, material)
    BY <1>1, <2>1, <2>2 DEF Becomes, Sound, Trying, PageCovered, SavedSoFar
  <2> QED BY <1>2, <2>3, StepSound, CallCounted DEF Cleanup, ScrapeInv, ScrapeTyped
<1>3. CASE Breaks /\ GoOn(e, "close")
  <2>1. broken \in Nat /\ broken' = broken + 1 /\ "close" \in Places
    BY <1>3, CallCounted DEF Places
  <2>2. Sound([job[e] EXCEPT !.at = "close"], broken', material)
    BY <1>1, <2>1 DEF JobStates, Sound, Trying, PageCovered, SavedSoFar
  <2> QED BY <1>3, <2>1, <2>2, GoesOn DEF Cleanup
<1> QED BY <1>2, <1>3 DEF Cleanup

LEMMA CloseTabSound ==
  ASSUME ScrapeInv, NEW e \in Jobs, CloseTab(e)
  PROVE  ScrapeInv'
<1>1. job[e] \in JobStates /\ Sound(job[e], broken, material) /\ job[e].at = "close"
  BY JobIsSound DEF CloseTab, Stands
<1>2. CASE Works /\ job' = [job EXCEPT ![e].at = "done", ![e].tab = FALSE,
                                     ![e].page = IF job[e].tab THEN "closed" ELSE job[e].page]
  <2> DEFINE new == [job[e] EXCEPT !.at = "done", !.tab = FALSE,
                                   !.page = IF job[e].tab THEN "closed" ELSE job[e].page]
  <2>1. job' = [job EXCEPT ![e] = new]
    BY <1>2
  <2>2. /\ new \in JobStates /\ new.at = "done" /\ new.page # "open"
        /\ new.ads = job[e].ads /\ new.late = job[e].late
    BY <1>1 DEF JobStates, Places, Sound, PageCovered
  <2> HIDE DEF new
  <2>3. Becomes(e, new) /\ Sound(new, broken, material)
    BY <1>1, <2>1, <2>2 DEF Becomes, Sound, Trying, PageCovered, SavedSoFar
  <2> QED BY <1>2, <2>3, StepSound, CallCounted DEF CloseTab, ScrapeInv, ScrapeTyped
<1>3. CASE job[e].tab /\ Breaks /\ GoOn(e, "done")
  <2>1. broken \in Nat /\ broken' = broken + 1 /\ "done" \in Places
    BY <1>3, CallCounted DEF Places
  <2>2. Sound([job[e] EXCEPT !.at = "done"], broken', material)
    BY <1>1, <1>3, <2>1 DEF JobStates, Sound, Trying, PageCovered, SavedSoFar
  <2> QED BY <1>3, <2>1, <2>2, GoesOn DEF CloseTab
<1>4. \/ Works /\ job' = [job EXCEPT ![e].at = "done", ![e].tab = FALSE,
                                    ![e].page = IF job[e].tab THEN "closed" ELSE job[e].page]
      \/ job[e].tab /\ Breaks /\ GoOn(e, "done")
  BY <1>1 DEF CloseTab, JobStates
<1> QED BY <1>2, <1>3, <1>4

LEMMA JobStepSound ==
  ASSUME ScrapeInv, NEW e \in Jobs, JobStep(e)
  PROVE  ScrapeInv'
<1>1. ASSUME ScrollFails(e) PROVE ScrapeInv'
  BY <1>1, ThrowsSound DEF ScrollFails
<1> QED BY <1>1, GetTabSound, InitializeSound, NavigateSound, InterceptSound, PaginateSound,
           ScrollSound, LookSound, LookAgainSound, StorageSound, SaveBatchSound, CleanupSound,
           CloseTabSound DEF JobStep

-----------------------------------------------------------------------------
(* The handlers of the responses. What Collect adds was not collected before. *)

LEMMA RespondSound ==
  ASSUME ScrapeInv, NEW r \in Responses, NEW e \in Jobs, NEW ads \in SeqOf(Ads, PageAds),
         Respond(r, e, ads)
  PROVE  ScrapeInv'
  BY DEF Respond, ScrapeInv, ScrapeTyped, HandlerStates

LEMMA ReadTextSound ==
  ASSUME ScrapeInv, NEW r \in Responses, ReadText(r)
  PROVE  ScrapeInv'
  BY DEF ReadText, ScrapeInv, ScrapeTyped, HandlerStates

LEMMA BroughtIsFinite ==
  ASSUME ScrapeInv, NEW r \in Responses
  PROVE  Brought(r) \subseteq Found /\ IsFiniteSet(Brought(r)) /\ \A x \in Brought(r) : x.from = r
<1> DEFINE ads == handler[r].ads
<1>1. PICK m \in 0..PageAds : ads \in [1..m -> Ads]
  BY DEF ScrapeInv, ScrapeTyped, HandlerStates, SeqOf
<1> DEFINE item == [n \in 1..m |-> [ad |-> ads[n], from |-> r, nth |-> n]]
<1>2. DOMAIN ads = 1..m /\ m \in Nat /\ \A n \in 1..m : ads[n] \in Ads /\ n \in 1..PageAds
  BY <1>1, FacebookAssumption
<1>3. Brought(r) = {[ad |-> ads[n], from |-> r, nth |-> n] : n \in 1..m}
  BY <1>2 DEF Brought
<1>4. item \in Surjection(1..m, Brought(r))
  BY <1>3 DEF Surjection
<1>5. IsFiniteSet(1..m)
  BY <1>2, FS_Interval
<1>6. Brought(r) \subseteq Found /\ \A x \in Brought(r) : x.from = r
  BY <1>2, <1>3 DEF Found
<1> HIDE DEF item
<1> QED BY <1>4, <1>5, <1>6, FS_Surjection

LEMMA CollectSound ==
  ASSUME ScrapeInv, NEW r \in Responses, Collect(r)
  PROVE  ScrapeInv'
<1> DEFINE e == handler[r].job
           ads == job[e].ads \cup New(r)
           isLate == job[e].at \in {"save", "cleanup", "close", "done"}
           late == IF isLate THEN job[e].late \cup New(r) ELSE job[e].late
           more == job[e].more /\ (New(r) = {} \/ Cardinality(ads) < AdLimit)
           new == [job[e] EXCEPT !.ads = ads, !.late = late, !.more = more]
<1>1. e \in Jobs
  BY DEF ScrapeInv, ScrapeTyped, HandlerStates
<1>2. /\ job[e] \in JobStates /\ Sound(job[e], broken, material)
      /\ job[e].ads \subseteq Found /\ Books(job[e].ads, job[e].late)
  BY <1>1, JobIsSound DEF JobStates, Sound
<1>3. /\ New(r) \subseteq Found /\ IsFiniteSet(New(r))
      /\ \A x \in New(r) : x.from = r /\ \A y \in job[e].ads : x.ad # y.ad
  <2>1. New(r) \subseteq Brought(r) /\ \A x \in New(r), y \in job[e].ads : x.ad # y.ad
    BY DEF New, Ids
  <2> QED BY <2>1, BroughtIsFinite, FS_Subset
<1>4. ads \subseteq Found
  BY <1>2, <1>3
<1>5. Books(ads, late)
  <2>1. IsFiniteSet(ads)
    BY <1>2, <1>3, FS_Union DEF Books
  <2>2. late \subseteq ads
    BY <1>2 DEF Books
  <2>3. ASSUME NEW x \in ads, NEW y \in ads, x.ad = y.ad PROVE x.from = y.from
    BY <1>2, <1>3, <2>3 DEF Books
  <2> QED BY <2>1, <2>2, <2>3 DEF Books
<1>6. late \subseteq Found /\ more \in BOOLEAN
  BY <1>2, <1>4, <1>5 DEF JobStates, Books
<1>7. job' = [job EXCEPT ![e] = new]
  BY <1>2 DEF Collect, JobStates
<1>8. /\ handler' \in [Responses -> HandlerStates] /\ material' = material /\ broken' = broken
      /\ material' \subseteq Ads /\ broken' \in 0..MaxBroken /\ broken <= broken'
  <2>1. handler' = [handler EXCEPT ![r].at = "done"] /\ material' = material /\ broken' = broken
    BY DEF Collect
  <2>2. handler \in [Responses -> HandlerStates] /\ material \subseteq Ads /\ broken \in 0..MaxBroken
    BY DEF ScrapeInv, ScrapeTyped
  <2> QED BY <2>1, <2>2, FacebookAssumption DEF HandlerStates
<1>9. /\ new \in JobStates /\ new.at = job[e].at /\ new.page = job[e].page /\ new.tab = job[e].tab
      /\ new.ads = ads /\ new.late = late /\ new.todo = job[e].todo /\ new.unseen = job[e].unseen
  <2> HIDE DEF e, ads, late, more
  <2> QED BY <1>2, <1>4, <1>6 DEF JobStates
<1>10. isLate => Ids(ads \ late) \subseteq Ids(job[e].ads \ job[e].late)
  BY DEF Ids
<1> HIDE DEF new
<1>11. Sound(new, broken', material')
  <2> HIDE DEF e, ads, late
  <2>1. SavedSoFar(new, broken, material)
    BY <1>2, <1>9, <1>10 DEF Sound, SavedSoFar
  <2> QED BY <1>2, <1>5, <1>8, <1>9, <2>1 DEF Sound, Trying, PageCovered
<1>12. Becomes(e, new)
  BY <1>7, <1>9 DEF Becomes
<1> HIDE DEF e
<1> QED BY <1>1, <1>8, <1>11, <1>12, StepSound

-----------------------------------------------------------------------------
(* The invariant and what it says of the specification.                      *)

LEMMA NextSound == ScrapeInv /\ [FbNext]_fbVars => ScrapeInv'
<1> SUFFICES ASSUME ScrapeInv, [FbNext]_fbVars PROVE ScrapeInv'
  OBVIOUS
<1>1. CASE UNCHANGED fbVars
  BY <1>1 DEF fbVars, ScrapeInv, ScrapeTyped
<1>2. CASE FbNext
  BY <1>2, JobStepSound, ReadTextSound, CollectSound, RespondSound DEF FbNext
<1> QED BY <1>1, <1>2

LEMMA ScrapeInvariant == FbSpec => []ScrapeInv
  BY InitSound, NextSound, PTL DEF FbSpec

(* The contexts, handlers and rows of the Facebook scraper have their types; *)
(* in particular scrolling gives up no later than maxNoNewAdsAttempts rounds *)
(* after the last new ad.                                                    *)
THEOREM FacebookTypeCorrect == FbSpec => []FbTypeOK
<1>1. ScrapeInv => FbTypeOK
  BY DEF ScrapeInv, ScrapeTyped, Sound, Books, FbTypeOK, JobStates, HandlerStates, Places
<1> QED BY <1>1, ScrapeInvariant, PTL

(* However many handlers validate their responses at the same time, no ad    *)
(* is collected from two responses: what a handler adds it compares, at      *)
(* once, with all that was collected, not with what it saw before its awaits. *)
(* An ad that one response repeats is collected as often as it occurs there. *)
THEOREM NoAdTwice == FbSpec => []CollectedOnce
<1>1. ScrapeInv => CollectedOnce
  BY DEF ScrapeInv, Sound, Books, CollectedOnce
<1> QED BY <1>1, ScrapeInvariant, PTL

(* No single failed call leaves a page open behind an execution that is      *)
(* over: it takes one in the pipeline's cleanup and one in the closing of    *)
(* the tab.                                                                  *)
THEOREM PagesAreClosed == FbSpec => []NoPageLeft
<1>1. ScrapeInv => NoPageLeft
  BY FacebookAssumption DEF ScrapeInv, ScrapeTyped, Sound, PageCovered, NoPageLeft, Stands
<1> QED BY <1>1, ScrapeInvariant, PTL

(* While no call fails, an execution that is over has saved every ad it had  *)
(* collected before its saving began, whatever ended the scrolling and       *)
(* however the batches fall.                                                 *)
THEOREM CollectedAdsAreSaved == FbSpec => []CollectedIsSaved
<1>1. ScrapeInv => CollectedIsSaved
  BY DEF ScrapeInv, Sound, SavedSoFar, CollectedIsSaved, Stands
<1> QED BY <1>1, ScrapeInvariant, PTL

(* A scrape in the registry is one: a step of the TikTok scraper leaves the  *)
(* Facebook scraper alone, so what is proved of FbSpec holds of ScrapesSpec. *)
THEOREM FacebookInRegistry == ScrapesSpec => FbSpec
<1>1. ScrapesInit => FbInit
  BY DEF ScrapesInit
<1>2. [TiktokStep \/ FacebookStep]_<<vars, fbVars, type>> => [FbNext]_fbVars
  BY DEF TiktokStep, FacebookStep
<1> QED BY <1>1, <1>2, PTL DEF ScrapesSpec, FbSpec
=============================================================================
