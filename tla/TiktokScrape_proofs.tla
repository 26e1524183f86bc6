--------------------------- MODULE TiktokScrape_proofs ---------------------------
(***************************************************************************)
(* Proofs about TiktokScrape, for any executions, materials and pages.      *)
(***************************************************************************)
EXTENDS Scrapes, SequenceTheorems, FiniteSetTheorems, TLAPS

-----------------------------------------------------------------------------
(* Sequences of requests.                                                    *)

LEMMA Listed ==
  ASSUME NEW S, NEW s \in Seq(S)
  PROVE  /\ DOMAIN s = 1..Len(s) /\ Len(s) \in Nat /\ Range(s) = {s[k] : k \in 1..Len(s)}
         /\ Range(s) \subseteq S /\ (s = <<>> <=> Len(s) = 0) /\ (s = <<>> <=> Range(s) = {})
<1>1. DOMAIN s = 1..Len(s) /\ Len(s) \in Nat /\ \A k \in 1..Len(s) : s[k] \in S
  BY LenProperties, ElementOfSeq
<1>2. Range(s) = {s[k] : k \in 1..Len(s)}
  BY <1>1 DEF Range
<1>3. s = <<>> <=> Len(s) = 0
  BY EmptySeq
<1>4. Len(s) # 0 => s[1] \in Range(s)
  BY <1>1, <1>2
<1>5. Len(s) = 0 => Range(s) = {}
  <2>1. Len(s) = 0 => 1..Len(s) = {}
    OBVIOUS
  <2> QED BY <1>2, <2>1
<1> QED BY <1>1, <1>2, <1>3, <1>4, <1>5

\* Appending other elements to a sequence without repetition.
LEMMA ConcatIsInjective ==
  ASSUME NEW S, NEW s \in Seq(S), NEW t \in Seq(S), IsInjective(s), IsInjective(t),
         Range(s) \cap Range(t) = {}
  PROVE  IsInjective(s \o t)
<1>1. /\ DOMAIN s = 1..Len(s) /\ DOMAIN t = 1..Len(t) /\ Len(s) \in Nat /\ Len(t) \in Nat
      /\ DOMAIN (s \o t) = 1..Len(s) + Len(t)
      /\ \A k \in 1..Len(s) + Len(t) : (s \o t)[k] = IF k <= Len(s) THEN s[k] ELSE t[k - Len(s)]
  BY LenProperties, ConcatProperties
<1>2. /\ \A k \in 1..Len(s) : s[k] \in Range(s)
      /\ \A k \in 1..Len(t) : t[k] \in Range(t)
  BY <1>1 DEF Range
<1>3. SUFFICES ASSUME NEW j \in 1..Len(s) + Len(t), NEW k \in 1..Len(s) + Len(t),
                      (s \o t)[j] = (s \o t)[k]
               PROVE  j = k
  BY <1>1 DEF IsInjective
<1>4. CASE j <= Len(s) /\ k <= Len(s)
  BY <1>1, <1>3, <1>4 DEF IsInjective
<1>5. CASE j > Len(s) /\ k > Len(s)
  <2>1. t[j - Len(s)] = t[k - Len(s)] /\ j - Len(s) \in 1..Len(t) /\ k - Len(s) \in 1..Len(t)
    BY <1>1, <1>3, <1>5
  <2>2. j - Len(s) = k - Len(s)
    BY <1>1, <2>1 DEF IsInjective
  <2> QED BY <1>1, <2>2
<1>6. CASE j <= Len(s) /\ k > Len(s)
  <2>1. s[j] = t[k - Len(s)] /\ j \in 1..Len(s) /\ k - Len(s) \in 1..Len(t)
    BY <1>1, <1>3, <1>6
  <2> QED BY <1>2, <2>1
<1>7. CASE j > Len(s) /\ k <= Len(s)
  <2>1. s[k] = t[j - Len(s)] /\ k \in 1..Len(s) /\ j - Len(s) \in 1..Len(t)
    BY <1>1, <1>3, <1>7
  <2> QED BY <1>2, <2>1
<1> QED BY <1>1, <1>4, <1>5, <1>6, <1>7

LEMMA RestLength ==
  ASSUME NEW n \in Nat, NEW l \in Nat, n <= l
  PROVE  (IF n + 1 <= l THEN l - (n + 1) + 1 ELSE 0) = l - n
  OBVIOUS

\* The first n elements, and the rest.
LEMMA SplitSeq ==
  ASSUME NEW S, NEW s \in Seq(S), IsInjective(s), NEW n \in 0..Len(s)
  PROVE  LET first == SubSeq(s, 1, n)
             rest == SubSeq(s, n + 1, Len(s))
         IN  /\ first \in Seq(S) /\ Len(first) = n /\ \A k \in 1..n : first[k] = s[k]
             /\ IsInjective(first) /\ Range(first) = {s[k] : k \in 1..n}
             /\ rest \in Seq(S) /\ IsInjective(rest)
             /\ Range(rest) = Range(s) \ {s[k] : k \in 1..n}
<1> DEFINE first == SubSeq(s, 1, n)
           rest == SubSeq(s, n + 1, Len(s))
<1>1. Len(s) \in Nat /\ DOMAIN s = 1..Len(s) /\ \A k \in 1..Len(s) : s[k] \in S
  BY LenProperties, ElementOfSeq
<1>2. /\ first \in Seq(S) /\ Len(first) = n /\ \A k \in 1..n : first[k] = s[k]
  <2>1. 1 \in Int /\ n \in Int /\ \A k \in 1..n : s[k] \in S
    BY <1>1
  <2> QED BY <2>1, SubSeqProperties
<1>3. /\ rest \in Seq(S) /\ Len(rest) = Len(s) - n
      /\ \A k \in 1..Len(s) - n : rest[k] = s[n + k]
  <2>1. n + 1 \in Int /\ Len(s) \in Int /\ \A k \in n + 1..Len(s) : s[k] \in S
    BY <1>1
  <2>2. /\ rest \in Seq(S)
        /\ Len(rest) = IF n + 1 <= Len(s) THEN Len(s) - (n + 1) + 1 ELSE 0
        /\ \A k \in 1..Len(s) - (n + 1) + 1 : rest[k] = s[(n + 1) + k - 1]
    BY <2>1, SubSeqProperties
  <2>3. /\ n \in Nat /\ n <= Len(s) /\ Len(s) - (n + 1) + 1 = Len(s) - n
        /\ \A k \in 1..Len(s) - n : (n + 1) + k - 1 = n + k
    BY <1>1
  <2>4. Len(rest) = Len(s) - n
    BY <1>1, <2>2, <2>3, RestLength
  <2>5. ASSUME NEW k \in 1..Len(s) - n PROVE rest[k] = s[n + k]
    BY <2>2, <2>3
  <2> QED BY <2>2, <2>4, <2>5
<1>4. DOMAIN first = 1..n /\ DOMAIN rest = 1..Len(s) - n
  BY <1>2, <1>3, LenProperties
<1> HIDE DEF first, rest
<1>5. IsInjective(first) /\ IsInjective(rest)
  <2>1. IsInjective(first)
    BY <1>1, <1>2, <1>4 DEF IsInjective
  <2>2. ASSUME NEW j \in 1..Len(s) - n, NEW k \in 1..Len(s) - n, rest[j] = rest[k]
        PROVE  j = k
    <3>1. s[n + j] = s[n + k] /\ n + j \in 1..Len(s) /\ n + k \in 1..Len(s)
      BY <1>1, <1>3, <2>2
    <3>2. n + j = n + k
      BY <1>1, <3>1 DEF IsInjective
    <3> QED BY <1>1, <3>2
  <2>3. IsInjective(rest)
    BY <1>4, <2>2 DEF IsInjective
  <2> QED BY <2>1, <2>3
<1>6. Range(first) = {s[k] : k \in 1..n}
  BY <1>2, <1>4 DEF Range
<1>7. Range(rest) = Range(s) \ {s[k] : k \in 1..n}
  <2>1. ASSUME NEW x \in Range(rest) PROVE x \in Range(s) \ {s[k] : k \in 1..n}
    <3>1. PICK k \in 1..Len(s) - n : x = s[n + k]
      BY <1>3, <1>4, <2>1 DEF Range
    <3>2. n + k \in 1..Len(s) /\ \A j \in 1..n : s[j] # s[n + k]
      BY <1>1 DEF IsInjective
    <3> QED BY <1>1, <3>1, <3>2 DEF Range
  <2>2. ASSUME NEW x \in Range(s) \ {s[k] : k \in 1..n} PROVE x \in Range(rest)
    <3>1. PICK k \in 1..Len(s) : x = s[k]
      BY <1>1, <2>2 DEF Range
    <3>2. k - n \in 1..Len(s) - n /\ rest[k - n] = s[k]
      BY <1>1, <1>3, <2>2, <3>1
    <3> QED BY <1>4, <3>1, <3>2 DEF Range
  <2> QED BY <2>1, <2>2
<1> QED BY <1>2, <1>3, <1>5, <1>6, <1>7 DEF first, rest

LEMMA HeadAndTail ==
  ASSUME NEW S, NEW s \in Seq(S), IsInjective(s), s # <<>>
  PROVE  /\ Head(s) \in Range(s) /\ Tail(s) \in Seq(S) /\ IsInjective(Tail(s))
         /\ Range(Tail(s)) = Range(s) \ {Head(s)}
<1>1. 1 \in 0..Len(s) /\ 1 \in 1..Len(s) /\ Range(s) = {s[k] : k \in 1..Len(s)}
  BY Listed
<1>2. Head(s) = s[1] /\ Tail(s) = SubSeq(s, 1 + 1, Len(s))
  BY TailIsSubSeq
<1>3. {s[k] : k \in 1..1} = {s[1]}
  <2>1. 1..1 = {1}
    OBVIOUS
  <2> QED BY <2>1
<1>4. /\ SubSeq(s, 1 + 1, Len(s)) \in Seq(S) /\ IsInjective(SubSeq(s, 1 + 1, Len(s)))
      /\ Range(SubSeq(s, 1 + 1, Len(s))) = Range(s) \ {s[k] : k \in 1..1}
  BY <1>1, SplitSeq
<1>5. Tail(s) = SubSeq(s, 1 + 1, Len(s))
  BY <1>2
<1> QED BY <1>1, <1>2, <1>3, <1>4, <1>5

LEMMA SetListed ==
  ASSUME NEW S, IsFiniteSet(S)
  PROVE  /\ SetToSeq(S) \in Seq(S) /\ IsInjective(SetToSeq(S))
         /\ Len(SetToSeq(S)) = Cardinality(S)
<1>1. /\ Cardinality(S) \in Nat
      /\ \E f \in [1..Cardinality(S) -> S] : IsInjective(f)
  <2>1. Cardinality(S) \in Nat /\ ExistsBijection(1..Cardinality(S), S)
    BY FS_CardinalityType
  <2>2. PICK f : f \in Bijection(1..Cardinality(S), S)
    BY <2>1 DEF ExistsBijection
  <2>3. f \in [1..Cardinality(S) -> S] /\ IsInjective(f)
    BY <2>2 DEF Bijection, Injection
  <2> QED BY <2>1, <2>3
<1>2. SetToSeq(S) \in [1..Cardinality(S) -> S] /\ IsInjective(SetToSeq(S))
  BY <1>1 DEF SetToSeq
<1>3. SetToSeq(S) \in Seq(S)
  BY <1>1, <1>2, SeqDef
<1>4. 1..Len(SetToSeq(S)) = 1..Cardinality(S) /\ Len(SetToSeq(S)) \in Nat
  BY <1>2, <1>3, LenProperties
<1> QED BY <1>1, <1>2, <1>3, <1>4

-----------------------------------------------------------------------------
(* The inductive invariant, in three parts.                                  *)

(* The queue: an item is in it, or under way, exactly when its try says so,  *)
(* and in it once; what still goes on has a try left.                        *)
Queued == Range(queue)
Pending == {"queued", "running", "backoff"}

QueueInv ==
  /\ QueueTypeOK
  /\ looping <=> active # {} \/ queue # <<>>
  /\ IsInjective(queue)
  /\ \A i \in Items :
       /\ try[i] = "queued" <=> i \in Queued
       /\ try[i] = "running" <=> i \in active
  /\ IsFiniteSet(active) /\ Cardinality(active) <= MaxWidth

(* The contexts.                                                             *)
Places == {"idle", "restore", "initialize", "config", "request", "filter", "process", "batch",
           "wait", "save", "commit", "cycle", "finish", "record", "done", "gone"}

Contexts ==
  [at : Places, task : Scrapers \cup {NoTask}, target : Scrapers \cup {NoTask},
   mode : {"scrape", "planned", "manual", "failed"},
   page : Nat, more : BOOLEAN, raw : Nat, config : BOOLEAN, errors : BOOLEAN,
   ids : SUBSET Materials, todo : SUBSET Materials, batch : SUBSET Materials,
   got : SUBSET Materials, ads : SUBSET Materials,
   ok : SUBSET Materials, bad : SUBSET Materials, before : SUBSET Materials,
   cycles : 0..MaxPages, empty : 0..MaxEmpty, counted : Nat]

(* A context that goes on has cycles left, and one that is restored a task.  *)
GoesOn(c) ==
  /\ c.at \notin {"finish", "done"} => c.cycles < MaxPages /\ c.empty < MaxEmpty
  /\ c.at = "restore" => c.task \in Scrapers /\ c.mode # "scrape"
  /\ c.at = "record" => c.mode = "failed"

(* What is to be asked for is neither processed nor failed yet.              *)
Books(c) ==
  /\ c.ok \cap c.bad = {} /\ c.before \subseteq c.ok
  /\ c.at \in {"batch", "wait"} => c.todo \cap (c.ok \cup c.bad) = {}
  /\ c.at = "wait" => c.batch \cap (c.ok \cup c.todo) = {}

(* What an execution asked for is in its books, or in the batch it awaits.   *)
Waits(c, m) == c.at = "wait" /\ m \in c.batch

Asked(e, c, tries) ==
  \A m \in Materials :
    /\ tries[<<e, m>>] # "none" => m \notin c.before /\ c.at \notin {"idle", "restore"}
    /\ tries[<<e, m>>] \in Pending => Waits(c, m)
    /\ tries[<<e, m>>] = "ok" => m \in c.ok \/ Waits(c, m)
    /\ tries[<<e, m>>] = "failed" => m \in c.bad \/ Waits(c, m)
    /\ Waits(c, m) /\ m \in c.bad => tries[<<e, m>>] = "failed"

Sound(e, c, tries) ==
  /\ c \in Contexts /\ GoesOn(c) /\ Books(c) /\ Asked(e, c, tries)
  /\ e \in Scrapers => c.mode = "scrape"

(* What was read is accounted for in the database, or failed, or is still on *)
(* its way there.                                                            *)
Read(c) == UNION {MaterialsOn(p) : p \in 2..c.raw}

OnItsWay(c) ==
  CASE c.at \in {"filter", "process"} -> c.ids
    [] c.at = "batch" -> c.ads \cup c.got \cup c.todo
    [] c.at = "wait" -> c.ads \cup c.got \cup c.todo \cup c.batch
    [] c.at = "save" -> c.ads
    [] c.at = "commit" -> c.batch
    [] OTHER -> {}

Kept(c, rows) ==
  /\ Read(c) \subseteq Accounted(rows) \cup c.bad \cup OnItsWay(c)
  /\ c.ok \subseteq c.ads \cup c.got
  /\ c.at \notin {"batch", "wait"} => c.ok \subseteq c.ads
  /\ c.at \notin {"idle", "done"} => c.page = (IF c.raw = 0 THEN 1 ELSE c.raw)

(* What the executions share.                                                *)
States ==
  [exists : BOOLEAN, page : Nat, more : BOOLEAN, ok : SUBSET Materials, bad : SUBSET Materials,
   running : BOOLEAN, completed : BOOLEAN]

StoredInv ==
  /\ stored \in [Scrapers -> States] /\ stale \subseteq Scrapers
  /\ \A t \in Scrapers : stored[t].ok \cap stored[t].bad = {}

SharedInv ==
  StoredInv /\ saved \subseteq Materials /\ plan \subseteq Scrapers /\ faults \in 0..MaxFaults

ContextInv ==
  /\ DOMAIN ctx = Execs /\ \A e \in Execs : Sound(e, ctx[e], try)

SavedInv == faults = 0 => \A e \in Scrapers : Kept(ctx[e], saved)

ScrapeInv == QueueInv /\ ContextInv /\ SharedInv /\ SavedInv

-----------------------------------------------------------------------------
(* The queue.                                                                *)

\* What QueueInv says, put together from the parts a step may change.
LEMMA QueueInvFrom ==
  ASSUME queue' \in Seq(Items), active' \subseteq Items, looping' \in BOOLEAN,
         width' \in 1..MaxWidth, try' \in [Items -> Tries], attempt' \in [Items -> 0..MaxRetries],
         looping' <=> active' # {} \/ queue' # <<>>,
         IsInjective(queue'),
         \A i \in Items : /\ try'[i] = "queued" <=> i \in Range(queue')
                          /\ try'[i] = "running" <=> i \in active',
         IsFiniteSet(active'), Cardinality(active') <= MaxWidth
  PROVE  QueueInv'
  BY DEF QueueInv, QueueTypeOK, Queued

Goes(items) ==
  \A i \in Items : IF i \in Range(items) THEN try'[i] \in {"queued", "running"} ELSE try'[i] = try[i]

LEMMA EnqueueSound ==
  ASSUME QueueInv, NEW items \in Seq(Items), IsInjective(items),
         \A i \in Range(items) : try[i] \notin {"queued", "running"},
         Enqueue(items), UNCHANGED <<width, attempt>>
  PROVE  QueueInv' /\ Goes(items)
<1>1. /\ queue \in Seq(Items) /\ active \subseteq Items /\ looping \in BOOLEAN
      /\ width \in 1..MaxWidth /\ try \in [Items -> Tries] /\ attempt \in [Items -> 0..MaxRetries]
      /\ looping <=> active # {} \/ queue # <<>>
      /\ IsInjective(queue) /\ IsFiniteSet(active) /\ Cardinality(active) <= MaxWidth
  BY DEF QueueInv, QueueTypeOK
<1>2. \A i \in Items : /\ try[i] = "queued" <=> i \in Range(queue)
                       /\ try[i] = "running" <=> i \in active
  BY DEF QueueInv, Queued
<1>3. /\ \A i : (\E k \in 1..Len(items) : items[k] = i) <=> i \in Range(items)
      /\ Range(items) \subseteq Items /\ (items = <<>> <=> Range(items) = {})
  BY Listed
<1>4. width' = width /\ attempt' = attempt
  OBVIOUS
<1>5. CASE looping \/ items = <<>>
  <2>1. queue' = queue \o items /\ active' = active /\ looping' = looping
    BY <1>5 DEF Enqueue, Pushed
  <2>2. try' = [i \in Items |-> IF i \in Range(items) THEN "queued" ELSE try[i]]
    BY <1>3, <1>5 DEF Enqueue, Pushed
  <2>3. queue' \in Seq(Items) /\ Range(queue') = Range(queue) \cup Range(items)
    BY <1>1, <2>1, ConcatProperties, RangeConcatenation
  <2>4. Range(queue) \cap Range(items) = {}
    BY <1>2, <1>3
  <2>5. IsInjective(queue')
    BY <1>1, <2>1, <2>4, ConcatIsInjective
  <2>6. looping' <=> active' # {} \/ queue' # <<>>
    BY <1>1, <1>3, <1>5, <2>1, <2>3, Listed
  <2>7. ASSUME NEW i \in Items
        PROVE  /\ try'[i] \in Tries
               /\ try'[i] = "queued" <=> i \in Range(queue')
               /\ try'[i] = "running" <=> i \in active'
               /\ IF i \in Range(items) THEN try'[i] \in {"queued", "running"} ELSE try'[i] = try[i]
    BY <1>1, <1>2, <1>3, <1>4, <2>1, <2>2, <2>3 DEF Tries, Pending
  <2>8. try' \in [Items -> Tries]
    BY <2>2, <2>7
  <2>9. QueueInv'
    BY <1>1, <1>4, <2>1, <2>3, <2>5, <2>6, <2>7, <2>8, QueueInvFrom
  <2> QED BY <2>7, <2>9 DEF Goes
<1>6. CASE ~looping /\ items # <<>>
  <2>1. active = {} /\ queue = <<>>
    BY <1>1, <1>6
  <2>2. /\ Head(items) \in Range(items) /\ Tail(items) \in Seq(Items) /\ IsInjective(Tail(items))
        /\ Range(Tail(items)) = Range(items) \ {Head(items)}
    BY <1>6, HeadAndTail
  <2>3. queue' = Tail(items) /\ active' = {Head(items)} /\ looping' = TRUE
    BY <1>6, <2>1, <2>2, ConcatEmptySeq DEF Enqueue, Pushed
  <2>4. try' = [i \in Items |-> IF i = Head(items) THEN "running"
                               ELSE IF i \in Range(items) THEN "queued" ELSE try[i]]
    BY <1>3, <1>6, <2>1 DEF Enqueue, Pushed
  <2>5. IsFiniteSet(active') /\ Cardinality(active') <= MaxWidth
    <3>1. IsFiniteSet({Head(items)}) /\ Cardinality({Head(items)}) = 1
      BY FS_Singleton
    <3>2. MaxWidth \in Nat \ {0}
      BY ScrapeAssumption
    <3> QED BY <2>3, <3>1, <3>2
  <2>6. ASSUME NEW i \in Items
        PROVE  /\ try'[i] \in Tries
               /\ try'[i] = "queued" <=> i \in Range(queue')
               /\ try'[i] = "running" <=> i \in active'
               /\ IF i \in Range(items) THEN try'[i] \in {"queued", "running"} ELSE try'[i] = try[i]
    <3>1. try[i] \in Tries /\ try[i] \notin {"queued", "running"}
      <4>1. Range(queue) = {}
        BY <1>1, <2>1, Listed
      <4> QED BY <1>1, <1>2, <2>1, <4>1
    <3> QED BY <1>2, <1>4, <2>2, <2>3, <2>4, <3>1 DEF Tries, Pending
  <2>7. try' \in [Items -> Tries]
    BY <2>4, <2>6
  <2>8. QueueInv'
    BY <1>1, <1>3, <1>4, <2>2, <2>3, <2>5, <2>6, <2>7, QueueInvFrom
  <2> QED BY <2>6, <2>8 DEF Goes
<1> QED BY <1>5, <1>6

\* What a step of the queue does to the tries: those under way go on.
Shifts == \A i \in Items : try'[i] = try[i] \/ (try[i] \in Pending /\ try'[i] # "none")

LEMMA TakeBatchSound ==
  ASSUME QueueInv, TakeBatch
  PROVE  QueueInv' /\ Shifts
<1> DEFINE n == IF Len(queue) < width THEN Len(queue) ELSE width
           batch == {queue[k] : k \in 1..n}
<1>1. /\ queue \in Seq(Items) /\ width \in 1..MaxWidth /\ IsInjective(queue) /\ MaxWidth \in Nat
      /\ try \in [Items -> Tries] /\ attempt \in [Items -> 0..MaxRetries]
  BY ScrapeAssumption DEF QueueInv, QueueTypeOK
<1>2. \A i \in Items : /\ try[i] = "queued" <=> i \in Range(queue)
                       /\ try[i] = "running" <=> i \in active
  BY DEF QueueInv, Queued
<1>3. /\ looping /\ active = {} /\ queue # <<>>
      /\ active' = batch /\ queue' = SubSeq(queue, n + 1, Len(queue))
      /\ try' = [i \in Items |-> IF i \in batch THEN "running" ELSE try[i]]
      /\ looping' = looping /\ width' = width /\ attempt' = attempt
  BY DEF TakeBatch
<1>4. Len(queue) \in Nat \ {0} /\ Range(queue) \subseteq Items
  BY <1>1, <1>3, Listed
<1>5. n \in 1..Len(queue) /\ n <= width /\ n \in 0..Len(queue)
  BY <1>1, <1>4
<1>6. /\ queue' \in Seq(Items) /\ IsInjective(queue') /\ Range(queue') = Range(queue) \ batch
  <2> HIDE DEF n
  <2> QED BY <1>1, <1>3, <1>5, SplitSeq
<1>7. batch \subseteq Range(queue) /\ batch # {}
  <2>1. Range(queue) = {queue[k] : k \in 1..Len(queue)}
    BY <1>1, Listed
  <2>2. 1..n \subseteq 1..Len(queue) /\ 1 \in 1..n
    BY <1>4, <1>5
  <2> HIDE DEF n
  <2> QED BY <2>1, <2>2
<1>8. IsFiniteSet(batch) /\ Cardinality(batch) <= MaxWidth
  <2>1. IsFiniteSet(1..n) /\ Cardinality(1..n) = n
    BY <1>4, <1>5, FS_Interval
  <2> DEFINE f == [k \in 1..n |-> queue[k]]
  <2>2. f \in Surjection(1..n, batch)
    <3> HIDE DEF n
    <3> QED BY DEF Surjection
  <2>3. IsFiniteSet(batch) /\ Cardinality(batch) <= Cardinality(1..n)
    <3> HIDE DEF n, batch, f
    <3> QED BY <2>1, <2>2, FS_Surjection
  <2>4. Cardinality(batch) \in Nat
    BY <2>3, FS_CardinalityType
  <2> QED BY <1>1, <1>4, <1>5, <2>1, <2>3, <2>4
<1> HIDE DEF n, batch
<1>9. looping' \in BOOLEAN /\ (looping' <=> active' # {} \/ queue' # <<>>)
  BY <1>3, <1>7 DEF QueueInv, QueueTypeOK
<1>10. ASSUME NEW i \in Items
       PROVE  /\ try'[i] \in Tries
              /\ try'[i] = "queued" <=> i \in Range(queue')
              /\ try'[i] = "running" <=> i \in active'
              /\ try'[i] = try[i] \/ (try[i] \in Pending /\ try'[i] # "none")
  <2>1. try[i] \in Tries
    BY <1>1
  <2> QED BY <1>2, <1>3, <1>6, <1>7, <2>1 DEF Tries, Pending
<1>11. try' \in [Items -> Tries] /\ active' \subseteq Items
  BY <1>3, <1>4, <1>7, <1>10
<1>12. QueueInv'
  BY <1>1, <1>3, <1>6, <1>8, <1>9, <1>10, <1>11, QueueInvFrom
<1> QED BY <1>10, <1>12 DEF Shifts

\* A request that is answered: it leaves the batch, with a new try.
LEMMA AnsweredSound ==
  ASSUME QueueInv, NEW i \in active, Leave(i), NEW result \in {"ok", "failed", "backoff"},
         try' = [try EXCEPT ![i] = result], NEW n \in 0..MaxRetries,
         attempt' = [attempt EXCEPT ![i] = n],
         UNCHANGED <<queue, width>>
  PROVE  QueueInv' /\ Shifts
<1>1. /\ queue \in Seq(Items) /\ width \in 1..MaxWidth /\ IsInjective(queue)
      /\ try \in [Items -> Tries] /\ attempt \in [Items -> 0..MaxRetries]
      /\ active \subseteq Items /\ looping /\ i \in Items
  BY DEF QueueInv, QueueTypeOK
<1>2. \A j \in Items : /\ try[j] = "queued" <=> j \in Range(queue)
                       /\ try[j] = "running" <=> j \in active
  BY DEF QueueInv, Queued
<1>3. active' = active \ {i} /\ looping' = (active # {i} \/ queue # <<>>) /\ queue' = queue /\ width' = width
  BY DEF Leave
<1>4. IsFiniteSet(active') /\ Cardinality(active') <= MaxWidth
  <2>1. IsFiniteSet(active) /\ Cardinality(active) <= MaxWidth /\ Cardinality(active) \in Nat /\ MaxWidth \in Nat
    BY ScrapeAssumption, FS_CardinalityType DEF QueueInv
  <2>2. IsFiniteSet(active') /\ Cardinality(active') <= Cardinality(active)
    BY <1>3, <2>1, FS_Subset
  <2>3. Cardinality(active') \in Nat
    BY <2>2, FS_CardinalityType
  <2> QED BY <2>1, <2>2, <2>3
<1>5. looping' \in BOOLEAN /\ (looping' <=> active' # {} \/ queue' # <<>>)
  BY <1>3
<1>6. ASSUME NEW j \in Items
      PROVE  /\ try'[j] \in Tries
             /\ attempt'[j] \in 0..MaxRetries
             /\ try'[j] = "queued" <=> j \in Range(queue')
             /\ try'[j] = "running" <=> j \in active'
             /\ try'[j] = try[j] \/ (try[j] \in Pending /\ try'[j] # "none")
  <2>1. CASE j = i
    BY <1>1, <1>2, <1>3, <2>1 DEF Tries, Pending
  <2>2. CASE j # i
    BY <1>1, <1>2, <1>3, <2>2
  <2> QED BY <2>1, <2>2
<1>7. try' \in [Items -> Tries] /\ attempt' \in [Items -> 0..MaxRetries] /\ active' \subseteq Items
  BY <1>1, <1>3 DEF Tries
<1>8. QueueInv'
  BY <1>1, <1>3, <1>4, <1>5, <1>6, <1>7, QueueInvFrom
<1> QED BY <1>6, <1>8 DEF Shifts

LEMMA AnswerSound ==
  ASSUME QueueInv, NEW i \in Items, Answer(i)
  PROVE  QueueInv' /\ Shifts
<1>1. /\ MaxRetries \in Nat /\ attempt \in [Items -> 0..MaxRetries]
  BY ScrapeAssumption DEF QueueInv, QueueTypeOK
<1>2. CASE Succeed(i)
  <2>1. 0 \in 0..MaxRetries
    BY <1>1
  <2> QED BY <1>2, <2>1, AnsweredSound DEF Succeed
<1>3. ASSUME NEW answer \in Answers, Fail(i, answer) PROVE QueueInv' /\ Shifts
  <2> DEFINE ends == GivesUp(answer, attempt[i] + 1)
             n == IF ends THEN 0 ELSE attempt[i] + 1
             result == IF ends THEN "failed" ELSE "backoff"
  <2>1. n \in 0..MaxRetries
    BY <1>1 DEF GivesUp
  <2>2. result \in {"ok", "failed", "backoff"}
    OBVIOUS
  <2>3. /\ i \in active /\ Leave(i) /\ attempt' = [attempt EXCEPT ![i] = n]
        /\ try' = [try EXCEPT ![i] = result] /\ UNCHANGED <<queue, width>>
    BY <1>3 DEF Fail
  <2> HIDE DEF n, result
  <2> QED BY <2>1, <2>2, <2>3, AnsweredSound
<1> QED BY <1>2, <1>3 DEF Answer

LEMMA RetrySound ==
  ASSUME QueueInv, NEW i \in Items, Retry(i)
  PROVE  QueueInv' /\ Shifts
<1>1. /\ <<i>> \in Seq(Items) /\ Len(<<i>>) = 1 /\ <<i>>[1] = i
  OBVIOUS
<1>2. Range(<<i>>) = {i} /\ IsInjective(<<i>>)
  <2>1. DOMAIN <<i>> = {1}
    BY <1>1, LenProperties
  <2> QED BY <1>1, <2>1 DEF Range, IsInjective
<1>3. try[i] = "backoff"
  BY DEF Retry
<1>4. QueueInv' /\ Goes(<<i>>)
  BY <1>1, <1>2, <1>3, EnqueueSound DEF Retry
<1> QED BY <1>2, <1>3, <1>4 DEF Goes, Shifts, Pending

LEMMA AdjustSound ==
  ASSUME QueueInv, AdjustParameters
  PROVE  QueueInv' /\ Shifts
  BY DEF QueueInv, QueueTypeOK, AdjustParameters, Shifts, Queued

LEMMA QueueStepSound ==
  ASSUME QueueInv, QueueStep
  PROVE  QueueInv' /\ Shifts
  BY TakeBatchSound, AnswerSound, RetrySound, AdjustSound DEF QueueStep

\* What an execution that waits for nothing asked for can be forgotten.
LEMMA ForgottenSound ==
  ASSUME QueueInv, NEW e \in Execs, Forgotten(e), \A m \in Materials : try[<<e, m>>] \notin Pending
  PROVE  /\ QueueInv' /\ \A m \in Materials : try'[<<e, m>>] = "none"
         /\ \A d \in Execs \ {e}, m \in Materials : try'[<<d, m>>] = try[<<d, m>>]
         /\ \A i \in Items : try'[i] \in {try[i], "none"}
<1>1. /\ queue \in Seq(Items) /\ width \in 1..MaxWidth /\ IsInjective(queue)
      /\ try \in [Items -> Tries] /\ attempt \in [Items -> 0..MaxRetries]
      /\ active \subseteq Items /\ looping \in BOOLEAN
      /\ looping <=> active # {} \/ queue # <<>>
      /\ IsFiniteSet(active) /\ Cardinality(active) <= MaxWidth
  BY DEF QueueInv, QueueTypeOK
<1>2. \A j \in Items : /\ try[j] = "queued" <=> j \in Range(queue)
                       /\ try[j] = "running" <=> j \in active
  BY DEF QueueInv, Queued
<1>3. /\ queue' = queue /\ active' = active /\ looping' = looping /\ width' = width
      /\ try' = [i \in Items |-> IF i[1] = e THEN "none" ELSE try[i]]
      /\ attempt' = [i \in Items |-> IF i[1] = e THEN 0 ELSE attempt[i]]
  BY DEF Forgotten
<1>4. ASSUME NEW j \in Items
      PROVE  /\ try'[j] \in Tries /\ attempt'[j] \in 0..MaxRetries
             /\ try'[j] = "queued" <=> j \in Range(queue')
             /\ try'[j] = "running" <=> j \in active'
             /\ try'[j] \in {try[j], "none"}
  <2>1. CASE j[1] = e
    <3>1. PICK m \in Materials : j = <<e, m>>
      BY <2>1 DEF Items
    <3>2. try[j] \notin Pending /\ try'[j] = "none" /\ attempt'[j] = 0
      BY <1>3, <2>1, <3>1
    <3>3. MaxRetries \in Nat
      BY ScrapeAssumption
    <3> QED BY <1>2, <1>3, <3>2, <3>3 DEF Pending, Tries
  <2>2. CASE j[1] # e
    BY <1>1, <1>2, <1>3, <2>2
  <2> QED BY <2>1, <2>2
<1>5. try' \in [Items -> Tries] /\ attempt' \in [Items -> 0..MaxRetries]
  BY <1>3, <1>4
<1>6. QueueInv'
  BY <1>1, <1>3, <1>4, <1>5, QueueInvFrom
<1>7. \A m \in Materials : <<e, m>> \in Items /\ try'[<<e, m>>] = "none"
  BY <1>3 DEF Items
<1>8. \A d \in Execs \ {e}, m \in Materials : try'[<<d, m>>] = try[<<d, m>>]
  BY <1>3 DEF Items
<1> QED BY <1>4, <1>6, <1>7, <1>8

LEMMA EmptyQueue ==
  ASSUME queue' = <<>>, active' = {}, looping' = FALSE, width' = 1,
         try' = [i \in Items |-> "none"], attempt' = [i \in Items |-> 0]
  PROVE  QueueInv'
<1>1. MaxWidth \in Nat \ {0} /\ MaxRetries \in Nat
  BY ScrapeAssumption
<1>2. queue' \in Seq(Items) /\ IsInjective(queue') /\ Range(queue') = {}
  <2>1. <<>> \in Seq(Items) /\ DOMAIN <<>> = {}
    BY EmptySeq
  <2> QED BY <2>1 DEF IsInjective, Range
<1>3. IsFiniteSet(active') /\ Cardinality(active') <= MaxWidth
  BY <1>1, FS_EmptySet
<1>4. \A i \in Items : /\ try'[i] = "queued" <=> i \in Range(queue')
                       /\ try'[i] = "running" <=> i \in active'
  BY <1>2 DEF Pending
<1>5. try' \in [Items -> Tries] /\ attempt' \in [Items -> 0..MaxRetries]
  BY <1>1 DEF Tries
<1>6. /\ active' \subseteq Items /\ looping' \in BOOLEAN /\ width' \in 1..MaxWidth
      /\ looping' <=> active' # {} \/ queue' # <<>>
  <2>1. width' \in 1..MaxWidth
    BY <1>1
  <2>2. ~looping' /\ ~(active' # {} \/ queue' # <<>>) /\ looping' \in BOOLEAN
    BY Zenon
  <2> QED BY <2>1, <2>2
<1> QED BY <1>2, <1>3, <1>4, <1>5, <1>6, QueueInvFrom

-----------------------------------------------------------------------------
(* What a step of an execution has to show: its new context is sound, and    *)
(* keeps what it read; and what the executions share is as it should be.     *)

Becomes(e, new) == ctx' = [ctx EXCEPT ![e] = new]

Alone(e) == \A d \in Execs \ {e}, m \in Materials : try'[<<d, m>>] = try[<<d, m>>]

\* What is accounted for stays so: rows are never removed.
LEMMA AccountedStays ==
  ASSUME NEW rows, NEW more, rows \subseteq more
  PROVE  Accounted(rows) \subseteq Accounted(more) /\ rows \subseteq Accounted(rows)
  BY DEF Accounted, Taken

LEMMA StepSound ==
  ASSUME ScrapeInv, NEW e \in Execs, NEW new, Becomes(e, new), Sound(e, new, try'),
         QueueInv', Alone(e), SharedInv', saved \subseteq saved', faults' = 0 => faults = 0,
         faults' = 0 /\ e \in Scrapers => Kept(new, saved')
  PROVE  ScrapeInv'
<1>1. DOMAIN ctx = Execs /\ \A d \in Execs : Sound(d, ctx[d], try)
  BY DEF ScrapeInv, ContextInv
<1>2. /\ DOMAIN ctx' = Execs /\ ctx'[e] = new /\ \A d \in Execs \ {e} : ctx'[d] = ctx[d]
  BY <1>1 DEF Becomes
<1>3. ASSUME NEW d \in Execs PROVE Sound(d, ctx'[d], try')
  <2>1. CASE d = e
    BY <1>2, <2>1
  <2>2. CASE d # e
    BY <1>1, <1>2, <2>2 DEF Alone, Sound, Asked
  <2> QED BY <2>1, <2>2
<1>4. ASSUME faults' = 0, NEW d \in Scrapers PROVE Kept(ctx'[d], saved')
  <2>1. CASE d = e
    BY <1>2, <1>4, <2>1
  <2>2. CASE d # e
    <3>1. Kept(ctx[d], saved) /\ ctx'[d] = ctx[d]
      BY <1>2, <1>4, <2>2, ScrapeAssumption DEF ScrapeInv, SavedInv
    <3>2. Accounted(saved) \subseteq Accounted(saved')
      BY AccountedStays
    <3> QED BY <3>1, <3>2 DEF Kept
  <2> QED BY <2>1, <2>2
<1> QED BY <1>2, <1>3, <1>4 DEF ScrapeInv, ContextInv, SavedInv

\* Without a request made, answered or forgotten.
LEMMA QuietSound ==
  ASSUME ScrapeInv, NEW e \in Execs, NEW new, Becomes(e, new), Sound(e, new, try),
         UNCHANGED queueVars, SharedInv', saved \subseteq saved', faults' = 0 => faults = 0,
         faults' = 0 /\ e \in Scrapers => Kept(new, saved')
  PROVE  ScrapeInv'
<1>1. QueueInv' /\ try' = try
  BY DEF ScrapeInv, QueueInv, QueueTypeOK, queueVars, Queued
<1> QED BY <1>1, StepSound DEF Alone

\* A step of the queue, or of the recovery, that leaves the contexts alone.
LEMMA ShiftsSound ==
  ASSUME ScrapeInv, QueueInv', Shifts, UNCHANGED ctx, SharedInv', saved' = saved,
         faults' = 0 => faults = 0
  PROVE  ScrapeInv'
<1>1. ASSUME NEW e \in Execs PROVE Sound(e, ctx[e], try')
  <2>1. Sound(e, ctx[e], try)
    BY DEF ScrapeInv, ContextInv
  <2>2. ASSUME NEW m \in Materials
        PROVE  /\ try'[<<e, m>>] # "none" => m \notin ctx[e].before /\ ctx[e].at \notin {"idle", "restore"}
               /\ try'[<<e, m>>] \in Pending => Waits(ctx[e], m)
               /\ try'[<<e, m>>] = "ok" => m \in ctx[e].ok \/ Waits(ctx[e], m)
               /\ try'[<<e, m>>] = "failed" => m \in ctx[e].bad \/ Waits(ctx[e], m)
               /\ Waits(ctx[e], m) /\ m \in ctx[e].bad => try'[<<e, m>>] = "failed"
    <3>1. <<e, m>> \in Items
      BY DEF Items
    <3> QED BY <2>1, <3>1 DEF Sound, Asked, Shifts, Pending
  <2> QED BY <2>1, <2>2 DEF Sound, Asked
<1> QED BY <1>1 DEF ScrapeInv, ContextInv, SavedInv

LEMMA ContextIsSound ==
  ASSUME ScrapeInv, NEW e \in Execs
  PROVE  /\ ctx[e] \in Contexts /\ GoesOn(ctx[e]) /\ Books(ctx[e]) /\ Asked(e, ctx[e], try)
         /\ e \in Scrapers => ctx[e].mode = "scrape"
         /\ faults = 0 /\ e \in Scrapers => Kept(ctx[e], saved)
  BY DEF ScrapeInv, ContextInv, Sound, SavedInv

-----------------------------------------------------------------------------
(* The stored states.                                                        *)

LEMMA Faulty ==
  ASSUME ScrapeInv, Fault
  PROVE  faults' \in 0..MaxFaults /\ faults' # 0
  BY ScrapeAssumption DEF ScrapeInv, SharedInv, Fault

LEMMA UpdatedSound ==
  ASSUME StoredInv, NEW t, NEW more \in BOOLEAN, NEW p \in Nat, NEW ok \in SUBSET Materials,
         NEW bad \in SUBSET Materials, ok \cap bad = {}, t \in Scrapers \cup {NoTask},
         Updated(t, more, p, ok, bad)
  PROVE  StoredInv'
<1>1. CASE ~Exists(t)
  BY <1>1 DEF Updated, StoredInv
<1>2. CASE Exists(t)
  <2>1. t \in Scrapers
    BY <1>2 DEF Exists
  <2> DEFINE new == [stored[t] EXCEPT !.page = p, !.more = more, !.ok = ok, !.bad = bad]
  <2>2. stored' = [stored EXCEPT ![t] = new] /\ stale' = stale \ {t}
    BY <1>2 DEF Updated
  <2>3. new \in States /\ new.ok \cap new.bad = {}
    BY <2>1 DEF StoredInv, States
  <2> HIDE DEF new
  <2> QED BY <2>1, <2>2, <2>3 DEF StoredInv
<1> QED BY <1>1, <1>2

LEMMA MarkedSound ==
  ASSUME StoredInv, NEW t, NEW running \in BOOLEAN, NEW completed \in BOOLEAN,
         t \in Scrapers \cup {NoTask}, Marked(t, running, completed)
  PROVE  StoredInv'
<1>1. CASE ~Exists(t)
  BY <1>1 DEF Marked, StoredInv
<1>2. CASE Exists(t)
  <2>1. t \in Scrapers
    BY <1>2 DEF Exists
  <2> DEFINE new == [stored[t] EXCEPT !.running = running, !.completed = completed]
  <2>2. stored' = [stored EXCEPT ![t] = new] /\ stale' = stale \ {t}
    BY <1>2 DEF Marked
  <2>3. new \in States /\ new.ok \cap new.bad = {}
    BY <2>1 DEF StoredInv, States
  <2> HIDE DEF new
  <2> QED BY <2>1, <2>2, <2>3 DEF StoredInv
<1> QED BY <1>1, <1>2

LEMMA ProgressSound ==
  ASSUME ScrapeInv, NEW e \in Execs, NEW c \in Contexts, Books(c), Progress(e, c),
         UNCHANGED <<saved, plan>>
  PROVE  SharedInv' /\ (faults' = 0 => faults = 0)
<1>1. StoredInv /\ saved' \subseteq Materials /\ plan' \subseteq Scrapers /\ faults \in 0..MaxFaults
  BY DEF ScrapeInv, SharedInv
<1>2. CASE Updated(c.task, c.more, c.page, c.ok, c.bad) /\ UNCHANGED faults
  <2>1. /\ c.more \in BOOLEAN /\ c.page \in Nat /\ c.ok \in SUBSET Materials
        /\ c.bad \in SUBSET Materials /\ c.task \in Scrapers \cup {NoTask} /\ c.ok \cap c.bad = {}
    BY DEF Contexts, Books
  <2>2. StoredInv'
    BY <1>1, <1>2, <2>1, UpdatedSound
  <2> QED BY <1>1, <1>2, <2>2 DEF SharedInv
<1>3. CASE Fault /\ UNCHANGED <<stored, stale>>
  BY <1>1, <1>3, Faulty DEF SharedInv, StoredInv
<1> QED BY <1>2, <1>3 DEF Progress

\* Nothing shared changes, or a fault is all that does.
LEMMA SharedStays ==
  ASSUME ScrapeInv, UNCHANGED <<stored, stale, saved, plan>>, UNCHANGED faults \/ Fault
  PROVE  SharedInv' /\ saved \subseteq saved' /\ (faults' = 0 => faults = 0)
  BY Faulty DEF ScrapeInv, SharedInv, StoredInv

\* A step outside the batches that leaves the books as they are.
LEMMA MovesOn ==
  ASSUME ScrapeInv, NEW e \in Execs, NEW new \in Contexts, Becomes(e, new), GoesOn(new),
         \A f \in {"mode", "ok", "bad", "before"} : new[f] = ctx[e][f],
         ctx[e].at # "wait", new.at \notin {"batch", "wait", "idle", "restore"},
         UNCHANGED queueVars, SharedInv', saved \subseteq saved', faults' = 0 => faults = 0,
         faults' = 0 /\ e \in Scrapers => Kept(new, saved')
  PROVE  ScrapeInv'
<1>1. Books(ctx[e]) /\ Asked(e, ctx[e], try) /\ (e \in Scrapers => ctx[e].mode = "scrape")
  BY ContextIsSound
<1>2. new.mode = ctx[e].mode /\ new.ok = ctx[e].ok /\ new.bad = ctx[e].bad /\ new.before = ctx[e].before
  OBVIOUS
<1>3. Books(new) /\ Asked(e, new, try)
  BY <1>1, <1>2 DEF Books, Asked, Waits, Pending
<1> QED BY <1>1, <1>2, <1>3, QuietSound DEF Sound

LEMMA KeptStays ==
  ASSUME NEW c, NEW new, NEW rows, NEW more, rows \subseteq more, Kept(c, rows),
         \A f \in {"raw", "page", "ads", "ok", "bad"} : new[f] = c[f],
         c.at \notin {"idle", "done", "batch", "wait"}, new.at \notin {"batch", "wait"},
         OnItsWay(c) \subseteq Accounted(more) \cup OnItsWay(new)
  PROVE  Kept(new, more)
<1>1. new.raw = c.raw /\ new.page = c.page /\ new.ads = c.ads /\ new.ok = c.ok /\ new.bad = c.bad
  OBVIOUS
<1>2. Read(new) = Read(c)
  BY <1>1 DEF Read
<1>3. Read(new) \subseteq Accounted(more) \cup new.bad \cup OnItsWay(new)
  BY <1>1, <1>2, AccountedStays DEF Kept
<1> QED BY <1>1, <1>3 DEF Kept

-----------------------------------------------------------------------------
(* The steps of the pipeline.                                                *)

LEMMA EndCycleSound ==
  ASSUME ScrapeInv, NEW e \in Execs, EndCycle(e)
  PROVE  ScrapeInv'
<1> DEFINE c == ctx[e]
           new == [c EXCEPT !.cycles = c.cycles + 1, !.empty = Empty(c), !.counted = Cardinality(c.ads),
                            !.errors = c.errors \/ Trips(c),
                            !.at = IF Stops(c) THEN "finish" ELSE "request"]
<1>1. /\ c \in Contexts /\ GoesOn(c) /\ Books(c) /\ Asked(e, c, try) /\ c.at = "cycle"
      /\ e \in Scrapers => c.mode = "scrape"
      /\ faults = 0 /\ e \in Scrapers => Kept(c, saved)
  BY ContextIsSound DEF EndCycle, At
<1>2. Cardinality(c.ads) \in Nat
  BY <1>1, ScrapeAssumption, FS_Subset, FS_CardinalityType DEF Contexts
<1>3. MaxPages \in Nat \ {0} /\ MaxEmpty \in Nat \ {0}
  BY ScrapeAssumption
<1>4. /\ c.cycles + 1 \in 0..MaxPages /\ Empty(c) \in 0..MaxEmpty
      /\ ~Stops(c) => c.cycles + 1 < MaxPages /\ Empty(c) < MaxEmpty
  BY <1>1, <1>3 DEF Contexts, GoesOn, Empty, Stops
<1>5. Becomes(e, new)
  BY <1>1 DEF EndCycle, Becomes, Contexts
<1>6. (c.errors \/ Trips(c)) \in BOOLEAN
  OBVIOUS
<1> HIDE DEF c
<1>7. /\ new \in Contexts /\ new.at = (IF Stops(c) THEN "finish" ELSE "request")
      /\ new.cycles = c.cycles + 1 /\ new.empty = Empty(c)
      /\ \A f \in {"mode", "ok", "bad", "before", "batch", "todo", "ads", "got", "page", "raw"} : new[f] = c[f]
  BY <1>1, <1>2, <1>4, <1>6 DEF Contexts, Places
<1>8. GoesOn(new)
  BY <1>4, <1>7 DEF GoesOn
<1>9. faults = 0 /\ e \in Scrapers => Kept(new, saved)
  <2>1. OnItsWay(c) = {}
    BY <1>1 DEF OnItsWay
  <2>2. \A f \in {"raw", "page", "ads", "ok", "bad"} : new[f] = c[f]
    BY <1>7
  <2>3. new.at \notin {"batch", "wait"}
    BY <1>7
  <2> QED BY <1>1, <2>1, <2>2, <2>3, KeptStays
<1>10. SharedInv' /\ saved' = saved /\ faults' = faults
  BY SharedStays DEF EndCycle, shared, recovery
<1> HIDE DEF new
<1> QED BY <1>1, <1>5, <1>7, <1>8, <1>9, <1>10, MovesOn DEF EndCycle, c

\* What a context that reads nothing yet has to keep.
LEMMA KeptNothing ==
  ASSUME NEW c, NEW rows, c.raw = 0, c.ok = {}, c.page = 1 \/ c.at = "idle"
  PROVE  Kept(c, rows)
<1>1. 2..0 = {}
  OBVIOUS
<1>2. Read(c) = {}
  BY <1>1 DEF Read
<1> QED BY <1>2 DEF Kept

LEMMA BlankTyped ==
  /\ Blank \in Contexts /\ Blank.cycles < MaxPages /\ Blank.empty < MaxEmpty
  /\ Blank.at = "idle" /\ Blank.mode = "scrape" /\ Blank.page = 0 /\ Blank.raw = 0
  /\ Blank.ok = {} /\ Blank.bad = {} /\ Blank.before = {} /\ Blank.todo = {} /\ Blank.batch = {}
<1>1. MaxPages \in Nat \ {0} /\ MaxEmpty \in Nat \ {0}
  BY ScrapeAssumption
<1> QED BY <1>1 DEF Blank, Contexts, Places

\* An execution that begins asked for nothing; its context does not wait.
LEMMA BeginSound ==
  ASSUME NEW e \in Execs, NEW c, Asked(e, c, try), c.at \in {"idle", "restore"},
         NEW new \in Contexts, GoesOn(new), new.at \notin {"batch", "wait"},
         new.ok \cap new.bad = {}, new.before \subseteq new.ok, e \in Scrapers => new.mode = "scrape"
  PROVE  Sound(e, new, try)
<1>1. \A m \in Materials : try[<<e, m>>] = "none"
  BY DEF Asked
<1>2. Asked(e, new, try)
  BY <1>1 DEF Asked, Waits, Pending
<1> QED BY <1>2 DEF Sound, Books

LEMMA ScrapeStarts ==
  ASSUME ScrapeInv, NEW e \in Execs, Scrape(e)
  PROVE  ScrapeInv'
<1> DEFINE new == [Blank EXCEPT !.at = "initialize", !.task = e, !.page = 1]
<1>1. /\ Asked(e, ctx[e], try) /\ ctx[e].at = "idle" /\ e \in Scrapers
      /\ Becomes(e, new) /\ UNCHANGED queueVars
  BY ContextIsSound DEF Scrape, At, Becomes
<1>2. /\ new \in Contexts /\ new.at = "initialize" /\ new.page = 1 /\ new.raw = 0 /\ new.mode = "scrape"
      /\ new.ok = {} /\ new.bad = {} /\ new.before = {} /\ new.cycles < MaxPages /\ new.empty < MaxEmpty
  BY <1>1, BlankTyped DEF Contexts, Places
<1> HIDE DEF new
<1>3. GoesOn(new) /\ Kept(new, saved)
  BY <1>2, KeptNothing DEF GoesOn
<1>4. SharedInv' /\ saved' = saved /\ faults' = faults
  BY SharedStays DEF Scrape, shared, recovery
<1>5. Sound(e, new, try)
  BY <1>1, <1>2, <1>3, BeginSound
<1> QED BY <1>1, <1>3, <1>4, <1>5, QuietSound

LEMMA RestoreSound ==
  ASSUME ScrapeInv, NEW e \in Execs, Restore(e)
  PROVE  ScrapeInv'
<1> DEFINE c == ctx[e]
           t == c.task
<1>1. /\ c \in Contexts /\ GoesOn(c) /\ Asked(e, c, try) /\ c.at = "restore"
      /\ t \in Scrapers /\ e \notin Scrapers
  BY ContextIsSound DEF Restore, At, GoesOn
<1>2. c.cycles < MaxPages /\ c.empty < MaxEmpty
  BY <1>1 DEF GoesOn
<1>3. SharedInv' /\ saved \subseteq saved' /\ (faults' = 0 => faults = 0) /\ UNCHANGED queueVars
  BY SharedStays DEF Restore, shared, recovery
<1>4. ASSUME NEW new \in Contexts, Becomes(e, new), new.at = "initialize",
             new.cycles < MaxPages, new.empty < MaxEmpty,
             new.ok \cap new.bad = {}, new.before \subseteq new.ok
      PROVE  ScrapeInv'
  <2>1. GoesOn(new)
    BY <1>4 DEF GoesOn
  <2>2. Sound(e, new, try)
    BY <1>1, <1>4, <2>1, BeginSound
  <2> QED BY <1>1, <1>3, <1>4, <2>2, QuietSound
<1>5. CASE ctx' = [ctx EXCEPT ![e].page = stored[t].page, ![e].more = stored[t].more,
                              ![e].ok = stored[t].ok, ![e].bad = stored[t].bad,
                              ![e].before = stored[t].ok, ![e].at = "initialize"]
  <2> DEFINE state == stored[t]
             new == [c EXCEPT !.page = state.page, !.more = state.more, !.ok = state.ok,
                              !.bad = state.bad, !.before = state.ok, !.at = "initialize"]
  <2>1. state \in States /\ state.ok \cap state.bad = {}
    BY <1>1 DEF ScrapeInv, SharedInv, StoredInv
  <2>2. Becomes(e, new)
    BY <1>5 DEF Becomes
  <2>3. /\ new \in Contexts /\ new.at = "initialize" /\ new.cycles = c.cycles /\ new.empty = c.empty
        /\ new.ok = state.ok /\ new.bad = state.bad /\ new.before = state.ok
    <3> HIDE DEF c, state
    <3> QED BY <1>1, <2>1 DEF Contexts, States, Places
  <2> HIDE DEF new
  <2> QED BY <1>2, <1>4, <2>1, <2>2, <2>3
<1>6. CASE ctx' = [ctx EXCEPT ![e] = [Blank EXCEPT !.at = "initialize", !.page = 1,
                                        !.mode = ctx[e].mode, !.target = t]]
  <2> DEFINE new == [Blank EXCEPT !.at = "initialize", !.page = 1, !.mode = c.mode, !.target = t]
  <2>1. Becomes(e, new)
    BY <1>6 DEF Becomes
  <2>2. /\ new \in Contexts /\ new.at = "initialize" /\ new.cycles = Blank.cycles /\ new.empty = Blank.empty
        /\ new.ok = {} /\ new.bad = {} /\ new.before = {}
    <3> HIDE DEF c
    <3> QED BY <1>1, BlankTyped DEF Contexts, Places
  <2> HIDE DEF new
  <2> QED BY <1>4, <2>1, <2>2, BlankTyped
<1> QED BY <1>5, <1>6 DEF Restore

\* A step that leaves alone what was read, and loses nothing on its way.
LEMMA PassesOn ==
  ASSUME ScrapeInv, NEW e \in Execs, NEW new \in Contexts, Becomes(e, new), GoesOn(new),
         \A f \in {"mode", "ok", "bad", "before", "raw", "page", "ads"} : new[f] = ctx[e][f],
         ctx[e].at \in {"initialize", "config", "request", "save", "commit", "cycle"},
         new.at \in {"config", "request", "commit", "cycle", "finish"},
         UNCHANGED queueVars, SharedInv', saved \subseteq saved', faults' = 0 => faults = 0,
         faults' = 0 /\ ctx[e].at \in {"save", "commit"} =>
           OnItsWay(ctx[e]) \subseteq Accounted(saved') \cup OnItsWay(new)
  PROVE  ScrapeInv'
<1>1. ASSUME faults' = 0, e \in Scrapers PROVE Kept(new, saved')
  <2>1. Kept(ctx[e], saved)
    BY <1>1, ContextIsSound
  <2>2. OnItsWay(ctx[e]) \subseteq Accounted(saved') \cup OnItsWay(new)
    <3>1. ctx[e].at \notin {"save", "commit"} => OnItsWay(ctx[e]) = {}
      BY DEF OnItsWay
    <3> QED BY <1>1, <3>1
  <2>3. \A f \in {"raw", "page", "ads", "ok", "bad"} : new[f] = ctx[e][f]
    OBVIOUS
  <2>4. ctx[e].at \notin {"idle", "done", "batch", "wait"} /\ new.at \notin {"batch", "wait"}
    OBVIOUS
  <2> QED BY <2>1, <2>2, <2>3, <2>4, KeptStays
<1>2. \A f \in {"mode", "ok", "bad", "before"} : new[f] = ctx[e][f]
  OBVIOUS
<1>3. ctx[e].at # "wait" /\ new.at \notin {"batch", "wait", "idle", "restore"}
  OBVIOUS
<1> QED BY <1>1, <1>2, <1>3, MovesOn

LEMMA SaveInitialSound ==
  ASSUME ScrapeInv, NEW e \in Execs, SaveInitial(e)
  PROVE  ScrapeInv'
<1> DEFINE c == ctx[e]
           new == [c EXCEPT !.at = "config"]
           state == [exists |-> TRUE, page |-> c.page, more |-> c.more, ok |-> c.ok,
                     bad |-> c.bad, running |-> TRUE, completed |-> FALSE]
<1>1. c \in Contexts /\ GoesOn(c) /\ Books(c) /\ c.at = "initialize"
  BY ContextIsSound DEF SaveInitial, At
<1>2. Becomes(e, new) /\ UNCHANGED queueVars
  BY DEF SaveInitial, Becomes
<1>3. StoredInv'
  <2>0. StoredInv
    BY DEF ScrapeInv, SharedInv
  <2>1. CASE c.task = NoTask
    BY <2>0, <2>1 DEF SaveInitial, StoredInv
  <2>2. CASE c.task # NoTask
    <3>1. c.task \in Scrapers /\ state \in States /\ state.ok \cap state.bad = {}
      BY <1>1, <2>2 DEF Contexts, States, Books
    <3>2. stored' = [stored EXCEPT ![c.task] = state] /\ stale' = stale \ {c.task}
      BY <2>2 DEF SaveInitial
    <3> HIDE DEF state
    <3> QED BY <2>0, <3>1, <3>2 DEF StoredInv
  <2> QED BY <2>1, <2>2
<1>4. SharedInv' /\ saved' = saved /\ faults' = faults
  BY <1>3 DEF SaveInitial, ScrapeInv, SharedInv, recovery
<1>5. /\ new \in Contexts /\ new.at = "config" /\ new.cycles = c.cycles /\ new.empty = c.empty
      /\ \A f \in {"mode", "ok", "bad", "before", "raw", "page", "ads"} : new[f] = c[f]
  <2> HIDE DEF c
  <2> QED BY <1>1 DEF Contexts, Places
<1> HIDE DEF new
<1>6. GoesOn(new)
  BY <1>1, <1>5 DEF GoesOn
<1> QED BY <1>1, <1>2, <1>4, <1>5, <1>6, PassesOn

LEMMA SaveInitialFailsSound ==
  ASSUME ScrapeInv, NEW e \in Execs, SaveInitialFails(e)
  PROVE  ScrapeInv'
<1> DEFINE c == ctx[e]
           new == [c EXCEPT !.at = "request"]
<1>1. c \in Contexts /\ GoesOn(c) /\ c.at = "initialize"
  BY ContextIsSound DEF SaveInitialFails, At
<1>2. Becomes(e, new) /\ UNCHANGED queueVars /\ SharedInv' /\ saved \subseteq saved' /\ (faults' = 0 => faults = 0)
  BY SharedStays DEF SaveInitialFails, Becomes, shared, recovery
<1>3. /\ new \in Contexts /\ new.at = "request" /\ new.cycles = c.cycles /\ new.empty = c.empty
      /\ \A f \in {"mode", "ok", "bad", "before", "raw", "page", "ads"} : new[f] = c[f]
  <2> HIDE DEF c
  <2> QED BY <1>1 DEF Contexts, Places
<1> HIDE DEF new
<1>4. GoesOn(new)
  BY <1>1, <1>3 DEF GoesOn
<1> QED BY <1>1, <1>2, <1>3, <1>4, PassesOn

LEMMA GetApiConfigSound ==
  ASSUME ScrapeInv, NEW e \in Execs, GetApiConfig(e)
  PROVE  ScrapeInv'
<1> DEFINE c == ctx[e]
<1>1. c \in Contexts /\ GoesOn(c) /\ c.at = "config"
  BY ContextIsSound DEF GetApiConfig, At
<1>2. UNCHANGED queueVars /\ SharedInv' /\ saved \subseteq saved' /\ (faults' = 0 => faults = 0)
  BY SharedStays DEF GetApiConfig, shared, recovery
<1>3. ASSUME NEW new, Becomes(e, new),
             new = [c EXCEPT !.config = TRUE, !.at = "request"] \/ new = [c EXCEPT !.errors = TRUE, !.at = "request"]
      PROVE  ScrapeInv'
  <2>1. /\ new \in Contexts /\ new.at = "request" /\ new.cycles = c.cycles /\ new.empty = c.empty
        /\ \A f \in {"mode", "ok", "bad", "before", "raw", "page", "ads"} : new[f] = c[f]
    <3> HIDE DEF c
    <3> QED BY <1>1, <1>3 DEF Contexts, Places
  <2>2. GoesOn(new)
    BY <1>1, <2>1 DEF GoesOn
  <2> QED BY <1>1, <1>2, <1>3, <2>1, <2>2, PassesOn
<1>4. \/ Becomes(e, [c EXCEPT !.config = TRUE, !.at = "request"])
      \/ Becomes(e, [c EXCEPT !.errors = TRUE, !.at = "request"])
  BY DEF GetApiConfig, Becomes
<1> QED BY <1>3, <1>4

LEMMA MaterialsListed ==
  ASSUME NEW p
  PROVE  MaterialsOn(p) \subseteq Materials
<1>1. Listing \in Seq(SUBSET Materials)
  BY ScrapeAssumption
<1>2. \A q \in Pages : Listing[q] \in SUBSET Materials
  BY <1>1, LenProperties, ElementOfSeq DEF Pages
<1> QED BY <1>2 DEF MaterialsOn

\* An answer read: the next page's, or the last one's again.
LEMMA ReadPageSound ==
  ASSUME ScrapeInv, NEW e \in Execs, ctx[e].at = "request", NEW p \in Nat, ReadPage(e, p),
         p = ctx[e].page + 1 \/ (p = ctx[e].raw /\ p # 0),
         UNCHANGED <<queueVars, shared, recovery, faults>>
  PROVE  ScrapeInv'
<1> DEFINE c == ctx[e]
           more == HasMore(p) /\ p < MaxPages
           ids == MaterialsOn(p)
           new == [c EXCEPT !.raw = p, !.page = p, !.more = more, !.ids = ids, !.at = "filter"]
<1>1. /\ c \in Contexts /\ GoesOn(c) /\ c.at = "request"
      /\ faults = 0 /\ e \in Scrapers => Kept(c, saved)
  BY ContextIsSound
<1>2. Becomes(e, new) /\ UNCHANGED queueVars /\ SharedInv' /\ saved' = saved /\ faults' = faults
  BY SharedStays DEF ReadPage, Becomes, shared, recovery
<1>3. more \in BOOLEAN /\ ids \subseteq Materials
  BY MaterialsListed
<1>4. /\ new \in Contexts /\ new.at = "filter" /\ new.cycles = c.cycles /\ new.empty = c.empty
      /\ \A f \in {"mode", "ok", "bad", "before"} : new[f] = c[f]
      /\ new.raw = p /\ new.page = p /\ new.ids = ids /\ new.ads = c.ads
  <2> HIDE DEF c, more, ids
  <2> QED BY <1>1, <1>3 DEF Contexts, Places
<1> HIDE DEF new
<1>5. GoesOn(new)
  BY <1>1, <1>4 DEF GoesOn
<1>6. ASSUME faults = 0, e \in Scrapers PROVE Kept(new, saved)
  <2>1. /\ c.raw \in Nat /\ c.page = (IF c.raw = 0 THEN 1 ELSE c.raw)
        /\ Read(c) \subseteq Accounted(saved) \cup c.bad /\ c.ok \subseteq c.ads
    BY <1>1, <1>6 DEF Kept, OnItsWay, Contexts
  <2>2. p # 0 /\ 2..p \subseteq (2..c.raw) \cup {p}
    BY <2>1
  <2>3. Read(new) \subseteq Read(c) \cup ids
    BY <1>4, <2>2 DEF Read
  <2>4. OnItsWay(new) = ids
    BY <1>4 DEF OnItsWay
  <2> QED BY <1>4, <2>1, <2>2, <2>3, <2>4 DEF Kept
<1>7. ctx[e].at # "wait" /\ new.at \notin {"batch", "wait", "idle", "restore"}
  BY <1>4
<1> QED BY <1>2, <1>4, <1>5, <1>6, <1>7, MovesOn

LEMMA RequestSound ==
  ASSUME ScrapeInv, NEW e \in Execs, Request(e) \/ RequestFails(e) \/ SkipRequest(e)
  PROVE  ScrapeInv'
<1> DEFINE c == ctx[e]
<1>1. c \in Contexts /\ GoesOn(c) /\ c.at = "request" /\ c.page \in Nat /\ c.raw \in Nat
  BY ContextIsSound DEF Request, RequestFails, SkipRequest, At, Contexts
<1>2. UNCHANGED queueVars /\ SharedInv' /\ saved' = saved /\ faults' = faults
  BY SharedStays DEF Request, RequestFails, SkipRequest, shared, recovery
<1>3. CASE Request(e)
  <2>1. c.page + 1 \in Nat
    BY <1>1
  <2> QED BY <1>1, <1>3, <2>1, ReadPageSound DEF Request
<1>4. CASE RequestFails(e) \/ (SkipRequest(e) /\ c.raw = 0)
  <2>1. PICK place \in {"cycle", "finish"}, errors \in BOOLEAN :
          Becomes(e, [c EXCEPT !.errors = errors, !.at = place])
    <3>1. CASE RequestFails(e)
      <4>1. c.errors \in BOOLEAN /\ [c EXCEPT !.at = "cycle"] = [c EXCEPT !.errors = c.errors, !.at = "cycle"]
        <5> HIDE DEF c
        <5> QED BY <1>1 DEF Contexts
      <4> QED BY <3>1, <4>1 DEF RequestFails, Becomes
    <3>2. CASE SkipRequest(e) /\ c.raw = 0
      BY <3>2 DEF SkipRequest, Becomes
    <3> QED BY <1>4, <3>1, <3>2
  <2> DEFINE new == [c EXCEPT !.errors = errors, !.at = place]
  <2>2. /\ new \in Contexts /\ new.at = place /\ new.cycles = c.cycles /\ new.empty = c.empty
        /\ \A f \in {"mode", "ok", "bad", "before", "raw", "page", "ads"} : new[f] = c[f]
    <3> HIDE DEF c
    <3> QED BY <1>1 DEF Contexts, Places
  <2> HIDE DEF new
  <2>3. GoesOn(new) /\ Becomes(e, new)
    BY <1>1, <2>1, <2>2 DEF GoesOn, new
  <2> QED BY <1>1, <1>2, <2>2, <2>3, PassesOn
<1>5. CASE SkipRequest(e) /\ c.raw # 0
  BY <1>1, <1>5, ReadPageSound DEF SkipRequest
<1> QED BY <1>3, <1>4, <1>5

LEMMA FilterSound ==
  ASSUME ScrapeInv, NEW e \in Execs, Filter(e)
  PROVE  ScrapeInv'
<1> DEFINE c == ctx[e]
<1>1. /\ c \in Contexts /\ GoesOn(c) /\ c.at = "filter"
      /\ faults = 0 /\ e \in Scrapers => Kept(c, saved)
  BY ContextIsSound DEF Filter, At
<1>2. PICK ids \in {c.ids \ saved, {}} :
        /\ IF ids = c.ids \ saved THEN UNCHANGED faults ELSE Fault
        /\ ctx' = [ctx EXCEPT ![e].ids = ids, ![e].at = IF ids = {} THEN "save" ELSE "process"]
  BY DEF Filter
<1> DEFINE new == [c EXCEPT !.ids = ids, !.at = IF ids = {} THEN "save" ELSE "process"]
<1>3. Becomes(e, new) /\ UNCHANGED queueVars /\ SharedInv' /\ saved' = saved /\ (faults' = 0 => faults = 0)
  <2>1. UNCHANGED faults \/ Fault
    BY <1>2
  <2> QED BY <1>2, <2>1, SharedStays DEF Filter, Becomes, shared, recovery
<1>4. ids \subseteq Materials
  BY <1>1, <1>2 DEF Contexts
<1>5. /\ new \in Contexts /\ new.at = (IF ids = {} THEN "save" ELSE "process")
      /\ new.cycles = c.cycles /\ new.empty = c.empty /\ new.ids = ids
      /\ \A f \in {"mode", "ok", "bad", "before"} : new[f] = c[f]
      /\ \A f \in {"raw", "page", "ads", "ok", "bad"} : new[f] = c[f]
  <2> HIDE DEF c
  <2> QED BY <1>1, <1>4 DEF Contexts, Places
<1> HIDE DEF new
<1>6. GoesOn(new)
  BY <1>1, <1>5 DEF GoesOn
<1>7. ASSUME faults' = 0, e \in Scrapers PROVE Kept(new, saved')
  <2>1. ids = c.ids \ saved
    BY <1>2, <1>7, Faulty
  <2>2. OnItsWay(c) \subseteq Accounted(saved') \cup OnItsWay(new)
    BY <1>1, <1>3, <1>5, <2>1, AccountedStays DEF OnItsWay
  <2>3. c.at \notin {"idle", "done", "batch", "wait"} /\ new.at \notin {"batch", "wait"} /\ Kept(c, saved)
    BY <1>1, <1>3, <1>5, <1>7
  <2> QED BY <1>3, <1>5, <2>2, <2>3, KeptStays
<1>8. c.at # "wait" /\ new.at \notin {"batch", "wait", "idle", "restore"}
  BY <1>1, <1>5
<1> QED BY <1>3, <1>5, <1>6, <1>7, <1>8, MovesOn

\* A step that fails ends the cycle, or the recovery of failed materials.
LEMMA ProcessFailsSound ==
  ASSUME ScrapeInv, NEW e \in Execs, ctx[e].at = "process", Fault, SharedInv', saved' = saved,
         UNCHANGED queueVars,
         ctx' = [ctx EXCEPT ![e].errors = TRUE,
                            ![e].at = IF ctx[e].mode = "failed" THEN "done" ELSE "cycle"]
  PROVE  ScrapeInv'
<1> DEFINE c == ctx[e]
           new == [c EXCEPT !.errors = TRUE, !.at = IF c.mode = "failed" THEN "done" ELSE "cycle"]
<1>1. c \in Contexts /\ GoesOn(c) /\ c.at = "process"
  BY ContextIsSound
<1>2. Becomes(e, new) /\ faults' # 0
  BY Faulty DEF Becomes
<1>3. /\ new \in Contexts /\ new.at \in {"cycle", "done"}
      /\ new.cycles = c.cycles /\ new.empty = c.empty
      /\ \A f \in {"mode", "ok", "bad", "before"} : new[f] = c[f]
  <2> HIDE DEF c
  <2> QED BY <1>1 DEF Contexts, Places
<1> HIDE DEF new
<1>4. GoesOn(new)
  BY <1>1, <1>3 DEF GoesOn
<1>5. c.at # "wait" /\ new.at \notin {"batch", "wait", "idle", "restore"}
  BY <1>1, <1>3
<1> QED BY <1>2, <1>3, <1>4, <1>5, MovesOn

LEMMA ProcessThrowsSound ==
  ASSUME ScrapeInv, NEW e \in Execs, ProcessThrows(e)
  PROVE  ScrapeInv'
<1>1. ctx[e] \in Contexts /\ ctx[e].at = "process"
  BY ContextIsSound DEF ProcessThrows, At
<1>2. StoredInv'
  <2>1. ctx[e].task \in Scrapers \cup {NoTask} /\ StoredInv
    BY <1>1 DEF Contexts, ScrapeInv, SharedInv
  <2> QED BY <2>1, MarkedSound DEF ProcessThrows
<1>3. SharedInv' /\ saved' = saved
  BY <1>2, Faulty DEF ProcessThrows, ScrapeInv, SharedInv, recovery
<1> QED BY <1>1, <1>3, ProcessFailsSound DEF ProcessThrows

LEMMA ProcessSound ==
  ASSUME ScrapeInv, NEW e \in Execs, Process(e)
  PROVE  ScrapeInv'
<1> DEFINE c == ctx[e]
<1>1. /\ c \in Contexts /\ GoesOn(c) /\ Books(c) /\ Asked(e, c, try) /\ c.at = "process"
      /\ e \in Scrapers => c.mode = "scrape"
  BY ContextIsSound DEF Process, At
<1>2. faults = 0 /\ e \in Scrapers => Kept(c, saved)
  BY ContextIsSound
<1>3. SharedInv' /\ saved' = saved /\ UNCHANGED queueVars /\ (faults' = 0 => faults = 0)
  BY SharedStays DEF Process, shared, recovery
<1>4. CASE /\ ctx' = [ctx EXCEPT ![e].todo = Remaining(ctx[e]), ![e].got = {}, ![e].at = "batch"]
           /\ UNCHANGED faults
  <2> DEFINE todo == Remaining(c)
             new == [c EXCEPT !.todo = todo, !.got = {}, !.at = "batch"]
  <2>1. Becomes(e, new)
    BY <1>4 DEF Becomes
  <2>2. todo = c.ids \ (c.ok \cup c.bad) /\ todo \subseteq Materials
    BY <1>1 DEF Remaining, Contexts
  <2> HIDE DEF todo
  <2>3. /\ new \in Contexts /\ new.at = "batch" /\ new.cycles = c.cycles /\ new.empty = c.empty
        /\ new.todo = todo /\ new.got = {} /\ new.mode = c.mode
        /\ new.ok = c.ok /\ new.bad = c.bad /\ new.before = c.before
        /\ new.raw = c.raw /\ new.page = c.page /\ new.ads = c.ads
    <3> HIDE DEF c
    <3> QED BY <1>1, <2>2 DEF Contexts, Places
  <2> HIDE DEF new
  <2>4. GoesOn(new) /\ Books(new)
    BY <1>1, <2>2, <2>3 DEF GoesOn, Books
  <2>5. Asked(e, new, try)
    BY <1>1, <2>3 DEF Asked, Waits, Pending
  <2>6. Sound(e, new, try)
    BY <1>1, <2>3, <2>4, <2>5 DEF Sound
  <2>7. ASSUME faults = 0, e \in Scrapers PROVE Kept(new, saved)
    <3>1. Read(c) \subseteq Accounted(saved) \cup c.bad \cup c.ids /\ c.ok \subseteq c.ads
          /\ c.page = (IF c.raw = 0 THEN 1 ELSE c.raw)
      BY <1>1, <1>2, <2>7 DEF Kept, OnItsWay
    <3>2. OnItsWay(new) = c.ads \cup {} \cup todo /\ Read(new) = Read(c)
      BY <2>3 DEF OnItsWay, Read
    <3> QED BY <2>2, <2>3, <3>1, <3>2 DEF Kept
  <2> QED BY <1>3, <1>4, <2>1, <2>6, <2>7, QuietSound
<1>5. CASE /\ Fault
           /\ ctx' = [ctx EXCEPT ![e].errors = TRUE,
                                 ![e].at = IF ctx[e].mode = "failed" THEN "done" ELSE "cycle"]
  BY <1>1, <1>3, <1>5, ProcessFailsSound
<1> QED BY <1>4, <1>5 DEF Process

LEMMA StartBatchSound ==
  ASSUME ScrapeInv, NEW e \in Execs, StartBatch(e)
  PROVE  ScrapeInv' /\ \A i \in Items : try'[i] = try[i] \/ try[i] = "none"
<1> DEFINE c == ctx[e]
           all == SetToSeq({e} \X c.todo)
<1>1. /\ c \in Contexts /\ GoesOn(c) /\ Books(c) /\ Asked(e, c, try) /\ c.at = "batch"
      /\ e \in Scrapers => c.mode = "scrape"
      /\ c.todo \subseteq Materials
  BY ContextIsSound DEF StartBatch, At, Contexts
<1>2. faults = 0 /\ e \in Scrapers => Kept(c, saved)
  BY ContextIsSound
<1>3. PICK n \in {1, 2} \cap 1..Cardinality(c.todo) :
        LET items == SubSeq(all, 1, n)
            batch == {items[k][2] : k \in 1..n}
        IN  /\ Enqueue(items)
            /\ ctx' = [ctx EXCEPT ![e].batch = batch, ![e].todo = c.todo \ batch, ![e].at = "wait"]
  BY DEF StartBatch
<1> DEFINE items == SubSeq(all, 1, n)
           batch == {items[k][2] : k \in 1..n}
           todo == c.todo \ batch
           new == [c EXCEPT !.batch = batch, !.todo = todo, !.at = "wait"]
<1>4. /\ items \in Seq({e} \X c.todo) /\ IsInjective(items) /\ Len(items) = n
  <2>1. IsFiniteSet(c.todo)
    BY <1>1, ScrapeAssumption, FS_Subset
  <2>2. IsFiniteSet({e}) /\ Cardinality({e}) = 1
    BY FS_Singleton
  <2>3. IsFiniteSet({e} \X c.todo) /\ Cardinality({e} \X c.todo) = Cardinality({e}) * Cardinality(c.todo)
    <3> HIDE DEF c
    <3> QED BY <2>1, <2>2, FS_Product
  <2>4. Cardinality(c.todo) \in Nat
    BY <2>1, FS_CardinalityType
  <2>5. Cardinality({e} \X c.todo) = Cardinality(c.todo)
    BY <2>2, <2>3, <2>4
  <2>6. all \in Seq({e} \X c.todo) /\ IsInjective(all) /\ Len(all) = Cardinality(c.todo)
    BY <2>3, <2>5, SetListed
  <2>7. n \in 0..Len(all)
    BY <2>4, <2>6
  <2> HIDE DEF all
  <2> QED BY <2>6, <2>7, SplitSeq
<1> HIDE DEF items
<1>5. /\ Range(items) = {items[k] : k \in 1..n} /\ Range(items) \subseteq {e} \X c.todo
  BY <1>4, Listed
<1>6. /\ batch \subseteq c.todo
      /\ \A m \in Materials : m \in batch <=> <<e, m>> \in Range(items)
  <2>1. ASSUME NEW k \in 1..n
        PROVE  items[k][2] \in c.todo /\ items[k] = <<e, items[k][2]>> /\ items[k] \in Range(items)
    <3>1. items[k] \in {e} \X c.todo
      BY <1>5
    <3> QED BY <1>5, <3>1
  <2> QED BY <1>5, <2>1
<1>7. Enqueue(items) /\ Becomes(e, new) /\ UNCHANGED <<width, attempt>>
      /\ UNCHANGED <<shared, recovery, faults>>
  BY <1>3 DEF StartBatch, Becomes, items
<1> HIDE DEF batch
<1>8. QueueInv' /\ Goes(items) /\ \A i \in Range(items) : try[i] = "none"
  <2>1. Range(items) \subseteq Items
    BY <1>1, <1>5 DEF Items
  <2>2. items \in Seq(Items)
    BY <1>4, <2>1, <1>5, LenProperties, SeqDef
  <2>3. ASSUME NEW i \in Range(items) PROVE try[i] = "none"
    <3>1. PICK m \in c.todo : i = <<e, m>>
      BY <1>5, <2>3
    <3>2. m \in Materials /\ m \notin c.ok /\ m \notin c.bad /\ i \in Items
      BY <1>1, <2>1, <3>1 DEF Books
    <3>3. try[i] \in Tries
      BY <3>2 DEF ScrapeInv, QueueInv, QueueTypeOK
    <3> QED BY <1>1, <3>1, <3>2, <3>3 DEF Asked, Waits, Pending, Tries
  <2> QED BY <1>4, <1>7, <2>2, <2>3, EnqueueSound DEF ScrapeInv
<1>9. batch \subseteq Materials /\ todo \subseteq Materials /\ batch \cap todo = {} /\ batch \cup todo = c.todo
  BY <1>1, <1>6
<1> HIDE DEF todo
<1>10. /\ new \in Contexts /\ new.at = "wait" /\ new.cycles = c.cycles /\ new.empty = c.empty
       /\ new.todo = todo /\ new.batch = batch /\ new.got = c.got /\ new.mode = c.mode
       /\ new.ok = c.ok /\ new.bad = c.bad /\ new.before = c.before
       /\ new.raw = c.raw /\ new.page = c.page /\ new.ads = c.ads
  <2> HIDE DEF c
  <2> QED BY <1>1, <1>9 DEF Contexts, Places
<1> HIDE DEF new
<1>11. GoesOn(new) /\ Books(new)
  <2>1. c.todo \cap (c.ok \cup c.bad) = {}
    BY <1>1 DEF Books
  <2> QED BY <1>1, <1>9, <1>10, <2>1 DEF GoesOn, Books
<1>12. ASSUME NEW m \in Materials
       PROVE  /\ try'[<<e, m>>] # "none" => m \notin new.before /\ new.at \notin {"idle", "restore"}
              /\ try'[<<e, m>>] \in Pending => Waits(new, m)
              /\ try'[<<e, m>>] = "ok" => m \in new.ok \/ Waits(new, m)
              /\ try'[<<e, m>>] = "failed" => m \in new.bad \/ Waits(new, m)
              /\ Waits(new, m) /\ m \in new.bad => try'[<<e, m>>] = "failed"
  <2>1. <<e, m>> \in Items
    BY DEF Items
  <2>2. CASE m \in batch
    <3>1. m \notin c.ok /\ m \notin c.bad /\ m \notin c.before
      BY <1>1, <1>6, <2>2 DEF Books
    <3> QED BY <1>10, <2>2, <3>1 DEF Waits
  <2>3. CASE m \notin batch
    <3>1. try'[<<e, m>>] = try[<<e, m>>]
      BY <1>6, <1>8, <2>1, <2>3 DEF Goes
    <3> QED BY <1>1, <1>10, <2>3, <3>1 DEF Asked, Waits, Pending
  <2> QED BY <2>2, <2>3
<1>13. Sound(e, new, try')
  BY <1>1, <1>10, <1>11, <1>12 DEF Sound, Asked
<1>14. Alone(e)
  <2>1. ASSUME NEW d \in Execs \ {e}, NEW m \in Materials PROVE try'[<<d, m>>] = try[<<d, m>>]
    <3>1. <<d, m>> \in Items /\ <<d, m>> \notin Range(items)
      BY <1>5 DEF Items
    <3> QED BY <1>8, <3>1 DEF Goes
  <2> QED BY <2>1 DEF Alone
<1>15. ASSUME faults = 0, e \in Scrapers PROVE Kept(new, saved)
  <2>1. /\ Read(c) \subseteq Accounted(saved) \cup c.bad \cup (c.ads \cup c.got \cup c.todo)
        /\ c.ok \subseteq c.ads \cup c.got /\ c.page = (IF c.raw = 0 THEN 1 ELSE c.raw)
    BY <1>1, <1>2, <1>15 DEF Kept, OnItsWay
  <2>2. OnItsWay(new) = c.ads \cup c.got \cup todo \cup batch /\ Read(new) = Read(c)
    BY <1>10 DEF OnItsWay, Read
  <2> QED BY <1>9, <1>10, <2>1, <2>2 DEF Kept
<1>16. SharedInv' /\ saved' = saved /\ faults' = faults
  BY <1>7, SharedStays DEF shared, recovery
<1>17. ScrapeInv'
  BY <1>7, <1>8, <1>13, <1>14, <1>15, <1>16, StepSound
<1> QED BY <1>8, <1>17 DEF Goes

LEMMA RecordFailureSound ==
  ASSUME ScrapeInv, NEW e \in Execs, RecordFailure(e)
  PROVE  ScrapeInv'
<1> DEFINE c == ctx[e]
<1>1. /\ c \in Contexts /\ GoesOn(c) /\ Books(c) /\ Asked(e, c, try) /\ c.at = "wait"
      /\ e \in Scrapers => c.mode = "scrape"
  BY ContextIsSound DEF RecordFailure, At
<1>2. faults = 0 /\ e \in Scrapers => Kept(c, saved)
  BY ContextIsSound
<1>3. PICK m \in Outcome(e, "failed") \ c.bad :
        LET after == [c EXCEPT !.bad = c.bad \cup {m}]
        IN  ctx' = [ctx EXCEPT ![e] = after] /\ Progress(e, after)
  <2>1. PICK m \in Outcome(e, "failed") \ c.bad :
          LET after == [ctx[e] EXCEPT !.bad = @ \cup {m}]
          IN  ctx' = [ctx EXCEPT ![e] = after] /\ Progress(e, after)
    BY DEF RecordFailure
  <2> QED BY <1>1, <2>1 DEF Contexts
<1> DEFINE bad == c.bad \cup {m}
           new == [c EXCEPT !.bad = bad]
<1>4. m \in c.batch /\ try[<<e, m>>] = "failed" /\ m \in Materials
  BY <1>1, <1>3 DEF Outcome, Contexts
<1>5. Becomes(e, new) /\ Progress(e, new) /\ UNCHANGED <<queueVars, saved, recovery>>
  BY <1>3 DEF Becomes, RecordFailure
<1>6. bad \subseteq Materials
  BY <1>1, <1>4 DEF Contexts
<1> HIDE DEF bad
<1>7. /\ new \in Contexts /\ new.at = "wait" /\ new.cycles = c.cycles /\ new.empty = c.empty
      /\ new.todo = c.todo /\ new.batch = c.batch /\ new.got = c.got /\ new.mode = c.mode
      /\ new.ok = c.ok /\ new.bad = bad /\ new.before = c.before
      /\ new.raw = c.raw /\ new.page = c.page /\ new.ads = c.ads
  <2> HIDE DEF c
  <2> QED BY <1>1, <1>6 DEF Contexts, Places
<1> HIDE DEF new
<1>8. GoesOn(new) /\ Books(new)
  BY <1>1, <1>4, <1>7 DEF GoesOn, Books, bad
<1>9. Asked(e, new, try)
  BY <1>1, <1>4, <1>7 DEF Asked, Waits, bad
<1>10. Sound(e, new, try)
  BY <1>1, <1>7, <1>8, <1>9 DEF Sound
<1>11. ASSUME faults = 0, e \in Scrapers PROVE Kept(new, saved)
  <2>1. /\ Read(c) \subseteq Accounted(saved) \cup c.bad \cup OnItsWay(c)
        /\ c.ok \subseteq c.ads \cup c.got /\ c.page = (IF c.raw = 0 THEN 1 ELSE c.raw)
    BY <1>1, <1>2, <1>11 DEF Kept
  <2>2. OnItsWay(new) = OnItsWay(c) /\ Read(new) = Read(c)
    BY <1>1, <1>7 DEF OnItsWay, Read
  <2> QED BY <1>7, <2>1, <2>2 DEF Kept, bad
<1>12. SharedInv' /\ (faults' = 0 => faults = 0) /\ saved' = saved
  BY <1>5, <1>7, <1>8, ProgressSound DEF recovery
<1> QED BY <1>5, <1>10, <1>11, <1>12, QuietSound

LEMMA EndBatchSound ==
  ASSUME ScrapeInv, NEW e \in Execs, EndBatch(e)
  PROVE  ScrapeInv'
<1> DEFINE c == ctx[e]
           good == Outcome(e, "ok")
           ok == c.ok \cup good
           got == c.got \cup good
           new == [c EXCEPT !.ok = ok, !.got = got, !.batch = {}, !.at = "batch"]
<1>1. /\ c \in Contexts /\ GoesOn(c) /\ Books(c) /\ Asked(e, c, try) /\ c.at = "wait"
      /\ e \in Scrapers => c.mode = "scrape"
  BY ContextIsSound DEF EndBatch, At
<1>2. faults = 0 /\ e \in Scrapers => Kept(c, saved)
  BY ContextIsSound
<1>3. /\ good = {m \in c.batch : try[<<e, m>>] = "ok"} /\ good \subseteq Materials
      /\ c.batch = good \cup ({m \in c.batch : try[<<e, m>>] = "failed"} \cap c.bad)
  BY <1>1 DEF EndBatch, Outcome, Contexts
<1>4. /\ Becomes(e, new) /\ UNCHANGED <<queueVars, saved, recovery>>
      /\ IF good = {} THEN UNCHANGED <<stored, stale, faults>> ELSE Progress(e, new)
  BY <1>1 DEF Becomes, EndBatch, Contexts
<1> HIDE DEF good
<1>5. ok \subseteq Materials /\ got \subseteq Materials
  BY <1>1, <1>3 DEF Contexts
<1> HIDE DEF ok, got
<1>6. /\ new \in Contexts /\ new.at = "batch" /\ new.cycles = c.cycles /\ new.empty = c.empty
      /\ new.todo = c.todo /\ new.batch = {} /\ new.got = got /\ new.mode = c.mode
      /\ new.ok = ok /\ new.bad = c.bad /\ new.before = c.before
      /\ new.raw = c.raw /\ new.page = c.page /\ new.ads = c.ads
  <2> HIDE DEF c
  <2> QED BY <1>1, <1>5 DEF Contexts, Places
<1> HIDE DEF new
<1>7. good \cap c.bad = {}
  BY <1>1, <1>3 DEF Asked, Waits
<1>8. GoesOn(new) /\ Books(new)
  BY <1>1, <1>3, <1>6, <1>7 DEF GoesOn, Books, ok
<1>9. ASSUME NEW m \in Materials
      PROVE  /\ try[<<e, m>>] # "none" => m \notin new.before /\ new.at \notin {"idle", "restore"}
             /\ try[<<e, m>>] \in Pending => Waits(new, m)
             /\ try[<<e, m>>] = "ok" => m \in new.ok \/ Waits(new, m)
             /\ try[<<e, m>>] = "failed" => m \in new.bad \/ Waits(new, m)
             /\ Waits(new, m) /\ m \in new.bad => try[<<e, m>>] = "failed"
  <2>1. CASE m \in c.batch
    <3>1. try[<<e, m>>] = "ok" \/ (try[<<e, m>>] = "failed" /\ m \in c.bad)
      BY <1>3, <2>1
    <3> QED BY <1>1, <1>3, <1>6, <2>1, <3>1 DEF Asked, Waits, Pending, ok
  <2>2. CASE m \notin c.batch
    BY <1>1, <1>6, <2>2 DEF Asked, Waits, Pending, ok
  <2> QED BY <2>1, <2>2
<1>10. Sound(e, new, try)
  BY <1>1, <1>6, <1>8, <1>9 DEF Sound, Asked
<1>11. ASSUME faults = 0, e \in Scrapers PROVE Kept(new, saved)
  <2>1. /\ Read(c) \subseteq Accounted(saved) \cup c.bad \cup (c.ads \cup c.got \cup c.todo \cup c.batch)
        /\ c.ok \subseteq c.ads \cup c.got /\ c.page = (IF c.raw = 0 THEN 1 ELSE c.raw)
    BY <1>1, <1>2, <1>11 DEF Kept, OnItsWay
  <2>2. OnItsWay(new) = c.ads \cup got \cup c.todo /\ Read(new) = Read(c)
    BY <1>6 DEF OnItsWay, Read
  <2>3. c.batch \subseteq got \cup c.bad
    BY <1>3 DEF got
  <2> QED BY <1>6, <2>1, <2>2, <2>3 DEF Kept, ok, got
<1>12. SharedInv' /\ (faults' = 0 => faults = 0) /\ saved' = saved
  <2>1. CASE good = {}
    BY <1>4, <2>1, SharedStays DEF recovery
  <2>2. CASE good # {}
    BY <1>4, <1>6, <1>8, <2>2, ProgressSound DEF recovery
  <2> QED BY <2>1, <2>2
<1> QED BY <1>4, <1>10, <1>11, <1>12, QuietSound

LEMMA EndProcessSound ==
  ASSUME ScrapeInv, NEW e \in Execs, EndProcess(e)
  PROVE  ScrapeInv'
<1> DEFINE c == ctx[e]
           ads == c.ads \cup c.got
           more == c.more /\ Cardinality(ads) < MaxAds
           new == [c EXCEPT !.ads = ads, !.got = {}, !.ids = {}, !.more = more,
                            !.at = IF c.mode = "failed" THEN "record" ELSE "save"]
<1>1. /\ c \in Contexts /\ GoesOn(c) /\ Books(c) /\ c.at = "batch" /\ c.todo = {}
      /\ e \in Scrapers => c.mode = "scrape"
  BY ContextIsSound DEF EndProcess, At
<1>2. faults = 0 /\ e \in Scrapers => Kept(c, saved)
  BY ContextIsSound
<1>3. Becomes(e, new) /\ Progress(e, new) /\ UNCHANGED <<queueVars, saved, recovery>>
  BY <1>1 DEF Becomes, EndProcess, Contexts
<1>4. ads \subseteq Materials /\ more \in BOOLEAN
  BY <1>1 DEF Contexts
<1>5. ads = c.ads \cup c.got
  OBVIOUS
<1> HIDE DEF ads, more
<1>6. /\ new \in Contexts /\ new.at = (IF c.mode = "failed" THEN "record" ELSE "save")
      /\ new.cycles = c.cycles /\ new.empty = c.empty
      /\ \A f \in {"mode", "ok", "bad", "before"} : new[f] = c[f]
      /\ new.ok = c.ok /\ new.bad = c.bad /\ new.mode = c.mode
      /\ new.raw = c.raw /\ new.page = c.page /\ new.ads = ads
  <2> HIDE DEF c
  <2> QED BY <1>1, <1>4 DEF Contexts, Places
<1> HIDE DEF new
<1>7. GoesOn(new)
  BY <1>1, <1>6 DEF GoesOn
<1>8. Books(new)
  BY <1>1, <1>6 DEF Books
<1>9. ASSUME faults = 0, e \in Scrapers PROVE Kept(new, saved)
  <2>1. /\ Read(c) \subseteq Accounted(saved) \cup c.bad \cup (c.ads \cup c.got \cup c.todo)
        /\ c.ok \subseteq c.ads \cup c.got /\ c.page = (IF c.raw = 0 THEN 1 ELSE c.raw)
    BY <1>1, <1>2, <1>9 DEF Kept, OnItsWay
  <2>2. OnItsWay(new) = ads /\ Read(new) = Read(c)
    BY <1>1, <1>6, <1>9 DEF OnItsWay, Read
  <2> QED BY <1>1, <1>5, <1>6, <2>1, <2>2 DEF Kept
<1>10. SharedInv' /\ (faults' = 0 => faults = 0) /\ saved' = saved
  BY <1>3, <1>6, <1>8, ProgressSound DEF recovery
<1>11. c.at # "wait" /\ new.at \notin {"batch", "wait", "idle", "restore"}
  BY <1>1, <1>6
<1> QED BY <1>3, <1>6, <1>7, <1>9, <1>10, <1>11, MovesOn

LEMMA SaveSound ==
  ASSUME ScrapeInv, NEW e \in Execs, Save(e)
  PROVE  ScrapeInv'
<1> DEFINE c == ctx[e]
           shown == {m \in c.ads : VideoOf[m] # NoVideo}
           taken == {m \in shown : Taken(m, saved)}
<1>1. c \in Contexts /\ GoesOn(c) /\ c.at = "save" /\ c.ads \subseteq Materials
  BY ContextIsSound DEF Save, At, Contexts
<1>2. PICK skipped \in SUBSET shown :
        /\ IF skipped = {} THEN UNCHANGED faults ELSE Fault
        /\ saved' = saved \cup (taken \ skipped)
        /\ ctx' = [ctx EXCEPT ![e].batch = shown \ (taken \cup skipped), ![e].at = "commit"]
  BY DEF Save
<1> DEFINE batch == shown \ (taken \cup skipped)
           new == [c EXCEPT !.batch = batch, !.at = "commit"]
<1>3. Becomes(e, new) /\ UNCHANGED <<queueVars, stored, stale, recovery>>
  BY <1>2 DEF Save, Becomes
<1>4. /\ saved \subseteq saved' /\ saved' \subseteq Materials /\ faults' \in 0..MaxFaults
      /\ faults' = 0 => faults = 0 /\ skipped = {}
  BY <1>1, <1>2, Faulty DEF ScrapeInv, SharedInv
<1>5. SharedInv'
  BY <1>3, <1>4 DEF ScrapeInv, SharedInv, StoredInv, recovery
<1>6. batch \subseteq Materials
  BY <1>1
<1>7. faults' = 0 => c.ads \subseteq Accounted(saved') \cup batch
  <2>1. \A m \in c.ads : VideoOf[m] = NoVideo => m \in Accounted(saved')
    BY <1>1 DEF Accounted
  <2>2. faults' = 0 => taken \subseteq saved' /\ shown \subseteq taken \cup batch
    BY <1>2, <1>4
  <2>3. saved' \subseteq Accounted(saved')
    BY AccountedStays
  <2> QED BY <2>1, <2>2, <2>3
<1> HIDE DEF batch
<1>8. /\ new \in Contexts /\ new.at = "commit" /\ new.cycles = c.cycles /\ new.empty = c.empty
      /\ \A f \in {"mode", "ok", "bad", "before", "raw", "page", "ads"} : new[f] = c[f]
      /\ new.batch = batch
  <2> HIDE DEF c
  <2> QED BY <1>1, <1>6 DEF Contexts, Places
<1> HIDE DEF new
<1>9. GoesOn(new) /\ OnItsWay(c) = c.ads /\ OnItsWay(new) = batch
  BY <1>1, <1>8 DEF GoesOn, OnItsWay
<1> QED BY <1>1, <1>3, <1>4, <1>5, <1>7, <1>8, <1>9, PassesOn

\* A row that is refused has its video in another row.
LEMMA CommitSound ==
  ASSUME ScrapeInv, NEW e \in Execs, Commit(e)
  PROVE  ScrapeInv'
<1> DEFINE c == ctx[e]
           new == [c EXCEPT !.batch = {}, !.at = "cycle"]
<1>1. c \in Contexts /\ GoesOn(c) /\ c.at = "commit" /\ c.batch \subseteq Materials
  BY ContextIsSound DEF Commit, At, Contexts
<1>2. Becomes(e, new) /\ UNCHANGED <<queueVars, stored, stale, recovery>>
  BY DEF Commit, Becomes
<1>3. PICK kept \in SUBSET (c.batch \ saved) :
        /\ \/ (\A m \in c.batch \ (saved \cup kept) : Taken(m, saved \cup kept)) /\ UNCHANGED faults
           \/ Fault
        /\ saved' = saved \cup kept
  BY DEF Commit
<1>4. /\ saved \subseteq saved' /\ saved' \subseteq Materials /\ faults' \in 0..MaxFaults
      /\ faults' = 0 => faults = 0 /\ \A m \in c.batch \ saved' : Taken(m, saved')
  BY <1>1, <1>3, Faulty DEF ScrapeInv, SharedInv
<1>5. SharedInv'
  BY <1>2, <1>4 DEF ScrapeInv, SharedInv, StoredInv, recovery
<1>6. faults' = 0 => c.batch \subseteq Accounted(saved')
  BY <1>1, <1>4 DEF Accounted
<1>7. /\ new \in Contexts /\ new.at = "cycle" /\ new.cycles = c.cycles /\ new.empty = c.empty
      /\ \A f \in {"mode", "ok", "bad", "before", "raw", "page", "ads"} : new[f] = c[f]
  <2> HIDE DEF c
  <2> QED BY <1>1 DEF Contexts, Places
<1> HIDE DEF new
<1>8. GoesOn(new) /\ OnItsWay(c) = c.batch
  BY <1>1, <1>7 DEF GoesOn, OnItsWay
<1> QED BY <1>1, <1>2, <1>4, <1>5, <1>6, <1>7, <1>8, PassesOn

\* An execution that ends forgets what it asked for, and keeps the result.
LEMMA DoneSound ==
  ASSUME ScrapeInv, NEW e \in Execs, ctx[e].at \in {"finish", "record"},
         ctx' = [ctx EXCEPT ![e] = Done(ctx[e])], Forgotten(e),
         SharedInv', saved' = saved, faults' = 0 => faults = 0
  PROVE  ScrapeInv'
<1> DEFINE c == ctx[e]
           new == Done(c)
<1>1. /\ c \in Contexts /\ GoesOn(c) /\ Asked(e, c, try) /\ (e \in Scrapers => c.mode = "scrape")
      /\ c.at \in {"finish", "record"}
  BY ContextIsSound
<1>2. faults = 0 /\ e \in Scrapers => Kept(c, saved)
  BY ContextIsSound
<1>3. /\ QueueInv' /\ (\A m \in Materials : try'[<<e, m>>] = "none") /\ Alone(e)
  <2>1. \A m \in Materials : try[<<e, m>>] \notin Pending
    BY <1>1 DEF Asked, Waits
  <2>2. QueueInv
    BY DEF ScrapeInv
  <2> QED BY <2>1, <2>2, ForgottenSound DEF Alone
<1>4. /\ new \in Contexts /\ new.at = "done" /\ new.mode = c.mode /\ new.raw = c.raw /\ new.bad = c.bad
      /\ new.ok = {} /\ new.before = {}
  <2> HIDE DEF c
  <2> QED BY <1>1, BlankTyped DEF Done, Contexts, Places
<1>5. Becomes(e, new)
  BY DEF Becomes
<1> HIDE DEF new
<1>6. Sound(e, new, try')
  <2>1. GoesOn(new) /\ Books(new)
    BY <1>4 DEF GoesOn, Books
  <2>2. Asked(e, new, try')
    BY <1>3, <1>4 DEF Asked, Waits, Pending
  <2> QED BY <1>1, <1>4, <2>1, <2>2 DEF Sound
<1>7. ASSUME faults = 0, e \in Scrapers PROVE Kept(new, saved)
  <2>1. Read(c) \subseteq Accounted(saved) \cup c.bad
    BY <1>1, <1>2, <1>7 DEF Kept, OnItsWay
  <2>2. Read(new) = Read(c)
    BY <1>4 DEF Read
  <2> QED BY <1>4, <2>1, <2>2 DEF Kept
<1> QED BY <1>3, <1>5, <1>6, <1>7, StepSound

LEMMA FinishSound ==
  ASSUME ScrapeInv, NEW e \in Execs, Finish(e)
  PROVE  ScrapeInv'
<1>1. ctx[e] \in Contexts /\ ctx[e].at = "finish"
  BY ContextIsSound DEF Finish, At
<1>2. UNCHANGED <<saved, plan>> /\ Forgotten(e) /\ ctx' = [ctx EXCEPT ![e] = Done(ctx[e])]
  BY DEF Finish, recovery
<1>3. \/ UNCHANGED <<stored, stale, faults>>
      \/ Marked(ctx[e].target, FALSE, ~ctx[e].errors) /\ UNCHANGED faults
      \/ Fault /\ UNCHANGED <<stored, stale>>
  BY DEF Finish
<1>4. SharedInv' /\ (faults' = 0 => faults = 0)
  <2>1. CASE Marked(ctx[e].target, FALSE, ~ctx[e].errors) /\ UNCHANGED faults
    <3>1. StoredInv /\ ctx[e].target \in Scrapers \cup {NoTask} /\ (~ctx[e].errors) \in BOOLEAN
      BY <1>1 DEF ScrapeInv, SharedInv, Contexts
    <3>2. StoredInv'
      BY <2>1, <3>1, MarkedSound
    <3> QED BY <1>2, <2>1, <3>2 DEF ScrapeInv, SharedInv
  <2>2. CASE UNCHANGED <<stored, stale, faults>> \/ (Fault /\ UNCHANGED <<stored, stale>>)
    BY <1>2, <2>2, SharedStays
  <2> QED BY <1>3, <2>1, <2>2
<1> QED BY <1>1, <1>2, <1>4, DoneSound

LEMMA RecordFailedSound ==
  ASSUME ScrapeInv, NEW e \in Execs, RecordFailed(e)
  PROVE  ScrapeInv'
<1>1. ctx[e] \in Contexts /\ Books(ctx[e]) /\ ctx[e].at = "record"
  BY ContextIsSound DEF RecordFailed, At
<1>2. /\ UNCHANGED <<saved, plan>> /\ Forgotten(e) /\ ctx' = [ctx EXCEPT ![e] = Done(ctx[e])]
      /\ Progress(e, ctx[e])
  BY DEF RecordFailed, recovery
<1>3. SharedInv' /\ (faults' = 0 => faults = 0)
  BY <1>1, <1>2, ProgressSound
<1> QED BY <1>1, <1>2, <1>3, DoneSound

LEMMA PipelineStepSound ==
  ASSUME ScrapeInv, NEW e \in Execs, PipelineStep(e)
  PROVE  ScrapeInv'
  BY RestoreSound, SaveInitialSound, SaveInitialFailsSound, GetApiConfigSound, RequestSound,
     FilterSound, ProcessSound, ProcessThrowsSound, StartBatchSound, RecordFailureSound, EndBatchSound,
     EndProcessSound, SaveSound, CommitSound, EndCycleSound, FinishSound, RecordFailedSound DEF PipelineStep

-----------------------------------------------------------------------------
(* The recovery, half an hour without an update, the death of the process.   *)

\* Steps that change none of the contexts and nothing of the queue.
LEMMA ElsewhereSound ==
  ASSUME ScrapeInv, UNCHANGED <<queueVars, ctx, stored, saved, faults>>,
         stale' \subseteq Scrapers, plan' \subseteq Scrapers
  PROVE  ScrapeInv'
<1>1. QueueInv' /\ Shifts
  BY DEF ScrapeInv, QueueInv, QueueTypeOK, queueVars, Queued, Shifts
<1>2. SharedInv'
  BY DEF ScrapeInv, SharedInv, StoredInv
<1> QED BY <1>1, <1>2, ShiftsSound

LEMMA RecoversSound ==
  ASSUME ScrapeInv, NEW e \in Recoverers, NEW t \in Scrapers, NEW new, Begin(e, new),
         new \in Contexts, GoesOn(new), new.at \notin {"batch", "wait"}, new.bad = {}, new.before = {},
         SharedInv', saved' = saved, faults' = faults
  PROVE  ScrapeInv'
<1>1. e \in Execs /\ e \notin Scrapers /\ Asked(e, ctx[e], try) /\ ctx[e].at = "idle"
  BY ContextIsSound DEF Recoverers, Begin, At
<1>2. Becomes(e, new) /\ UNCHANGED queueVars
  BY DEF Begin, Becomes
<1>3. Sound(e, new, try)
  BY <1>1, BeginSound
<1> QED BY <1>1, <1>2, <1>3, QuietSound

LEMMA RecoveringTyped ==
  ASSUME NEW t \in Scrapers, NEW mode \in {"planned", "manual", "failed"}
  PROVE  /\ Recovering(t, mode) \in Contexts /\ GoesOn(Recovering(t, mode))
         /\ Recovering(t, mode).at = "restore" /\ Recovering(t, mode).bad = {}
         /\ Recovering(t, mode).before = {}
<1> DEFINE new == Recovering(t, mode)
<1>1. /\ new \in Contexts /\ new.at = "restore" /\ new.bad = {} /\ new.before = {}
      /\ new.task = t /\ new.mode = mode /\ new.cycles = Blank.cycles /\ new.empty = Blank.empty
  BY BlankTyped DEF Recovering, Contexts, Places
<1> HIDE DEF new
<1>2. GoesOn(new)
  BY <1>1, BlankTyped DEF GoesOn
<1> QED BY <1>1, <1>2 DEF new

LEMMA RecoveryStepSound ==
  ASSUME ScrapeInv, RecoveryStep
  PROVE  ScrapeInv'
<1>1. CASE Recover
  <2>1. stale' \subseteq Scrapers /\ plan' \subseteq Scrapers
    BY <1>1 DEF Recover, ScrapeInv, SharedInv, StoredInv, shared, Incomplete
  <2> QED BY <1>1, <2>1, ElsewhereSound DEF Recover, shared
<1>2. CASE RecoverEnds
  BY <1>2, ElsewhereSound DEF RecoverEnds, shared, ScrapeInv, SharedInv, StoredInv
<1>3. ASSUME NEW e \in Recoverers, NEW t \in Scrapers, RecoverNext(e, t) \/ RecoverTaskById(e, t)
      PROVE  ScrapeInv'
  <2>1. StoredInv /\ stored[t].completed \in BOOLEAN /\ saved \subseteq Materials
        /\ plan \subseteq Scrapers /\ faults \in 0..MaxFaults
    BY DEF ScrapeInv, SharedInv, StoredInv, States
  <2>2. Marked(t, TRUE, stored[t].completed) /\ saved' = saved /\ faults' = faults /\ plan' \subseteq plan
    BY <1>3 DEF RecoverNext, RecoverTaskById, recovery
  <2>3. StoredInv'
    BY <2>1, <2>2, MarkedSound
  <2>4. SharedInv'
    BY <2>1, <2>2, <2>3 DEF SharedInv
  <2>5. PICK mode \in {"planned", "manual", "failed"} : Begin(e, Recovering(t, mode))
    BY <1>3 DEF RecoverNext, RecoverTaskById
  <2> DEFINE new == Recovering(t, mode)
  <2>6. /\ new \in Contexts /\ GoesOn(new) /\ new.at \notin {"batch", "wait"}
        /\ new.bad = {} /\ new.before = {} /\ Begin(e, new)
    BY <2>5, RecoveringTyped
  <2> HIDE DEF new
  <2> QED BY <2>2, <2>4, <2>6, RecoversSound
<1>4. ASSUME NEW e \in Recoverers, NEW t \in Scrapers, ProcessFailedMaterials(e, t)
      PROVE  ScrapeInv'
  <2> DEFINE state == stored[t]
             old == Recovering(t, "failed")
             new == [old EXCEPT !.at = "process", !.page = state.page, !.more = state.more,
                                !.ok = state.ok, !.ids = state.bad]
  <2>1. state \in States
    BY DEF ScrapeInv, SharedInv, StoredInv
  <2>2. old \in Contexts /\ GoesOn(old) /\ old.at = "restore" /\ old.bad = {} /\ old.before = {}
    BY RecoveringTyped
  <2>3. Begin(e, new) /\ UNCHANGED <<shared, recovery, faults>>
    BY <1>4 DEF ProcessFailedMaterials
  <2> HIDE DEF old, state
  <2>4. /\ new \in Contexts /\ new.at = "process" /\ new.bad = {} /\ new.before = {}
        /\ new.cycles = old.cycles /\ new.empty = old.empty
    BY <2>1, <2>2 DEF Contexts, States, Places
  <2> HIDE DEF new
  <2>5. GoesOn(new) /\ new.at \notin {"batch", "wait"}
    BY <2>2, <2>4 DEF GoesOn
  <2>6. SharedInv' /\ saved' = saved /\ faults' = faults
    BY <2>3, SharedStays DEF shared, recovery
  <2> QED BY <2>3, <2>4, <2>5, <2>6, RecoversSound
<1> QED BY <1>1, <1>2, <1>3, <1>4 DEF RecoveryStep

LEMMA StallSound ==
  ASSUME ScrapeInv, NEW t \in Scrapers, Stall(t)
  PROVE  ScrapeInv'
<1>1. stale' \subseteq Scrapers /\ plan' \subseteq Scrapers
  BY DEF Stall, ScrapeInv, SharedInv, StoredInv, recovery
<1> QED BY <1>1, ElsewhereSound DEF Stall, recovery

\* The contexts a process begins with, or comes back with.
LEMMA FreshSound ==
  ASSUME NEW e \in Execs, NEW place \in {"idle", "gone"}, \A m \in Materials : try'[<<e, m>>] = "none"
  PROVE  Sound(e, [Blank EXCEPT !.at = place], try')
<1> DEFINE new == [Blank EXCEPT !.at = place]
<1>1. /\ new \in Contexts /\ new.at = place /\ new.mode = "scrape" /\ new.ok = {} /\ new.bad = {}
      /\ new.before = {} /\ new.cycles = Blank.cycles /\ new.empty = Blank.empty
  BY BlankTyped DEF Contexts, Places
<1> HIDE DEF new
<1>2. GoesOn(new) /\ Books(new) /\ Asked(e, new, try')
  BY <1>1, BlankTyped DEF GoesOn, Books, Asked, Waits, Pending
<1>3. Sound(e, new, try')
  BY <1>1, <1>2 DEF Sound
<1> QED BY <1>3 DEF new

LEMMA CrashSound ==
  ASSUME ScrapeInv, Crash
  PROVE  ScrapeInv'
<1>1. QueueInv'
  BY EmptyQueue DEF Crash
<1>2. SharedInv' /\ faults' # 0
  BY Faulty DEF Crash, shared, ScrapeInv, SharedInv, StoredInv
<1>3. ASSUME NEW e \in Execs PROVE Sound(e, ctx'[e], try')
  <2>1. \A m \in Materials : try'[<<e, m>>] = "none"
    BY DEF Crash, Items
  <2>2. PICK place \in {"idle", "gone"} : ctx'[e] = [Blank EXCEPT !.at = place]
    BY DEF Crash
  <2> QED BY <2>1, <2>2, FreshSound
<1>4. DOMAIN ctx' = Execs
  BY DEF Crash
<1> QED BY <1>1, <1>2, <1>3, <1>4 DEF ScrapeInv, ContextInv, SavedInv

-----------------------------------------------------------------------------
(* The invariant holds of the specification.                                 *)

LEMMA InitSound == Init => ScrapeInv
<1> SUFFICES ASSUME Init PROVE ScrapeInv
  OBVIOUS
<1>1. MaxWidth \in Nat \ {0} /\ MaxRetries \in Nat /\ MaxFaults \in Nat
  BY ScrapeAssumption
<1>2. QueueInv
  <2>1. /\ queue = <<>> /\ active = {} /\ ~looping /\ looping \in BOOLEAN /\ width = 1
        /\ try = [i \in Items |-> "none"] /\ attempt = [i \in Items |-> 0]
    BY DEF Init, QueueInit
  <2>2. queue \in Seq(Items) /\ IsInjective(queue) /\ Range(queue) = {}
    <3>1. <<>> \in Seq(Items) /\ DOMAIN <<>> = {}
      BY EmptySeq
    <3> QED BY <2>1, <3>1 DEF IsInjective, Range
  <2>3. IsFiniteSet(active) /\ Cardinality(active) <= MaxWidth
    BY <1>1, <2>1, FS_EmptySet
  <2>4. width \in 1..MaxWidth
    BY <1>1, <2>1
  <2>5. try \in [Items -> Tries] /\ attempt \in [Items -> 0..MaxRetries]
    BY <1>1, <2>1 DEF Tries
  <2> QED BY <2>1, <2>2, <2>3, <2>4, <2>5 DEF QueueInv, QueueTypeOK, Queued, Pending
<1>3. SharedInv
  <2>1. NoState \in States /\ NoState.ok \cap NoState.bad = {}
    BY DEF NoState, States
  <2> HIDE DEF NoState
  <2> QED BY <1>1, <2>1 DEF Init, SharedInv, StoredInv
<1>4. ASSUME NEW e \in Execs PROVE Sound(e, ctx[e], try)
  <2>1. ctx[e] = Blank /\ \A m \in Materials : try[<<e, m>>] = "none"
    BY DEF Init, QueueInit, Items
  <2>2. GoesOn(Blank) /\ Books(Blank) /\ Asked(e, Blank, try)
    BY <2>1, BlankTyped DEF GoesOn, Books, Asked, Waits, Pending
  <2> QED BY <2>1, <2>2, BlankTyped DEF Sound
<1>5. ASSUME NEW e \in Scrapers PROVE Kept(ctx[e], saved)
  <2>1. ctx[e] = Blank
    BY ScrapeAssumption DEF Init
  <2> QED BY <2>1, BlankTyped, KeptNothing
<1>6. DOMAIN ctx = Execs
  BY DEF Init
<1> QED BY <1>2, <1>3, <1>4, <1>5, <1>6 DEF ScrapeInv, ContextInv, SavedInv

LEMMA NextSound == ScrapeInv /\ [Next]_vars => ScrapeInv'
<1> SUFFICES ASSUME ScrapeInv, [Next]_vars PROVE ScrapeInv'
  OBVIOUS
<1>1. CASE UNCHANGED vars
  BY <1>1, ElsewhereSound DEF vars, shared, recovery, ScrapeInv, SharedInv, StoredInv
<1>2. CASE QueueStep
  <2>1. QueueInv' /\ Shifts
    BY <1>2, QueueStepSound DEF ScrapeInv
  <2>2. UNCHANGED <<ctx, shared, recovery, faults>>
    BY <1>2 DEF QueueStep
  <2>3. SharedInv' /\ saved' = saved /\ faults' = faults
    BY <2>2, SharedStays DEF shared, recovery
  <2> QED BY <2>1, <2>2, <2>3, ShiftsSound
<1> QED BY <1>1, <1>2, ScrapeStarts, PipelineStepSound, RecoveryStepSound, StallSound, CrashSound DEF Next

LEMMA ScrapeInvariant == Spec => []ScrapeInv
  BY InitSound, NextSound, PTL DEF Spec

(* The contexts, the states in Redis and the queue have their types: no      *)
(* scrape runs more than maxPages cycles, or more than                       *)
(* maxConsecutiveEmptyResults of them without a new ad, and no request is    *)
(* tried more often than the retry handler allows.                           *)
THEOREM ScrapeTypeCorrect == Spec => []ScrapeTypeOK
<1>1. ScrapeInv => ScrapeTypeOK
  <2> SUFFICES ASSUME ScrapeInv PROVE ScrapeTypeOK
    OBVIOUS
  <2>1. QueueTypeOK /\ SharedInv /\ \A e \in Execs : ctx[e] \in Contexts
    BY DEF ScrapeInv, QueueInv, ContextInv, Sound
  <2>2. ASSUME NEW e \in Execs, NEW c \in Contexts
        PROVE  /\ c.at \in Places /\ c.task \in Scrapers \cup {NoTask}
               /\ c.page \in Nat /\ c.cycles \in 0..MaxPages /\ c.empty \in 0..MaxEmpty
               /\ UNION {c.ids, c.todo, c.batch, c.got, c.ads, c.ok, c.bad, c.before} \subseteq Materials
    BY DEF Contexts
  <2> QED BY <2>1, <2>2 DEF ScrapeTypeOK, SharedInv, StoredInv, States, Places
<1> QED BY <1>1, ScrapeInvariant, PTL

(* No request waits in the queue while no loop will take it out: the loop    *)
(* ends only with an empty queue, and whoever finds it at rest starts it.    *)
THEOREM QueueAlwaysServed == Spec => []QueueIsServed
<1>1. ScrapeInv => QueueIsServed
  <2> SUFFICES ASSUME ScrapeInv PROVE QueueIsServed
    OBVIOUS
  <2>1. /\ queue \in Seq(Items) /\ (looping <=> active # {} \/ queue # <<>>)
        /\ \A i \in Items : try[i] = "queued" <=> i \in Range(queue)
    BY DEF ScrapeInv, QueueInv, QueueTypeOK, Queued
  <2>2. \A i : i \in Range(queue) <=> \E k \in 1..Len(queue) : queue[k] = i
    BY <2>1, Listed
  <2> QED BY <2>1, <2>2 DEF QueueIsServed
<1> QED BY <1>1, ScrapeInvariant, PTL

(* However many scrapes share the queue, and however often the width is      *)
(* adjusted, at most MaxWidth requests are under way at once.                *)
THEOREM ConcurrencyAlwaysBounded == Spec => []ConcurrencyBounded
<1>1. ScrapeInv => ConcurrencyBounded
  BY DEF ScrapeInv, QueueInv, ConcurrencyBounded
<1> QED BY <1>1, ScrapeInvariant, PTL

(* Without faults, when a scrape ends every material on the pages it read is *)
(* in the database or among its failures, or it has no video, or its video   *)
(* is another row's: none else falls between the filter, the batches, their  *)
(* retries, the transaction and the saving one by one that follows when one  *)
(* row is refused, whatever other executions save between the two.           *)
THEOREM EveryMaterialSaved == Spec => []ScrapeSavesAll
<1>1. ScrapeInv => ScrapeSavesAll
  BY DEF ScrapeInv, SavedInv, Kept, Read, OnItsWay, ScrapeSavesAll, At
<1> QED BY <1>1, ScrapeInvariant, PTL

(* A recovered task asks for none of the materials that Redis recorded as    *)
(* processed when it was taken up.                                           *)
THEOREM ProcessedNotRequested == Spec => []RestoredNotRequested
<1>1. ScrapeInv => RestoredNotRequested
  BY DEF ScrapeInv, ContextInv, Sound, Asked, RestoredNotRequested
<1> QED BY <1>1, ScrapeInvariant, PTL

(* What is recorded as processed is not recorded as failed, in memory or in  *)
(* Redis, whichever execution of a task wrote its record last.               *)
THEOREM BooksAlwaysDisjoint == Spec => []BooksDisjoint
<1>1. ScrapeInv => BooksDisjoint
  BY DEF ScrapeInv, ContextInv, Sound, Books, SharedInv, StoredInv, BooksDisjoint
<1> QED BY <1>1, ScrapeInvariant, PTL

(* Once a request for a material succeeded or was given up, no later answer, *)
(* retry or batch reopens it: it is only forgotten with its execution.       *)
THEOREM EachAskedOnce == Spec => OnceOnly
<1> DEFINE StaysSettled == \A i \in Items : Settled(i) => try'[i] \in {try[i], "none"}
<1>1. ScrapeInv /\ [Next]_vars => [StaysSettled]_vars
  <2> SUFFICES ASSUME ScrapeInv, Next PROVE StaysSettled
    OBVIOUS
  <2>1. CASE QueueStep
    <3>1. Shifts
      BY <2>1, QueueStepSound DEF ScrapeInv
    <3> QED BY <3>1 DEF Shifts, Settled, Pending
  <2>2. CASE Crash
    BY <2>2 DEF Crash
  <2>3. ASSUME NEW e \in Execs, Scrape(e) \/ PipelineStep(e) PROVE StaysSettled
    <3>1. CASE StartBatch(e)
      BY <3>1, StartBatchSound DEF Settled
    <3>2. CASE Finish(e) \/ RecordFailed(e)
      BY <3>2 DEF Finish, RecordFailed, Forgotten
    <3>3. CASE ~StartBatch(e) /\ ~Finish(e) /\ ~RecordFailed(e)
      <4>1. UNCHANGED queueVars
        BY <2>3, <3>3 DEF PipelineStep, Scrape, Restore, SaveInitial, SaveInitialFails, GetApiConfig,
             Request, RequestFails, SkipRequest, Filter, Process, ProcessThrows, RecordFailure, EndBatch,
             EndProcess, Save, Commit, EndCycle
      <4> QED BY <4>1 DEF queueVars
    <3> QED BY <3>1, <3>2, <3>3
  <2>4. CASE RecoveryStep \/ \E t \in Scrapers : Stall(t)
    <3>1. UNCHANGED queueVars
      BY <2>4 DEF RecoveryStep, Recover, RecoverEnds, RecoverNext, RecoverTaskById,
           ProcessFailedMaterials, Begin, Stall
    <3> QED BY <3>1 DEF queueVars
  <2> QED BY <2>1, <2>2, <2>3, <2>4 DEF Next
<1> QED BY <1>1, ScrapeInvariant, PTL DEF Spec, OnceOnly

(* A scrape in the registry is one: a step of the Facebook scraper leaves    *)
(* the TikTok scraper alone, so what is proved of Spec holds of ScrapesSpec. *)
THEOREM TiktokInRegistry == ScrapesSpec => Spec
<1>1. ScrapesInit => Init
  BY DEF ScrapesInit
<1>2. [TiktokStep \/ FacebookStep]_<<vars, fbVars, type>> => [Next]_vars
  BY DEF TiktokStep, FacebookStep
<1> QED BY <1>1, <1>2, PTL DEF ScrapesSpec, Spec
=============================================================================
