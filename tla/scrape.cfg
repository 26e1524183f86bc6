SPECIFICATION ScrapesSpec
CONSTANTS
  Execs = {s, r}
  Scrapers = {s}
  Materials = {m1, m2, m3}
  m1 = m1
  m2 = m2
  m3 = m3
  v = v
  Listing <- List
  VideoOf <- Videos
  NoVideo = NoVideo
  MaxRetries = 2
  MaxWidth = 2
  Answers = {"429"}
  MaxPages = 3
  MaxAds = 1
  Breaker = 4
  MaxEmpty = 2
  MaxFaults = 1
  NoTask = NoTask
  Jobs = {j}
  Ads = {a, b, c}
  Responses = {x, y}
  PageAds = 2
  AdLimit = 2
  Attempts = 2
  BatchSize = 1
  MaxBroken = 2
INVARIANTS
  ScrapeTypeOK
  QueueIsServed
  ConcurrencyBounded
  ScrapeSavesAll
  RestoredNotRequested
  BooksDisjoint
  FbTypeOK
  CollectedOnce
  NoPageLeft
  CollectedIsSaved
PROPERTIES
  OnceOnly
CHECK_DEADLOCK FALSE
