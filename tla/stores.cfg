SPECIFICATION MCSpec
CONSTANTS
  Chats = {r1, r2}
  FixedIds = {s}
  Budget = 1
  LoadLimit = 4
  MaxDeletes = 1
  Turns = {t1, t2}
  Keywords = {go, goZero, news}
  KeywordLists <- SomeLists
  FoundBy <- WhatIsFound
  MaxItems = 2
  Confidences = {60, 90}
  Lengths = {1, 3}
  PromptRoom = 3
  MaxNotes = 2
  MaxWindows = 4
  Docs = {docA, docB}
  Deleters = {x, y}
  MaxChunks = 2
  Children = {childA, childB, childC}
  Parents = {aParent}
  Relevance <- HowWell
  CandidateTopK = 4
  TopK = 2
  MaxConcurrent = 2
  Readers = {r1, r2}
  Limits = {1, 2}
  LastDay = 2
  LastHour = 3
  NoReader = NoReader
  Listed = {a, b, c}
  PageSize = 2
  MaxPages = 3
  Attempts = 2
  MaxMoves = 1
  Ids = {i1, i2, i3}
  Legacy = {i1}
  Users = {r1, r2}
  StoreLimit = 2
  ApprovalTTL = 1
  MaxTicks = 2
  MaxCrashes = 1
  Nil = Nil
  Torn = Torn
  childA = childA
  childB = childB
  childC = childC
  aParent = aParent
  docA = docA
  docB = docB
  go = go
  goZero = goZero
  news = news
INVARIANT TypesHold
INVARIANT SummariesFit
INVARIANT NothingForgotten
INVARIANT PromptIsRight
INVARIANT ChunksFollowTheList
INVARIANT RerankKeepsTheBest
INVARIANT QuotesAreFresh
INVARIANT ListIsWhole
INVARIANT ApprovalsHold
PROPERTY CountsAreRight
PROPERTY HistoryGrows
PROPERTY PendingStays
PROPERTY RefinesDecideOnce
SYMMETRY Symmetric
CHECK_DEADLOCK FALSE
