\* Each part of the agent by itself, at the bounds MCAgentParts gives it; the
\* cache has three workers, three requests and room for two responses.
CONSTANTS
  None = None
  t1 = t1  t2 = t2  t3 = t3  k1 = k1  k2 = k2  k3 = k3
  l1 = l1  l2 = l2  c1 = c1  c2 = c2
  i1 = i1  i2 = i2  x = x  y = y  z = z  bad = bad  s1 = s1  s2 = s2
  u = u  e1 = e1  e2 = e2  e3 = e3  a = a  b = b  c = c
  Threads <- WorkerThreads
  Keys <- KeysOfThree
  MaxSize = 2
  MaxCalls = 4
  Callers <- TwoCallers
  MaxRetries = 1
  Failing = 2
  Serving <- OneThread
  Tasks <- TwoTasks
  Conns <- TwoConns
  Ids <- TwoIds
  Vectors <- ThreeVectors
  Misfits <- OneMisfit
  Scopes <- TwoScopes
  Sim <- Similarity
  MaxBatch = 2
  Threshold = 88
  Unfiltered = Unfiltered
  NoFilter = NoFilter
  Users <- OneUser
  Topics <- ThreeTopics
  Events <- ThreeEvents
  Payloads <- FourPayloads
  Related <- Relations
  Texts <- ThreeTexts
  Length <- Lengths
  MaxChunks = 3
  BatchSize = 2
  CacheSize = 2
  MaxTexts = 3
  Items <- FiveItems
  MaxHistory = 3
  AgentUp <- PythonTies
  BackendUp <- GoTies
  Rankable <- CrowdsAndPairs
  Profiles <- TwoProfiles
  Settings <- Defaults
  Configs <- FourConfigs
  Requests <- EveryRequest
  MaxItems = 2
SPECIFICATION PartsSpec
CHECK_DEADLOCK FALSE
INVARIANTS WithinMaxSize SingleFlight OnceUnlessUndone FailsFast NoLeak OneConnection VectorStoresAgree UniqueApart InterestStoresAgree EmbeddingsOwn RebuildAgrees OrderKept LearningFavours PassedIsTraceable CallsPermitted
PROPERTIES EveryCallReturns Trips Recovers EveryCallEnds Heals
