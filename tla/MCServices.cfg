SPECIFICATION SmallSpec
CONSTANTS
  v = v
  w = w
  Feed <- Feeds
  Order <- Venues
  Preferred = "wallex"
  Request = {v, w}
  Retries = 1
  EntryTtl = 1
  Timeout = 1
  MaxClock = 2
  Route = {"login"}
  Caller = {v, w}
  Body <- Bodies
  Limit <- Limits
  Window <- Windows
  Block <- Blocks
  Second = 2
  MaxCount = 2
  Asset = {"a", "b", "c"}
  Worker = {v, w}
  Attempts = 2
  PageRetries = 1
  PageSize = 3
  MaxPages = 2
  Page <- Pages
  BatchSize = 2
  MaxStalled = 1
  MaxJobs = 2
  MaxSyncClock = 1
  MaxFaults <- Faults
  Replica = {v, w}
  Coin = {"a", "b", "c"}
  Report <- Lists
  Listing <- Listings
  RowId = {1, 2, 3}
  SortKey = {1, 2}
  PageLimit = 1
  Client = {v, w}
  Network = {"btc", "eth"}
  AddressSet <- Sets
  MaxNamed = 1
  Editor = {v, w}
  Unit = 10
  SentPrice = {2}
  Patch <- Patches
  TomanRate = {12, 25}
  MaxPrice = 2
  Portfolio = {"p"}
  HeldAsset = {"a", "b"}
  Investor = {"i"}
  Viewer = {"r"}
  Amount = {1}
  MarketPrice = {2}
  MaxTrades = 1
  MaxHoldings = 2
  MaxPriceSync = 1
  MaxChanges = 2
  Retention = 1
  MaxDay = 2
  Tab = {"left", "right"}
  Account = {"a"}
  SessionId = {v, w}
  Standings <- Ranks
  Taken <- Asks
  AccessLife = 1
  RefreshLife = 2
  MaxInstant = 2
  MaxIssues = 2
INVARIANT TypesOK
PROPERTY ImplementsCooldown
INVARIANT ActiveIsOneReport
INVARIANT WalksAreComplete
INVARIANT WalletsSound
SYMMETRY Symmetry
CHECK_DEADLOCK FALSE
PROPERTY MarketSound
INVARIANT AdmissionSound
PROPERTY AssetsSound
PROPERTY EntrySound
PROPERTY PositionsSound
INVARIANT HistorySound
