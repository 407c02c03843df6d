SPECIFICATION Spec
CONSTANTS
  opener = opener
  reader = reader
  p1 = p1
  p2 = p2
  p3 = p3
  b1 = b1
  b2 = b2
  b3 = b3
  Opener = opener
  Callers = {opener, reader}
  Nobody = Nobody
  Providers = {p1, p2, p3}
  NoProvider = NoProvider
  Bids = {b1, b2, b3}
  NoBid = NoBid
  Model = 1
  Excluded = {p3}
  ProvOf <- MCProvOf
  RatedAnswers <- MCRated
  StakeOf <- MCStake
  ModelFiles <- MCModelFiles
  BidFiles <- MCBidFiles
  CapWei = 2
  TTL = 1
  RetryPause = 1
  PreSendProofWindow = 1
  TransientBase = 1
  TransientCap = 2
  SlotHoldCap = 4
  OpenMinPostTime = 2
  ReconcileReserve = 1
  ReadCallTimeout = 1
  TransientBudget = 2
  TransientMaxRetries = 2
  MaxWindowRetries = 1
  MaxBidAttempts = 2
  ReconcilePolls = 2
  ReconcileGap = 1
  Cooldown = 2
  MaxRetryAfter = 2
  InputsMaxAge = 2
  MaxOpens <- MCMaxOpens
INVARIANTS
  CatalogSound
  PostAllowed
  StakeWithinCap
  OpensContained
  AdviceHolds
PROPERTY
  OpenEnds
CHECK_DEADLOCK FALSE
