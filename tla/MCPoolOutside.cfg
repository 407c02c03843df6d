CONSTANTS
  m1 = m1
  s1 = s1
  s2 = s2
  s3 = s3
  b1 = b1
  b2 = b2
  r1 = r1
  r2 = r2
  bg = bg
  sweep = sweep
  poll = poll
  admin = admin
  k1 = k1
  k2 = k2
  NoOne = NoOne
  NoSession = NoSession
  NoState = NoState
  Models = {m1}
  Sessions = {s1}
  Bids = {b1}
  ModelOf <- ToModel1
  BidOf <- OneBid
  Leftover = {}
  Excluded = {}
  Requests = {r1}
  ReqModel <- ReqModel1
  KeyOf <- OwnKey
  Backgrounds = {}
  Sweepers = {sweep}
  Pollers = {poll}
  Admins = {admin}
  MaxCloseRetries = 1
  Enabled = {"failover", "dead", "gone", "idle", "lost"}
SPECIFICATION Spec
SYMMETRY Symmetric
INVARIANTS
  CloseHasOwner
  OneWalletCall
  NoPhantomUse
