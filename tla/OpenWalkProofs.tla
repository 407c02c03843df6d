--------------------------- MODULE OpenWalkProofs ---------------------------
(***************************************************************************)
(* Proofs about OpenWalk, for any bids, providers, gateway files, stakes   *)
(* and bounds.                                                             *)
(***************************************************************************)
EXTENDS OpenWalk, WellFoundedInduction, TLAPS

-----------------------------------------------------------------------------
\* Operators.

\* A set of naturals that is not empty has a least element, and Min is it.
LEMMA MinIsLeast ==
    ASSUME NEW S \in SUBSET Nat, S # {}
    PROVE  Min(S) \in S /\ \A y \in S : Min(S) <= y
<1> DEFINE R == {ss \in Nat \X Nat : ss[1] < ss[2]}
<1>1. IsWellFoundedOn(R, Nat)
  BY NatLessThanWellFounded, Zenon DEF OpToRel
<1>2. PICK x \in S : \A y \in S : ~(<<y, x>> \in R)
  <2> HIDE DEF R
  <2> QED
    BY <1>1, WFMin
<1>3. ASSUME NEW y \in S, y < x PROVE FALSE
  <2>1. <<y, x>> \in Nat \X Nat /\ <<y, x>>[1] < <<y, x>>[2]
    BY <1>3
  <2>2. <<y, x>> \in R
    BY <2>1, Zenon
  <2>3. QED
    BY <1>2, <2>2
<1>4. \A y \in S : x <= y
  BY <1>3
<1>5. QED
  BY <1>4 DEF Min

\* What is advised is a cool-down of the pool, unless it is capped.
LEMMA RetryAfterIsACooldown ==
    ASSUME TypeOK, NEW pool \in SUBSET Providers, RetryAfter(pool) \notin {0, MaxRetryAfter}
    PROVE  RetryAfter(pool) \in Nat /\ \E p \in pool : cooling[p] = RetryAfter(pool)
<1> DEFINE L == {cooling[p] : p \in pool \cap CoolingProviders}
<1>1. L \in SUBSET Nat
  BY WalkAssumption DEF TypeOK, CoolingProviders
<1>2. CASE L = {}
  BY <1>2 DEF RetryAfter
<1>3. CASE L # {}
  <2>1. Min(L) \in L
    BY <1>1, <1>3, MinIsLeast
  <2>2. RetryAfter(pool) = Min(L)
    BY <1>3 DEF RetryAfter
  <2>3. QED
    BY <1>1, <2>1, <2>2
<1>4. QED
  BY <1>2, <1>3

\* An error after which a transaction may be on its way is treated as one, or
\* as one to try again within the window; the window is only used when it may.
LEMMA ClassTable ==
    ASSUME NEW e \in OpenErrors
    PROVE  /\ MayBeSent(e) => Class(e) \in {"maybeSent", "transientWindow"}
           /\ Class(e) = "transientWindow" => op.windows < MaxWindowRetries
  BY DEF OpenErrors, Err, MayBeSent, Class, ClassifyOpenErr

LEMMA ChainWaitReasonType ==
    ASSUME NEW e
    PROVE  ChainWaitReason(e) \in {"none", "wallet_tx_pending", "chain_congested"}
  BY DEF ChainWaitReason

-----------------------------------------------------------------------------
\* What the updates of the operation leave as it is: the request it works
\* for, the bids it chooses from and the opens it may have sent.

SameRequest == op'.kind = op.kind /\ op'.extra = op.extra /\ op'.asked = op.asked
SameChoice == op'.cands = op.cands /\ op'.lv = op.lv /\ op'.today = op.today
SameSent == op'.windows = op.windows /\ op'.sent = op.sent

LEMMA PcRow ==
    ASSUME op \in OpStates, NEW pc, op' = [op EXCEPT !.pc = pc]
    PROVE  /\ op'.pc = pc
           /\ SameRequest /\ op'.bid = op.bid /\ SameChoice /\ SameSent
  BY DEF OpStates, SameRequest, SameChoice, SameSent

LEMMA PcTRow ==
    ASSUME op \in OpStates, NEW pc, op' = [op EXCEPT !.pc = pc, !.t = 0]
    PROVE  /\ op'.pc = pc /\ op'.t = 0 /\ op'.left = op.left /\ op'.polls = op.polls
           /\ SameRequest /\ op'.bid = op.bid /\ SameChoice /\ SameSent
  BY DEF OpStates, SameRequest, SameChoice, SameSent

LEMMA WakeRow ==
    ASSUME op \in OpStates, NEW pc, NEW n, op' = [op EXCEPT !.pc = pc, !.t = 0, !.retries = n]
    PROVE  /\ op'.pc = pc
           /\ SameRequest /\ op'.bid = op.bid /\ SameChoice /\ SameSent
  BY DEF OpStates, SameRequest, SameChoice, SameSent

LEMMA SleepRow ==
    ASSUME op \in OpStates, NEW back, op' = [op EXCEPT !.pc = "sleep", !.back = back, !.t = 0]
    PROVE  /\ op'.pc = "sleep" /\ op'.back = back
           /\ SameRequest /\ op'.bid = op.bid /\ SameChoice /\ SameSent
  BY DEF OpStates, SameRequest, SameChoice, SameSent

LEMMA HealthRow ==
    ASSUME op \in OpStates, NEW rows, op' = [op EXCEPT !.pc = "health", !.list = rows, !.t = 0]
    PROVE  /\ op'.pc = "health"
           /\ SameRequest /\ SameSent
  BY DEF OpStates, SameRequest, SameSent

LEMMA LimitRow ==
    ASSUME op \in OpStates, NEW c, NEW p, op' = [op EXCEPT !.pc = "limit", !.cands = c, !.pool = p]
    PROVE  /\ op'.pc = "limit" /\ op'.cands = c
           /\ SameRequest /\ SameSent
  BY DEF OpStates, SameRequest, SameSent

LEMMA BetweenRow ==
    ASSUME op \in OpStates, NEW c, NEW n, op' = [op EXCEPT !.pc = "between", !.cands = c, !.left = n]
    PROVE  /\ op'.pc = "between" /\ op'.cands = c
           /\ SameRequest /\ SameSent
  BY DEF OpStates, SameRequest, SameSent

LEMMA ReholdRow ==
    ASSUME op \in OpStates, NEW n, op' = [op EXCEPT !.pc = "limit", !.left = n, !.spent = 0, !.retries = 0]
    PROVE  /\ op'.pc = "limit"
           /\ SameRequest /\ SameChoice /\ SameSent
  BY DEF OpStates, SameRequest, SameChoice, SameSent

LEMMA StakeRow ==
    ASSUME op \in OpStates, NEW l, NEW d, op' = [op EXCEPT !.pc = "walk", !.lv = l, !.today = d]
    PROVE  /\ op'.pc = "walk" /\ op'.lv = l /\ op'.today = d /\ op'.cands = op.cands
           /\ SameRequest /\ SameSent
  BY DEF OpStates, SameRequest, SameSent

LEMMA InputsRow ==
    ASSUME op \in OpStates, NEW d, op' = [op EXCEPT !.pc = "stake", !.t = 0, !.today = d]
    PROVE  /\ op'.pc = "stake" /\ op'.today = d /\ op'.cands = op.cands
           /\ SameRequest /\ SameSent
  BY DEF OpStates, SameRequest, SameSent

LEMMA BidRow ==
    ASSUME op \in OpStates, NEW b, NEW s, NEW tr, op' = [op EXCEPT !.pc = "bid", !.bid = b, !.skipped = s, !.tried = tr]
    PROVE  /\ op'.pc = "bid" /\ op'.bid = b
           /\ SameRequest /\ SameChoice /\ SameSent
  BY DEF OpStates, SameRequest, SameChoice, SameSent

LEMMA NamedRow ==
    ASSUME op \in OpStates, NEW b, op' = [op EXCEPT !.pc = "named", !.bid = b, !.t = 0]
    PROVE  /\ op'.pc = "named" /\ op'.bid = b
           /\ SameRequest /\ SameSent
  BY DEF OpStates, SameRequest, SameSent

LEMMA FaultedRow ==
    ASSUME op \in OpStates, NEW b, op' = [op EXCEPT !.pc = "walk", !.bid = b]
    PROVE  /\ op'.pc = "walk"
           /\ SameRequest /\ SameChoice /\ SameSent
  BY DEF OpStates, SameRequest, SameChoice, SameSent

LEMMA LostRow ==
    ASSUME op \in OpStates, NEW n, NEW w, op' = [op EXCEPT !.pc = "poll", !.t = 0, !.polls = 1, !.sent = n, !.why = w]
    PROVE  /\ op'.pc = "poll" /\ op'.polls = 1 /\ op'.sent = n /\ op'.windows = op.windows /\ op'.left = op.left
           /\ SameRequest /\ op'.bid = op.bid /\ SameChoice
  BY DEF OpStates, SameRequest, SameChoice

LEMMA AgainRow ==
    ASSUME op \in OpStates, NEW n, op' = [op EXCEPT !.pc = "poll", !.t = 0, !.polls = n]
    PROVE  /\ op'.pc = "poll" /\ op'.polls = n
           /\ SameRequest /\ op'.bid = op.bid /\ SameChoice /\ SameSent
  BY DEF OpStates, SameRequest, SameChoice, SameSent

-----------------------------------------------------------------------------
\* Types.

LEMMA IdleOpType == IdleOp \in OpStates
  BY WalkAssumption, FeedAssumption DEF IdleOp, OpStates, OpPCs

LEMMA StopType ==
    ASSUME TypeOK, NEW why, NEW pool \in SUBSET Providers, Stop(why, pool)
    PROVE  op' \in OpStates /\ advice' \in [wait : Nat, pool : SUBSET Providers]
<1>1. CASE RetryAfter(pool) \in {0, MaxRetryAfter}
  BY <1>1, IdleOpType DEF Stop, NoAdvice
<1>2. CASE RetryAfter(pool) \notin {0, MaxRetryAfter}
  BY <1>2, IdleOpType, RetryAfterIsACooldown DEF Stop
<1>3. QED
  BY <1>1, <1>2

\* How an operation ends leaves the operation, the advice and the cut typed.
EndTyped ==
    /\ op' \in OpStates
    /\ advice' \in [wait : Nat, pool : SUBSET Providers]
    /\ {cutNext', owed'} \subseteq Providers \cup {NoProvider}

LEMMA FailType ==
    ASSUME TypeOK, NEW why, Fail(why)
    PROVE  EndTyped
  BY StopType DEF Fail, EndTyped, ClearCut, KeepCut, cutVars, TypeOK

LEMMA RefuseType ==
    ASSUME TypeOK, NEW why, NEW pool \in SUBSET Providers, Refuse(why, pool)
    PROVE  EndTyped
  BY StopType DEF Refuse, EndTyped, ClearCut, cutVars, TypeOK

LEMMA SucceedType ==
    ASSUME TypeOK, Succeed
    PROVE  EndTyped
  BY StopType DEF Succeed, EndTyped, ClearCut, cutVars, TypeOK

LEMMA BackoffType ==
    ASSUME TypeOK, NEW o \in OpStates, NEW back \in {"rated", "bid"}, BackoffOrFail(o, back)
    PROVE  EndTyped
<1>1. CASE CanBackoff
  <2>1. op' = [o EXCEPT !.pc = "sleep", !.back = back, !.t = 0] /\ UNCHANGED <<advice, cutVars>>
    BY <1>1 DEF BackoffOrFail
  <2>2. op' \in OpStates
    BY <2>1 DEF OpStates, OpPCs
  <2>3. QED
    BY <2>1, <2>2 DEF EndTyped, TypeOK, cutVars
<1>2. CASE ~CanBackoff
  BY <1>2, FailType DEF BackoffOrFail
<1>3. QED
  BY <1>1, <1>2
-----------------------------------------------------------------------------
\* The feeds.

\* The bids copy is never replaced by nothing or by an older one.
NotOlder ==
    bids.file # 0 =>
      bids'.file # 0 /\ BidFiles[bids.file].stamp <= BidFiles[bids'.file].stamp

LEMMA StampType ==
    /\ Len(BidFiles) \in Nat \ {0} /\ DOMAIN BidFiles = 1 .. Len(BidFiles)
    /\ Len(ModelFiles) \in Nat \ {0} /\ DOMAIN ModelFiles = 1 .. Len(ModelFiles)
    /\ \A i \in 1 .. Len(BidFiles) : BidFiles[i].stamp \in Nat
    /\ \A i \in 1 .. Len(ModelFiles) : ModelFiles[i].stamp \in Nat
<1>1. BidFiles \in Seq(ToSet(BidFiles)) \ {<<>>} /\ ModelFiles \in Seq(ToSet(ModelFiles)) \ {<<>>}
  BY FeedAssumption
<1>2. QED
  BY <1>1, FeedAssumption

\* A copy is replaced by one with a higher stamp, kept, or refused.
LEMMA ReplaceSnapTable ==
    ASSUME NEW files \in {ModelFiles, BidFiles}, NEW cur \in 0 .. Len(files),
           NEW next \in 1 .. Len(files)
    PROVE  /\ ReplaceSnap(files, cur, next) \in 0 .. Len(files)
           /\ ReplaceSnap(files, cur, next) # 0 /\ cur # 0 =>
                files[cur].stamp <= files[ReplaceSnap(files, cur, next)].stamp
<1>1. Len(files) \in Nat /\ \A i \in 1 .. Len(files) : files[i].stamp \in Nat
  BY StampType
<1>2. QED
  BY <1>1 DEF ReplaceSnap

LEMMA CopyTable ==
    ASSUME NEW files, NEW f \in 0 .. Len(files), NEW fresh \in 0 .. TTL, NEW pause \in 0 .. RetryPause
    PROVE  [file |-> f, fresh |-> fresh, pause |-> pause] \in Copy(files)
  BY DEF Copy

LEMMA OlderCopy ==
    ASSUME NEW files, NEW copy \in Copy(files)
    PROVE  /\ Older(copy) \in Copy(files) /\ Older(copy).file = copy.file
           /\ Due(copy) => Due(Older(copy))
  BY FeedAssumption DEF Copy, Older, Due, Down

\* The invariant of the feeds.
FeedInv == FeedTypeOK /\ FetchPaced

\* A step of the feeds keeps their invariant and goes forward.
FeedGood == FeedInv' /\ NotOlder

\* A caller goes where it holds no mutex.
LEMMA GoGood ==
    ASSUME FeedInv, NEW c \in Callers, NEW to \in FeedPCs \ {"modelsFetch", "bidsFetch"}, FGo(c, to),
           UNCHANGED <<models, byName, detail, bids, fetching>>
    PROVE  FeedGood
<1>1. bids'.file # 0 /\ bids.file # 0 => BidFiles[bids.file].stamp \in Nat
  BY StampType DEF FeedInv, FeedTypeOK, Copy
<1>2. QED
  BY <1>1 DEF FeedGood, FeedInv, FeedTypeOK, FetchPaced, FGo, NotOlder

LEMMA ModelsStepGood ==
    ASSUME FeedInv, NEW c \in Callers,
           \/ ModelsLock(c) \/ ModelsFailed(c)
           \/ \E i \in DOMAIN ModelFiles, stampOK \in BOOLEAN : ModelsFetched(c, i, stampOK)
    PROVE  FeedGood
<1>1. CASE ModelsLock(c)
  <2>1. CASE fetching' = fetching
    <3>1. FGo(c, "bids") /\ UNCHANGED <<models, byName, detail, bids, fetching>>
      BY <1>1, <2>1, FeedAssumption DEF ModelsLock, FeedInv, FeedTypeOK, FGo
    <3>2. QED
      BY <3>1, GoGood DEF FeedPCs
  <2>2. CASE fetching' # fetching
    <3>1. /\ fetching["models"] = Nobody /\ Due(models) /\ fetching' = [fetching EXCEPT !["models"] = c]
          /\ fpc' = [fpc EXCEPT ![c] = "modelsFetch"] /\ UNCHANGED <<models, byName, detail, bids>>
      BY <1>1, <2>2 DEF ModelsLock, FGo
    <3>2. FeedTypeOK'
      BY <3>1 DEF FeedInv, FeedTypeOK, FeedPCs
    <3>3. FetchPaced'
      BY <3>1, FeedAssumption DEF FeedInv, FeedTypeOK, FetchPaced, Due
    <3>4. NotOlder
      BY <3>1, StampType DEF NotOlder, FeedInv, FeedTypeOK, Copy
    <3>5. QED
      BY <3>2, <3>3, <3>4 DEF FeedGood, FeedInv
  <2>3. QED
    BY <2>1, <2>2
<1>2. ASSUME models' \in Copy(ModelFiles), detail' \in 0 .. Len(ModelFiles), bids' = bids,
             fpc[c] = "modelsFetch", FetchOver(c, "models", "bids")
      PROVE  FeedGood
  <2>1. FeedTypeOK'
    BY <1>2 DEF FetchOver, FGo, FeedInv, FeedTypeOK, FeedPCs
  <2>2. \A d \in Callers : fpc[d] = "modelsFetch" => d = c
    BY <1>2 DEF FeedInv, FetchPaced
  <2>3. FetchPaced'
    BY <1>2, <2>2 DEF FetchOver, FGo, FeedInv, FeedTypeOK, FetchPaced
  <2>4. NotOlder
    BY <1>2, StampType DEF NotOlder, FeedInv, FeedTypeOK, Copy
  <2>5. QED
    BY <2>1, <2>3, <2>4 DEF FeedGood, FeedInv
<1>3. CASE ModelsFailed(c)
  <2>1. models' \in Copy(ModelFiles)
    BY <1>3, FeedAssumption DEF ModelsFailed, FeedInv, FeedTypeOK, Copy
  <2>2. QED
    BY <1>2, <1>3, <2>1 DEF ModelsFailed, FeedInv, FeedTypeOK
<1>4. ASSUME NEW i \in DOMAIN ModelFiles, NEW stampOK \in BOOLEAN, ModelsFetched(c, i, stampOK)
      PROVE  FeedGood
  <2> DEFINE next == IF stampOK /\ DetailUsable(i) THEN ReplaceSnap(ModelFiles, detail, i) ELSE 0
  <2>1. next \in 0 .. Len(ModelFiles)
    BY StampType, ReplaceSnapTable DEF FeedInv, FeedTypeOK
  <2>2. /\ models' = [file |-> i, fresh |-> TTL, pause |-> IF next = 0 THEN RetryPause ELSE 0]
        /\ detail' = IF next = 0 THEN detail ELSE next
        /\ bids' = bids /\ fpc[c] = "modelsFetch" /\ FetchOver(c, "models", "bids")
    BY <1>4 DEF ModelsFetched
  <2> HIDE DEF next
  <2>3. models' \in Copy(ModelFiles) /\ detail' \in 0 .. Len(ModelFiles)
    BY <2>1, <2>2, StampType, FeedAssumption DEF Copy, FeedInv, FeedTypeOK
  <2>4. QED
    BY <1>2, <2>2, <2>3
<1>5. QED
  BY <1>1, <1>3, <1>4

LEMMA BidsStepGood ==
    ASSUME FeedInv, NEW c \in Callers,
           BidsLock(c) \/ \E i \in 0 .. Len(BidFiles) : BidsFetched(c, i)
    PROVE  FeedGood
<1>1. CASE BidsLock(c)
  <2>1. CASE fetching' = fetching
    <3>1. FGo(c, "ready") /\ UNCHANGED <<models, byName, detail, bids, fetching>>
      BY <1>1, <2>1, FeedAssumption DEF BidsLock, FeedInv, FeedTypeOK, FGo
    <3>2. QED
      BY <3>1, GoGood DEF FeedPCs
  <2>2. CASE fetching' # fetching
    <3>1. /\ fetching["bids"] = Nobody /\ Due(bids) /\ fetching' = [fetching EXCEPT !["bids"] = c]
          /\ fpc' = [fpc EXCEPT ![c] = "bidsFetch"] /\ UNCHANGED <<models, byName, detail, bids>>
      BY <1>1, <2>2 DEF BidsLock, FGo
    <3>2. FeedTypeOK'
      BY <3>1 DEF FeedInv, FeedTypeOK, FeedPCs
    <3>3. FetchPaced'
      BY <3>1, FeedAssumption DEF FeedInv, FeedTypeOK, FetchPaced, Due
    <3>4. NotOlder
      BY <3>1, StampType DEF NotOlder, FeedInv, FeedTypeOK, Copy
    <3>5. QED
      BY <3>2, <3>3, <3>4 DEF FeedGood, FeedInv
  <2>3. QED
    BY <2>1, <2>2
<1>2. ASSUME NEW i \in 0 .. Len(BidFiles), BidsFetched(c, i)
      PROVE  FeedGood
  <2> DEFINE next == IF i # 0 /\ BidRows(i) # {} THEN ReplaceSnap(BidFiles, bids.file, i) ELSE 0
  <2>1. next \in 0 .. Len(BidFiles)
    BY StampType, ReplaceSnapTable DEF FeedInv, FeedTypeOK, Copy
  <2>0. bids.file \in 0 .. Len(BidFiles)
    BY DEF FeedInv, FeedTypeOK, Copy
  <2>2. next # 0 /\ bids.file # 0 => BidFiles[bids.file].stamp <= BidFiles[next].stamp
    <3>1. CASE next = 0
      BY <3>1
    <3>2. CASE next # 0
      <4>1. i \in 1 .. Len(BidFiles) /\ next = ReplaceSnap(BidFiles, bids.file, i)
        BY <3>2, StampType
      <4>2. QED
        BY <2>0, <4>1, ReplaceSnapTable
    <3>3. QED
      BY <3>1, <3>2
  <2>3. /\ bids' = IF next = 0 THEN [bids EXCEPT !.pause = RetryPause]
                   ELSE [file |-> next, fresh |-> TTL, pause |-> 0]
        /\ UNCHANGED <<models, byName, detail>> /\ fpc[c] = "bidsFetch" /\ FetchOver(c, "bids", "ready")
    BY <1>2 DEF BidsFetched
  <2> HIDE DEF next
  <2>4. bids' \in Copy(BidFiles)
    <3>1. CASE next = 0
      BY <2>3, <3>1, FeedAssumption DEF Copy, FeedInv, FeedTypeOK
    <3>2. CASE next # 0
      BY <2>1, <2>3, <3>2, FeedAssumption, StampType DEF Copy
    <3>3. QED
      BY <3>1, <3>2
  <2>5. FeedTypeOK'
    BY <2>3, <2>4 DEF FetchOver, FGo, FeedInv, FeedTypeOK, FeedPCs
  <2>6. \A d \in Callers : fpc[d] = "bidsFetch" => d = c
    BY <2>3 DEF FeedInv, FetchPaced
  <2>7. FetchPaced'
    BY <2>3, <2>6 DEF FetchOver, FGo, FeedInv, FeedTypeOK, FetchPaced
  <2>8. NotOlder
    BY <2>1, <2>2, <2>3, StampType DEF NotOlder, FeedInv, FeedTypeOK, Copy
  <2>9. QED
    BY <2>5, <2>7, <2>8 DEF FeedGood, FeedInv
<1>3. QED
  BY <1>1, <1>2

LEMMA FeedStepGood ==
    ASSUME FeedInv, NEW c \in Callers, FeedStep(c) \/ EnsureFresh(c) \/ Answered(c)
    PROVE  FeedGood
<1>1. CASE EnsureFresh(c) \/ Answered(c) \/ ModelsCheck(c) \/ BidsCheck(c)
  <2>1. \E to \in FeedPCs \ {"modelsFetch", "bidsFetch"} :
           FGo(c, to) /\ UNCHANGED <<models, byName, detail, bids, fetching>>
    BY <1>1 DEF EnsureFresh, Answered, ModelsCheck, BidsCheck, FeedPCs
  <2>2. QED
    BY <2>1, GoGood
<1>2. QED
  BY <1>1, ModelsStepGood, BidsStepGood DEF FeedStep

LEMMA FeedTickGood ==
    ASSUME FeedInv, FeedTick
    PROVE  FeedGood
<1>1. /\ models' \in Copy(ModelFiles) /\ (Due(models) => Due(models'))
      /\ bids' \in Copy(BidFiles) /\ (Due(bids) => Due(bids')) /\ bids'.file = bids.file
  BY OlderCopy DEF FeedTick, FeedInv, FeedTypeOK
<1>2. UNCHANGED <<byName, detail, fetching, fpc>>
  BY DEF FeedTick
<1>3. FeedTypeOK' /\ FetchPaced'
  BY <1>1, <1>2 DEF FeedInv, FeedTypeOK, FetchPaced
<1>4. NotOlder
  BY <1>1, StampType DEF NotOlder, FeedInv, FeedTypeOK, Copy
<1>5. QED
  BY <1>3, <1>4 DEF FeedGood, FeedInv

LEMMA FeedStutterGood ==
    ASSUME FeedInv, UNCHANGED feedVars
    PROVE  FeedGood
  BY StampType DEF FeedGood, FeedInv, FeedTypeOK, FetchPaced, NotOlder, feedVars, Copy

LEMMA FeedInitGood ==
    ASSUME FeedInit \/ FeedLoaded
    PROVE  FeedInv
<1>1. FeedTypeOK
  BY StampType, FeedAssumption DEF FeedInit, FeedLoaded, FeedTypeOK, Copy, NoCopy, FeedPCs
<1>2. QED
  BY <1>1 DEF FeedInit, FeedLoaded, FeedInv, FetchPaced

-----------------------------------------------------------------------------
\* The type invariant.

\* What an operation's end does not touch.
RestTyped ==
    /\ cooling \in [Providers -> 0 .. Cooldown] /\ marked \subseteq Providers
    /\ pend \in [Bids -> Nat] /\ flight \in [Bids -> Nat] /\ found \in [Bids -> Nat]
    /\ held \in [lv : 0 .. 2, age : 0 .. InputsMaxAge, today : BOOLEAN, split : BOOLEAN]
    /\ level \in 1 .. 2 /\ limit \in {"off", "on", "invalid"}
    /\ notices \subseteq {"stake", "chain"}
    /\ shared \in BOOLEAN /\ rpc \in BOOLEAN

LEMMA Assembled ==
    ASSUME FeedTypeOK', EndTyped, RestTyped'
    PROVE  TypeOK'
  BY DEF EndTyped, RestTyped, TypeOK

LEMMA EndStutter ==
    ASSUME TypeOK, UNCHANGED <<op, advice, cutVars>>
    PROVE  EndTyped
  BY DEF TypeOK, EndTyped, cutVars

LEMMA OnlyOp ==
    ASSUME TypeOK, op' \in OpStates, UNCHANGED <<advice, cutVars>>
    PROVE  EndTyped
  BY DEF TypeOK, EndTyped, cutVars

LEMMA CoolType ==
    ASSUME TypeOK, NEW p \in Providers, Cool(p)
    PROVE  /\ cooling' \in [Providers -> 0 .. Cooldown] /\ marked' \subseteq Providers
           /\ advice' \in [wait : Nat, pool : SUBSET Providers]
  BY WalkAssumption DEF TypeOK, Cool, NoAdvice

LEMMA DropAttemptType ==
    ASSUME TypeOK, NEW b \in Bids, DropAttempt(b)
    PROVE  pend' \in [Bids -> Nat]
  BY DEF TypeOK, DropAttempt

LEMMA MaybeOnChainType ==
    ASSUME TypeOK, NEW b \in Bids, MaybeOnChain(b)
    PROVE  flight' \in [Bids -> Nat] /\ found' \in [Bids -> Nat]
  BY DEF TypeOK, MaybeOnChain

\* Where an operation works on a bid it has one; a sleep goes back to the
\* rated bids or to the bid; one that was refused because of a session on a
\* bid the pool waits for has one to find there.
Placed ==
    /\ op.pc \in {"bid", "post", "poll", "gap"} \/ (op.pc = "sleep" /\ op.back = "bid")
         => op.bid \in Bids
    /\ op.pc = "sleep" => op.back \in {"rated", "bid"}
    /\ op.pc = "named" /\ op.bid # NoBid => found[op.bid] > 0

Typed == TypeOK /\ Placed

LEMMA StartType ==
    ASSUME Typed, NEW kind \in {"acquire", "failover", "cut"},
           NEW extra \in Providers \cup {NoProvider}, NEW rej \in BOOLEAN, Start(kind, extra, rej)
    PROVE  EndTyped /\ RestTyped' /\ Placed'
<1>1. op' = [IdleOp EXCEPT !.pc = "rated", !.kind = kind, !.extra = extra, !.rej = rej,
                           !.cut = (cutNext # NoProvider), !.left = SlotHoldCap, !.asked = bids.file]
  BY DEF Start
<1>2. bids.file \in 0 .. Len(BidFiles)
  BY DEF Typed, TypeOK, FeedTypeOK, Copy
<1>3. op' \in OpStates /\ op'.pc = "rated"
  <2> DEFINE cut == (cutNext # NoProvider)
             o == [IdleOp EXCEPT !.pc = "rated", !.kind = kind, !.extra = extra]
  <2>1. op' = [o EXCEPT !.rej = rej, !.cut = cut, !.left = SlotHoldCap, !.asked = bids.file]
    BY <1>1
  <2>2. cut \in BOOLEAN /\ SlotHoldCap \in 0 .. SlotHoldCap
    BY WalkAssumption
  <2>3. o \in OpStates
    BY IdleOpType DEF OpStates, OpPCs
  <2>4. o.pc = "rated"
    BY IdleOpType DEF OpStates
  <2> HIDE DEF cut, o
  <2>5. op' \in OpStates
    BY <2>1, <2>2, <2>3, <1>2 DEF OpStates
  <2>6. QED
    BY <2>1, <2>3, <2>4, <2>5 DEF OpStates
<1>4. CASE extra = NoProvider
  BY <1>3, <1>4 DEF Start, Typed, TypeOK, EndTyped, RestTyped, Placed, walletVars, stakeVars, settings, cutVars
<1>5. CASE extra # NoProvider
  <2>1. extra \in Providers /\ Cool(extra)
    BY <1>5 DEF Start
  <2>2. QED
    BY <1>3, <2>1, CoolType DEF Start, Typed, TypeOK, EndTyped, RestTyped, Placed, walletVars, stakeVars,
       settings, cutVars
<1>6. QED
  BY <1>4, <1>5

\* An operation that ends is nowhere.
LEMMA EndPlaced ==
    ASSUME op' = IdleOp
    PROVE  Placed'
  BY DEF Placed, IdleOp

LEMMA RestStutter ==
    ASSUME Typed, UNCHANGED <<coolVars, walletVars, stakeVars, notices, settings, shared>>
    PROVE  RestTyped'
  BY DEF Typed, TypeOK, RestTyped, coolVars, walletVars, stakeVars, settings

LEMMA FailPlaced ==
    ASSUME Typed, NEW why, Fail(why)
    PROVE  EndTyped /\ Placed'
  BY FailType, EndPlaced DEF Typed, Fail, Stop

LEMMA RefusePlaced ==
    ASSUME Typed, NEW why, NEW pool \in SUBSET Providers, Refuse(why, pool)
    PROVE  EndTyped /\ Placed'
  BY RefuseType, EndPlaced DEF Typed, Refuse, Stop

LEMMA SucceedPlaced ==
    ASSUME Typed, Succeed
    PROVE  EndTyped /\ Placed'
  BY SucceedType, EndPlaced DEF Typed, Succeed, Stop

LEMMA BackoffPlaced ==
    ASSUME Typed, NEW o \in OpStates, NEW back \in {"rated", "bid"}, BackoffOrFail(o, back),
           back = "bid" => o.bid \in Bids
    PROVE  EndTyped /\ Placed'
<1>1. EndTyped
  BY BackoffType DEF Typed
<1>2. CASE CanBackoff
  <2>1. op' = [o EXCEPT !.pc = "sleep", !.back = back, !.t = 0]
    BY <1>2 DEF BackoffOrFail
  <2>2. op'.pc = "sleep" /\ op'.back = back /\ op'.bid = o.bid
    BY <2>1 DEF OpStates
  <2>3. QED
    BY <1>1, <2>2 DEF Placed
<1>3. CASE ~CanBackoff
  BY <1>3, FailPlaced DEF BackoffOrFail
<1>4. QED
  BY <1>2, <1>3

LEMMA WakeType ==
    ASSUME Typed, Wake
    PROVE  EndTyped /\ RestTyped' /\ Placed'
<1>1. /\ op.pc = "sleep" /\ op' = [op EXCEPT !.pc = op.back, !.t = 0, !.retries = @ + 1]
      /\ UNCHANGED <<advice, cutVars>>
  BY DEF Wake
<1>2. op \in OpStates /\ op.back \in {"rated", "bid"} /\ (op.back = "bid" => op.bid \in Bids)
  BY <1>1 DEF Typed, TypeOK, Placed
<1>3. op.back \in OpPCs /\ op.retries + 1 \in Nat
  BY <1>2 DEF OpStates, OpPCs
<1>4. op' \in OpStates
  BY <1>1, <1>2, <1>3 DEF OpStates
<1>5. op'.pc = op.back /\ op'.bid = op.bid
  BY <1>1, <1>2 DEF OpStates
<1>6. EndTyped /\ Placed'
  BY <1>1, <1>2, <1>4, <1>5, OnlyOp DEF Typed, Placed
<1>7. shared' \in BOOLEAN
  BY DEF Wake, Typed, TypeOK
<1>8. QED
  BY <1>6, <1>7 DEF Wake, Typed, TypeOK, RestTyped, coolVars, walletVars, stakeVars, settings

LEMMA ContextEndsType ==
    ASSUME Typed, ContextEnds
    PROVE  EndTyped /\ RestTyped' /\ Placed'
  BY FailPlaced, RestStutter DEF ContextEnds

LEMMA RatedReadType ==
    ASSUME Typed, NEW rows \in RatedAnswers \cup {<<>>}, RatedRead(rows)
    PROVE  EndTyped /\ RestTyped' /\ Placed'
<1>1. RestTyped'
  BY DEF RatedRead, KeepWallet, Typed, TypeOK, RestTyped, coolVars, walletVars, stakeVars, settings
<1>2. CASE op.pc # "rated"
  <2>1. UNCHANGED <<op, advice, cutVars>> /\ found' = found
    BY <1>2 DEF RatedRead, KeepWallet, walletVars
  <2>2. QED
    BY <1>1, <2>1, EndStutter DEF Typed, Placed
<1>3. CASE op.pc = "rated" /\ AllExcluded(rows)
  <2>1. Refuse(IF rows = <<>> THEN "rated_unreadable" ELSE "all_excluded", {})
    BY <1>3, Zenon DEF RatedRead
  <2>2. QED
    BY <1>1, <2>1, RefusePlaced
<1>4. CASE op.pc = "rated" /\ ~AllExcluded(rows)
  <2>1. op' = [op EXCEPT !.pc = "health", !.list = rows, !.t = 0] /\ UNCHANGED <<advice, cutVars>>
    BY <1>4 DEF RatedRead
  <2>2. op \in OpStates /\ rows \in Seq(Bids)
    <3>1. op \in OpStates
      BY DEF Typed, TypeOK
    <3>2. <<>> \in Seq(Bids)
      OBVIOUS
    <3>3. rows \in Seq(Bids)
      BY <3>2, WalkAssumption
    <3>4. QED
      BY <3>1, <3>3
  <2>3. op' \in OpStates
    BY <2>1, <2>2 DEF OpStates, OpPCs
  <2>4. op'.pc = "health"
    BY <2>1, <2>2 DEF OpStates
  <2>5. QED
    BY <1>1, <2>1, <2>3, <2>4, OnlyOp DEF Typed, Placed
<1>5. QED
  BY <1>2, <1>3, <1>4

LEMMA RatedFailsType ==
    ASSUME Typed, RatedFails
    PROVE  EndTyped /\ RestTyped' /\ Placed'
<1>1. shared' \in BOOLEAN
  BY DEF RatedFails, Typed, TypeOK
<1>2. RestTyped'
  BY <1>1 DEF RatedFails, KeepWallet, Typed, TypeOK, RestTyped, coolVars, walletVars, stakeVars, settings
<1>3. op \in OpStates /\ BackoffOrFail(op, "rated")
  BY DEF RatedFails, Typed, TypeOK
<1>4. QED
  BY <1>2, <1>3, BackoffPlaced

LEMMA FilterType ==
    ASSUME Typed, Filter
    PROVE  EndTyped /\ RestTyped' /\ Placed'
<1>1. RestTyped'
  BY DEF Filter, KeepWallet, Typed, TypeOK, RestTyped, walletVars, stakeVars, settings
<1>2. op \in OpStates
  BY DEF Typed, TypeOK
<1>3. ToSet(op.list) \subseteq Bids
  BY <1>2 DEF OpStates, ToSet
<1>4. Candidates \in SUBSET Bids /\ Admits \in SUBSET Providers
  BY <1>3, WalkAssumption DEF Candidates, Admits, Admitted, Healthy
<1>5. CASE \E why : Refuse(why, {}) \/ Refuse(why, Admits)
  BY <1>1, <1>4, <1>5, RefusePlaced
<1>6. CASE Filtered
  <2>1. CASE /\ op' = [op EXCEPT !.pc = "limit", !.cands = Candidates, !.pool = Admits]
             /\ UNCHANGED <<advice, cutVars>>
    <3>1. op' \in OpStates
      BY <1>2, <1>4, <2>1 DEF OpStates, OpPCs
    <3>2. op'.pc = "limit"
      BY <1>2, <2>1 DEF OpStates
    <3>3. QED
      BY <1>1, <2>1, <3>1, <3>2, OnlyOp DEF Typed, Placed
  <2>2. CASE /\ op' = [op EXCEPT !.pc = "between", !.cands = Candidates, !.left = 0]
             /\ UNCHANGED <<advice, cutVars>>
    <3>1. 0 \in 0 .. SlotHoldCap
      BY WalkAssumption
    <3>2. op' \in OpStates
      BY <1>2, <1>4, <2>2, <3>1 DEF OpStates, OpPCs
    <3>3. op'.pc = "between"
      BY <1>2, <2>2 DEF OpStates
    <3>4. QED
      BY <1>1, <2>2, <3>2, <3>3, OnlyOp DEF Typed, Placed
  <2>3. CASE Stop("kept", {}) /\ cutNext' = op.extra /\ owed' = op.extra
    <3>1. op.extra \in Providers \cup {NoProvider}
      BY <1>2 DEF OpStates
    <3>2. QED
      BY <1>1, <2>3, <3>1, StopType, EndPlaced DEF Typed, EndTyped, Stop
  <2>4. QED
    BY <1>6, <2>1, <2>2, <2>3 DEF Filtered
<1>7. QED
  BY <1>5, <1>6 DEF Filter

LEMMA ReholdType ==
    ASSUME Typed, Rehold
    PROVE  EndTyped /\ RestTyped' /\ Placed'
<1>1. /\ op' = [op EXCEPT !.pc = "limit", !.left = SlotHoldCap, !.spent = 0, !.retries = 0]
      /\ UNCHANGED <<advice, cutVars>>
  BY DEF Rehold
<1>2. op \in OpStates /\ SlotHoldCap \in 0 .. SlotHoldCap
  BY WalkAssumption DEF Typed, TypeOK
<1>3. op' \in OpStates
  BY <1>1, <1>2 DEF OpStates, OpPCs
<1>4. op'.pc = "limit"
  BY <1>1, <1>2 DEF OpStates
<1>5. QED
  BY <1>1, <1>3, <1>4, OnlyOp, RestStutter DEF Rehold, KeepWallet, Typed, Placed

LEMMA StakeCheckType ==
    ASSUME Typed, StakeCheck
    PROVE  EndTyped /\ RestTyped' /\ Placed'
<1>1. RestTyped'
  BY RestStutter DEF StakeCheck, KeepWallet
<1>2. op \in OpStates /\ held.lv \in 0 .. 2 /\ level \in 0 .. 2
  BY DEF Typed, TypeOK
<1>3. ASSUME NEW o \in OpStates, op' = o, o.pc \in {"walk", "stake"}, UNCHANGED <<advice, cutVars>>
      PROVE  EndTyped /\ Placed'
  BY <1>3, OnlyOp DEF Typed, Placed
<1>4. CASE Fail("stake_limit_invalid")
  BY <1>1, <1>4, FailPlaced
<1>5. CASE op' = [op EXCEPT !.pc = "walk"] /\ UNCHANGED <<advice, cutVars>>
  <2>1. op' \in OpStates
    BY <1>2, <1>5 DEF OpStates, OpPCs
  <2>2. op'.pc = "walk"
    BY <1>2, <1>5 DEF OpStates
  <2>3. QED
    BY <1>1, <1>3, <1>5, <2>1, <2>2
<1>6. CASE /\ op' = [op EXCEPT !.pc = "walk", !.lv = held.lv,
                               !.today = IF held.split THEN held.lv ELSE level]
           /\ UNCHANGED <<advice, cutVars>>
  <2> DEFINE today == IF held.split THEN held.lv ELSE level
  <2>1. today \in 0 .. 2 /\ op' = [op EXCEPT !.pc = "walk", !.lv = held.lv, !.today = today]
    BY <1>2, <1>6
  <2> HIDE DEF today
  <2>2. op' \in OpStates
    BY <1>2, <2>1 DEF OpStates, OpPCs
  <2>3. op'.pc = "walk"
    BY <1>2, <2>1 DEF OpStates
  <2>4. QED
    BY <1>1, <1>3, <1>6, <2>2, <2>3
<1>7. CASE op' = [op EXCEPT !.pc = "stake", !.t = 0, !.today = level] /\ UNCHANGED <<advice, cutVars>>
  <2>1. op' \in OpStates
    BY <1>2, <1>7 DEF OpStates, OpPCs
  <2>2. op'.pc = "stake"
    BY <1>2, <1>7 DEF OpStates
  <2>3. QED
    BY <1>1, <1>3, <1>7, <2>1, <2>2
<1>8. QED
  BY <1>4, <1>5, <1>6, <1>7 DEF StakeCheck

\* What a read of the stake inputs leaves.
LEMMA HeldType ==
    ASSUME Typed, NEW lv \in 0 .. 2, NEW b,
           held' = [lv |-> lv, age |-> 0, today |-> TRUE, split |-> b], b \in BOOLEAN
    PROVE  held' \in [lv : 0 .. 2, age : 0 .. InputsMaxAge, today : BOOLEAN, split : BOOLEAN]
  BY WalkAssumption

LEMMA StakeReadType ==
    ASSUME Typed, StakeRead
    PROVE  EndTyped /\ RestTyped' /\ Placed'
<1>1. ASSUME held' \in [lv : 0 .. 2, age : 0 .. InputsMaxAge, today : BOOLEAN, split : BOOLEAN]
      PROVE  RestTyped'
  BY <1>1 DEF StakeRead, Typed, TypeOK, RestTyped, coolVars, walletVars, settings
<1>2. op \in OpStates /\ op.today \in 0 .. 2 /\ level \in 0 .. 2
  <2>1. op \in OpStates /\ level \in 1 .. 2
    BY DEF Typed, TypeOK
  <2>2. QED
    BY <2>1 DEF OpStates
<1>3. CASE Fail("stake_inputs_unreadable") /\ UNCHANGED held
  BY <1>1, <1>3, FailPlaced DEF Typed, TypeOK
<1>4. ASSUME NEW lv \in {op.today, level},
             held' = [lv |-> lv, age |-> 0, today |-> TRUE, split |-> op.today # level],
             op' = [op EXCEPT !.pc = "walk", !.lv = lv, !.today = lv], UNCHANGED <<advice, cutVars>>
      PROVE  EndTyped /\ RestTyped' /\ Placed'
  <2>1. lv \in 0 .. 2 /\ (op.today # level) \in BOOLEAN
    BY <1>2
  <2>2. RestTyped'
    BY <1>1, <1>4, <2>1, HeldType
  <2>3. op' \in OpStates
    BY <1>2, <1>4, <2>1 DEF OpStates, OpPCs
  <2>4. op'.pc = "walk"
    BY <1>2, <1>4 DEF OpStates
  <2>5. QED
    BY <1>4, <2>2, <2>3, <2>4, OnlyOp DEF Typed, Placed
<1>5. QED
  BY <1>3, <1>4 DEF StakeRead

LEMMA StakeInputsType ==
    ASSUME Typed, EnsureStakeInputs \/ NewDay
    PROVE  EndTyped /\ RestTyped' /\ Placed'
<1>1. UNCHANGED <<op, advice, coolVars, cutVars, shared, walletVars, notices, settings>>
  BY DEF EnsureStakeInputs, NewDay
<1>2. EndTyped /\ Placed'
  BY <1>1, EndStutter DEF Typed, Placed, walletVars
<1>3. /\ level' \in 1 .. 2
      /\ held' \in [lv : 0 .. 2, age : 0 .. InputsMaxAge, today : BOOLEAN, split : BOOLEAN]
  <2>1. CASE EnsureStakeInputs
    <3>1. level \in 1 .. 2 /\ level' = level
      BY <2>1 DEF EnsureStakeInputs, Typed, TypeOK
    <3>2. PICK lv \in 1 .. level :
             held' = [lv |-> lv, age |-> 0, today |-> TRUE, split |-> lv # level]
      BY <2>1 DEF EnsureStakeInputs
    <3>3. lv \in 0 .. 2 /\ (lv # level) \in BOOLEAN
      BY <3>1
    <3>4. QED
      BY <3>1, <3>2, <3>3, HeldType
  <2>2. CASE NewDay
    <3>1. level' = 2 /\ held' = [held EXCEPT !.today = FALSE]
      BY <2>2 DEF NewDay
    <3>2. held \in [lv : 0 .. 2, age : 0 .. InputsMaxAge, today : BOOLEAN, split : BOOLEAN]
      BY DEF Typed, TypeOK
    <3>3. held' \in [lv : 0 .. 2, age : 0 .. InputsMaxAge, today : BOOLEAN, split : BOOLEAN]
      BY <3>1, <3>2
    <3>4. QED
      BY <3>1, <3>3
  <2>3. QED
    BY <2>1, <2>2
<1>4. QED
  BY <1>1, <1>2, <1>3 DEF Typed, TypeOK, RestTyped, coolVars, walletVars, settings

\* The bid tried next is a candidate of a provider not tried yet, and its
\* stake is within the cap.
LEMMA NextIsEligible ==
    ASSUME Typed, Eligible # {}, NEW b, b = op.list[Min(Eligible)]
    PROVE  b \in Bids /\ b \in op.cands /\ ~OverCap(b)
<1>1. op.list \in Seq(Bids)
  BY DEF Typed, TypeOK, OpStates
<1>2. Eligible \in SUBSET Nat /\ Eligible \subseteq DOMAIN op.list
  BY <1>1 DEF Eligible
<1>3. Min(Eligible) \in Eligible
  BY <1>2, MinIsLeast
<1>4. Min(Eligible) \in DOMAIN op.list /\ Tryable(b) /\ ~OverCap(b)
  BY <1>3, Zenon DEF Eligible
<1>5. QED
  BY <1>1, <1>4 DEF Tryable

LEMMA NextBidType ==
    ASSUME Typed, NextBid
    PROVE  EndTyped /\ RestTyped' /\ Placed'
<1> DEFINE more == Cardinality(op.tried) < MaxBidAttempts
           skipped == op.skipped \/ (more /\ Skips)
           b == op.list[Min(Eligible)]
<1>1. op \in OpStates
  BY DEF Typed, TypeOK
<1>2. notices' \subseteq {"stake", "chain"}
  BY DEF NextBid, Typed, TypeOK
<1>3. RestTyped'
  BY <1>2 DEF NextBid, Typed, TypeOK, RestTyped, coolVars, walletVars, stakeVars, settings
<1>4. CASE Eligible # {} /\ more
  <2>1. /\ op' = [op EXCEPT !.pc = "bid", !.bid = b, !.skipped = skipped, !.tried = @ \cup {ProvOf[b]}]
        /\ UNCHANGED <<advice, cutVars>>
    BY <1>4 DEF NextBid
  <2>2. b \in Bids
    BY <1>4, NextIsEligible
  <2>3. skipped \in BOOLEAN /\ op.tried \cup {ProvOf[b]} \in SUBSET Providers
    BY <1>1, <2>2, WalkAssumption DEF OpStates
  <2> HIDE DEF b, skipped
  <2>4. op' \in OpStates
    BY <1>1, <2>1, <2>2, <2>3 DEF OpStates, OpPCs
  <2>5. op'.pc = "bid" /\ op'.bid = b
    BY <1>1, <2>1 DEF OpStates
  <2>6. QED
    BY <1>3, <2>1, <2>2, <2>4, <2>5, OnlyOp DEF Typed, Placed
<1>5. CASE Fail("stake_limit_exceeded")
  BY <1>3, <1>5, FailPlaced
<1>6. CASE Refuse("walk_exhausted", op.pool)
  <2>1. op.pool \in SUBSET Providers
    BY <1>1 DEF OpStates
  <2>2. QED
    BY <1>3, <1>6, <2>1, RefusePlaced
<1>7. QED
  BY <1>4, <1>5, <1>6 DEF NextBid

\* The walk ends or goes to a candidate within the cap.
LEMMA NextBidPicks ==
    ASSUME Typed, NextBid, op' # IdleOp
    PROVE  /\ op'.pc = "bid" /\ op'.bid \in op.cands /\ ~OverCap(op'.bid)
           /\ SameRequest /\ SameChoice /\ SameSent
<1> DEFINE more == Cardinality(op.tried) < MaxBidAttempts
           skipped == op.skipped \/ (more /\ Skips)
           b == op.list[Min(Eligible)]
           tried == op.tried \cup {ProvOf[b]}
<1>1. op \in OpStates
  BY DEF Typed, TypeOK
<1>2. /\ Eligible # {}
      /\ op' = [op EXCEPT !.pc = "bid", !.bid = b, !.skipped = skipped, !.tried = tried]
  BY DEF NextBid, Fail, Refuse, Stop
<1>3. b \in op.cands /\ ~OverCap(b)
  BY <1>2, NextIsEligible
<1> HIDE DEF b, skipped, tried
<1>4. QED
  BY <1>1, <1>2, <1>3, BidRow

LEMMA PostType ==
    ASSUME Typed, Post
    PROVE  EndTyped /\ RestTyped' /\ Placed'
<1>1. op \in OpStates /\ op.bid \in Bids
  BY DEF Typed, TypeOK, Placed, Post
<1>2. pend' \in [Bids -> Nat]
  BY <1>1 DEF Post, Typed, TypeOK
<1>3. RestTyped'
  BY <1>2 DEF Post, Typed, TypeOK, RestTyped, coolVars, walletVars, stakeVars, settings
<1>4. CASE EnoughTime
  <2>1. op' = [op EXCEPT !.pc = "post", !.t = 0] /\ UNCHANGED <<advice, cutVars>>
    BY <1>4 DEF Post
  <2>2. op' \in OpStates
    BY <1>1, <2>1 DEF OpStates, OpPCs
  <2>3. op'.pc = "post" /\ op'.bid = op.bid
    BY <1>1, <2>1 DEF OpStates
  <2>4. QED
    BY <1>1, <1>3, <2>1, <2>2, <2>3, OnlyOp DEF Typed, Placed
<1>5. CASE ~EnoughTime
  BY <1>3, <1>5, FailPlaced DEF Post
<1>6. QED
  BY <1>4, <1>5

LEMMA PostOKType ==
    ASSUME Typed, PostOK
    PROVE  EndTyped /\ RestTyped' /\ Placed'
<1>1. op.bid \in Bids
  BY DEF Typed, Placed, PostOK
<1>2. pend' \in [Bids -> Nat]
  BY <1>1, DropAttemptType DEF PostOK, Typed
<1>3. RestTyped'
  BY <1>2 DEF PostOK, Succeed, Typed, TypeOK, RestTyped, coolVars, stakeVars, settings
<1>4. QED
  BY <1>3, SucceedPlaced DEF PostOK

LEMMA PostExistingType ==
    ASSUME Typed, PostExisting
    PROVE  EndTyped /\ RestTyped' /\ Placed'
<1>1. op \in OpStates /\ op.bid \in Bids /\ found \in [Bids -> Nat]
  BY DEF Typed, TypeOK, Placed, PostExisting
<1>2. pend' \in [Bids -> Nat]
  BY <1>1, DropAttemptType DEF PostExisting, Typed
<1>3. RestTyped'
  BY <1>2 DEF PostExisting, Typed, TypeOK, RestTyped, coolVars, stakeVars, settings
<1>4. PICK b \in {x \in Bids : found[x] > 0} \cup {NoBid} :
         op' = [op EXCEPT !.pc = "named", !.bid = b, !.t = 0]
  BY DEF PostExisting
<1>5. op' \in OpStates
  BY <1>1, <1>4 DEF OpStates, OpPCs
<1>6. op'.pc = "named" /\ op'.bid = b
  BY <1>1, <1>4 DEF OpStates
<1>7. Placed'
  BY <1>6 DEF Placed, PostExisting
<1>8. QED
  BY <1>3, <1>5, <1>7, OnlyOp DEF PostExisting, Typed

LEMMA AdoptExistingType ==
    ASSUME Typed, AdoptExisting
    PROVE  EndTyped /\ RestTyped' /\ Placed'
<1>1. CASE Fail("router_transient") /\ UNCHANGED <<pend, found, notices>>
  <2>1. RestTyped'
    BY <1>1 DEF AdoptExisting, Typed, TypeOK, RestTyped, coolVars, stakeVars, settings
  <2>2. QED
    BY <1>1, <2>1, FailPlaced
<1>2. CASE /\ op.bid # NoBid /\ found' = [found EXCEPT ![op.bid] = @ - 1] /\ DropAttempt(op.bid)
           /\ Stop("adopted", {}) /\ ClearCut /\ UNCHANGED notices
  <2>1. op \in OpStates /\ op.bid \in Bids /\ found[op.bid] > 0
    BY <1>2 DEF AdoptExisting, Typed, TypeOK, Placed, OpStates
  <2>2. pend' \in [Bids -> Nat]
    BY <1>2, <2>1, DropAttemptType DEF Typed
  <2>3. found' \in [Bids -> Nat]
    BY <1>2, <2>1 DEF Typed, TypeOK
  <2>4. RestTyped'
    BY <1>2, <2>2, <2>3 DEF AdoptExisting, Typed, TypeOK, RestTyped, coolVars, stakeVars, settings
  <2>5. EndTyped
    BY <1>2, StopType DEF Typed, TypeOK, EndTyped, ClearCut, cutVars
  <2>6. QED
    BY <1>2, <2>4, <2>5, EndPlaced DEF Stop
<1>3. QED
  BY <1>1, <1>2 DEF AdoptExisting

LEMMA PostErrorType ==
    ASSUME Typed, NEW e \in OpenErrors, PostError(e)
    PROVE  EndTyped /\ RestTyped' /\ Placed'
<1>1. op.bid \in Bids /\ op \in OpStates
  BY DEF Typed, TypeOK, Placed, PostError
<1>2. flight' \in [Bids -> Nat] /\ found' \in [Bids -> Nat]
  BY <1>1, MaybeOnChainType DEF PostError, Typed, TypeOK
<1>3. ASSUME pend' \in [Bids -> Nat], cooling' \in [Providers -> 0 .. Cooldown], marked' \subseteq Providers
      PROVE  RestTyped'
  BY <1>2, <1>3 DEF PostError, Typed, TypeOK, RestTyped, stakeVars, settings
<1>4. CASE Refused(e)
  <2>1. pend' \in [Bids -> Nat]
    BY <1>1, <1>4, DropAttemptType DEF Refused, Typed
  <2>2. RestTyped'
    BY <1>3, <1>4, <2>1 DEF Refused, coolVars, Typed, TypeOK
  <2>3. EndTyped /\ Placed'
    BY <1>1, <1>4, FailPlaced, BackoffPlaced DEF Refused
  <2>4. QED
    BY <2>2, <2>3
<1>5. CASE Faulted(e)
  <2>1. ProvOf[op.bid] \in Providers
    BY <1>1, WalkAssumption
  <2>2. pend' \in [Bids -> Nat]
    BY <1>1, <1>5, DropAttemptType DEF Faulted, Typed
  <2>3. /\ cooling' \in [Providers -> 0 .. Cooldown] /\ marked' \subseteq Providers
        /\ advice' \in [wait : Nat, pool : SUBSET Providers]
    BY <1>5, <2>1, CoolType DEF Faulted, Typed
  <2>4. op' = [op EXCEPT !.pc = "walk", !.bid = NoBid]
    BY <1>5 DEF Faulted
  <2>5. op' \in OpStates
    BY <1>1, <2>4 DEF OpStates, OpPCs
  <2>6. op'.pc = "walk"
    BY <1>1, <2>4 DEF OpStates
  <2>7. EndTyped
    BY <1>5, <2>3, <2>5 DEF Faulted, EndTyped, cutVars, Typed, TypeOK
  <2>8. QED
    BY <1>3, <2>2, <2>3, <2>6, <2>7 DEF Placed
<1>6. CASE InWindow(e)
  <2> DEFINE o == [op EXCEPT !.windows = @ + 1, !.sent = @ + 1]
  <2>1. op.windows + 1 \in Nat /\ op.sent + 1 \in Nat
    BY <1>1 DEF OpStates
  <2>2. o \in OpStates
    BY <1>1, <2>1 DEF OpStates
  <2>3. o.bid = op.bid
    BY <1>1 DEF OpStates
  <2>4. BackoffOrFail(o, "bid") /\ UNCHANGED <<pend, coolVars>>
    BY <1>6 DEF InWindow
  <2> HIDE DEF o
  <2>5. EndTyped /\ Placed'
    BY <1>1, <2>2, <2>3, <2>4, BackoffPlaced
  <2>6. RestTyped'
    BY <1>3, <2>4 DEF coolVars, Typed, TypeOK
  <2>7. QED
    BY <2>5, <2>6
<1>7. CASE Lost(e)
  <2>1. op' = [op EXCEPT !.pc = "poll", !.t = 0, !.polls = 1, !.sent = @ + 1, !.why = ChainWaitReason(e)]
    BY <1>7 DEF Lost
  <2>2. op.sent + 1 \in Nat /\ ChainWaitReason(e) \in {"none", "wallet_tx_pending", "chain_congested"}
    BY <1>1, ChainWaitReasonType DEF OpStates
  <2>3. op' \in OpStates
    BY <1>1, <2>1, <2>2 DEF OpStates, OpPCs
  <2>4. op'.pc = "poll" /\ op'.bid = op.bid
    BY <1>1, <2>1 DEF OpStates
  <2>5. EndTyped /\ Placed'
    BY <1>1, <1>7, <2>3, <2>4, OnlyOp DEF Lost, Typed, Placed
  <2>6. RestTyped'
    BY <1>3, <1>7 DEF Lost, coolVars, Typed, TypeOK
  <2>7. QED
    BY <2>5, <2>6
<1>8. QED
  BY <1>4, <1>5, <1>6, <1>7 DEF PostError

LEMMA PollType ==
    ASSUME Typed, PollFinds \/ PollMisses \/ PollAgain
    PROVE  EndTyped /\ RestTyped' /\ Placed'
<1>1. op \in OpStates /\ op.bid \in Bids /\ found \in [Bids -> Nat]
  BY DEF Typed, TypeOK, Placed, PollFinds, PollMisses, PollAgain
<1>2. CASE PollFinds
  <2>1. PICK k \in 1 .. found[op.bid] : found' = [found EXCEPT ![op.bid] = @ - k]
    BY <1>2 DEF PollFinds
  <2>2. found' \in [Bids -> Nat]
    BY <1>1, <2>1
  <2>3. pend' \in [Bids -> Nat]
    BY <1>1, <1>2, DropAttemptType DEF PollFinds, Typed
  <2>4. RestTyped'
    BY <1>2, <2>2, <2>3 DEF PollFinds, Succeed, Typed, TypeOK, RestTyped, coolVars, stakeVars, settings
  <2>5. QED
    BY <1>2, <2>4, SucceedPlaced DEF PollFinds
<1>3. CASE PollMisses
  <2>1. notices' \subseteq {"stake", "chain"}
    BY <1>3 DEF PollMisses, Typed, TypeOK
  <2>2. RestTyped'
    BY <1>3, <2>1 DEF PollMisses, Typed, TypeOK, RestTyped, coolVars, walletVars, stakeVars, settings
  <2>3. CASE op' = [op EXCEPT !.pc = "gap", !.t = 0] /\ UNCHANGED <<advice, cutVars>>
    <3>1. op' \in OpStates
      BY <1>1, <2>3 DEF OpStates, OpPCs
    <3>2. op'.pc = "gap" /\ op'.bid = op.bid
      BY <1>1, <2>3 DEF OpStates
    <3>3. QED
      BY <1>1, <2>2, <2>3, <3>1, <3>2, OnlyOp DEF Typed, Placed
  <2>4. CASE Fail(IF op.why = "none" THEN "router_transient" ELSE op.why)
    BY <2>2, <2>4, FailPlaced
  <2>5. QED
    BY <1>3, <2>3, <2>4 DEF PollMisses
<1>4. CASE PollAgain
  <2>1. op' = [op EXCEPT !.pc = "poll", !.t = 0, !.polls = @ + 1] /\ UNCHANGED <<advice, cutVars>>
    BY <1>4 DEF PollAgain
  <2>2. op.polls + 1 \in Nat
    BY <1>1 DEF OpStates
  <2>3. op' \in OpStates
    BY <1>1, <2>1, <2>2 DEF OpStates, OpPCs
  <2>4. op'.pc = "poll" /\ op'.bid = op.bid
    BY <1>1, <2>1 DEF OpStates
  <2>5. RestTyped'
    BY <1>4, RestStutter DEF PollAgain
  <2>6. QED
    BY <1>1, <2>1, <2>3, <2>4, <2>5, OnlyOp DEF Typed, Placed
<1>5. QED
  BY <1>2, <1>3, <1>4

LEMMA BesideType ==
    ASSUME Typed,
           (\E p \in Providers : OtherCools(p)) \/ (\E b \in Bids : Mined(b))
    PROVE  EndTyped /\ RestTyped' /\ Placed'
<1>1. ASSUME NEW p \in Providers, OtherCools(p)
      PROVE  EndTyped /\ RestTyped' /\ Placed'
  <2>1. /\ cooling' \in [Providers -> 0 .. Cooldown] /\ marked' \subseteq Providers
        /\ advice' \in [wait : Nat, pool : SUBSET Providers]
    BY <1>1, CoolType DEF OtherCools, Typed
  <2>2. RestTyped'
    BY <1>1, <2>1 DEF OtherCools, Typed, TypeOK, RestTyped, walletVars, stakeVars, settings
  <2>3. QED
    BY <1>1, <2>1, <2>2 DEF OtherCools, EndTyped, Typed, TypeOK, Placed, cutVars, walletVars
<1>2. ASSUME NEW b \in Bids, Mined(b)
      PROVE  EndTyped /\ RestTyped' /\ Placed'
  <2>1. /\ flight \in [Bids -> Nat] /\ found \in [Bids -> Nat] /\ flight[b] > 0
        /\ flight' = [flight EXCEPT ![b] = @ - 1]
        /\ found' = [found EXCEPT ![b] = @ + 1] \/ UNCHANGED found
        /\ UNCHANGED <<op, advice, cutVars>>
    BY <1>2 DEF Mined, Typed, TypeOK
  <2>2. /\ flight' \in [Bids -> Nat] /\ found' \in [Bids -> Nat]
        /\ \A x \in Bids : found[x] > 0 => found'[x] > 0
    BY <2>1
  <2>3. RestTyped'
    BY <1>2, <2>2 DEF Mined, Typed, TypeOK, RestTyped, coolVars, stakeVars, settings
  <2>4. op \in OpStates /\ op.bid \in Bids \cup {NoBid}
    BY DEF Typed, TypeOK, OpStates
  <2>5. Placed'
    BY <2>1, <2>2, <2>4 DEF Typed, Placed
  <2>6. QED
    BY <2>1, <2>3, <2>5, EndStutter DEF Typed
<1>3. QED
  BY <1>1, <1>2

SamePlace == op'.pc = op.pc /\ op'.back = op.back /\ op'.bid = op.bid /\ op'.polls = op.polls

\* A tick of the operation: less is left of the hold, and it stays where it is.
LEMMA TickOp ==
    ASSUME Typed, Tick
    PROVE  /\ op' \in OpStates
           /\ SameRequest /\ SameChoice /\ SameSent /\ SamePlace
           /\ op'.left \in {op.left, op.left - 1}
           /\ op.pc = "poll" => op'.t # 0
<1>1. op \in OpStates
  BY DEF Typed, TypeOK
<1>2. CASE op.pc \in {"idle", "between"}
  <2>1. op' = op
    BY <1>2 DEF Tick
  <2>2. QED
    BY <1>1, <1>2, <2>1 DEF SameRequest, SameChoice, SamePlace, SameSent
<1>3. CASE op.pc \notin {"idle", "between"}
  <2> DEFINE left == Down(op.left)
             spent == IF op.spent > TransientBudget THEN op.spent ELSE op.spent + 1
             t == IF op.pc = "health" THEN 0 ELSE op.t + 1
  <2>1. op' = [op EXCEPT !.left = left, !.spent = spent, !.t = t]
    BY <1>3 DEF Tick
  <2>2. op.left \in 0 .. SlotHoldCap /\ op.spent \in Nat /\ op.t \in Nat
    BY <1>1 DEF OpStates
  <2>3. left \in 0 .. SlotHoldCap /\ left \in {op.left, op.left - 1}
    BY <2>2, WalkAssumption DEF Down
  <2>4. spent \in Nat
    BY <2>2
  <2>5. t \in Nat /\ (op.pc = "poll" => t # 0)
    BY <2>2
  <2> HIDE DEF left, spent, t
  <2>6. op' \in OpStates
    BY <1>1, <2>1, <2>3, <2>4, <2>5 DEF OpStates
  <2>7. op'.left = left /\ op'.t = t
    BY <1>1, <2>1 DEF OpStates
  <2>8. SameRequest /\ SameChoice /\ SamePlace /\ SameSent
    BY <1>1, <2>1 DEF OpStates, SameRequest, SameChoice, SamePlace, SameSent
  <2>9. QED
    BY <2>3, <2>5, <2>6, <2>7, <2>8
<1>4. QED
  BY <1>2, <1>3

LEMMA TickType ==
    ASSUME Typed, Tick
    PROVE  EndTyped /\ RestTyped' /\ Placed'
<1>1. op \in OpStates /\ op' \in OpStates
  BY TickOp DEF Typed, TypeOK
<1>2. op'.pc = op.pc /\ op'.bid = op.bid /\ op'.back = op.back
  BY TickOp DEF SamePlace
<1>3. advice' \in [wait : Nat, pool : SUBSET Providers]
  BY DEF Tick, Typed, TypeOK, NoAdvice
<1>4. EndTyped
  BY <1>1, <1>3 DEF Tick, EndTyped, Typed, TypeOK, cutVars
<1>5. Placed'
  BY <1>2 DEF Tick, Typed, Placed, walletVars
<1>6. cooling' \in [Providers -> 0 .. Cooldown]
  BY WalkAssumption DEF Tick, Down, Typed, TypeOK
<1>7. held' \in [lv : 0 .. 2, age : 0 .. InputsMaxAge, today : BOOLEAN, split : BOOLEAN]
  <2> DEFINE age == IF held.lv = 0 \/ held.age = InputsMaxAge THEN held.age ELSE held.age + 1
  <2>1. held \in [lv : 0 .. 2, age : 0 .. InputsMaxAge, today : BOOLEAN, split : BOOLEAN]
    BY DEF Typed, TypeOK
  <2>2. held' = [held EXCEPT !.age = age]
    BY DEF Tick
  <2>3. age \in 0 .. InputsMaxAge
    BY <2>1, WalkAssumption
  <2> HIDE DEF age
  <2>4. QED
    BY <2>1, <2>2, <2>3
<1>8. RestTyped'
  BY <1>6, <1>7 DEF Tick, Typed, TypeOK, RestTyped, walletVars, settings
<1>9. QED
  BY <1>4, <1>5, <1>8

\* A step of the callers, the operation apart.
LEMMA WalkStutterType ==
    ASSUME Typed, UNCHANGED walkVars
    PROVE  EndTyped /\ RestTyped' /\ Placed'
  BY DEF Typed, TypeOK, EndTyped, RestTyped, Placed, walkVars

-----------------------------------------------------------------------------
\* What each step does to the feeds.

LEMMA FeedNext ==
    ASSUME FeedInv, [Next]_vars
    PROVE  FeedGood
<1>1. CASE UNCHANGED feedVars
  BY <1>1, FeedStutterGood
<1>2. ASSUME NEW c \in Callers, FeedStep(c) \/ EnsureFresh(c) \/ Answered(c)
      PROVE  FeedGood
  BY <1>2, FeedStepGood
<1>3. CASE StartAcquire
  BY <1>1, <1>3 DEF StartAcquire, Start
<1>4. CASE StartFailover
  BY <1>1, <1>4 DEF StartFailover, Start
<1>5. ASSUME NEW rows \in RatedAnswers \cup {<<>>}, RatedRead(rows)
      PROVE  FeedGood
  <2>1. CASE fpc' = fpc
    BY <1>1, <1>5, <2>1 DEF RatedRead, feedVars
  <2>2. CASE FGo(Opener, "models")
    BY <1>5, <2>2, GoGood, WalkAssumption DEF RatedRead, FeedPCs
  <2>3. QED
    BY <1>5, <2>1, <2>2 DEF RatedRead
<1>6. CASE Filter
  BY <1>6, GoGood, WalkAssumption DEF Filter, FeedPCs
<1>7. CASE RatedFails \/ Rehold \/ StakeCheck \/ StakeRead \/ NextBid \/ Post
  BY <1>1, <1>7 DEF RatedFails, Rehold, StakeCheck, StakeRead, NextBid, Post
<1>8. CASE PostOK \/ PostExisting \/ AdoptExisting \/ \E e \in OpenErrors : PostError(e)
  BY <1>1, <1>8 DEF PostOK, PostExisting, AdoptExisting, PostError
<1>9. CASE Wake \/ PollFinds \/ PollMisses \/ PollAgain \/ ContextEnds
  BY <1>1, <1>9 DEF Wake, PollFinds, PollMisses, PollAgain, ContextEnds
<1>10. CASE FeedStep(Opener)
  BY <1>2, <1>10, WalkAssumption
<1>11. ASSUME NEW c \in Callers \ {Opener}, Reader(c)
       PROVE  FeedGood
  BY <1>2, <1>11 DEF Reader
<1>12. CASE (\E p \in Providers : OtherCools(p)) \/ (\E b \in Bids : Mined(b)) \/ EnsureStakeInputs \/ NewDay
  BY <1>1, <1>12 DEF OtherCools, Mined, EnsureStakeInputs, NewDay
<1>13. CASE Tick
  BY <1>1, <1>13, FeedTickGood DEF Tick
<1>14. CASE UNCHANGED vars
  BY <1>1, <1>14 DEF vars
<1>15. QED
  BY <1>3, <1>4, <1>5, <1>6, <1>7, <1>8, <1>9, <1>10, <1>11, <1>12, <1>13, <1>14 DEF Next, OpenStep

LEMMA TypedInit ==
    ASSUME Init
    PROVE  Typed /\ FeedInv
<1>1. FeedInv
  BY FeedInitGood DEF Init
<1>2. op \in OpStates /\ Placed
  BY IdleOpType DEF Init, Placed, IdleOp
<1>3. held \in [lv : 0 .. 2, age : 0 .. InputsMaxAge, today : BOOLEAN, split : BOOLEAN]
  BY WalkAssumption DEF Init, NoPair
<1>4. limit \in {"off", "on", "invalid"} /\ rpc \in BOOLEAN
  BY DEF Init
<1>5. /\ advice \in [wait : Nat, pool : SUBSET Providers]
      /\ cooling \in [Providers -> 0 .. Cooldown] /\ marked \subseteq Providers
      /\ {cutNext, owed} \subseteq Providers \cup {NoProvider}
      /\ pend \in [Bids -> Nat] /\ flight \in [Bids -> Nat] /\ found \in [Bids -> Nat]
  BY WalkAssumption DEF Init, NoAdvice
<1>6. level \in 1 .. 2 /\ notices \subseteq {"stake", "chain"}
  BY DEF Init
<1>7. shared \in BOOLEAN
  BY DEF Init
<1>8. QED
  BY <1>1, <1>2, <1>3, <1>4, <1>5, <1>6, <1>7 DEF Typed, TypeOK, FeedInv

LEMMA TypedNext ==
    ASSUME Typed, FeedInv, [Next]_vars
    PROVE  Typed'
<1>1. SUFFICES EndTyped /\ RestTyped' /\ Placed'
  BY FeedNext, Assembled DEF FeedGood, FeedInv, Typed
<1>2. CASE StartAcquire
  <2>1. PICK rej \in {FALSE, Explores("loss")} : Start("acquire", NoProvider, rej)
    BY <1>2 DEF StartAcquire
  <2>2. rej \in BOOLEAN
    BY DEF Explores
  <2>3. QED
    BY <2>1, <2>2, StartType
<1>3. CASE StartFailover
  BY <1>3, StartType DEF StartFailover
<1>4. CASE \E rows \in RatedAnswers \cup {<<>>} : RatedRead(rows)
  BY <1>4, RatedReadType
<1>5. CASE RatedFails \/ Filter \/ Rehold \/ StakeCheck \/ StakeRead
  BY <1>5, RatedFailsType, FilterType, ReholdType, StakeCheckType, StakeReadType
<1>6. CASE NextBid \/ Post \/ PostOK \/ PostExisting \/ AdoptExisting
  BY <1>6, NextBidType, PostType, PostOKType, PostExistingType, AdoptExistingType
<1>7. CASE \E e \in OpenErrors : PostError(e)
  BY <1>7, PostErrorType
<1>8. CASE Wake \/ PollFinds \/ PollMisses \/ PollAgain \/ ContextEnds
  BY <1>8, WakeType, PollType, ContextEndsType
<1>9. CASE UNCHANGED walkVars
  BY <1>9, WalkStutterType
<1>10. CASE (\E p \in Providers : OtherCools(p)) \/ (\E b \in Bids : Mined(b))
  BY <1>10, BesideType
<1>11. CASE EnsureStakeInputs \/ NewDay \/ Tick
  BY <1>11, StakeInputsType, TickType
<1>12. QED
  BY <1>2, <1>3, <1>4, <1>5, <1>6, <1>7, <1>8, <1>9, <1>10, <1>11 DEF Next, OpenStep, Reader, vars

-----------------------------------------------------------------------------
\* Opens are contained. Beside what OpensContained says: the attempt of a post
\* under way awaits no transaction yet; opens of unknown outcome are counted by
\* the window retries until the walk ends in a reconcile; and a post keeps the
\* time of a reconcile.
ContainInv ==
    /\ \A b \in Bids :
         /\ flight[b] + found[b] <= pend[b]
         /\ op.pc = "post" /\ op.bid = b => flight[b] + found[b] < pend[b]
    /\ op.windows <= MaxWindowRetries
    /\ op.pc \notin {"poll", "gap"} => op.sent = op.windows
    /\ op.pc \in {"poll", "gap"} => op.sent <= 1 + MaxWindowRetries /\ op.polls >= 1
    /\ op.pc = "post" => op.left >= ReconcileReserve
    /\ ReconcileHasTime

\* The operation is not at a post or a reconcile, and its counts agree.
Quiet ==
    /\ op'.pc \notin {"post", "poll", "gap"}
    /\ op'.sent = op'.windows /\ op'.windows <= MaxWindowRetries

LEMMA IdleQuiet ==
    ASSUME op' = IdleOp
    PROVE  Quiet
  BY WalkAssumption DEF Quiet, IdleOp

LEMMA SameSentQuiet ==
    ASSUME ContainInv, SameSent, op.pc \notin {"poll", "gap"}, op'.pc \notin {"post", "poll", "gap"}
    PROVE  Quiet
  BY DEF ContainInv, SameSent, Quiet

LEMMA BackoffQuiet ==
    ASSUME Typed, NEW o \in OpStates, NEW back, BackoffOrFail(o, back),
           o.sent = o.windows, o.windows <= MaxWindowRetries
    PROVE  Quiet
<1>1. CASE CanBackoff
  <2>1. op' = [o EXCEPT !.pc = "sleep", !.back = back, !.t = 0]
    BY <1>1 DEF BackoffOrFail
  <2>2. op'.pc = "sleep" /\ op'.sent = o.sent /\ op'.windows = o.windows
    BY <2>1 DEF OpStates
  <2>3. QED
    BY <2>2 DEF Quiet
<1>2. CASE ~CanBackoff
  BY <1>2, IdleQuiet DEF BackoffOrFail, Fail, Stop
<1>3. QED
  BY <1>1, <1>2

\* A quiet step that leaves every transaction an attempt.
LEMMA QuietContained ==
    ASSUME Quiet, \A b \in Bids : flight'[b] + found'[b] <= pend'[b]
    PROVE  ContainInv'
  BY DEF Quiet, ContainInv, ReconcileHasTime

\* One attempt less, when one awaits nothing.
LEMMA DropContained ==
    ASSUME Typed, ContainInv, NEW b \in Bids, op.pc = "post" /\ op.bid = b, DropAttempt(b),
           UNCHANGED <<flight, found>>
    PROVE  \A x \in Bids : flight'[x] + found'[x] <= pend'[x]
<1>1. /\ flight \in [Bids -> Nat] /\ found \in [Bids -> Nat] /\ pend \in [Bids -> Nat]
      /\ \A x \in Bids : flight[x] + found[x] <= pend[x]
      /\ flight[b] + found[b] < pend[b]
  BY DEF Typed, TypeOK, ContainInv
<1>2. pend' = [pend EXCEPT ![b] = IF @ = 0 THEN 0 ELSE @ - 1]
  BY DEF DropAttempt
<1>3. pend'[b] = pend[b] - 1 /\ \A x \in Bids \ {b} : pend'[x] = pend[x]
  BY <1>1, <1>2
<1>4. QED
  BY <1>1, <1>3

\* A found session less, and its attempt.
LEMMA FoundContained ==
    ASSUME Typed, ContainInv, NEW b \in Bids, NEW k \in 1 .. found[b],
           found' = [found EXCEPT ![b] = @ - k], DropAttempt(b), flight' = flight
    PROVE  \A x \in Bids : flight'[x] + found'[x] <= pend'[x]
<1>1. /\ flight \in [Bids -> Nat] /\ found \in [Bids -> Nat] /\ pend \in [Bids -> Nat]
      /\ \A x \in Bids : flight[x] + found[x] <= pend[x]
  BY DEF Typed, TypeOK, ContainInv
<1>2. pend' = [pend EXCEPT ![b] = IF @ = 0 THEN 0 ELSE @ - 1]
  BY DEF DropAttempt
<1>3. pend'[b] \in Nat /\ pend'[b] >= pend[b] - 1 /\ \A x \in Bids \ {b} : pend'[x] = pend[x]
  BY <1>1, <1>2
<1>4. found'[b] \in Nat /\ found'[b] <= found[b] - 1 /\ \A x \in Bids \ {b} : found'[x] = found[x]
  BY <1>1
<1>5. ASSUME NEW x \in Bids PROVE flight'[x] + found'[x] <= pend'[x]
  <2>1. CASE x = b
    BY <1>1, <1>3, <1>4, <2>1
  <2>2. CASE x # b
    BY <1>1, <1>3, <1>4, <2>2
  <2>3. QED
    BY <2>1, <2>2
<1>6. QED
  BY <1>5

\* The steps that touch no attempt and no transaction.
LEMMA CalmContained ==
    ASSUME Typed, ContainInv, UNCHANGED walletVars, Quiet \/ op' = op
    PROVE  ContainInv'
<1>1. CASE Quiet
  BY <1>1, QuietContained DEF ContainInv, walletVars
<1>2. CASE op' = op
  BY <1>2 DEF ContainInv, ReconcileHasTime, walletVars
<1>3. QED
  BY <1>1, <1>2

LEMMA StartQuiet ==
    ASSUME Typed, NEW kind, NEW extra, NEW rej, Start(kind, extra, rej)
    PROVE  Quiet
<1> DEFINE o == [IdleOp EXCEPT !.pc = "rated", !.kind = kind, !.extra = extra]
           cut == (cutNext # NoProvider)
<1>1. op' = [o EXCEPT !.rej = rej, !.cut = cut, !.left = SlotHoldCap, !.asked = bids.file]
  BY DEF Start
<1>2. o.pc = "rated" /\ o.sent = 0 /\ o.windows = 0 /\ DOMAIN o = DOMAIN IdleOp
  BY DEF IdleOp
<1> HIDE DEF o, cut
<1>3. op'.pc = o.pc /\ op'.sent = o.sent /\ op'.windows = o.windows
  BY <1>1
<1>4. QED
  BY <1>2, <1>3, WalkAssumption DEF Quiet

LEMMA CalmQuiet ==
    ASSUME Typed, ContainInv,
           \/ ContextEnds \/ Wake \/ RatedFails \/ Filter \/ Rehold \/ StakeCheck \/ StakeRead \/ NextBid
           \/ \E rows \in RatedAnswers \cup {<<>>} : RatedRead(rows)
    PROVE  (Quiet \/ op' = op) /\ UNCHANGED walletVars
<1>1. op \in OpStates
  BY DEF Typed, TypeOK
<1>2. UNCHANGED walletVars
  BY DEF ContextEnds, Wake, RatedFails, Filter, Rehold, StakeCheck, StakeRead, NextBid, RatedRead, KeepWallet
<1>3. CASE op' = IdleOp
  BY <1>2, <1>3, IdleQuiet
<1>4. CASE ContextEnds
  BY <1>3, <1>4 DEF ContextEnds, Fail, Stop
<1>5. CASE Wake
  <2>1. /\ op.pc = "sleep" /\ op' = [op EXCEPT !.pc = op.back, !.t = 0, !.retries = op.retries + 1]
        /\ op.back \in {"rated", "bid"}
    BY <1>5 DEF Wake, Typed, Placed
  <2>2. SameSent /\ op'.pc = op.back
    BY <1>1, <2>1, WakeRow
  <2>3. QED
    BY <1>2, <2>1, <2>2, SameSentQuiet
<1>6. CASE RatedFails
  BY <1>1, <1>2, <1>6, BackoffQuiet DEF RatedFails, ContainInv
<1>7. CASE Filter
  <2>1. CASE Filtered
    <3>1. op.pc = "health"
      BY <1>7 DEF Filter
    <3>2. CASE op' = [op EXCEPT !.pc = "limit", !.cands = Candidates, !.pool = Admits]
      BY <1>1, <1>2, <3>1, <3>2, LimitRow, SameSentQuiet
    <3>3. CASE op' = [op EXCEPT !.pc = "between", !.cands = Candidates, !.left = 0]
      BY <1>1, <1>2, <3>1, <3>3, BetweenRow, SameSentQuiet
    <3>4. QED
      BY <1>2, <1>3, <2>1, <3>2, <3>3 DEF Filtered, Stop
  <2>2. QED
    BY <1>3, <1>7, <2>1 DEF Filter, Refuse, Stop
<1>8. CASE Rehold
  BY <1>1, <1>2, <1>8, ReholdRow, SameSentQuiet DEF Rehold
<1>9. CASE StakeCheck
  BY <1>1, <1>2, <1>3, <1>9, PcRow, StakeRow, InputsRow, SameSentQuiet DEF StakeCheck, Fail, Stop
<1>10. CASE StakeRead
  BY <1>1, <1>2, <1>3, <1>10, StakeRow, SameSentQuiet DEF StakeRead, Fail, Stop
<1>11. CASE NextBid
  <2>1. op.pc = "walk"
    BY <1>11 DEF NextBid
  <2>2. QED
    BY <1>2, <1>3, <1>11, <2>1, NextBidPicks, SameSentQuiet
<1>12. ASSUME NEW rows \in RatedAnswers \cup {<<>>}, RatedRead(rows)
       PROVE  Quiet \/ op' = op
  BY <1>1, <1>2, <1>3, <1>12, HealthRow, SameSentQuiet DEF RatedRead, Refuse, Stop
<1>13. QED
  BY <1>2, <1>4, <1>5, <1>6, <1>7, <1>8, <1>9, <1>10, <1>11, <1>12

LEMMA LeftType ==
    ASSUME Typed
    PROVE  op.left \in Nat
<1>1. op \in OpStates
  BY DEF Typed, TypeOK
<1>2. op.left \in 0 .. SlotHoldCap
  BY <1>1 DEF OpStates
<1>3. QED
  BY <1>2

LEMMA PostContained ==
    ASSUME Typed, ContainInv, Post
    PROVE  ContainInv'
<1>1. op \in OpStates /\ op.bid \in Bids /\ op.pc = "bid"
  BY DEF Typed, TypeOK, Placed, Post
<1>2. CASE EnoughTime
  <2>1. op' = [op EXCEPT !.pc = "post", !.t = 0] /\ pend' = [pend EXCEPT ![op.bid] = @ + 1]
    BY <1>2 DEF Post
  <2>2. op'.pc = "post" /\ op'.left = op.left /\ op'.bid = op.bid /\ SameSent
    BY <1>1, <2>1, PcTRow
  <2>3. op.left \in Nat /\ op.left >= ReconcileReserve
    BY <1>2, LeftType, WalkAssumption DEF EnoughTime
  <2>4. /\ flight \in [Bids -> Nat] /\ found \in [Bids -> Nat] /\ pend \in [Bids -> Nat]
        /\ UNCHANGED <<flight, found>>
    BY DEF Typed, TypeOK, Post
  <2>5. \A b \in Bids : /\ flight'[b] + found'[b] <= pend'[b]
                        /\ op.bid = b => flight'[b] + found'[b] < pend'[b]
    BY <1>1, <2>1, <2>4 DEF ContainInv
  <2>6. QED
    BY <1>1, <2>2, <2>3, <2>5 DEF ContainInv, SameSent, ReconcileHasTime
<1>3. CASE ~EnoughTime
  BY <1>3, IdleQuiet, CalmContained DEF Post, Fail, Stop, walletVars
<1>4. QED
  BY <1>2, <1>3

LEMMA AnsweredContained ==
    ASSUME Typed, ContainInv, PostOK \/ PostExisting
    PROVE  ContainInv'
<1>1. op \in OpStates /\ op.bid \in Bids /\ op.pc = "post"
  BY DEF Typed, TypeOK, Placed, PostOK, PostExisting
<1>2. \A x \in Bids : flight'[x] + found'[x] <= pend'[x]
  BY <1>1, DropContained DEF PostOK, PostExisting
<1>3. CASE PostOK
  BY <1>2, <1>3, IdleQuiet, QuietContained DEF PostOK, Succeed, Stop
<1>4. CASE PostExisting
  <2>1. PICK b : op' = [op EXCEPT !.pc = "named", !.bid = b, !.t = 0]
    BY <1>4 DEF PostExisting
  <2>2. op'.pc = "named" /\ SameSent
    BY <1>1, <2>1, NamedRow
  <2>3. QED
    BY <1>1, <1>2, <2>2, SameSentQuiet, QuietContained
<1>5. QED
  BY <1>3, <1>4

LEMMA AdoptContained ==
    ASSUME Typed, ContainInv, AdoptExisting
    PROVE  ContainInv'
<1>1. op' = IdleOp
  BY DEF AdoptExisting, Fail, Stop
<1>2. CASE UNCHANGED <<pend, found>>
  BY <1>1, <1>2, IdleQuiet, CalmContained DEF AdoptExisting, walletVars
<1>3. CASE op.bid # NoBid /\ found' = [found EXCEPT ![op.bid] = @ - 1] /\ DropAttempt(op.bid)
  <2>1. op.bid \in Bids /\ found[op.bid] > 0
    BY <1>3 DEF Typed, TypeOK, Placed, OpStates, AdoptExisting
  <2>2. 1 \in 1 .. found[op.bid]
    BY <2>1 DEF Typed, TypeOK
  <2>3. \A x \in Bids : flight'[x] + found'[x] <= pend'[x]
    BY <1>3, <2>1, <2>2, FoundContained DEF AdoptExisting
  <2>4. QED
    BY <1>1, <2>3, IdleQuiet, QuietContained
<1>4. QED
  BY <1>2, <1>3 DEF AdoptExisting

\* What a post's error leaves on chain has the attempt of the post.
LEMMA MaybeContained ==
    ASSUME Typed, ContainInv, op.pc = "post", op.bid \in Bids, pend' = pend,
           MaybeOnChain(op.bid) \/ UNCHANGED <<flight, found>>
    PROVE  \A x \in Bids : flight'[x] + found'[x] <= pend'[x]
<1>1. /\ flight \in [Bids -> Nat] /\ found \in [Bids -> Nat] /\ pend \in [Bids -> Nat]
      /\ \A x \in Bids : flight[x] + found[x] <= pend[x]
      /\ flight[op.bid] + found[op.bid] < pend[op.bid]
  BY DEF Typed, TypeOK, ContainInv
<1>2. CASE flight' = [flight EXCEPT ![op.bid] = @ + 1] /\ UNCHANGED found
  BY <1>1, <1>2
<1>3. CASE found' = [found EXCEPT ![op.bid] = @ + 1] /\ UNCHANGED flight
  BY <1>1, <1>3
<1>4. CASE UNCHANGED <<flight, found>>
  BY <1>1, <1>4
<1>5. QED
  BY <1>2, <1>3, <1>4 DEF MaybeOnChain

LEMMA PostErrorContained ==
    ASSUME Typed, ContainInv, NEW e \in OpenErrors, PostError(e)
    PROVE  ContainInv'
<1>1. op \in OpStates /\ op.bid \in Bids /\ op.pc = "post" /\ op.windows \in Nat /\ op.sent \in Nat
  BY DEF Typed, TypeOK, Placed, PostError, OpStates
<1>2. op.sent = op.windows /\ op.windows <= MaxWindowRetries /\ op.left >= ReconcileReserve
  BY <1>1 DEF ContainInv
<1>3. MaxWindowRetries \in Nat
  BY WalkAssumption
<1>4. ASSUME Class(e) \notin {"maybeSent", "transientWindow"}, DropAttempt(op.bid)
      PROVE  \A x \in Bids : flight'[x] + found'[x] <= pend'[x]
  BY <1>1, <1>4, ClassTable, DropContained DEF PostError
<1>5. CASE Refused(e)
  <2>1. \A x \in Bids : flight'[x] + found'[x] <= pend'[x]
    BY <1>4, <1>5 DEF Refused
  <2>2. CASE op' = IdleOp
    BY <2>1, <2>2, IdleQuiet, QuietContained
  <2>3. CASE BackoffOrFail(op, "bid")
    BY <1>1, <1>2, <2>1, <2>3, BackoffQuiet, QuietContained
  <2>4. QED
    BY <1>5, <2>2, <2>3 DEF Refused, Fail, Stop
<1>6. CASE Faulted(e)
  <2>1. \A x \in Bids : flight'[x] + found'[x] <= pend'[x]
    BY <1>4, <1>6 DEF Faulted
  <2>2. op'.pc = "walk" /\ SameSent
    BY <1>1, <1>6, FaultedRow DEF Faulted
  <2>3. QED
    BY <1>1, <2>1, <2>2, SameSentQuiet, QuietContained
<1>7. ASSUME pend' = pend
      PROVE  \A x \in Bids : flight'[x] + found'[x] <= pend'[x]
  BY <1>1, <1>7, MaybeContained DEF PostError
<1>8. CASE InWindow(e)
  <2> DEFINE o == [op EXCEPT !.windows = @ + 1, !.sent = @ + 1]
  <2>1. op.windows < MaxWindowRetries
    BY <1>8, ClassTable DEF InWindow
  <2>2. op.windows + 1 \in Nat /\ op.sent + 1 \in Nat
    BY <1>1
  <2>3. o \in OpStates
    BY <1>1, <2>2 DEF OpStates
  <2>4. o.windows = op.windows + 1 /\ o.sent = op.sent + 1
    BY <1>1 DEF OpStates
  <2>5. BackoffOrFail(o, "bid") /\ pend' = pend
    BY <1>8 DEF InWindow
  <2> HIDE DEF o
  <2>6. o.sent = o.windows /\ o.windows <= MaxWindowRetries
    BY <1>1, <1>2, <1>3, <2>1, <2>4
  <2>7. QED
    BY <1>7, <2>3, <2>5, <2>6, BackoffQuiet, QuietContained
<1>9. CASE Lost(e)
  <2>1. op' = [op EXCEPT !.pc = "poll", !.t = 0, !.polls = 1, !.sent = op.sent + 1, !.why = ChainWaitReason(e)]
        /\ pend' = pend
    BY <1>9 DEF Lost
  <2>2. op'.pc = "poll" /\ op'.sent = op.sent + 1 /\ op'.windows = op.windows /\ op'.left = op.left /\ op'.polls = 1
    BY <1>1, <2>1, LostRow
  <2>3. op'.sent <= 1 + MaxWindowRetries
    BY <1>1, <1>2, <1>3, <2>2
  <2>4. QED
    BY <1>2, <1>7, <2>1, <2>2, <2>3 DEF ContainInv, ReconcileHasTime
<1>10. QED
  BY <1>5, <1>6, <1>8, <1>9 DEF PostError

LEMMA PollContained ==
    ASSUME Typed, ContainInv, PollFinds \/ PollMisses \/ PollAgain
    PROVE  ContainInv'
<1>1. op \in OpStates /\ op.bid \in Bids /\ op.pc \in {"poll", "gap"} /\ op.polls \in Nat
  BY DEF Typed, TypeOK, Placed, PollFinds, PollMisses, PollAgain, OpStates
<1>2. CASE PollFinds
  <2>1. \A x \in Bids : flight'[x] + found'[x] <= pend'[x]
    BY <1>1, <1>2, FoundContained DEF PollFinds
  <2>2. QED
    BY <1>2, <2>1, IdleQuiet, QuietContained DEF PollFinds, Succeed, Stop
<1>3. CASE PollMisses
  <2>1. CASE op' = IdleOp
    BY <1>3, <2>1, IdleQuiet, CalmContained DEF PollMisses
  <2>2. CASE op' = [op EXCEPT !.pc = "gap", !.t = 0]
    <3>1. op'.pc = "gap" /\ op'.polls = op.polls /\ SameSent
      BY <1>1, <2>2, PcTRow
    <3>2. QED
      BY <1>1, <1>3, <3>1 DEF ContainInv, SameSent, ReconcileHasTime, PollMisses, walletVars
  <2>3. QED
    BY <1>3, <2>1, <2>2 DEF PollMisses, Fail, Stop
<1>4. CASE PollAgain
  <2>1. op' = [op EXCEPT !.pc = "poll", !.t = 0, !.polls = op.polls + 1]
    BY <1>4 DEF PollAgain
  <2>2. op'.pc = "poll" /\ op'.polls = op.polls + 1 /\ SameSent
    BY <1>1, <2>1, AgainRow
  <2>3. QED
    BY <1>1, <1>4, <2>2 DEF ContainInv, SameSent, ReconcileHasTime, PollAgain, walletVars
<1>5. QED
  BY <1>2, <1>3, <1>4

LEMMA MinedContained ==
    ASSUME Typed, ContainInv, NEW b \in Bids, Mined(b)
    PROVE  ContainInv'
<1>1. /\ flight \in [Bids -> Nat] /\ found \in [Bids -> Nat] /\ flight[b] > 0
      /\ flight' = [flight EXCEPT ![b] = @ - 1]
      /\ found' = [found EXCEPT ![b] = @ + 1] \/ UNCHANGED found
      /\ pend \in [Bids -> Nat] /\ UNCHANGED <<op, pend>>
  BY DEF Mined, Typed, TypeOK
<1>2. \A x \in Bids : flight'[x] + found'[x] <= flight[x] + found[x]
  BY <1>1
<1>3. \A x \in Bids : /\ flight'[x] + found'[x] \in Int /\ flight[x] + found[x] \in Int
                      /\ pend[x] \in Int
  BY <1>1
<1>4. QED
  BY <1>1, <1>2, <1>3 DEF ContainInv, ReconcileHasTime

LEMMA TickContained ==
    ASSUME Typed, ContainInv, Tick
    PROVE  ContainInv'
<1>1. op'.left \in {op.left, op.left - 1} /\ op.left \in Nat
  BY TickOp, LeftType
<1>2. SameSent /\ SamePlace /\ UNCHANGED walletVars
  BY TickOp DEF Tick
<1>3. op.pc = "post" => op'.left >= ReconcileReserve
  BY <1>1, WalkAssumption DEF Tick, CallOver
<1>4. op.pc = "poll" => op'.t # 0
  BY TickOp
<1>5. QED
  BY <1>2, <1>3, <1>4 DEF ContainInv, SameSent, SamePlace, walletVars, ReconcileHasTime

LEMMA ContainNext ==
    ASSUME Typed, ContainInv, [Next]_vars
    PROVE  ContainInv'
<1>1. CASE StartAcquire \/ StartFailover
  <2>1. PICK kind, extra, rej : Start(kind, extra, rej)
    BY <1>1 DEF StartAcquire, StartFailover
  <2>2. QED
    BY <2>1, StartQuiet, CalmContained DEF Start
<1>2. CASE \/ ContextEnds \/ Wake \/ RatedFails \/ Filter \/ Rehold \/ StakeCheck \/ StakeRead \/ NextBid
           \/ \E rows \in RatedAnswers \cup {<<>>} : RatedRead(rows)
  BY <1>2, CalmQuiet, CalmContained
<1>3. CASE Post \/ PostOK \/ PostExisting \/ AdoptExisting \/ \E e \in OpenErrors : PostError(e)
  BY <1>3, PostContained, AnsweredContained, AdoptContained, PostErrorContained
<1>4. CASE PollFinds \/ PollMisses \/ PollAgain
  BY <1>4, PollContained
<1>5. CASE UNCHANGED walkVars
  BY <1>5, CalmContained DEF walkVars, walletVars
<1>6. CASE (\E p \in Providers : OtherCools(p)) \/ EnsureStakeInputs \/ NewDay
  BY <1>6, CalmContained DEF OtherCools, EnsureStakeInputs, NewDay
<1>7. CASE \E b \in Bids : Mined(b)
  BY <1>7, MinedContained
<1>8. CASE Tick
  BY <1>8, TickContained
<1>9. QED
  BY <1>1, <1>2, <1>3, <1>4, <1>5, <1>6, <1>7, <1>8 DEF Next, OpenStep, Reader, vars

\* What opens may have sent is contained, for any bids, gateway files and
\* bounds: each transaction on its way or on chain has its attempt, one
\* operation has at most one open of unknown outcome beyond its window
\* retries, and a lost answer is looked for within the reserved part of the
\* hold (openExcluding, reconcile).
THEOREM OpensAreContained == Spec => []OpensContained
<1>1. Init => Typed /\ FeedInv /\ ContainInv
  <2>1. Init => ContainInv
    BY WalkAssumption DEF Init, ContainInv, IdleOp, ReconcileHasTime
  <2>2. QED
    BY <2>1, TypedInit
<1>2. Typed /\ FeedInv /\ ContainInv /\ [Next]_vars => (Typed /\ FeedInv /\ ContainInv)'
  BY TypedNext, FeedNext, ContainNext DEF FeedGood
<1>3. Typed /\ ContainInv => OpensContained
  <2> SUFFICES ASSUME Typed, ContainInv PROVE OpensContained
    OBVIOUS
  <2>1. op.windows \in Nat /\ op.sent \in Nat /\ MaxWindowRetries \in Nat
    BY WalkAssumption DEF Typed, TypeOK, OpStates
  <2>2. StakeExposure
    BY <2>1 DEF ContainInv, StakeExposure
  <2>3. QED
    BY <2>2 DEF Typed, ContainInv, OpensContained, LandedIsAwaited
<1>4. QED
  BY <1>1, <1>2, <1>3, PTL DEF Spec

-----------------------------------------------------------------------------
\* How an operation moves: where it has candidates, where it has the stake
\* inputs it computes with, where it has a bid.
AtBid(o) == o.pc \in {"bid", "post"} \/ (o.pc = "sleep" /\ o.back = "bid")
Priced(o) == o.pc = "walk" \/ AtBid(o)
InWalk(o) == o.pc \in {"between", "limit", "stake"} \/ Priced(o)

\* The operation has no candidates, or it keeps them, its inputs and its bid.
Off == ~InWalk(op') /\ op'.asked \in {0, op.asked, bids.file}
Keeps ==
    /\ SameRequest /\ SameChoice
    /\ InWalk(op') => InWalk(op)
    /\ Priced(op') => Priced(op)
    /\ AtBid(op') => AtBid(op) /\ op'.bid = op.bid
    /\ op'.pc = "stake" => op.pc = "stake"

\* The other moves: candidates, inputs and bids are chosen.
Chooses ==
    /\ Filter /\ op.pc = "health" /\ SameRequest
    /\ op'.pc \in {"limit", "between"} /\ op'.cands = Candidates
Reads ==
    /\ StakeCheck \/ StakeRead
    /\ InWalk(op) /\ ~AtBid(op') /\ SameRequest /\ op'.cands = op.cands
Tries ==
    /\ op.pc = "walk" /\ op'.pc = "bid" /\ op'.bid \in op.cands /\ ~OverCap(op'.bid)
    /\ SameRequest /\ SameChoice

LEMMA IdleOff ==
    ASSUME op' = IdleOp
    PROVE  Off
  BY DEF Off, InWalk, Priced, AtBid, IdleOp

LEMMA StandsKeeps ==
    ASSUME op' = op
    PROVE  Keeps
  BY DEF Keeps, SameRequest, SameChoice

LEMMA BackoffMoves ==
    ASSUME Typed, NEW o \in OpStates, NEW back \in {"rated", "bid"}, BackoffOrFail(o, back),
           o.asked = op.asked,
           back = "bid" => /\ op.pc = "post" /\ o.bid = op.bid
                           /\ o.kind = op.kind /\ o.extra = op.extra
                           /\ o.cands = op.cands /\ o.lv = op.lv /\ o.today = op.today
    PROVE  Off \/ Keeps
<1>1. CASE CanBackoff
  <2>1. op' = [o EXCEPT !.pc = "sleep", !.back = back, !.t = 0]
    BY <1>1 DEF BackoffOrFail
  <2>2. /\ op'.pc = "sleep" /\ op'.back = back /\ op'.bid = o.bid
        /\ op'.kind = o.kind /\ op'.extra = o.extra /\ op'.asked = o.asked
        /\ op'.cands = o.cands /\ op'.lv = o.lv /\ op'.today = o.today
    BY <2>1 DEF OpStates
  <2>3. CASE back = "rated"
    BY <2>2, <2>3 DEF Off, InWalk, Priced, AtBid
  <2>4. CASE back = "bid"
    BY <2>2, <2>4 DEF Keeps, SameRequest, SameChoice, InWalk, Priced, AtBid
  <2>5. QED
    BY <2>3, <2>4
<1>2. CASE ~CanBackoff
  BY <1>2, IdleOff DEF BackoffOrFail, Fail, Stop
<1>3. QED
  BY <1>1, <1>2

LEMMA StartMoves ==
    ASSUME NEW kind, NEW extra, NEW rej, Start(kind, extra, rej)
    PROVE  Off /\ op'.extra = extra /\ op'.asked = bids.file /\ op'.kind = kind
<1> DEFINE o == [IdleOp EXCEPT !.pc = "rated", !.kind = kind, !.extra = extra]
           cut == (cutNext # NoProvider)
<1>1. op' = [o EXCEPT !.rej = rej, !.cut = cut, !.left = SlotHoldCap, !.asked = bids.file]
  BY DEF Start
<1>2. o.pc = "rated" /\ o.extra = extra /\ o.kind = kind /\ DOMAIN o = DOMAIN IdleOp /\ "asked" \in DOMAIN IdleOp
  BY DEF IdleOp
<1> HIDE DEF o, cut
<1>3. op'.pc = o.pc /\ op'.extra = o.extra /\ op'.asked = bids.file /\ op'.kind = o.kind
  BY <1>1, <1>2
<1>4. QED
  BY <1>2, <1>3 DEF Off, InWalk, Priced, AtBid

LEMMA PostErrorMoves ==
    ASSUME Typed, NEW e \in OpenErrors, PostError(e)
    PROVE  Off \/ Keeps
<1>1. op \in OpStates /\ op.pc = "post"
  BY DEF Typed, TypeOK, PostError
<1>2. CASE Refused(e)
  <2>1. CASE BackoffOrFail(op, "bid")
    BY <1>1, <2>1, BackoffMoves
  <2>2. QED
    BY <1>2, <2>1, IdleOff DEF Refused, Fail, Stop
<1>3. CASE Faulted(e)
  <2>1. op'.pc = "walk" /\ SameRequest /\ SameChoice
    BY <1>1, <1>3, FaultedRow DEF Faulted
  <2>2. QED
    BY <1>1, <2>1 DEF Keeps, InWalk, Priced, AtBid
<1>4. CASE InWindow(e)
  <2> DEFINE o == [op EXCEPT !.windows = @ + 1, !.sent = @ + 1]
  <2>1. op.windows + 1 \in Nat /\ op.sent + 1 \in Nat
    BY <1>1 DEF OpStates
  <2>2. o \in OpStates
    BY <1>1, <2>1 DEF OpStates
  <2>3. /\ o.bid = op.bid /\ o.kind = op.kind /\ o.extra = op.extra /\ o.asked = op.asked
        /\ o.cands = op.cands /\ o.lv = op.lv /\ o.today = op.today
    BY <1>1 DEF OpStates
  <2>4. BackoffOrFail(o, "bid")
    BY <1>4 DEF InWindow
  <2> HIDE DEF o
  <2>5. QED
    BY <1>1, <2>2, <2>3, <2>4, BackoffMoves
<1>5. CASE Lost(e)
  <2>1. op' = [op EXCEPT !.pc = "poll", !.t = 0, !.polls = 1, !.sent = op.sent + 1, !.why = ChainWaitReason(e)]
    BY <1>5 DEF Lost
  <2>2. op'.pc = "poll" /\ SameRequest
    BY <1>1, <2>1, LostRow
  <2>3. QED
    BY <2>2 DEF Off, InWalk, Priced, AtBid, SameRequest
<1>6. QED
  BY <1>2, <1>3, <1>4, <1>5 DEF PostError

LEMMA OpMoves ==
    ASSUME Typed, [Next]_vars
    PROVE  Off \/ Keeps \/ Chooses \/ Reads \/ Tries
<1>1. op \in OpStates
  BY DEF Typed, TypeOK
<1>2. CASE op' = IdleOp \/ op' = op
  BY <1>2, IdleOff, StandsKeeps
<1>3. CASE StartAcquire \/ StartFailover
  BY <1>3, StartMoves DEF StartAcquire, StartFailover
<1>4. ASSUME NEW rows \in RatedAnswers \cup {<<>>}, RatedRead(rows) PROVE Off \/ Keeps
  <2>1. CASE op' = [op EXCEPT !.pc = "health", !.list = rows, !.t = 0]
    <3>1. op'.pc = "health" /\ SameRequest
      BY <1>1, <2>1, HealthRow
    <3>2. QED
      BY <3>1 DEF Off, InWalk, Priced, AtBid, SameRequest
  <2>2. QED
    BY <1>4, <2>1, IdleOff, StandsKeeps DEF RatedRead, Refuse, Stop
<1>5. CASE RatedFails
  BY <1>1, <1>5, BackoffMoves DEF RatedFails
<1>6. CASE Filter
  <2>1. CASE op' = [op EXCEPT !.pc = "limit", !.cands = Candidates, !.pool = Admits]
    BY <1>1, <1>6, <2>1, LimitRow DEF Chooses, Filter
  <2>2. CASE op' = [op EXCEPT !.pc = "between", !.cands = Candidates, !.left = 0]
    BY <1>1, <1>6, <2>2, BetweenRow DEF Chooses, Filter
  <2>3. QED
    BY <1>2, <1>6, <2>1, <2>2 DEF Filter, Filtered, Refuse, Stop
<1>7. CASE Rehold
  <2>1. op.pc = "between" /\ op'.pc = "limit" /\ SameRequest /\ SameChoice
    BY <1>1, <1>7, ReholdRow DEF Rehold
  <2>2. QED
    BY <2>1 DEF Keeps, InWalk, Priced, AtBid
<1>8. CASE StakeCheck
  <2>1. op.pc = "limit"
    BY <1>8 DEF StakeCheck
  <2>2. CASE op' # IdleOp
    <3>1. op'.pc \in {"walk", "stake"} /\ SameRequest /\ op'.cands = op.cands
      <4>1. CASE op' = [op EXCEPT !.pc = "walk"]
        BY <1>1, <4>1, PcRow DEF SameChoice
      <4>2. CASE op' = [op EXCEPT !.pc = "walk", !.lv = held.lv,
                                  !.today = IF held.split THEN held.lv ELSE level]
        BY <1>1, <4>2, StakeRow
      <4>3. CASE op' = [op EXCEPT !.pc = "stake", !.t = 0, !.today = level]
        BY <1>1, <4>3, InputsRow
      <4>4. QED
        BY <1>8, <2>2, <4>1, <4>2, <4>3 DEF StakeCheck, Fail, Stop
    <3>2. QED
      BY <1>8, <2>1, <3>1 DEF Reads, InWalk, AtBid
  <2>3. QED
    BY <1>2, <2>2
<1>9. CASE StakeRead
  <2>1. op.pc = "stake"
    BY <1>9 DEF StakeRead
  <2>2. CASE op' # IdleOp
    <3>1. op'.pc = "walk" /\ SameRequest /\ op'.cands = op.cands
      BY <1>1, <1>9, <2>2, StakeRow DEF StakeRead, Fail, Stop
    <3>2. QED
      BY <1>9, <2>1, <3>1 DEF Reads, InWalk, AtBid
  <2>3. QED
    BY <1>2, <2>2
<1>10. CASE NextBid
  BY <1>2, <1>10, NextBidPicks DEF Tries, NextBid
<1>11. CASE Post
  <2>1. CASE op' # IdleOp
    <3>1. op.pc = "bid" /\ op'.pc = "post" /\ op'.bid = op.bid /\ SameRequest /\ SameChoice
      BY <1>1, <1>11, <2>1, PcTRow DEF Post, Fail, Stop
    <3>2. QED
      BY <3>1 DEF Keeps, InWalk, Priced, AtBid
  <2>2. QED
    BY <1>2, <2>1
<1>12. CASE PostExisting
  <2>1. op'.pc = "named" /\ SameRequest
    BY <1>1, <1>12, NamedRow DEF PostExisting
  <2>2. QED
    BY <2>1 DEF Off, InWalk, Priced, AtBid, SameRequest
<1>13. CASE \E e \in OpenErrors : PostError(e)
  BY <1>13, PostErrorMoves
<1>14. CASE Wake
  <2>1. op.pc = "sleep" /\ op' = [op EXCEPT !.pc = op.back, !.t = 0, !.retries = op.retries + 1]
    BY <1>14 DEF Wake
  <2>2. op'.pc = op.back /\ op.back \in {"rated", "bid"} /\ op'.bid = op.bid /\ SameRequest /\ SameChoice
    BY <1>1, <2>1, WakeRow DEF Typed, Placed
  <2>3. QED
    BY <2>1, <2>2 DEF Off, Keeps, InWalk, Priced, AtBid, SameRequest
<1>15. CASE PollMisses \/ PollAgain
  <2>1. op' = IdleOp \/ (op'.pc \in {"poll", "gap"} /\ SameRequest)
    BY <1>1, <1>15, PcTRow, AgainRow DEF PollMisses, PollAgain, Fail, Stop
  <2>2. QED
    BY <1>2, <2>1 DEF Off, InWalk, Priced, AtBid, SameRequest
<1>16. CASE Tick
  BY <1>16, TickOp DEF Keeps, SamePlace, InWalk, Priced, AtBid
<1>17. CASE PostOK \/ AdoptExisting \/ PollFinds \/ ContextEnds
  BY <1>2, <1>17 DEF PostOK, AdoptExisting, PollFinds, ContextEnds, Succeed, Fail, Stop
<1>18. CASE (\E p \in Providers : OtherCools(p)) \/ (\E b \in Bids : Mined(b)) \/ EnsureStakeInputs \/ NewDay
  BY <1>2, <1>18 DEF OtherCools, Mined, EnsureStakeInputs, NewDay
<1>19. CASE UNCHANGED walkVars
  BY <1>2, <1>19 DEF walkVars
<1>20. QED
  BY <1>3, <1>4, <1>5, <1>6, <1>7, <1>8, <1>9, <1>10, <1>11, <1>12, <1>13, <1>14, <1>15, <1>16, <1>17,
     <1>18, <1>19 DEF Next, OpenStep, Reader, vars

-----------------------------------------------------------------------------
\* The stake cap. The pair held is the day's unless it was read at midnight,
\* and the operation computes with the pair it took until it ends.
HeldIsToday == held.lv # 0 /\ held.today /\ ~held.split => held.lv = level

StakeInv ==
    /\ HeldIsToday
    /\ op.pc = "stake" => op.today \in 1 .. 2
    /\ limit = "on" /\ Priced(op) => op.lv \in 1 .. 2 /\ op.today = op.lv
    /\ limit = "on" /\ AtBid(op) => StakeOf[op.bid][op.lv] \in 1 .. CapWei

\* The settings stay; the pair changes when it is read, at midnight and with
\* its age.
LEMMA StakeFrame ==
    ASSUME [Next]_vars
    PROVE  /\ limit' = limit
           /\ UNCHANGED stakeVars \/ StakeRead \/ EnsureStakeInputs \/ NewDay \/ Tick
<1>1. CASE StartAcquire \/ StartFailover
  BY <1>1 DEF StartAcquire, StartFailover, Start, settings
<1>2. CASE \/ \E rows \in RatedAnswers \cup {<<>>} : RatedRead(rows)
           \/ RatedFails \/ Filter \/ Rehold \/ StakeCheck
  BY <1>2 DEF RatedRead, RatedFails, Filter, Rehold, StakeCheck, KeepWallet, settings
<1>3. CASE StakeRead \/ NextBid \/ Post \/ PostOK \/ PostExisting \/ AdoptExisting
  BY <1>3 DEF StakeRead, NextBid, Post, PostOK, PostExisting, AdoptExisting, settings
<1>4. CASE \E e \in OpenErrors : PostError(e)
  BY <1>4 DEF PostError, settings
<1>5. CASE Wake \/ PollFinds \/ PollMisses \/ PollAgain \/ ContextEnds
  BY <1>5 DEF Wake, PollFinds, PollMisses, PollAgain, ContextEnds, settings
<1>6. CASE UNCHANGED walkVars
  BY <1>6 DEF walkVars, stakeVars
<1>7. CASE \/ \E p \in Providers : OtherCools(p)
           \/ \E b \in Bids : Mined(b)
           \/ EnsureStakeInputs \/ NewDay \/ Tick
  BY <1>7 DEF OtherCools, Mined, EnsureStakeInputs, NewDay, Tick, settings
<1>8. QED
  BY <1>1, <1>2, <1>3, <1>4, <1>5, <1>6, <1>7 DEF Next, OpenStep, Reader, vars

LEMMA HeldNext ==
    ASSUME Typed, HeldIsToday, [Next]_vars
    PROVE  HeldIsToday'
<1>1. held \in [lv : 0 .. 2, age : 0 .. InputsMaxAge, today : BOOLEAN, split : BOOLEAN]
  BY DEF Typed, TypeOK
<1>2. CASE UNCHANGED stakeVars
  BY <1>2 DEF HeldIsToday, stakeVars
<1>3. CASE StakeRead
  <2>1. level' = level
    BY <1>3 DEF StakeRead
  <2>2. CASE held' = held
    BY <2>1, <2>2 DEF HeldIsToday
  <2>3. ASSUME NEW lv \in {op.today, level},
               held' = [lv |-> lv, age |-> 0, today |-> TRUE, split |-> op.today # level]
        PROVE  HeldIsToday'
    <3>1. CASE op.today = level
      BY <2>1, <2>3, <3>1 DEF HeldIsToday
    <3>2. CASE op.today # level
      BY <2>3, <3>2 DEF HeldIsToday
    <3>3. QED
      BY <3>1, <3>2
  <2>4. QED
    BY <1>3, <2>2, <2>3 DEF StakeRead
<1>4. CASE EnsureStakeInputs
  <2>1. PICK lv : held' = [lv |-> lv, age |-> 0, today |-> TRUE, split |-> lv # level]
    BY <1>4 DEF EnsureStakeInputs
  <2>2. level' = level
    BY <1>4 DEF EnsureStakeInputs
  <2>3. CASE lv = level
    BY <2>1, <2>2, <2>3 DEF HeldIsToday
  <2>4. CASE lv # level
    BY <2>1, <2>4 DEF HeldIsToday
  <2>5. QED
    BY <2>3, <2>4
<1>5. CASE NewDay
  <2>1. held' = [held EXCEPT !.today = FALSE]
    BY <1>5 DEF NewDay
  <2>2. held'.today = FALSE
    BY <1>1, <2>1
  <2>3. QED
    BY <2>2 DEF HeldIsToday
<1>6. CASE Tick
  <2> DEFINE age == IF held.lv = 0 \/ held.age = InputsMaxAge THEN held.age ELSE held.age + 1
  <2>1. held' = [held EXCEPT !.age = age] /\ level' = level
    BY <1>6 DEF Tick
  <2> HIDE DEF age
  <2>2. held'.lv = held.lv /\ held'.today = held.today /\ held'.split = held.split
    BY <1>1, <2>1
  <2>3. QED
    BY <2>1, <2>2 DEF HeldIsToday
<1>7. QED
  BY <1>2, <1>3, <1>4, <1>5, <1>6, StakeFrame

\* The inputs an operation takes are those of the day.
LEMMA ReadsStake ==
    ASSUME Typed, StakeInv, Reads
    PROVE  /\ op'.pc = "stake" => op'.today \in 1 .. 2
           /\ limit = "on" /\ Priced(op') => op'.lv \in 1 .. 2 /\ op'.today = op'.lv
<1>1. op \in OpStates /\ level \in 1 .. 2 /\ held.lv \in 0 .. 2
  BY DEF Typed, TypeOK
<1>2. CASE op' = IdleOp
  BY <1>2 DEF IdleOp, Priced, AtBid
<1>3. CASE StakeRead /\ op' # IdleOp
  <2>1. PICK lv \in {op.today, level} : op' = [op EXCEPT !.pc = "walk", !.lv = lv, !.today = lv]
    BY <1>3 DEF StakeRead, Fail, Stop
  <2>2. op'.pc = "walk" /\ op'.lv = lv /\ op'.today = lv
    BY <1>1, <2>1, StakeRow
  <2>3. lv \in 1 .. 2
    BY <1>1, <1>3 DEF StakeInv, StakeRead
  <2>4. QED
    BY <2>2, <2>3
<1>4. CASE StakeCheck /\ op' # IdleOp
  <2>1. CASE limit = "off" /\ op' = [op EXCEPT !.pc = "walk"]
    <3>1. op'.pc = "walk"
      BY <1>1, <2>1, PcRow
    <3>2. QED
      BY <2>1, <3>1
  <2>2. CASE HeldFresh /\ op' = [op EXCEPT !.pc = "walk", !.lv = held.lv,
                                          !.today = IF held.split THEN held.lv ELSE level]
    <3>1. op'.pc = "walk" /\ op'.lv = held.lv /\ op'.today = IF held.split THEN held.lv ELSE level
      BY <1>1, <2>2, StakeRow
    <3>2. held.lv \in 1 .. 2 /\ (~held.split => held.lv = level)
      BY <1>1, <2>2 DEF HeldFresh, StakeInv, HeldIsToday
    <3>3. CASE held.split
      BY <3>1, <3>2, <3>3
    <3>4. CASE ~held.split
      BY <3>1, <3>2, <3>4
    <3>5. QED
      BY <3>3, <3>4
  <2>3. CASE op' = [op EXCEPT !.pc = "stake", !.t = 0, !.today = level]
    <3>1. op'.pc = "stake" /\ op'.today = level
      BY <1>1, <2>3, InputsRow
    <3>2. QED
      BY <1>1, <3>1 DEF Priced, AtBid
  <2>4. QED
    BY <1>4, <2>1, <2>2, <2>3 DEF StakeCheck, Fail, Stop
<1>5. QED
  BY <1>2, <1>3, <1>4 DEF Reads

LEMMA StakeNext ==
    ASSUME Typed, StakeInv, [Next]_vars
    PROVE  StakeInv'
<1>1. HeldIsToday' /\ limit' = limit
  BY HeldNext, StakeFrame DEF StakeInv
<1>2. CASE Off
  BY <1>1, <1>2 DEF Off, InWalk, Priced, StakeInv
<1>3. CASE Keeps
  BY <1>1, <1>3 DEF Keeps, SameChoice, StakeInv
<1>4. CASE Chooses
  BY <1>1, <1>4 DEF Chooses, StakeInv, Priced, AtBid
<1>5. CASE Reads
  BY <1>1, <1>5, ReadsStake DEF StakeInv, Reads
<1>6. CASE Tries
  <2>1. op \in OpStates
    BY DEF Typed, TypeOK
  <2>2. op'.bid \in Bids
    BY <1>6, <2>1 DEF Tries, OpStates
  <2>3. ASSUME limit = "on"
        PROVE  /\ op'.lv \in 1 .. 2 /\ op'.today = op'.lv
               /\ StakeOf[op'.bid][op'.lv] \in 1 .. CapWei
    <3>1. op.lv \in 1 .. 2 /\ op.today = op.lv
      BY <1>6, <2>3 DEF Tries, StakeInv, Priced
    <3>2. op'.lv = op.lv /\ op'.today = op.today
      BY <1>6 DEF Tries, SameChoice
    <3>3. StakeOf[op'.bid][op.lv] \in Nat /\ CapWei \in Nat
      BY <2>2, <3>1, WalkAssumption
    <3>4. ~(StakeOf[op'.bid][op.lv] = 0 \/ StakeOf[op'.bid][op.lv] > CapWei)
      BY <1>6, <2>3 DEF Tries, OverCap
    <3>5. QED
      BY <3>1, <3>2, <3>3, <3>4
  <2>4. QED
    BY <1>1, <1>6, <2>3 DEF Tries, StakeInv
<1>7. QED
  BY <1>2, <1>3, <1>4, <1>5, <1>6, OpMoves

\* While the cap is on, no post's stake is above it at the supply and budget
\* of the day, for any bids, stakes and cap (openExcluding, heldFresh).
THEOREM StakeIsCapped == Spec => []StakeWithinCap
<1>1. Init => Typed /\ FeedInv /\ StakeInv
  <2>1. Init => StakeInv
    BY DEF Init, StakeInv, HeldIsToday, NoPair, IdleOp, Priced, AtBid
  <2>2. QED
    BY <2>1, TypedInit
<1>2. Typed /\ FeedInv /\ StakeInv /\ [Next]_vars => (Typed /\ FeedInv /\ StakeInv)'
  BY TypedNext, FeedNext, StakeNext DEF FeedGood
<1>3. StakeInv => StakeWithinCap
  BY DEF StakeInv, StakeWithinCap, Priced, AtBid
<1>4. QED
  BY <1>1, <1>2, <1>3, PTL DEF Spec

-----------------------------------------------------------------------------
\* The advice. While it runs, a provider it was about cools no longer than it.
AdviceInv ==
    advice # NoAdvice => \E p \in advice.pool : cooling[p] <= advice.wait

\* The advice is dropped, stays with the cool-downs, is given for one of them
\* as it is, or runs down.
Advises(pool) ==
    /\ RetryAfter(pool) \notin {0, MaxRetryAfter}
    /\ advice' = [wait |-> RetryAfter(pool), pool |-> pool]

LEMMA StopAdvises ==
    ASSUME NEW why, NEW pool, Stop(why, pool)
    PROVE  advice' = NoAdvice \/ Advises(pool)
  BY DEF Stop, Advises

LEMMA EndAdvises ==
    ASSUME Typed,
           \/ \E why : Fail(why)
           \/ \E why : \E pool \in SUBSET Providers : Refuse(why, pool)
           \/ Succeed
    PROVE  advice' = NoAdvice \/ \E pool \in SUBSET Providers : Advises(pool)
  BY StopAdvises DEF Fail, Refuse, Succeed

LEMMA AdviceFrame ==
    ASSUME Typed, [Next]_vars
    PROVE  \/ UNCHANGED <<advice, cooling>>
           \/ advice' = NoAdvice
           \/ cooling' = cooling /\ \E pool \in SUBSET Providers : Advises(pool)
           \/ Tick
<1>1. op \in OpStates
  BY DEF Typed, TypeOK
<1>2. op.pool \in SUBSET Providers /\ Admits \in SUBSET Providers
  <2>1. ToSet(op.list) \subseteq Bids
    BY <1>1 DEF OpStates, ToSet
  <2>2. QED
    <3>1. Admits \in SUBSET Providers
      BY <2>1, WalkAssumption DEF Admits, Admitted, Healthy
    <3>2. op.pool \in SUBSET Providers
      BY <1>1 DEF OpStates
    <3>3. QED
      BY <3>1, <3>2
<1>3. ASSUME \/ UNCHANGED advice
             \/ \E why : Fail(why)
             \/ \E why : \E pool \in SUBSET Providers : Refuse(why, pool)
             \/ Succeed
             \/ \E why : Stop(why, {}),
             cooling' = cooling
      PROVE  \/ UNCHANGED <<advice, cooling>>
             \/ advice' = NoAdvice
             \/ cooling' = cooling /\ \E pool \in SUBSET Providers : Advises(pool)
  BY <1>3, EndAdvises, StopAdvises
<1>4. CASE StartAcquire \/ StartFailover
  BY <1>4 DEF StartAcquire, StartFailover, Start, Cool
<1>5. ASSUME NEW rows, RatedRead(rows) PROVE cooling' = cooling /\ (UNCHANGED advice \/ \E why : Refuse(why, {}))
  BY <1>5 DEF RatedRead, coolVars
<1>6. ASSUME NEW o, NEW back, BackoffOrFail(o, back)
      PROVE  UNCHANGED advice \/ \E why : Fail(why)
  BY <1>6 DEF BackoffOrFail
<1>7. CASE RatedFails
  BY <1>3, <1>6, <1>7 DEF RatedFails, coolVars
<1>8. CASE Filter
  <2>1. cooling' = cooling
    BY <1>8 DEF Filter
  <2>2. \/ \E why : \E pool \in SUBSET Providers : Refuse(why, pool)
        \/ UNCHANGED advice \/ \E why : Stop(why, {})
    BY <1>2, <1>8 DEF Filter, Filtered
  <2>3. QED
    BY <1>3, <2>1, <2>2
<1>9. CASE Rehold \/ StakeCheck \/ StakeRead \/ Post
  BY <1>3, <1>9 DEF Rehold, StakeCheck, StakeRead, Post, coolVars
<1>10. CASE NextBid
  <2>1. cooling' = cooling
    BY <1>10 DEF NextBid, coolVars
  <2>2. UNCHANGED advice \/ (\E why : Fail(why)) \/ (\E why : \E pool \in SUBSET Providers : Refuse(why, pool))
    BY <1>2, <1>10 DEF NextBid
  <2>3. QED
    BY <1>3, <2>1, <2>2
<1>11. CASE PostOK \/ PostExisting \/ PollFinds \/ PollMisses \/ PollAgain \/ Wake \/ ContextEnds
  BY <1>3, <1>11 DEF PostOK, PostExisting, PollFinds, PollMisses, PollAgain, Wake, ContextEnds, coolVars
<1>12. CASE AdoptExisting
  BY <1>3, <1>12 DEF AdoptExisting, coolVars
<1>13. ASSUME NEW e \in OpenErrors, PostError(e)
       PROVE  \/ advice' = NoAdvice
              \/ cooling' = cooling /\ (UNCHANGED advice \/ \E why : Fail(why))
  BY <1>6, <1>13 DEF PostError, Refused, Faulted, InWindow, Lost, Cool, coolVars
<1>14. CASE (\E p \in Providers : OtherCools(p)) \/ (\E b \in Bids : Mined(b)) \/ EnsureStakeInputs \/ NewDay
  BY <1>14 DEF OtherCools, Cool, Mined, EnsureStakeInputs, NewDay, coolVars
<1>15. CASE UNCHANGED walkVars
  BY <1>15 DEF walkVars
<1>16. QED
  BY <1>3, <1>4, <1>5, <1>7, <1>8, <1>9, <1>10, <1>11, <1>12, <1>13, <1>14, <1>15
     DEF Next, OpenStep, Reader, vars

LEMMA AdviceNext ==
    ASSUME Typed, AdviceInv, [Next]_vars
    PROVE  AdviceInv'
<1>1. cooling \in [Providers -> 0 .. Cooldown] /\ advice \in [wait : Nat, pool : SUBSET Providers]
  BY DEF Typed, TypeOK
<1>2. CASE UNCHANGED <<advice, cooling>>
  BY <1>2 DEF AdviceInv
<1>3. CASE advice' = NoAdvice
  BY <1>3 DEF AdviceInv, NoAdvice
<1>4. ASSUME cooling' = cooling, NEW pool \in SUBSET Providers, Advises(pool)
      PROVE  AdviceInv'
  <2>1. PICK p \in pool : cooling[p] = RetryAfter(pool) /\ RetryAfter(pool) \in Nat
    BY <1>4, RetryAfterIsACooldown DEF Advises, Typed
  <2>2. advice'.pool = pool /\ advice'.wait = RetryAfter(pool)
    BY <1>4 DEF Advises
  <2>3. QED
    BY <1>4, <2>1, <2>2 DEF AdviceInv
<1>5. CASE Tick
  <2>1. /\ cooling' = [p \in Providers |-> Down(cooling[p])]
        /\ advice' = IF advice.wait = 0 THEN NoAdvice ELSE [advice EXCEPT !.wait = @ - 1]
    BY <1>5 DEF Tick
  <2>2. CASE advice.wait = 0
    BY <1>3, <2>1, <2>2
  <2>3. CASE advice.wait # 0
    <3>1. advice'.pool = advice.pool /\ advice'.wait = advice.wait - 1 /\ advice.wait \in Nat \ {0}
      BY <1>1, <2>1, <2>3
    <3>2. advice # NoAdvice
      BY <2>3 DEF NoAdvice
    <3>3. PICK p \in advice.pool : cooling[p] <= advice.wait
      BY <3>2 DEF AdviceInv
    <3>4. p \in Providers /\ cooling[p] \in Nat
      BY <1>1, WalkAssumption
    <3>5. cooling'[p] <= advice'.wait
      BY <2>1, <3>1, <3>3, <3>4 DEF Down
    <3>6. QED
      BY <3>1, <3>5 DEF AdviceInv
  <2>4. QED
    BY <2>2, <2>3
<1>6. QED
  BY <1>2, <1>3, <1>4, <1>5, AdviceFrame

\* A client that waits as long as it was advised to finds a provider out of
\* its cool-down, for any providers and cool-down (retryAfter).
THEOREM AdviceIsKept == Spec => []AdviceHolds
<1>1. Init => Typed /\ FeedInv /\ AdviceInv
  BY TypedInit DEF Init, AdviceInv
<1>2. Typed /\ FeedInv /\ AdviceInv /\ [Next]_vars => (Typed /\ FeedInv /\ AdviceInv)'
  BY TypedNext, FeedNext, AdviceNext DEF FeedGood
<1>3. Typed /\ AdviceInv => AdviceHolds
  <2> SUFFICES ASSUME Typed, AdviceInv, advice # NoAdvice, advice.wait = 0
               PROVE  \E p \in advice.pool : cooling[p] = 0
    BY DEF AdviceHolds
  <2>1. PICK p \in advice.pool : cooling[p] <= 0
    BY DEF AdviceInv
  <2>2. cooling[p] \in Nat
    BY WalkAssumption DEF Typed, TypeOK
  <2>3. QED
    BY <2>1, <2>2
<1>4. QED
  BY <1>1, <1>2, <1>3, PTL DEF Spec

-----------------------------------------------------------------------------
\* The bid posted. Every candidate passed the filters when they were applied,
\* and what has happened since is known.

\* b was healthy in a file that is not older than the one held at the start.
Sound(b, asked, file) ==
    \/ asked = 0 /\ \E j \in DOMAIN ModelFiles : b \in HealthyOf(DetailRows(j))
    \/ file # 0 /\ \E i \in DOMAIN BidFiles :
          /\ b \in HealthyOf(BidRows(i))
          /\ BidFiles[i].stamp <= BidFiles[file].stamp
          /\ asked # 0 => BidFiles[i].stamp >= BidFiles[asked].stamp

\* p is admitted, not to be avoided, and cooled, if at all, since.
Clean(p, extra, due, cools, since) ==
    /\ p \notin Excluded \cup {extra, due}
    /\ cools[p] > 0 => p \in since

AskedInv ==
    op.asked # 0 => bids.file # 0 /\ BidFiles[op.asked].stamp <= BidFiles[bids.file].stamp

BidInv ==
    /\ owed # NoProvider => cutNext = owed
    /\ AskedInv
    /\ AtBid(op) => op.bid \in op.cands
    /\ InWalk(op) => \A b \in op.cands :
          Sound(b, op.asked, bids.file) /\ Clean(ProvOf[b], op.extra, owed, cooling, marked)

\* The cut changes only as an operation ends.
LEMMA EndCut ==
    ASSUME \/ \E why : Fail(why)
           \/ \E why, pool : Refuse(why, pool)
           \/ Succeed
           \/ \E why : Stop(why, {}) /\ ClearCut
    PROVE  op' = IdleOp /\ (owed' = NoProvider \/ UNCHANGED <<cutNext, owed>>)
  BY DEF Fail, Refuse, Succeed, Stop, ClearCut, KeepCut, cutVars

LEMMA CutFrame ==
    ASSUME [Next]_vars
    PROVE  \/ UNCHANGED <<cutNext, owed>>
           \/ op' = IdleOp /\ (owed' = NoProvider \/ owed' = cutNext')
<1>1. CASE StartAcquire \/ StartFailover
  BY <1>1 DEF StartAcquire, StartFailover, Start, cutVars
<1>2. ASSUME NEW o, NEW back, BackoffOrFail(o, back)
      PROVE  UNCHANGED <<cutNext, owed>> \/ \E why : Fail(why)
  BY <1>2 DEF BackoffOrFail, cutVars
<1>3. ASSUME NEW rows, RatedRead(rows)
      PROVE  UNCHANGED <<cutNext, owed>> \/ \E why, pool : Refuse(why, pool)
  BY <1>3 DEF RatedRead, cutVars
<1>4. CASE RatedFails
  BY <1>2, <1>4, EndCut DEF RatedFails
<1>5. CASE Filter
  <2>1. \/ UNCHANGED <<cutNext, owed>>
        \/ \E why, pool : Refuse(why, pool)
        \/ op' = IdleOp /\ owed' = cutNext'
    BY <1>5 DEF Filter, Filtered, Stop, cutVars
  <2>2. QED
    BY <2>1, EndCut
<1>6. CASE Rehold \/ StakeCheck \/ StakeRead \/ Post
  BY <1>6, EndCut DEF Rehold, StakeCheck, StakeRead, Post, cutVars
<1>7. CASE NextBid
  <2>1. UNCHANGED <<cutNext, owed>> \/ (\E why : Fail(why)) \/ (\E why, pool : Refuse(why, pool))
    BY <1>7 DEF NextBid, cutVars
  <2>2. QED
    BY <2>1, EndCut
<1>8. CASE PostOK \/ PostExisting \/ PollFinds \/ PollMisses \/ PollAgain \/ Wake \/ ContextEnds
  BY <1>8, EndCut DEF PostOK, PostExisting, PollFinds, PollMisses, PollAgain, Wake, ContextEnds, cutVars
<1>9. CASE AdoptExisting
  BY <1>9, EndCut DEF AdoptExisting
<1>10. ASSUME NEW e \in OpenErrors, PostError(e)
       PROVE  UNCHANGED <<cutNext, owed>> \/ \E why : Fail(why)
  BY <1>2, <1>10 DEF PostError, Refused, Faulted, InWindow, Lost, cutVars
<1>11. CASE (\E p \in Providers : OtherCools(p)) \/ (\E b \in Bids : Mined(b)) \/ EnsureStakeInputs \/ NewDay \/ Tick
  BY <1>11 DEF OtherCools, Mined, EnsureStakeInputs, NewDay, Tick, cutVars
<1>12. CASE UNCHANGED walkVars
  BY <1>12 DEF walkVars
<1>13. QED
  BY <1>1, <1>3, <1>4, <1>5, <1>6, <1>7, <1>8, <1>9, <1>10, <1>11, <1>12, EndCut
     DEF Next, OpenStep, Reader, vars

\* While an operation has candidates, a provider cooled is marked.
LEMMA CoolMarks ==
    ASSUME Typed, NEW p \in Providers, Cool(p), InWalk(op)
    PROVE  marked \subseteq marked' /\ \A q \in Providers : cooling'[q] > 0 => cooling[q] > 0 \/ q \in marked'
  BY DEF Cool, InWalk, Priced, AtBid, Typed, TypeOK

LEMMA CoolFrame ==
    ASSUME Typed, [Next]_vars, InWalk(op)
    PROVE  marked \subseteq marked' /\ \A q \in Providers : cooling'[q] > 0 => cooling[q] > 0 \/ q \in marked'
<1>1. CASE UNCHANGED coolVars
  BY <1>1 DEF coolVars
<1>2. CASE StartAcquire \/ StartFailover
  BY <1>2 DEF StartAcquire, StartFailover, Start, InWalk, Priced, AtBid
<1>3. CASE \/ \E rows \in RatedAnswers \cup {<<>>} : RatedRead(rows)
           \/ RatedFails \/ Rehold \/ StakeCheck \/ StakeRead \/ NextBid \/ Post
  BY <1>1, <1>3 DEF RatedRead, RatedFails, Rehold, StakeCheck, StakeRead, NextBid, Post
<1>4. CASE Filter
  BY <1>4 DEF Filter, InWalk, Priced, AtBid
<1>5. CASE PostOK \/ PostExisting \/ PollFinds \/ PollMisses \/ PollAgain \/ Wake \/ ContextEnds \/ AdoptExisting
  BY <1>1, <1>5 DEF PostOK, PostExisting, PollFinds, PollMisses, PollAgain, Wake, ContextEnds, AdoptExisting
<1>6. ASSUME NEW e \in OpenErrors, PostError(e)
      PROVE  UNCHANGED coolVars \/ \E p \in Providers : Cool(p)
  <2>1. ProvOf[op.bid] \in Providers
    BY <1>6, WalkAssumption DEF PostError, Typed, Placed
  <2>2. QED
    BY <1>6, <2>1 DEF PostError, Refused, Faulted, InWindow, Lost, coolVars
<1>7. CASE \E p \in Providers : OtherCools(p)
  BY <1>7, CoolMarks DEF OtherCools
<1>8. CASE (\E b \in Bids : Mined(b)) \/ EnsureStakeInputs \/ NewDay
  BY <1>1, <1>8 DEF Mined, EnsureStakeInputs, NewDay
<1>9. CASE Tick
  <2>1. cooling' = [p \in Providers |-> Down(cooling[p])] /\ marked' = marked
    BY <1>9 DEF Tick
  <2>2. \A q \in Providers : cooling[q] \in Nat
    BY WalkAssumption DEF Typed, TypeOK
  <2>3. QED
    BY <2>1, <2>2 DEF Down
<1>10. CASE UNCHANGED walkVars
  BY <1>1, <1>10 DEF walkVars, coolVars
<1>11. QED
  BY <1>1, <1>2, <1>3, <1>4, <1>5, <1>6, <1>7, <1>8, <1>9, <1>10, CoolMarks DEF Next, OpenStep, Reader, vars

LEMMA AskedNext ==
    ASSUME Typed, FeedInv, AskedInv, [Next]_vars
    PROVE  AskedInv'
<1>1. op'.asked \in {0, op.asked, bids.file}
  BY OpMoves DEF Off, Keeps, Chooses, Reads, Tries, SameRequest
<1>2. NotOlder /\ bids'.file \in 0 .. Len(BidFiles)
  BY FeedNext DEF FeedGood, FeedInv, FeedTypeOK, Copy
<1>3. op.asked \in 0 .. Len(BidFiles) /\ bids.file \in 0 .. Len(BidFiles)
  <2>1. op \in OpStates /\ bids \in Copy(BidFiles)
    BY DEF Typed, TypeOK, FeedTypeOK
  <2>2. QED
    BY <2>1 DEF OpStates, Copy
<1>4. /\ op.asked # 0 => BidFiles[op.asked].stamp \in Nat
      /\ bids.file # 0 => BidFiles[bids.file].stamp \in Nat
      /\ bids'.file # 0 => BidFiles[bids'.file].stamp \in Nat
  BY <1>2, <1>3, StampType
<1>5. QED
  BY <1>1, <1>2, <1>4 DEF AskedInv, NotOlder

\* A newer copy keeps what was known of a bid.
LEMMA SoundKept ==
    ASSUME Typed, FeedInv, NotOlder, FeedInv', NEW b, NEW asked, Sound(b, asked, bids.file)
    PROVE  Sound(b, asked, bids'.file)
<1>1. bids.file \in 0 .. Len(BidFiles) /\ bids'.file \in 0 .. Len(BidFiles)
  BY DEF FeedInv, FeedTypeOK, Copy
<1>2. \A i \in DOMAIN BidFiles : BidFiles[i].stamp \in Nat
  BY StampType
<1>3. bids.file # 0 => bids.file \in DOMAIN BidFiles /\ bids'.file \in DOMAIN BidFiles
  BY <1>1, StampType DEF NotOlder
<1>4. bids.file # 0 => bids'.file # 0 /\ \A i \in DOMAIN BidFiles :
         BidFiles[i].stamp <= BidFiles[bids.file].stamp => BidFiles[i].stamp <= BidFiles[bids'.file].stamp
  BY <1>2, <1>3 DEF NotOlder
<1>5. QED
  BY <1>4 DEF Sound

\* The candidates pass every filter.
LEMMA ChosenSound ==
    ASSUME Typed, BidInv, Chooses, NEW b \in Candidates
    PROVE  Sound(b, op.asked, bids.file)
<1>1. HealthKnown /\ b \in HealthyBidIDs
  BY DEF Chooses, Filter, Refuse, Stop, IdleOp, Candidates, Admitted, Healthy
<1>2. bids.file \in 0 .. Len(BidFiles) /\ detail \in 0 .. Len(ModelFiles)
  BY DEF Typed, TypeOK, FeedTypeOK, Copy
<1>3. CASE bids.file # 0
  <2>1. b \in HealthyOf(BidRows(bids.file)) /\ bids.file \in DOMAIN BidFiles
        /\ BidFiles[bids.file].stamp \in Nat
    BY <1>1, <1>2, <1>3, StampType DEF HealthyBidIDs
  <2>2. op.asked # 0 => BidFiles[bids.file].stamp >= BidFiles[op.asked].stamp
    <3>1. op \in OpStates
      BY DEF Typed, TypeOK
    <3>2. op.asked \in 0 .. Len(BidFiles)
      BY <3>1 DEF OpStates
    <3>3. op.asked # 0 => BidFiles[op.asked].stamp \in Nat
      BY <3>2, StampType
    <3>4. QED
      BY <2>1, <3>3 DEF BidInv, AskedInv
  <2>3. QED
    BY <1>3, <2>1, <2>2 DEF Sound
<1>4. CASE bids.file = 0
  <2>1. op.asked = 0 /\ detail \in DOMAIN ModelFiles /\ b \in HealthyOf(DetailRows(detail))
    BY <1>1, <1>2, <1>4, StampType DEF HealthKnown, HealthyBidIDs, BidInv, AskedInv
  <2>2. QED
    BY <2>1 DEF Sound
<1>5. QED
  BY <1>3, <1>4

LEMMA ChosenClean ==
    ASSUME Typed, BidInv, NEW b \in Candidates, NEW since
    PROVE  Clean(ProvOf[b], op.extra, owed, cooling, since)
<1>1. op \in OpStates /\ op.list \in Seq(Bids)
  BY DEF Typed, TypeOK, OpStates
<1>2. b \in Bids /\ ProvOf[b] \notin Excluded /\ ProvOf[b] \notin Avoided
  BY <1>1 DEF Candidates, Admitted, Healthy, ToSet
<1>3. ProvOf[b] \in Providers /\ ProvOf[b] # NoProvider
  BY <1>2, WalkAssumption
<1>4. ProvOf[b] \notin {cutNext, op.extra} /\ ~(cooling[ProvOf[b]] > 0)
  BY <1>2, <1>3 DEF Avoided, CoolingProviders
<1>5. ProvOf[b] # owed
  BY <1>3, <1>4 DEF BidInv
<1>6. QED
  BY <1>2, <1>4, <1>5 DEF Clean

LEMMA BidNext ==
    ASSUME Typed, FeedInv, BidInv, [Next]_vars
    PROVE  BidInv'
<1>1. AskedInv'
  BY AskedNext DEF BidInv
<1>2. owed' # NoProvider => cutNext' = owed'
  BY CutFrame DEF BidInv
<1>3. NotOlder /\ FeedInv'
  BY FeedNext DEF FeedGood
<1>4. CASE Off
  BY <1>1, <1>2, <1>4 DEF Off, BidInv, InWalk, Priced
<1>5. ASSUME InWalk(op), InWalk(op'), SameRequest, op'.cands = op.cands
      PROVE  \A b \in op'.cands :
                Sound(b, op'.asked, bids'.file) /\ Clean(ProvOf[b], op'.extra, owed', cooling', marked')
  <2> SUFFICES ASSUME NEW b \in op.cands
               PROVE  Sound(b, op.asked, bids'.file) /\ Clean(ProvOf[b], op.extra, owed', cooling', marked')
    BY <1>5 DEF SameRequest
  <2>1. Sound(b, op.asked, bids.file) /\ Clean(ProvOf[b], op.extra, owed, cooling, marked)
    BY <1>5 DEF BidInv
  <2>2. op \in OpStates
    BY DEF Typed, TypeOK
  <2>3. ProvOf[b] \in Providers
    BY <2>2, WalkAssumption DEF OpStates
  <2>4. op' # IdleOp
    BY <1>5 DEF IdleOp, InWalk, Priced, AtBid
  <2>5. owed' = owed
    BY <2>4, CutFrame
  <2>6. Clean(ProvOf[b], op.extra, owed', cooling', marked')
    BY <1>5, <2>1, <2>3, <2>5, CoolFrame DEF Clean
  <2>7. QED
    BY <1>3, <2>1, <2>6, SoundKept
<1>6. CASE Keeps
  <2>1. AtBid(op') => op'.bid \in op'.cands
    BY <1>6 DEF Keeps, SameChoice, BidInv
  <2>2. QED
    BY <1>1, <1>2, <1>5, <1>6, <2>1 DEF Keeps, SameChoice, BidInv
<1>7. CASE Reads
  BY <1>1, <1>2, <1>5, <1>7 DEF Reads, BidInv
<1>8. CASE Tries
  <2>1. InWalk(op) /\ InWalk(op') /\ AtBid(op')
    BY <1>8 DEF Tries, InWalk, Priced, AtBid
  <2>2. QED
    BY <1>1, <1>2, <1>5, <1>8, <2>1 DEF Tries, SameChoice, BidInv
<1>9. CASE Chooses
  <2>1. bids' = bids /\ cooling' = cooling /\ ~AtBid(op') /\ op' # IdleOp
    BY <1>9 DEF Chooses, Filter, AtBid, IdleOp
  <2>2. owed' = owed
    BY <2>1, CutFrame
  <2>3. op'.cands = Candidates /\ op'.asked = op.asked /\ op'.extra = op.extra
    BY <1>9 DEF Chooses, SameRequest
  <2>4. \A b \in op'.cands :
           Sound(b, op'.asked, bids'.file) /\ Clean(ProvOf[b], op'.extra, owed', cooling', marked')
    BY <1>9, <2>1, <2>2, <2>3, ChosenSound, ChosenClean
  <2>5. QED
    BY <1>1, <1>2, <2>1, <2>4 DEF BidInv
<1>10. QED
  BY <1>4, <1>6, <1>7, <1>8, <1>9, OpMoves

\* No post names a bid that the health files, the exclusions, the cool-downs
\* or a cut stream speak against, as far as the operation could know, for any
\* bids, files and callers of the catalog (filterCandidates).
THEOREM PostsAreAllowed == Spec => []PostAllowed
<1>1. Init => Typed /\ FeedInv /\ BidInv
  <2>1. Init => BidInv
    BY DEF Init, BidInv, AskedInv, IdleOp, InWalk, Priced, AtBid
  <2>2. QED
    BY <2>1, TypedInit
<1>2. Typed /\ FeedInv /\ BidInv /\ [Next]_vars => (Typed /\ FeedInv /\ BidInv)'
  BY TypedNext, FeedNext, BidNext DEF FeedGood
<1>3. BidInv => PostAllowed
  <2> SUFFICES ASSUME BidInv, op.pc = "post" PROVE PostAllowed
    BY DEF PostAllowed, PostedBidHealthy, PostAvoidsKnownBad
  <2>1. InWalk(op) /\ op.bid \in op.cands
    BY DEF BidInv, InWalk, Priced, AtBid
  <2>2. Sound(op.bid, op.asked, bids.file) /\ Clean(ProvOf[op.bid], op.extra, owed, cooling, marked)
    BY <2>1 DEF BidInv
  <2>3. QED
    BY <2>2 DEF PostAllowed, PostedBidHealthy, PostAvoidsKnownBad, Sound, Clean
<1>4. QED
  BY <1>1, <1>2, <1>3, PTL DEF Spec

\* A feed is fetched by one caller at a time and only when it is due, however
\* callers pass one another between the check, the mutex and the fetch
\* (refreshModels, refreshBids).
THEOREM FetchesArePaced == Spec => []FetchPaced
<1>1. Init => Typed /\ FeedInv
  BY TypedInit
<1>2. Typed /\ FeedInv /\ [Next]_vars => (Typed /\ FeedInv)'
  BY TypedNext, FeedNext DEF FeedGood
<1>3. FeedInv => FetchPaced
  BY DEF FeedInv
<1>4. QED
  BY <1>1, <1>2, <1>3, PTL DEF Spec

-----------------------------------------------------------------------------
\* The name index: whatever rows the file has.

\* A row with its fields, as RowsAssumption says of a file's.
Row(m) == /\ m = [id |-> m.id, name |-> m.name, bids |-> m.bids]
          /\ m.id \in Int /\ \A b \in m.bids : b.price \in Nat

\* Rows in which an id is one row's.
Rows(R) == (\A m \in R : Row(m)) /\ \A m, x \in R : m.id = x.id => m = x

LEMMA LeastOf ==
  ASSUME NEW S \in SUBSET (Nat \ {0})
  PROVE  Least(S) \in Nat /\ (S = {} <=> Least(S) = 0)
<1>1. CASE S = {}
  BY <1>1 DEF Least
<1>2. CASE S # {}
  <2>1. Min(S) \in S
    BY <1>2, MinIsLeast
  <2> QED BY <1>2, <2>1 DEF Least
<1> QED BY <1>1, <1>2

LEMMA RowPrices ==
  ASSUME NEW m, Row(m)
  PROVE  /\ HealthyBidWei(m) \in Nat /\ LowestPrice(m) \in Nat
         /\ HealthyBidWei(m) > 0 => LowestPrice(m) = HealthyBidWei(m)
<1>1. \A h \in BOOLEAN : Prices(m, h) \subseteq Nat \ {0}
  BY DEF Row, Prices, ReadableBids
<1>2. PICK H : H = Prices(m, TRUE)
  OBVIOUS
<1>3. PICK A : A = Prices(m, FALSE)
  OBVIOUS
<1>4. H \subseteq Nat \ {0} /\ A \subseteq Nat \ {0}
  BY <1>1, <1>2, <1>3
<1>5. /\ Least(H) \in Nat /\ (H = {} <=> Least(H) = 0)
      /\ Least(A) \in Nat
  BY <1>4, LeastOf
<1>6. HealthyBidWei(m) = Least(H) /\ LowestPrice(m) = IF H # {} THEN Least(H) ELSE Least(A)
  BY <1>2, <1>3 DEF HealthyBidWei, LowestPrice
<1> QED BY <1>5, <1>6

LEMMA KeyLessMeans ==
  ASSUME NEW a1 \in Int, NEW a2 \in Int, NEW a3 \in Int, NEW b1 \in Int, NEW b2 \in Int, NEW b3 \in Int
  PROVE  KeyLess(<<a1, a2, a3>>, <<b1, b2, b3>>) <=>
           a1 < b1 \/ (a1 = b1 /\ a2 < b2) \/ (a1 = b1 /\ a2 = b2 /\ a3 < b3)
<1>1. 1 .. 3 = {1, 2, 3} /\ 1 .. 1 - 1 = {} /\ 1 .. 2 - 1 = {1} /\ 1 .. 3 - 1 = {1, 2}
  OBVIOUS
<1>2. PICK a : a = <<a1, a2, a3>>
  OBVIOUS
<1>3. PICK b : b = <<b1, b2, b3>>
  OBVIOUS
<1>4. KeyLess(a, b) <=> \/ a[1] < b[1]
                        \/ a[2] < b[2] /\ a[1] = b[1]
                        \/ a[3] < b[3] /\ a[1] = b[1] /\ a[2] = b[2]
  BY <1>1 DEF KeyLess
<1> QED BY <1>2, <1>3, <1>4

\* preferModel is the order of the rank keys: for rows with any prices it says
\* which of two rows ranks first, and of two rows with different ids exactly
\* one does, so that the winner among rows of one name does not turn on a tie
\* (preferModel, LowestBid).
THEOREM PreferenceIsRank ==
  ASSUME NEW cand, NEW cur, Row(cand), Row(cur)
  PROVE  /\ PreferModel(cand, cur) <=> KeyLess(RankKey(cand), RankKey(cur))
         /\ cand.id # cur.id => (PreferModel(cand, cur) <=> ~PreferModel(cur, cand))
<1> DEFINE ch == HealthyBidWei(cand)
           uh == HealthyBidWei(cur)
           cp == LowestPrice(cand)
           up == LowestPrice(cur)
           Rank(h, p) == IF h > 0 THEN 0 ELSE IF p > 0 THEN 1 ELSE 2
           Price(h, p) == IF h > 0 THEN h ELSE p
<1>1. /\ ch \in Nat /\ cp \in Nat /\ (ch > 0 => cp = ch) /\ cand.id \in Int
      /\ uh \in Nat /\ up \in Nat /\ (uh > 0 => up = uh) /\ cur.id \in Int
  BY RowPrices DEF Row
<1>2. /\ RankKey(cand) = <<Rank(ch, cp), Price(ch, cp), cand.id>>
      /\ RankKey(cur) = <<Rank(uh, up), Price(uh, up), cur.id>>
  BY <1>1 DEF RankKey
<1>3. /\ PreferModel(cand, cur) <=>
           IF (ch > 0) # (uh > 0) THEN ch > 0
           ELSE IF ch > 0 THEN ch < uh \/ (ch = uh /\ cand.id < cur.id)
           ELSE IF (cp > 0) # (up > 0) THEN cp > 0
           ELSE cp < up \/ (cp = up /\ cand.id < cur.id)
      /\ PreferModel(cur, cand) <=>
           IF (uh > 0) # (ch > 0) THEN uh > 0
           ELSE IF uh > 0 THEN uh < ch \/ (uh = ch /\ cur.id < cand.id)
           ELSE IF (up > 0) # (cp > 0) THEN up > 0
           ELSE up < cp \/ (up = cp /\ cur.id < cand.id)
  BY DEF PreferModel
<1> HIDE DEF ch, uh, cp, up
<1>4. KeyLess(RankKey(cand), RankKey(cur)) <=>
        \/ Rank(ch, cp) < Rank(uh, up)
        \/ Rank(ch, cp) = Rank(uh, up) /\ Price(ch, cp) < Price(uh, up)
        \/ Rank(ch, cp) = Rank(uh, up) /\ Price(ch, cp) = Price(uh, up) /\ cand.id < cur.id
  <2>1. PICK a1 \in Int, a2 \in Int : a1 = Rank(ch, cp) /\ a2 = Price(ch, cp)
    BY <1>1
  <2>2. PICK b1 \in Int, b2 \in Int : b1 = Rank(uh, up) /\ b2 = Price(uh, up)
    BY <1>1
  <2> HIDE DEF Rank, Price
  <2>3. KeyLess(<<a1, a2, cand.id>>, <<b1, b2, cur.id>>) <=>
          a1 < b1 \/ (a1 = b1 /\ a2 < b2) \/ (a1 = b1 /\ a2 = b2 /\ cand.id < cur.id)
    BY <1>1, KeyLessMeans
  <2> QED BY <1>2, <2>1, <2>2, <2>3
<1> QED BY <1>1, <1>3, <1>4

\* The preference is transitive, so the rows of one name have one winner,
\* whatever their order in the file (preferModel).
THEOREM PreferenceIsTransitive ==
  ASSUME NEW a, NEW b, NEW c, Row(a), Row(b), Row(c), PreferModel(a, b), PreferModel(b, c)
  PROVE  PreferModel(a, c)
<1>1. /\ HealthyBidWei(a) \in Nat /\ LowestPrice(a) \in Nat /\ a.id \in Int
      /\ HealthyBidWei(b) \in Nat /\ LowestPrice(b) \in Nat /\ b.id \in Int
      /\ HealthyBidWei(c) \in Nat /\ LowestPrice(c) \in Nat /\ c.id \in Int
  BY RowPrices DEF Row
<1> QED BY <1>1 DEF PreferModel

\* The pass of IndexModels exists: a longer pass extends a shorter one.
LEMMA ChosenPass ==
  ASSUME NEW rows, NEW n \in Nat
  PROVE  \E f : f = [i \in 0 .. n |-> IF i = 0 THEN <<>> ELSE Chosen(f[i - 1], rows[i])]
<1> DEFINE Passes(k, f) == f = [i \in 0 .. k |-> IF i = 0 THEN <<>> ELSE Chosen(f[i - 1], rows[i])]
           Without == {k \in Nat : ~\E f : Passes(k, f)}
<1>1. ASSUME Without # {} PROVE FALSE
  <2>1. PICK k \in Without : \A j \in Without : k <= j
    <3> HIDE DEF Without
    <3>1. Without \in SUBSET Nat
      BY DEF Without
    <3> QED BY <1>1, <3>1, MinIsLeast
  <2>2. k \in Nat /\ ~\E f : Passes(k, f)
    BY <2>1
  <2>3. CASE k = 0
    <3>1. Passes(0, [i \in 0 .. 0 |-> <<>>])
      OBVIOUS
    <3> QED BY <2>2, <2>3, <3>1
  <2>4. CASE k # 0
    <3>1. k - 1 \in Nat /\ k - 1 \notin Without
      BY <2>1, <2>2, <2>4
    <3>2. PICK f : Passes(k - 1, f)
      BY <3>1
    <3> DEFINE g == [i \in 0 .. k |-> IF i = k THEN Chosen(f[k - 1], rows[k]) ELSE f[i]]
    <3>3. \A i \in 0 .. k - 1 : f[i] = IF i = 0 THEN <<>> ELSE Chosen(f[i - 1], rows[i])
      BY <3>2
    <3>4. \A i \in 0 .. k : g[i] = IF i = 0 THEN <<>> ELSE Chosen(g[i - 1], rows[i])
      <4> SUFFICES ASSUME NEW i \in 0 .. k PROVE g[i] = IF i = 0 THEN <<>> ELSE Chosen(g[i - 1], rows[i])
        OBVIOUS
      <4>1. CASE i = k
        <5>1. k - 1 \in 0 .. k /\ g[k - 1] = f[k - 1]
          BY <3>1
        <5> QED BY <2>4, <4>1, <5>1
      <4>2. CASE i = 0
        BY <2>4, <3>1, <3>3, <4>2
      <4>3. CASE i # 0 /\ i # k
        <5>1. i \in 0 .. k - 1 /\ i - 1 \in 0 .. k /\ i - 1 # k
          BY <3>1, <4>3
        <5>2. g[i] = f[i] /\ g[i - 1] = f[i - 1]
          BY <4>3, <5>1
        <5> QED BY <3>3, <4>3, <5>1, <5>2
      <4> QED BY <4>1, <4>2, <4>3
    <3>5. Passes(k, g)
      <4>1. \E G : G = g
        OBVIOUS
      <4>2. PICK G : G = g
        BY <4>1
      <4>3. G = [i \in 0 .. k |-> G[i]] /\ \A i \in 0 .. k : G[i] = IF i = 0 THEN <<>> ELSE Chosen(G[i - 1], rows[i])
        BY <3>4, <4>2
      <4> QED BY <4>2, <4>3
    <3> QED BY <2>2, <3>5
  <2> QED BY <2>3, <2>4
<1> QED BY <1>1

LEMMA IndexPass ==
  ASSUME NEW S, NEW rows \in Seq(S)
  PROVE  \E f : /\ IndexModels(rows) = f[Len(rows)]
                /\ f[0] = <<>>
                /\ \A i \in 1 .. Len(rows) : f[i] = Chosen(f[i - 1], rows[i])
<1>1. Len(rows) \in Nat
  OBVIOUS
<1>2. PICK f : f = CHOOSE g : g = [i \in 0 .. Len(rows) |-> IF i = 0 THEN <<>> ELSE Chosen(g[i - 1], rows[i])]
  OBVIOUS
<1>3. f = [i \in 0 .. Len(rows) |-> IF i = 0 THEN <<>> ELSE Chosen(f[i - 1], rows[i])]
  BY <1>1, <1>2, ChosenPass
<1>4. IndexModels(rows) = f[Len(rows)]
  BY <1>2 DEF IndexModels
<1>5. f[0] = <<>> /\ \A i \in 1 .. Len(rows) : f[i] = Chosen(f[i - 1], rows[i])
  <2>1. \A i \in 0 .. Len(rows) : f[i] = IF i = 0 THEN <<>> ELSE Chosen(f[i - 1], rows[i])
    BY <1>3
  <2> QED BY <1>1, <2>1
<1> QED BY <1>4, <1>5

\* The same for withoutExcluded, and what it leaves are stripped rows.
LEMMA OutPass ==
  ASSUME NEW rows, NEW excluded, NEW n \in Nat
  PROVE  \E f : f = [i \in 0 .. n |-> IF i = 0 THEN <<>> ELSE Shown(f[i - 1], rows[i], excluded)]
<1> DEFINE Passes(k, f) == f = [i \in 0 .. k |-> IF i = 0 THEN <<>> ELSE Shown(f[i - 1], rows[i], excluded)]
           Without == {k \in Nat : ~\E f : Passes(k, f)}
<1>1. ASSUME Without # {} PROVE FALSE
  <2>1. PICK k \in Without : \A j \in Without : k <= j
    <3> HIDE DEF Without
    <3>1. Without \in SUBSET Nat
      BY DEF Without
    <3> QED BY <1>1, <3>1, MinIsLeast
  <2>2. k \in Nat /\ ~\E f : Passes(k, f)
    BY <2>1
  <2>3. CASE k = 0
    <3>1. Passes(0, [i \in 0 .. 0 |-> <<>>])
      OBVIOUS
    <3> QED BY <2>2, <2>3, <3>1
  <2>4. CASE k # 0
    <3>1. k - 1 \in Nat /\ k - 1 \notin Without
      <4> HIDE DEF Without
      <4> QED BY <2>1, <2>2, <2>4
    <3>2. PICK f : Passes(k - 1, f)
      BY <3>1
    <3> DEFINE g == [i \in 0 .. k |-> IF i = k THEN Shown(f[k - 1], rows[k], excluded) ELSE f[i]]
    <3>3. \A i \in 0 .. k - 1 : f[i] = IF i = 0 THEN <<>> ELSE Shown(f[i - 1], rows[i], excluded)
      BY <3>2
    <3>4. \A i \in 0 .. k : g[i] = IF i = 0 THEN <<>> ELSE Shown(g[i - 1], rows[i], excluded)
      <4> SUFFICES ASSUME NEW i \in 0 .. k PROVE g[i] = IF i = 0 THEN <<>> ELSE Shown(g[i - 1], rows[i], excluded)
        OBVIOUS
      <4>1. CASE i = k
        <5>1. k - 1 \in 0 .. k /\ g[k - 1] = f[k - 1]
          BY <3>1
        <5> QED BY <2>4, <4>1, <5>1
      <4>2. CASE i = 0
        BY <2>4, <3>1, <3>3, <4>2
      <4>3. CASE i # 0 /\ i # k
        <5>1. i \in 0 .. k - 1 /\ i - 1 \in 0 .. k /\ i - 1 # k
          BY <3>1, <4>3
        <5>2. g[i] = f[i] /\ g[i - 1] = f[i - 1]
          BY <4>3, <5>1
        <5> QED BY <3>3, <4>3, <5>1, <5>2
      <4> QED BY <4>1, <4>2, <4>3
    <3>5. Passes(k, g)
      <4>1. \E G : G = g
        OBVIOUS
      <4>2. PICK G : G = g
        BY <4>1
      <4>3. G = [i \in 0 .. k |-> G[i]] /\ \A i \in 0 .. k : G[i] = IF i = 0 THEN <<>> ELSE Shown(G[i - 1], rows[i], excluded)
        BY <3>4, <4>2
      <4> QED BY <4>2, <4>3
    <3> QED BY <2>2, <3>5
  <2> QED BY <2>3, <2>4
<1> QED BY <1>1

LEMMA StrippedRows ==
  ASSUME NEW R, Rows(R), NEW excluded
  PROVE  Rows({Stripped(m, excluded) : m \in R})
<1>1. ASSUME NEW m \in R
      PROVE  /\ Stripped(m, excluded).id = m.id
             /\ Row(Stripped(m, excluded))
  <2>1. PICK B : B = {b \in ReadableBids(m) : b.prov \notin excluded}
    OBVIOUS
  <2>2. B \subseteq m.bids
    BY <2>1 DEF ReadableBids
  <2>3. m = [id |-> m.id, name |-> m.name, bids |-> m.bids] /\ m.id \in Int /\ \A b \in m.bids : b.price \in Nat
    BY <1>1 DEF Rows, Row
  <2>4. Stripped(m, excluded) = [id |-> m.id, name |-> m.name, bids |-> B]
    <3>1. PICK a, n, c : m = [id |-> a, name |-> n, bids |-> c]
      BY <2>3
    <3>2. Stripped(m, excluded) = [m EXCEPT !.bids = B]
      BY <2>1 DEF Stripped
    <3> QED BY <3>1, <3>2
  <2> QED BY <2>2, <2>3, <2>4 DEF Row
<1> QED BY <1>1 DEF Rows

LEMMA VisibleRows ==
  ASSUME NEW R, Rows(R), NEW rows \in Seq(R), NEW excluded
  PROVE  WithoutExcluded(rows, excluded) \in Seq({Stripped(m, excluded) : m \in R})
<1> DEFINE V == {Stripped(m, excluded) : m \in R}
<1>1. Len(rows) \in Nat
  OBVIOUS
<1>2. PICK f : f = CHOOSE g : g = [i \in 0 .. Len(rows) |-> IF i = 0 THEN <<>> ELSE Shown(g[i - 1], rows[i], excluded)]
  OBVIOUS
<1>3. f = [i \in 0 .. Len(rows) |-> IF i = 0 THEN <<>> ELSE Shown(f[i - 1], rows[i], excluded)]
  BY <1>1, <1>2, OutPass
<1>4. WithoutExcluded(rows, excluded) = f[Len(rows)]
  BY <1>2 DEF WithoutExcluded
<1>5. \A i \in 0 .. Len(rows) :
        f[i] = IF i = 0 THEN <<>> ELSE Shown(f[i - 1], rows[i], excluded)
  BY <1>3
<1> DEFINE Bad == {i \in 0 .. Len(rows) : f[i] \notin Seq(V)}
<1>6. ASSUME Bad # {} PROVE FALSE
  <2>1. PICK k \in Bad : \A j \in Bad : k <= j
    <3> HIDE DEF Bad
    <3>1. Bad \in SUBSET Nat
      BY <1>1 DEF Bad
    <3> QED BY <1>6, <3>1, MinIsLeast
  <2>2. k \in 0 .. Len(rows) /\ f[k] \notin Seq(V)
    BY <2>1
  <2>3. k # 0
    <3>1. 0 \in 0 .. Len(rows)
      BY <1>1
    <3>2. f[0] = <<>>
      BY <1>5, <3>1
    <3> HIDE DEF V
    <3>3. <<>> \in Seq(V)
      OBVIOUS
    <3> QED BY <2>2, <3>2, <3>3
  <2>4. k - 1 \in 0 .. Len(rows) /\ k \in 1 .. Len(rows)
    BY <1>1, <2>2, <2>3
  <2>5. f[k - 1] \in Seq(V)
    BY <1>1, <2>1, <2>2, <2>4
  <2>6. rows[k] \in R
    BY <2>4
  <2>7. Stripped(rows[k], excluded) \in V
    BY <2>6
  <2>8. f[k] = IF Stays(rows[k], excluded) THEN Append(f[k - 1], Stripped(rows[k], excluded)) ELSE f[k - 1]
    BY <1>5, <2>2, <2>3 DEF Shown
  <2> HIDE DEF V
  <2> QED BY <2>2, <2>5, <2>7, <2>8
<1>7. Len(rows) \in 0 .. Len(rows)
  BY <1>1
<1> QED BY <1>4, <1>6, <1>7

\* What a pass over the first i rows has chosen for a name: one of them that
\* is preferred to the others.
ChosenAmong(f, rows, i) ==
    /\ DOMAIN f[i] = {rows[j].name : j \in 1 .. i}
    /\ \A n \in DOMAIN f[i] :
         /\ \E j \in 1 .. i : f[i][n] = rows[j] /\ rows[j].name = n
         /\ \A j \in 1 .. i : rows[j].name = n => rows[j] = f[i][n] \/ PreferModel(f[i][n], rows[j])

LEMMA ChosenStep ==
  ASSUME NEW R, Rows(R), NEW rows \in Seq(R), NEW f, NEW i \in 1 .. Len(rows),
         f[i] = Chosen(f[i - 1], rows[i]), ChosenAmong(f, rows, i - 1)
  PROVE  ChosenAmong(f, rows, i)
<1>1. Len(rows) \in Nat /\ i \in Nat /\ i - 1 \in Nat
  OBVIOUS
<1>2. \A j \in 1 .. i : j \in 1 .. i - 1 \/ j = i
  BY <1>1
<1>3. \A j \in 1 .. i - 1 : j \in 1 .. i
  BY <1>1
<1>4. i \in 1 .. i
  BY <1>1
<1>5. \A j \in 1 .. i : rows[j] \in R /\ Row(rows[j])
  <2>1. \A j \in 1 .. i : j \in 1 .. Len(rows)
    BY <1>1
  <2>2. \A j \in 1 .. i : rows[j] \in R
    BY <2>1
  <2> QED BY <2>2 DEF Rows
<1>6. PICK was : was = f[i - 1]
  OBVIOUS
<1>7. PICK now : now = f[i]
  OBVIOUS
<1>8. PICK m : m = rows[i]
  OBVIOUS
<1>9. /\ DOMAIN was = {rows[j].name : j \in 1 .. i - 1}
      /\ \A n \in DOMAIN was :
           /\ \E j \in 1 .. i - 1 : was[n] = rows[j] /\ rows[j].name = n
           /\ \A j \in 1 .. i - 1 : rows[j].name = n => rows[j] = was[n] \/ PreferModel(was[n], rows[j])
  BY <1>6 DEF ChosenAmong
<1>10. m \in R /\ Row(m)
  BY <1>4, <1>5, <1>8
<1>11. CASE m.name \in DOMAIN was /\ ~PreferModel(m, was[m.name])
  <2>1. now = was
    BY <1>6, <1>7, <1>8, <1>11 DEF Chosen
  <2>2. PICK k \in 1 .. i - 1 : was[m.name] = rows[k] /\ rows[k].name = m.name
    BY <1>9, <1>11
  <2>3. rows[k] \in R /\ Row(rows[k])
    BY <1>3, <1>5, <2>2
  <2>4. m = rows[k] \/ PreferModel(rows[k], m)
    <3>1. CASE m.id = rows[k].id
      BY <1>10, <2>3, <3>1 DEF Rows
    <3>2. CASE m.id # rows[k].id
      <4>1. PreferModel(m, rows[k]) <=> ~PreferModel(rows[k], m)
        BY <1>10, <2>3, <3>2, PreferenceIsRank
      <4> QED BY <1>11, <2>2, <4>1
    <3> QED BY <3>1, <3>2
  <2>5. DOMAIN now = {rows[j].name : j \in 1 .. i}
    BY <1>2, <1>3, <1>8, <1>9, <1>11, <2>1
  <2>6. ASSUME NEW n \in DOMAIN now
        PROVE  /\ \E j \in 1 .. i : now[n] = rows[j] /\ rows[j].name = n
               /\ \A j \in 1 .. i : rows[j].name = n => rows[j] = now[n] \/ PreferModel(now[n], rows[j])
    <3>1. \E j \in 1 .. i : now[n] = rows[j] /\ rows[j].name = n
      BY <1>3, <1>9, <2>1, <2>6
    <3>2. ASSUME NEW j \in 1 .. i, rows[j].name = n
          PROVE  rows[j] = now[n] \/ PreferModel(now[n], rows[j])
      <4>1. CASE j \in 1 .. i - 1
        BY <1>9, <2>1, <2>6, <3>2, <4>1
      <4>2. CASE j = i
        BY <1>8, <2>1, <2>2, <2>4, <3>2, <4>2
      <4> QED BY <1>2, <4>1, <4>2
    <3> QED BY <3>1, <3>2
  <2> QED BY <1>7, <2>5, <2>6 DEF ChosenAmong
<1>12. CASE ~(m.name \in DOMAIN was /\ ~PreferModel(m, was[m.name]))
  <2>1. now = [n \in DOMAIN was \cup {m.name} |-> IF n = m.name THEN m ELSE was[n]]
    BY <1>6, <1>7, <1>8, <1>12 DEF Chosen
  <2>2. DOMAIN now = DOMAIN was \cup {m.name} /\ now[m.name] = m
        /\ \A n \in DOMAIN was : n # m.name => now[n] = was[n]
    BY <2>1
  <2>3. DOMAIN now = {rows[j].name : j \in 1 .. i}
    BY <1>2, <1>3, <1>4, <1>8, <1>9, <2>2
  <2>4. ASSUME NEW n \in DOMAIN now
        PROVE  /\ \E j \in 1 .. i : now[n] = rows[j] /\ rows[j].name = n
               /\ \A j \in 1 .. i : rows[j].name = n => rows[j] = now[n] \/ PreferModel(now[n], rows[j])
    <3>1. CASE n # m.name
      <4>1. n \in DOMAIN was /\ now[n] = was[n]
        BY <2>2, <2>4, <3>1
      <4>2. \E j \in 1 .. i : now[n] = rows[j] /\ rows[j].name = n
        BY <1>3, <1>9, <4>1
      <4>3. ASSUME NEW j \in 1 .. i, rows[j].name = n
            PROVE  rows[j] = now[n] \/ PreferModel(now[n], rows[j])
        <5>1. j \in 1 .. i - 1
          BY <1>2, <1>8, <3>1, <4>3
        <5> QED BY <1>9, <4>1, <4>3, <5>1
      <4> QED BY <4>2, <4>3
    <3>2. CASE n = m.name
      <4>1. now[n] = rows[i] /\ rows[i].name = n
        BY <1>8, <2>2, <3>2
      <4>2. ASSUME NEW j \in 1 .. i, rows[j].name = n
            PROVE  rows[j] = now[n] \/ PreferModel(now[n], rows[j])
        <5>1. CASE j = i
          BY <4>1, <5>1
        <5>2. CASE j \in 1 .. i - 1
          <6>1. n \in DOMAIN was /\ PreferModel(m, was[n])
            BY <1>9, <1>12, <3>2, <4>2, <5>2
          <6>2. rows[j] = was[n] \/ PreferModel(was[n], rows[j])
            BY <1>9, <4>2, <5>2, <6>1
          <6>3. PICK k \in 1 .. i - 1 : was[n] = rows[k]
            BY <1>9, <6>1
          <6>4. Row(was[n]) /\ Row(rows[j])
            BY <1>3, <1>5, <6>3
          <6>5. PreferModel(m, rows[j])
            BY <1>10, <6>1, <6>2, <6>4, PreferenceIsTransitive
          <6> QED BY <1>8, <4>1, <6>5
        <5> QED BY <1>2, <5>1, <5>2
      <4> QED BY <1>4, <4>1, <4>2
    <3> QED BY <3>1, <3>2
  <2> QED BY <1>7, <2>3, <2>4 DEF ChosenAmong
<1> QED BY <1>11, <1>12

LEMMA ChosenAll ==
  ASSUME NEW R, Rows(R), NEW rows \in Seq(R), NEW f, f[0] = <<>>,
         \A i \in 1 .. Len(rows) : f[i] = Chosen(f[i - 1], rows[i])
  PROVE  ChosenAmong(f, rows, Len(rows))
<1> DEFINE Bad == {i \in 0 .. Len(rows) : ~ChosenAmong(f, rows, i)}
<1>1. Len(rows) \in Nat
  OBVIOUS
<1>2. ASSUME Bad # {} PROVE FALSE
  <2>1. PICK k \in Bad : \A j \in Bad : k <= j
    <3> HIDE DEF Bad
    <3>1. Bad \in SUBSET Nat
      BY <1>1 DEF Bad
    <3> QED BY <1>2, <3>1, MinIsLeast
  <2>2. k \in 0 .. Len(rows) /\ ~ChosenAmong(f, rows, k)
    BY <2>1
  <2>3. CASE k = 0
    <3>1. 1 .. 0 = {}
      OBVIOUS
    <3>2. ChosenAmong(f, rows, 0)
      BY <3>1 DEF ChosenAmong
    <3> QED BY <2>2, <2>3, <3>2
  <2>4. CASE k # 0
    <3>1. k \in 1 .. Len(rows) /\ k - 1 \in 0 .. Len(rows) /\ ~(k <= k - 1)
      BY <1>1, <2>2, <2>4
    <3>2. ChosenAmong(f, rows, k - 1)
      <4>1. k - 1 \notin Bad
        <5> HIDE DEF Bad
        <5> QED BY <2>1, <3>1
      <4> QED BY <3>1, <4>1
    <3>3. f[k] = Chosen(f[k - 1], rows[k])
      BY <3>1
    <3> QED BY <2>2, <3>1, <3>2, <3>3, ChosenStep
  <2> QED BY <2>3, <2>4
<1> QED BY <1>1, <1>2

\* The one row preferred to all others of its name is the best of them.
LEMMA BestIsChosen ==
  ASSUME NEW R, Rows(R), NEW S \in SUBSET R, NEW w \in S, \A x \in S : x = w \/ PreferModel(w, x)
  PROVE  BestRow(S) = w
<1>1. \A a, b \in R : /\ PreferModel(a, b) <=> KeyLess(RankKey(a), RankKey(b))
                      /\ a # b => (PreferModel(a, b) <=> ~PreferModel(b, a))
  <2> SUFFICES ASSUME NEW a \in R, NEW b \in R
               PROVE  /\ PreferModel(a, b) <=> KeyLess(RankKey(a), RankKey(b))
                      /\ a # b => (PreferModel(a, b) <=> ~PreferModel(b, a))
    OBVIOUS
  <2>1. Row(a) /\ Row(b) /\ (a # b => a.id # b.id)
    BY DEF Rows
  <2>2. PreferModel(a, b) <=> KeyLess(RankKey(a), RankKey(b))
    BY <2>1, PreferenceIsRank
  <2>3. a.id # b.id => (PreferModel(a, b) <=> ~PreferModel(b, a))
    BY <2>1, PreferenceIsRank
  <2> QED BY <2>1, <2>2, <2>3
<1> DEFINE Best(m) == \A x \in S : x = m \/ KeyLess(RankKey(m), RankKey(x))
<1>2. Best(w)
  BY <1>1
<1>3. ASSUME NEW v \in S, Best(v) PROVE v = w
  <2>1. v # w => PreferModel(v, w) /\ PreferModel(w, v)
    BY <1>1, <1>3
  <2> QED BY <1>1, <2>1
<1>4. BestRow(S) \in S /\ Best(BestRow(S))
  BY <1>2 DEF BestRow
<1> HIDE DEF Best
<1> QED BY <1>3, <1>4

LEMMA IndexOfRows ==
  ASSUME NEW R, Rows(R), NEW rows \in Seq(R)
  PROVE  /\ DOMAIN IndexModels(rows) = {m.name : m \in ToSet(rows)}
         /\ \A n \in DOMAIN IndexModels(rows) :
              IndexModels(rows)[n] = BestRow({m \in ToSet(rows) : m.name = n})
<1>1. PICK f : /\ IndexModels(rows) = f[Len(rows)]
               /\ f[0] = <<>>
               /\ \A i \in 1 .. Len(rows) : f[i] = Chosen(f[i - 1], rows[i])
  BY IndexPass
<1>2. ChosenAmong(f, rows, Len(rows))
  BY <1>1, ChosenAll
<1>3. PICK ix : ix = IndexModels(rows)
  OBVIOUS
<1>4. ToSet(rows) = {rows[j] : j \in 1 .. Len(rows)} /\ ToSet(rows) \subseteq R
  BY DEF ToSet
<1>5. /\ DOMAIN ix = {rows[j].name : j \in 1 .. Len(rows)}
      /\ \A n \in DOMAIN ix :
           /\ \E j \in 1 .. Len(rows) : ix[n] = rows[j] /\ rows[j].name = n
           /\ \A j \in 1 .. Len(rows) : rows[j].name = n => rows[j] = ix[n] \/ PreferModel(ix[n], rows[j])
  BY <1>1, <1>2, <1>3 DEF ChosenAmong
<1>6. DOMAIN ix = {m.name : m \in ToSet(rows)}
  BY <1>4, <1>5
<1>7. ASSUME NEW n \in DOMAIN ix
      PROVE  ix[n] = BestRow({m \in ToSet(rows) : m.name = n})
  <2> DEFINE S == {m \in ToSet(rows) : m.name = n}
  <2>1. S \in SUBSET R /\ ix[n] \in S
    BY <1>4, <1>5, <1>7
  <2>2. \A x \in S : x = ix[n] \/ PreferModel(ix[n], x)
    BY <1>4, <1>5, <1>7
  <2> HIDE DEF S
  <2>3. BestRow(S) = ix[n]
    BY <2>1, <2>2, BestIsChosen
  <2> QED BY <2>3 DEF S
<1> QED BY <1>3, <1>6, <1>7

\* A name resolves to the best of its visible rows, and to the best of all of
\* them if the exclusions hide every one, for any file, in any order of its
\* rows, and any exclusions (indexModels, withoutExcluded, indexLocked).
THEOREM IndexIsBest ==
  ASSUME NEW R, Rows(R), NEW rows \in Seq(R), NEW excluded, NEW n \in {m.name : m \in ToSet(rows)}
  PROVE  IndexLocked(rows, excluded)[n] = BestId(rows, excluded, n)
<1>1. PICK V : V = {Stripped(m, excluded) : m \in R}
  OBVIOUS
<1>2. PICK seen : seen = WithoutExcluded(rows, excluded)
  OBVIOUS
<1>3. Rows(V) /\ seen \in Seq(V)
  BY <1>1, <1>2, StrippedRows, VisibleRows
<1>4. PICK all : all = IndexModels(rows)
  OBVIOUS
<1>5. PICK visible : visible = IndexModels(seen)
  OBVIOUS
<1>6. DOMAIN all = {m.name : m \in ToSet(rows)} /\ \A k \in DOMAIN all : all[k] = BestRow({m \in ToSet(rows) : m.name = k})
  BY <1>4, IndexOfRows
<1>7. DOMAIN visible = {m.name : m \in ToSet(seen)}
      /\ \A k \in DOMAIN visible : visible[k] = BestRow({m \in ToSet(seen) : m.name = k})
  BY <1>3, <1>5, IndexOfRows
<1>8. IndexLocked(rows, excluded) = [k \in DOMAIN all |-> IF k \in DOMAIN visible THEN visible[k].id ELSE all[k].id]
  BY <1>2, <1>4, <1>5 DEF IndexLocked
<1>9. IndexLocked(rows, excluded)[n] = IF n \in DOMAIN visible THEN visible[n].id ELSE all[n].id
  BY <1>6, <1>8
<1>10. n \in DOMAIN visible <=> {m \in ToSet(seen) : m.name = n} # {}
  BY <1>7
<1>11. BestId(rows, excluded, n) =
         BestRow(IF {m \in ToSet(seen) : m.name = n} # {} THEN {m \in ToSet(seen) : m.name = n}
                 ELSE {m \in ToSet(rows) : m.name = n}).id
  BY <1>2 DEF BestId
<1>12. CASE n \in DOMAIN visible
  <2>1. visible[n] = BestRow({m \in ToSet(seen) : m.name = n})
    BY <1>7, <1>12
  <2> QED BY <1>9, <1>10, <1>11, <1>12, <2>1
<1>13. CASE n \notin DOMAIN visible
  <2>1. all[n] = BestRow({m \in ToSet(rows) : m.name = n})
    BY <1>6
  <2> QED BY <1>9, <1>10, <1>11, <1>13, <2>1
<1> QED BY <1>12, <1>13

-----------------------------------------------------------------------------
\* The catalog.

\* The index held is that of the file held.
NameInv == models.file # 0 => byName = IndexLocked(ModelFiles[models.file].rows, Excluded)

\* A step keeps file and index, or replaces both.
NameKept ==
    \/ models'.file = models.file /\ byName' = byName
    \/ \E i \in DOMAIN ModelFiles : models'.file = i /\ byName' = IndexLocked(ModelFiles[i].rows, Excluded)

LEMMA NameFeedStep ==
  ASSUME FeedInv, NEW c \in Callers, FeedStep(c) \/ EnsureFresh(c) \/ Answered(c)
  PROVE  NameKept
<1>1. CASE \E i \in DOMAIN ModelFiles, stampOK \in BOOLEAN : ModelsFetched(c, i, stampOK)
  <2>1. PICK i \in DOMAIN ModelFiles, stampOK \in BOOLEAN : ModelsFetched(c, i, stampOK)
    BY <1>1
  <2>2. models'.file = i /\ byName' = IndexLocked(ModelFiles[i].rows, Excluded)
    BY <2>1 DEF ModelsFetched
  <2> QED BY <2>2 DEF NameKept
<1>2. CASE ModelsFailed(c)
  <2>1. models'.file = models.file /\ byName' = byName
    BY <1>2 DEF ModelsFailed, FeedInv, FeedTypeOK, Copy
  <2> QED BY <2>1 DEF NameKept
<1>3. CASE models' = models /\ byName' = byName
  BY <1>3 DEF NameKept
<1> QED
  BY <1>1, <1>2, <1>3 DEF FeedStep, EnsureFresh, Answered, ModelsCheck, ModelsLock, BidsCheck, BidsLock, BidsFetched

LEMMA NameNext ==
  ASSUME FeedInv, [Next]_vars
  PROVE  NameKept
<1>1. CASE models' = models /\ byName' = byName
  BY <1>1 DEF NameKept
<1>2. CASE UNCHANGED feedVars
  BY <1>1, <1>2 DEF feedVars
<1>3. CASE StartAcquire \/ StartFailover
  BY <1>1, <1>3 DEF StartAcquire, StartFailover, Start, feedVars
<1>4. ASSUME NEW rows \in RatedAnswers \cup {<<>>}, RatedRead(rows) PROVE NameKept
  BY <1>1, <1>4 DEF RatedRead
<1>5. CASE Filter
  BY <1>1, <1>5 DEF Filter
<1>6. CASE RatedFails \/ Rehold \/ StakeCheck \/ StakeRead \/ NextBid \/ Post
  BY <1>2, <1>6 DEF RatedFails, Rehold, StakeCheck, StakeRead, NextBid, Post
<1>7. CASE PostOK \/ PostExisting \/ AdoptExisting \/ \E e \in OpenErrors : PostError(e)
  BY <1>2, <1>7 DEF PostOK, PostExisting, AdoptExisting, PostError
<1>8. CASE Wake \/ PollFinds \/ PollMisses \/ PollAgain \/ ContextEnds
  BY <1>2, <1>8 DEF Wake, PollFinds, PollMisses, PollAgain, ContextEnds
<1>9. CASE FeedStep(Opener)
  BY <1>9, NameFeedStep, WalkAssumption
<1>10. ASSUME NEW c \in Callers \ {Opener}, Reader(c) PROVE NameKept
  BY <1>2, <1>10, NameFeedStep DEF Reader
<1>11. CASE (\E p \in Providers : OtherCools(p)) \/ (\E b \in Bids : Mined(b)) \/ EnsureStakeInputs \/ NewDay
  BY <1>2, <1>11 DEF OtherCools, Mined, EnsureStakeInputs, NewDay
<1>12. CASE Tick
  <2>1. CASE FeedTick
    <3>1. models'.file = models.file /\ byName' = byName
      BY <2>1, OlderCopy DEF FeedTick, FeedInv, FeedTypeOK
    <3> QED BY <3>1 DEF NameKept
  <2> QED BY <1>2, <1>12, <2>1 DEF Tick
<1>13. CASE UNCHANGED vars
  BY <1>2, <1>13 DEF vars
<1> QED
  BY <1>3, <1>4, <1>5, <1>6, <1>7, <1>8, <1>9, <1>10, <1>11, <1>12, <1>13 DEF Next, OpenStep

LEMMA NameIsBest ==
  ASSUME FeedInv, NameInv
  PROVE  ResolvesBest
<1> SUFFICES ASSUME models.file # 0, NEW n \in {m.name : m \in ToSet(ModelFiles[models.file].rows)}
             PROVE  byName[n] = BestId(ModelFiles[models.file].rows, Excluded, n)
  BY DEF ResolvesBest
<1>1. models.file \in DOMAIN ModelFiles
  BY StampType DEF FeedInv, FeedTypeOK, Copy
<1>2. PICK rows : rows = ModelFiles[models.file].rows
  OBVIOUS
<1>3. rows \in Seq(ToSet(rows)) /\ Rows(ToSet(rows))
  BY <1>1, <1>2, RowsAssumption DEF Rows, Row
<1>4. IndexLocked(rows, Excluded)[n] = BestId(rows, Excluded, n)
  BY <1>2, <1>3, IndexIsBest
<1> QED BY <1>2, <1>4 DEF NameInv

\* The catalog is sound for any files, exclusions and callers: files are
\* fetched in turn and when due, and at every time a name resolves to the best
\* row of the file held (refreshModels, indexLocked, Resolve).
THEOREM CatalogIsSound == Spec => []CatalogSound
<1>1. Init => Typed /\ FeedInv /\ NameInv
  <2>1. Init => NameInv
    BY DEF Init, FeedInit, FeedLoaded, NoCopy, NameInv
  <2> QED BY <2>1, TypedInit
<1>2. Typed /\ FeedInv /\ NameInv /\ [Next]_vars => (Typed /\ FeedInv /\ NameInv)'
  <2>1. ASSUME FeedInv, NameInv, [Next]_vars PROVE NameInv'
    BY <2>1, NameNext DEF NameKept, NameInv
  <2> QED BY <2>1, TypedNext, FeedNext DEF FeedGood
<1>3. FeedInv /\ NameInv => CatalogSound
  BY NameIsBest DEF CatalogSound, FeedInv
<1> QED BY <1>1, <1>2, <1>3, PTL DEF Spec
=============================================================================
