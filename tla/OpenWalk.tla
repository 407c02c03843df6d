------------------------------ MODULE OpenWalk ------------------------------
(***************************************************************************)
(* One model's open operations in detail (internal/pool/failover.go,       *)
(* stake_limit.go, rated_shared.go): the rated bids read, the filters over *)
(* health, exclusions, cool-downs and a pending stream cut, the stake cap, *)
(* the walk bid by bid with its retries, and the reconcile of an open that *)
(* may have been sent.  An operation holds the wallet slot, so one runs at *)
(* a time; what runs beside it is the clock, other requests that cool      *)
(* providers or read the catalog, the gateway files and the chain.         *)
(*                                                                         *)
(* SessionPool models what a session goes through once it is open; here a  *)
(* session only counts as opened, found or not yet found.                  *)
(***************************************************************************)
EXTENDS HealthFeed, OpenErrors

CONSTANTS
  Opener,           \* the caller of HealthyBidIDs inside an open operation
  Providers, NoProvider,
  Bids, NoBid,
  ProvOf,           \* the provider of each bid
  RatedAnswers,     \* what the router may rate: sequences of bids
  StakeOf,          \* StakeOf[b][l]: stake of bid b at budget level l, 0: not computable
  CapWei,           \* the stake cap while it is on
  SlotHoldCap,      \* slotHoldCap
  OpenMinPostTime,  \* openMinPostTime
  ReconcileReserve, \* reconcileReserve
  ReadCallTimeout,  \* readCallTimeout
  TransientBudget,  \* transientBudget
  TransientMaxRetries, MaxWindowRetries, MaxBidAttempts, ReconcilePolls,
  ReconcileGap,     \* reconcileGap
  Cooldown,         \* the provider cool-down, 0: off
  MaxRetryAfter,    \* MaxRetryAfter
  InputsMaxAge,     \* stakeInputsMaxAge
  MaxOpens          \* bound: operations explored, by scene

ASSUME WalkAssumption ==
    /\ Opener \in Callers /\ NoProvider \notin Providers /\ NoBid \notin Bids
    /\ ProvOf \in [Bids -> Providers]
    /\ ReconcileReserve \in Nat \ {0}
    /\ RatedAnswers \subseteq Seq(Bids)
    /\ StakeOf \in [Bids -> [1 .. 2 -> Nat]] /\ CapWei \in Nat
    /\ {Cooldown, SlotHoldCap, OpenMinPostTime, MaxRetryAfter, InputsMaxAge,
        MaxWindowRetries} \subseteq Nat

VARIABLES
  op,        \* the open operation that holds the slot, IdleOp when none
  opens,     \* operations started (bound only)
  advice,    \* the last Retry-After and whom it was about: [wait, pool]
  cooling,   \* cooling[p]: what is left of p's cool-down
  cutNext,   \* cutNext: the provider that cut a stream, or NoProvider
  shared,    \* a shared rated-bids read is running
  pend,      \* pend[b]: unresolved attempts on bid b
  flight,    \* flight[b]: open transactions on b that may still be mined
  found,     \* found[b]: sessions on chain that the pool does not know yet
  held,      \* heldInputs: [lv, age, today, split]; lv 0 when nil
  level,     \* today's supply and budget, as a level
  notices,   \* the refusals kept for the Status page
  limit,     \* the stake cap setting: "off", "on", "invalid"
  rpc,       \* providedRPC
  scene,     \* what happens beside the operations (bound, fixed)
  marked,    \* providers cooled since the operation filtered its bids (history)
  owed       \* the provider that cut a stream and has not been avoided yet (history)

walletVars == <<pend, flight, found>>
stakeVars == <<held, level>>
settings == <<limit, rpc, scene>>
cutVars == <<cutNext, owed>>
coolVars == <<cooling, marked>>
walkVars == <<op, opens, advice, cooling, cutNext, shared, pend, flight, found,
              held, level, notices, limit, rpc, scene, marked, owed>>
vars == <<feedVars, walkVars>>

OpPCs == {"idle", "rated", "health", "between", "limit", "walk", "stake", "bid", "post",
          "sleep", "poll", "gap", "named"}

IdleOp == [pc |-> "idle", kind |-> "acquire", extra |-> NoProvider, rej |-> FALSE,
           cut |-> FALSE, left |-> 0, spent |-> 0, t |-> 0, back |-> "idle",
           retries |-> 0, windows |-> 0, list |-> <<>>, cands |-> {}, pool |-> {}, tried |-> {},
           skipped |-> FALSE, bid |-> NoBid, polls |-> 0,
           why |-> "none", sent |-> 0, asked |-> 0, lv |-> 0, today |-> 0]

\* list: the rated bids; cands: those that filterCandidates lets through, of
\* the providers in pool; lv: the stake inputs the operation computes with,
\* today: those of the day. The other fields are openOp's.
OpStates ==
    [pc : OpPCs, kind : {"acquire", "failover", "cut"}, extra : Providers \cup {NoProvider},
     rej : BOOLEAN, cut : BOOLEAN, left : 0 .. SlotHoldCap, spent : Nat, t : Nat,
     back : {"idle", "rated", "bid"}, retries : Nat, windows : Nat, list : Seq(Bids),
     cands : SUBSET Bids, pool : SUBSET Providers, tried : SUBSET Providers, skipped : BOOLEAN,
     bid : Bids \cup {NoBid}, polls : Nat, why : {"none", "wallet_tx_pending", "chain_congested"},
     sent : Nat, asked : 0 .. Len(BidFiles), lv : 0 .. 2, today : 0 .. 2]

NoAdvice == [wait |-> 0, pool |-> {}]
NoPair == [lv |-> 0, age |-> 0, today |-> FALSE, split |-> FALSE]

TypeOK ==
    /\ FeedTypeOK
    /\ op \in OpStates
    /\ advice \in [wait : Nat, pool : SUBSET Providers]
    /\ cooling \in [Providers -> 0 .. Cooldown] /\ marked \subseteq Providers
    /\ {cutNext, owed} \subseteq Providers \cup {NoProvider}
    /\ pend \in [Bids -> Nat] /\ flight \in [Bids -> Nat] /\ found \in [Bids -> Nat]
    /\ held \in [lv : 0 .. 2, age : 0 .. InputsMaxAge, today : BOOLEAN, split : BOOLEAN]
    /\ level \in 1 .. 2 /\ limit \in {"off", "on", "invalid"}
    /\ notices \subseteq {"stake", "chain"}
    /\ shared \in BOOLEAN /\ rpc \in BOOLEAN

\* Bound: what one behaviour explores. feeds: the gateway files age, change
\* and fail, and another caller reads them; stake: the cap is set; cools:
\* other requests cool providers and fail over; loss: opens whose outcome is
\* unknown and, with rpc, retries.
Explores(happening) == scene = happening

Init ==
    /\ scene \in DOMAIN MaxOpens
    /\ IF Explores("feeds") THEN FeedInit ELSE FeedLoaded
    /\ op = IdleOp /\ opens = 0 /\ advice = NoAdvice
    /\ cooling = [p \in Providers |-> 0]
    /\ cutNext = NoProvider /\ shared = FALSE
    /\ pend = [b \in Bids |-> 0]
    /\ flight = [b \in Bids |-> 0]
    /\ found = [b \in Bids |-> 0]
    /\ held = NoPair /\ level = 1 /\ notices = {}
    /\ limit \in IF Explores("stake") THEN {"on", "invalid"} ELSE {"off"}
    /\ rpc \in IF Explores("loss") THEN BOOLEAN ELSE {FALSE}
    /\ marked = {} /\ owed = NoProvider

-----------------------------------------------------------------------------
\* Cool-downs and their Retry-After.

Cool(p) ==
    /\ cooling' = [cooling EXCEPT ![p] = Cooldown]
    /\ advice' = NoAdvice
    /\ marked' = IF op.pc \in {"idle", "rated", "health"} THEN {} ELSE marked \cup {p}

CoolingProviders == {p \in Providers : cooling[p] > 0}

\* Mutant: the provider that cut a stream is not avoided.
AvoidedNoCut == CoolingProviders \cup ({op.extra} \ {NoProvider})

\* avoidedProviders and extraAvoid
Avoided == CoolingProviders \cup ({cutNext, op.extra} \ {NoProvider})

\* Mutant: every provider's cool-down counts, an excluded one's too.
RetryAfterAny(pool) ==
    LET L == {cooling[p] : p \in CoolingProviders}
    IN  IF pool = {} \/ L = {} THEN 0 ELSE Min(L)

\* retryAfter, clampRetryAfter: the shortest remaining cool-down of the pool,
\* capped; 0 when none is cooling.
RetryAfter(pool) ==
    LET L == {cooling[p] : p \in pool \cap CoolingProviders}
    IN  IF L = {} THEN 0 ELSE IF Min(L) > MaxRetryAfter THEN MaxRetryAfter ELSE Min(L)

-----------------------------------------------------------------------------
\* How an operation ends. Any failure to list the candidates, an exhausted
\* walk and a success consume the cut that was pending when an acquire began;
\* the other errors of the walk keep it.

Stop(why, pool) ==
    /\ op' = IdleOp
    /\ advice' = IF RetryAfter(pool) \in {0, MaxRetryAfter} THEN NoAdvice
                 ELSE [wait |-> RetryAfter(pool), pool |-> pool]

KeepCut == UNCHANGED <<cutVars>>

ClearCut ==
    IF op.kind = "acquire"
    THEN /\ cutNext' = IF op.cut THEN NoProvider ELSE cutNext
         /\ owed' = NoProvider
    ELSE UNCHANGED <<cutVars>>

Listing == op.pc \in {"rated", "health"} \/ (op.pc = "sleep" /\ op.back = "rated")

Fail(why) == Stop(why, {}) /\ (IF Listing THEN ClearCut ELSE KeepCut)

Refuse(why, pool) == Stop(why, pool) /\ ClearCut

\* openSucceeded included
Succeed == Stop("opened", {}) /\ ClearCut /\ notices' = {}

-----------------------------------------------------------------------------
\* backoff: allowed only with the operator's RPC, within the retry count, the
\* operation's budget and the slot's deadline.

CanBackoff ==
    LET d == BackoffStep(op.retries) IN
    /\ rpc
    /\ op.retries < TransientMaxRetries
    /\ op.spent + d <= TransientBudget
    /\ d <= op.left

\* o is the operation as the failed call leaves it.
BackoffOrFail(o, back) ==
    IF CanBackoff
    THEN op' = [o EXCEPT !.pc = "sleep", !.back = back, !.t = 0] /\ UNCHANGED <<advice, cutVars>>
    ELSE Fail("router_transient")

\* The jittered sleep: between half the step and the step.
Wake ==
    /\ op.pc = "sleep"
    /\ 2 * op.t >= BackoffStep(op.retries)
    /\ op' = [op EXCEPT !.pc = op.back, !.t = 0, !.retries = @ + 1]
    /\ shared' = (shared \/ op.back = "rated")
    /\ UNCHANGED <<feedVars, opens, advice, coolVars, cutVars, walletVars, stakeVars, notices, settings>>

\* The request's context ends where the code looks at it: before a read, in
\* a sleep, before a post.
ContextEnds ==
    /\ op.pc \in {"rated", "sleep", "bid", "stake", "named"}
    /\ Fail("context")
    /\ UNCHANGED <<feedVars, opens, coolVars, shared, walletVars, stakeVars, notices, settings>>

-----------------------------------------------------------------------------
\* The candidates: a shared read of the rated bids, then the filters.

\* newOpenOp and sharedRatedBids: the read already running for the model is
\* joined. A failover cools the failed provider first; one that does not
\* reopen ("cut") only wants to know whether another provider is there.
Start(kind, extra, rej) ==
    /\ op.pc = "idle"
    /\ opens < MaxOpens[scene]
    /\ opens' = opens + 1
    /\ op' = [IdleOp EXCEPT !.pc = "rated", !.kind = kind, !.extra = extra, !.rej = rej,
                            !.cut = (cutNext # NoProvider), !.left = SlotHoldCap,
                            !.asked = bids.file]
    /\ shared' = TRUE
    /\ IF extra = NoProvider THEN marked' = {} /\ UNCHANGED <<cooling, advice>> ELSE Cool(extra)
    /\ UNCHANGED <<feedVars, cutVars, walletVars, stakeVars, notices, settings>>

StartAcquire == \E rej \in {FALSE, Explores("loss")} : Start("acquire", NoProvider, rej)
StartFailover == Explores("cools") /\ \E k \in {"failover", "cut"}, p \in Providers \ Excluded :
                     Start(k, p, FALSE)

KeepWallet == UNCHANGED <<walletVars, stakeVars, notices, settings>>

AllExcluded(rows) == \A i \in DOMAIN rows : ProvOf[rows[i]] \in Excluded

\* The detached read is over; its rows go to the operation that waits.
\* Every provider excluded is told apart before health is asked.
RatedRead(rows) ==
    /\ shared
    /\ shared' = FALSE
    /\ IF op.pc # "rated" THEN UNCHANGED <<op, advice, cutVars, fpc>>
       ELSE IF AllExcluded(rows)
       THEN Refuse(IF rows = <<>> THEN "rated_unreadable" ELSE "all_excluded", {}) /\ UNCHANGED fpc
       ELSE /\ op' = [op EXCEPT !.pc = "health", !.list = rows, !.t = 0]
            /\ FGo(Opener, "models")
            /\ UNCHANGED <<advice, cutVars>>
    /\ KeepWallet
    /\ UNCHANGED <<models, byName, detail, bids, fetching, opens, coolVars>>

\* The read fails, or the operation's own wait for it is over while the read
\* goes on: rate limits and transport errors are retried.
RatedFails ==
    /\ op.pc = "rated"
    /\ \/ shared' = FALSE
       \/ (op.t = ReadCallTimeout \/ op.left = 0) /\ UNCHANGED shared
    /\ BackoffOrFail(op, "rated")
    /\ KeepWallet
    /\ UNCHANGED <<feedVars, opens, coolVars>>

\* filterCandidates once health has answered.
Healthy == ToSet(op.list) \cap HealthyBidIDs
Admitted == {b \in Healthy : ProvOf[b] \notin Excluded}
Candidates == {b \in Admitted : ProvOf[b] \notin Avoided}
Admits == {ProvOf[b] : b \in Admitted}

\* An acquire walks the candidates; a failover closes the failed session
\* first; one that does not reopen leaves the provider to the next open.
Filtered ==
    \/ /\ op.kind = "acquire"
       /\ op' = [op EXCEPT !.pc = "limit", !.cands = Candidates, !.pool = Admits]
       /\ UNCHANGED <<advice, cutVars>>
    \/ /\ op.kind = "failover"
       /\ op' = [op EXCEPT !.pc = "between", !.cands = Candidates, !.left = 0]
       /\ UNCHANGED <<advice, cutVars>>
    \/ /\ op.kind = "cut"
       /\ Stop("kept", {})
       /\ cutNext' = op.extra
       /\ owed' = op.extra

Filter ==
    /\ op.pc = "health" /\ fpc[Opener] = "ready"
    /\ FGo(Opener, "out")
    /\ IF ~HealthKnown THEN Refuse("health_unknown", {})
       ELSE IF Healthy = {} THEN Refuse("none_healthy", {})
       ELSE IF Admitted = {} THEN Refuse("healthy_all_excluded", {})
       ELSE IF Candidates = {} THEN Refuse("all_cooling", Admits)
       ELSE Filtered
    /\ marked' = {}
    /\ KeepWallet
    /\ UNCHANGED <<models, byName, detail, bids, fetching, opens, cooling, shared>>

\* A failover closes the failed session and takes the slot again: a new
\* operation walks the list the first one made.
Rehold ==
    /\ op.pc = "between"
    /\ op' = [op EXCEPT !.pc = "limit", !.left = SlotHoldCap, !.spent = 0, !.retries = 0]
    /\ KeepWallet
    /\ UNCHANGED <<feedVars, opens, advice, coolVars, cutVars, shared>>

-----------------------------------------------------------------------------
\* The stake cap.

\* Mutant: a pair read on an earlier day is used while it is young.
HeldFreshAnyDay == held.lv # 0 /\ held.age < InputsMaxAge

\* heldFresh
HeldFresh == held.lv # 0 /\ held.age < InputsMaxAge /\ held.today

\* openExcluding up to its loop, on the way to the first bid.
StakeCheck ==
    /\ op.pc = "limit"
    /\ \/ limit = "invalid" /\ Fail("stake_limit_invalid")
       \/ /\ limit = "off"
          /\ op' = [op EXCEPT !.pc = "walk"]
          /\ UNCHANGED <<advice, cutVars>>
       \/ /\ limit = "on"
          /\ op' = IF HeldFresh THEN [op EXCEPT !.pc = "walk", !.lv = held.lv,
                                          !.today = IF held.split THEN held.lv ELSE level]
                   ELSE [op EXCEPT !.pc = "stake", !.t = 0, !.today = level]
          /\ UNCHANGED <<advice, cutVars>>
    /\ KeepWallet
    /\ UNCHANGED <<feedVars, opens, coolVars, shared>>

\* ReadStakeInputs for the open: supply and budget as they were at some
\* moment of the call, stamped when it ends.
StakeRead ==
    /\ op.pc = "stake"
    /\ \/ Fail("stake_inputs_unreadable") /\ UNCHANGED held
       \/ \E lv \in {op.today, level} :
             /\ held' = [lv |-> lv, age |-> 0, today |-> TRUE, split |-> op.today # level]
             /\ op' = [op EXCEPT !.pc = "walk", !.lv = lv, !.today = lv]
             /\ UNCHANGED <<advice, cutVars>>
    /\ UNCHANGED <<feedVars, opens, coolVars, shared, walletVars, level, notices, settings>>

\* EnsureStakeInputs for the admin pages, RunStakeInputsBoot: the pair is read
\* again once it is not fresh.
EnsureStakeInputs ==
    /\ Explores("stake") /\ ~HeldFresh
    /\ \E lv \in 1 .. level :
          held' = [lv |-> lv, age |-> 0, today |-> TRUE, split |-> lv # level]
    /\ UNCHANGED <<feedVars, op, opens, advice, coolVars, cutVars, shared, walletVars, level, notices, settings>>

\* A new UTC day: the budget changes.
NewDay ==
    /\ Explores("stake") /\ level = 1
    /\ level' = 2
    /\ held' = [held EXCEPT !.today = FALSE]
    /\ UNCHANGED <<feedVars, op, opens, advice, coolVars, cutVars, shared, walletVars, notices, settings>>

\* bidStake above the cap, or not computable
OverCap(b) == limit = "on" /\ (StakeOf[b][op.lv] = 0 \/ StakeOf[b][op.lv] > CapWei)

-----------------------------------------------------------------------------
\* The walk: at most MaxBidAttempts opens, one per provider, router order.

Tryable(b) == b \in op.cands /\ ProvOf[b] \notin op.tried
Eligible == {i \in DOMAIN op.list : Tryable(op.list[i]) /\ ~OverCap(op.list[i])}

\* A row passed over because its stake is above the cap.
Skips == \E i \in DOMAIN op.list :
            Tryable(op.list[i]) /\ OverCap(op.list[i]) /\ \A j \in Eligible : i < j

\* The next bid to try: the rows before it are of a tried provider or above
\* the cap. Without one, some provider was above the cap or has failed.
NextBid ==
    LET more == Cardinality(op.tried) < MaxBidAttempts
        skipped == op.skipped \/ (more /\ Skips)
        b == op.list[Min(Eligible)]
    IN
    /\ op.pc = "walk"
    /\ IF Eligible # {} /\ more
       THEN /\ op' = [op EXCEPT !.pc = "bid", !.bid = b, !.skipped = skipped,
                                !.tried = @ \cup {ProvOf[b]}]
            /\ UNCHANGED <<advice, cutVars, notices>>
       ELSE IF skipped
       THEN Fail("stake_limit_exceeded") /\ notices' = notices \cup {"stake"}
       ELSE Refuse("walk_exhausted", op.pool) /\ UNCHANGED notices
    /\ UNCHANGED <<feedVars, opens, coolVars, shared, walletVars, stakeVars, settings>>

\* Mutant: a post starts whatever is left of the hold.
EnoughTimeAlways == TRUE

EnoughTime == op.left >= OpenMinPostTime + ReconcileReserve

\* addAttempt and the POST, if there is time for it and for a reconcile.
Post ==
    /\ op.pc = "bid"
    /\ IF EnoughTime
       THEN /\ op' = [op EXCEPT !.pc = "post", !.t = 0]
            /\ pend' = [pend EXCEPT ![op.bid] = @ + 1]
            /\ UNCHANGED <<advice, cutVars>>
       ELSE Fail("router_transient") /\ UNCHANGED pend
    /\ UNCHANGED <<feedVars, opens, coolVars, shared, flight, found, stakeVars, notices, settings>>

\* Mutant: one attempt too many is dropped.
DropAttemptUnchecked(b) == pend' = [pend EXCEPT ![b] = @ - 2]

DropAttempt(b) == pend' = [pend EXCEPT ![b] = IF @ = 0 THEN 0 ELSE @ - 1]

\* The router answers with the session's id.
PostOK ==
    /\ op.pc = "post"
    /\ DropAttempt(op.bid)
    /\ Succeed
    /\ UNCHANGED <<feedVars, opens, coolVars, shared, flight, found, stakeVars, settings>>

\* The rejectExisting refusal (409) names a live session of the model; which
\* is NoBid for one that is not on a bid the pool waits for.
PostExisting ==
    /\ op.pc = "post" /\ op.rej
    /\ DropAttempt(op.bid)
    /\ \E b \in {x \in Bids : found[x] > 0} \cup {NoBid} :
          op' = [op EXCEPT !.pc = "named", !.bid = b, !.t = 0]
    /\ UNCHANGED <<feedVars, opens, advice, coolVars, cutVars, shared, flight, found, stakeVars, notices, settings>>

\* adoptExisting, adoptable: refused when it cannot be read or used (another
\* path holds it, or its provider is excluded); else it resolves an attempt
\* it matches.
AdoptExisting ==
    /\ op.pc = "named"
    /\ \/ Fail("router_transient") /\ UNCHANGED <<pend, found, notices>>
       \/ /\ op.bid # NoBid /\ ProvOf[op.bid] \notin Excluded
          /\ found' = [found EXCEPT ![op.bid] = @ - 1]
          /\ DropAttempt(op.bid)
          /\ Stop("adopted", {}) /\ ClearCut
          /\ UNCHANGED notices
    /\ UNCHANGED <<feedVars, opens, coolVars, shared, flight, stakeVars, settings>>

\* The transaction of a post that may have been sent: on its way, on chain
\* already, or never sent.
MaybeOnChain(b) ==
    \/ flight' = [flight EXCEPT ![b] = @ + 1] /\ UNCHANGED found
    \/ found' = [found EXCEPT ![b] = @ + 1] /\ UNCHANGED flight
    \/ UNCHANGED <<flight, found>>

Class(e) == ClassifyOpenErr(e, op.t, rpc /\ op.windows < MaxWindowRetries)

\* walletFunds, transientPreSend: a definite answer, nothing was sent.
Refused(e) ==
    /\ Class(e) \in {"walletFunds", "transientPreSend"}
    /\ DropAttempt(op.bid)
    /\ IF Class(e) = "walletFunds" THEN Fail("wallet_funds") ELSE BackoffOrFail(op, "bid")
    /\ UNCHANGED <<coolVars>>

\* providerFault: the provider cools and the walk moves on.
Faulted(e) ==
    /\ Class(e) = "providerFault"
    /\ DropAttempt(op.bid)
    /\ Cool(ProvOf[op.bid])
    /\ op' = [op EXCEPT !.pc = "walk", !.bid = NoBid]
    /\ UNCHANGED <<cutVars>>

\* transientWindow: the same bid once more, while the attempt stays pending.
InWindow(e) ==
    /\ Class(e) = "transientWindow"
    /\ BackoffOrFail([op EXCEPT !.windows = @ + 1, !.sent = @ + 1], "bid")
    /\ UNCHANGED <<pend, coolVars>>

\* Mutant: an open that may have been sent is tried again.
LostTriedAgain(e) ==
    /\ Class(e) = "maybeSent"
    /\ op' = [op EXCEPT !.pc = "bid", !.sent = @ + 1]
    /\ UNCHANGED <<advice, cutVars, pend, coolVars>>

\* maybeSent: never opened again; the wallet is read for it.
Lost(e) ==
    /\ Class(e) = "maybeSent"
    /\ op' = [op EXCEPT !.pc = "poll", !.t = 0, !.polls = 1, !.sent = @ + 1,
                        !.why = ChainWaitReason(e)]
    /\ UNCHANGED <<advice, cutVars, pend, coolVars>>

PostError(e) ==
    /\ op.pc = "post" /\ ~Explores("feeds")
    /\ MayBeSent(e) => Explores("loss")
    /\ Refused(e) \/ Faulted(e) \/ InWindow(e) \/ Lost(e)
    /\ IF MayBeSent(e) THEN MaybeOnChain(op.bid) ELSE UNCHANGED <<flight, found>>
    /\ UNCHANGED <<feedVars, opens, shared, stakeVars, notices, settings>>

-----------------------------------------------------------------------------
\* reconcile: the wallet's list is read up to ReconcilePolls times.

\* matchOpen: one of the sessions listed on the bid is the result, the others
\* are known duplicates from here on. A list may miss a young session.
PollFinds ==
    /\ op.pc = "poll" /\ op.left + op.t > 0
    /\ \E k \in 1 .. found[op.bid] : found' = [found EXCEPT ![op.bid] = @ - k]
    /\ DropAttempt(op.bid)
    /\ Succeed
    /\ UNCHANGED <<feedVars, opens, coolVars, shared, flight, stakeVars, settings>>

\* No match, or the list could not be read.
PollMisses ==
    /\ op.pc = "poll"
    /\ IF op.polls < ReconcilePolls /\ op.left >= ReconcileGap + ReadCallTimeout \div 2
       THEN op' = [op EXCEPT !.pc = "gap", !.t = 0] /\ UNCHANGED <<advice, cutVars, notices>>
       ELSE /\ Fail(IF op.why = "none" THEN "router_transient" ELSE op.why)
            /\ notices' = IF op.why = "none" THEN notices ELSE notices \cup {"chain"}
    /\ UNCHANGED <<feedVars, opens, coolVars, shared, walletVars, stakeVars, settings>>

PollAgain ==
    /\ op.pc = "gap" /\ op.t = ReconcileGap
    /\ op' = [op EXCEPT !.pc = "poll", !.t = 0, !.polls = @ + 1]
    /\ UNCHANGED <<feedVars, opens, advice, coolVars, cutVars, shared, walletVars, stakeVars, notices, settings>>

-----------------------------------------------------------------------------
\* Beside the operation.

\* A forward failure of another request (MarkSessionCooling).
OtherCools(p) ==
    /\ Explores("cools")
    /\ Cool(p)
    /\ UNCHANGED <<feedVars, op, opens, cutVars, shared, walletVars, stakeVars, notices, settings>>

\* A transaction on its way is mined, or never will be.
Mined(b) ==
    /\ flight[b] > 0
    /\ flight' = [flight EXCEPT ![b] = @ - 1]
    /\ \/ found' = [found EXCEPT ![b] = @ + 1]
       \/ UNCHANGED found
    /\ UNCHANGED <<feedVars, op, opens, advice, coolVars, cutVars, shared, pend, stakeVars, notices, settings>>

\* Every router call inside the slot is bounded by its own time and by the
\* hold; a post leaves ReconcileReserve of it.
CallOver ==
    \/ op.pc \in {"rated", "stake", "named", "poll"} /\ (op.t >= ReadCallTimeout \/ op.left = 0)
    \/ op.pc = "post" /\ op.left <= ReconcileReserve
    \/ op.pc = "sleep" /\ op.t >= BackoffStep(op.retries)
    \/ op.pc = "gap" /\ op.t >= ReconcileGap
    \/ op.pc \in {"limit", "walk", "bid"}

Tick ==
    /\ ~CallOver
    /\ op' = IF op.pc \in {"idle", "between"} THEN op
             ELSE [op EXCEPT !.left = Down(@),
                             !.spent = IF @ > TransientBudget THEN @ ELSE @ + 1,
                             !.t = IF op.pc = "health" THEN 0 ELSE @ + 1]
    /\ cooling' = [p \in Providers |-> Down(cooling[p])]
    /\ held' = [held EXCEPT !.age = IF held.lv = 0 \/ @ = InputsMaxAge THEN @ ELSE @ + 1]
    /\ advice' = IF advice.wait = 0 THEN NoAdvice ELSE [advice EXCEPT !.wait = @ - 1]
    /\ IF Explores("feeds") THEN FeedTick ELSE UNCHANGED feedVars
    /\ UNCHANGED <<opens, cutVars, shared, walletVars, level, notices, settings, marked>>

OpenStep ==
    \/ \E rows \in RatedAnswers \cup {<<>>} : RatedRead(rows)
    \/ RatedFails \/ Filter \/ Rehold
    \/ StakeCheck \/ StakeRead
    \/ NextBid \/ Post \/ PostOK \/ PostExisting \/ AdoptExisting
    \/ \E e \in OpenErrors : PostError(e)
    \/ Wake \/ PollFinds \/ PollMisses \/ PollAgain
    \/ FeedStep(Opener) /\ UNCHANGED walkVars

Reader(c) ==
    /\ Explores("feeds")
    /\ EnsureFresh(c) \/ FeedStep(c) \/ Answered(c)
    /\ UNCHANGED walkVars

Next ==
    \/ StartAcquire \/ StartFailover
    \/ OpenStep \/ ContextEnds
    \/ \E c \in Callers \ {Opener} : Reader(c)
    \/ \E p \in Providers : OtherCools(p)
    \/ \E b \in Bids : Mined(b)
    \/ EnsureStakeInputs \/ NewDay
    \/ Tick

\* Calls are bounded by contexts and client timeouts, and Go's mutexes serve
\* their waiters, so what has begun goes on; nothing makes requests arrive.
Fairness ==
    /\ WF_vars(OpenStep)
    /\ WF_vars(Tick)
    /\ SF_vars((ModelsLock(Opener) \/ BidsLock(Opener)) /\ UNCHANGED walkVars)
    /\ \A c \in Callers \ {Opener} : WF_vars(FeedStep(c) /\ UNCHANGED walkVars)

Spec == Init /\ [][Next]_vars /\ Fairness

-----------------------------------------------------------------------------
\* A feed is fetched by one caller at a time, and only when the copy held has
\* outlived its TTL and no failed fetch is less than the pause ago
\* (refreshModels, refreshBids: the second look after the mutex).
FetchPaced ==
    \A c \in Callers :
      /\ fpc[c] = "modelsFetch" => fetching["models"] = c /\ Due(models)
      /\ fpc[c] = "bidsFetch" => fetching["bids"] = c /\ Due(bids)

\* A name resolves to the best row by price and health among those with an
\* admitted provider, whatever the order of the rows in the file (Resolve).
ResolvesBest ==
    models.file # 0 =>
      LET rows == ModelFiles[models.file].rows
      IN  \A n \in {m.name : m \in ToSet(rows)} : byName[n] = BestId(rows, Excluded, n)

\* The catalog: files are fetched in turn and when due, and what they say is
\* indexed right.
CatalogSound == FetchPaced /\ ResolvesBest

\* A post only names a bid that a bids file marks healthy whose stamp is not
\* below the one held when the operation began nor above the one held now;
\* the bidDetail health counts only if no bids file had been loaded.
PostedBidHealthy ==
    op.pc = "post" =>
      \/ op.asked = 0 /\ \E j \in DOMAIN ModelFiles : op.bid \in HealthyOf(DetailRows(j))
      \/ bids.file # 0 /\ \E i \in DOMAIN BidFiles :
             /\ op.bid \in HealthyOf(BidRows(i))
             /\ BidFiles[i].stamp <= BidFiles[bids.file].stamp
             /\ op.asked # 0 => BidFiles[i].stamp >= BidFiles[op.asked].stamp

\* No post goes to an excluded provider, to the one that has just failed, to
\* one that cut a stream before any open could avoid it, or to one in its
\* cool-down unless it was cooled after the bids were filtered.
PostAvoidsKnownBad ==
    op.pc = "post" =>
      LET p == ProvOf[op.bid] IN
      /\ p \notin Excluded \cup {op.extra, owed}
      /\ cooling[p] > 0 => p \in marked

\* Every filter known to the operation holds for the bid it posts.
PostAllowed == PostedBidHealthy /\ PostAvoidsKnownBad

\* While the cap is on, a post's stake is within it at the supply and budget
\* of the day (unless the pair was being read at midnight).
StakeWithinCap ==
    op.pc = "post" /\ limit = "on" => StakeOf[op.bid][op.today] \in 1 .. CapWei

\* Every open transaction that is on its way, or on chain and not yet found,
\* has an attempt of its own that a later scan will match it with.
LandedIsAwaited == \A b \in Bids : flight[b] + found[b] <= pend[b]

\* A client that waits for the advised time finds a provider out of its
\* cool-down, unless one was cooled again or the advice was capped.
AdviceHolds ==
    advice # NoAdvice /\ advice.wait = 0 => \E p \in advice.pool : cooling[p] = 0

\* One operation never has more opens of unknown outcome than one and its
\* window retry: what bounds the stake it may lock.
StakeExposure == op.sent <= 1 + MaxWindowRetries

\* An open whose answer was lost is looked for with the reserved part of the
\* hold still to go.
ReconcileHasTime ==
    op.pc = "poll" /\ op.polls = 1 /\ op.t = 0 => op.left >= ReconcileReserve

\* What opens may have sent is contained: it is bounded, it is awaited, and it
\* is looked for with time to spare.
OpensContained == TypeOK /\ LandedIsAwaited /\ StakeExposure /\ ReconcileHasTime

\* Every open operation ends, whatever the feeds, the router and the other
\* callers do.
OpenEnds == op.pc # "idle" ~> op.pc = "idle"
=============================================================================
