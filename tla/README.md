# Verification of Morpheus Uplink

Morpheus Uplink is a gateway between OpenAI-style clients and a Morpheus router.
Inference runs on *sessions*: paid, staked, time-limited contracts with a provider, opened
and closed by transactions of one wallet. Uplink pools one session per model, leases it to
requests, fails over between providers, and closes what nobody uses, so that stake comes
back. Most of what is hard in the code is in `internal/pool`: several goroutines work on
the same few sessions, every open and close takes seconds and may be cut, and the only
truth is a list read from the router that may be out of date.

Around that core are the parts that decide what is opened (catalog, health feed, stake cap),
who may administer it (lockout, sessions, second factor), and what survives a restart (state
file, audit trail, daily reclaim, boot reconcile).

This directory holds TLA+ modules for these parts, TLC configurations that check them on
small instances, and TLAPS proofs. `PROJECT.json` maps every definition to the lines it
models, and lists runs, mutants, findings, hazards and theorems.

## Inventory

| Component (source) | State | Operations | What makes it correct |
|---|---|---|---|
| Wallet slot (`pool/slot.go`) | holder, FIFO of waiters, token flags | tryAcquire, acquire, release | one hold, FIFO, no lost token, per-key cap |
| Leases (`pool/lease.go`) | `entries`, `sess` (inflight, holders, retired, closing, closeFails) | AcquireCtx, Done, Release, SweepIdle, sweepRetired, forget | exact counts, no lease on a closing session, no close under a lease |
| Scan and sweep (`pool/sweep.go`) | pending attempts, `closingIDs`, `knownDup`, last list | scan/applyScan, closeWithToken, ScanOrphans, RunSweep | retired and closed sessions stay out, cut closes are remembered |
| Opens and failover (`pool/failover.go`, `transient.go`) | retired set, cool-downs, attempts | openExcluding, reconcile, adoptExisting, FailoverCtx | at most one wallet call, one closer per session |
| Pool and admin closes (`pool/pool.go`) | model locks, `chainOpen` | Invalidate, Rehydrate, CloseSession, CloseAll(Within) | as above, whoever closes |
| Inference handler (`api/openai.go`) | one request | acquire, forward, dead session, failover, cut stream | every lease ends, every request is answered |
| Boot reconcile (`pool/reconcile.go`) | gate, plan, close cap | PlanReconcile, StartupReconcile, runCloses | nothing in use is closed, nothing opened that could be adopted, the gate opens |
| Stake limit (`pool/stake_limit.go`), shared reads (`rated_shared.go`) | limit, held inputs | filter bids, one shared read | never open above the limit, nobody waits for ever |
| Admin lockout (`adminauth/lockout.go`) | failures per address and overall | Allow, Failure, Success | lock times, eviction never unlocks |
| Admin sessions, second factor (`adminauth/*`, `api/admin_login.go`, `totp_handlers.go`, `stepup.go`) | sessions, TOTP step, recovery hashes | login, step-up, enrol, revoke | a code works once, expiry |
| Store (`store/*`) | keys, usage, settings, auth state, one file | save by rename, updates | what was acknowledged is durable, no session is billed twice |
| Audit log (`auditlog/stream.go`, `api/audit*.go`) | files, ring, aggregation windows | Append, rotate, Prune, Tail, Add, Record, Flush | every event is counted, rotation leaves no gap, noise does not hide credential events |
| Catalog and health feed (`catalog/*`) | two snapshots, index, pauses | refresh, Resolve, HealthyBidIDs | never an older snapshot, one fetch at a time |
| Housekeeping (`housekeep/*`) | day of the last good pass | Run, startup retry, RunOnce | stake off hold is withdrawn, no day is passed over |
| Process (`cmd/uplink/*`, `api/restart.go`) | restart flag, stop channel | start, drain, exec, shutdown | a stop is a stop; restarts lose nothing acknowledged |
| Settings, HTTP guards, router client, node proxy, GUI, mock router | - | I/O, parsing, display | not modelled |

Components interact by calls into the pool from request goroutines, by the two sweep loops
(`RunSweep`, and the idle sweep of `cmd/uplink/main.go`), by status polls that scan the
wallet without the slot, by the goroutines `afterStreamProviderError` starts, and by admin
closes. They share `p.mu` (all lease state), one mutex per model (held across a whole open
or failover) and the wallet slot (held across every open and close). Lock order: model
lock, then slot, then `p.mu`.

## Modules

| Module | Models |
|---|---|
| `FifoLock` | what the slot promises: one owner, served in arrival order |
| `WalletSlot` | `slot.go`, step by critical section; the select of `acquire` and the compare-and-swap of `release` are steps of their own |
| `WalletSlotProofs` | theorems about `WalletSlot` |
| `PoolState` | the `Pool` struct, its locks, the actors and their control; the type invariant |
| `PoolLeases` | taking, ending, invalidating and releasing leases; `AcquireCtx` up to its scan |
| `PoolScan` | reading and applying the list of open sessions |
| `PoolOpen` | the rest of `AcquireCtx`, the bid walk and its outcomes, reconciliation, pooling |
| `PoolClose` | `closeWithToken` and its callers, both sweeps, the status poll, admin closes |
| `PoolFailover` | `FailoverCtx` and how the handler enters it |
| `SessionPool` | the chain and the clock, `Next`, fairness, the properties |
| `SessionLifecycle` | the state diagram at the head of `lease.go` |
| `SessionPoolProofs`, `PoolStepProofs`, `PoolLeaseProofs` | theorems about `SessionPool`: in every world; the steps by kind; the leases and the life of a session |
| `CatalogIndex` | the name index of the models file, as operators |
| `HealthFeed` | the two gateway files: check, mutex, fetch, result, as separate steps of each caller |
| `OpenErrors` | the classes of open errors, as operators |
| `OpenWalk` | one model's open operations bid by bid, over `HealthFeed` and `OpenErrors` |
| `OpenWalkProofs` | theorems about `OpenWalk`, `HealthFeed` and the ranking of `CatalogIndex` |
| `Lockout` | failure counters, locks, eviction |
| `AdminSessions` | the session table with its cap and expiries |
| `AdminAuth` | login, step-up and second factor over `Lockout`, `AdminSessions` and the stored auth state |
| `LockoutProofs`, `AdminAuthProofs` | lemmas about the lockout's operators; theorems about `AdminAuth` |
| `StateStore` | the state file: keys, settings, who opened a session, credited time |
| `BootReconcile` | the boot reconcile beside requests, both sweeps, poll and admin closes, over `StateStore` |
| `AuditTrail` | ring, aggregation and rotating files |
| `Housekeep` | the daily reclaim |
| `Uplink` | the process: it composes the four modules above and starts, dies, restarts and stops over them |
| `UplinkProofs` | theorems about `Uplink` and the modules it composes |
| `MCWalletSlot`, `MCSessionPool`, `MCOpenWalk`, `MCAdminAuth`, `MCUplink` | instances for TLC |

`PoolState` to `SessionPool` are one specification in chapters, each extending the one
before; mutants (definitions commented "Mutant") stand before the definition they alter.

### How the pool's state corresponds to the code

- `entry`, `sess`, `mark`, `retired`, `dup`, `att`, `shown` are `p.entries`, `p.sess`,
  `p.closingIDs`, `p.retired`, `p.knownDup`, `p.pending` and `p.chainOpen`. A mark is
  `now` at the zero time (a close call under way), `cut` until `routerCloseMaxLife` is
  over, then `lapsed` until a scan or a sweep removes it. `att[x]` is the set of sessions
  that the attempt which opens `x` can be matched to (model, bid, and opened not earlier
  than `attemptSkew` before it).
- Every goroutine is an actor with `pc`, `at` (its session), `how` (why it is there),
  `flag` (`rejectExisting`, then `resumed`), `from` (`failedID`), `seen` (the list a scan
  has read) and `todo` (targets of an admin close).
- A step is one critical section under `p.mu`, one wait for a lock, or one router call.
  Sections that follow each other with nothing observable in between are one step
  (`retire` and `retireForFailover`; the two maps of `CloseSession`; the `retire` after the
  unlock in `Release` and `sweepRetired`; the reports of late closes after `applyScan`).
- `chain`, `age` and `closeSent` are external: what is on chain, how old a session is
  against `pruneGrace` and `expiryBuffer`, and which closes the router may still carry out.

Abstractions. Time is the age of a session. The idle grace may be over at any time. The
order of close-due sessions, `pickOne` and the choice of a bid are nondeterministic, and so
is the outcome of an open (`OpenWalk` takes it apart). The skip counters that force a sweep
into the queue are its fairness (`BootReconcile` models them). The boot gate is open. Shared-wallet warnings and the pruning of `retired` are
left out. A bid is one provider's. `closeFails` stops at `MaxCloseRetries`.
`Enabled` says which happenings of the environment an instance explores.

### Opens (`OpenWalk`)

The wallet slot lets one open operation run at a time, so `op` is one record: `left` is the
rest of `slotHoldCap`, `spent` the transient time, `list` the rated rows as read, `cands` the
candidates left to try. Beside it run
the clock, other callers of the catalog, other requests that cool providers, the gateway
files and the chain. `pend`, `flight` and `found` count, per bid, attempts the pool awaits,
transactions that may still be mined, and sessions on chain nobody has found. A *scene*
(fixed at the start) says what happens beside the operation: `feeds` (files age, change,
fail and roll back), `stake` (cap, midnight), `cools` (cool-downs and stream cuts), `loss`
(posts whose answer is lost). An error is its sender, stage and marker, and
`ClassifyOpenErr` is the code's decision over them.

### Admin access (`AdminAuth`)

Each handler is split where the code leaves a lock: admission (`Allow`), the password and the
read of the stored state, consumption of the code (inside the store lock, where the save may
fail), and the end (session created or all revoked). Admission takes the session lookup, the
enrolment gate and the lockout in one step: what another request changes between them it can
as well change right after, since a handler does not look at its session again before its
end. Codes are records of secret and step, so
a replay is two acceptances of one record. Scenes: `lock` (wrong passwords from two
addresses over a table of one), `bearer`, `factor` (enrol, confirm, remove, reset, recovery,
step-up, restarts with and without `UPLINK_RESET_2FA`), `cap` (more sessions than fit).

### The process (`Uplink`)

A restart keeps the chain, the files and the calendar, and takes all memory (`StartAgain`);
a crash may come at any step. The pool is reduced to what the boot meets: an entry per
model, closing marks, pending attempts, the line for the slot and one close or scan per
step; `SessionPool` has these in full. Scenes: `sessions`, `keys`, `audit` (aggregation,
sound files), `files` (failing files, plain events), `reclaim`. The scene `sessions` runs in
six *worlds* that fix the left-over sessions, their models and providers, and which optional
actors take part. `told`, `shaky`, `unseen`, `looked`, `owed`, `wrote`, `newest`, `heard` are
history variables; no action reads them.

## Runs

| Run | Instance | Checks |
|---|---|---|
| `wallet_slot` | 3 requests of one key, the sweep, cap 2, 5 calls, fair | mutual exclusion, no lost token, exact queue, key cap, refinement of `FifoLock`, the queue moves |
| `pool_leases` | 2 requests (2 keys), 2 sessions, releases, idle sweep, ends | type, exact in-flight counts, closed and retired sessions stay out |
| `pool_failover` | 2 requests, 1 background goroutine, 2 providers, sweep | refinement of `SessionLifecycle` |
| `pool_lost` | 2 requests, 2 sessions, lost answers, idle sweep | no close under a lease, entries servable, leases only on servable sessions |
| `pool_outside` | 1 request, 1 session, failover, lost answers, closes elsewhere, dead sessions, idle, a poll, an admin | no stuck closing, one wallet call at a time, no phantom use |
| `pool_live` | 2 requests, 1 session, release and failover, fair | requests settle, retired sessions are closed |
| `open_walk` | 3 bids of 3 providers (1 excluded), 2 models files, 3 bids files, an opener and a reader, 4 scenes, fair | no post breaks a filter that was known, the cap holds over midnight, every transaction stays awaited, retry advice holds, stake at risk is bounded, every open ends |
| `admin_auth` | 2 requests, 2 addresses, table of 1, cap of 2 sessions, 4 scenes, failing saves, restarts, fair | codes work once, sessions follow the factor, memory is durable, guesses are bounded, locks are not forgotten and end |
| `uplink_process` | 3 sessions, 2 models, 1 request, 6 worlds, 2 keys, 3 files, 4 events, 2 starts, 5 scenes, fair | adoption before opening, boot closes spare leases, marks are cleared, keys billed once, told is durable, audit complete and in order, days not skipped, stop honoured, expired sessions closed, requests answered, stake reclaimed |

Some properties are conjunctions of named parts, one idea each, and every part has a mutant:
`LeasesExact`, `CatalogSound` (fetches in turn, names resolve to the best row), `PostAllowed`
(health and provider filters), `OpensContained` (attempts awaited, exposure bounded, time to
reconcile), `FactorSound` (codes once, memory as the file), `StoreSound` (keys billed once,
told is durable), `AuditSound` (events accounted, newest protected event shown, files without
a gap) and `ProcessSound` (boot marks given back, stops honoured). The type
invariants of the modules are parts of these.

Bounds. Sessions are never reused, so two sessions let an open follow a close, a duplicate
appear and a retired session meet its replacement; with two requests one of them can act at
every point of the other's open or failover. One close retry (`MaxCloseRetries = 1`) reaches
both "tries left" and "none left". Sessions are symmetric where all have one bid. The slot
needs three callers of one key to pass a cap of two, and a fourth that is exempt.
`open_walk`: three bids let a walk skip, fail on and reach a bid; a hold of 4 is exhausted
between two posts; three bids files give a newer, an older and an unusable one. `admin_auth`:
two addresses over a table of one evict; `MaxLock` 2 shows doubling and the cap; steps up to
3 hold the previous, current and next code. `uplink_process`: a boot cap of one close defers
the second; three files let a middle rename fail; two keys over one group per kind fill the
overflow group; two rounds show a first and a later withdrawal; two starts show one restart
at every point. A bound on failing passes (`MaxFails`) stands for "not failing for ever".

Fairness. `WalletSlot`: callers release, receive what was handed to them and finish what
they began (every caller defers its release, and `slotHoldCap` bounds each call); nobody
has to give up. `SessionPool`: an actor that has begun goes on (calls have deadlines, the
model lock is a `sync.Mutex`, the slot is FIFO); the bid walk is finite; a sweep gets the
slot again and again (it queues after `sweepMaxSkips` busy ticks); the router eventually
lists, and closes, if asked again and again; time passes. `OpenWalk`: an operation's calls
end (client timeouts and contexts), time passes, and a caller that waits for the catalog's
mutex gets it (`sync.Mutex` does not starve). `AdminAuth`: handlers go on, time passes.
`Uplink`: the boot's attempts go on up to the gate's deadline (past it they may
fail for ever); requests, loops and the reclaim's rounds go on, and no request is passed over
for ever at its model's lock (`sync.Mutex` again); marks lapse with time;
a tick of the reclaim comes on some day after the morning (there is one every 15 minutes);
a sweep that again and again finds a session at its end gets a close through. Nothing makes
requests arrive, admins act or the process live. `ExpiredClosed` and `RequestEnds` excuse a
process that is not up. They are written with `[]<>`, which says the same as "leads to" for a
condition that ends by becoming false.

Deadlock is not checked in the last three runs: bounded operations may be used up, and a
process may be down.

### Where code and comments disagree

- `pool_dead_session`: `Invalidate` acts on the model and not on the session the caller
  found dead, so a second request drops the healthy replacement of the first, which the
  sweep then closes as a duplicate in the middle of a call.
- `pool_poll_adopts`: a status poll may adopt the session of an open that is still waiting
  for its answer (its own attempt matches, however young the session is);
  `poolOpenedLocked` then replaces a lease state that already counts another request.
- `pool_retired_back`: a pending attempt of the same bid is matched before the retired set
  is looked at, so a retired session can come back into the pool.

Two more races of the same family are in the model and keep `LeaseOnServable` and
`ClosedStaysOut` out of `pool_outside`: `failoverOpen` gives the slot back before the session
is pooled, so an admin close may fall in between; and a scan without the slot may apply a
list read before an admin's close was answered. Also, `applyScan` takes a cut close for
done when the session is missing from the list, though a list may lag behind a session less
than `pruneGrace` old (the idle grace may be 60 s); with lost answers `pool_lost` therefore
does not check `ClosedStaysOut`, `RetiredStaysOut` or the life cycle.

Observations of the other models, each visible as an exception in a property:

- Opens. `HealthyBidIDs` is called inside a slot hold but is bounded only by the catalog's
  client timeouts, not by the hold's deadline. The answer "none tried" at the end of
  `openExcluding` cannot be reached with a non-empty list.
- Admin. A password-only login that read the auth state before an enrolment was confirmed
  creates its session after `RevokeAll`; `SessionsFollowFactor` counts a session from its
  creation and does not cover this race. The failure that trips the overall lock locks no
  address. Eviction takes the oldest session though a younger one may be idle-expired.
  A table full of locked addresses grows past its cap rather than forget a lock. Restarts
  forget all locks.
- Boot. A scan judges sessions by an entry it drops in the same pass, so after the close of
  an entry was cut an older usable session counts as a duplicate and a new one is opened; and
  a session that requests use and the entry has lost to another is not taken back by a scan
  (the exceptions in `NoNeedlessOpen`). A late boot pass does not look at leases when it
  closes an expired session. `closeWithToken` lifts the closing mark of a session when its
  call fails, also a mark the boot has set and still relies on (`reconcile.go`: "so no scan
  adopts them"): if an admin's or a shutdown's close of it fails while the boot's waits, a
  scan may adopt the session and a request lease it before the boot closes it (both are
  exceptions in `BootSparesLeases`).
- Store. A `RevokeKey` whose save failed is acknowledged when asked again, without a write:
  a restart revives the key (`shaky`). A failed `AddKey` stays in memory and is written by
  the next save. A session closed before its open is tracked leaves a record behind; a close
  reported twice is credited a second time, to the unknown key.
- Audit. Half a line spoils the next. Repeatable lines may crowd older protected events out
  of the lines a boot loads (`NewestProtectedShown` counts what the boot found). Summaries
  of open windows are lost with the memory, and on a plain shutdown also those of ended
  windows not yet flushed; only the restart path flushes.
- Reclaim. A pass of the console's button that runs across midnight marks the new day
  without having looked at it (the exception in `DayNotSkipped`); that day's stake is
  withdrawn a day later.
- Process. A stop signal between the end of the drain and `exec` is lost with the process
  image (`StopHonoured` is about signals before the end of the drain).

## Proofs

Every theorem is for all values of the constants that satisfy the named assumptions of the
modules, which say that sets of names are disjoint, that markers such as `NoOne`, `NoState`
and `Nobody` are none of the things they stand in for, and that bounds are naturals. Every
run evaluates the assumptions of its modules.

### Wallet slot (`WalletSlotProofs`)

For every set of callers and keys, every key assignment, cap and number of calls: type
correctness, mutual exclusion, that no token is lost, that the queue is exactly the callers
waiting without a token, that no key queues more than its cap (`SlotKeyCap`), and that
`WalletSlot` implements `FifoLock`.

None of the properties is inductive alone. `IInv` joins them with `NoWaiterBeforeFreeSlot`
and `TokensTracked`: the holder's token is in one place, a channel or a caller's hand, it is
live until that caller's compare-and-swap, and it stays the holder until the caller takes
`s.mu`; so a hand-over finds no live token left. With that, the two racing paths are settled: a give-up that finds a token in its channel holds
the slot's token and passes it on, and a second release finds its token no longer live.
The cap needs `IInv` only for types: a step leaves the queue alone, appends a caller below
its key's cap, or removes one place (`QueueSteps`), and `PlacesAfterAppend` and
`PlacesAfterRemoveAt` say what that does to a key's places. It rests on `NoKey` being no key,
as the empty key is in the code. The proof has a lemma per action; refinement maps the owner to `holder.by` and the queue to
`waiters`.

### Pool in every world (`SessionPoolProofs`)

With any requests, models, sessions, sweeps, polls, admins and happenings, and without
further hypotheses: the pool is typed (`PoolTypeCorrect`), one wallet call is under way at a
time (`WalletCallsAlone`), no session is stuck in closing (`ClosesHaveOwners`) and no use is
counted that nobody makes (`UseIsReal`). The invariant is `Typed` (with `Placed`: a goroutine
that works on a session has one) and `PoolInv`. Its core is `SlotHeld`, which names, per
program counter, who holds the slot; that a mark or a closing flag has its goroutine
(`Owned`) then follows step by step, because nobody but the holder can clear it.

### Leases (`PoolStepProofs`, `PoolLeaseProofs`)

Exact counts (`LeasesAreExact`), no close under a lease (`ClosesAreUnused`), servable entries
(`EntriesServe`) and servable leases (`LeasesLandServable`) are proved under `Calm`: no
status poll, no admin, no dead sessions, and no lost answers where failovers are. Releases,
the idle sweep, the orphan sweep, failovers with cut streams, session ends, closes by others,
and (without failover) lost answers are in. `Calm` is not convenience; in each of the worlds
it leaves out the code breaks one of these properties. Polls and dead sessions do so in
`pool_poll_adopts` and `pool_dead_session`; an admin closes sessions that requests use; and
with lost answers a failover may find its session on chain, give the slot back and lease it
while the orphan sweep already closes it (TLC shows it on the instance of `pool_lost`
with `failover` in `Enabled`).
`RetiredIsOut` needs also that no answer is lost (`pool_retired_back` shows why);
`ClosedIsOut` and `FollowsTheLifecycle`, the refinement of `SessionLifecycle`, need also that
nobody else closes sessions (`"gone"` not enabled): the pool learns of such a close only from
its next list.

The argument. A lease is exact only if no state is forgotten while a request uses it, which
depends on who may close and when, which depends on what is in the pool and what is being
opened. `LeaseInv` says all of it:

- `ControlInv`: which lock and which reason a goroutine has at each step;
- `BornInv`, `ModelInv`: nothing is known before it is on chain, and everything is of its model;
- `SureInv`: without lost answers nothing is pending but the open under way;
- `EntryInv`: what the pool holds is tracked, not closing, and not marked while it is usable;
- `FreshInv`: a session being opened is known to nobody else;
- `CloserInv`: no mark, no close and no closing flag is on a session in use, and a flagged
  session has one closer;
- `InflightExact`, the property itself.

`PoolStepProofs` first shows that every action is one of eighteen kinds of step, each given
by what it does to the pool (`StepKinds`); `PoolLeaseProofs` then proves each part once per
kind. For the closed sessions `OpenInv` adds that a close the router may still carry out has
its caller waiting and its mark standing, so that what a scan has listed or a request has
opened is still open when it is pooled. The refinement is a lemma per kind (`Lives...`): for
every session the step is a step of its life or leaves it alone. The parts of these invariants
were first checked by TLC on the instances of `pool_leases` and `pool_failover`.

### Opens (`OpenWalkProofs`)

For any bids, providers, gateway files, stakes and bounds: every transaction stays awaited,
the unresolved opens are bounded and a reconcile has its time (`OpensAreContained`); nothing
is opened above the cap of the day (`StakeIsCapped`); retry advice outlasts a cool-down it is
about (`AdviceIsKept`); no post breaks a filter that was known (`PostsAreAllowed`); fetches
are paced and one at a time (`FetchesArePaced`), and names resolve to their best rows
(`CatalogIsSound`). `ContainInv` counts transactions in flight
and found against attempts, strictly while a post is out; `StakeInv` ties the pair an
operation computes with to the day; `AdviceInv` to the cool-downs; `BidInv` carries the
filters from the choice of candidates to the post.

`IndexIsBest` is about the operators: for any rows and exclusions the pass of `indexModels`
over what `withoutExcluded` leaves chooses the row the reference ranks best, wherever the file
lists it; a name whose every row is hidden resolves to its feed choice. It rests on the order
being total (`PreferenceIsRank`, `PreferenceIsTransitive`). Both passes are recursive functions
of a row's place; that they are defined, and what holds of each prefix, is shown from the
first place at which it would fail. `NameInv` then says that `byName` is the index of the
loaded file whenever there is one, which every fetch preserves. `RowsAssumption`: the
rows of a file are finite sequences, prices are naturals, and two rows with one id are one
row, since ids are the models' ids on chain. Ids are numbered in the order of their strings.
The bids of a row are a set: nothing in the code depends on their order.

### Admin access (`LockoutProofs`, `AdminAuthProofs`)

For any requests, addresses, codes and bounds: no code is accepted twice and memory is what
a restart would read (`FactorIsSound`), an enrolment survives boots with `UPLINK_RESET_2FA`
left set (`EnrolmentSurvives`), sessions follow the factor (`SessionsFollow`), guesses are
bounded (`GuessesAreBounded`) and eviction never ends a lock (`LocksHold`). `FactorInv` adds
that neither memory nor file would accept again what was accepted, and that a wipe is marked;
`BudgetInv` bounds failures together with the requests admitted and not yet judged.

### The process (`UplinkProofs`)

For any sessions, worlds, requests, keys, scenes and bounds, over crashes, restarts in place
and stops:

- `StoreIsSound`: `StoreInv` adds to the property that memory is never behind the file for a
  key (`FileBehind`: without it a restart could bring back an older state than the one told)
  and `TrackInv`: a session not yet on chain, or opened and not yet tracked, has neither
  opener nor credit in memory and file, and one request at most is about to track it. That
  is what makes the one opener unique; it depends on `BootInv`, because only the head of the
  line posts.
- `ProcessIsSound`: `TodoInv` says that a mark without expiry is on the boot's list of closes
  and that the list has no session twice, so that taking the head off it leaves no mark
  behind. `StopInv` says that a signal heard is in its channel or has cancelled the restart.
- `NoOpenIsNeedless`: its first half is `SeenInv` (what no list has shown by the time one was
  read is closed) with `GateInv` (nobody stands in the line behind a closed gate); its second
  is about one `applyScan`: if a session can be adopted, the pool it leaves serves the model
  (`PickOneIsTop`: in a finite set of sessions there is a best one).
- `BootClosesSpareLeases`: `LeaseInv`, that a session marked by the boot is in use only at
  its end. A pass in time marks while the gate is closed and nobody has a lease (`GateInv`);
  a late pass marks only sessions at their end and sessions of excluded providers, which are
  never pooled.
- `NoDayIsSkipped`: `HouseInv`, that a pass that draws today has read today.
- `EventsAreAccounted`: `TrailInv` adds the types of windows and lines. A flush splits the
  queue into windows that end with repeats, windows that stay and windows that held nothing
  back (`HeldSplit`), and the lines it makes carry the sum of the first (`FlushKeeps`); a
  record adds one event in a line or in a window, the sink moves one line's events.

`BootInv` joins the parts about the pool with its types; its lemmas go action by action. The
assumptions: session numbers are naturals and finitely many (a wallet's list is finite; the
numbers stand for the order of ends), the sweep is not a request, there are keys and
settings values, and in a world every session has a model and opened sessions are not of an
excluded provider, which `filterCandidates` ensures (`PostsAreAllowed`).

Two theorems are about operators, for any argument: `AddKeepsProtected` and
`RecentShowsProtected` show that the ring keeps, and the audit page shows, the newest
protected event however many others there are.

### What only TLC checks

- All liveness: `RequestSettles`, `RetiredIsClosed`, and those of the slot, the opens, admin
  access and the process.
- `AuditSound` but for its accounts: that the files are a suffix of what was written over
  failing renames, and that the ring a boot rebuilds shows the newest protected event. Files
  are read with folds and selections, and the boot sorts, with operators the provers cannot
  expand. Proved are `EventsAreAccounted` and the ring's own operators.
- The properties of the pool outside the worlds named above, as far as they hold there.

## Not modelled

- Router client, node proxy, GUI, mock router, key maker, on-hold reader, HTTP guards and
  views: I/O, formats and display without a state that several steps share. What their calls
  may return is the environment of the models.
- Settings and configuration: parsing, tables and one-time conversions; the update of the
  settings in the state file is an action of `StateStore`.
- Inside modelled parts: the age that makes a sweep queue before its skip counter does, and
  slot queue time-outs of the boot's world; the attempt table's cap of 32 and the age at which an attempt is pruned
  (`attemptKeep`, `stuckKeep`); usage token
  counts, `PruneUsageOlderThan`, the migration of `SessionTimeMode` and orphan temporary
  files; symbolic-link checks, a rotation in which the removal of the last file fails, the
  aggregators' overall limit and the order of two goroutines between an aggregator's lock
  and the sink; the boot's second write of the password fingerprint. A save fails before its
  rename or not at all. A file's own time stands in for a last line that cannot be read.
- In `BootReconcile`: sessions outside a world's `ages` are old from the start, so lists do
  not lag behind them; the record of who opened a session is kept in one world only; a
  session adopted by the boot's plan has no lease state until its first lease, which makes
  its pruning one scan later at most; an admin close's rescan is a status poll.

## Plan

1. Done: the slot with its proofs; the pool with leases, scan, opens, closes, failover and
   admin closes; opens bid by bid over catalog and health feed; admin access; the process
   with boot reconcile, store, audit and reclaim.
2. Done: proofs of the pool in every world, of the leases and the refinement in calm worlds,
   of opens and of admin access; of the store, the boot, the reclaim and the process.
   Last, of the name index and of the accounts of the audit trail.
3. Open: the rest of `AuditSound` (rotation and the ring after a boot); liveness stays with
   TLC.
