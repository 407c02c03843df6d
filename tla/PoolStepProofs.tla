--------------------------- MODULE PoolStepProofs ---------------------------
(***************************************************************************)
(* The steps of the pool, by kind. The inductive invariant of the leases is *)
(* stated here; that every action is one of a few kinds of steps lets      *)
(* PoolLeaseProofs prove each part of it once per kind.                    *)
(***************************************************************************)
EXTENDS SessionPoolProofs

\* A world without status poll, admin closes and dead sessions, and without
\* lost answers where failovers are. In each of the others a part of the
\* invariant below is broken: the poll and Invalidate by the races that the
\* runs pool_poll_adopts and pool_dead_session find, an admin by closing under
\* leases, a lost answer by a sweep that closes what a failover's open has just
\* found and not yet pooled (failoverOpen gives the slot back first).
Calm == /\ Pollers = {} /\ Admins = {}
        /\ "dead" \notin Enabled
        /\ "lost" \notin Enabled \/ "failover" \notin Enabled

\* What an actor's step leaves to the others.
OthersKeep(a) ==
    /\ \A b \in Actors \ {a} :
         /\ pc'[b] = pc[b] /\ at'[b] = at[b] /\ how'[b] = how[b]
         /\ flag'[b] = flag[b] /\ from'[b] = from[b] /\ seen'[b] = seen[b]
         /\ slot = b => slot' = b
         /\ \A m \in Models : lock[m] = b => lock'[m] = b

\* It writes its own fields, gives its locks back or takes free ones.
OwnOnly(a) ==
    /\ flag' = flag \/ \E v : flag' = [flag EXCEPT ![a] = v]
    /\ from' = from \/ \E v : from' = [from EXCEPT ![a] = v]
    /\ seen' = seen \/ \E v : seen' = [seen EXCEPT ![a] = v]
    /\ slot' = slot \/ slot' = Free(a) \/ slot = NoOne
    /\ \/ lock' = lock \/ lock' = Unlock(a)
       \/ \E m \in Models : lock[m] = NoOne /\ lock' = [lock EXCEPT ![m] = a]

\* A step that writes its own fields leaves the others alone.
LEMMA GoKeeps ==
    ASSUME Typed, NEW a \in Actors, NEW p, NEW s, NEW h, Go(a, p, s, h), OwnOnly(a)
    PROVE  OthersKeep(a) /\ pc'[a] = p /\ at'[a] = s /\ how'[a] = h
<1>1. pc'[a] = p /\ at'[a] = s /\ how'[a] = h
  BY DEF Go, Typed, TypeOK
<1>2. SUFFICES ASSUME NEW b \in Actors \ {a} PROVE
         /\ pc'[b] = pc[b] /\ at'[b] = at[b] /\ how'[b] = how[b]
         /\ flag'[b] = flag[b] /\ from'[b] = from[b] /\ seen'[b] = seen[b]
         /\ slot = b => slot' = b
         /\ \A m \in Models : lock[m] = b => lock'[m] = b
  BY <1>1 DEF OthersKeep
<1>3. pc'[b] = pc[b] /\ at'[b] = at[b] /\ how'[b] = how[b]
  BY DEF Go, Typed, TypeOK
<1>4. flag'[b] = flag[b] /\ from'[b] = from[b] /\ seen'[b] = seen[b]
  BY DEF Typed, TypeOK, OwnOnly
<1>5. slot = b => slot' = b
  BY ActorsAssumption DEF Free, OwnOnly
<1>6. \A m \in Models : lock[m] = b => lock'[m] = b
  BY ActorsAssumption DEF OwnOnly, Unlock, Typed, TypeOK
<1> QED
  BY <1>3, <1>4, <1>5, <1>6

\* The handler returns.
LEMMA EndKeeps ==
    ASSUME Typed, NEW a \in Actors, End(a)
    PROVE  /\ OthersKeep(a) /\ pc'[a] = "rest" /\ at'[a] = NoSession /\ how'[a] = "none"
           /\ ~flag'[a] /\ from'[a] = NoSession /\ seen'[a] = NoList
<1>1. ~flag'[a] /\ from'[a] = NoSession /\ seen'[a] = NoList
  BY DEF End, Typed, TypeOK
<1>2. Go(a, "rest", NoSession, "none") /\ OwnOnly(a)
  BY DEF End, FreeAll, OwnOnly
<1> QED
  BY <1>1, <1>2, GoKeeps

\* A lease is taken.
LEMMA LeaseKeeps ==
    ASSUME Typed, NEW r \in Requests, NEW s, NEW st, Lease(r, s, st)
    PROVE  /\ OthersKeep(r) /\ pc'[r] = "using" /\ at'[r] = s /\ how'[r] = "none"
           /\ ~flag'[r] /\ from'[r] = NoSession /\ seen'[r] = NoList
<1>0. r \in Actors
  BY DEF Actors
<1>1. ~flag'[r] /\ from'[r] = NoSession /\ seen'[r] = NoList
  BY <1>0 DEF Lease, Typed, TypeOK
<1>2. Go(r, "using", s, "none") /\ OwnOnly(r)
  BY DEF Lease, FreeAll, OwnOnly
<1> QED
  BY <1>0, <1>1, <1>2, GoKeeps

\* A step that keeps the flag and the failed session.
LEMMA StepKeeps ==
    ASSUME Typed, NEW a \in Actors, NEW p, NEW s, NEW h, Go(a, p, s, h), KeepFlag,
           seen' = seen \/ \E v : seen' = [seen EXCEPT ![a] = v],
           slot' = slot \/ slot' = Free(a) \/ slot = NoOne,
           \/ lock' = lock
           \/ \E m \in Models : lock[m] = NoOne /\ lock' = [lock EXCEPT ![m] = a]
    PROVE  /\ OthersKeep(a) /\ pc'[a] = p /\ at'[a] = s /\ how'[a] = h
           /\ flag'[a] = flag[a] /\ from'[a] = from[a]
<1>1. OwnOnly(a)
  BY DEF OwnOnly, KeepFlag
<1> QED
  BY <1>1, GoKeeps DEF KeepFlag

\* An open has its session.
LEMMA GotKeeps ==
    ASSUME Typed, NEW r \in Requests, NEW s, NEW resumed \in BOOLEAN, Got(r, s, resumed)
    PROVE  /\ OthersKeep(r) /\ pc'[r] = "got" /\ at'[r] = s /\ how'[r] = how[r]
           /\ flag'[r] = resumed /\ UNCHANGED <<lock, from, seen>>
           /\ how[r] = "acquire" => slot' = slot
<1>0. r \in Actors
  BY DEF Actors
<1>1. flag'[r] = resumed
  BY <1>0 DEF Got, Typed, TypeOK
<1>2. Go(r, "got", s, how[r]) /\ OwnOnly(r)
  BY DEF Got, OwnOnly
<1> QED
  BY <1>0, <1>1, <1>2, GoKeeps DEF Got

-----------------------------------------------------------------------------
\* Which model's lock a request holds, and why a goroutine is where it is.
NoLock == {"rest", "want", "using", "fo"}
\* The steps by their part of the code.
ClosePCs == {"foClose", "closing", "forget", "closeFailed"}
FailoverPCs == {"fo", "foCand", "foRetire", "foOpen"} \cup ClosePCs
Opening == {"chosen", "posting", "reconcile", "got"}
Acquiring == {"want", "locked", "scan", "apply", "miss", "choose", "named"}

\* A request holds the lock of its model wherever it may open or close, and
\* the reason it carries tells the path it is on.
RequestControl(r) ==
    /\ pc[r] \notin NoLock => lock[ReqModel[r]] = r
    /\ pc[r] \in {"rest", "using"} \cup Acquiring \cup Opening \cup FailoverPCs
    /\ pc[r] \in Acquiring => how[r] = "acquire"
    /\ pc[r] \in ClosePCs => how[r] = "failover"
    /\ pc[r] \in {"chosen", "posting"} /\ flag[r] => how[r] = "acquire"
    /\ pc[r] \in FailoverPCs \/ pc[r] = "using" => ~flag[r]
    /\ pc[r] = "got" /\ how[r] = "acquire" => slot = r
    /\ "lost" \notin Enabled => pc[r] # "reconcile"
    /\ "failover" \notin Enabled => pc[r] \notin FailoverPCs
    /\ "failover" \notin Enabled /\ pc[r] \in Opening => how[r] = "acquire"

\* A background failover never opens or uses a session of its own.
BackgroundControl(b) ==
    /\ pc[b] \in {"rest"} \cup FailoverPCs
    /\ pc[b] \in ClosePCs => how[b] = "failover"
    /\ "failover" \notin Enabled => pc[b] = "rest"

\* A sweep scans or closes.
SweeperControl(a) ==
    /\ pc[a] \in {"rest", "scan", "apply", "closing", "forget", "closeFailed"}
    /\ pc[a] \in ClosePCs => how[a] \in {"retired", "scan"}
    /\ pc[a] = "closeFailed" => how[a] = "retired"

\* The control of every goroutine.
ControlInv ==
    /\ \A r \in Requests : RequestControl(r)
    /\ \A b \in Backgrounds : BackgroundControl(b)
    /\ \A a \in Sweepers : SweeperControl(a)

\* A step of one actor needs checking for that actor only.
LEMMA ControlMoves ==
    ASSUME Calm, Typed, ControlInv, NEW a \in Actors, OthersKeep(a),
           a \in Requests => RequestControl(a)',
           a \in Backgrounds => BackgroundControl(a)',
           a \in Sweepers => SweeperControl(a)'
    PROVE  ControlInv'
<1>1. ASSUME NEW r \in Requests PROVE RequestControl(r)'
  <2>1. r \in Actors /\ ReqModel[r] \in Models
    BY SetsAssumption DEF Actors
  <2>2. CASE r = a
    BY <2>2
  <2>3. CASE r # a
    BY <2>1, <2>3 DEF ControlInv, RequestControl, OthersKeep
  <2> QED
    BY <2>2, <2>3
<1>2. ASSUME NEW b \in Backgrounds PROVE BackgroundControl(b)'
  BY DEF ControlInv, BackgroundControl, OthersKeep, Actors
<1>3. ASSUME NEW b \in Sweepers PROVE SweeperControl(b)'
  BY DEF ControlInv, SweeperControl, OthersKeep, Actors
<1> QED
  BY <1>1, <1>2, <1>3 DEF ControlInv

\* A handler that returns.
LEMMA EndControl ==
    ASSUME Calm, Typed, ControlInv, NEW a \in Actors, End(a)
    PROVE  ControlInv'
<1>1. OthersKeep(a) /\ pc'[a] = "rest" /\ ~flag'[a]
  BY EndKeeps
<1> QED
  BY <1>1, ControlMoves DEF RequestControl, BackgroundControl, SweeperControl, NoLock, FailoverPCs, Opening,
     Acquiring, ClosePCs

\* A lease taken.
LEMMA LeaseControl ==
    ASSUME Calm, Typed, ControlInv, NEW r \in Requests, NEW s, NEW st, Lease(r, s, st)
    PROVE  ControlInv'
<1>0. r \in Actors /\ r \notin Backgrounds /\ r \notin Sweepers
  BY ActorsAssumption DEF Actors
<1>1. OthersKeep(r) /\ pc'[r] = "using" /\ ~flag'[r]
  BY LeaseKeeps
<1> QED
  BY <1>0, <1>1, ControlMoves DEF RequestControl, NoLock, FailoverPCs, Opening, Acquiring, ClosePCs

\* An open that has its session.
LEMMA GotControl ==
    ASSUME Calm, Typed, PoolInv, ControlInv, NEW r \in Requests, NEW s, NEW resumed \in BOOLEAN,
           Got(r, s, resumed), pc[r] \in {"posting", "reconcile", "named"}
    PROVE  ControlInv'
<1>0. r \in Actors /\ r \notin Backgrounds /\ r \notin Sweepers
  BY ActorsAssumption DEF Actors
<1>1. slot = r /\ RequestControl(r)
  BY <1>0 DEF PoolInv, SlotHeld, Needs, WithSlot, ControlInv
<1>2. RequestControl(r)'
  BY <1>1, GotKeeps DEF RequestControl, NoLock, FailoverPCs, Opening, Acquiring, ClosePCs
<1> QED
  BY <1>0, <1>2, GotKeeps, ControlMoves

\* A step that keeps the reason, the flag and the lock.
LEMMA GoControl ==
    ASSUME Calm, Typed, ControlInv, NEW r \in Requests, NEW p, NEW s, Go(r, p, s, how[r]), KeepFlag,
           seen' = seen \/ \E v : seen' = [seen EXCEPT ![r] = v],
           slot' = slot \/ slot' = Free(r) \/ slot = NoOne,
           \/ lock' = lock /\ (p \notin NoLock => pc[r] \notin NoLock)
           \/ lock[ReqModel[r]] = NoOne /\ lock' = [lock EXCEPT ![ReqModel[r]] = r],
           \/ p \in Acquiring /\ how[r] = "acquire"
           \/ p \in FailoverPCs \ ClosePCs /\ pc[r] \in FailoverPCs
           \/ p \in ClosePCs /\ pc[r] \in ClosePCs
           \/ p = "chosen" /\ pc[r] \in {"posting", "foOpen"}
           \/ p = "posting" /\ pc[r] = "chosen"
           \/ p = "reconcile" /\ pc[r] = "posting" /\ "lost" \in Enabled
    PROVE  ControlInv'
<1>0. r \in Actors /\ r \notin Backgrounds /\ r \notin Sweepers /\ ReqModel[r] \in Models /\ RequestControl(r)
  BY ActorsAssumption, SetsAssumption DEF Actors, ControlInv
<1>1. OthersKeep(r) /\ pc'[r] = p /\ how'[r] = how[r] /\ flag'[r] = flag[r]
  BY <1>0, StepKeeps
<1>2. p \notin NoLock => lock'[ReqModel[r]] = r
  BY <1>0 DEF RequestControl, Typed, TypeOK
<1>3. RequestControl(r)'
  <2>1. CASE p \in Acquiring /\ how[r] = "acquire"
    BY <1>1, <1>2, <2>1 DEF RequestControl, FailoverPCs, Opening, Acquiring, ClosePCs
  <2>2. CASE p \in FailoverPCs \ ClosePCs /\ pc[r] \in FailoverPCs
    BY <1>0, <1>1, <1>2, <2>2 DEF RequestControl, FailoverPCs, Opening, Acquiring, ClosePCs
  <2>3. CASE p \in ClosePCs /\ pc[r] \in ClosePCs
    BY <1>0, <1>1, <1>2, <2>3 DEF RequestControl, FailoverPCs, Opening, Acquiring, ClosePCs
  <2>4. CASE p = "chosen" /\ pc[r] \in {"posting", "foOpen"}
    BY <1>0, <1>1, <1>2, <2>4 DEF RequestControl, FailoverPCs, Opening, Acquiring, ClosePCs
  <2>5. CASE p = "posting" /\ pc[r] = "chosen"
    BY <1>0, <1>1, <1>2, <2>5 DEF RequestControl, FailoverPCs, Opening, Acquiring, ClosePCs
  <2>6. CASE p = "reconcile" /\ pc[r] = "posting" /\ "lost" \in Enabled
    BY <1>0, <1>1, <1>2, <2>6 DEF RequestControl, FailoverPCs, Opening, Acquiring, ClosePCs
  <2> QED
    BY <2>1, <2>2, <2>3, <2>4, <2>5, <2>6
<1> QED
  BY <1>0, <1>1, <1>3, ControlMoves

\* AcquireCtx up to the choice of bids.
LEMMA AcquireControl ==
    ASSUME Calm, Typed, PoolInv, ControlInv, NEW r \in Requests,
           \/ Begin(r) \/ TakeLock(r) \/ TakeSlot(r) \/ Refused(r) \/ RetryPooled(r) \/ ChooseBids(r)
    PROVE  ControlInv'
<1>0. r \in Actors /\ r \notin Backgrounds /\ r \notin Sweepers /\ ReqModel[r] \in Models /\ RequestControl(r)
  BY ActorsAssumption, SetsAssumption DEF Actors, ControlInv
<1>1. CASE TryPooled(r)
  BY <1>1, LeaseControl DEF TryPooled
<1>2. CASE Refused(r)
  BY <1>0, <1>2, EndControl DEF Refused
<1>3. CASE Begin(r) /\ ~TryPooled(r)
  <2>1. OthersKeep(r) /\ pc'[r] = "want" /\ how'[r] = "acquire"
    BY <1>0, <1>3, StepKeeps DEF Begin
  <2>2. RequestControl(r)'
    BY <2>1 DEF RequestControl, NoLock, FailoverPCs, Opening, Acquiring, ClosePCs
  <2> QED
    BY <1>0, <2>1, <2>2, ControlMoves
<1>4. CASE TakeLock(r) /\ ~TryPooled(r)
  <2>1. how[r] = "acquire" /\ "locked" \in Acquiring
    BY <1>0, <1>4 DEF TakeLock, RequestControl, Acquiring
  <2> QED
    BY <1>4, <2>1, GoControl DEF TakeLock, Step
<1>5. CASE TakeSlot(r) /\ ~TryPooled(r)
  <2>1. how[r] = "acquire" /\ "scan" \in Acquiring /\ pc[r] \notin NoLock
    BY <1>0, <1>5 DEF TakeSlot, RequestControl, Acquiring, NoLock
  <2> QED
    BY <1>5, <2>1, GoControl DEF TakeSlot, Step
<1>6. CASE RetryPooled(r) /\ ~TryPooled(r)
  <2>1. how[r] = "acquire" /\ "choose" \in Acquiring /\ pc[r] \notin NoLock
    BY <1>0, <1>6 DEF RetryPooled, RequestControl, Acquiring, NoLock
  <2> QED
    BY <1>6, <2>1, GoControl DEF RetryPooled, Step
<1>7. CASE ChooseBids(r)
  <2>1. Go(r, "chosen", NoSession, how[r]) /\ OwnOnly(r) /\ UNCHANGED lock
    BY <1>7 DEF ChooseBids, OwnOnly
  <2>2. OthersKeep(r) /\ pc'[r] = "chosen" /\ how'[r] = how[r]
    BY <1>0, <2>1, GoKeeps
  <2>3. RequestControl(r)'
    BY <1>0, <1>7, <2>1, <2>2 DEF ChooseBids, RequestControl, NoLock, FailoverPCs, Opening, Acquiring, ClosePCs
  <2> QED
    BY <1>0, <2>2, <2>3, ControlMoves
<1> QED
  BY <1>1, <1>2, <1>3, <1>4, <1>5, <1>6, <1>7

\* The open POST, its answers and the pooling.
LEMMA OpenControl ==
    ASSUME Calm, Typed, PoolInv, ControlInv, NEW r \in Requests,
           \/ Post(r) \/ PostOK(r) \/ PostExisting(r) \/ PostFailed(r) \/ PostLost(r)
           \/ Reconcile(r) \/ AdoptExisting(r) \/ PoolOpened(r) \/ FailoverOpen(r)
    PROVE  ControlInv'
<1>0. r \in Actors /\ RequestControl(r)
  BY DEF Actors, ControlInv
<1>1. CASE Post(r)
  <2>1. PICK x : Go(r, "posting", x, how[r])
    BY <1>1 DEF Post
  <2> QED
    BY <1>1, <2>1, GoControl DEF Post, NoLock
<1>2. CASE PostOK(r)
  BY <1>2, GotControl DEF PostOK
<1>3. CASE PostExisting(r)
  <2>1. PICK x : Go(r, "named", x, how[r])
    BY <1>3 DEF PostExisting
  <2>2. how[r] = "acquire" /\ "named" \in Acquiring
    BY <1>0, <1>3 DEF PostExisting, RequestControl, Acquiring
  <2> QED
    BY <1>3, <2>1, <2>2, GoControl DEF PostExisting, NoLock
<1>4. CASE NextBid(r) /\ pc[r] = "posting"
  BY <1>0, <1>4, GoControl, EndControl DEF NextBid, NoLock
<1>5. CASE PostLost(r) /\ Step(r, "reconcile") /\ UNCHANGED <<slot, lock>>
  BY <1>5, GoControl DEF PostLost, Step, NoLock, On
<1>6. CASE Reconcile(r)
  <2>1. pc[r] = "reconcile" /\ (End(r) \/ \E keep : Got(r, keep, FALSE))
    BY <1>6 DEF Reconcile, MatchOpen
  <2> QED
    BY <1>0, <2>1, GotControl, EndControl
<1>7. CASE AdoptExisting(r)
  <2>1. pc[r] = "named" /\ (End(r) \/ \E b \in BOOLEAN : Got(r, at[r], b))
    BY <1>7 DEF AdoptExisting
  <2> QED
    BY <1>0, <2>1, GotControl, EndControl
<1>8. CASE PoolOpened(r)
  BY <1>8, LeaseControl DEF PoolOpened
<1>9. CASE FailoverOpen(r)
  BY <1>9, GoControl DEF FailoverOpen, Step, NoLock
<1> QED
  BY <1>1, <1>2, <1>3, <1>4, <1>5, <1>6, <1>7, <1>8, <1>9 DEF PostFailed, PostLost

\* A use that ends or fails over.
LEMMA UseControl ==
    ASSUME Calm, Typed, ControlInv, NEW r \in Requests,
           Done(r) \/ SessionDead(r) \/ Invalidate(r) \/ ProviderFails(r)
    PROVE  ControlInv'
<1>0. r \in Actors /\ r \notin Backgrounds /\ r \notin Sweepers /\ RequestControl(r)
  BY ActorsAssumption DEF Actors, ControlInv
<1>1. CASE Done(r)
  BY <1>0, <1>1, EndControl DEF Done
<1>2. CASE ProviderFails(r)
  <2>1. Go(r, "fo", NoSession, "failover") /\ OwnOnly(r) /\ UNCHANGED flag
    BY <1>2 DEF ProviderFails, OwnOnly
  <2>2. OthersKeep(r) /\ pc'[r] = "fo"
    BY <1>0, <2>1, GoKeeps
  <2>3. RequestControl(r)'
    BY <1>0, <1>2, <2>1, <2>2 DEF ProviderFails, RequestControl, NoLock, FailoverPCs, Opening, Acquiring, ClosePCs, On
  <2> QED
    BY <1>0, <2>2, <2>3, ControlMoves
<1>3. ~SessionDead(r)
  BY DEF SessionDead, Calm, On
<1>4. ~Invalidate(r)
  BY <1>0 DEF Invalidate, RequestControl, Acquiring, Opening, FailoverPCs, ClosePCs
<1> QED
  BY <1>1, <1>2, <1>3, <1>4

\* The same for a background goroutine and a sweep.
LEMMA BackgroundMoves ==
    ASSUME Calm, Typed, ControlInv, NEW b \in Backgrounds, NEW p, NEW s, NEW h, Go(b, p, s, h), OwnOnly(b),
           p \in FailoverPCs, "failover" \in Enabled, p \in ClosePCs => h = "failover"
    PROVE  ControlInv'
<1>0. b \in Actors /\ b \notin Requests /\ b \notin Sweepers
  BY ActorsAssumption DEF Actors
<1>1. OthersKeep(b) /\ pc'[b] = p /\ how'[b] = h
  BY <1>0, GoKeeps
<1>2. BackgroundControl(b)'
  BY <1>1 DEF BackgroundControl
<1> QED
  BY <1>0, <1>1, <1>2, ControlMoves

\* A step of a sweep.
LEMMA SweeperMoves ==
    ASSUME Calm, Typed, ControlInv, NEW a \in Sweepers, NEW p, NEW s, NEW h, Go(a, p, s, h), OwnOnly(a),
           p \in {"rest", "scan", "apply", "closing", "forget", "closeFailed"},
           p \in ClosePCs => h \in {"retired", "scan"}, p = "closeFailed" => h = "retired"
    PROVE  ControlInv'
<1>0. a \in Actors /\ a \notin Requests /\ a \notin Backgrounds
  BY ActorsAssumption DEF Actors
<1>1. OthersKeep(a) /\ pc'[a] = p /\ how'[a] = h
  BY <1>0, GoKeeps
<1>2. SweeperControl(a)'
  BY <1>1 DEF SweeperControl
<1> QED
  BY <1>0, <1>1, <1>2, ControlMoves

\* The scans.
LEMMA ScanControl ==
    ASSUME Calm, Typed, ControlInv, NEW a \in Actors \ Backgrounds, ScanStep(a)
    PROVE  ControlInv'
<1>0. a \in Requests \/ a \in Sweepers
  BY DEF Actors, Calm
<1>1. CASE End(a)
  BY <1>1, EndControl
<1>2. CASE a \in Requests /\ ~End(a)
  <2>1. RequestControl(a)
    BY <1>2 DEF ControlInv
  <2>2. PICK p \in {"apply", "miss"} : /\ Go(a, p, at[a], how[a]) /\ KeepFlag /\ UNCHANGED <<slot, lock>>
                                       /\ seen' = seen \/ \E v : seen' = [seen EXCEPT ![a] = v]
    <3>1. a \notin Sweepers
      BY <1>2, ActorsAssumption
    <3>2. CASE ReadList(a)
      BY <3>2 DEF ReadList
    <3>3. CASE ReadFails(a)
      BY <1>2, <3>3 DEF ReadFails, Step
    <3>4. CASE ApplyScan(a)
      <4>1. PICK due : SweepPick(a, due, ScanMarks(seen[a].open))
        BY <3>4, ScanTyped
      <4> QED
        BY <1>2, <3>1, <4>1 DEF SweepPick, Step
    <3> QED
      BY <3>2, <3>3, <3>4 DEF ScanStep
  <2>3. how[a] = "acquire" /\ p \in Acquiring /\ pc[a] \notin NoLock
    BY <2>1 DEF ScanStep, ReadList, ReadFails, ApplyScan, RequestControl, Acquiring, NoLock
  <2> QED
    BY <1>2, <2>2, <2>3, GoControl
<1>3. CASE a \in Sweepers /\ ~End(a)
  <2>1. CASE ReadList(a)
    <3>1. Go(a, "apply", at[a], how[a]) /\ OwnOnly(a)
      BY <2>1 DEF ReadList, OwnOnly, KeepFlag
    <3> QED
      BY <1>3, <3>1, SweeperMoves DEF ClosePCs
  <2>2. CASE ApplyScan(a)
    <3>1. PICK due \in SUBSET Sessions : SweepPick(a, due, ScanMarks(seen[a].open))
      BY <2>2, ScanTyped
    <3>2. PICK c \in due : Go(a, "closing", c, "scan") /\ OwnOnly(a)
      BY <1>3, <3>1, ActorsAssumption DEF SweepPick, OwnOnly, KeepFlag
    <3> QED
      BY <1>3, <3>2, SweeperMoves
  <2>3. ~ReadFails(a)
    BY <1>3, ActorsAssumption DEF ReadFails
  <2> QED
    BY <2>1, <2>2, <2>3 DEF ScanStep
<1> QED
  BY <1>0, <1>1, <1>2, <1>3

\* A close ends: the actor is done, or a request opens the replacement.
LEMMA AfterCloseControl ==
    ASSUME Calm, Typed, ControlInv, NEW a \in Actors, AfterClose(a), pc[a] \in ClosePCs
    PROVE  ControlInv'
<1>1. CASE End(a)
  BY <1>1, EndControl
<1>2. CASE ~End(a)
  <2>1. how[a] \in {"retired", "scan", "failover"}
    BY DEF ControlInv, RequestControl, BackgroundControl, SweeperControl, Actors, Calm
  <2>2. a \in Requests /\ Step(a, "foOpen") /\ slot' = Free(a) /\ UNCHANGED lock
    BY <1>2, <2>1 DEF AfterClose
  <2> QED
    BY <2>2, GoControl DEF Step, NoLock, FailoverPCs, ClosePCs
<1> QED
  BY <1>1, <1>2

\* A close that goes on.
LEMMA ClosePCControl ==
    ASSUME Calm, Typed, ControlInv, NEW a \in Actors, NEW p \in {"forget", "closeFailed"}, Step(a, p),
           pc[a] \in ClosePCs, p = "closeFailed" => how[a] \in {"retired", "failover"},
           slot' = slot \/ slot' = Free(a), UNCHANGED lock
    PROVE  ControlInv'
<1>1. CASE a \in Requests
  BY <1>1, GoControl DEF Step, NoLock, ClosePCs
<1>2. CASE a \in Backgrounds
  <2>1. Go(a, p, at[a], how[a]) /\ OwnOnly(a)
    BY DEF Step, OwnOnly, KeepFlag
  <2>2. how[a] = "failover" /\ "failover" \in Enabled
    BY <1>2 DEF ControlInv, BackgroundControl, ClosePCs
  <2> QED
    BY <1>2, <2>1, <2>2, BackgroundMoves DEF FailoverPCs, ClosePCs
<1>3. CASE a \in Sweepers
  <2>1. Go(a, p, at[a], how[a]) /\ OwnOnly(a)
    BY DEF Step, OwnOnly, KeepFlag
  <2>2. how[a] \in {"retired", "scan"}
    BY <1>3 DEF ControlInv, SweeperControl
  <2> QED
    BY <1>3, <2>1, <2>2, SweeperMoves
<1> QED
  BY <1>1, <1>2, <1>3 DEF Actors, Calm

\* The steps of a close.
LEMMA CloseControl ==
    ASSUME Calm, Typed, ControlInv, NEW a \in Actors, CloseStep(a)
    PROVE  ControlInv'
<1>1. CASE CloseDone(a)
  BY <1>1, ClosePCControl DEF CloseDone, ClosePCs
<1>2. CASE CloseGivenUp(a) /\ pc[a] = "closing"
  BY <1>2, ClosePCControl, AfterCloseControl DEF CloseGivenUp, ClosePCs
<1>3. CASE Forget(a) \/ CloseFailed(a)
  BY <1>3, AfterCloseControl DEF Forget, CloseFailed, ClosePCs
<1> QED
  BY <1>1, <1>2, <1>3 DEF CloseStep, CloseCut, CloseFails

\* The sweep of retired sessions.
LEMMA SweepControl ==
    ASSUME Calm, Typed, ControlInv, NEW a \in Sweepers, SweepRetired(a) \/ ScanOrphans(a)
    PROVE  ControlInv'
<1>1. CASE SweepRetired(a)
  <2>1. PICK s : Go(a, "closing", s, "retired") /\ KeepFlag
    BY <1>1 DEF SweepRetired
  <2>2. OwnOnly(a)
    BY <1>1, <2>1 DEF SweepRetired, OwnOnly, KeepFlag
  <2> QED
    BY <2>1, <2>2, SweeperMoves
<1>2. CASE ScanOrphans(a)
  <2>1. Go(a, "scan", at[a], how[a]) /\ OwnOnly(a)
    BY <1>2 DEF ScanOrphans, Step, OwnOnly, KeepFlag
  <2> QED
    BY <2>1, SweeperMoves DEF ClosePCs
<1> QED
  BY <1>1, <1>2

\* A failover's own steps.
LEMMA FailoverMoves ==
    ASSUME Calm, Typed, ControlInv, NEW a \in Requests \cup Backgrounds, NEW p, NEW s, NEW h, Go(a, p, s, h),
           KeepFlag, pc[a] \in FailoverPCs, p \in FailoverPCs \ {"fo"}, p \in ClosePCs => h = "failover",
           seen' = seen, slot' = slot \/ slot = NoOne,
           \/ lock' = lock /\ pc[a] # "fo"
           \/ lock[ModelAt(a)] = NoOne /\ lock' = [lock EXCEPT ![ModelAt(a)] = a] /\ ModelAt(a) \in Models
    PROVE  ControlInv'
<1>0. a \in Actors
  BY DEF Actors
<1>1. OwnOnly(a)
  BY DEF OwnOnly, KeepFlag
<1>2. CASE a \in Requests
  <2>0. RequestControl(a) /\ a \notin Backgrounds /\ a \notin Sweepers /\ ReqModel[a] \in Models
    BY <1>2, ActorsAssumption, SetsAssumption DEF ControlInv
  <2>1. OthersKeep(a) /\ pc'[a] = p /\ how'[a] = h /\ flag'[a] = flag[a]
    BY <1>0, <1>1, GoKeeps DEF KeepFlag
  <2>2. lock'[ReqModel[a]] = a
    BY <1>2, <2>0 DEF RequestControl, ModelAt, NoLock, Typed, TypeOK, FailoverPCs, ClosePCs
  <2>3. p \notin Acquiring /\ p \notin Opening
    BY DEF FailoverPCs, ClosePCs, Acquiring, Opening
  <2>4. RequestControl(a)'
    BY <2>0, <2>1, <2>2, <2>3 DEF RequestControl, FailoverPCs, ClosePCs, Opening
  <2> QED
    BY <1>0, <2>0, <2>1, <2>4, ControlMoves
<1>3. CASE a \in Backgrounds
  <2>1. "failover" \in Enabled
    BY <1>3 DEF ControlInv, BackgroundControl, FailoverPCs, ClosePCs
  <2> QED
    BY <1>1, <1>3, <2>1, BackgroundMoves
<1> QED
  BY <1>2, <1>3

\* FailoverCtx.
LEMMA FailoverControl ==
    ASSUME Calm, Typed, ControlInv, NEW a \in Requests \cup Backgrounds, FailoverStep(a)
    PROVE  ControlInv'
<1>0. a \in Actors
  BY DEF Actors
<1>1. CASE End(a)
  BY <1>0, <1>1, EndControl
<1>2. CASE FailoverLocked(a) /\ ~End(a)
  <2>1. ModelAt(a) \in Models
    BY <1>0, <1>2, SetsAssumption DEF FailoverLocked, Typed, Placed, FromSession, ModelAt
  <2>2. CASE a \in Requests /\ Lease(a, entry[ModelAt(a)], StateOf(entry[ModelAt(a)]))
    BY <2>2, LeaseControl
  <2>3. CASE \E p \in {"foOpen", "foCand"} : \E s, h :
               /\ Go(a, p, s, h) /\ KeepFlag /\ UNCHANGED <<slot, seen>>
               /\ lock[ModelAt(a)] = NoOne /\ lock' = [lock EXCEPT ![ModelAt(a)] = a]
    BY <1>2, <2>1, <2>3, FailoverMoves DEF FailoverLocked, FailoverPCs, ClosePCs
  <2> QED
    BY <1>2, <2>2, <2>3 DEF FailoverLocked, Step
<1>3. CASE FailoverCandidates(a) /\ ~End(a)
  BY <1>3, FailoverMoves DEF FailoverCandidates, Step, FailoverPCs, ClosePCs
<1>4. CASE FailoverRetire(a) /\ ~End(a)
  BY <1>4, FailoverMoves DEF FailoverRetire, Step, FailoverPCs, ClosePCs
<1>5. CASE FailoverClose(a)
  <2>1. how[a] = "failover"
    BY <1>5 DEF FailoverClose, ControlInv, RequestControl, BackgroundControl, ClosePCs
  <2> QED
    BY <1>5, <2>1, FailoverMoves DEF FailoverClose, StartClose, Step, FailoverPCs, ClosePCs
<1> QED
  BY <1>1, <1>2, <1>3, <1>4, <1>5 DEF FailoverStep

\* A stream cut under a background failover.
LEMMA StreamCutControl ==
    ASSUME Calm, Typed, ControlInv, NEW r \in Requests, NEW b \in Backgrounds, StreamCut(r, b)
    PROVE  ControlInv'
<1>1. Go(b, "fo", NoSession, "failover") /\ OwnOnly(b) /\ "failover" \in Enabled
  BY DEF StreamCut, OwnOnly, On
<1> QED
  BY <1>1, BackgroundMoves DEF FailoverPCs, ClosePCs

\* Every step keeps the control.
LEMMA ControlKept ==
    ASSUME Calm, Typed, PoolInv, ControlInv, [Next]_vars
    PROVE  ControlInv'
<1>1. CASE \E r \in Requests : RequestStep(r)
  BY <1>1, AcquireControl, OpenControl, UseControl DEF RequestStep
<1>2. CASE \E r \in Requests, b \in Backgrounds : StreamCut(r, b)
  BY <1>2, StreamCutControl
<1>3. CASE UNCHANGED <<slot, lock, actorVars>>
  BY <1>3 DEF actorVars, ControlInv, RequestControl, BackgroundControl, SweeperControl
<1>4. CASE \E a \in Actors \ Backgrounds : ScanStep(a)
  BY <1>4, ScanControl
<1>5. CASE \E a \in Actors : CloseStep(a)
  BY <1>5, CloseControl
<1>6. CASE \E a \in Requests \cup Backgrounds : FailoverStep(a)
  BY <1>6, FailoverControl
<1>7. CASE \E a \in Sweepers : SweepRetired(a) \/ ScanOrphans(a)
  BY <1>7, SweepControl
<1>8. CASE \E m \in Models, k \in Keys : Release(m, k)
  BY <1>3, <1>8 DEF Release
<1>9. CASE \E s \in Sessions : ChainStep(s)
  BY <1>3, <1>9 DEF ChainStep, OpenLands, CloseLands, ClosedElsewhere, TimePasses, MarkLapses, AttemptExpires
<1>10. CASE UNCHANGED vars
  BY <1>3, <1>10 DEF vars
<1> QED
  BY <1>1, <1>2, <1>4, <1>5, <1>6, <1>7, <1>8, <1>9, <1>10 DEF Next, Calm

-----------------------------------------------------------------------------
\* On chain, now or earlier.
Born(s) == chain[s] \in {"open", "closed"}
AtBorn == {"named", "got", "using"} \cup ClosePCs

\* Of a session, of a pool slot, of an actor.
SessionBorn(s) ==
    /\ Tracked(s) \/ mark[s] # "none" \/ s \in retired => Born(s)
    /\ ~Born(s) => age[s] = "young"
EntryBorn(m) == entry[m] # NoSession => Born(entry[m])
ActorBorn(a) ==
    /\ pc[a] \in FromSession => Born(from[a])
    /\ pc[a] \in AtBorn => Born(at[a])
    /\ pc[a] = "forget" => chain[at[a]] = "closed"
    /\ \A s \in seen[a].open : Born(s)

\* Nothing is known, marked, retired or worked on before it is on chain.
BornInv ==
    /\ \A s \in Sessions : SessionBorn(s)
    /\ \A m \in Models : EntryBorn(m)
    /\ \A a \in Actors : ActorBorn(a)

\* The steps of a request on a session of its own model.
AtModel == {"posting", "reconcile", "named", "got", "using"}
RequestModel(r) ==
    /\ pc[r] \in AtModel => ModelOf[at[r]] = ReqModel[r]
    /\ pc[r] \in FromSession => ModelOf[from[r]] = ReqModel[r]

\* Every session is of the model it is kept, opened or used for.
ModelInv ==
    /\ \A m \in Models : entry[m] # NoSession => ModelOf[entry[m]] = m
    /\ \A r \in Requests : RequestModel(r)
    /\ \A x \in Sessions : \A s \in att[x] : ModelOf[s] = ModelOf[x]

\* Without lost answers nothing is pending but the open under way, and no
\* close is cut.
Sure == "lost" \notin Enabled
\* The one open under way keeps its attempt; no mark has an end.
SureInv ==
    Sure =>
        /\ dup = {}
        /\ \A x \in Sessions : att[x] # {} => \E r \in Requests : pc[r] = "posting" /\ at[r] = x
        /\ \A s \in Sessions : mark[s] \in {"none", "now"}

\* What the pool holds is tracked and not being closed, and a request may
\* have it unless it ends.
EntryGood(m) ==
    LET s == entry[m] IN
    s # NoSession =>
        /\ Tracked(s)
        /\ ~sess[s].closing
        /\ Usable(s) => mark[s] = "none"
        /\ Sure => s \notin retired /\ ~sess[s].retired
\* The whole pool.
EntryInv == \A m \in Models : EntryGood(m)

\* No model has session s pooled.
Unpooled(s) == \A m \in Models : entry[m] # s

\* A session being opened belongs to nobody else yet.
Fresh(r) ==
    /\ ~Tracked(at[r])
    /\ mark[at[r]] = "none"
    /\ Unpooled(at[r])
    /\ Sure => at[r] \notin retired
    /\ \A a \in Actors : /\ pc[a] \in FromSession => from[a] # at[r]
                         /\ pc[a] \in {"closing", "forget"} => at[a] # at[r]
    /\ pc[r] = "posting" \/ how[r] # "acquire" => age[at[r]] = "young"
\* So for every open under way.
FreshInv == \A r \in Requests : pc[r] \in {"posting", "got"} => Fresh(r)

\* A goroutine that closes a session the pool had retired or closing.
Closer(a) == Owns(pc[a], how[a])

\* Nobody uses a session that is being closed, or can come to.
ActorCloses(a) ==
    /\ pc[a] \in {"closing", "forget"} =>
         /\ Leases(at[a]) = {}
         /\ \A m \in Models : entry[m] = at[a] => ~Usable(at[a])
    /\ Sure /\ Closer(a) =>
         /\ Leases(at[a]) = {}
         /\ Unpooled(at[a])
         /\ at[a] \in retired
         /\ Tracked(at[a]) => /\ sess[at[a]].closing
                              /\ \A b \in Actors \ {a} : Closer(b) => at[b] # at[a]
    /\ Sure /\ pc[a] \in FromSession =>
         Tracked(from[a]) \/ chain[from[a]] = "closed" \/ from[a] \in retired
\* No mark and no close is on a session in use.
CloserInv ==
    /\ \A s \in Sessions : mark[s] # "none" => Leases(s) = {}
    /\ \A a \in Actors : ActorCloses(a)

\* The inductive invariant of the leases: their exact count needs all of the
\* parts, since a lease taken on a session that is about to be forgotten would
\* be lost with it.
LeaseInv ==
    /\ ControlInv /\ BornInv /\ ModelInv /\ SureInv
    /\ EntryInv /\ FreshInv /\ CloserInv /\ InflightExact

-----------------------------------------------------------------------------
(* The steps, by what they do to the pool. *)

\* The pool and the chain as they were.
PoolSame == UNCHANGED <<chain, age, closeSent, entry, sess, mark, retired, dup, att>>
QuietPCs == {"rest", "want", "locked", "scan", "apply", "miss", "choose", "chosen", "reconcile",
             "foCand", "foRetire", "foOpen", "closeFailed"}

\* The actor goes on, the pool stays as it is.
Quiet(a) ==
    /\ OthersKeep(a) /\ PoolSame
    /\ pc[a] \notin {"using", "closing", "forget"} /\ pc'[a] \in QuietPCs
    /\ pc'[a] \in FromSession => pc[a] \in FromSession /\ from'[a] = from[a]
    /\ pc'[a] = "reconcile" => pc[a] = "posting" /\ at'[a] = at[a]
    /\ pc'[a] = "closeFailed" => pc[a] = "foClose" /\ at'[a] = at[a] /\ how'[a] = how[a]
    /\ pc[a] = "posting" => "lost" \in Enabled
    /\ \A s \in seen'[a].open : s \in seen[a].open \/ chain[s] = "open"
    /\ pc'[a] = "apply" => \A s \in seen'[a].open : chain[s] = "open"

\* A scan's list grows only by what is open.
LEMMA EndQuiet ==
    ASSUME Typed, NEW a \in Actors, End(a), PoolSame, pc[a] \notin {"using", "closing", "forget"},
           pc[a] = "posting" => "lost" \in Enabled
    PROVE  Quiet(a)
<1>1. /\ OthersKeep(a) /\ pc'[a] = "rest" /\ seen'[a] = NoList
  BY EndKeeps
<1> QED
  BY <1>1 DEF Quiet, QuietPCs, FromSession, NoList

\* A step that only moves the actor.
LEMMA StepQuiet ==
    ASSUME Typed, NEW a \in Actors, NEW p \in QuietPCs, NEW s, NEW h, Go(a, p, s, h), OwnOnly(a), PoolSame,
           pc[a] \notin {"using", "closing", "forget"},
           p \in FromSession => pc[a] \in FromSession /\ from' = from,
           p = "reconcile" => pc[a] = "posting" /\ s = at[a],
           p = "closeFailed" => pc[a] = "foClose" /\ s = at[a] /\ h = how[a],
           pc[a] = "posting" => "lost" \in Enabled,
           seen' = seen \/ seen' = [seen EXCEPT ![a] = NoList],
           p # "apply"
    PROVE  Quiet(a)
<1>1. OthersKeep(a) /\ pc'[a] = p /\ at'[a] = s /\ how'[a] = h
  BY GoKeeps
<1>2. \A t \in seen'[a].open : t \in seen[a].open
  BY DEF NoList, Typed, TypeOK
<1> QED
  BY <1>1, <1>2 DEF Quiet

\* A request takes a lease on s: the pooled session, or the one it opened.
Takes(r, s) ==
    /\ OthersKeep(r) /\ pc'[r] = "using" /\ at'[r] = s /\ seen'[r] = NoList
    /\ pc[r] \in {"rest", "want", "locked", "miss", "got", "fo"}
    /\ mark[s] = "none" /\ ~StateOf(s).retired /\ ~StateOf(s).closing
    /\ \A t \in Sessions \ {s} : sess'[t] = sess[t]
    /\ Tracked(s)' /\ sess'[s].inflight = StateOf(s).inflight + 1
    /\ ~sess'[s].closing /\ ~sess'[s].retired
    /\ \/ entry[ReqModel[r]] = s /\ Usable(s) /\ UNCHANGED entry
       \/ pc[r] = "got" /\ at[r] = s /\ entry' = [entry EXCEPT ![ReqModel[r]] = s]
    /\ UNCHANGED <<chain, age, closeSent, mark, retired, dup, att>>

\* leaseLocked is such a step.
LEMMA LeaseTakes ==
    ASSUME Typed, NEW r \in Requests, NEW s \in Sessions, Lease(r, s, StateOf(s)),
           pc[r] \in {"rest", "want", "locked", "miss", "got", "fo"},
           mark[s] = "none", ~StateOf(s).retired, ~StateOf(s).closing,
           \/ entry[ReqModel[r]] = s /\ Usable(s) /\ UNCHANGED entry
           \/ pc[r] = "got" /\ at[r] = s /\ entry' = [entry EXCEPT ![ReqModel[r]] = s],
           UNCHANGED <<chain, age, closeSent, mark, retired, dup, att>>
    PROVE  Takes(r, s)
<1>1. StateOf(s) \in LeaseStates
  BY StateTyped DEF Typed
<1>2. /\ \A t \in Sessions \ {s} : sess'[t] = sess[t]
      /\ sess'[s].inflight = StateOf(s).inflight + 1
      /\ sess'[s].closing = StateOf(s).closing /\ sess'[s].retired = StateOf(s).retired
  BY <1>1 DEF Lease, Typed, TypeOK, LeaseStates
<1>3. Tracked(s)'
  <2>1. sess'[s] = [StateOf(s) EXCEPT !.inflight = @ + 1, !.holders = @ \cup {KeyOf[r]}]
    BY DEF Lease, Typed, TypeOK
  <2>2. sess'[s] \in LeaseStates
    <3>1. KeyOf[r] \in Keys
      BY SetsAssumption DEF Keys, Range
    <3>2. StateOf(s).inflight + 1 \in Nat /\ StateOf(s).holders \cup {KeyOf[r]} \in SUBSET Keys
      BY <1>1, <3>1 DEF LeaseStates
    <3> QED
      BY <1>1, <2>1, <3>2 DEF LeaseStates
  <2> QED
    BY <2>2, NoStateAssumption DEF Tracked
<1>4. OthersKeep(r) /\ pc'[r] = "using" /\ at'[r] = s /\ seen'[r] = NoList
  BY LeaseKeeps
<1> QED
  BY <1>1, <1>2, <1>3, <1>4 DEF Takes, LeaseStates

\* The actor has read no new list; it works on what it did.
SeesLess(a) == \A s \in seen'[a].open : s \in seen[a].open
SamePlace(a) == at'[a] = at[a] /\ how'[a] = how[a]

\* A request's lease ends; after a provider's failure it fails over.
Ends(r) ==
    /\ OthersKeep(r) /\ SeesLess(r)
    /\ pc[r] = "using" /\ pc'[r] \in {"rest", "fo"}
    /\ pc'[r] = "fo" => from'[r] = at[r]
    /\ sess' = DoneState(at[r])
    /\ UNCHANGED <<chain, age, closeSent, entry, mark, retired, dup, att>>

\* Done and the failure of a provider.
LEMMA UseEnds ==
    ASSUME Typed, NEW r \in Requests, Done(r) \/ ProviderFails(r)
    PROVE  Ends(r)
<1>0. r \in Actors
  BY DEF Actors
<1>1. CASE Done(r)
  BY <1>0, <1>1, EndKeeps DEF Done, Ends, SeesLess, NoList, chainVars
<1>2. CASE ProviderFails(r)
  <2>1. Go(r, "fo", NoSession, "failover") /\ OwnOnly(r)
    BY <1>2 DEF ProviderFails, OwnOnly
  <2>2. from'[r] = at[r]
    BY <1>0, <1>2 DEF ProviderFails, Typed, TypeOK
  <2> QED
    BY <1>0, <1>2, <2>1, <2>2, GoKeeps DEF ProviderFails, Ends, SeesLess, chainVars
<1> QED
  BY <1>1, <1>2

\* A stream is cut: a goroutine fails over what the request still uses.
Cuts(r, b) ==
    /\ OthersKeep(b) /\ PoolSame /\ SeesLess(b)
    /\ pc[r] = "using" /\ pc[b] = "rest" /\ pc'[b] = "fo" /\ from'[b] = at[r]

\* So it does.
LEMMA StreamCuts ==
    ASSUME Typed, NEW r \in Requests, NEW b \in Backgrounds, StreamCut(r, b)
    PROVE  Cuts(r, b)
<1>0. b \in Actors
  BY DEF Actors
<1>1. Go(b, "fo", NoSession, "failover") /\ OwnOnly(b)
  BY DEF StreamCut, OwnOnly
<1>2. from'[b] = at[r]
  BY <1>0 DEF StreamCut, Typed, TypeOK
<1> QED
  BY <1>0, <1>1, <1>2, GoKeeps DEF StreamCut, Cuts, PoolSame, SeesLess, chainVars, poolVars

\* An open is sent for x, ...
Opens(r, x, A) ==
    /\ OthersKeep(r) /\ SeesLess(r)
    /\ pc[r] = "chosen" /\ pc'[r] = "posting" /\ at'[r] = x /\ how'[r] = how[r]
    /\ ModelOf[x] = ReqModel[r]
    /\ chain[x] = "unborn" /\ chain' = [chain EXCEPT ![x] = "sent"]
    /\ att' = [att EXCEPT ![x] = A]
    /\ \A s \in A : ModelOf[s] = ModelOf[x]
    /\ UNCHANGED <<age, closeSent, entry, sess, mark, retired, dup>>

\* Post is such a step.
LEMMA PostOpens ==
    ASSUME Typed, NEW r \in Requests, Post(r)
    PROVE  \E x \in Sessions, A \in SUBSET Sessions : Opens(r, x, A)
<1>0. r \in Actors
  BY DEF Actors
<1>1. PICK x \in Of(Sessions, ReqModel[r]) :
          /\ chain[x] = "unborn"
          /\ \E skewed \in SUBSET {s \in Sessions : chain[s] = "open" /\ age[s] = "young"} :
                att' = [att EXCEPT ![x] = Matchable(x, skewed)]
          /\ chain' = [chain EXCEPT ![x] = "sent"]
          /\ Go(r, "posting", x, how[r])
  BY DEF Post
<1>2. PICK skewed : att' = [att EXCEPT ![x] = Matchable(x, skewed)]
  BY <1>1
<1>3. x \in Sessions /\ ModelOf[x] = ReqModel[r]
  BY DEF Of
<1>4. /\ Matchable(x, skewed) \in SUBSET Sessions
      /\ \A s \in Matchable(x, skewed) : ModelOf[s] = ModelOf[x]
  BY DEF Matchable
<1>5. OthersKeep(r) /\ pc'[r] = "posting" /\ at'[r] = x /\ how'[r] = how[r]
  BY <1>0, <1>1, StepKeeps DEF Post
<1>6. pc[r] = "chosen" /\ SeesLess(r) /\ UNCHANGED <<age, closeSent, entry, sess, mark, retired, dup>>
  BY DEF Post, SeesLess
<1>7. Opens(r, x, Matchable(x, skewed))
  BY <1>1, <1>2, <1>3, <1>4, <1>5, <1>6 DEF Opens
<1> QED
  BY <1>3, <1>4, <1>7

\* ... answered with its id, ...
Answered(r) ==
    /\ OthersKeep(r) /\ SeesLess(r) /\ SamePlace(r)
    /\ pc[r] = "posting" /\ pc'[r] = "got"
    /\ Born(at[r])
    /\ att' = [att EXCEPT ![at[r]] = {}]
    /\ UNCHANGED <<chain, age, closeSent, entry, sess, mark, retired, dup>>

\* PostOK is such a step.
LEMMA PostAnswered ==
    ASSUME Typed, NEW r \in Requests, PostOK(r)
    PROVE  Answered(r)
BY GotKeeps DEF PostOK, Answered, SamePlace, SeesLess, Born, chainVars

\* ... or refused, perhaps with the name of a live session.
Rejected(r) ==
    /\ OthersKeep(r) /\ SeesLess(r)
    /\ pc[r] = "posting"
    /\ \/ pc'[r] \in {"chosen", "rest"}
       \/ pc'[r] = "named" /\ at'[r] \in Sessions /\ ModelOf[at'[r]] = ReqModel[r] /\ chain[at'[r]] = "open"
    /\ chain[at[r]] = "sent" /\ chain' = [chain EXCEPT ![at[r]] = "unborn"]
    /\ att' = [att EXCEPT ![at[r]] = {}]
    /\ UNCHANGED <<age, closeSent, entry, sess, mark, retired, dup>>

\* PostFailed, PostExisting and a loss before the chain are such steps.
LEMMA PostRejected ==
    ASSUME Typed, NEW r \in Requests, PostExisting(r) \/ PostFailed(r)
    PROVE  Rejected(r)
<1>0. r \in Actors
  BY DEF Actors
<1>1. CASE PostExisting(r)
  <2>1. PICK y \in Of(Sessions, ReqModel[r]) : chain[y] = "open" /\ Go(r, "named", y, how[r])
    BY <1>1 DEF PostExisting
  <2>2. y \in Sessions /\ ModelOf[y] = ReqModel[r]
    BY DEF Of
  <2>3. OthersKeep(r) /\ pc'[r] = "named" /\ at'[r] = y
    BY <1>0, <1>1, <2>1, StepKeeps DEF PostExisting
  <2> QED
    BY <1>1, <2>1, <2>2, <2>3 DEF PostExisting, Rejected, SeesLess
<1>2. CASE PostFailed(r)
  <2>1. OthersKeep(r) /\ SeesLess(r) /\ pc'[r] \in {"chosen", "rest"}
    <3>1. CASE End(r)
      BY <1>0, <3>1, EndKeeps DEF SeesLess, NoList
    <3>2. CASE Go(r, "chosen", NoSession, how[r]) /\ KeepFlag /\ UNCHANGED <<slot, lock, seen>>
      BY <1>0, <3>2, StepKeeps DEF SeesLess
    <3> QED
      BY <1>2, <3>1, <3>2 DEF PostFailed, NextBid
  <2> QED
    BY <1>2, <2>1 DEF PostFailed, Rejected
<1> QED
  BY <1>1, <1>2

\* A session is found in the wallet: the lost open's, or the one named.
Finds(r, k) ==
    /\ OthersKeep(r) /\ SeesLess(r)
    /\ pc[r] \in {"reconcile", "named"} /\ pc'[r] = "got" /\ at'[r] = k /\ how'[r] = how[r]
    /\ \/ pc[r] = "reconcile" /\ k \in att[at[r]]
       \/ pc[r] = "named" /\ k = at[r] /\ k \notin retired /\ UNCHANGED dup
    /\ chain[k] = "open" /\ mark[k] = "none" /\ ~Tracked(k) /\ Usable(k)
    /\ \A x \in Sessions : att'[x] \in {att[x], {}}
    /\ UNCHANGED <<chain, age, closeSent, entry, sess, mark, retired>>

\* Reconcile finds one that the attempt can match.
LEMMA ReconcileFinds ==
    ASSUME Typed, NEW r \in Requests, Reconcile(r)
    PROVE  Quiet(r) \/ \E k \in Sessions : Finds(r, k)
<1>0. r \in Actors /\ pc[r] = "reconcile" /\ at[r] \in Sessions
  BY DEF Actors, Reconcile, Typed, Placed, AtSession
<1>1. PICK L \in SUBSET {s \in Sessions : chain[s] = "open"} : MatchOpen(r, L)
  BY DEF Reconcile
<1>2. CASE End(r) /\ UNCHANGED <<dup, att>>
  BY <1>0, <1>2, EndQuiet DEF Reconcile, PoolSame, chainVars
<1>3. CASE ~(End(r) /\ UNCHANGED <<dup, att>>)
  <2>1. PICK k \in L : /\ k \in att[at[r]] /\ mark[k] = "none" /\ ~Tracked(k) /\ Usable(k)
                       /\ att' = [att EXCEPT ![at[r]] = {}]
                       /\ Got(r, k, FALSE)
    BY <1>1, <1>3 DEF MatchOpen
  <2>2. \A x \in Sessions : att'[x] \in {att[x], {}}
    BY <2>1 DEF Typed, TypeOK
  <2>3. Finds(r, k)
    BY <1>0, <2>1, <2>2, GotKeeps DEF Reconcile, Finds, SeesLess, chainVars
  <2> QED
    BY <2>3
<1> QED
  BY <1>2, <1>3

\* AdoptExisting takes the one the router named.
LEMMA AdoptFinds ==
    ASSUME Typed, NEW r \in Requests, AdoptExisting(r)
    PROVE  Quiet(r) \/ \E k \in Sessions : Finds(r, k)
<1>0. r \in Actors /\ pc[r] = "named" /\ at[r] \in Sessions
  BY DEF Actors, AdoptExisting, Typed, Placed, AtSession
<1>1. CASE End(r) /\ UNCHANGED att
  BY <1>0, <1>1, EndQuiet DEF AdoptExisting, PoolSame, chainVars
<1>2. CASE ~(End(r) /\ UNCHANGED att)
  <2>1. /\ chain[at[r]] = "open" /\ Usable(at[r]) /\ at[r] \notin retired
        /\ mark[at[r]] = "none" /\ ~Tracked(at[r])
        /\ \E b \in BOOLEAN : Got(r, at[r], b)
        /\ att' = att \/ \E a : att' = [att EXCEPT ![a] = {}]
    BY <1>2 DEF AdoptExisting
  <2>2. \A x \in Sessions : att'[x] \in {att[x], {}}
    BY <2>1 DEF Typed, TypeOK
  <2>3. Finds(r, at[r])
    BY <1>0, <2>1, <2>2, GotKeeps DEF AdoptExisting, Finds, SeesLess, chainVars
  <2> QED
    BY <1>0, <2>3
<1> QED
  BY <1>1, <1>2

\* A scan: it pools at most one unheld session per model, forgets what has
\* turned out closed, and finds the sessions due for a close.
Scans(a, keep, due) ==
    LET L == seen[a].open
        gone == ClosedLate(L)
        mk == ScanMarks(L)
    IN  /\ keep \in [Models -> Sessions \cup {NoSession}]
        /\ \A m \in Models : keep[m] # NoSession =>
              LET s == keep[m] IN
              /\ s \in L /\ ModelOf[s] = m /\ ~Held(s) /\ Usable(s) /\ mk[s] = "none" /\ s \notin due
              /\ Pending = {} => /\ age[s] # "young" /\ s \notin retired
                                 /\ Tracked(s) => ~sess[s].retired
        /\ \A s \in due : /\ s \in L /\ mk[s] = "none"
                          /\ Held(s) => HeldDue(s)
                          /\ Pending = {} /\ dup = {} /\ ~Held(s) => ~Usable(s) \/ age[s] # "young"
        /\ \A m \in Models : \/ entry'[m] = NoSession
                             \/ entry'[m] = entry[m] /\ entry[m] \notin gone
                             \/ entry'[m] = keep[m] /\ keep[m] \notin gone
        /\ \A s \in Sessions : sess'[s] = IF s \in gone THEN NoState
                                          ELSE IF \E m \in Models : keep[m] = s THEN StateOf(s) ELSE sess[s]
        /\ \A s \in Sessions : att'[s] \in {att[s], {}}
        /\ Pending = {} => dup' \subseteq dup
        /\ SweepPick(a, due, mk)
        /\ pc[a] = "apply"
        /\ UNCHANGED <<chain, age, retired>>

\* ApplyScan is such a step.
LEMMA ApplyScans ==
    ASSUME Typed, NEW a \in Actors, ApplyScan(a)
    PROVE  \E keep : \E due \in SUBSET Sessions : Scans(a, keep, due)
<1> DEFINE L == seen[a].open
           mk == ScanMarks(L)
           unmarked == {s \in L : mk[s] = "none"}
           unheld == {s \in unmarked : ~Held(s)}
           heldDue == {s \in unmarked : Held(s) /\ HeldDue(s)}
           Matched(f) == {s \in unheld : f[s] # NoSession}
           Ours(f) == {s \in Matched(f) : Usable(s)}
           Rest(f) == unheld \ Matched(f)
           Older(f) == {s \in Rest(f) : ~RestDue(s) /\ age[s] # "young"}
           RDue(f) == {s \in Rest(f) : RestDue(s)}
           Pooled(keep) == [m \in Models |-> IF keep[m] = NoSession THEN entry[m] ELSE keep[m]]
           Track(keep) == [s \in Sessions |-> IF s \in Range(keep) THEN StateOf(s) ELSE sess[s]]
           Due(f, keep) == heldDue \cup RDue(f) \cup (Matched(f) \ Ours(f))
                             \cup ((Ours(f) \cup Older(f)) \ Range(keep))
           Outcome(f, keep) ==
             /\ att' = [s \in Sessions |-> IF s \in Range(f) THEN {} ELSE att[s]]
             /\ entry' = [m \in Models |->
                  IF Pooled(keep)[m] \in ClosedLate(L) THEN NoSession
                  ELSE IF Pooled(keep)[m] # NoSession
                          /\ PruneEntry(Pooled(keep)[m], Track(keep)[Pooled(keep)[m]], seen[a])
                  THEN NoSession ELSE Pooled(keep)[m]]
             /\ sess' = [s \in Sessions |-> IF s \in ClosedLate(L) THEN NoState ELSE Track(keep)[s]]
             /\ dup' = (dup \cup (Ours(f) \ Range(keep))) \cap L
             /\ SweepPick(a, Due(f, keep), mk)
<1>0. PICK f \in Matchings(unheld) : \E keep \in Keeps(Ours(f), Older(f), mk) : Outcome(f, keep)
  BY Zenon DEF ApplyScan
<1>1. PICK keep \in Keeps(Ours(f), Older(f), mk) : Outcome(f, keep)
  BY <1>0
<1>2. L \in SUBSET Sessions
  BY DEF Typed, TypeOK, Lists
<1>3. keep \in [Models -> Sessions \cup {NoSession}]
  BY DEF Keeps
<1>4. f \in [unheld -> Pending \cup {NoSession}]
  BY DEF Matchings
<1>5. Due(f, keep) \in SUBSET Sessions
  BY <1>2
<1>6. \A s : s \in Range(keep) <=> \E m \in Models : keep[m] = s
  BY <1>3 DEF Range
<1>7. Pending = {} => Matched(f) = {}
  BY <1>4
<1>8. ASSUME NEW m \in Models, keep[m] # NoSession
      PROVE  keep[m] \in Ours(f) \cup Older(f) /\ ModelOf[keep[m]] = m
  BY <1>8 DEF Keeps, Of
<1>9. ASSUME NEW m \in Models, keep[m] # NoSession
      PROVE  /\ keep[m] \in L /\ ~Held(keep[m]) /\ Usable(keep[m]) /\ mk[keep[m]] = "none"
             /\ keep[m] \notin Due(f, keep)
             /\ Pending = {} => /\ age[keep[m]] # "young" /\ keep[m] \notin retired
                                /\ Tracked(keep[m]) => ~sess[keep[m]].retired
  <2>0. PICK k : k = keep[m]
    OBVIOUS
  <2>1. k \in Ours(f) \cup Older(f) /\ k \in Range(keep)
    BY <1>6, <1>8, <1>9, <2>0
  <2>2. k \in unheld /\ Usable(k) /\ (k \notin Matched(f) => k \in Older(f))
    BY <2>1 DEF RestDue
  <2>3. k \notin Due(f, keep)
    BY <2>1, <2>2
  <2>4. k \in Older(f) => age[k] # "young" /\ k \notin retired /\ (Tracked(k) => ~sess[k].retired)
    BY DEF RestDue
  <2> HIDE DEF Due, Older, Matched
  <2> QED
    BY <1>7, <2>0, <2>2, <2>3, <2>4
<1>10. ASSUME NEW s \in Due(f, keep)
       PROVE  /\ s \in L /\ mk[s] = "none"
              /\ Held(s) => HeldDue(s)
              /\ Pending = {} /\ dup = {} /\ ~Held(s) => ~Usable(s) \/ age[s] # "young"
  <2>1. s \in unmarked /\ (Held(s) => HeldDue(s))
    OBVIOUS
  <2>2. Pending = {} /\ dup = {} /\ ~Held(s) => ~Usable(s) \/ age[s] # "young"
    BY <1>7 DEF RestDue
  <2> QED
    BY <2>1, <2>2
<1>11. \A m \in Models : \/ entry'[m] = NoSession
                         \/ entry'[m] = entry[m] /\ entry[m] \notin ClosedLate(L)
                         \/ entry'[m] = keep[m] /\ keep[m] \notin ClosedLate(L)
  BY <1>1
<1>12. \A s \in Sessions : sess'[s] = IF s \in ClosedLate(L) THEN NoState
                                      ELSE IF \E m \in Models : keep[m] = s THEN StateOf(s) ELSE sess[s]
  BY <1>1, <1>6
<1>13. (\A s \in Sessions : att'[s] \in {att[s], {}}) /\ (Pending = {} => dup' \subseteq dup)
  BY <1>1, <1>7
<1>14. SweepPick(a, Due(f, keep), mk)
  BY <1>1
<1>15. pc[a] = "apply" /\ UNCHANGED <<chain, age, retired>>
  BY DEF ApplyScan
<1> HIDE DEF Due, mk, L
<1>16. Scans(a, keep, Due(f, keep))
  BY <1>3, <1>8, <1>9, <1>10, <1>11, <1>12, <1>13, <1>14, <1>15 DEF Scans, L, mk
<1> QED
  BY <1>5, <1>16

\* Where a close leaves its actor.
Leaves(a) == OthersKeep(a) /\ SeesLess(a) /\ pc'[a] \in {"rest", "foOpen"}

\* AfterClose is such a step.
LEMMA AfterCloseLeaves ==
    ASSUME Calm, Typed, ControlInv, NEW a \in Actors, AfterClose(a), pc[a] \in ClosePCs
    PROVE  Leaves(a)
<1>1. CASE End(a)
  BY <1>1, EndKeeps DEF Leaves, SeesLess, NoList
<1>2. CASE ~End(a)
  <2>1. how[a] \in {"retired", "scan", "failover"}
    BY DEF ControlInv, RequestControl, BackgroundControl, SweeperControl, Actors, Calm
  <2>2. Step(a, "foOpen") /\ slot' = Free(a) /\ UNCHANGED lock
    BY <1>2, <2>1 DEF AfterClose
  <2>3. OthersKeep(a) /\ pc'[a] = "foOpen"
    BY <2>2, StepKeeps DEF Step
  <2> QED
    BY <2>2, <2>3 DEF Leaves, SeesLess, Step
<1> QED
  BY <1>1, <1>2

\* A close has succeeded, ...
Closes(a) ==
    /\ OthersKeep(a) /\ SeesLess(a) /\ SamePlace(a)
    /\ pc[a] = "closing" /\ pc'[a] = "forget"
    /\ chain[at[a]] = "closed"
    /\ mark' = [mark EXCEPT ![at[a]] = "none"]
    /\ dup' \subseteq dup
    /\ closeSent' = closeSent \ {at[a]}
    /\ UNCHANGED <<chain, age, entry, sess, retired, att>>
\* ... and its session is forgotten; ...
Forgets(a) ==
    /\ Leaves(a)
    /\ pc[a] = "forget"
    /\ sess' = [sess EXCEPT ![at[a]] = NoState]
    /\ entry' = [m \in Models |-> IF entry[m] = at[a] THEN NoSession ELSE entry[m]]
    /\ UNCHANGED <<chain, age, closeSent, mark, retired, dup, att>>
\* ... it is cut or refused, ...
GivesUp(a, m) ==
    /\ \/ Leaves(a)
       \/ OthersKeep(a) /\ SeesLess(a) /\ SamePlace(a) /\ pc'[a] = "closeFailed" /\ how[a] \in {"retired", "failover"}
    /\ pc[a] = "closing"
    /\ \/ m = "none" /\ chain[at[a]] # "closed" /\ closeSent' = closeSent \ {at[a]}
       \/ m = "cut" /\ "lost" \in Enabled /\ UNCHANGED closeSent
    /\ mark' = [mark EXCEPT ![at[a]] = m]
    /\ UNCHANGED <<chain, age, entry, sess, retired, dup, att>>
\* ... and a closing session goes back to retired.
GoesBack(a) ==
    /\ Leaves(a)
    /\ pc[a] = "closeFailed"
    /\ sess' = BackToRetired(at[a])
    /\ UNCHANGED <<chain, age, closeSent, entry, mark, retired, dup, att>>

\* The steps of a close are these.
LEMMA CloseKinds ==
    ASSUME Calm, Typed, ControlInv, NEW a \in Actors, CloseStep(a)
    PROVE  \/ Closes(a) \/ Forgets(a) \/ GoesBack(a)
           \/ \E m \in {"none", "cut"} : GivesUp(a, m)
<1>1. CASE CloseDone(a)
  <2>1. OthersKeep(a) /\ pc'[a] = "forget" /\ SamePlace(a)
    BY <1>1, StepKeeps DEF CloseDone, Step, SamePlace
  <2> QED
    BY <1>1, <2>1 DEF CloseDone, Step, Closes, SeesLess
<1>2. CASE Forget(a)
  BY <1>2, AfterCloseLeaves DEF Forget, Forgets, ClosePCs, chainVars
<1>3. CASE CloseFailed(a)
  BY <1>3, AfterCloseLeaves DEF CloseFailed, GoesBack, ClosePCs, chainVars
<1>4. CASE CloseGivenUp(a) /\ pc[a] = "closing"
  <2>1. \/ Leaves(a)
        \/ OthersKeep(a) /\ SeesLess(a) /\ SamePlace(a) /\ pc'[a] = "closeFailed" /\ how[a] \in {"retired", "failover"}
    <3>1. CASE how[a] \in {"retired", "failover"}
      <4>1. Step(a, "closeFailed") /\ slot' = Free(a) /\ UNCHANGED lock
        BY <1>4, <3>1 DEF CloseGivenUp
      <4>2. OthersKeep(a) /\ pc'[a] = "closeFailed" /\ SamePlace(a)
        BY <4>1, StepKeeps DEF Step, SamePlace
      <4> QED
        BY <3>1, <4>1, <4>2 DEF Step, SeesLess
    <3>2. CASE how[a] \notin {"retired", "failover"}
      BY <1>4, <3>2, AfterCloseLeaves DEF CloseGivenUp, ClosePCs
    <3> QED
      BY <3>1, <3>2
  <2>2. CASE CloseFails(a)
    BY <2>1, <2>2 DEF CloseFails, GivesUp
  <2>3. CASE CloseCut(a)
    BY <2>1, <2>3 DEF CloseCut, GivesUp, On, chainVars
  <2> QED
    BY <1>4, <2>2, <2>3, <1>1, <1>2, <1>3 DEF CloseStep
<1> QED
  BY <1>1, <1>2, <1>3, <1>4 DEF CloseStep, CloseCut, CloseFails

\* The entries of s are taken out of the pool.
TakenOut(s) == \A m \in Models : entry'[m] = IF entry[m] = s THEN NoSession ELSE entry[m]
OnlyState(s) ==
    /\ \A t \in Sessions \ {s} : sess'[t] = sess[t]
    /\ Tracked(s)' <=> Tracked(s)
    /\ Tracked(s) => sess'[s].inflight = sess[s].inflight

\* sweepRetired takes s out and starts its close.
SweepsOut(a, s) ==
    /\ OthersKeep(a) /\ SeesLess(a)
    /\ pc[a] = "rest" /\ pc'[a] = "closing" /\ at'[a] = s /\ how'[a] = "retired" /\ slot = NoOne
    /\ Tracked(s) /\ ~sess[s].closing /\ sess[s].inflight = 0 /\ LiveMarks[s] = "none"
    /\ OnlyState(s) /\ sess'[s].closing
    /\ TakenOut(s)
    /\ retired' = retired \cup {s}
    /\ mark' = [LiveMarks EXCEPT ![s] = "now"]
    /\ closeSent' = closeSent \cup {s}
    /\ UNCHANGED <<chain, age, dup, att>>

\* SweepRetired is such a step, or none.
LEMMA SweepKinds ==
    ASSUME Typed, NEW a \in Sweepers, SweepRetired(a)
    PROVE  \E s \in Sessions : SweepsOut(a, s)
<1>0. a \in Actors
  BY DEF Actors
<1>1. PICK s \in Sessions :
          /\ CloseDue(s)
          /\ sess' = [sess EXCEPT ![s].closing = TRUE]
          /\ entry' = [m \in Models |-> IF entry[m] = s THEN NoSession ELSE entry[m]]
          /\ retired' = retired \cup {s}
          /\ slot' = a
          /\ mark' = [LiveMarks EXCEPT ![s] = "now"]
          /\ closeSent' = closeSent \cup {s}
          /\ Go(a, "closing", s, "retired") /\ KeepFlag
  BY DEF SweepRetired
<1>2. Tracked(s) /\ ~sess[s].closing /\ sess[s].inflight = 0 /\ LiveMarks[s] = "none"
  BY <1>1 DEF CloseDue
<1>3. sess[s] \in LeaseStates
  BY <1>2 DEF Tracked, Typed, TypeOK
<1>4. OnlyState(s) /\ sess'[s].closing
  <2>1. sess'[s] = [sess[s] EXCEPT !.closing = TRUE] /\ \A t \in Sessions \ {s} : sess'[t] = sess[t]
    BY <1>1 DEF Typed, TypeOK
  <2>2. sess'[s] \in LeaseStates /\ sess'[s].closing /\ sess'[s].inflight = sess[s].inflight
    BY <1>3, <2>1 DEF LeaseStates
  <2> QED
    BY <1>2, <2>1, <2>2, NoStateAssumption DEF OnlyState, Tracked
<1>5. OthersKeep(a) /\ pc'[a] = "closing" /\ at'[a] = s /\ how'[a] = "retired"
  BY <1>0, <1>1, StepKeeps DEF SweepRetired
<1>6. SweepsOut(a, s)
  BY <1>1, <1>2, <1>4, <1>5 DEF SweepRetired, SweepsOut, SeesLess, TakenOut
<1> QED
  BY <1>6

\* Failover retires the failed session, to close it when nothing is in
\* flight on it.
Retires(a, s) ==
    /\ OthersKeep(a) /\ SeesLess(a) /\ pc[a] = "foRetire" /\ from[a] = s
    /\ TakenOut(s)
    /\ retired' = retired \cup {s}
    /\ OnlyState(s) /\ (Tracked(s) => sess'[s].retired)
    /\ \/ /\ pc'[a] = "foClose" /\ at'[a] = s /\ how'[a] = "failover"
          /\ Tracked(s) => sess[s].inflight = 0 /\ ~sess[s].closing /\ sess'[s].closing
       \/ /\ pc'[a] \in {"foOpen", "rest"}
          /\ Tracked(s) => (sess'[s].closing <=> sess[s].closing)
    /\ UNCHANGED <<chain, age, closeSent, mark, dup, att>>

\* FailoverRetire is such a step.
LEMMA RetireKinds ==
    ASSUME Typed, ModelInv, NEW a \in Requests \cup Backgrounds, FailoverRetire(a)
    PROVE  \E s \in Sessions : Retires(a, s)
<1>0. a \in Actors /\ from[a] \in Sessions /\ pc[a] = "foRetire"
  BY DEF Actors, FailoverRetire, Typed, Placed, FromSession
<1> DEFINE m == ModelAt(a)
           now == IF Tracked(from[a]) THEN sess[from[a]].inflight = 0 /\ ~sess[from[a]].closing ELSE TRUE
<1>s. PICK s \in Sessions : s = from[a]
  BY <1>0
<1>1. ModelOf[s] = m /\ m \in Models
  BY <1>0, <1>s, SetsAssumption DEF ModelAt, ModelInv, RequestModel, FromSession
<1>2. TakenOut(s)
  <2>1. entry' = IF entry[m] = s THEN [entry EXCEPT ![m] = NoSession] ELSE entry
    BY <1>s DEF FailoverRetire
  <2>2. \A n \in Models : entry[n] = s => n = m
    BY <1>1, <1>s, ActorsAssumption DEF ModelInv
  <2> QED
    BY <1>1, <2>1, <2>2 DEF TakenOut, Typed, TypeOK
<1>3. OnlyState(s) /\ (Tracked(s) => sess'[s].retired /\ sess'[s].closing = (sess[s].closing \/ now))
  <2>1. CASE Tracked(s)
    <3>1. sess[s] \in LeaseStates
      BY <2>1 DEF Tracked, Typed, TypeOK
    <3>2. sess' = [sess EXCEPT ![s].retired = TRUE, ![s].closing = @ \/ now]
      BY <1>s, <2>1 DEF FailoverRetire
    <3>3. (sess[s].closing \/ now) \in BOOLEAN
      BY <3>1 DEF LeaseStates
    <3> HIDE DEF now
    <3>4. /\ \A t \in Sessions \ {s} : sess'[t] = sess[t]
          /\ sess'[s] = [sess[s] EXCEPT !.retired = TRUE, !.closing = sess[s].closing \/ now]
      BY <3>1, <3>2 DEF Typed, TypeOK, LeaseStates
    <3>5. /\ sess'[s] \in LeaseStates /\ sess'[s].inflight = sess[s].inflight
          /\ sess'[s].retired /\ sess'[s].closing = (sess[s].closing \/ now)
      BY <3>1, <3>3, <3>4 DEF LeaseStates
    <3> QED
      BY <2>1, <3>4, <3>5, NoStateAssumption DEF OnlyState, Tracked
  <2>2. CASE ~Tracked(s)
    BY <1>s, <2>2 DEF FailoverRetire, OnlyState, Tracked
  <2> QED
    BY <2>1, <2>2
<1>4. UNCHANGED <<chain, age, closeSent, mark, dup, att>> /\ retired' = retired \cup {s}
  BY <1>s DEF FailoverRetire, chainVars
<1>5. CASE now /\ Go(a, "foClose", from[a], "failover") /\ KeepFlag /\ UNCHANGED <<slot, lock, seen>>
  <2>1. OthersKeep(a) /\ pc'[a] = "foClose" /\ at'[a] = s /\ how'[a] = "failover"
    BY <1>0, <1>5, <1>s, StepKeeps
  <2>2. Tracked(s) => sess[s].inflight = 0 /\ ~sess[s].closing /\ sess'[s].closing
    BY <1>3, <1>5, <1>s
  <2>3. Retires(a, s)
    BY <1>0, <1>2, <1>3, <1>4, <1>5, <1>s, <2>1, <2>2 DEF Retires, SeesLess
  <2> QED
    BY <2>3
<1>6. CASE ~now /\ (End(a) \/ (Step(a, "foOpen") /\ UNCHANGED <<slot, lock>>))
  <2>1. OthersKeep(a) /\ SeesLess(a) /\ pc'[a] \in {"foOpen", "rest"}
    <3>1. CASE End(a)
      BY <1>0, <3>1, EndKeeps DEF SeesLess, NoList
    <3>2. CASE Step(a, "foOpen") /\ UNCHANGED <<slot, lock>>
      BY <1>0, <3>2, StepKeeps DEF Step, SeesLess
    <3> QED
      BY <1>6, <3>1, <3>2
  <2>2. Tracked(s) => (sess'[s].closing <=> sess[s].closing)
    <3> HIDE DEF now
    <3> QED
      BY <1>3, <1>6
  <2>3. Retires(a, s)
    BY <1>0, <1>2, <1>3, <1>4, <1>s, <2>1, <2>2 DEF Retires
  <2> QED
    BY <2>3
<1> QED
  BY <1>5, <1>6 DEF FailoverRetire

\* A failover has the slot for its close.
StartsClose(a) ==
    /\ OthersKeep(a) /\ SeesLess(a) /\ SamePlace(a)
    /\ pc[a] = "foClose" /\ pc'[a] = "closing" /\ slot = NoOne
    /\ mark' = [mark EXCEPT ![at[a]] = "now"]
    /\ closeSent' = closeSent \cup {at[a]}
    /\ UNCHANGED <<chain, age, entry, sess, retired, dup, att>>

\* FailoverClose is such a step, or the close fails before it starts.
LEMMA FailoverCloseKinds ==
    ASSUME Typed, ControlInv, NEW a \in Requests \cup Backgrounds, FailoverClose(a)
    PROVE  Quiet(a) \/ StartsClose(a)
<1>0. a \in Actors /\ pc[a] = "foClose" /\ how[a] = "failover"
  BY DEF Actors, FailoverClose, ControlInv, RequestControl, BackgroundControl, ClosePCs
<1>1. CASE slot = NoOne /\ StartClose(a, at[a], "failover") /\ UNCHANGED <<lock, seen>>
  <2>1. OthersKeep(a) /\ pc'[a] = "closing" /\ SamePlace(a)
    BY <1>0, <1>1, StepKeeps DEF StartClose, SamePlace
  <2>2. StartsClose(a)
    BY <1>0, <1>1, <2>1 DEF FailoverClose, StartClose, StartsClose, SeesLess
  <2> QED
    BY <2>2
<1>2. CASE Step(a, "closeFailed") /\ UNCHANGED <<closeSent, mark, slot, lock>>
  <2>1. Go(a, "closeFailed", at[a], how[a]) /\ OwnOnly(a) /\ PoolSame /\ seen' = seen
    BY <1>2 DEF FailoverClose, Step, KeepFlag, OwnOnly, PoolSame
  <2> QED
    BY <1>0, <2>1, StepQuiet DEF QuietPCs, FromSession
<1> QED
  BY <1>1, <1>2 DEF FailoverClose

\* A client lets go of s; the last one retires it.
Releases(s) ==
    /\ UNCHANGED <<pc, at, how, flag, from, seen, slot, lock>>
    /\ Tracked(s) /\ ~sess[s].closing
    /\ OnlyState(s) /\ ~sess'[s].closing
    /\ \/ UNCHANGED <<entry, retired>> /\ (sess'[s].retired <=> sess[s].retired)
       \/ TakenOut(s) /\ sess[s].inflight = 0 /\ retired' = retired \cup {s} /\ sess'[s].retired
    /\ UNCHANGED <<chain, age, closeSent, mark, dup, att>>

\* Release is such a step.
LEMMA ReleaseKinds ==
    ASSUME Typed, ModelInv, NEW m \in Models, NEW k \in Keys, Release(m, k)
    PROVE  \E s \in Sessions : Releases(s)
<1>1. PICK s \in ReleaseTargets(m, k) :
          LET left == sess[s].holders \ {k}
              last == left = {} /\ sess[s].inflight = 0
          IN  /\ sess' = [sess EXCEPT ![s].holders = left,
                                      ![s].retired = @ \/ last]
              /\ entry' = IF last /\ entry[m] = s
                          THEN [entry EXCEPT ![m] = NoSession] ELSE entry
              /\ retired' = IF last THEN retired \cup {s} ELSE retired
  BY DEF Release
<1> DEFINE left == sess[s].holders \ {k}
           last == left = {} /\ sess[s].inflight = 0
           ret == sess[s].retired \/ last
<1>2. s \in Sessions /\ Tracked(s) /\ ~sess[s].closing /\ sess[s] \in LeaseStates /\ ModelOf[s] = m
  BY DEF ReleaseTargets, Typed, TypeOK, Tracked, ModelInv
<1>3. left \in SUBSET Keys /\ ret \in BOOLEAN
  BY <1>2 DEF LeaseStates
<1>4. sess' = [sess EXCEPT ![s] = [sess[s] EXCEPT !.holders = left, !.retired = ret]]
  BY <1>1, <1>2 DEF Typed, TypeOK
<1>5. entry' = (IF last /\ entry[m] = s THEN [entry EXCEPT ![m] = NoSession] ELSE entry)
      /\ retired' = IF last THEN retired \cup {s} ELSE retired
  BY <1>1
<1>6. OnlyState(s) /\ ~sess'[s].closing /\ sess'[s].retired = ret
  <2> HIDE DEF left, ret, last
  <2>1. sess'[s] = [sess[s] EXCEPT !.holders = left, !.retired = ret] /\ \A t \in Sessions \ {s} : sess'[t] = sess[t]
    BY <1>2, <1>4 DEF Typed, TypeOK
  <2>2. sess'[s] \in LeaseStates /\ sess'[s].inflight = sess[s].inflight /\ ~sess'[s].closing /\ sess'[s].retired = ret
    BY <1>2, <1>3, <2>1 DEF LeaseStates
  <2> QED
    BY <1>2, <2>1, <2>2, NoStateAssumption DEF OnlyState, Tracked
<1>7. UNCHANGED <<pc, at, how, flag, from, seen, slot, lock, chain, age, closeSent, mark, dup, att>>
  BY DEF Release, actorVars, chainVars
<1>8. CASE last
  <2>1. \A n \in Models : entry[n] = s => n = m
    BY <1>2, ActorsAssumption DEF ModelInv
  <2>2. TakenOut(s)
    BY <1>5, <1>8, <2>1 DEF TakenOut, Typed, TypeOK
  <2> QED
    BY <1>2, <1>5, <1>6, <1>7, <1>8, <2>2 DEF Releases
<1>9. CASE ~last
  <2>1. UNCHANGED <<entry, retired>> /\ (sess'[s].retired <=> sess[s].retired)
    BY <1>2, <1>5, <1>6, <1>9
  <2> QED
    BY <1>2, <1>6, <1>7, <2>1 DEF Releases
<1> QED
  BY <1>8, <1>9

\* Every step is of one of the kinds.
StepKinds ==
    \/ \E a \in Actors : Quiet(a)
    \/ \E r \in Requests, s \in Sessions : Takes(r, s)
    \/ \E r \in Requests : Ends(r) \/ Answered(r) \/ Rejected(r)
    \/ \E r \in Requests, b \in Backgrounds : Cuts(r, b)
    \/ \E r \in Requests, x \in Sessions, A \in SUBSET Sessions : Opens(r, x, A)
    \/ \E r \in Requests, k \in Sessions : Finds(r, k)
    \/ \E a \in Actors \ Backgrounds, due \in SUBSET Sessions : \E keep : Scans(a, keep, due)
    \/ \E a \in Actors : Closes(a) \/ Forgets(a) \/ GoesBack(a) \/ \E m \in {"none", "cut"} : GivesUp(a, m)
    \/ \E a \in Sweepers, s \in Sessions : SweepsOut(a, s)
    \/ \E a \in Requests \cup Backgrounds : StartsClose(a) \/ \E s \in Sessions : Retires(a, s)
    \/ \E s \in Sessions : Releases(s) \/ ChainStep(s)

\* A lease of the pooled session.
LEMMA PooledTakes ==
    ASSUME Typed, NEW r \in Requests, TryPooled(r), pc[r] \in {"rest", "want", "locked", "miss"}
    PROVE  \E s \in Sessions : Takes(r, s)
<1>1. PICK s \in Sessions : s = entry[ReqModel[r]]
  BY SetsAssumption DEF TryPooled, Servable, Typed, TypeOK
<1>2. /\ mark[s] = "none" /\ ~StateOf(s).retired /\ ~StateOf(s).closing /\ Usable(s)
      /\ Lease(r, s, StateOf(s))
      /\ UNCHANGED <<chain, age, closeSent, entry, mark, retired, dup, att>>
  BY <1>1 DEF TryPooled, Servable, chainVars
<1>3. Takes(r, s)
  BY <1>1, <1>2, LeaseTakes
<1> QED
  BY <1>3

\* A lease of the session just opened.
LEMMA OpenedTakes ==
    ASSUME Typed, FreshInv, NEW r \in Requests, PoolOpened(r)
    PROVE  \E s \in Sessions : Takes(r, s)
<1>1. PICK s \in Sessions : s = at[r]
  BY DEF PoolOpened, Typed, Placed, AtSession, Actors
<1>2. pc[r] = "got" /\ ~Tracked(s) /\ mark[s] = "none"
  BY <1>1 DEF PoolOpened, FreshInv, Fresh
<1>3. StateOf(s) = NewState
  BY <1>2 DEF StateOf, Tracked
<1>4. /\ Lease(r, s, StateOf(s)) /\ entry' = [entry EXCEPT ![ReqModel[r]] = s]
      /\ UNCHANGED <<chain, age, closeSent, mark, retired, dup, att>>
  BY <1>1, <1>3 DEF PoolOpened, chainVars
<1>5. ~StateOf(s).retired /\ ~StateOf(s).closing
  BY <1>3 DEF NewState
<1>6. Takes(r, s)
  BY <1>1, <1>2, <1>4, <1>5, LeaseTakes
<1> QED
  BY <1>6

\* Steps of a request that leave the pool alone.
LEMMA RequestQuiet ==
    ASSUME Typed, NEW r \in Requests,
           \/ (Begin(r) \/ TakeLock(r) \/ TakeSlot(r) \/ RetryPooled(r)) /\ ~TryPooled(r)
           \/ Refused(r) \/ ChooseBids(r) \/ PostLost(r) \/ FailoverOpen(r)
    PROVE  Quiet(r)
<1>0. r \in Actors
  BY DEF Actors
<1>1. PoolSame /\ pc[r] \notin {"using", "closing", "forget"} /\ (pc[r] = "posting" => "lost" \in Enabled)
  BY DEF Begin, TakeLock, TakeSlot, RetryPooled, Refused, ChooseBids, PostLost, FailoverOpen, PoolSame,
         chainVars, poolVars, On
<1>2. CASE End(r)
  BY <1>0, <1>1, <1>2, EndQuiet
<1>3. CASE ~End(r)
  <2>1. PICK p \in QuietPCs, s \in Sessions \cup {NoSession}, h \in Hows :
          /\ Go(r, p, s, h) /\ OwnOnly(r) /\ p \notin FromSession /\ p \notin {"closeFailed", "apply"}
          /\ p = "reconcile" => pc[r] = "posting" /\ s = at[r]
          /\ seen' = seen \/ seen' = [seen EXCEPT ![r] = NoList]
    <3>0. at[r] \in Sessions \cup {NoSession} /\ how[r] \in Hows /\ "acquire" \in Hows
      BY <1>0 DEF Typed, TypeOK, Hows
    <3>1. CASE Begin(r) /\ ~TryPooled(r)
      BY <3>0, <3>1 DEF Begin, QuietPCs, OwnOnly, FromSession, KeepFlag
    <3>2. CASE TakeLock(r) /\ ~TryPooled(r)
      BY <3>0, <3>2, SetsAssumption DEF TakeLock, Step, QuietPCs, OwnOnly, FromSession, KeepFlag
    <3>3. CASE TakeSlot(r) /\ ~TryPooled(r)
      BY <3>0, <3>3 DEF TakeSlot, Step, QuietPCs, OwnOnly, FromSession, KeepFlag
    <3>4. CASE RetryPooled(r) /\ ~TryPooled(r)
      BY <3>0, <3>4 DEF RetryPooled, Step, QuietPCs, OwnOnly, FromSession, KeepFlag
    <3>5. CASE ChooseBids(r)
      BY <3>0, <3>5 DEF ChooseBids, QuietPCs, OwnOnly, FromSession
    <3>6. CASE PostLost(r)
      BY <1>3, <3>0, <3>6 DEF PostLost, NextBid, Step, QuietPCs, OwnOnly, FromSession, KeepFlag
    <3>7. CASE FailoverOpen(r)
      BY <3>0, <3>7 DEF FailoverOpen, Step, QuietPCs, OwnOnly, FromSession, KeepFlag
    <3> QED
      BY <1>3, <3>1, <3>2, <3>3, <3>4, <3>5, <3>6, <3>7 DEF Refused
  <2> QED
    BY <1>0, <1>1, <2>1, StepQuiet
<1> QED
  BY <1>2, <1>3

\* The steps of a request.
LEMMA RequestKinds ==
    ASSUME Calm, Typed, ControlInv, FreshInv, NEW r \in Requests, RequestStep(r)
    PROVE  StepKinds
<1>0. r \in Actors
  BY DEF Actors
<1>1. CASE TryPooled(r) /\ (Begin(r) \/ TakeLock(r) \/ TakeSlot(r) \/ RetryPooled(r))
  <2>1. pc[r] \in {"rest", "want", "locked", "miss"}
    BY <1>1 DEF Begin, TakeLock, TakeSlot, RetryPooled
  <2> QED
    BY <1>1, <2>1, PooledTakes DEF StepKinds
<1>2. CASE \/ (Begin(r) \/ TakeLock(r) \/ TakeSlot(r) \/ RetryPooled(r)) /\ ~TryPooled(r)
           \/ Refused(r) \/ ChooseBids(r) \/ PostLost(r) \/ FailoverOpen(r)
  BY <1>0, <1>2, RequestQuiet DEF StepKinds
<1>3. CASE Post(r)
  BY <1>3, PostOpens DEF StepKinds
<1>4. CASE PostOK(r) \/ PostExisting(r) \/ PostFailed(r) \/ Done(r) \/ ProviderFails(r)
  BY <1>4, PostAnswered, PostRejected, UseEnds DEF StepKinds
<1>5. CASE Reconcile(r) \/ AdoptExisting(r)
  BY <1>0, <1>5, ReconcileFinds, AdoptFinds DEF StepKinds
<1>6. CASE PoolOpened(r)
  BY <1>6, OpenedTakes DEF StepKinds
<1>7. ~SessionDead(r)
  BY DEF SessionDead, Calm, On
<1>8. ~Invalidate(r)
  BY DEF Invalidate, ControlInv, RequestControl, Acquiring, Opening, FailoverPCs, ClosePCs
<1> QED
  BY <1>1, <1>2, <1>3, <1>4, <1>5, <1>6, <1>7, <1>8 DEF RequestStep

\* The steps of a scan.
LEMMA ScanKinds ==
    ASSUME Calm, Typed, NEW a \in Actors \ Backgrounds, ScanStep(a)
    PROVE  StepKinds
<1>1. CASE ReadList(a)
  <2>1. OthersKeep(a) /\ pc'[a] = "apply"
    BY <1>1, StepKeeps DEF ReadList
  <2>2. \A s \in seen'[a].open : chain[s] = "open"
    <3>1. PICK L \in SUBSET {s \in Sessions : chain[s] = "open"} :
            \E O : seen' = [seen EXCEPT ![a] = [open |-> L, old |-> O]]
      BY <1>1 DEF ReadList
    <3> QED
      BY <3>1 DEF Typed, TypeOK
  <2>3. Quiet(a)
    BY <1>1, <2>1, <2>2 DEF ReadList, Quiet, QuietPCs, PoolSame, FromSession, chainVars, poolVars
  <2> QED
    BY <2>3 DEF StepKinds
<1>2. CASE ReadFails(a)
  <2>1. PoolSame /\ pc[a] = "scan"
    BY <1>2 DEF ReadFails, PoolSame, chainVars, poolVars
  <2>2. CASE End(a)
    BY <2>1, <2>2, EndQuiet DEF StepKinds
  <2>3. CASE Step(a, "miss") /\ UNCHANGED <<slot, lock>>
    <3>1. Go(a, "miss", at[a], how[a]) /\ OwnOnly(a) /\ seen' = seen
      BY <2>3 DEF Step, OwnOnly, KeepFlag
    <3>2. Quiet(a)
      BY <2>1, <3>1, StepQuiet DEF QuietPCs, FromSession
    <3> QED
      BY <3>2 DEF StepKinds
  <2> QED
    BY <1>2, <2>2, <2>3 DEF ReadFails
<1>3. CASE ApplyScan(a)
  BY <1>3, ApplyScans DEF StepKinds
<1> QED
  BY <1>1, <1>2, <1>3 DEF ScanStep

\* The steps of a failover.
LEMMA FailoverKinds ==
    ASSUME Calm, Typed, ControlInv, ModelInv, EntryInv, NEW a \in Requests \cup Backgrounds, FailoverStep(a)
    PROVE  StepKinds
<1>0. a \in Actors
  BY DEF Actors
<1>1. CASE FailoverLocked(a)
  <2>0. pc[a] = "fo" /\ from[a] \in Sessions
    BY <1>0, <1>1 DEF FailoverLocked, Typed, Placed, FromSession
  <2>1. CASE a \in Requests /\ Lease(a, entry[ModelAt(a)], StateOf(entry[ModelAt(a)]))
             /\ entry[ModelAt(a)] # NoSession /\ Usable(entry[ModelAt(a)])
             /\ ~StateOf(entry[ModelAt(a)]).retired /\ ~StateOf(entry[ModelAt(a)]).closing
    <3>1. PICK s \in Sessions : s = entry[ReqModel[a]]
      BY <2>1, SetsAssumption DEF ModelAt, Typed, TypeOK
    <3>2. mark[s] = "none"
      BY <2>1, <3>1, SetsAssumption DEF EntryInv, EntryGood, ModelAt
    <3>3. /\ Lease(a, s, StateOf(s)) /\ ~StateOf(s).retired /\ ~StateOf(s).closing /\ Usable(s)
          /\ UNCHANGED <<chain, age, closeSent, entry, mark, retired, dup, att>>
      BY <1>1, <2>1, <3>1 DEF FailoverLocked, ModelAt, chainVars
    <3>4. Takes(a, s)
      BY <2>0, <2>1, <3>1, <3>2, <3>3, LeaseTakes
    <3> QED
      BY <2>1, <3>4 DEF StepKinds
  <2>2. CASE PoolSame /\ End(a)
    BY <1>0, <2>0, <2>2, EndQuiet DEF StepKinds
  <2>3. CASE PoolSame /\ Step(a, "foCand") /\ lock[ModelAt(a)] = NoOne /\ lock' = [lock EXCEPT ![ModelAt(a)] = a]
             /\ UNCHANGED slot
    <3>1. ModelAt(a) \in Models
      BY <2>0, SetsAssumption DEF ModelAt
    <3>2. Go(a, "foCand", at[a], how[a]) /\ OwnOnly(a) /\ seen' = seen /\ from' = from
      BY <2>3, <3>1 DEF Step, OwnOnly, KeepFlag
    <3>3. Quiet(a)
      BY <1>0, <2>0, <2>3, <3>2, StepQuiet DEF QuietPCs, FromSession
    <3> QED
      BY <1>0, <3>3 DEF StepKinds
  <2>4. CASE PoolSame /\ Go(a, "foOpen", NoSession, "reopen") /\ KeepFlag /\ UNCHANGED <<slot, seen>>
             /\ lock[ModelAt(a)] = NoOne /\ lock' = [lock EXCEPT ![ModelAt(a)] = a]
    <3>1. ModelAt(a) \in Models
      BY <2>0, SetsAssumption DEF ModelAt
    <3>2. OwnOnly(a)
      BY <2>4, <3>1 DEF OwnOnly, KeepFlag
    <3>3. Quiet(a)
      BY <1>0, <2>0, <2>4, <3>2, StepQuiet DEF QuietPCs, FromSession
    <3> QED
      BY <1>0, <3>3 DEF StepKinds
  <2>5. UNCHANGED sess => PoolSame
    BY <1>1 DEF FailoverLocked, PoolSame, chainVars
  <2> QED
    BY <1>1, <2>1, <2>2, <2>3, <2>4, <2>5 DEF FailoverLocked
<1>2. CASE FailoverCandidates(a)
  <2>1. PoolSame /\ pc[a] = "foCand"
    BY <1>2 DEF FailoverCandidates, PoolSame, chainVars, poolVars
  <2>2. CASE End(a)
    BY <1>0, <2>1, <2>2, EndQuiet DEF StepKinds
  <2>3. CASE Step(a, "foRetire") /\ UNCHANGED <<slot, lock>>
    <3>1. Go(a, "foRetire", at[a], how[a]) /\ OwnOnly(a) /\ seen' = seen /\ from' = from
      BY <2>3 DEF Step, OwnOnly, KeepFlag
    <3>2. Quiet(a)
      BY <1>0, <2>1, <3>1, StepQuiet DEF QuietPCs, FromSession
    <3> QED
      BY <1>0, <3>2 DEF StepKinds
  <2> QED
    BY <1>2, <2>2, <2>3 DEF FailoverCandidates
<1>3. CASE FailoverRetire(a)
  BY <1>3, RetireKinds DEF StepKinds
<1>4. CASE FailoverClose(a)
  BY <1>0, <1>4, FailoverCloseKinds DEF StepKinds
<1> QED
  BY <1>1, <1>2, <1>3, <1>4 DEF FailoverStep

\* In a calm world every step is of a kind.
LEMMA Kinds ==
    ASSUME Calm, Typed, ControlInv, ModelInv, EntryInv, FreshInv, Next
    PROVE  StepKinds
<1>1. CASE \E r \in Requests : RequestStep(r)
  BY <1>1, RequestKinds
<1>2. CASE \E r \in Requests, b \in Backgrounds : StreamCut(r, b)
  BY <1>2, StreamCuts DEF StepKinds
<1>3. CASE \E m \in Models, k \in Keys : Release(m, k)
  BY <1>3, ReleaseKinds DEF StepKinds
<1>4. CASE \E a \in Actors \ Backgrounds : ScanStep(a)
  BY <1>4, ScanKinds
<1>5. CASE \E a \in Actors : CloseStep(a)
  BY <1>5, CloseKinds DEF StepKinds
<1>6. CASE \E a \in Requests \cup Backgrounds : FailoverStep(a)
  BY <1>6, FailoverKinds
<1>7. CASE \E a \in Sweepers : SweepRetired(a)
  BY <1>7, SweepKinds DEF StepKinds
<1>8. CASE \E a \in Sweepers : ScanOrphans(a)
  <2>1. PICK a \in Sweepers : ScanOrphans(a)
    BY <1>8
  <2>2. a \in Actors /\ Go(a, "scan", at[a], how[a]) /\ OwnOnly(a) /\ PoolSame /\ seen' = seen /\ pc[a] = "rest"
    BY <2>1 DEF Actors, ScanOrphans, Step, KeepFlag, OwnOnly, PoolSame, chainVars, poolVars
  <2>3. Quiet(a)
    BY <2>2, StepQuiet DEF QuietPCs, FromSession
  <2> QED
    BY <2>2, <2>3 DEF StepKinds
<1>9. CASE \E s \in Sessions : ChainStep(s)
  BY <1>9 DEF StepKinds
<1> QED
  BY <1>1, <1>2, <1>3, <1>4, <1>5, <1>6, <1>7, <1>8, <1>9 DEF Next, Calm
=============================================================================
