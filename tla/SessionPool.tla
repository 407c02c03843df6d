---------------------------- MODULE SessionPool -----------------------------
(*****************************************************************************)
(* The whole pool: the chain and the clock, the next-state relation, and the *)
(* properties.  The components are PoolState, PoolLeases, PoolScan,          *)
(* PoolOpen, PoolClose and PoolFailover, each extending the one before.      *)
(*****************************************************************************)
EXTENDS PoolFailover

(* The chain, the router and the clock. *)

\* An open under way lands.
OpenLands(s) ==
    /\ chain[s] = "sent"
    /\ chain' = [chain EXCEPT ![s] = "open"]
    /\ UNCHANGED <<age, closeSent, poolVars, slot, lock, actorVars>>

\* The router carries out a close.
CloseLands(s) ==
    /\ s \in closeSent
    /\ chain[s] = "open"
    /\ chain' = [chain EXCEPT ![s] = "closed"]
    /\ UNCHANGED <<age, closeSent, poolVars, slot, lock, actorVars>>

\* A session is closed by somebody else.
ClosedElsewhere(s) ==
    /\ On("gone")
    /\ chain[s] = "open"
    /\ chain' = [chain EXCEPT ![s] = "closed"]
    /\ UNCHANGED <<age, closeSent, poolVars, slot, lock, actorVars>>

\* Time passes for a session. An open answers and is pooled well within
\* pruneGrace (slotHoldCap is half of it), so its session stays young.
TimePasses(s) ==
    /\ chain[s] = "open"
    /\ \/ /\ age[s] = "young"
          /\ \A r \in Requests :
                ~(pc[r] \in {"posting", "reconcile", "got"} /\ at[r] = s)
          /\ age' = [age EXCEPT ![s] = "old"]
       \/ On("ends") /\ age[s] = "old" /\ age' = [age EXCEPT ![s] = "ending"]
       \/ On("ends") /\ age[s] = "ending" /\ age' = [age EXCEPT ![s] = "ended"]
    /\ UNCHANGED <<chain, closeSent, poolVars, slot, lock, actorVars>>

\* routerCloseMaxLife passes after a cut close: the router has given it up,
\* and no scan begun before is still under way.
MarkLapses(s) ==
    /\ mark[s] = "cut"
    /\ age[s] # "young"
    /\ \A a \in Actors : pc[a] # "apply"
    /\ mark' = [mark EXCEPT ![s] = "lapsed"]
    /\ closeSent' = closeSent \ {s}
    /\ UNCHANGED <<chain, age, entry, sess, retired, dup, att, slot, lock, actorVars, shown>>

\* pruneAttemptsLocked: attemptKeep passes for an open nobody waits on.
AttemptExpires(s) ==
    /\ att[s] # {}
    /\ \A r \in Requests : ~(pc[r] \in {"posting", "reconcile"} /\ at[r] = s)
    /\ att' = [att EXCEPT ![s] = {}]
    /\ UNCHANGED <<chainVars, entry, sess, mark, retired, dup, slot, lock, actorVars, shown>>

RequestStep(r) ==
    \/ Begin(r) \/ TakeLock(r) \/ TakeSlot(r) \/ Refused(r)
    \/ RetryPooled(r) \/ ChooseBids(r) \/ Post(r)
    \/ PostOK(r) \/ PostExisting(r) \/ PostFailed(r) \/ PostLost(r)
    \/ Reconcile(r) \/ AdoptExisting(r) \/ PoolOpened(r)
    \/ Done(r) \/ SessionDead(r) \/ Invalidate(r)
    \/ ProviderFails(r) \/ FailoverOpen(r)

ScanStep(a) == ReadList(a) \/ ReadFails(a) \/ ApplyScan(a)
CloseStep(a) == CloseDone(a) \/ CloseCut(a) \/ CloseFails(a) \/ Forget(a) \/ CloseFailed(a)
FailoverStep(a) ==
    FailoverLocked(a) \/ FailoverCandidates(a) \/ FailoverRetire(a) \/ FailoverClose(a)

ChainStep(s) ==
    \/ OpenLands(s) \/ CloseLands(s) \/ ClosedElsewhere(s)
    \/ TimePasses(s) \/ MarkLapses(s) \/ AttemptExpires(s)

Next ==
    \/ \E r \in Requests : RequestStep(r)
    \/ \E r \in Requests, b \in Backgrounds : StreamCut(r, b)
    \/ \E m \in Models, k \in Keys : Release(m, k)
    \/ \E a \in Actors \ Backgrounds : ScanStep(a)
    \/ \E a \in Actors \ Pollers : CloseStep(a)
    \/ \E a \in Requests \cup Backgrounds : FailoverStep(a)
    \/ \E a \in Sweepers : SweepRetired(a) \/ ScanOrphans(a)
    \/ \E a \in Pollers : Rehydrate(a)
    \/ \E a \in Admins : AdminClose(a) \/ AdminNext(a) \/ AdminRescan(a)
    \/ \E s \in Sessions : ChainStep(s)

Spec == Init /\ [][Next]_vars

\* What a goes on with once it has begun: every call has a deadline, the
\* model lock (sync.Mutex) and the wallet slot (WalletSlot) serve in turn.
GoesOn(a) ==
    /\ pc[a] # "rest"
    /\ \/ a \in Requests /\ RequestStep(a)
       \/ a \in Requests \cup Backgrounds /\ FailoverStep(a)
       \/ ScanStep(a)
       \/ CloseStep(a)

\* The bid walk is finite: it does not go on to another bid for ever.
WalkEnds(r) == pc[r] = "posting" /\ RequestStep(r) /\ pc'[r] # "chosen"

\* A sweep queues for the slot after sweepMaxSkips busy ticks. A router
\* asked again and again lists the sessions, and closes one.
Fairness ==
    /\ \A a \in Actors : SF_vars(GoesOn(a))
    /\ \A r \in Requests : SF_vars(WalkEnds(r))
    /\ \A a \in Sweepers : SF_vars(ScanOrphans(a)) /\ SF_vars(ReadList(a))
    /\ WF_vars(\E s \in Sessions : TimePasses(s))
    /\ SF_vars(\E s \in Sessions : CloseLands(s))

FairSpec == Spec /\ Fairness

-----------------------------------------------------------------------------
Leases(s) == {r \in Requests : pc[r] = "using" /\ at[r] = s}

\* The in-flight count of a session (sessState.inflight, counted up by
\* leaseLocked and down by Lease.Done) is the number of requests that use
\* it, through releases, scans, prunes and forgotten sessions.
InflightExact ==
    \A s \in Sessions :
        Cardinality(Leases(s)) = IF Tracked(s) THEN sess[s].inflight ELSE 0

\* The leases are well formed and exactly counted.
LeasesExact == TypeOK /\ InflightExact

\* Release, the sweeps and failover close a session only when no call is in
\* flight on it: no close of theirs is queued or under way on a session a
\* request uses. Only an admin closes regardless.
NoCloseUnderLease ==
    \A a \in Actors \ Admins :
        pc[a] \in {"closing", "foClose"} => Leases(at[a]) = {}

\* A lease never lands on a session that is retired or closing, nor on one
\* whose id is marked by a close (closingIDs), however it comes to be handed
\* out: pooled, adopted, opened, or as a failover's replacement.
LeaseOnServable ==
    [][\A s \in Sessions :
          ~(Leases(s)' \subseteq Leases(s)) =>
              mark[s] = "none" /\ ~StateOf(s).retired /\ ~StateOf(s).closing]_vars

\* A pool slot points at a tracked session of its model that no sweep has
\* started to close: sweepRetired takes the entry out with the closing flag,
\* and only a session past its use is closed while it is still pooled.
EntryServable ==
    \A m \in Models :
        LET s == entry[m] IN
        s # NoSession =>
            /\ ModelOf[s] = m
            /\ Tracked(s)
            /\ ~sess[s].closing
            /\ mark[s] # "none" => ~Usable(s)

\* A session that release, failover or the idle sweep retired is not in the
\* pool again: the scan does not adopt it, the open does not return it.
RetiredStaysOut ==
    \A m \in Models :
        entry[m] # NoSession => /\ entry[m] \notin retired
                               /\ ~StateOf(entry[m]).retired

\* No session is stuck in closing: a mark without an end (closingIDs at the
\* zero time) belongs to a close call under way, and a closing flag
\* to a goroutine that will close, forget or put the session back to retired.
CloseHasOwner ==
    \A s \in Sessions :
        /\ mark[s] = "now" =>
              \E a \in Actors : pc[a] = "closing" /\ at[a] = s
        /\ Tracked(s) /\ sess[s].closing =>
              \E a \in Actors : at[a] = s /\ pc[a] \in {"foClose", "closing", "forget", "closeFailed"}

\* A closed session is never handed out again (forget): the pool holds a
\* session closed on chain only while its mark stands or it is about to be
\* forgotten.
ClosedStaysOut ==
    \A m \in Models :
        entry[m] # NoSession /\ chain[entry[m]] = "closed" =>
            \/ mark[entry[m]] # "none"
            \/ \E a \in Actors : pc[a] = "forget" /\ at[a] = entry[m]

\* The phase of a session in the state machine of lease.go.
Phase(s) ==
    IF ~Tracked(s) /\ chain[s] = "closed" THEN "closed"
    ELSE IF \/ mark[s] \in {"now", "cut"}
            \/ StateOf(s).closing
            \/ \E a \in Actors : pc[a] = "forget" /\ at[a] = s
    THEN "closing"
    ELSE IF ~Tracked(s) THEN "unheld"
    ELSE IF sess[s].retired THEN "retired" ELSE "open"

\* Every session goes through the states drawn at the head of lease.go, in
\* their order and with their conditions on the requests in flight.
Lifecycle == INSTANCE SessionLifecycle WITH
    phase <- [s \in Sessions |-> Phase(s)],
    users <- [s \in Sessions |-> Leases(s)]
FollowsLifecycle == Lifecycle!Spec

\* Opens and closes never race on the wallet's nonce: of all open POSTs,
\* their reconciliations and closes, by whoever, one is under way at a time.
OneWalletCall ==
    \A a, b \in Actors :
        /\ pc[a] \in {"posting", "reconcile", "closing"}
        /\ pc[b] \in {"posting", "reconcile", "closing"}
        => a = b

\* A session is never counted as in use beyond the requests that use it
\* (Lease.Done, whatever a scan or an admin did meanwhile): no sweep would
\* close it, and its stake would not come back before its end.
NoPhantomUse ==
    \A s \in Sessions : Tracked(s) => sess[s].inflight <= Cardinality(Leases(s))

\* A request in AcquireCtx or FailoverCtx gets a session or an answer: the
\* model lock and the wallet slot it waits for are always given back.
RequestSettles ==
    \A r \in Requests :
        pc[r] \notin {"rest", "using"} ~> pc[r] \in {"rest", "using"}

\* A session retired with nothing in flight is closed in the end: after
\* maxCloseRetries of sweepRetired the scan still finds it due.
RetiredIsClosed ==
    \A s \in Sessions : RetiredIdle(s) ~> chain[s] = "closed"

=============================================================================
