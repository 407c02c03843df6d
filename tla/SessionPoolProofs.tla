------------------------- MODULE SessionPoolProofs -------------------------
(***************************************************************************)
(* Proofs about SessionPool in every world: with any requests, sweeps,     *)
(* polls, admins and happenings.                                           *)
(***************************************************************************)
EXTENDS SessionPool, FiniteSetTheorems, TLAPS

\* The steps at which an actor works on a session, and those of a failover
\* that still carries the session that failed.
AtSession == {"posting", "reconcile", "named", "got", "using", "foClose", "closing", "forget", "closeFailed"}
FromSession == {"fo", "foCand", "foRetire"}
\* Where an actor works on a session, it has one.
Placed ==
    \A a \in Actors :
        /\ pc[a] \in AtSession => at[a] \in Sessions
        /\ pc[a] \in FromSession => from[a] \in Sessions

Typed == TypeOK /\ Placed

\* A fresh lease state (newStateLocked) is one.
LEMMA NewStateTyped == NewState \in LeaseStates
BY RetriesAssumption DEF NewState, LeaseStates

\* stateLocked gives a lease state.
LEMMA StateTyped ==
    ASSUME TypeOK, NEW s \in Sessions
    PROVE  /\ sess[s] \in LeaseStates \cup {NoState}
           /\ StateOf(s) \in LeaseStates
BY NewStateTyped DEF TypeOK, StateOf

\* A lease taken is typed.
LEMMA LeaseTyped ==
    ASSUME Typed, NEW r \in Requests, NEW s \in Sessions, NEW st \in LeaseStates, Lease(r, s, st),
           UNCHANGED <<chainVars, mark, retired, dup, att, shown>>,
           entry' \in [Models -> Sessions \cup {NoSession}]
    PROVE  Typed'
<1>1. r \in Actors /\ KeyOf[r] \in Keys
  BY SetsAssumption DEF Actors, Keys, Range
<1>2. [st EXCEPT !.inflight = @ + 1, !.holders = @ \cup {KeyOf[r]}] \in LeaseStates
  <2>1. st.inflight + 1 \in Nat /\ st.holders \cup {KeyOf[r]} \in SUBSET Keys
    BY <1>1 DEF LeaseStates
  <2> QED
    BY <2>1 DEF LeaseStates
<1>3. TypeOK'
  BY <1>1, <1>2 DEF Typed, TypeOK, Lease, Go, FreeAll, Free, Unlock, chainVars, PCs, Hows, Lists, NoList
<1>4. Placed'
  BY <1>1 DEF Typed, Placed, TypeOK, Lease, Go, AtSession, FromSession
<1> QED
  BY <1>3, <1>4 DEF Typed

\* A handler that returns is typed.
LEMMA EndTyped ==
    ASSUME Typed, NEW a \in Actors, End(a),
           UNCHANGED <<age, retired, shown>>,
           chain' \in [Sessions -> Chains], closeSent' \subseteq Sessions,
           mark' \in [Sessions -> Marks], dup' \subseteq Sessions,
           att' \in [Sessions -> SUBSET Sessions],
           sess' \in [Sessions -> LeaseStates \cup {NoState}],
           entry' \in [Models -> Sessions \cup {NoSession}]
    PROVE  Typed'
<1>1. TypeOK'
  BY DEF Typed, TypeOK, End, Go, FreeAll, Free, Unlock, PCs, Hows, Lists, NoList
<1>2. Placed'
  BY DEF Typed, Placed, TypeOK, End, Go, AtSession, FromSession
<1> QED
  BY <1>1, <1>2 DEF Typed

\* The pooled path, whoever tries it.
LEMMA TryPooledTyped ==
    ASSUME Typed, NEW r \in Requests, TryPooled(r)
    PROVE  Typed'
<1>1. entry[ReqModel[r]] \in Sessions
  BY SetsAssumption DEF Typed, TypeOK, TryPooled, Servable
<1>2. StateOf(entry[ReqModel[r]]) \in LeaseStates
  BY <1>1, StateTyped DEF Typed
<1> QED
  BY <1>1, <1>2, LeaseTyped DEF TryPooled, Typed, TypeOK

\* AcquireCtx up to the locks.
LEMMA BeginTyped ==
    ASSUME Typed, NEW r \in Requests, Begin(r)
    PROVE  Typed'
<1>1. CASE TryPooled(r)
  BY <1>1, TryPooledTyped
<1>2. CASE Go(r, "want", NoSession, "acquire") /\ KeepFlag /\ UNCHANGED <<chainVars, poolVars, slot, lock, seen>>
  <2>1. TypeOK'
    BY <1>2 DEF Typed, TypeOK, Go, KeepFlag, chainVars, poolVars, PCs, Hows
  <2>2. Placed'
    BY <1>2 DEF Typed, Placed, TypeOK, Go, KeepFlag, AtSession, FromSession
  <2> QED
    BY <2>1, <2>2 DEF Typed
<1> QED
  BY <1>1, <1>2 DEF Begin

\* A step of the actor that keeps what it works on.
LEMMA StepTyped ==
    ASSUME Typed, NEW a \in Actors, NEW p \in PCs, Step(a, p),
           p \in AtSession => at[a] \in Sessions,
           p \in FromSession => from[a] \in Sessions,
           UNCHANGED <<age, dup, shown>>,
           chain' \in [Sessions -> Chains], closeSent' \subseteq Sessions,
           mark' \in [Sessions -> Marks], retired' \subseteq Sessions,
           att' \in [Sessions -> SUBSET Sessions],
           sess' \in [Sessions -> LeaseStates \cup {NoState}],
           entry' \in [Models -> Sessions \cup {NoSession}],
           slot' \in Actors \cup {NoOne}, lock' \in [Models -> Actors \cup {NoOne}]
    PROVE  Typed'
<1>1. TypeOK'
  BY DEF Typed, TypeOK, Step, Go, KeepFlag, PCs
<1>2. Placed'
  BY DEF Typed, Placed, TypeOK, Step, Go, KeepFlag
<1> QED
  BY <1>1, <1>2 DEF Typed

\* The locks, the slot and the second look.
LEMMA TakesTyped ==
    ASSUME Typed, NEW r \in Requests, TakeLock(r) \/ TakeSlot(r) \/ RetryPooled(r)
    PROVE  Typed'
<1>0. r \in Actors
  BY DEF Actors
<1>1. CASE TryPooled(r)
  BY <1>1, TryPooledTyped
<1>2. CASE ~TryPooled(r)
  <2>1. PICK p \in {"locked", "scan", "choose"} : Step(r, p)
    BY <1>2 DEF TakeLock, TakeSlot, RetryPooled
  <2>2. p \in PCs /\ p \notin AtSession /\ p \notin FromSession
    BY DEF PCs, AtSession, FromSession
  <2>3. /\ UNCHANGED <<chainVars, poolVars>>
        /\ slot' \in Actors \cup {NoOne}
        /\ lock' \in [Models -> Actors \cup {NoOne}]
    BY <1>0, <1>2 DEF TakeLock, TakeSlot, RetryPooled, Typed, TypeOK
  <2> QED
    BY <1>0, <2>1, <2>2, <2>3, StepTyped DEF Typed, TypeOK, chainVars, poolVars
<1> QED
  BY <1>1, <1>2

\* The part of the type that Go leaves alone.
TypeRest ==
    /\ chain \in [Sessions -> Chains]
    /\ age \in [Sessions -> Ages]
    /\ closeSent \subseteq Sessions
    /\ entry \in [Models -> Sessions \cup {NoSession}]
    /\ sess \in [Sessions -> LeaseStates \cup {NoState}]
    /\ mark \in [Sessions -> Marks]
    /\ retired \subseteq Sessions
    /\ dup \subseteq Sessions
    /\ att \in [Sessions -> SUBSET Sessions]
    /\ shown \subseteq Sessions
    /\ slot \in Actors \cup {NoOne}
    /\ lock \in [Models -> Actors \cup {NoOne}]
    /\ flag \in [Actors -> BOOLEAN]
    /\ from \in [Actors -> Sessions \cup {NoSession}]
    /\ seen \in [Actors -> Lists]
    /\ todo \in [Admins -> SUBSET Sessions]

\* A step that only moves the actor.
LEMMA GoTyped ==
    ASSUME Typed, TypeRest', NEW a \in Actors, NEW p \in PCs, NEW s \in Sessions \cup {NoSession},
           NEW h \in Hows, Go(a, p, s, h),
           p \in AtSession => s \in Sessions,
           p \in FromSession => from'[a] \in Sessions,
           \A b \in Actors \ {a} : from'[b] = from[b]
    PROVE  Typed'
<1>1. TypeOK'
  BY DEF Typed, TypeOK, TypeRest, Go
<1>2. Placed'
  BY DEF Typed, Placed, TypeOK, Go
<1> QED
  BY <1>1, <1>2 DEF Typed

\* Lease.Done leaves lease states.
LEMMA DoneStateTyped ==
    ASSUME TypeOK, NEW s \in Sessions
    PROVE  DoneState(s) \in [Sessions -> LeaseStates \cup {NoState}]
<1>1. CASE sess[s] = NoState \/ sess[s].inflight = 0
  BY <1>1 DEF DoneState, TypeOK
<1>2. CASE ~(sess[s] = NoState \/ sess[s].inflight = 0)
  <2>1. sess[s] \in LeaseStates
    BY <1>2 DEF TypeOK
  <2>2. sess[s].inflight - 1 \in Nat
    BY <1>2, <2>1 DEF LeaseStates
  <2>3. [sess[s] EXCEPT !.inflight = sess[s].inflight - 1] \in LeaseStates
    BY <2>1, <2>2 DEF LeaseStates
  <2> QED
    BY <1>2, <2>3 DEF DoneState, TypeOK
<1> QED
  BY <1>1, <1>2

\* A close that failed leaves lease states.
LEMMA BackToRetiredTyped ==
    ASSUME TypeOK, NEW s \in Sessions
    PROVE  BackToRetired(s) \in [Sessions -> LeaseStates \cup {NoState}]
<1>1. CASE sess[s] = NoState
  BY <1>1 DEF BackToRetired, TypeOK
<1>2. CASE sess[s] # NoState
  <2> DEFINE n == IF sess[s].closeFails < MaxCloseRetries THEN sess[s].closeFails + 1 ELSE sess[s].closeFails
  <2>1. sess[s] \in LeaseStates
    BY <1>2 DEF TypeOK
  <2>2. n \in 0 .. MaxCloseRetries
    BY <2>1, RetriesAssumption DEF LeaseStates
  <2> HIDE DEF n
  <2>3. [sess[s] EXCEPT !.closing = FALSE, !.retired = TRUE, !.closeFails = n] \in LeaseStates
    BY <2>1, <2>2 DEF LeaseStates
  <2>4. BackToRetired(s) = [sess EXCEPT ![s] = [sess[s] EXCEPT !.closing = FALSE, !.retired = TRUE, !.closeFails = n]]
    BY <1>2 DEF BackToRetired, n, TypeOK
  <2> QED
    BY <2>3, <2>4 DEF TypeOK
<1> QED
  BY <1>1, <1>2

\* A use that ends, or that fails over.
LEMMA EndsTyped ==
    ASSUME Typed, NEW r \in Requests, Refused(r) \/ Done(r) \/ Invalidate(r)
    PROVE  Typed'
<1>0. r \in Actors
  BY DEF Actors
<1>1. CASE Refused(r)
  BY <1>0, <1>1, EndTyped DEF Refused, Typed, TypeOK, chainVars, poolVars
<1>2. CASE Done(r)
  <2>1. at[r] \in Sessions
    BY <1>0, <1>2 DEF Done, Typed, Placed, AtSession
  <2>2. sess' \in [Sessions -> LeaseStates \cup {NoState}]
    BY <1>2, <2>1, DoneStateTyped DEF Done, Typed
  <2> QED
    BY <1>0, <1>2, <2>2, EndTyped DEF Done, Typed, TypeOK, chainVars
<1>3. CASE Invalidate(r)
  <2>1. sess' \in [Sessions -> LeaseStates \cup {NoState}] /\ entry' \in [Models -> Sessions \cup {NoSession}]
    BY <1>3 DEF Invalidate, Typed, TypeOK
  <2> QED
    BY <1>0, <1>3, <2>1, EndTyped DEF Invalidate, Typed, TypeOK, chainVars
<1> QED
  BY <1>1, <1>2, <1>3

\* Invalidate and the session found dead.
LEMMA DeadTyped ==
    ASSUME Typed, NEW r \in Requests, SessionDead(r) \/ ProviderFails(r)
    PROVE  Typed'
<1>0. r \in Actors
  BY DEF Actors
<1>1. at[r] \in Sessions
  BY <1>0 DEF SessionDead, ProviderFails, Typed, Placed, AtSession
<1>2. sess' \in [Sessions -> LeaseStates \cup {NoState}]
  BY <1>1, DoneStateTyped DEF SessionDead, ProviderFails, Typed
<1>3. TypeRest'
  BY <1>0, <1>1, <1>2 DEF SessionDead, ProviderFails, KeepFlag, TypeRest, Typed, TypeOK, chainVars
<1>4. CASE SessionDead(r)
  BY <1>0, <1>3, <1>4, GoTyped DEF SessionDead, KeepFlag, PCs, Hows, AtSession, FromSession
<1>5. CASE ProviderFails(r)
  <2>1. from'[r] \in Sessions /\ \A b \in Actors \ {r} : from'[b] = from[b]
    BY <1>0, <1>1, <1>5 DEF ProviderFails, Typed, TypeOK
  <2> QED
    BY <1>0, <1>3, <1>5, <2>1, GoTyped DEF ProviderFails, PCs, Hows, AtSession, FromSession
<1> QED
  BY <1>4, <1>5

\* The release of a key.
LEMMA ReleaseTyped ==
    ASSUME Typed, NEW m \in Models, NEW k \in Keys, Release(m, k)
    PROVE  Typed'
<1>1. PICK s \in ReleaseTargets(m, k) : 
          LET left == sess[s].holders \ {k}
              last == left = {} /\ sess[s].inflight = 0
          IN  /\ sess' = [sess EXCEPT ![s].holders = left,
                                      ![s].retired = @ \/ last]
              /\ entry' = IF last /\ entry[m] = s
                          THEN [entry EXCEPT ![m] = NoSession] ELSE entry
              /\ retired' = IF last THEN retired \cup {s} ELSE retired
  BY DEF Release
<1> DEFINE left == sess[s].holders \ {k}
           ret == sess[s].retired \/ (left = {} /\ sess[s].inflight = 0)
<1>2. s \in Sessions /\ sess[s] \in LeaseStates
  BY DEF ReleaseTargets, Typed, TypeOK, Tracked
<1>3. left \in SUBSET Keys /\ ret \in BOOLEAN
  BY <1>2 DEF LeaseStates
<1>4. sess' = [sess EXCEPT ![s] = [sess[s] EXCEPT !.holders = left, !.retired = ret]]
  BY <1>1, <1>2 DEF Typed, TypeOK
<1> HIDE DEF left, ret
<1>5. [sess[s] EXCEPT !.holders = left, !.retired = ret] \in LeaseStates
  BY <1>2, <1>3 DEF LeaseStates
<1>6. sess' \in [Sessions -> LeaseStates \cup {NoState}]
  BY <1>4, <1>5 DEF Typed, TypeOK
<1>7. TypeOK'
  BY <1>1, <1>2, <1>6 DEF Release, Typed, TypeOK, actorVars, chainVars
<1>8. Placed'
  BY DEF Release, Typed, Placed, actorVars
<1> QED
  BY <1>7, <1>8 DEF Typed

\* The choice of bids and the open POST.
LEMMA ChooseTyped ==
    ASSUME Typed, NEW r \in Requests, ChooseBids(r) \/ Post(r) \/ FailoverOpen(r)
    PROVE  Typed'
<1>0. r \in Actors
  BY DEF Actors
<1>1. CASE ChooseBids(r)
  <2>1. TypeRest'
    <3>1. flag' \in [Actors -> BOOLEAN]
      BY <1>0, <1>1 DEF ChooseBids, Typed, TypeOK
    <3> QED
      BY <3>1, <1>1 DEF ChooseBids, Typed, TypeOK, TypeRest, Lists, NoList, chainVars, poolVars
  <2>2. how[r] \in Hows
    BY <1>0 DEF Typed, TypeOK
  <2> QED
    BY <1>0, <1>1, <2>1, <2>2, GoTyped DEF ChooseBids, PCs, AtSession, FromSession
<1>2. CASE Post(r)
  <2>1. PICK x \in Of(Sessions, ReqModel[r]) :
          /\ \E skewed \in SUBSET {s \in Sessions : chain[s] = "open" /\ age[s] = "young"} :
                att' = [att EXCEPT ![x] = Matchable(x, skewed)]
          /\ chain' = [chain EXCEPT ![x] = "sent"]
          /\ Go(r, "posting", x, how[r])
    BY <1>2 DEF Post
  <2>2. x \in Sessions /\ how[r] \in Hows
    BY <1>0 DEF Of, Typed, TypeOK
  <2>3. chain' \in [Sessions -> Chains] /\ att' \in [Sessions -> SUBSET Sessions]
    <3>1. \A skewed : Matchable(x, skewed) \in SUBSET Sessions
      BY DEF Matchable
    <3> QED
      BY <2>1, <2>2, <3>1 DEF Typed, TypeOK, Chains
  <2>4. TypeRest'
    BY <1>2, <2>3 DEF Post, KeepFlag, Typed, TypeOK, TypeRest
  <2> QED
    BY <1>0, <1>2, <2>1, <2>2, <2>4, GoTyped DEF Post, KeepFlag, PCs, AtSession, FromSession
<1>3. CASE FailoverOpen(r)
  <2>1. slot' \in Actors \cup {NoOne}
    BY <1>0, <1>3 DEF FailoverOpen
  <2> QED
    BY <1>0, <1>3, <2>1, StepTyped DEF FailoverOpen, Typed, TypeOK, chainVars, poolVars, PCs, AtSession, FromSession
<1> QED
  BY <1>1, <1>2, <1>3

\* An open that has its session.
LEMMA GotTyped ==
    ASSUME Typed, NEW r \in Requests, NEW s \in Sessions, NEW resumed \in BOOLEAN, Got(r, s, resumed),
           UNCHANGED <<chainVars, entry, sess, mark, retired, shown>>,
           dup' \subseteq Sessions, att' \in [Sessions -> SUBSET Sessions]
    PROVE  Typed'
<1>1. r \in Actors /\ how[r] \in Hows
  BY DEF Actors, Typed, TypeOK
<1>2. TypeRest'
  BY DEF Got, Free, Typed, TypeOK, TypeRest, chainVars
<1> QED
  BY <1>1, <1>2, GoTyped DEF Got, PCs, AtSession, FromSession

\* The walk to the next bid.
LEMMA NextBidTyped ==
    ASSUME Typed, NEW r \in Requests, NextBid(r),
           UNCHANGED <<age, closeSent, entry, sess, mark, retired, dup, shown>>,
           chain' \in [Sessions -> Chains], att' \in [Sessions -> SUBSET Sessions]
    PROVE  Typed'
<1>1. r \in Actors /\ how[r] \in Hows
  BY DEF Actors, Typed, TypeOK
<1>2. CASE End(r)
  BY <1>1, <1>2, EndTyped DEF Typed, TypeOK
<1>3. CASE Go(r, "chosen", NoSession, how[r]) /\ KeepFlag /\ UNCHANGED <<slot, lock, seen>>
  <2>1. TypeRest'
    BY <1>3 DEF KeepFlag, Typed, TypeOK, TypeRest
  <2> QED
    BY <1>1, <1>3, <2>1, GoTyped DEF KeepFlag, PCs, AtSession, FromSession
<1> QED
  BY <1>2, <1>3 DEF NextBid

\* The answers of the open POST.
LEMMA PostedTyped ==
    ASSUME Typed, NEW r \in Requests, PostOK(r) \/ PostExisting(r) \/ PostFailed(r) \/ PostLost(r)
    PROVE  Typed'
<1>0. r \in Actors /\ at[r] \in Sessions /\ how[r] \in Hows
  BY DEF Actors, PostOK, PostExisting, PostFailed, PostLost, Typed, TypeOK, Placed, AtSession
<1>1. CASE PostOK(r)
  BY <1>0, <1>1, GotTyped DEF PostOK, Typed, TypeOK
<1>2. CASE PostExisting(r)
  <2>1. PICK y \in Of(Sessions, ReqModel[r]) : Go(r, "named", y, how[r])
    BY <1>2 DEF PostExisting
  <2>2. y \in Sessions
    BY DEF Of
  <2>3. TypeRest'
    BY <1>2 DEF PostExisting, KeepFlag, Typed, TypeOK, TypeRest, Chains
  <2> QED
    BY <1>0, <1>2, <2>1, <2>2, <2>3, GoTyped DEF PostExisting, KeepFlag, PCs, AtSession, FromSession
<1>3. CASE PostFailed(r)
  <2>1. chain' \in [Sessions -> Chains] /\ att' \in [Sessions -> SUBSET Sessions]
    BY <1>3 DEF PostFailed, Typed, TypeOK, Chains
  <2> QED
    BY <1>3, <2>1, NextBidTyped DEF PostFailed
<1>4. CASE PostLost(r)
  <2>1. CASE Step(r, "reconcile") /\ UNCHANGED <<slot, lock>>
    BY <1>0, <1>4, <2>1, StepTyped DEF PostLost, Typed, TypeOK, chainVars, poolVars, PCs, AtSession, FromSession
  <2>2. CASE NextBid(r)
    BY <1>4, <2>2, NextBidTyped DEF PostLost, Typed, TypeOK, chainVars, poolVars
  <2> QED
    BY <1>4, <2>1, <2>2 DEF PostLost
<1> QED
  BY <1>1, <1>2, <1>3, <1>4

\* The reconciliation of a lost answer.
LEMMA ReconcileTyped ==
    ASSUME Typed, NEW r \in Requests, Reconcile(r)
    PROVE  Typed'
<1>0. r \in Actors
  BY DEF Actors
<1>1. PICK L \in SUBSET Sessions : MatchOpen(r, L)
  BY DEF Reconcile
<1> DEFINE found == {s \in L : /\ s \in att[at[r]]
                             /\ mark[s] = "none"
                             /\ ~Tracked(s)
                             /\ Usable(s)}
<1>2. CASE End(r) /\ UNCHANGED <<dup, att>>
  BY <1>0, <1>2, EndTyped DEF Reconcile, Typed, TypeOK, chainVars
<1>3. CASE \E keep \in found :
                /\ dup' = dup \cup (found \ {keep})
                /\ att' = [att EXCEPT ![at[r]] = {}]
                /\ Got(r, keep, FALSE)
  <2>1. PICK keep \in found :
                /\ dup' = dup \cup (found \ {keep})
                /\ att' = [att EXCEPT ![at[r]] = {}]
                /\ Got(r, keep, FALSE)
    BY <1>3
  <2>2. keep \in Sessions /\ dup' \subseteq Sessions /\ att' \in [Sessions -> SUBSET Sessions]
    BY <2>1 DEF Typed, TypeOK
  <2> QED
    BY <2>1, <2>2, GotTyped DEF Reconcile
<1> QED
  BY <1>1, <1>2, <1>3 DEF MatchOpen

\* The adoption of the session the router names, and its pooling.
LEMMA AdoptTyped ==
    ASSUME Typed, NEW r \in Requests, AdoptExisting(r) \/ PoolOpened(r)
    PROVE  Typed'
<1>0. r \in Actors /\ at[r] \in Sessions
  BY DEF Actors, AdoptExisting, PoolOpened, Typed, Placed, AtSession
<1>1. CASE AdoptExisting(r)
  <2>1. CASE End(r) /\ UNCHANGED att
    BY <1>0, <1>1, <2>1, EndTyped DEF AdoptExisting, Typed, TypeOK, chainVars
  <2>2. CASE \E b \in BOOLEAN : Got(r, at[r], b) /\ att' \in [Sessions -> SUBSET Sessions]
    BY <1>0, <1>1, <2>2, GotTyped DEF AdoptExisting, Typed, TypeOK
  <2>3. \/ End(r) /\ UNCHANGED att
        \/ \E b \in BOOLEAN : Got(r, at[r], b) /\ (att' = att \/ \E a : att' = [att EXCEPT ![a] = {}])
    BY <1>1, Zenon DEF AdoptExisting
  <2>4. att' = att \/ (\E a : att' = [att EXCEPT ![a] = {}]) => att' \in [Sessions -> SUBSET Sessions]
    BY DEF Typed, TypeOK
  <2> QED
    BY <2>1, <2>2, <2>3, <2>4, Zenon
<1>2. CASE PoolOpened(r)
  <2>1. PICK st \in LeaseStates : Lease(r, at[r], st)
    BY <1>0, <1>2, NewStateTyped, StateTyped DEF PoolOpened, Typed
  <2>2. entry' \in [Models -> Sessions \cup {NoSession}]
    BY <1>0, <1>2 DEF PoolOpened, Typed, TypeOK
  <2> QED
    BY <1>0, <1>2, <2>1, <2>2, LeaseTyped DEF PoolOpened
<1> QED
  BY <1>1, <1>2

\* The steps of a scan before it applies its list.
LEMMA ReadTyped ==
    ASSUME Typed, NEW a \in Actors, ReadList(a) \/ ReadFails(a)
    PROVE  Typed'
<1>0. at[a] \in Sessions \cup {NoSession} /\ how[a] \in Hows
  BY DEF Typed, TypeOK
<1>1. CASE ReadList(a)
  <2>1. PICK L \in SUBSET Sessions :
          seen' = [seen EXCEPT ![a] = [open |-> L, old |-> {s \in Sessions : age[s] # "young"}]]
    BY <1>1 DEF ReadList
  <2>2. seen' \in [Actors -> Lists]
    BY <2>1 DEF Typed, TypeOK, Lists
  <2>3. TypeRest'
    BY <1>1, <2>2 DEF ReadList, KeepFlag, Typed, TypeOK, TypeRest, chainVars, poolVars
  <2> QED
    BY <1>0, <1>1, <2>3, GoTyped DEF ReadList, KeepFlag, PCs, AtSession, FromSession
<1>2. CASE ReadFails(a)
  <2>1. CASE Step(a, "miss") /\ UNCHANGED <<slot, lock>>
    BY <1>2, <2>1, StepTyped DEF ReadFails, Typed, TypeOK, chainVars, poolVars, PCs, AtSession, FromSession
  <2>2. CASE End(a)
    BY <1>2, <2>2, EndTyped DEF ReadFails, Typed, TypeOK, chainVars, poolVars
  <2> QED
    BY <1>2, <2>1, <2>2 DEF ReadFails
<1> QED
  BY <1>1, <1>2

\* What a scan does to the lease states and to the pool.
LEMMA ScanTyped ==
    ASSUME Typed, NEW a \in Actors, ApplyScan(a)
    PROVE  /\ att' \in [Sessions -> SUBSET Sessions]
           /\ entry' \in [Models -> Sessions \cup {NoSession}]
           /\ sess' \in [Sessions -> LeaseStates \cup {NoState}]
           /\ \A s \in Sessions : sess'[s] \in {NoState, NewState, sess[s]}
           /\ dup' \subseteq Sessions /\ shown' \subseteq Sessions
           /\ \E due \in SUBSET Sessions : SweepPick(a, due, ScanMarks(seen[a].open))
           /\ UNCHANGED <<chain, age, retired>>
<1> DEFINE L == seen[a].open
           mk == ScanMarks(L)
           unmarked == {s \in L : mk[s] = "none"}
           unheld == {s \in unmarked : ~Held(s)}
           heldDue == {s \in unmarked : Held(s) /\ HeldDue(s)}
           Matched(f) == {s \in unheld : f[s] # NoSession}
           Ours(f) == {s \in Matched(f) : Usable(s)}
           Rest(f) == unheld \ Matched(f)
           Older(f) == {s \in Rest(f) : ~RestDue(s) /\ age[s] # "young"}
           Due(f) == {s \in Rest(f) : RestDue(s)}
           Pooled(keep) == [m \in Models |-> IF keep[m] = NoSession THEN entry[m] ELSE keep[m]]
           Track(keep) == [s \in Sessions |-> IF s \in Range(keep) THEN StateOf(s) ELSE sess[s]]
           Outcome(f, keep) ==
             /\ att' = [s \in Sessions |-> IF s \in Range(f) THEN {} ELSE att[s]]
             /\ entry' = [m \in Models |->
                  IF Pooled(keep)[m] \in ClosedLate(L) THEN NoSession
                  ELSE IF Pooled(keep)[m] # NoSession
                          /\ PruneEntry(Pooled(keep)[m], Track(keep)[Pooled(keep)[m]], seen[a])
                  THEN NoSession ELSE Pooled(keep)[m]]
             /\ sess' = [s \in Sessions |-> IF s \in ClosedLate(L) THEN NoState ELSE Track(keep)[s]]
             /\ dup' = (dup \cup (Ours(f) \ Range(keep))) \cap L
             /\ SweepPick(a, heldDue \cup Due(f) \cup (Matched(f) \ Ours(f))
                             \cup ((Ours(f) \cup Older(f)) \ Range(keep)), mk)
<1>0. PICK f \in Matchings(unheld) : \E keep \in Keeps(Ours(f), Older(f), mk) : Outcome(f, keep)
  BY Zenon DEF ApplyScan
<1>1. PICK keep \in Keeps(Ours(f), Older(f), mk) : Outcome(f, keep)
  BY <1>0
<1>2. L \in SUBSET Sessions
  BY DEF Typed, TypeOK, Lists
<1>3. keep \in [Models -> Sessions \cup {NoSession}]
  BY DEF Keeps
<1>4. \A s \in Sessions : StateOf(s) \in LeaseStates /\ StateOf(s) \in {NewState, sess[s]}
  BY StateTyped DEF Typed, StateOf
<1>5. \A s \in Sessions : sess'[s] \in {NoState, StateOf(s), sess[s]}
  BY <1>1
<1>6. sess' \in [Sessions -> LeaseStates \cup {NoState}]
  BY <1>1, <1>4 DEF Typed, TypeOK
<1>7. att' \in [Sessions -> SUBSET Sessions]
  BY <1>1 DEF Typed, TypeOK
<1>8. entry' \in [Models -> Sessions \cup {NoSession}]
  <2>1. Pooled(keep) \in [Models -> Sessions \cup {NoSession}]
    BY <1>3 DEF Typed, TypeOK
  <2> HIDE DEF Pooled, Track
  <2> QED
    BY <1>1, <2>1
<1>9. dup' \subseteq Sessions
  BY <1>1, <1>2
<1>10. shown' \subseteq Sessions /\ UNCHANGED <<chain, age, retired>>
  BY <1>2 DEF ApplyScan
<1>11. \E due \in SUBSET Sessions : SweepPick(a, due, mk)
  <2> DEFINE due == heldDue \cup Due(f) \cup (Matched(f) \ Ours(f))
                             \cup ((Ours(f) \cup Older(f)) \ Range(keep))
  <2>1. due \in SUBSET Sessions
    BY <1>2
  <2>2. SweepPick(a, due, mk)
    BY <1>1
  <2> QED
    BY <2>1, <2>2
<1> QED
  BY <1>4, <1>5, <1>6, <1>7, <1>8, <1>9, <1>10, <1>11

\* The marks a scan leaves.
LEMMA MarksTyped ==
    ASSUME TypeOK, NEW L
    PROVE  /\ LiveMarks \in [Sessions -> Marks]
           /\ ScanMarks(L) \in [Sessions -> Marks]
BY DEF TypeOK, LiveMarks, ScanMarks, Marks

\* A scan that applies its list.
LEMMA ApplyTyped ==
    ASSUME Typed, NEW a \in Actors, ApplyScan(a)
    PROVE  Typed'
<1> DEFINE mk == ScanMarks(seen[a].open)
<1>1. PICK due \in SUBSET Sessions : SweepPick(a, due, mk)
  BY ScanTyped
<1>2. mk \in [Sessions -> Marks]
  BY MarksTyped DEF Typed
<1> HIDE DEF mk
<1>3. CASE a \in Sweepers /\ due # {} /\ \A s \in Sessions : mk[s] # "cut"
  <2>1. PICK c \in due :
            /\ mark' = [mk EXCEPT ![c] = "now"]
            /\ closeSent' = closeSent \cup {c}
            /\ Go(a, "closing", c, "scan") /\ KeepFlag
            /\ seen' = [seen EXCEPT ![a] = NoList]
            /\ UNCHANGED <<slot, lock>>
    BY <1>1, <1>3 DEF SweepPick
  <2>2. c \in Sessions
    OBVIOUS
  <2>3. mark' \in [Sessions -> Marks] /\ closeSent' \subseteq Sessions /\ seen' \in [Actors -> Lists]
    BY <1>2, <2>1, <2>2 DEF Typed, TypeOK, Marks, Lists, NoList
  <2>4. TypeRest'
    BY <2>1, <2>3, ScanTyped DEF Typed, TypeOK, TypeRest, KeepFlag
  <2> QED
    BY <2>1, <2>2, <2>4, GoTyped DEF KeepFlag, PCs, Hows, FromSession
<1>4. CASE ~(a \in Sweepers /\ due # {} /\ \A s \in Sessions : mk[s] # "cut")
  <2>1. /\ mark' = mk
        /\ UNCHANGED closeSent
        /\ IF a \in Requests THEN Step(a, "miss") /\ UNCHANGED <<slot, lock>> ELSE End(a)
    BY <1>1, <1>4 DEF SweepPick
  <2>2. TypeOK' /\ Placed'
    <3>1. CASE Step(a, "miss") /\ UNCHANGED <<slot, lock>>
      <4>1. TypeRest'
        BY <1>2, <2>1, <3>1, ScanTyped DEF Typed, TypeOK, TypeRest, Step, KeepFlag
      <4>2. at[a] \in Sessions \cup {NoSession} /\ how[a] \in Hows
        BY DEF Typed, TypeOK
      <4> QED
        BY <3>1, <4>1, <4>2, GoTyped DEF Step, KeepFlag, PCs, AtSession, FromSession, Typed
    <3>2. CASE End(a)
      <4>1. TypeRest'
        BY <1>2, <2>1, <3>2, ScanTyped DEF Typed, TypeOK, TypeRest, End, FreeAll, Free, Unlock, Lists, NoList
      <4>2. \A b \in Actors \ {a} : from'[b] = from[b]
        BY <3>2 DEF End, Typed, TypeOK
      <4> QED
        BY <3>2, <4>1, <4>2, GoTyped DEF End, PCs, Hows, AtSession, FromSession, Typed
    <3> QED
      BY <2>1, <3>1, <3>2
  <2> QED
    BY <2>2 DEF Typed
<1> QED
  BY <1>3, <1>4

\* What follows a close.
LEMMA AfterCloseTyped ==
    ASSUME Typed, NEW a \in Actors, AfterClose(a),
           UNCHANGED <<chain, age, retired, dup, att, shown>>, closeSent' \subseteq Sessions,
           mark' \in [Sessions -> Marks],
           sess' \in [Sessions -> LeaseStates \cup {NoState}],
           entry' \in [Models -> Sessions \cup {NoSession}]
    PROVE  Typed'
<1>1. CASE End(a)
  BY <1>1, EndTyped DEF Typed, TypeOK
<1>2. CASE \E p \in {"drop", "foOpen"} : Step(a, p) /\ slot' = Free(a) /\ UNCHANGED lock
  <2>1. PICK p \in {"drop", "foOpen"} : Step(a, p) /\ slot' = Free(a) /\ UNCHANGED lock
    BY <1>2
  <2>2. slot' \in Actors \cup {NoOne} /\ p \in PCs /\ p \notin AtSession /\ p \notin FromSession
    BY <2>1 DEF Free, Typed, TypeOK, PCs, AtSession, FromSession
  <2> QED
    BY <2>1, <2>2, StepTyped DEF Typed, TypeOK
<1> QED
  BY <1>1, <1>2 DEF AfterClose

\* A close cut or refused.
LEMMA GivenUpTyped ==
    ASSUME Typed, NEW a \in Actors, CloseGivenUp(a), at[a] \in Sessions,
           UNCHANGED <<chain, age, entry, sess, retired, dup, att, shown>>, closeSent' \subseteq Sessions,
           mark' \in [Sessions -> Marks]
    PROVE  Typed'
<1>1. CASE AfterClose(a)
  BY <1>1, AfterCloseTyped DEF Typed, TypeOK
<1>2. CASE Step(a, "closeFailed") /\ slot' = Free(a) /\ UNCHANGED lock
  <2>2. slot' \in Actors \cup {NoOne}
    BY <1>2 DEF Free, Typed, TypeOK
  <2> QED
    BY <1>2, <2>2, StepTyped DEF Typed, TypeOK, PCs, FromSession
<1> QED
  BY <1>1, <1>2 DEF CloseGivenUp

\* A close carried out, and what it forgets.
LEMMA CloseTyped ==
    ASSUME Typed, NEW a \in Actors, CloseStep(a)
    PROVE  Typed'
<1>0. at[a] \in Sessions
  BY DEF CloseStep, CloseDone, CloseCut, CloseFails, Forget, CloseFailed, Typed, Placed, AtSession
<1>1. CASE CloseDone(a)
  <2>1. TypeRest'
    BY <1>0, <1>1 DEF CloseDone, Step, KeepFlag, Typed, TypeOK, TypeRest, Marks
  <2>2. how[a] \in Hows
    BY DEF Typed, TypeOK
  <2> QED
    BY <1>0, <1>1, <2>1, <2>2, GoTyped DEF CloseDone, Step, KeepFlag, PCs, FromSession
<1>2. CASE CloseCut(a)
  <2>1. mark' \in [Sessions -> Marks]
    BY <1>2 DEF CloseCut, Typed, TypeOK, Marks
  <2> QED
    BY <1>0, <1>2, <2>1, GivenUpTyped DEF CloseCut, Typed, TypeOK, chainVars
<1>3. CASE CloseFails(a)
  <2>1. mark' \in [Sessions -> Marks] /\ closeSent' \subseteq Sessions
    BY <1>3 DEF CloseFails, Typed, TypeOK, Marks
  <2> QED
    BY <1>0, <1>3, <2>1, GivenUpTyped DEF CloseFails
<1>4. CASE Forget(a)
  <2>1. sess' \in [Sessions -> LeaseStates \cup {NoState}] /\ entry' \in [Models -> Sessions \cup {NoSession}]
    BY <1>4 DEF Forget, Typed, TypeOK
  <2> QED
    BY <1>4, <2>1, AfterCloseTyped DEF Forget, Typed, TypeOK, chainVars
<1>5. CASE CloseFailed(a)
  <2>1. sess' \in [Sessions -> LeaseStates \cup {NoState}]
    BY <1>0, <1>5, BackToRetiredTyped DEF CloseFailed, Typed
  <2> QED
    BY <1>5, <2>1, AfterCloseTyped DEF CloseFailed, Typed, TypeOK, chainVars
<1> QED
  BY <1>1, <1>2, <1>3, <1>4, <1>5 DEF CloseStep

\* The steps of a close.
LEMMA ClosingTyped ==
    ASSUME TypeOK, NEW s \in Sessions, Tracked(s), NEW now \in BOOLEAN, NEW ret \in BOOLEAN
    PROVE  /\ [sess EXCEPT ![s].closing = TRUE] \in [Sessions -> LeaseStates \cup {NoState}]
           /\ [sess EXCEPT ![s].retired = ret, ![s].closing = now] \in [Sessions -> LeaseStates \cup {NoState}]
<1>1. sess[s] \in LeaseStates
  BY DEF TypeOK, Tracked
<1>2. /\ [sess[s] EXCEPT !.closing = TRUE] \in LeaseStates
      /\ [sess[s] EXCEPT !.retired = ret, !.closing = now] \in LeaseStates
  BY <1>1 DEF LeaseStates
<1>3. [sess EXCEPT ![s].retired = ret, ![s].closing = now]
        = [sess EXCEPT ![s] = [sess[s] EXCEPT !.retired = ret, !.closing = now]]
  BY DEF TypeOK
<1> QED
  BY <1>2, <1>3 DEF TypeOK

\* The sweep of retired sessions.
LEMMA SweepTyped ==
    ASSUME Typed, NEW a \in Actors, SweepRetired(a) \/ ScanOrphans(a) \/ Rehydrate(a)
    PROVE  Typed'
<1>1. CASE SweepRetired(a)
  <2>1. PICK s \in Sessions :
          /\ CloseDue(s)
          /\ sess' = [sess EXCEPT ![s].closing = TRUE]
          /\ entry' = [m \in Models |-> IF entry[m] = s THEN NoSession ELSE entry[m]]
          /\ retired' = retired \cup {s}
          /\ slot' = a
          /\ mark' = [LiveMarks EXCEPT ![s] = "now"]
          /\ closeSent' = closeSent \cup {s}
          /\ Go(a, "closing", s, "retired") /\ KeepFlag
    BY <1>1 DEF SweepRetired
  <2>2. sess' \in [Sessions -> LeaseStates \cup {NoState}]
    BY <2>1, ClosingTyped DEF CloseDue, Typed
  <2>3. mark' \in [Sessions -> Marks]
    BY <2>1, MarksTyped DEF Typed, Marks
  <2>4. TypeRest'
    BY <1>1, <2>1, <2>2, <2>3 DEF SweepRetired, KeepFlag, Typed, TypeOK, TypeRest
  <2> QED
    BY <2>1, <2>4, GoTyped DEF KeepFlag, PCs, Hows, FromSession
<1>2. CASE ScanOrphans(a) \/ Rehydrate(a)
  <2>1. slot' \in Actors \cup {NoOne}
    BY <1>2 DEF ScanOrphans, Rehydrate, Typed, TypeOK
  <2> QED
    BY <1>2, <2>1, StepTyped DEF ScanOrphans, Rehydrate, Typed, TypeOK, chainVars, poolVars, PCs, AtSession, FromSession
<1> QED
  BY <1>1, <1>2

\* The admin closes.
LEMMA AdminTyped ==
    ASSUME Typed, NEW a \in Admins, AdminClose(a) \/ AdminNext(a) \/ AdminRescan(a)
    PROVE  Typed'
<1>0. a \in Actors
  BY DEF Actors
<1>1. CASE AdminClose(a)
  <2>1. PICK T \in SUBSET Sessions :
          /\ todo' = [todo EXCEPT ![a] = T]
          /\ entry' = [m \in Models |-> IF entry[m] \in T THEN NoSession ELSE entry[m]]
    <3>1. PooledSessions \cup shown \subseteq Sessions
      BY DEF PooledSessions, Range, Typed, TypeOK
    <3> QED
      BY <1>1, <3>1 DEF AdminClose
  <2>2. TypeRest'
    BY <1>1, <2>1 DEF AdminClose, Typed, TypeOK, TypeRest, chainVars
  <2> QED
    BY <1>0, <1>1, <2>2, GoTyped DEF AdminClose, PCs, Hows, AtSession, FromSession
<1>2. CASE AdminNext(a)
  <2>1. PICK s \in todo[a] :
          /\ todo' = [todo EXCEPT ![a] = @ \ {s}]
          /\ \/ /\ slot = NoOne
                /\ slot' = a
                /\ mark' = [mark EXCEPT ![s] = "now"]
                /\ closeSent' = closeSent \cup {s}
                /\ Go(a, "closing", s, "admin")
             \/ UNCHANGED <<slot, mark, closeSent, pc, at, how>>
    BY <1>2 DEF AdminNext
  <2>2. s \in Sessions
    BY DEF Typed, TypeOK
  <2>3. todo' \in [Admins -> SUBSET Sessions]
    BY <2>1 DEF Typed, TypeOK
  <2>4. CASE Go(a, "closing", s, "admin") /\ slot' = a /\ mark' = [mark EXCEPT ![s] = "now"]
               /\ closeSent' = closeSent \cup {s}
    <3>1. TypeRest'
      BY <1>0, <1>2, <2>2, <2>3, <2>4 DEF AdminNext, Typed, TypeOK, TypeRest, Marks
    <3> QED
      BY <1>0, <1>2, <2>2, <2>4, <3>1, GoTyped DEF AdminNext, PCs, Hows, FromSession
  <2>5. CASE UNCHANGED <<slot, mark, closeSent, pc, at, how>>
    BY <1>2, <2>3, <2>5 DEF AdminNext, Typed, TypeOK, Placed
  <2> QED
    BY <2>1, <2>4, <2>5
<1>3. CASE AdminRescan(a)
  <2>1. CASE Step(a, "scan") /\ UNCHANGED <<slot, lock>>
    BY <1>0, <1>3, <2>1, StepTyped DEF AdminRescan, Typed, TypeOK, chainVars, poolVars, PCs, AtSession, FromSession
  <2>2. CASE End(a)
    BY <1>0, <1>3, <2>2, EndTyped DEF AdminRescan, Typed, TypeOK, chainVars, poolVars
  <2> QED
    BY <1>3, <2>1, <2>2 DEF AdminRescan
<1> QED
  BY <1>1, <1>2, <1>3

\* A stream cut under a background failover.
LEMMA StreamCutTyped ==
    ASSUME Typed, NEW r \in Requests, NEW b \in Backgrounds, StreamCut(r, b)
    PROVE  Typed'
<1>0. r \in Actors /\ b \in Actors
  BY DEF Actors
<1>1. at[r] \in Sessions
  BY <1>0 DEF StreamCut, Typed, Placed, AtSession
<1>2. TypeRest' /\ from'[b] \in Sessions /\ \A c \in Actors \ {b} : from'[c] = from[c]
  BY <1>0, <1>1 DEF StreamCut, Typed, TypeOK, TypeRest, chainVars, poolVars
<1> QED
  BY <1>0, <1>2, GoTyped DEF StreamCut, PCs, Hows, AtSession

\* FailoverCtx.
LEMMA FailoverTyped ==
    ASSUME Typed, NEW a \in Requests \cup Backgrounds, FailoverStep(a)
    PROVE  Typed'
<1>0. a \in Actors /\ how[a] \in Hows
  BY DEF Actors, Typed, TypeOK
<1>1. CASE FailoverLocked(a)
  <2> DEFINE m == ModelAt(a)
             c == entry[m]
  <2>0. from[a] \in Sessions /\ m \in Models
    BY <1>0, <1>1, SetsAssumption DEF FailoverLocked, Typed, Placed, FromSession, ModelAt
  <2>1. CASE a \in Requests /\ c # NoSession /\ Lease(a, c, StateOf(c))
    <3>1. c \in Sessions
      BY <2>0, <2>1 DEF Typed, TypeOK
    <3>2. StateOf(c) \in LeaseStates
      BY <3>1, StateTyped DEF Typed
    <3> HIDE DEF c
    <3> QED
      BY <1>1, <2>1, <3>1, <3>2, LeaseTyped DEF FailoverLocked, Typed, TypeOK
  <2>2. CASE End(a) /\ UNCHANGED sess
    BY <1>0, <1>1, <2>2, EndTyped DEF FailoverLocked, Typed, TypeOK, chainVars
  <2>3. CASE /\ Go(a, "foOpen", NoSession, "reopen")
             /\ lock' = [lock EXCEPT ![m] = a]
             /\ KeepFlag /\ UNCHANGED <<slot, seen, sess>>
    <3>1. TypeRest'
      BY <1>0, <1>1, <2>0, <2>3 DEF FailoverLocked, KeepFlag, Typed, TypeOK, TypeRest, chainVars
    <3> QED
      BY <1>0, <2>3, <3>1, GoTyped DEF KeepFlag, PCs, Hows, AtSession, FromSession
  <2>4. CASE Step(a, "foCand") /\ lock' = [lock EXCEPT ![m] = a] /\ UNCHANGED <<slot, sess>>
    <3>1. lock' \in [Models -> Actors \cup {NoOne}]
      BY <1>0, <2>0, <2>4 DEF Typed, TypeOK
    <3> QED
      BY <1>0, <1>1, <2>0, <2>4, <3>1, StepTyped DEF FailoverLocked, Typed, TypeOK, chainVars, PCs, AtSession
  <2> QED
    BY <1>1, <2>1, <2>2, <2>3, <2>4 DEF FailoverLocked
<1>2. CASE FailoverCandidates(a)
  <2>0. from[a] \in Sessions
    BY <1>0, <1>2 DEF FailoverCandidates, Typed, Placed, FromSession
  <2>1. CASE Step(a, "foRetire") /\ UNCHANGED <<slot, lock>>
    BY <1>0, <1>2, <2>0, <2>1, StepTyped DEF FailoverCandidates, Typed, TypeOK, chainVars, poolVars, PCs, AtSession
  <2>2. CASE End(a)
    BY <1>0, <1>2, <2>2, EndTyped DEF FailoverCandidates, Typed, TypeOK, chainVars, poolVars
  <2> QED
    BY <1>2, <2>1, <2>2 DEF FailoverCandidates
<1>3. CASE FailoverRetire(a)
  <2> DEFINE m == ModelAt(a)
             s == from[a]
             now == IF Tracked(s) THEN sess[s].inflight = 0 /\ ~sess[s].closing ELSE TRUE
  <2>0. s \in Sessions
    BY <1>0, <1>3 DEF FailoverRetire, Typed, Placed, FromSession
  <2>1. sess' \in [Sessions -> LeaseStates \cup {NoState}]
    <3>1. CASE Tracked(s)
      <4> DEFINE cl == sess[s].closing \/ now
      <4>1. sess' = [sess EXCEPT ![s].retired = TRUE, ![s].closing = cl]
        BY <1>3, <2>0, <3>1 DEF FailoverRetire, Typed, TypeOK
      <4>2. cl \in BOOLEAN
        BY <2>0, <3>1, StateTyped DEF LeaseStates, Tracked, Typed
      <4> HIDE DEF cl, s
      <4> QED
        BY <2>0, <3>1, <4>1, <4>2, ClosingTyped DEF Typed
    <3>2. CASE ~Tracked(s)
      BY <1>3, <3>2 DEF FailoverRetire, Typed, TypeOK
    <3> QED
      BY <3>1, <3>2
  <2>2. retired' \subseteq Sessions /\ entry' \in [Models -> Sessions \cup {NoSession}]
    BY <1>3, <2>0 DEF FailoverRetire, Typed, TypeOK
  <2>3. CASE Go(a, "foClose", s, "failover") /\ KeepFlag /\ UNCHANGED <<slot, lock, seen>>
    <3>1. TypeRest'
      BY <1>3, <2>1, <2>2, <2>3 DEF FailoverRetire, KeepFlag, Typed, TypeOK, TypeRest, chainVars
    <3> QED
      BY <1>0, <2>0, <2>3, <3>1, GoTyped DEF KeepFlag, PCs, Hows, FromSession
  <2>4. CASE Step(a, "foOpen") /\ UNCHANGED <<slot, lock>>
    BY <1>0, <1>3, <2>1, <2>2, <2>4, StepTyped DEF FailoverRetire, Typed, TypeOK, chainVars, PCs, AtSession, FromSession
  <2>5. CASE End(a)
    <3>1. TypeRest'
      BY <1>3, <2>1, <2>2, <2>5 DEF FailoverRetire, Typed, TypeOK, TypeRest, chainVars, End, FreeAll, Free, Unlock, Lists, NoList
    <3>2. \A b \in Actors \ {a} : from'[b] = from[b]
      BY <2>5 DEF End, Typed, TypeOK
    <3> QED
      BY <1>0, <2>5, <3>1, <3>2, GoTyped DEF End, PCs, Hows, AtSession, FromSession
  <2> QED
    BY <1>3, <2>3, <2>4, <2>5 DEF FailoverRetire
<1>4. CASE FailoverClose(a)
  <2>0. at[a] \in Sessions
    BY <1>0, <1>4 DEF FailoverClose, Typed, Placed, AtSession
  <2>1. CASE StartClose(a, at[a], "failover") /\ UNCHANGED <<lock, seen>>
    <3>1. TypeRest'
      BY <1>0, <1>4, <2>0, <2>1 DEF FailoverClose, StartClose, KeepFlag, Typed, TypeOK, TypeRest, Marks
    <3> QED
      BY <1>0, <2>0, <2>1, <3>1, GoTyped DEF StartClose, KeepFlag, PCs, Hows, FromSession
  <2>2. CASE Step(a, "closeFailed") /\ UNCHANGED <<closeSent, mark, slot, lock>>
    BY <1>0, <1>4, <2>0, <2>2, StepTyped DEF FailoverClose, Typed, TypeOK, PCs, FromSession
  <2> QED
    BY <1>4, <2>1, <2>2 DEF FailoverClose
<1> QED
  BY <1>1, <1>2, <1>3, <1>4 DEF FailoverStep

\* The chain, the router and the clock.
LEMMA ChainTyped ==
    ASSUME Typed, NEW s \in Sessions, ChainStep(s)
    PROVE  Typed'
<1>1. UNCHANGED <<actorVars, entry, sess, retired, dup, slot, lock, shown>>
  BY DEF ChainStep, OpenLands, CloseLands, ClosedElsewhere, TimePasses, MarkLapses, AttemptExpires, poolVars
<1>2. chain' \in [Sessions -> Chains] /\ age' \in [Sessions -> Ages] /\ closeSent' \subseteq Sessions
  BY DEF ChainStep, OpenLands, CloseLands, ClosedElsewhere, TimePasses, MarkLapses, AttemptExpires,
         Typed, TypeOK, Chains, Ages, chainVars
<1>3. mark' \in [Sessions -> Marks] /\ att' \in [Sessions -> SUBSET Sessions]
  BY DEF ChainStep, OpenLands, CloseLands, ClosedElsewhere, TimePasses, MarkLapses, AttemptExpires,
         Typed, TypeOK, Marks, poolVars
<1> QED
  BY <1>1, <1>2, <1>3 DEF Typed, TypeOK, Placed, actorVars

\* Every step leaves the pool typed.
LEMMA TypedKept == Typed /\ [Next]_vars => Typed'
<1> SUFFICES ASSUME Typed, [Next]_vars PROVE Typed'
  OBVIOUS
<1>1. ASSUME NEW r \in Requests, RequestStep(r) PROVE Typed'
  BY <1>1, BeginTyped, TakesTyped, EndsTyped, ChooseTyped, PostedTyped, ReconcileTyped, AdoptTyped, DeadTyped
     DEF RequestStep
<1>2. ASSUME NEW a \in Actors, ScanStep(a) \/ CloseStep(a) PROVE Typed'
  BY <1>2, ReadTyped, ApplyTyped, CloseTyped DEF ScanStep
<1>3. CASE \E a \in Sweepers : SweepRetired(a) \/ ScanOrphans(a)
  BY <1>3, SweepTyped DEF Actors
<1>4. CASE \E a \in Pollers : Rehydrate(a)
  BY <1>4, SweepTyped DEF Actors
<1>5. CASE UNCHANGED vars
  BY <1>5 DEF vars, chainVars, poolVars, actorVars, Typed, TypeOK, Placed
<1> QED
  BY <1>1, <1>2, <1>3, <1>4, <1>5, StreamCutTyped, ReleaseTyped, FailoverTyped, AdminTyped, ChainTyped DEF Next

\* The pool begins typed.
LEMMA TypedInit == Init => Typed
BY SetsAssumption DEF Init, Typed, TypeOK, Placed, Chains, Ages, Marks, PCs, Hows, Lists, NoList, AtSession, FromSession

\* The pool is typed as its declarations say, and every goroutine that opens,
\* uses, closes or replaces a session names one: in every world, with any
\* requests, sweeps, polls, admins and happenings.
THEOREM PoolTypeCorrect == Spec => []Typed
BY TypedInit, TypedKept, PTL DEF Spec

-----------------------------------------------------------------------------
\* The steps that hold the wallet slot. A poll and an admin read without it.
WithSlot == {"miss", "choose", "chosen", "posting", "reconcile", "named", "closing", "forget"}
Needs(a, p) == p \in WithSlot \/ (p \in {"scan", "apply"} /\ a \in Requests \cup Sweepers)
\* Whoever opens, reconciles, scans to adopt or closes holds the slot.
SlotHeld == \A a \in Actors : Needs(a, pc[a]) => slot = a

\* A goroutine that has set the closing flag of its session.
Owns(p, h) == p \in {"foClose", "closing", "forget", "closeFailed"} /\ h \in {"retired", "failover"}
\* A mark without an end, and a closing flag, have their goroutine.
Owned ==
    \A s \in Sessions :
        /\ mark[s] = "now" => \E a \in Actors : pc[a] = "closing" /\ at[a] = s
        /\ Tracked(s) /\ sess[s].closing => \E a \in Actors : at[a] = s /\ Owns(pc[a], how[a])

\* Inductive: of the closes without an owner and of the phantom uses alone,
\* neither is, since who may clear a mark or a flag is who holds the slot.
PoolInv == SlotHeld /\ Owned /\ NoPhantomUse

\* What a step of one actor may do to the slot, the marks, the closing flags
\* and the counts.
SlotMoves(a, p) ==
    /\ slot' = slot \/ slot' = Free(a) \/ (slot = NoOne /\ slot' = a)
    /\ Needs(a, p) => slot' = a
MarkMoves(a, p, s) ==
    \A t \in Sessions : mark'[t] = "now" =>
        \/ mark[t] = "now" /\ ~(pc[a] = "closing" /\ at[a] = t)
        \/ p = "closing" /\ s = t
FlagMoves(a, p, s, h) ==
    \A t \in Sessions : Tracked(t)' /\ sess'[t].closing =>
        \/ Tracked(t) /\ sess[t].closing /\ ~(at[a] = t /\ Owns(pc[a], how[a]))
        \/ s = t /\ Owns(p, h)
CountMoves ==
    \A t \in Sessions : Tracked(t)' =>
        sess'[t].inflight = 0 \/ (Tracked(t) /\ sess'[t].inflight = sess[t].inflight)

\* A step so bounded keeps each part of the invariant.
LEMMA SlotKept ==
    ASSUME Typed, SlotHeld, NEW a \in Actors, NEW p, NEW s, NEW h, Go(a, p, s, h), SlotMoves(a, p)
    PROVE  SlotHeld'
<1>1. \A b \in Actors : pc'[b] = IF b = a THEN p ELSE pc[b]
  BY DEF Go, Typed, TypeOK
<1>2. NoOne \notin Actors
  BY ActorsAssumption
<1> SUFFICES ASSUME NEW b \in Actors, Needs(b, pc'[b]) PROVE slot' = b
  BY DEF SlotHeld, Needs
<1>3. CASE b = a
  BY <1>1, <1>3 DEF SlotMoves
<1>4. CASE b # a
  <2>1. slot = b
    BY <1>1, <1>4 DEF SlotHeld
  <2> QED
    BY <1>2, <1>4, <2>1 DEF SlotMoves, Free
<1> QED
  BY <1>3, <1>4

\* Marks and flags: the actor takes over, or leaves them to their owners.
LEMMA OwnedKept ==
    ASSUME Typed, Owned, NEW a \in Actors, NEW p, NEW s, NEW h, Go(a, p, s, h),
           MarkMoves(a, p, s), FlagMoves(a, p, s, h)
    PROVE  Owned'
<1>1. \A b \in Actors : /\ pc'[b] = IF b = a THEN p ELSE pc[b]
                        /\ at'[b] = IF b = a THEN s ELSE at[b]
                        /\ how'[b] = IF b = a THEN h ELSE how[b]
  BY DEF Go, Typed, TypeOK
<1>2. ASSUME NEW t \in Sessions, mark'[t] = "now"
      PROVE  \E b \in Actors : pc'[b] = "closing" /\ at'[b] = t
  BY <1>1, <1>2 DEF MarkMoves, Owned
<1>3. ASSUME NEW t \in Sessions, Tracked(t)', sess'[t].closing
      PROVE  \E b \in Actors : at'[b] = t /\ Owns(pc'[b], how'[b])
  <2>1. CASE s = t /\ Owns(p, h)
    BY <1>1, <2>1
  <2>2. CASE Tracked(t) /\ sess[t].closing /\ ~(at[a] = t /\ Owns(pc[a], how[a]))
    <3>1. PICK b \in Actors : at[b] = t /\ Owns(pc[b], how[b])
      BY <2>2 DEF Owned
    <3> QED
      BY <1>1, <2>2, <3>1
  <2> QED
    BY <1>3, <2>1, <2>2 DEF FlagMoves
<1> QED
  BY <1>2, <1>3 DEF Owned, Owns

\* Finitely many requests use a session.
LEMMA LeasesFinite == \A s : IsFiniteSet(Leases(s))
<1>1. \A s : Leases(s) \subseteq Requests
  BY DEF Leases
<1> QED
  BY <1>1, SetsAssumption, FS_Subset

\* Counts go down to zero or stay, while no lease is taken or ended.
LEMMA CountKept ==
    ASSUME Typed, NoPhantomUse, NEW a \in Actors, NEW p, NEW s, NEW h, Go(a, p, s, h), CountMoves,
           a \in Requests => pc[a] # "using" /\ p # "using"
    PROVE  NoPhantomUse'
<1>1. \A t \in Sessions : Leases(t)' = Leases(t)
  BY DEF Leases, Go, Typed, TypeOK
<1>2. ASSUME NEW t \in Sessions, Tracked(t)' PROVE sess'[t].inflight <= Cardinality(Leases(t))'
  <2>1. Cardinality(Leases(t)) \in Nat
    BY LeasesFinite, FS_CardinalityType
  <2>2. CASE sess'[t].inflight = 0
    BY <1>1, <2>1, <2>2
  <2>3. CASE Tracked(t) /\ sess'[t].inflight = sess[t].inflight
    BY <1>1, <2>3 DEF NoPhantomUse
  <2> QED
    BY <1>2, <2>2, <2>3 DEF CountMoves
<1> QED
  BY <1>2 DEF NoPhantomUse

\* The three parts together.
LEMMA MoveKept ==
    ASSUME Typed, PoolInv, NEW a \in Actors, NEW p, NEW s, NEW h, Go(a, p, s, h),
           SlotMoves(a, p), MarkMoves(a, p, s), FlagMoves(a, p, s, h), CountMoves,
           a \in Requests => pc[a] # "using" /\ p # "using"
    PROVE  PoolInv'
BY SlotKept, OwnedKept, CountKept DEF PoolInv

\* A step of an actor that closes nothing and uses nothing.
LEMMA QuietKept ==
    ASSUME Typed, PoolInv, NEW a \in Actors, NEW p, NEW s, NEW h, Go(a, p, s, h),
           SlotMoves(a, p), UNCHANGED <<mark, sess>>,
           pc[a] \notin {"using", "foClose", "closing", "forget", "closeFailed"}, p # "using"
    PROVE  PoolInv'
<1>1. MarkMoves(a, p, s) /\ FlagMoves(a, p, s, h) /\ CountMoves
  BY DEF MarkMoves, FlagMoves, CountMoves, Tracked, Owns
<1> QED
  BY <1>1, MoveKept

\* A lease taken counts one more.
LEMMA LeaseKept ==
    ASSUME Typed, PoolInv, NEW r \in Requests, NEW s \in Sessions, NEW st \in {StateOf(s), NewState},
           Lease(r, s, st), UNCHANGED mark,
           pc[r] \notin {"using", "foClose", "closing", "forget", "closeFailed"}
    PROVE  PoolInv'
<1>0. r \in Actors /\ st \in LeaseStates
  BY NewStateTyped, StateTyped DEF Actors, Typed
<1>1. Go(r, "using", s, "none")
  BY DEF Lease
<1>2. SlotMoves(r, "using")
  BY DEF SlotMoves, Lease, FreeAll, Needs, WithSlot
<1>3. MarkMoves(r, "using", s)
  BY DEF MarkMoves
<1>4. /\ \A t \in Sessions \ {s} : sess'[t] = sess[t]
      /\ sess'[s].inflight = st.inflight + 1 /\ sess'[s].closing = st.closing
  BY <1>0 DEF Lease, Typed, TypeOK, LeaseStates
<1>5. FlagMoves(r, "using", s, "none")
  <2>1. st.closing => Tracked(s) /\ sess[s].closing
    BY DEF StateOf, NewState, Tracked
  <2> QED
    BY <1>4, <2>1 DEF FlagMoves, Tracked, Owns
<1>6. NoPhantomUse'
  <2>1. /\ \A t \in Sessions \ {s} : Leases(t)' = Leases(t)
        /\ Leases(s)' = Leases(s) \cup {r} /\ r \notin Leases(s)
    BY <1>0, <1>1 DEF Leases, Go, Typed, TypeOK
  <2>2. Cardinality(Leases(s))' = Cardinality(Leases(s)) + 1
    BY <2>1, LeasesFinite, FS_AddElement
  <2>3. st.inflight <= Cardinality(Leases(s))
    <3>1. Cardinality(Leases(s)) \in Nat
      BY LeasesFinite, FS_CardinalityType
    <3>2. CASE Tracked(s) /\ st = sess[s]
      BY <3>2 DEF PoolInv, NoPhantomUse
    <3>3. CASE st = NewState
      BY <3>1, <3>3 DEF NewState
    <3> QED
      BY <3>2, <3>3 DEF StateOf, Tracked
  <2>4. Cardinality(Leases(s)) \in Nat /\ st.inflight \in Nat
    BY <1>0, LeasesFinite, FS_CardinalityType DEF LeaseStates
  <2>5. sess'[s].inflight <= Cardinality(Leases(s))'
    BY <1>4, <2>2, <2>3, <2>4
  <2> QED
    BY <1>4, <2>1, <2>5 DEF NoPhantomUse, PoolInv, Tracked
<1> QED
  BY <1>0, <1>1, <1>2, <1>3, <1>5, <1>6, SlotKept, OwnedKept DEF PoolInv

\* A handler that returns.
LEMMA EndKept ==
    ASSUME Typed, PoolInv, NEW a \in Actors, End(a), UNCHANGED <<mark, sess>>,
           pc[a] \notin {"using", "foClose", "closing", "forget", "closeFailed"}
    PROVE  PoolInv'
<1>1. Go(a, "rest", NoSession, "none") /\ SlotMoves(a, "rest")
  BY DEF End, FreeAll, SlotMoves, Needs, WithSlot
<1> QED
  BY <1>1, QuietKept

\* A step that only moves the actor.
LEMMA StepKept ==
    ASSUME Typed, PoolInv, NEW a \in Actors, NEW p, Step(a, p), SlotMoves(a, p), UNCHANGED <<mark, sess>>,
           pc[a] \notin {"using", "foClose", "closing", "forget", "closeFailed"}, p # "using"
    PROVE  PoolInv'
BY QuietKept DEF Step

\* AcquireCtx up to the choice of bids.
LEMMA AcquireKept ==
    ASSUME Typed, PoolInv, NEW r \in Requests,
           Begin(r) \/ TakeLock(r) \/ TakeSlot(r) \/ Refused(r) \/ RetryPooled(r)
    PROVE  PoolInv'
<1>0. r \in Actors /\ pc[r] \in {"rest", "want", "locked", "scan", "choose", "chosen", "foOpen", "miss"}
  BY DEF Actors, Begin, TakeLock, TakeSlot, Refused, RetryPooled
<1>1. CASE TryPooled(r)
  <2>1. entry[ReqModel[r]] \in Sessions
    BY <1>1, SetsAssumption DEF Typed, TypeOK, TryPooled, Servable
  <2> QED
    BY <1>0, <1>1, <2>1, LeaseKept DEF TryPooled
<1>2. CASE Refused(r)
  BY <1>0, <1>2, EndKept DEF Refused, poolVars
<1>3. CASE Begin(r) /\ ~TryPooled(r)
  <2>1. Go(r, "want", NoSession, "acquire") /\ UNCHANGED <<slot, mark, sess>>
    BY <1>3 DEF Begin, poolVars
  <2>2. SlotMoves(r, "want")
    BY <2>1 DEF SlotMoves, Needs, WithSlot
  <2> QED
    BY <1>0, <2>1, <2>2, QuietKept
<1>4. CASE TakeLock(r) /\ ~TryPooled(r)
  <2>1. Step(r, "locked") /\ UNCHANGED <<slot, mark, sess>>
    BY <1>4 DEF TakeLock, poolVars
  <2>2. SlotMoves(r, "locked")
    BY <2>1 DEF SlotMoves, Needs, WithSlot
  <2> QED
    BY <1>0, <2>1, <2>2, StepKept
<1>5. CASE TakeSlot(r) /\ ~TryPooled(r)
  <2>1. Step(r, "scan") /\ slot = NoOne /\ slot' = r /\ UNCHANGED <<mark, sess>>
    BY <1>5 DEF TakeSlot, poolVars
  <2>2. SlotMoves(r, "scan")
    BY <2>1 DEF SlotMoves
  <2> QED
    BY <1>0, <2>1, <2>2, StepKept
<1>6. CASE RetryPooled(r) /\ ~TryPooled(r)
  <2>1. Step(r, "choose") /\ UNCHANGED <<slot, mark, sess>> /\ slot = r
    BY <1>0, <1>6 DEF RetryPooled, poolVars, PoolInv, SlotHeld, Needs, WithSlot
  <2>2. SlotMoves(r, "choose")
    BY <2>1 DEF SlotMoves
  <2> QED
    BY <1>0, <2>1, <2>2, StepKept
<1> QED
  BY <1>1, <1>2, <1>3, <1>4, <1>5, <1>6

\* An open that has its session.
LEMMA GotKept ==
    ASSUME Typed, PoolInv, NEW r \in Requests, NEW s, NEW b, Got(r, s, b), UNCHANGED <<mark, sess>>,
           pc[r] \in {"posting", "reconcile", "named"}
    PROVE  PoolInv'
<1>1. r \in Actors /\ Go(r, "got", s, how[r]) /\ SlotMoves(r, "got")
  BY DEF Actors, Got, SlotMoves, Needs, WithSlot
<1> QED
  BY <1>1, QuietKept

\* The walk to the next bid.
LEMMA NextBidKept ==
    ASSUME Typed, PoolInv, NEW r \in Requests, NextBid(r), UNCHANGED <<mark, sess>>, pc[r] = "posting"
    PROVE  PoolInv'
<1>0. r \in Actors /\ slot = r
  BY DEF Actors, PoolInv, SlotHeld, Needs, WithSlot
<1>1. CASE End(r)
  BY <1>0, <1>1, EndKept
<1>2. CASE Go(r, "chosen", NoSession, how[r]) /\ UNCHANGED slot
  <2>1. SlotMoves(r, "chosen")
    BY <1>0, <1>2 DEF SlotMoves
  <2> QED
    BY <1>0, <1>2, <2>1, QuietKept
<1> QED
  BY <1>1, <1>2 DEF NextBid

\* The open POST, its answers and the pooling.
LEMMA OpenKept ==
    ASSUME Typed, PoolInv, NEW r \in Requests,
           \/ ChooseBids(r) \/ Post(r) \/ PostOK(r) \/ PostExisting(r) \/ PostFailed(r) \/ PostLost(r)
           \/ Reconcile(r) \/ AdoptExisting(r) \/ PoolOpened(r) \/ FailoverOpen(r)
    PROVE  PoolInv'
<1>0. /\ r \in Actors
      /\ pc[r] \in {"choose", "chosen", "posting", "reconcile", "named"} => slot = r
  BY DEF Actors, PoolInv, SlotHeld, Needs, WithSlot
<1>1. CASE ChooseBids(r)
  <2>1. Go(r, "chosen", NoSession, how[r]) /\ UNCHANGED <<slot, mark, sess>> /\ pc[r] = "choose"
    BY <1>1 DEF ChooseBids, poolVars
  <2>2. SlotMoves(r, "chosen")
    BY <1>0, <2>1 DEF SlotMoves
  <2> QED
    BY <1>0, <2>1, <2>2, QuietKept
<1>2. CASE Post(r)
  <2>1. PICK x : Go(r, "posting", x, how[r]) /\ UNCHANGED <<slot, mark, sess>> /\ pc[r] = "chosen"
    BY <1>2 DEF Post
  <2>2. SlotMoves(r, "posting")
    BY <1>0, <2>1 DEF SlotMoves
  <2> QED
    BY <1>0, <2>1, <2>2, QuietKept
<1>3. CASE PostOK(r)
  BY <1>3, GotKept DEF PostOK
<1>4. CASE PostExisting(r)
  <2>1. PICK y : Go(r, "named", y, how[r]) /\ UNCHANGED <<slot, mark, sess>> /\ pc[r] = "posting"
    BY <1>4 DEF PostExisting
  <2>2. SlotMoves(r, "named")
    BY <1>0, <2>1 DEF SlotMoves
  <2> QED
    BY <1>0, <2>1, <2>2, QuietKept
<1>5. CASE PostFailed(r)
  BY <1>5, NextBidKept DEF PostFailed
<1>6. CASE PostLost(r)
  <2>0. pc[r] = "posting" /\ UNCHANGED <<mark, sess>>
    BY <1>6 DEF PostLost, poolVars
  <2>1. CASE NextBid(r)
    BY <2>0, <2>1, NextBidKept
  <2>2. CASE Step(r, "reconcile") /\ UNCHANGED slot
    <3>1. SlotMoves(r, "reconcile")
      BY <1>0, <2>0, <2>2 DEF SlotMoves
    <3> QED
      BY <1>0, <2>0, <2>2, <3>1, StepKept
  <2> QED
    BY <1>6, <2>1, <2>2 DEF PostLost
<1>7. CASE Reconcile(r)
  <2>0. pc[r] = "reconcile" /\ UNCHANGED <<mark, sess>>
    BY <1>7 DEF Reconcile
  <2>1. End(r) \/ \E keep : Got(r, keep, FALSE)
    BY <1>7 DEF Reconcile, MatchOpen
  <2> QED
    BY <1>0, <2>0, <2>1, GotKept, EndKept
<1>8. CASE AdoptExisting(r)
  <2>0. pc[r] = "named" /\ UNCHANGED <<mark, sess>>
    BY <1>8 DEF AdoptExisting
  <2>1. End(r) \/ \E b : Got(r, at[r], b)
    BY <1>8 DEF AdoptExisting
  <2> QED
    BY <1>0, <2>0, <2>1, GotKept, EndKept
<1>9. CASE PoolOpened(r)
  <2>1. at[r] \in Sessions
    BY <1>0, <1>9 DEF PoolOpened, Typed, Placed, AtSession
  <2>2. PICK st \in {StateOf(at[r]), NewState} : Lease(r, at[r], st)
    BY <1>9 DEF PoolOpened
  <2> QED
    BY <1>9, <2>1, <2>2, LeaseKept DEF PoolOpened
<1>10. CASE FailoverOpen(r)
  <2>1. Step(r, "chosen") /\ slot = NoOne /\ slot' = r /\ UNCHANGED <<mark, sess>> /\ pc[r] = "foOpen"
    BY <1>10 DEF FailoverOpen, poolVars
  <2>2. SlotMoves(r, "chosen")
    BY <2>1 DEF SlotMoves
  <2> QED
    BY <1>0, <2>1, <2>2, StepKept
<1> QED
  BY <1>1, <1>2, <1>3, <1>4, <1>5, <1>6, <1>7, <1>8, <1>9, <1>10

\* A lease ends.
LEMMA DoneKept ==
    ASSUME Typed, PoolInv, NEW r \in Requests, NEW p, NEW h, Go(r, p, NoSession, h), SlotMoves(r, p),
           pc[r] = "using", p # "using", sess' = DoneState(at[r]), UNCHANGED mark
    PROVE  PoolInv'
<1>0. r \in Actors /\ at[r] \in Sessions
  BY DEF Actors, Typed, Placed, AtSession
<1>s. PICK s \in Sessions : s = at[r]
  BY <1>0
<1>1. \A t \in Sessions \ {s} : sess'[t] = sess[t]
  BY <1>s DEF DoneState, Typed, TypeOK
<1>2. Tracked(s)' => /\ Tracked(s) /\ sess[s].inflight \in Nat /\ sess'[s].closing = sess[s].closing
                     /\ sess'[s].inflight = IF sess[s].inflight = 0 THEN 0 ELSE sess[s].inflight - 1
  <2>1. CASE sess[s] = NoState
    BY <1>s, <2>1 DEF DoneState, Tracked
  <2>2. CASE sess[s] # NoState
    <3>1. sess[s] \in LeaseStates
      BY <1>0, <2>2 DEF Typed, TypeOK
    <3> QED
      BY <1>s, <2>2, <3>1 DEF DoneState, Tracked, LeaseStates, Typed, TypeOK
  <2> QED
    BY <2>1, <2>2
<1>3. MarkMoves(r, p, NoSession) /\ FlagMoves(r, p, NoSession, h)
  <2>1. FlagMoves(r, p, NoSession, h)
    BY <1>1, <1>2, <1>s DEF FlagMoves, Tracked, Owns
  <2> QED
    BY <2>1 DEF MarkMoves
<1>4. NoPhantomUse'
  <2>1. /\ \A t \in Sessions \ {s} : Leases(t)' = Leases(t)
        /\ Leases(s)' = Leases(s) \ {r} /\ r \in Leases(s)
    BY <1>0, <1>s DEF Leases, Go, Typed, TypeOK
  <2>2. Cardinality(Leases(s))' = Cardinality(Leases(s)) - 1
    BY <2>1, LeasesFinite, FS_RemoveElement
  <2>3. Cardinality(Leases(s)) \in Nat /\ Cardinality(Leases(s))' \in Nat
    <3>1. IsFiniteSet(Leases(s)) /\ IsFiniteSet(Leases(s) \ {r})
      BY LeasesFinite, FS_Subset
    <3> QED
      BY <2>1, <3>1, FS_CardinalityType
  <2>4. Tracked(s)' => sess'[s].inflight <= Cardinality(Leases(s))'
    <3>1. Tracked(s) => sess[s].inflight <= Cardinality(Leases(s))
      BY <1>0 DEF PoolInv, NoPhantomUse
    <3> QED
      BY <1>2, <2>2, <2>3, <3>1
  <2> QED
    BY <1>1, <2>1, <2>4 DEF NoPhantomUse, PoolInv, Tracked
<1> QED
  BY <1>0, <1>3, <1>4, SlotKept, OwnedKept DEF PoolInv

\* Lease.Done counts one less, if the session is tracked.
LEMMA LeaseEndsKept ==
    ASSUME Typed, PoolInv, NEW r \in Requests, Done(r) \/ SessionDead(r) \/ ProviderFails(r)
    PROVE  PoolInv'
<1>1. CASE Done(r)
  <2>1. SlotMoves(r, "rest")
    BY <1>1 DEF Done, End, FreeAll, SlotMoves, Needs, WithSlot
  <2> QED
    BY <1>1, <2>1, DoneKept DEF Done, End
<1>2. CASE SessionDead(r)
  <2>1. SlotMoves(r, "dead")
    BY <1>2 DEF SessionDead, SlotMoves, Needs, WithSlot
  <2> QED
    BY <1>2, <2>1, DoneKept DEF SessionDead
<1>3. CASE ProviderFails(r)
  <2>1. SlotMoves(r, "fo")
    BY <1>3 DEF ProviderFails, SlotMoves, Needs, WithSlot
  <2> QED
    BY <1>3, <2>1, DoneKept DEF ProviderFails
<1> QED
  BY <1>1, <1>2, <1>3

\* Invalidate forgets the state: nothing is counted any more.
LEMMA InvalidateKept ==
    ASSUME Typed, PoolInv, NEW r \in Requests, Invalidate(r)
    PROVE  PoolInv'
<1>1. r \in Actors /\ Go(r, "rest", NoSession, "none") /\ SlotMoves(r, "rest") /\ UNCHANGED mark /\ pc[r] = "dead"
  BY DEF Actors, Invalidate, End, FreeAll, SlotMoves, Needs, WithSlot
<1>2. \A t \in Sessions : sess'[t] \in {sess[t], NoState}
  BY DEF Invalidate, Typed, TypeOK
<1>3. MarkMoves(r, "rest", NoSession) /\ FlagMoves(r, "rest", NoSession, "none") /\ CountMoves
  BY <1>1, <1>2 DEF MarkMoves, FlagMoves, CountMoves, Tracked, Owns
<1> QED
  BY <1>1, <1>3, MoveKept

\* The release of a key.
LEMMA ReleaseKept ==
    ASSUME Typed, PoolInv, NEW m \in Models, NEW k \in Keys, Release(m, k)
    PROVE  PoolInv'
<1>1. UNCHANGED <<pc, at, how, slot, mark>>
  BY DEF Release, actorVars
<1>2. \A t \in Sessions : Tracked(t)' => Tracked(t) /\ sess'[t].inflight = sess[t].inflight /\ sess'[t].closing = sess[t].closing
  <2>1. PICK s \in ReleaseTargets(m, k) :
          LET left == sess[s].holders \ {k}
              last == left = {} /\ sess[s].inflight = 0
          IN  sess' = [sess EXCEPT ![s].holders = left, ![s].retired = @ \/ last]
    BY DEF Release
  <2>2. s \in Sessions /\ Tracked(s) /\ sess[s] \in LeaseStates
    BY DEF ReleaseTargets, Typed, TypeOK, Tracked
  <2>3. sess'[s].inflight = sess[s].inflight /\ sess'[s].closing = sess[s].closing
    BY <2>1, <2>2 DEF Typed, TypeOK, LeaseStates
  <2>4. \A t \in Sessions \ {s} : sess'[t] = sess[t]
    BY <2>1 DEF Typed, TypeOK
  <2> QED
    BY <2>2, <2>3, <2>4 DEF Tracked
<1>3. \A t \in Sessions : Leases(t)' = Leases(t)
  BY <1>1 DEF Leases
<1>4. SlotHeld'
  BY <1>1 DEF PoolInv, SlotHeld, Needs
<1>5. Owned'
  BY <1>1, <1>2 DEF PoolInv, Owned, Owns
<1>6. NoPhantomUse'
  BY <1>2, <1>3 DEF PoolInv, NoPhantomUse
<1> QED
  BY <1>4, <1>5, <1>6 DEF PoolInv

\* The scans.
LEMMA ScanKept ==
    ASSUME Typed, PoolInv, NEW a \in Actors, ScanStep(a)
    PROVE  PoolInv'
<1>0. a \in Requests \cup Sweepers => slot = a
  BY DEF ScanStep, ReadList, ReadFails, ApplyScan, PoolInv, SlotHeld, Needs
<1>1. CASE ReadList(a)
  <2>1. Go(a, "apply", at[a], how[a]) /\ UNCHANGED <<slot, mark, sess>> /\ pc[a] = "scan"
    BY <1>1 DEF ReadList, poolVars
  <2>2. SlotMoves(a, "apply")
    BY <1>0, <2>1 DEF SlotMoves, Needs, WithSlot
  <2> QED
    BY <2>1, <2>2, QuietKept
<1>2. CASE ReadFails(a)
  <2>0. UNCHANGED <<mark, sess>> /\ pc[a] = "scan"
    BY <1>2 DEF ReadFails, poolVars
  <2>1. CASE End(a)
    BY <2>0, <2>1, EndKept
  <2>2. CASE a \in Requests /\ Step(a, "miss") /\ UNCHANGED slot
    <3>1. SlotMoves(a, "miss")
      BY <1>0, <2>2 DEF SlotMoves
    <3> QED
      BY <2>0, <2>2, <3>1, StepKept
  <2> QED
    BY <1>2, <2>1, <2>2 DEF ReadFails
<1>3. CASE ApplyScan(a)
  <2> DEFINE mk == ScanMarks(seen[a].open)
  <2>0. pc[a] = "apply"
    BY <1>3 DEF ApplyScan
  <2>1. \A t \in Sessions : sess'[t] \in {NoState, NewState, sess[t]}
    BY <1>3, ScanTyped
  <2>2. CountMoves /\ \A p, s, h : FlagMoves(a, p, s, h)
    <3>1. CountMoves
      BY <2>1 DEF CountMoves, Tracked, NewState
    <3>2. \A p, s, h : FlagMoves(a, p, s, h)
      BY <2>0, <2>1 DEF FlagMoves, Tracked, NewState, Owns
    <3> QED
      BY <3>1, <3>2
  <2>3. PICK due \in SUBSET Sessions : SweepPick(a, due, mk)
    BY <1>3, ScanTyped
  <2>4. mk \in [Sessions -> Marks] /\ \A t \in Sessions : mk[t] = "now" => mark[t] = "now"
    BY MarksTyped DEF ScanMarks, LiveMarks, Typed
  <2> HIDE DEF mk
  <2>5. CASE a \in Sweepers /\ due # {} /\ \A s \in Sessions : mk[s] # "cut"
    <3>1. PICK c \in due :
            /\ mark' = [mk EXCEPT ![c] = "now"]
            /\ Go(a, "closing", c, "scan")
            /\ UNCHANGED slot
      BY <2>3, <2>5 DEF SweepPick
    <3>2. SlotMoves(a, "closing")
      BY <1>0, <2>5, <3>1 DEF SlotMoves
    <3>3. MarkMoves(a, "closing", c)
      BY <2>0, <2>4, <3>1 DEF MarkMoves
    <3>4. a \notin Requests
      BY <2>5, ActorsAssumption
    <3> QED
      BY <2>2, <3>1, <3>2, <3>3, <3>4, MoveKept
  <2>6. CASE ~(a \in Sweepers /\ due # {} /\ \A s \in Sessions : mk[s] # "cut")
    <3>1. mark' = mk /\ IF a \in Requests THEN Step(a, "miss") /\ UNCHANGED slot ELSE End(a)
      BY <2>3, <2>6 DEF SweepPick
    <3>2. \A p, s : MarkMoves(a, p, s)
      BY <2>0, <2>4, <3>1 DEF MarkMoves
    <3>3. CASE a \in Requests
      <4>1. Go(a, "miss", at[a], how[a]) /\ SlotMoves(a, "miss")
        BY <1>0, <3>1, <3>3 DEF Step, SlotMoves
      <4> QED
        BY <2>0, <2>2, <3>2, <4>1, MoveKept
    <3>4. CASE a \notin Requests
      <4>1. Go(a, "rest", NoSession, "none") /\ SlotMoves(a, "rest")
        BY <3>1, <3>4 DEF End, FreeAll, SlotMoves, Needs, WithSlot
      <4> QED
        BY <2>0, <2>2, <3>2, <4>1, MoveKept
    <3> QED
      BY <3>3, <3>4
  <2> QED
    BY <2>5, <2>6
<1> QED
  BY <1>1, <1>2, <1>3 DEF ScanStep

\* Where an actor is after a close: no longer one that needs the slot.
LEMMA AfterCloseMoves ==
    ASSUME Typed, NEW a \in Actors, AfterClose(a)
    PROVE  \E p \in {"rest", "drop", "foOpen"}, s \in Sessions \cup {NoSession}, h \in Hows : Go(a, p, s, h) /\ SlotMoves(a, p)
<1>1. CASE End(a)
  BY <1>1 DEF End, FreeAll, SlotMoves, Needs, WithSlot, Hows
<1>2. CASE \E p \in {"drop", "foOpen"} : Step(a, p) /\ slot' = Free(a)
  <2>1. at[a] \in Sessions \cup {NoSession} /\ how[a] \in Hows
    BY DEF Typed, TypeOK
  <2> QED
    BY <1>2, <2>1 DEF Step, SlotMoves, Needs, WithSlot
<1> QED
  BY <1>1, <1>2 DEF AfterClose

\* A close cut or refused takes its mark along.
LEMMA GivenUpKept ==
    ASSUME Typed, PoolInv, NEW a \in Actors, CloseGivenUp(a), pc[a] = "closing", UNCHANGED sess,
           NEW m \in {"none", "cut"}, mark' = [mark EXCEPT ![at[a]] = m]
    PROVE  PoolInv'
<1>0. at[a] \in Sessions
  BY DEF Typed, Placed, AtSession
<1>1. \A p, s : MarkMoves(a, p, s)
  BY <1>0 DEF MarkMoves, Typed, TypeOK
<1>2. CountMoves
  BY DEF CountMoves, Tracked
<1>3. CASE how[a] \in {"retired", "failover"}
  <2>1. Go(a, "closeFailed", at[a], how[a]) /\ SlotMoves(a, "closeFailed")
    BY <1>3 DEF CloseGivenUp, Step, SlotMoves, Needs, WithSlot
  <2>2. FlagMoves(a, "closeFailed", at[a], how[a])
    BY <1>3 DEF FlagMoves, Tracked, Owns
  <2> QED
    BY <1>1, <1>2, <2>1, <2>2, MoveKept
<1>4. CASE how[a] \notin {"retired", "failover"}
  <2>1. PICK p \in {"rest", "drop", "foOpen"}, s \in Sessions \cup {NoSession}, h \in Hows : Go(a, p, s, h) /\ SlotMoves(a, p)
    BY <1>4, AfterCloseMoves DEF CloseGivenUp
  <2>2. FlagMoves(a, p, s, h)
    BY <1>4 DEF FlagMoves, Tracked, Owns
  <2> QED
    BY <1>1, <1>2, <2>1, <2>2, MoveKept
<1> QED
  BY <1>3, <1>4

\* The steps of a close.
LEMMA CloseKept ==
    ASSUME Typed, PoolInv, NEW a \in Actors, CloseStep(a)
    PROVE  PoolInv'
<1>0. at[a] \in Sessions
  BY DEF CloseStep, CloseDone, CloseCut, CloseFails, Forget, CloseFailed, Typed, Placed, AtSession
<1>1. CASE CloseDone(a)
  <2>1. Go(a, "forget", at[a], how[a]) /\ SlotMoves(a, "forget")
    BY <1>1 DEF CloseDone, Step, SlotMoves, PoolInv, SlotHeld, Needs, WithSlot
  <2>2. MarkMoves(a, "forget", at[a])
    BY <1>0, <1>1 DEF CloseDone, MarkMoves, Typed, TypeOK
  <2>3. FlagMoves(a, "forget", at[a], how[a]) /\ CountMoves
    BY <1>1 DEF CloseDone, FlagMoves, CountMoves, Tracked, Owns
  <2> QED
    BY <1>1, <2>1, <2>2, <2>3, MoveKept DEF CloseDone
<1>2. CASE CloseCut(a)
  BY <1>2, GivenUpKept DEF CloseCut
<1>3. CASE CloseFails(a)
  BY <1>3, GivenUpKept DEF CloseFails
<1>4. CASE Forget(a)
  <2>1. PICK p \in {"rest", "drop", "foOpen"}, s \in Sessions \cup {NoSession}, h \in Hows : Go(a, p, s, h) /\ SlotMoves(a, p)
    BY <1>4, AfterCloseMoves DEF Forget
  <2>2. MarkMoves(a, p, s)
    BY <1>4 DEF Forget, MarkMoves
  <2>3. \A t \in Sessions : sess'[t] = IF t = at[a] THEN NoState ELSE sess[t]
    BY <1>4 DEF Forget, Typed, TypeOK
  <2>4. FlagMoves(a, p, s, h) /\ CountMoves
    BY <2>3 DEF FlagMoves, CountMoves, Tracked, Owns
  <2> QED
    BY <1>4, <2>1, <2>2, <2>4, MoveKept DEF Forget
<1>5. CASE CloseFailed(a)
  <2>1. PICK p \in {"rest", "drop", "foOpen"}, s \in Sessions \cup {NoSession}, h \in Hows : Go(a, p, s, h) /\ SlotMoves(a, p)
    BY <1>5, AfterCloseMoves DEF CloseFailed
  <2>2. MarkMoves(a, p, s)
    BY <1>5 DEF CloseFailed, MarkMoves
  <2>3. /\ \A t \in Sessions \ {at[a]} : sess'[t] = sess[t]
        /\ Tracked(at[a]) => sess'[at[a]].closing = FALSE /\ sess'[at[a]].inflight = sess[at[a]].inflight
        /\ ~Tracked(at[a]) => sess'[at[a]] = sess[at[a]]
    <3>1. CASE Tracked(at[a])
      <4>1. sess[at[a]] \in LeaseStates
        BY <1>0, <3>1 DEF Tracked, Typed, TypeOK
      <4> QED
        BY <1>0, <1>5, <3>1, <4>1 DEF CloseFailed, BackToRetired, Tracked, Typed, TypeOK, LeaseStates
    <3>2. CASE ~Tracked(at[a])
      BY <1>5, <3>2 DEF CloseFailed, BackToRetired, Tracked
    <3> QED
      BY <3>1, <3>2
  <2>4. FlagMoves(a, p, s, h) /\ CountMoves
    BY <2>3 DEF FlagMoves, CountMoves, Tracked, Owns
  <2> QED
    BY <1>5, <2>1, <2>2, <2>4, MoveKept DEF CloseFailed
<1> QED
  BY <1>1, <1>2, <1>3, <1>4, <1>5 DEF CloseStep

\* The sweep of retired sessions.
LEMMA SweepKept ==
    ASSUME Typed, PoolInv, NEW a \in Actors \ Requests, SweepRetired(a) \/ ScanOrphans(a)
    PROVE  PoolInv'
<1>1. CASE SweepRetired(a)
  <2>1. PICK s \in Sessions :
          /\ CloseDue(s)
          /\ sess' = [sess EXCEPT ![s].closing = TRUE]
          /\ slot' = a
          /\ mark' = [LiveMarks EXCEPT ![s] = "now"]
          /\ Go(a, "closing", s, "retired")
    BY <1>1 DEF SweepRetired
  <2>2. SlotMoves(a, "closing")
    BY <1>1, <2>1 DEF SweepRetired, SlotMoves
  <2>3. MarkMoves(a, "closing", s)
    BY <1>1, <2>1 DEF SweepRetired, MarkMoves, LiveMarks
  <2>4. (\A t \in Sessions \ {s} : sess'[t] = sess[t]) /\ sess'[s].inflight = sess[s].inflight
    <3>1. sess[s] \in LeaseStates
      BY <2>1 DEF CloseDue, Tracked, Typed, TypeOK
    <3> QED
      BY <2>1, <3>1 DEF Typed, TypeOK, LeaseStates
  <2>5. FlagMoves(a, "closing", s, "retired") /\ CountMoves
    <3>1. Tracked(s)
      BY <2>1 DEF CloseDue
    <3> QED
      BY <1>1, <2>4, <3>1 DEF SweepRetired, FlagMoves, CountMoves, Tracked, Owns
  <2> QED
    BY <1>1, <2>1, <2>2, <2>3, <2>5, MoveKept DEF SweepRetired
<1>2. CASE ScanOrphans(a)
  <2>1. SlotMoves(a, "scan")
    BY <1>2 DEF ScanOrphans, SlotMoves
  <2> QED
    BY <1>2, <2>1, StepKept DEF ScanOrphans, poolVars
<1> QED
  BY <1>1, <1>2

\* The status poll.
LEMMA RehydrateKept ==
    ASSUME Typed, PoolInv, NEW a \in Pollers, Rehydrate(a)
    PROVE  PoolInv'
<1>1. a \in Actors /\ a \notin Requests \cup Sweepers
  BY ActorsAssumption DEF Actors
<1>2. SlotMoves(a, "scan")
  BY <1>1 DEF Rehydrate, SlotMoves, Needs, WithSlot
<1> QED
  BY <1>1, <1>2, StepKept DEF Rehydrate, poolVars

\* The admin closes.
LEMMA AdminKept ==
    ASSUME Typed, PoolInv, NEW a \in Admins, AdminClose(a) \/ AdminNext(a) \/ AdminRescan(a)
    PROVE  PoolInv'
<1>0. a \in Actors /\ a \notin Requests \cup Sweepers
  BY ActorsAssumption DEF Actors
<1>1. CASE AdminClose(a)
  <2>1. SlotMoves(a, "drop")
    BY <1>1 DEF AdminClose, SlotMoves, Needs, WithSlot
  <2> QED
    BY <1>0, <1>1, <2>1, QuietKept DEF AdminClose
<1>2. CASE AdminNext(a)
  <2>0. pc[a] = "drop" /\ UNCHANGED sess
    BY <1>2 DEF AdminNext
  <2>1. CASE UNCHANGED <<slot, mark, pc, at, how>>
    BY <2>0, <2>1 DEF PoolInv, SlotHeld, Needs, Owned, Owns, Tracked, NoPhantomUse, Leases
  <2>2. CASE \E s \in todo[a] : /\ slot = NoOne /\ slot' = a
                               /\ mark' = [mark EXCEPT ![s] = "now"]
                               /\ Go(a, "closing", s, "admin")
    <3>1. PICK s \in todo[a] : /\ slot = NoOne /\ slot' = a
                               /\ mark' = [mark EXCEPT ![s] = "now"]
                               /\ Go(a, "closing", s, "admin")
      BY <2>2
    <3>2. SlotMoves(a, "closing") /\ MarkMoves(a, "closing", s)
      BY <2>0, <3>1 DEF SlotMoves, MarkMoves, Typed, TypeOK
    <3>3. FlagMoves(a, "closing", s, "admin") /\ CountMoves
      BY <2>0 DEF FlagMoves, CountMoves, Tracked, Owns
    <3> QED
      BY <1>0, <3>1, <3>2, <3>3, MoveKept
  <2> QED
    BY <1>2, <2>1, <2>2 DEF AdminNext
<1>3. CASE AdminRescan(a)
  <2>0. pc[a] = "drop" /\ UNCHANGED <<mark, sess>>
    BY <1>3 DEF AdminRescan, poolVars
  <2>1. CASE End(a)
    BY <1>0, <2>0, <2>1, EndKept
  <2>2. CASE Step(a, "scan") /\ UNCHANGED slot
    <3>1. SlotMoves(a, "scan")
      BY <1>0, <2>2 DEF SlotMoves, Needs, WithSlot
    <3> QED
      BY <1>0, <2>0, <2>2, <3>1, StepKept
  <2> QED
    BY <1>3, <2>1, <2>2 DEF AdminRescan
<1> QED
  BY <1>1, <1>2, <1>3

\* FailoverCtx.
LEMMA FailoverKept ==
    ASSUME Typed, PoolInv, NEW a \in Requests \cup Backgrounds, FailoverStep(a)
    PROVE  PoolInv'
<1>0. a \in Actors
  BY DEF Actors
<1>1. CASE FailoverLocked(a)
  <2> DEFINE m == ModelAt(a)
             c == entry[m]
  <2>0. pc[a] = "fo" /\ UNCHANGED mark
    BY <1>1 DEF FailoverLocked
  <2>1. CASE a \in Requests /\ c # NoSession /\ Lease(a, c, StateOf(c))
    <3>1. from[a] \in Sessions /\ m \in Models
      BY <1>0, <2>0, SetsAssumption DEF Typed, Placed, FromSession, ModelAt
    <3>2. c \in Sessions
      BY <2>1, <3>1 DEF Typed, TypeOK
    <3> HIDE DEF c
    <3> QED
      BY <2>0, <2>1, <3>2, LeaseKept
  <2>2. CASE End(a) /\ UNCHANGED sess
    BY <1>0, <2>0, <2>2, EndKept
  <2>3. CASE \E p \in {"foOpen", "foCand"}, s \in Sessions \cup {NoSession}, h \in Hows : Go(a, p, s, h) /\ UNCHANGED <<slot, sess>>
    <3>1. PICK p \in {"foOpen", "foCand"}, s \in Sessions \cup {NoSession}, h \in Hows : Go(a, p, s, h) /\ UNCHANGED <<slot, sess>>
      BY <2>3
    <3>2. SlotMoves(a, p)
      BY <3>1 DEF SlotMoves, Needs, WithSlot
    <3> QED
      BY <1>0, <2>0, <3>1, <3>2, QuietKept
  <2>4. at[a] \in Sessions \cup {NoSession} /\ how[a] \in Hows
    BY <1>0 DEF Typed, TypeOK
  <2> QED
    BY <1>1, <2>1, <2>2, <2>3, <2>4 DEF FailoverLocked, Step, Hows
<1>2. CASE FailoverCandidates(a)
  <2>0. pc[a] = "foCand" /\ UNCHANGED <<mark, sess>>
    BY <1>2 DEF FailoverCandidates, poolVars
  <2>1. CASE End(a)
    BY <1>0, <2>0, <2>1, EndKept
  <2>2. CASE Step(a, "foRetire") /\ UNCHANGED slot
    <3>1. SlotMoves(a, "foRetire")
      BY <2>2 DEF SlotMoves, Needs, WithSlot
    <3> QED
      BY <1>0, <2>0, <2>2, <3>1, StepKept
  <2> QED
    BY <1>2, <2>1, <2>2 DEF FailoverCandidates
<1>3. CASE FailoverRetire(a)
  <2> DEFINE s == from[a]
             now == IF Tracked(s) THEN sess[s].inflight = 0 /\ ~sess[s].closing ELSE TRUE
  <2>0. s \in Sessions /\ pc[a] = "foRetire" /\ UNCHANGED mark
    BY <1>0, <1>3 DEF FailoverRetire, Typed, Placed, FromSession
  <2>1. /\ \A t \in Sessions \ {s} : sess'[t] = sess[t]
        /\ Tracked(s) => sess'[s].inflight = sess[s].inflight /\ sess'[s].closing = (sess[s].closing \/ now)
        /\ ~Tracked(s) => sess'[s] = sess[s]
    <3>1. CASE Tracked(s)
      <4>1. sess[s] \in LeaseStates
        BY <2>0, <3>1 DEF Tracked, Typed, TypeOK
      <4> QED
        BY <1>3, <2>0, <3>1, <4>1 DEF FailoverRetire, Tracked, Typed, TypeOK, LeaseStates
    <3>2. CASE ~Tracked(s)
      BY <1>3, <3>2 DEF FailoverRetire, Tracked
    <3> QED
      BY <3>1, <3>2
  <2>2. CountMoves /\ \A p, t : MarkMoves(a, p, t)
    BY <2>0, <2>1 DEF CountMoves, MarkMoves, Tracked
  <2>3. CASE Go(a, "foClose", s, "failover") /\ UNCHANGED slot
    <3>1. SlotMoves(a, "foClose")
      BY <2>3 DEF SlotMoves, Needs, WithSlot
    <3>2. FlagMoves(a, "foClose", s, "failover")
      BY <2>0, <2>1 DEF FlagMoves, Tracked, Owns
    <3> HIDE DEF s
    <3> QED
      BY <1>0, <2>0, <2>2, <2>3, <3>1, <3>2, MoveKept
  <2>4. CASE ~now
    <3>1. \A p, t, h : FlagMoves(a, p, t, h)
      <4>1. Tracked(s) => sess'[s].closing = sess[s].closing
        BY <2>0, <2>1, <2>4, StateTyped DEF LeaseStates, Tracked, Typed
      <4> HIDE DEF now
      <4> QED
        BY <2>0, <2>1, <4>1 DEF FlagMoves, Tracked, Owns
    <3>2. End(a) \/ (Step(a, "foOpen") /\ UNCHANGED slot)
      BY <1>3, <2>4 DEF FailoverRetire
    <3>3. PICK p \in {"rest", "foOpen"}, t \in Sessions \cup {NoSession}, h \in Hows : Go(a, p, t, h) /\ SlotMoves(a, p)
      <4>1. CASE End(a)
        BY <4>1 DEF End, FreeAll, SlotMoves, Needs, WithSlot, Hows
      <4>2. CASE Step(a, "foOpen") /\ UNCHANGED slot
        <5>1. at[a] \in Sessions \cup {NoSession} /\ how[a] \in Hows
          BY <1>0 DEF Typed, TypeOK
        <5> QED
          BY <4>2, <5>1 DEF Step, SlotMoves, Needs, WithSlot
      <4> QED
        BY <3>2, <4>1, <4>2
    <3> QED
      BY <1>0, <2>0, <2>2, <3>1, <3>3, MoveKept
  <2> QED
    BY <1>3, <2>3, <2>4 DEF FailoverRetire
<1>4. CASE FailoverClose(a)
  <2>0. pc[a] = "foClose" /\ UNCHANGED sess /\ at[a] \in Sessions /\ CountMoves
    BY <1>0, <1>4 DEF FailoverClose, Typed, Placed, AtSession, CountMoves, Tracked
  <2>1. CASE slot = NoOne /\ StartClose(a, at[a], "failover")
    <3>1. Go(a, "closing", at[a], "failover") /\ SlotMoves(a, "closing")
      BY <2>1 DEF StartClose, SlotMoves
    <3>2. MarkMoves(a, "closing", at[a])
      BY <2>0, <2>1 DEF StartClose, MarkMoves, Typed, TypeOK
    <3>3. FlagMoves(a, "closing", at[a], "failover")
      BY <2>0 DEF FlagMoves, Tracked, Owns
    <3> QED
      BY <1>0, <2>0, <3>1, <3>2, <3>3, MoveKept
  <2>2. CASE Step(a, "closeFailed") /\ UNCHANGED <<mark, slot>>
    <3>1. Go(a, "closeFailed", at[a], how[a]) /\ SlotMoves(a, "closeFailed")
      BY <2>2 DEF Step, SlotMoves, Needs, WithSlot
    <3>2. MarkMoves(a, "closeFailed", at[a]) /\ FlagMoves(a, "closeFailed", at[a], how[a])
      BY <2>0, <2>2 DEF MarkMoves, FlagMoves, Tracked, Owns
    <3> QED
      BY <1>0, <2>0, <3>1, <3>2, MoveKept
  <2> QED
    BY <1>4, <2>1, <2>2 DEF FailoverClose
<1> QED
  BY <1>1, <1>2, <1>3, <1>4 DEF FailoverStep

\* A stream cut under a background failover.
LEMMA StreamCutKept ==
    ASSUME Typed, PoolInv, NEW r \in Requests, NEW b \in Backgrounds, StreamCut(r, b)
    PROVE  PoolInv'
<1>1. b \in Actors /\ SlotMoves(b, "fo")
  BY DEF Actors, StreamCut, SlotMoves, Needs, WithSlot
<1> QED
  BY <1>1, QuietKept DEF StreamCut, poolVars

\* The chain, the router and the clock.
LEMMA ChainKept ==
    ASSUME Typed, PoolInv, NEW s \in Sessions, ChainStep(s)
    PROVE  PoolInv'
<1>1. UNCHANGED <<pc, at, how, sess, slot>>
  BY DEF ChainStep, OpenLands, CloseLands, ClosedElsewhere, TimePasses, MarkLapses, AttemptExpires, poolVars, actorVars
<1>2. \A t \in Sessions : mark'[t] = "now" => mark[t] = "now"
  BY DEF ChainStep, OpenLands, CloseLands, ClosedElsewhere, TimePasses, MarkLapses, AttemptExpires, poolVars, Typed, TypeOK
<1> QED
  BY <1>1, <1>2 DEF PoolInv, SlotHeld, Needs, Owned, Owns, Tracked, NoPhantomUse, Leases

\* Every step keeps the invariant.
LEMMA PoolKept == Typed /\ PoolInv /\ [Next]_vars => PoolInv'
<1> SUFFICES ASSUME Typed, PoolInv, [Next]_vars PROVE PoolInv'
  OBVIOUS
<1>1. ASSUME NEW r \in Requests, RequestStep(r) PROVE PoolInv'
  BY <1>1, AcquireKept, OpenKept, LeaseEndsKept, InvalidateKept DEF RequestStep
<1>2. ASSUME NEW a \in Actors, ScanStep(a) \/ CloseStep(a) PROVE PoolInv'
  BY <1>2, ScanKept, CloseKept
<1>3. CASE \E a \in Sweepers : SweepRetired(a) \/ ScanOrphans(a)
  BY <1>3, SweepKept, ActorsAssumption DEF Actors
<1>5. CASE UNCHANGED vars
  BY <1>5 DEF vars, poolVars, actorVars, PoolInv, SlotHeld, Needs, Owned, Owns, Tracked, NoPhantomUse, Leases
<1> QED
  BY <1>1, <1>2, <1>3, <1>5, RehydrateKept, StreamCutKept, ReleaseKept, FailoverKept, AdminKept, ChainKept DEF Next

\* It holds of the empty pool.
LEMMA PoolInitially == Init => PoolInv
<1> SUFFICES ASSUME Init PROVE PoolInv
  OBVIOUS
<1>1. SlotHeld
  BY DEF Init, SlotHeld, Needs, WithSlot
<1>2. Owned /\ NoPhantomUse
  BY DEF Init, Owned, NoPhantomUse, Tracked
<1> QED
  BY <1>1, <1>2 DEF PoolInv

\* The inductive invariant holds in every world.
THEOREM PoolIInv == Spec => [](Typed /\ PoolInv)
BY TypedInit, TypedKept, PoolInitially, PoolKept, PTL DEF Spec

\* Opens and closes never race on the wallet nonce: of the open POSTs, their
\* reconciliations and the closes, by requests, failovers, sweeps and admins,
\* one is under way at a time (walletSlot, which AcquireCtx, failoverOpen and
\* every caller of closeWithToken take first).
THEOREM WalletCallsAlone == Spec => []OneWalletCall
<1>1. PoolInv => OneWalletCall
  BY DEF PoolInv, SlotHeld, Needs, WithSlot, OneWalletCall
<1> QED
  BY <1>1, PoolIInv, PTL

\* No session is stuck in closing: every mark without an end and every closing
\* flag belongs to a goroutine on its way to forget the session or to put it
\* back (closeWithToken, sweepRetired, FailoverCtx), whatever happens around it.
THEOREM ClosesHaveOwners == Spec => []CloseHasOwner
<1>1. PoolInv => CloseHasOwner
  BY DEF PoolInv, Owned, Owns, CloseHasOwner
<1> QED
  BY <1>1, PoolIInv, PTL

\* No session is counted as used beyond the requests that use it, whatever a
\* scan, a poll or an admin forgets meanwhile (leaseLocked, Lease.Done).
THEOREM UseIsReal == Spec => []NoPhantomUse
<1>1. PoolInv => NoPhantomUse
  BY DEF PoolInv
<1> QED
  BY <1>1, PoolIInv, PTL
=============================================================================
