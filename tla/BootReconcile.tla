--------------------------- MODULE BootReconcile ---------------------------
(***************************************************************************)
(* The boot reconcile of internal/pool/reconcile.go: a new process finds   *)
(* sessions open on chain, keeps opens waiting at a gate until it has      *)
(* listed them, adopts one per model and closes what is left over, while   *)
(* requests, the idle sweep and the orphan sweep (sweep.go) start to work. *)
(*                                                                         *)
(* The pool is abstracted to what the boot meets: entries, closing marks,  *)
(* leases and the line for the wallet slot, whose head holds it.  A close  *)
(* under the slot and a scan are one step each; the pool's own modules     *)
(* take them apart.  Sessions are numbers in pickOne's order: of two of a  *)
(* model the higher one ends later.                                        *)
(***************************************************************************)
EXTENDS StateStore, Sequences, SequencesExt

CONSTANTS
  Worlds,         \* worlds to explore: [model, excluded, before, fresh, ages,
                  \* acts, starts]: the model of each session, those on excluded
                  \* providers, those an earlier run left open, those yet to be
                  \* opened, those whose age matters (the others are old),
                  \* which optional actors take part, and the bound on starts
                  \* of the process
  Model,          \* the model the requests ask for
  Catalog,        \* models in the catalog
  Requests,
  NoSession,
  MaxBootCloses, SweepMaxSkips,
  MaxTries        \* bound: list attempts while the gate is closed

ASSUME BootAssumption ==
    /\ Sessions \subseteq Nat /\ IsFiniteSet(Sessions) /\ NoSession \notin Sessions
    /\ "sweep" \notin Requests
    /\ MaxBootCloses \in Nat \ {0} /\ SweepMaxSkips \in Nat \ {0}

VARIABLES
  world,   \* the world explored (fixed)
  chain,   \* chain[s]: none, sent (its open may still land), open, closed
  life,    \* life[s]: young (younger than pruneGrace), old, ended (expiryBuffer or less left)
  cutSent, \* sessions whose close call was cut and may still land
  pool,    \* the pool's memory, below
  gate,    \* the gate is closed
  known,   \* stateKnown
  boot,    \* StartupReconcile: [pc, late, tries, list, todo]
  unseen,  \* sessions open since before the start, not young then, that no
           \* list has shown yet (history)
  line,    \* the wallet slot's holder and its waiters
  skips,   \* sweepSkips
  req      \* req[r]: [pc, at]

chainVars == <<world, chain, life, cutSent>>
bootVars == <<chainVars, pool, gate, known, boot, unseen, line, skips, req>>

Models == UNION {Range(w.model) : w \in Worlds}
ModelOf(s) == world.model[s]

\* No session is opened with an excluded provider.
ASSUME WorldsAssumption ==
    /\ Model \in Models
    /\ \A w \in Worlds : w.model \in [Sessions -> Models] /\ w.fresh \subseteq Sessions \ w.excluded

Acts(a) == a \in world.acts

\* entries; closingIDs (now: without expiry); pending open attempts; knownDup
\* and what the idle sweep retired; the list of the last scan, kept where
\* a shutdown reads it; onClosed calls under way.
NewPool == [entry |-> [m \in Models |-> NoSession], mark |-> [s \in Sessions |-> "none"],
            mine |-> {}, spare |-> {}, shown |-> {}, notices |-> [s \in Sessions |-> 0]]
NewBoot == [pc |-> "list", late |-> FALSE, tries |-> 0, list |-> {}, todo |-> <<>>]
DoneBoot == [NewBoot EXCEPT !.pc = "done"]
IdleReq == [pc |-> "idle", at |-> NoSession]

BootTypeOK ==
    /\ \A s \in Sessions : /\ chain[s] \in {"none", "sent", "open", "closed"}
                           /\ life[s] \in {"young", "old", "ended"}
                           /\ pool.mark[s] \in {"none", "now", "cut"}
    /\ pool.entry \in [Models -> Sessions \cup {NoSession}]
    /\ boot.pc \in {"list", "apply", "close", "done"}
    /\ Range(boot.todo) \subseteq Sessions /\ IsInjective(boot.todo)
    /\ Range(line) \subseteq Requests \cup {"sweep"} /\ IsInjective(line)
    /\ skips \in 0 .. SweepMaxSkips

Open == {s \in Sessions : chain[s] = "open"}
LeftOver == {s \in Open : life[s] # "young"}

\* Sessions of an earlier run are open, of any age; the fresh ones are yet to
\* be opened.
BootInit ==
    /\ world \in Worlds
    /\ chain = [s \in Sessions |-> IF s \in world.before THEN "open" ELSE "none"]
    /\ life \in [Sessions -> {"young", "old", "ended"}]
    /\ \A s \in Sessions \ world.ages : life[s] = "old"
    /\ \A s \in world.ages \ world.before : life[s] = "young"
    /\ cutSent = {}
    /\ pool = NewPool /\ boot = NewBoot /\ gate = TRUE /\ known = FALSE
    /\ unseen = LeftOver
    /\ line = <<>> /\ skips = 0 /\ req = [r \in Requests |-> IdleReq]

-----------------------------------------------------------------------------
Usable(s) == life[s] # "ended"
Busy(s) == \E r \in Requests : req[r].pc \in {"track", "use"} /\ req[r].at = s

\* A lease may take the session of m (tryPooledLocked, usableEntry).
Servable(m, p) == LET s == p.entry[m] IN s # NoSession /\ Usable(s) /\ p.mark[s] = "none"

\* pickOne
PickOne(S) == CHOOSE s \in S : \A t \in S : t <= s
CutPending == \E s \in Sessions : pool.mark[s] = "cut"

\* A list holds every open session, but may lag behind a young one.
Lists == {L \in SUBSET Open : \A s \in Open : life[s] # "young" => s \in L}

\* notifyClosed: the sessions are forgotten, the credit starts on its own.
Notified(p, gone) ==
    [p EXCEPT !.entry = [m \in Models |-> IF p.entry[m] \in gone THEN NoSession ELSE p.entry[m]],
              !.notices = [s \in Sessions |-> IF s \in gone /\ Acts("credit") /\ p.notices[s] < MaxCredits
                                              THEN p.notices[s] + 1 ELSE p.notices[s]]]

\* closeWithToken, called with the slot: the session is closed (or found
\* closed already), the call fails, or it is cut and may still land.
CloseOutcomes == {"ok", "failed"} \cup (IF Acts("cut") THEN {"cut"} ELSE {})
CloseCall(s, out, p) ==
    /\ chain' = IF out = "ok" THEN [chain EXCEPT ![s] = "closed"] ELSE chain
    /\ cutSent' = IF out = "cut" THEN cutSent \cup {s} ELSE cutSent
    /\ pool' = CASE out = "ok" -> [Notified(p, {s}) EXCEPT !.mark[s] = "none", !.spare = @ \ {s}, !.shown = @ \ {s}]
                 [] out = "cut" -> [p EXCEPT !.mark[s] = "cut"]
                 [] OTHER -> [p EXCEPT !.mark[s] = "none"]
    /\ UNCHANGED <<world, life>>

-----------------------------------------------------------------------------
\* The wallet scan.

\* applyScan of the list L: the pool it leaves and the sessions close-due.
Scanned(L) ==
    LET gone == {s \in Sessions \ L : pool.mark[s] = "cut"}
        p == [pool EXCEPT !.mark = [s \in Sessions |-> IF s \in gone THEN "none" ELSE @[s]]]
        free == {s \in L : p.mark[s] = "none"}
        held == {s \in free : Busy(s) \/ p.entry[ModelOf(s)] = s}
        matched == (free \ held) \cap p.mine
        ours == {s \in matched : Usable(s)}
        rest == free \ (held \cup matched)
        restDue == {s \in rest : \/ ~Usable(s) \/ s \in p.spare
                                 \/ life[s] = "old" /\ s \in world.excluded}
        older == {s \in rest \ restDue : life[s] = "old"}
        Of(S, m) == {s \in S : ModelOf(s) = m}
        Kept(m) == IF Servable(m, p) \/ Of(ours \cup older, m) = {} THEN p.entry[m]
                   ELSE PickOne(IF Of(ours, m) # {} THEN Of(ours, m) ELSE Of(older, m))
        kept == {Kept(m) : m \in Models}
        Gone(s) == s \notin L \cup {NoSession} /\ ~Busy(s) /\ life[s] # "young"
    IN  [pool |-> Notified(
                    [p EXCEPT !.entry = [m \in Models |-> IF Gone(Kept(m)) THEN NoSession ELSE Kept(m)],
                              !.mine = @ \ matched,
                              !.spare = (@ \cup (ours \ kept)) \cap L,
                              !.shown = IF Acts("stop") THEN L ELSE {}], gone),
         due |-> {s \in held : ~Usable(s) /\ ~Busy(s)} \cup restDue \cup ((matched \cup older) \ kept)]

-----------------------------------------------------------------------------
\* The boot reconcile.

\* Sessions of a model that has a better one, but not the young ones.
Duplicates(usable) ==
    {s \in usable : life[s] # "young" /\ \E t \in usable : ModelOf(t) = ModelOf(s) /\ t > s}

\* PlanReconcile: what to adopt and what to close. Without a catalog every
\* model counts as configured.
Plan(L, catalog) ==
    LET expired == {s \in L : ~Usable(s)}
        excluded == (L \ expired) \cap world.excluded
        usable == {s \in L \ (expired \cup excluded) : catalog => ModelOf(s) \in Catalog}
    IN  [adopt |-> {s \in usable : \A t \in usable : ModelOf(t) = ModelOf(s) => t <= s},
         expired |-> expired, excluded |-> excluded, dups |-> Duplicates(usable)]

ListRead == \E L \in Lists : boot' = [boot EXCEPT !.pc = "apply", !.list = L, !.tries = 0] /\ unseen' = unseen \ L
MustStop == boot.late \/ boot.tries = MaxTries

\* Mutant: the deadline does not open the gate.
BootListHolds(ok) ==
    /\ boot.pc = "list"
    /\ IF ok THEN ListRead
       ELSE /\ \E late \in IF MustStop THEN {TRUE} ELSE BOOLEAN :
                 boot' = [boot EXCEPT !.late = late, !.tries = IF late THEN 0 ELSE @ + 1]
            /\ UNCHANGED unseen
    /\ UNCHANGED <<chainVars, pool, gate, known, line, skips, req>>

\* plan reads the list; a failure is retried, and past the deadline the gate
\* opens before any list was read. A failed read and a list with an
\* unverifiable row are the same here.
BootList(ok) ==
    /\ boot.pc = "list"
    /\ IF ok THEN ListRead /\ UNCHANGED gate
       ELSE \E late \in IF MustStop THEN {TRUE} ELSE BOOLEAN :
              /\ boot' = [boot EXCEPT !.late = late, !.tries = IF late THEN 0 ELSE @ + 1]
              /\ gate' = (gate /\ ~late)
              /\ UNCHANGED unseen
    /\ UNCHANGED <<chainVars, pool, known, line, skips, req>>

\* The closes of one pass: sessions at their end, those of excluded providers,
\* duplicates, each in the order of the list, which is the router's; up to a
\* cap.
Capped(t) == IF Len(t) > MaxBootCloses THEN SubSeq(t, 1, MaxBootCloses) ELSE t
InTurn(A, B, C) ==
    {Capped(a \o b \o c) : a \in SetToSeqs(A), b \in SetToSeqs(B), c \in SetToSeqs(C)}

\* Mutant: a late pass closes duplicates as well.
PassClosesLate(plan, late) == InTurn(plan.expired, plan.excluded, plan.dups)

\* A late pass leaves duplicates alone.
PassCloses(plan, late) == InTurn(plan.expired, plan.excluded, IF late THEN {} ELSE plan.dups)

\* plan applies its decisions and the gate is released.
BootApply(catalog) ==
    LET plan == Plan(boot.list, catalog)
        Adopted(m) == {s \in plan.adopt : ModelOf(s) = m /\ (pool.entry[m] = NoSession \/ pool.entry[m] <= s)}
    IN  /\ boot.pc = "apply"
        /\ \E closes \in PassCloses(plan, boot.late) :
             /\ pool' = [pool EXCEPT
                           !.entry = [m \in Models |-> IF Adopted(m) # {} THEN PickOne(Adopted(m)) ELSE @[m]],
                           !.mark = [s \in Sessions |-> IF s \in Range(closes) THEN "now" ELSE @[s]]]
             /\ boot' = [boot EXCEPT !.pc = "close", !.list = {}, !.todo = closes]
        /\ gate' = FALSE /\ known' = TRUE
        /\ UNCHANGED <<chainVars, unseen, line, skips, req>>

\* Mutant: deferred closes keep their marks.
UnmarkedNone(p, todo) == p

\* unmark
Unmarked(p, todo) == [p EXCEPT !.mark = [s \in Sessions |-> IF s \in Range(todo) /\ @[s] = "now" THEN "none" ELSE @[s]]]

\* runCloses: one close at a time, when the slot is free and no cut close is
\* pending; otherwise the rest is left to the sweep.
BootClose ==
    /\ boot.pc = "close"
    /\ IF boot.todo = <<>> \/ CutPending \/ line # <<>>
       THEN /\ pool' = Unmarked(pool, boot.todo)
            /\ boot' = DoneBoot
            /\ UNCHANGED chainVars
       ELSE /\ \E out \in CloseOutcomes : CloseCall(Head(boot.todo), out, pool)
            /\ boot' = [boot EXCEPT !.todo = Tail(@)]
    /\ UNCHANGED <<gate, known, line, skips, req, unseen>>

-----------------------------------------------------------------------------
\* Requests (AcquireCtx, with the store's TrackSessionOpen).

Goes(r, pc, s) == req' = [req EXCEPT ![r] = [pc |-> pc, at |-> s]]

\* A request that finds a servable session takes it, without the gate.
Arrive(r) ==
    /\ req[r].pc = "idle"
    /\ IF Servable(Model, pool) THEN Goes(r, "use", pool.entry[Model]) ELSE Goes(r, "wait", NoSession)
    /\ UNCHANGED <<chainVars, pool, gate, known, boot, unseen, line, skips>>

\* Past the gate and with the model's open lock it looks again and queues.
Enter(r) ==
    /\ req[r].pc = "wait" /\ ~gate
    /\ \A q \in Requests : req[q].pc \notin {"line", "post"}
    /\ IF Servable(Model, pool)
       THEN Goes(r, "use", pool.entry[Model]) /\ UNCHANGED line
       ELSE Goes(r, "line", NoSession) /\ line' = Append(line, r)
    /\ UNCHANGED <<chainVars, pool, gate, known, boot, unseen, skips>>

\* Mutant: an unknown wallet does not stop the open.
MayOpenBlindly == TRUE

\* Without a list of its own an open needs one read since the start.
MayOpenBlind == known

\* With the slot it looks once more and scans the wallet. The scan fails: it
\* opens only if the wallet is known.
OpenBlind(r) ==
    /\ req[r].pc = "line" /\ Head(line) = r /\ ~Servable(Model, pool)
    /\ IF MayOpenBlind THEN Goes(r, "post", NoSession) /\ UNCHANGED line
       ELSE Goes(r, "idle", NoSession) /\ line' = Tail(line)
    /\ UNCHANGED <<chainVars, pool, gate, known, boot, unseen, skips>>

\* The scan has found a session, or the open follows.
ScanAndOpen(r) ==
    /\ req[r].pc = "line" /\ Head(line) = r
    /\ \E L \in Lists :
         LET first == Servable(Model, pool)
             p == IF first THEN pool ELSE Scanned(L).pool
         IN  /\ pool' = p
             /\ known' = (known \/ ~first)
             /\ unseen' = IF first THEN unseen ELSE unseen \ L
             /\ IF Servable(Model, p) THEN Goes(r, "use", p.entry[Model]) /\ line' = Tail(line)
                ELSE Goes(r, "post", NoSession) /\ UNCHANGED line
    /\ UNCHANGED <<chainVars, gate, boot, skips>>

\* The open: it lands, it fails, or its answer is lost and it may land later.
Post(r) ==
    /\ req[r].pc = "post"
    /\ line' = Tail(line)
    /\ \/ /\ Goes(r, "idle", NoSession)
          /\ UNCHANGED <<chain, pool>>
       \/ \E s \in {t \in world.fresh : chain[t] = "none"}, landed \in BOOLEAN :
            /\ chain' = [chain EXCEPT ![s] = IF landed THEN "open" ELSE "sent"]
            /\ pool' = IF landed THEN [pool EXCEPT !.entry[Model] = s]
                       ELSE [pool EXCEPT !.mine = @ \cup {s}]
            /\ IF landed THEN Goes(r, IF Acts("credit") THEN "track" ELSE "use", s) ELSE Goes(r, "idle", NoSession)
    /\ UNCHANGED <<world, life, cutSent, gate, known, boot, unseen, skips>>

\* acquireSession tracks the open once it has the lease.
Track(r, k) ==
    /\ req[r].pc = "track"
    /\ Goes(r, "use", req[r].at)
    /\ \E ok \in BOOLEAN : TrackSessionOpen(req[r].at, k, ok)
    /\ UNCHANGED <<chainVars, pool, gate, known, boot, unseen, line, skips>>

Done(r) ==
    /\ req[r].pc = "use"
    /\ Goes(r, "idle", NoSession)
    /\ UNCHANGED <<chainVars, pool, gate, known, boot, unseen, line, skips>>

-----------------------------------------------------------------------------
\* Sweeps, the status poll and admin closes.

\* Mutant: a tick that finds the slot busy always gives up.
SkipsAreOver(n) == FALSE

\* sweepMaxSkips busy ticks make the sweep queue.
SkipsOver(n) == n >= SweepMaxSkips

\* ScanOrphans asks for the slot; busy ticks are counted. The loop of one tick
\* over several closes is taken as several ticks, and the age of a close-due
\* session, which also makes it queue, is left out.
SweepTick ==
    /\ ~gate /\ "sweep" \notin Range(line)
    /\ IF line = <<>> THEN line' = <<"sweep">> /\ skips' = 0
       ELSE /\ skips' = IF skips < SweepMaxSkips THEN skips + 1 ELSE skips
            /\ line' = IF SkipsOver(skips + 1) THEN Append(line, "sweep") ELSE line
    /\ UNCHANGED <<chainVars, pool, gate, known, boot, unseen, req>>

\* The sweep's hold: a scan, then at most one close unless a cut one is
\* pending. All of it works, or any part may not.
SweepHold(works) ==
    /\ line # <<>> /\ Head(line) = "sweep"
    /\ line' = Tail(line) /\ skips' = 0
    /\ \/ /\ ~works
          /\ UNCHANGED <<chainVars, pool, known, unseen>>
       \/ \E L \in IF works THEN {Open} ELSE Lists : \E scan \in {Scanned(L)} :
            /\ known' = TRUE /\ unseen' = unseen \ L
            /\ IF scan.due = {} \/ \E s \in Sessions : scan.pool.mark[s] = "cut"
               THEN pool' = scan.pool /\ UNCHANGED chainVars
               ELSE \E s \in scan.due : \E out \in IF works THEN {"ok"} ELSE CloseOutcomes :
                      CloseCall(s, out, scan.pool)
    /\ UNCHANGED <<gate, boot, req>>

\* sweepRetired for one idle session: it leaves the pool before its close.
IdleClose(s) ==
    /\ Acts("idle") /\ ~gate /\ line = <<>> /\ ~CutPending
    /\ s \in Range(pool.entry) /\ ~Busy(s) /\ pool.mark[s] = "none"
    /\ \E out \in CloseOutcomes :
         CloseCall(s, out, [pool EXCEPT !.entry[ModelOf(s)] = NoSession, !.spare = @ \cup {s}])
    /\ UNCHANGED <<gate, known, boot, unseen, line, skips, req>>

\* rehydrate: the status poll and the housekeeping scan need no slot.
Rehydrate ==
    /\ Acts("poll") /\ ~gate
    /\ \E L \in Lists : pool' = Scanned(L).pool /\ unseen' = unseen \ L
    /\ known' = TRUE
    /\ UNCHANGED <<chainVars, gate, boot, line, skips, req>>

\* CloseSession from the console, on any session it was ever shown: the entry
\* goes first. Its rescan is a Rehydrate.
AdminClose(s) ==
    /\ Acts("admin") /\ line = <<>> /\ chain[s] \in {"open", "closed"}
    /\ \E out \in CloseOutcomes :
         CloseCall(s, out, [pool EXCEPT !.entry = [m \in Models |-> IF @[m] = s THEN NoSession ELSE @[m]]])
    /\ UNCHANGED <<gate, known, boot, unseen, line, skips, req>>

\* The onClosed call: the used time is read from the chain and credited, or
\* cannot be read.
Credit(s) ==
    /\ pool.notices[s] > 0
    /\ pool' = [pool EXCEPT !.notices[s] = @ - 1]
    /\ \/ \E ok \in BOOLEAN : RecordSessionClose(s, ok)
       \/ UNCHANGED storeVars
    /\ UNCHANGED <<chainVars, gate, known, boot, unseen, line, skips, req>>

-----------------------------------------------------------------------------
\* The chain and time.

\* An open or a close whose answer was lost lands.
Lands(s) ==
    /\ \/ chain[s] = "sent" /\ chain' = [chain EXCEPT ![s] = "open"]
       \/ s \in cutSent /\ chain' = [chain EXCEPT ![s] = "closed"]
    /\ cutSent' = cutSent \ {s}
    /\ UNCHANGED <<world, life, pool, gate, known, boot, unseen, line, skips, req>>

Age(s) ==
    /\ s \in world.ages /\ chain[s] = "open" /\ life[s] # "ended"
    /\ life' = [life EXCEPT ![s] = IF @ = "young" THEN "old" ELSE "ended"]
    /\ UNCHANGED <<world, chain, cutSent, pool, gate, known, boot, unseen, line, skips, req>>

\* routerCloseMaxLife after it was cut, a close cannot land any more and its
\* mark ends.
MarkLapses(s) ==
    /\ pool.mark[s] = "cut"
    /\ pool' = [pool EXCEPT !.mark[s] = "none"]
    /\ cutSent' = cutSent \ {s}
    /\ UNCHANGED <<world, chain, life, gate, known, boot, unseen, line, skips, req>>

\* A new process: memory is gone, the chain goes on (New, Gate).
BootAgain ==
    /\ pool' = NewPool /\ boot' = NewBoot /\ gate' = TRUE /\ known' = FALSE
    /\ unseen' = LeftOver
    /\ line' = <<>> /\ skips' = 0 /\ req' = [r \in Requests |-> IdleReq]
    /\ UNCHANGED chainVars

-----------------------------------------------------------------------------
\* A closing mark without expiry, which keeps a session from every lease and
\* every sweep, has a boot close that will clear it: what the boot defers is
\* unmarked (runCloses, unmark).
MarkHasOwner == \A s \in Sessions : pool.mark[s] = "now" => s \in Range(boot.todo)

\* Stake is not locked for a new session while one from before the restart
\* serves the model: no open is posted before a list has shown every left-over
\* session, and none after a scan that could adopt one. The exceptions are an
\* entry whose close was cut: the scan measures the others by an entry it drops
\* only at its end; and a session that other requests use and the entry has
\* lost: no scan takes it back (waitGate, stateKnown, applyScan).
Adoptable(s) ==
    /\ chain[s] = "open" /\ life[s] = "old" /\ ModelOf(s) = Model
    /\ s \notin world.excluded \cup pool.spare /\ pool.mark[s] = "none" /\ ~Busy(s)
NoNeedlessOpen ==
    [][\A r \in Requests :
         /\ req[r].pc = "line" /\ req'[r].pc = "post" => \A s \in unseen' : chain[s] # "open" \/ ModelOf(s) # Model
         /\ ScanAndOpen(r) /\ req'[r].pc = "post"
            /\ (pool.entry[Model] # NoSession => pool.mark[pool.entry[Model]] # "cut") =>
              \A s \in Sessions : ~Adoptable(s)]_bootVars

\* The boot's own closes take no session from a request that uses it, however
\* late the list came, unless it is at its end, or somebody else's close of it
\* failed meanwhile and lifted the boot's mark (PlanReconcile, runCloses).
BootSparesLeases ==
    [][boot.pc = "close" /\ boot'.todo # boot.todo =>
         \A s \in Sessions : chain'[s] # chain[s] /\ Busy(s) /\ pool.mark[s] = "now" => ~Usable(s)]_bootVars
=============================================================================
