---------------------------- MODULE UplinkProofs ----------------------------
(***************************************************************************)
(* Proofs about the Uplink process for any sessions, worlds, requests,     *)
(* keys and bounds: the state file is sound over failed saves and          *)
(* restarts, boot closes give their marks back, a stop is a stop, the      *)
(* reclaim does not skip a day, no open is needless, the boot's closes     *)
(* spare leases and no event is lost on its way to the audit trail.        *)
(***************************************************************************)
EXTENDS Uplink, SequenceTheorems, FiniteSetTheorems, WellFoundedInduction, TLAPS

-----------------------------------------------------------------------------
\* The types of the boot's world.

PoolStates ==
    [entry : [Models -> Sessions \cup {NoSession}],
     mark : [Sessions -> {"none", "now", "cut"}],
     mine : SUBSET Sessions, spare : SUBSET Sessions, shown : SUBSET Sessions,
     notices : [Sessions -> 0 .. MaxCredits]]

BootStates ==
    [pc : {"list", "apply", "close", "done"}, late : BOOLEAN, tries : Nat,
     list : SUBSET Sessions, todo : Seq(Sessions)]

ReqStates ==
    [pc : {"idle", "wait", "line", "post", "track", "use"}, at : Sessions \cup {NoSession}]

ChainTyped ==
    /\ world \in Worlds
    /\ chain \in [Sessions -> {"none", "sent", "open", "closed"}]
    /\ life \in [Sessions -> {"young", "old", "ended"}]
    /\ cutSent \subseteq Sessions

MemoryTyped ==
    /\ pool \in PoolStates
    /\ gate \in BOOLEAN /\ known \in BOOLEAN
    /\ boot \in BootStates
    /\ unseen \subseteq Sessions
    /\ line \in Seq(Requests \cup {"sweep"})
    /\ skips \in 0 .. SweepMaxSkips
    /\ req \in [Requests -> ReqStates]

Among(x, q) == \E i \in 1 .. Len(q) : q[i] = x
Once(q) == \A i, j \in 1 .. Len(q) : q[i] = q[j] => i = j

\* The line for the slot holds each request that is in it once, and an open
\* is posted by its head.
LineInv ==
    /\ Once(line)
    /\ \A r \in Requests :
         /\ Among(r, line) <=> req[r].pc \in {"line", "post"}
         /\ req[r].pc = "post" => line[1] = r

\* What the boot has left to close was on a list, and it alone marks without
\* an expiry.
TodoInv ==
    /\ Once(boot.todo)
    /\ boot.pc # "close" => boot.todo = <<>>
    /\ \A s \in Sessions : pool.mark[s] = "now" => Among(s, boot.todo)
    /\ \A i \in 1 .. Len(boot.todo) : chain[boot.todo[i]] \in {"open", "closed"}
    /\ \A s \in boot.list : chain[s] \in {"open", "closed"}

\* Behind the closed gate there is nothing to lease, and a pass in time works
\* behind it.
GateInv ==
    /\ boot.pc \in {"list", "apply"} /\ ~boot.late => gate
    /\ gate => /\ line = <<>>
               /\ \A m \in Models : pool.entry[m] = NoSession
               /\ \A r \in Requests : req[r].pc \in {"idle", "wait"}

\* Sessions of excluded providers are never pooled, and a session marked by
\* the boot is in use only at its end.
LeaseInv ==
    /\ \A m \in Models : pool.entry[m] \in Sessions => pool.entry[m] \notin world.excluded
    /\ \A s \in pool.mine : s \notin world.excluded
    /\ \A r \in Requests : req[r].pc \in {"track", "use"} => req[r].at \in Sessions \ world.excluded
    /\ \A s \in Sessions : pool.mark[s] = "now" /\ Busy(s) => ~Usable(s)

\* Once a list was read, what it did not show is closed.
SeenInv ==
    /\ \A s \in unseen : life[s] # "young" /\ chain[s] \in {"open", "closed"}
    /\ known \/ boot.pc = "apply" => \A s \in unseen : chain[s] = "closed"

BootInv == ChainTyped /\ MemoryTyped /\ LineInv /\ TodoInv /\ GateInv /\ LeaseInv /\ SeenInv

-----------------------------------------------------------------------------
\* The store.

\* No key has anything to do with s.
Untouched(st, s) == st.opener[s] = Unknown /\ \A k \in Keys : st.credit[s][k] = 0

\* A session is tracked once, by the request that opened it.
TrackInv ==
    /\ \A s \in Sessions : chain[s] = "none" => Untouched(mem, s) /\ Untouched(file, s)
    /\ \A r \in Requests : req[r].pc = "track" =>
         /\ Untouched(mem, req[r].at) /\ Untouched(file, req[r].at)
         /\ chain[req[r].at] # "none"
         /\ \A q \in Requests : req[q].pc = "track" /\ req[q].at = req[r].at => q = r

\* Memory is ahead of the file, never behind it.
FileBehind ==
    \A k \in Keys :
      /\ file.keys[k] # "none" => mem.keys[k] # "none"
      /\ file.keys[k] = "revoked" => mem.keys[k] = "revoked"
      /\ mem.keys[k] = "revoked" => file.keys[k] = "revoked" \/ k \in shaky

KeysInv == StoreTypeOK /\ ToldIsDurable /\ FileBehind

-----------------------------------------------------------------------------
\* The reclaim and the process.

Passes == [pc : {"idle", "read", "draw"}, day : {"earlier", "today"}, rounds : 0 .. MaxRounds, startup : BOOLEAN]

HouseInv ==
    /\ claim \in 0 .. MaxClaim
    /\ lastDay \in {"none", "earlier", "today"}
    /\ pass \in [Runners -> Passes]
    /\ \A r \in Runners : pass[r].pc = "draw" /\ pass[r].day = "today" => looked

\* A signal that was heard is in the channel or has cancelled the restart.
StopInv ==
    /\ phase \in {"up", "drain", "close", "exec", "down"}
    /\ again \in BOOLEAN /\ signal \in BOOLEAN /\ heard \in BOOLEAN
    /\ phase \in {"up", "exec"} => ~heard
    /\ phase = "drain" /\ heard => ~again \/ signal

-----------------------------------------------------------------------------
\* The reclaim.

LEMMA PassesStart ==
  /\ NoPass \in Passes /\ NoPass.pc = "idle"
  /\ HouseMemory \in [Runners -> Passes] /\ \A r \in Runners : HouseMemory[r].pc # "draw"
  /\ [NoPass EXCEPT !.pc = "read"] \in Passes
  /\ 0 \in 0 .. MaxClaim /\ MaxClaim \in Nat /\ MaxRounds \in Nat
<1>1. MaxRounds \in Nat /\ MaxClaim \in Nat
  BY HousekeepAssumption
<1>2. 0 \in 0 .. MaxRounds /\ 0 \in 0 .. MaxClaim
  BY <1>1
<1>3. NoPass \in Passes /\ NoPass.pc = "idle" /\ [NoPass EXCEPT !.pc = "read"] \in Passes
      /\ [NoPass EXCEPT !.pc = "read", !.startup = TRUE] \in Passes
      /\ [NoPass EXCEPT !.pc = "read", !.startup = TRUE].pc = "read"
  BY <1>2 DEF NoPass, Passes
<1>4. HouseMemory \in [Runners -> Passes] /\ \A r \in Runners : HouseMemory[r].pc # "draw"
  BY <1>3 DEF HouseMemory
<1> QED BY <1>1, <1>2, <1>3, <1>4

\* What a step of the reclaim keeps: its types, and who draws today has read
\* today (ReadHold).
LEMMA EndPassKept ==
  ASSUME HouseInv, NEW r \in Runners, NEW failed \in BOOLEAN, EndPass(r, failed)
  PROVE  /\ lastDay' \in {"none", "earlier", "today"}
         /\ pass' \in [Runners -> Passes]
         /\ \A q \in Runners : pass'[q].pc = "draw" => q # r /\ pass'[q] = pass[q]
         /\ lastDay' = "today" => lastDay = "today" \/ r = "admin" \/ pass[r].day = "today"
<1>1. pass' \in [Runners -> Passes] /\ \A q \in Runners : pass'[q].pc = "draw" => q # r /\ pass'[q] = pass[q]
  <2>1. NoPass \in Passes /\ HouseMemory[r] \in Passes
        /\ NoPass.pc # "draw" /\ HouseMemory[r].pc # "draw"
    BY PassesStart
  <2>2. PICK new \in {NoPass, HouseMemory[r]} : pass' = [pass EXCEPT ![r] = new]
    BY DEF EndPass
  <2> QED BY <2>1, <2>2 DEF HouseInv
<1>2. lastDay' \in {"none", "earlier", "today"}
      /\ (lastDay' = "today" => lastDay = "today" \/ r = "admin" \/ pass[r].day = "today")
  BY DEF EndPass, DayAfter, HouseInv, Passes
<1> QED BY <1>1, <1>2

LEMMA HouseInitInv ==
  ASSUME HouseInit
  PROVE  HouseInv
BY PassesStart DEF HouseInit, HouseInv

LEMMA HouseBootInv ==
  ASSUME HouseInv, HouseBoot
  PROVE  HouseInv'
BY PassesStart DEF HouseBoot, HouseInv

\* Every step of the reclaim keeps its invariant and does not mark the day
\* before it was looked at.
LEMMA HouseStepInv ==
  ASSUME HouseInv, HouseStep
  PROVE  HouseInv' /\ (lastDay' = "today" /\ lastDay # "today" => looked' \/ pass["admin"].day = "earlier")
<1> DEFINE Goal == HouseInv' /\ (lastDay' = "today" /\ lastDay # "today" => looked' \/ pass["admin"].day = "earlier")
<1>1. ASSUME NEW r \in Runners, StartPass(r) PROVE Goal
  <2>1. [NoPass EXCEPT !.pc = "read"] \in Passes /\ [NoPass EXCEPT !.pc = "read"].pc = "read"
    BY PassesStart DEF NoPass
  <2> QED BY <1>1, <2>1 DEF StartPass, HouseInv
<1>2. ASSUME NEW r \in Runners, NEW ok \in BOOLEAN, ReadHold(r, ok) PROVE Goal
  <2>1. CASE ok /\ claim > 0
    <3>1. pass' = [pass EXCEPT ![r].pc = "draw"] /\ lastDay' = lastDay /\ looked' = TRUE /\ claim' = claim
      BY <1>2, <2>1 DEF ReadHold
    <3>2. pass' \in [Runners -> Passes]
      BY <3>1 DEF HouseInv, Passes
    <3> QED BY <3>1, <3>2 DEF HouseInv
  <2>2. CASE ~(ok /\ claim > 0)
    <3>1. EndPass(r, ~ok) /\ claim' = claim /\ looked' = (looked \/ ok)
      BY <1>2, <2>2 DEF ReadHold
    <3>2. lastDay' \in {"none", "earlier", "today"} /\ pass' \in [Runners -> Passes]
          /\ \A q \in Runners : pass'[q].pc = "draw" => q # r /\ pass'[q] = pass[q]
      BY <3>1, EndPassKept
    <3>3. HouseInv'
      BY <3>1, <3>2 DEF HouseInv
    <3>4. ok \/ lastDay' = lastDay
      BY <3>1 DEF EndPass, DayAfter
    <3> QED BY <3>1, <3>3, <3>4
  <2> QED BY <2>1, <2>2
<1>3. ASSUME NEW r \in Runners, pass[r].pc = "draw", looked' = looked, claim' \in 0 .. MaxClaim,
             NEW failed \in BOOLEAN, EndPass(r, failed)
      PROVE  Goal
  <2>1. lastDay' \in {"none", "earlier", "today"} /\ pass' \in [Runners -> Passes]
        /\ (\A q \in Runners : pass'[q].pc = "draw" => q # r /\ pass'[q] = pass[q])
        /\ (lastDay' = "today" => lastDay = "today" \/ r = "admin" \/ pass[r].day = "today")
    BY <1>3, EndPassKept
  <2>2. HouseInv'
    BY <1>3, <2>1 DEF HouseInv
  <2>3. lastDay' = "today" /\ lastDay # "today" => looked' \/ pass["admin"].day = "earlier"
    BY <1>3, <2>1 DEF HouseInv, Passes
  <2> QED BY <2>2, <2>3
<1>4. ASSUME NEW r \in Runners, Withdraw(r) PROVE Goal
  <2>1. claim' \in 0 .. MaxClaim /\ pass[r].pc = "draw" /\ looked' = looked
    <3>1. claim \in 0 .. MaxClaim /\ claim' \in 0 .. claim - 1 /\ MaxClaim \in Nat
      BY <1>4, HousekeepAssumption DEF Withdraw, HouseInv
    <3> QED BY <1>4, <3>1 DEF Withdraw
  <2>2. CASE EndPass(r, FALSE)
    BY <1>3, <2>1, <2>2
  <2>3. CASE pass[r].rounds + 1 < MaxRounds /\ pass' = [pass EXCEPT ![r].rounds = @ + 1] /\ lastDay' = lastDay
    <3>1. pass[r] \in Passes /\ MaxRounds \in Nat
      BY HousekeepAssumption DEF HouseInv
    <3>2. pass[r].rounds + 1 \in 0 .. MaxRounds
      BY <2>3, <3>1 DEF Passes
    <3>3. [pass[r] EXCEPT !.rounds = @ + 1] \in Passes
      BY <3>1, <3>2 DEF Passes
    <3>4. pass' = [pass EXCEPT ![r] = [pass[r] EXCEPT !.rounds = @ + 1]]
      BY <2>3
    <3>5. pass' \in [Runners -> Passes]
      BY <3>3, <3>4 DEF HouseInv
    <3>6. \A q \in Runners : pass'[q].pc = pass[q].pc /\ pass'[q].day = pass[q].day
      BY <3>1, <3>4 DEF HouseInv, Passes
    <3> QED BY <2>1, <2>3, <3>5, <3>6 DEF HouseInv
  <2>4. EndPass(r, FALSE) \/ (pass[r].rounds + 1 < MaxRounds /\ pass' = [pass EXCEPT ![r].rounds = @ + 1] /\ lastDay' = lastDay)
    BY <1>4 DEF Withdraw
  <2> QED BY <2>2, <2>3, <2>4
<1>5. ASSUME NEW r \in Runners, WithdrawFails(r) PROVE Goal
  <2>1. claim' \in 0 .. MaxClaim /\ pass[r].pc = "draw" /\ looked' = looked
    BY <1>5 DEF WithdrawFails, HouseInv
  <2>2. PICK failed \in BOOLEAN : EndPass(r, failed)
    BY <1>5 DEF WithdrawFails
  <2> QED BY <1>3, <2>1, <2>2
<1>6. CASE NextDay
  <2>1. claim' \in 0 .. MaxClaim
    <3>1. claim \in 0 .. MaxClaim /\ claim' \in claim .. MaxClaim /\ MaxClaim \in Nat
      BY <1>6, HousekeepAssumption DEF NextDay, HouseInv
    <3> QED BY <3>1
  <2>2. pass' \in [Runners -> Passes]
        /\ \A r \in Runners : pass'[r].pc = "draw" => pass'[r].day = "earlier"
    BY <1>6 DEF NextDay, HouseInv, Passes
  <2>3. lastDay' \in {"none", "earlier"}
    BY <1>6 DEF NextDay
  <2> QED BY <2>1, <2>2, <2>3 DEF HouseInv
<1>7. CASE Morning
  BY <1>7 DEF Morning, HouseInv
<1>8. \/ NextDay \/ Morning \/ \E r \in Runners : StartPass(r)
      \/ \E r \in Runners : (\E ok \in BOOLEAN : ReadHold(r, ok)) \/ Withdraw(r) \/ WithdrawFails(r)
  BY DEF HouseStep, HouseDay, HouseTick, HouseUp, InHouse, HouseWorks, Runners
<1> QED BY <1>1, <1>2, <1>4, <1>5, <1>6, <1>7, <1>8

\* The other steps leave the reclaim alone, or start the process again.
LEMMA HouseElsewhere ==
  ASSUME [Next]_vars
  PROVE  HouseStep \/ HouseBoot \/ UNCHANGED houseVars
<1>1. CASE SessionStep
  BY <1>1 DEF SessionStep, BootStep, Ticks, Arrives, Enters, Works, Tracks, Sweeps, Others, Credits, Lapses,
              ChainMoves, WithPool, NotSessions
<1>2. CASE StoreStep
  BY <1>2 DEF StoreStep
<1>3. CASE AuditStep
  BY <1>3 DEF AuditStep
<1>4. CASE ProcessStep
  BY <1>4 DEF ProcessStep, RestartRequested, StopSignal, DrainHearsStop, Drained, Exec, Exits, BootCancelled,
              ShutdownClose, StartAgain, Held
<1>5. CASE Crash
  BY <1>5 DEF Crash, StartAgain
<1>6. CASE UNCHANGED vars
  BY <1>6 DEF vars
<1> QED BY <1>1, <1>2, <1>3, <1>4, <1>5, <1>6 DEF Next

LEMMA HouseInvStep ==
  ASSUME HouseInv, [Next]_vars
  PROVE  HouseInv'
<1>1. CASE UNCHANGED houseVars
  BY <1>1 DEF houseVars, HouseInv
<1> QED BY <1>1, HouseElsewhere, HouseStepInv, HouseBootInv

\* The reclaim is where its passes and its day say, across restarts and stops
\* (housekeep.go): the invariant behind NoDayIsSkipped.
THEOREM HouseInvHolds == Spec => []HouseInv
<1>1. Init => HouseInv
  BY HouseInitInv DEF Init
<1> QED BY <1>1, HouseInvStep, PTL DEF Spec

\* No day is skipped by the reclaim: a day is marked as done only once what is
\* claimable was read on it (housekeep.go, maybeRun and Run), for any bounds.
THEOREM NoDayIsSkipped == Spec => DayNotSkipped
<1>1. ASSUME HouseInv, [Next]_vars
      PROVE  [lastDay' = "today" /\ lastDay # "today" => looked' \/ pass["admin"].day = "earlier"]_houseVars
  BY <1>1, HouseElsewhere, HouseStepInv DEF HouseBoot
<1> QED BY <1>1, HouseInvHolds, PTL DEF Spec, DayNotSkipped

-----------------------------------------------------------------------------
\* The process.

LEMMA StopInvStep ==
  ASSUME StopInv, [Next]_vars
  PROVE  StopInv'
<1>1. CASE SessionStep
  BY <1>1 DEF SessionStep, BootStep, Ticks, Arrives, Enters, Works, Tracks, Sweeps, Others, Credits, Lapses,
              ChainMoves, WithPool, NotSessions, procVars, StopInv
<1>2. CASE StoreStep
  BY <1>2 DEF StoreStep, procVars, StopInv
<1>3. CASE AuditStep
  BY <1>3 DEF AuditStep, procVars, StopInv
<1>4. CASE HouseStep
  BY <1>4 DEF HouseStep, HouseDay, HouseTick, HouseUp, HouseWorks, InHouse, procVars, StopInv
<1>5. CASE StartAgain
  BY <1>5 DEF StartAgain, StopInv
<1>6. CASE RestartRequested \/ DrainHearsStop \/ Exits
  <2>1. CASE RestartRequested
    BY <2>1 DEF RestartRequested, StopInv
  <2>2. CASE DrainHearsStop
    BY <2>2 DEF DrainHearsStop, StopInv
  <2>3. CASE Exits
    BY <2>3 DEF Exits, StopInv
  <2> QED BY <1>6, <2>1, <2>2, <2>3
<1>10. CASE StopSignal
  <2>1. CASE phase = "up"
    BY <1>10, <2>1 DEF StopSignal, StopInv
  <2>2. CASE phase = "drain"
    BY <1>10, <2>2 DEF StopSignal, StopInv
  <2>3. CASE phase = "exec"
    BY <1>10, <2>3 DEF StopSignal, StopInv
  <2> QED BY <1>10, <2>1, <2>2, <2>3 DEF StopSignal
<1>7. CASE Drained
  BY <1>7 DEF Drained, Restarts, StopInv
<1>8. CASE BootCancelled \/ \E s \in Sessions : ShutdownClose(s)
  BY <1>8 DEF BootCancelled, ShutdownClose, procVars, StopInv
<1>9. CASE UNCHANGED vars
  BY <1>9 DEF vars, procVars, StopInv
<1> QED BY <1>1, <1>2, <1>3, <1>4, <1>5, <1>6, <1>7, <1>8, <1>9, <1>10 DEF Next, ProcessStep, Crash, Exec

\* A stop signal that came before the drain ended is not answered by starting
\* the binary again (drainThenDecide), however signals, restart requests and
\* the end of the drain interleave.
THEOREM StopIsHonoured == Spec => []StopHonoured
<1>1. Init => StopInv
  BY DEF Init, StopInv
<1>2. StopInv => StopHonoured
  BY DEF StopInv, StopHonoured
<1> QED BY <1>1, <1>2, StopInvStep, PTL DEF Spec

-----------------------------------------------------------------------------
\* Sequences: the line and what the boot has left to close.

LEMMA TailKept ==
  ASSUME NEW S, NEW q \in Seq(S), q # <<>>
  PROVE  /\ Tail(q) \in Seq(S) /\ q[1] = Head(q) /\ Head(q) \in S
         /\ Once(q) => Once(Tail(q)) /\ \A x : Among(x, Tail(q)) <=> Among(x, q) /\ x # Head(q)
<1>1. Len(q) \in Nat /\ Len(q) > 0 /\ Tail(q) \in Seq(S) /\ Head(q) \in S
      /\ Len(Tail(q)) = Len(q) - 1 /\ q[1] = Head(q)
      /\ \A i \in 1 .. Len(q) - 1 : Tail(q)[i] = q[i + 1]
  BY EmptySeq, HeadTailProperties
<1>2. ASSUME Once(q) PROVE Once(Tail(q))
  BY <1>1, <1>2 DEF Once
<1>3. ASSUME Once(q), NEW x, Among(x, Tail(q)) PROVE Among(x, q) /\ x # Head(q)
  <2>1. PICK i \in 1 .. Len(q) - 1 : q[i + 1] = x
    BY <1>1, <1>3 DEF Among
  <2>2. i + 1 \in 1 .. Len(q) /\ i + 1 # 1 /\ 1 \in 1 .. Len(q)
    BY <1>1, <2>1
  <2> QED BY <1>1, <1>3, <2>1, <2>2 DEF Among, Once
<1>4. ASSUME NEW x, Among(x, q), x # Head(q) PROVE Among(x, Tail(q))
  <2>1. PICK i \in 1 .. Len(q) : q[i] = x
    BY <1>4 DEF Among
  <2>2. i # 1 /\ i - 1 \in 1 .. Len(q) - 1 /\ (i - 1) + 1 = i
    BY <1>1, <1>4, <2>1
  <2> QED BY <1>1, <2>1, <2>2 DEF Among
<1> QED BY <1>1, <1>2, <1>3, <1>4

LEMMA AppendKept ==
  ASSUME NEW S, NEW q \in Seq(S), NEW e \in S
  PROVE  /\ Append(q, e) \in Seq(S)
         /\ Len(q) > 0 => Append(q, e)[1] = q[1]
         /\ \A x : Among(x, Append(q, e)) <=> Among(x, q) \/ x = e
         /\ Once(q) /\ ~Among(e, q) => Once(Append(q, e))
<1>1. Len(q) \in Nat /\ Append(q, e) \in Seq(S) /\ Len(Append(q, e)) = Len(q) + 1
      /\ (\A i \in 1 .. Len(q) : Append(q, e)[i] = q[i]) /\ Append(q, e)[Len(q) + 1] = e
  BY AppendProperties
<1>2. \A x : Among(x, Append(q, e)) <=> Among(x, q) \/ x = e
  <2>1. \A i : i \in 1 .. Len(q) + 1 <=> i \in 1 .. Len(q) \/ i = Len(q) + 1
    BY <1>1
  <2> QED BY <1>1, <2>1 DEF Among
<1>3. ASSUME Once(q), ~Among(e, q) PROVE Once(Append(q, e))
  BY <1>1, <1>3 DEF Once, Among
<1>4. Len(q) > 0 => Append(q, e)[1] = q[1]
  BY <1>1
<1> QED BY <1>1, <1>2, <1>3, <1>4

LEMMA RangeOf ==
  ASSUME NEW S, NEW q \in Seq(S)
  PROVE  /\ \A x : x \in Range(q) <=> Among(x, q)
         /\ Once(q) => IsInjective(q)
         /\ Range(q) \subseteq S
BY DEF Range, Among, Once, IsInjective

LEMMA EmptyOf ==
  /\ \A x : ~Among(x, <<>>)
  /\ Once(<<>>)
BY DEF Among, Once

-----------------------------------------------------------------------------
\* The pool's operations.

\* q is p with entries, marks and attempts only given up.
Shrinks(p, q) ==
    /\ q \in PoolStates
    /\ \A m \in Models : q.entry[m] \in {p.entry[m], NoSession}
    /\ \A s \in Sessions : q.mark[s] = "now" => p.mark[s] = "now"
    /\ q.mine \subseteq p.mine

\* What is open or closed on chain stays so, and what is closed stays closed.
ChainGoesOn ==
    /\ world' = world
    /\ chain' \in [Sessions -> {"none", "sent", "open", "closed"}]
    /\ life' \in [Sessions -> {"young", "old", "ended"}]
    /\ \A s \in Sessions : /\ chain[s] \in {"open", "closed"} => chain'[s] \in {chain[s], "closed"}
                           /\ chain[s] # "none" => chain'[s] # "none"
                           /\ life[s] # "young" => life'[s] # "young"
                           /\ life[s] = "ended" => life'[s] = "ended"

LEMMA NotifiedKept ==
  ASSUME NEW p \in PoolStates, NEW gone
  PROVE  /\ Notified(p, gone) \in PoolStates
         /\ \A m \in Models : Notified(p, gone).entry[m] = IF p.entry[m] \in gone THEN NoSession ELSE p.entry[m]
         /\ Notified(p, gone).mark = p.mark
         /\ Notified(p, gone).mine = p.mine
         /\ Notified(p, gone).spare = p.spare
         /\ Notified(p, gone).shown = p.shown
<1> DEFINE e == [m \in Models |-> IF p.entry[m] \in gone THEN NoSession ELSE p.entry[m]]
           n == [s \in Sessions |-> IF s \in gone /\ Acts("credit") /\ p.notices[s] < MaxCredits
                                    THEN p.notices[s] + 1 ELSE p.notices[s]]
<1>1. e \in [Models -> Sessions \cup {NoSession}]
  BY DEF PoolStates
<1>2. n \in [Sessions -> 0 .. MaxCredits]
  <2>1. p.notices \in [Sessions -> 0 .. MaxCredits] /\ MaxCredits \in Nat
    BY StoreAssumption DEF PoolStates
  <2>2. \A s \in Sessions : n[s] \in 0 .. MaxCredits
    BY <2>1
  <2> QED BY <2>2
<1> HIDE DEF e, n
<1>3. Notified(p, gone) = [p EXCEPT !.entry = e, !.notices = n]
  BY DEF Notified, e, n
<1>4. [p EXCEPT !.entry = e, !.notices = n] \in PoolStates
  BY <1>1, <1>2 DEF PoolStates
<1>5. \A m \in Models : e[m] = IF p.entry[m] \in gone THEN NoSession ELSE p.entry[m]
  BY DEF e
<1> QED BY <1>3, <1>4, <1>5 DEF PoolStates

\* closeWithToken gives up the entry and the mark of s, and closes nothing but
\* s.
LEMMA CloseCallKept ==
  ASSUME ChainTyped, NEW p \in PoolStates, NEW s \in Sessions, NEW out \in CloseOutcomes, CloseCall(s, out, p)
  PROVE  /\ Shrinks(p, pool')
         /\ pool'.mark[s] # "now"
         /\ \A t \in Sessions \ {s} : pool'.mark[t] = p.mark[t]
         /\ ChainGoesOn /\ ChainTyped' /\ life' = life
         /\ \A t \in Sessions \ {s} : chain'[t] = chain[t]
<1>1. ChainGoesOn /\ ChainTyped' /\ life' = life /\ \A t \in Sessions \ {s} : chain'[t] = chain[t]
  BY DEF CloseCall, ChainTyped, ChainGoesOn
<1>2. CASE out = "ok"
  <2>1. PICK q : q = Notified(p, {s})
    OBVIOUS
  <2>2. q \in PoolStates /\ q.mark = p.mark /\ q.mine = p.mine /\ \A m \in Models : q.entry[m] \in {p.entry[m], NoSession}
    BY <2>1, NotifiedKept
  <2>3. pool' = [q EXCEPT !.mark[s] = "none", !.spare = @ \ {s}, !.shown = @ \ {s}]
    BY <1>2, <2>1 DEF CloseCall
  <2>4. pool' \in PoolStates /\ pool'.entry = q.entry /\ pool'.mine = q.mine
        /\ pool'.mark = [q.mark EXCEPT ![s] = "none"]
    BY <2>2, <2>3 DEF PoolStates
  <2>5. q.mark \in [Sessions -> {"none", "now", "cut"}]
    BY <2>2 DEF PoolStates
  <2> QED BY <1>1, <2>2, <2>4, <2>5 DEF Shrinks
<1>3. CASE out # "ok"
  <2>1. PICK k \in {"none", "cut"} : pool' = [p EXCEPT !.mark[s] = k]
    BY <1>3 DEF CloseCall
  <2>2. pool' \in PoolStates /\ pool'.entry = p.entry /\ pool'.mine = p.mine /\ pool'.mark = [p.mark EXCEPT ![s] = k]
    BY <2>1 DEF PoolStates
  <2>3. p.mark \in [Sessions -> {"none", "now", "cut"}]
    BY DEF PoolStates
  <2> QED BY <1>1, <2>1, <2>2, <2>3 DEF Shrinks
<1> QED BY <1>2, <1>3

\* pickOne
LEMMA PickOneIsTop ==
  ASSUME NEW S \in SUBSET Sessions, S # {}
  PROVE  PickOne(S) \in S /\ \A t \in S : t <= PickOne(S)
<1>1. IsFiniteSet(S) /\ S \subseteq Nat
  BY BootAssumption, FS_Subset
<1>2. \E x \in S : \A t \in S : t <= x
  <2> DEFINE Topless == {T \in SUBSET S : T # {} /\ ~\E x \in T : \A t \in T : t <= x}
  <2>1. SUFFICES ASSUME Topless # {} PROVE FALSE
    BY DEF Topless
  <2>2. IsWellFoundedOn(StrictSubsetOrdering(S), SUBSET S)
    BY <1>1, FS_StrictSubsetOrderingWellFounded, FS_FiniteSubsetsOfFinite
  <2>3. PICK T \in Topless : \A U \in Topless : ~(<<U, T>> \in StrictSubsetOrdering(S))
    <3> HIDE DEF Topless
    <3>1. Topless \subseteq SUBSET S
      BY DEF Topless
    <3> QED BY <2>1, <2>2, <3>1, WFMin
  <2>4. PICK y \in T : TRUE
    BY DEF Topless
  <2>5. T \ {y} \notin Topless
    BY <2>3, <2>4 DEF Topless, StrictSubsetOrdering
  <2>6. T \subseteq Nat /\ T \in SUBSET S
    BY <1>1 DEF Topless
  <2>7. CASE T \ {y} = {}
    <3>1. \A t \in T : t <= y
      BY <2>6, <2>7
    <3> QED BY <2>4, <3>1 DEF Topless
  <2>8. CASE T \ {y} # {}
    <3>1. PICK x \in T \ {y} : \A t \in T \ {y} : t <= x
      BY <2>5, <2>6, <2>8 DEF Topless
    <3>2. CASE x <= y
      <4>1. \A t \in T : t <= y
        BY <2>6, <3>1, <3>2
      <4> QED BY <2>4, <4>1 DEF Topless
    <3>3. CASE ~(x <= y)
      <4>1. \A t \in T : t <= x
        BY <2>6, <3>1, <3>3
      <4> QED BY <3>1, <4>1 DEF Topless
    <3> QED BY <3>2, <3>3
  <2> QED BY <2>7, <2>8
<1> QED BY <1>2 DEF PickOne

\* applyScan gives up marks and attempts, and fills an entry only with a
\* session of the list that no mark holds and that is not with an excluded
\* provider. It finds one to serve if the list has one to adopt, unless a cut
\* close ends with this list.
LEMMA ScannedKept ==
  ASSUME BootInv, NEW L \in Lists
  PROVE  /\ Scanned(L).pool \in PoolStates
         /\ \A s \in Sessions : Scanned(L).pool.mark[s] = "now" => pool.mark[s] = "now"
         /\ Scanned(L).pool.mine \subseteq pool.mine
         /\ \A m \in Models :
              \/ Scanned(L).pool.entry[m] \in {NoSession, pool.entry[m]}
              \/ Scanned(L).pool.entry[m] \in L \ world.excluded
         /\ Scanned(L).due \subseteq Sessions
         /\ \A s \in L : /\ ~Servable(Model, pool) /\ Adoptable(s)
                         /\ pool.entry[Model] = NoSession \/ pool.mark[pool.entry[Model]] # "cut"
                         => Servable(Model, Scanned(L).pool)
<1> DEFINE gone == {s \in Sessions \ L : pool.mark[s] = "cut"}
           p == [pool EXCEPT !.mark = [s \in Sessions |-> IF s \in gone THEN "none" ELSE @[s]]]
           free == {s \in L : p.mark[s] = "none"}
           held == {s \in free : Busy(s) \/ p.entry[ModelOf(s)] = s}
           matched == (free \ held) \cap p.mine
           ours == {s \in matched : Usable(s)}
           rest == free \ (held \cup matched)
           restDue == {s \in rest : \/ ~Usable(s) \/ s \in p.spare
                                    \/ life[s] = "old" /\ s \in world.excluded}
           older == {s \in rest \ restDue : life[s] = "old"}
           Of(S, m) == {s \in S : ModelOf(s) = m}
           Kept(m) == IF Servable(m, p) \/ Of(ours \cup older, m) = {} THEN p.entry[m]
                      ELSE PickOne(IF Of(ours, m) # {} THEN Of(ours, m) ELSE Of(older, m))
           kept == {Kept(m) : m \in Models}
           Gone(s) == s \notin L \cup {NoSession} /\ ~Busy(s) /\ life[s] # "young"
           e == [m \in Models |-> IF Gone(Kept(m)) THEN NoSession ELSE Kept(m)]
           q == [p EXCEPT !.entry = e,
                          !.mine = @ \ matched,
                          !.spare = (@ \cup (ours \ kept)) \cap L,
                          !.shown = IF Acts("stop") THEN L ELSE {}]
           due == {s \in held : ~Usable(s) /\ ~Busy(s)} \cup restDue \cup ((matched \cup older) \ kept)
<1>1. Scanned(L) = [pool |-> Notified(q, gone), due |-> due]
  BY DEF Scanned
<1>2. L \subseteq Sessions
  BY DEF Lists, Open
<1>3. pool \in PoolStates
  BY DEF BootInv, MemoryTyped
<1>4. p \in PoolStates /\ p.entry = pool.entry /\ p.mine = pool.mine /\ p.spare = pool.spare
      /\ \A s \in Sessions : p.mark[s] = IF s \in gone THEN "none" ELSE pool.mark[s]
  BY <1>3 DEF PoolStates
<1> HIDE DEF p
<1>5. ours \subseteq L /\ older \subseteq L /\ matched \subseteq L /\ due \subseteq Sessions
      /\ \A s \in ours \cup older : Usable(s) /\ p.mark[s] = "none" /\ s \notin world.excluded
  <2>1. \A s \in older : Usable(s) /\ s \notin world.excluded
    OBVIOUS
  <2>2. \A s \in ours : Usable(s) /\ s \notin world.excluded
    BY <1>4 DEF BootInv, LeaseInv
  <2> QED BY <1>2, <2>1, <2>2
<1>6. \A m \in Models : ~Servable(m, p) /\ Of(ours \cup older, m) # {} => Kept(m) \in ours \cup older
  <2> TAKE m \in Models
  <2> HAVE ~Servable(m, p) /\ Of(ours \cup older, m) # {}
  <2> DEFINE S == IF Of(ours, m) # {} THEN Of(ours, m) ELSE Of(older, m)
  <2>1. S # {} /\ S \subseteq ours \cup older
    OBVIOUS
  <2>2. S \in SUBSET Sessions
    BY <1>2, <1>5, <2>1
  <2>3. Kept(m) = PickOne(S)
    OBVIOUS
  <2> HIDE DEF S, Kept
  <2>4. PickOne(S) \in S
    BY <2>1, <2>2, PickOneIsTop
  <2> QED BY <2>1, <2>3, <2>4
<1>7. \A m \in Models : Kept(m) = p.entry[m] \/ Kept(m) \in ours \cup older
  BY <1>6
<1> HIDE DEF Kept, ours, older, matched, due, gone
<1>8. e \in [Models -> Sessions \cup {NoSession}]
  <2>1. \A m \in Models : e[m] \in Sessions \cup {NoSession}
    BY <1>2, <1>4, <1>5, <1>7 DEF PoolStates
  <2> QED BY <2>1
<1>9. \A m \in Models : e[m] \in {NoSession, pool.entry[m]} \/ e[m] \in L \ world.excluded
  BY <1>4, <1>5, <1>7
<1>10. /\ q \in PoolStates /\ q.entry = e /\ q.mark = p.mark /\ q.mine \subseteq p.mine
  <2> HIDE DEF e
  <2> QED BY <1>2, <1>4, <1>8 DEF PoolStates
<1> HIDE DEF q
<1>11. PICK n : n = Notified(q, gone)
  OBVIOUS
<1>12. n \in PoolStates /\ n.mark = q.mark /\ n.mine = q.mine
       /\ \A m \in Models : n.entry[m] = IF q.entry[m] \in gone THEN NoSession ELSE q.entry[m]
  BY <1>10, <1>11, NotifiedKept
<1>13. Scanned(L).pool = n /\ Scanned(L).due = due
  BY <1>1, <1>11
<1>14. ASSUME NEW s \in L, ~Servable(Model, pool), Adoptable(s),
              pool.entry[Model] = NoSession \/ pool.mark[pool.entry[Model]] # "cut"
       PROVE  Servable(Model, n)
  <2>1. ~Servable(Model, p)
    <3>1. pool.entry[Model] \in Sessions \cup {NoSession}
      BY <1>3, WorldsAssumption DEF PoolStates
    <3>2. CASE pool.entry[Model] = NoSession
      BY <1>4, <3>2 DEF Servable
    <3>3. CASE pool.entry[Model] \in Sessions /\ pool.entry[Model] # NoSession
      <4>1. p.mark[pool.entry[Model]] = pool.mark[pool.entry[Model]]
        BY <1>4, <1>14, <3>3 DEF gone
      <4> QED BY <1>4, <1>14, <4>1 DEF Servable
    <3> QED BY <3>1, <3>2, <3>3
  <2>2. s \in Of(ours \cup older, Model)
    <3>1. s \in Sessions /\ s \in free
      BY <1>2, <1>4, <1>14 DEF Adoptable, gone
    <3>2. s # pool.entry[Model]
      BY <1>14, <3>1, BootAssumption DEF Adoptable, Servable, Usable
    <3>3. s \notin held
      BY <1>4, <1>14, <3>2 DEF Adoptable
    <3>4. Usable(s) /\ s \notin p.spare /\ s \notin world.excluded /\ life[s] = "old" /\ ModelOf(s) = Model
      BY <1>4, <1>14 DEF Adoptable, Usable
    <3>5. s \in ours \/ s \in older
      BY <3>1, <3>3, <3>4 DEF ours, older, matched
    <3> QED BY <3>4, <3>5
  <2>3. Kept(Model) \in ours \cup older /\ Model \in Models
    BY <1>6, <2>1, <2>2, WorldsAssumption
  <2>4. PICK k : k = Kept(Model)
    OBVIOUS
  <2>5. k \in L /\ k \in Sessions /\ k # NoSession /\ Usable(k) /\ p.mark[k] = "none"
    BY <1>2, <1>5, <2>3, <2>4, BootAssumption
  <2>6. n.entry[Model] = k
    BY <1>10, <1>12, <2>3, <2>4, <2>5 DEF gone
  <2> QED BY <1>10, <1>12, <2>5, <2>6 DEF Servable
<1>15. \A s \in Sessions : n.mark[s] = "now" => pool.mark[s] = "now"
  BY <1>4, <1>10, <1>12
<1>16. n.mine \subseteq pool.mine
  BY <1>4, <1>10, <1>12
<1>17. \A m \in Models : n.entry[m] \in {NoSession, pool.entry[m]} \/ n.entry[m] \in L \ world.excluded
  BY <1>9, <1>10, <1>12
<1> QED BY <1>5, <1>12, <1>13, <1>14, <1>15, <1>16, <1>17

-----------------------------------------------------------------------------
\* The closes of a pass of the boot.

LEMMA InListOrder ==
  ASSUME NEW S \in SUBSET Sessions, NEW a \in SetToSeqs(S)
  PROVE  a \in Seq(Sessions) /\ Once(a) /\ \A x : Among(x, a) => x \in S
<1>1. Cardinality(S) \in Nat
  BY BootAssumption, FS_Subset, FS_CardinalityType
<1>2. a \in [1 .. Cardinality(S) -> S] /\ \A i, j \in 1 .. Cardinality(S) : i # j => a[i] # a[j]
  BY DEF SetToSeqs
<1>3. a \in Seq(Sessions) /\ Len(a) = Cardinality(S)
  BY <1>1, <1>2
<1> QED BY <1>2, <1>3 DEF Once, Among

LEMMA ConcatKept ==
  ASSUME NEW S, NEW a \in Seq(S), NEW b \in Seq(S), Once(a), Once(b), \A x : ~(Among(x, a) /\ Among(x, b))
  PROVE  a \o b \in Seq(S) /\ Once(a \o b) /\ \A x : Among(x, a \o b) => Among(x, a) \/ Among(x, b)
<1>1. a \o b \in Seq(S) /\ Len(a) \in Nat /\ Len(b) \in Nat /\ Len(a \o b) = Len(a) + Len(b)
      /\ \A i \in 1 .. Len(a) + Len(b) : (a \o b)[i] = IF i <= Len(a) THEN a[i] ELSE b[i - Len(a)]
  BY ConcatProperties
<1>2. \A i \in 1 .. Len(a) + Len(b) :
        \/ i \in 1 .. Len(a) /\ (a \o b)[i] = a[i]
        \/ i - Len(a) \in 1 .. Len(b) /\ (a \o b)[i] = b[i - Len(a)]
  BY <1>1
<1>3. \A x : Among(x, a \o b) => Among(x, a) \/ Among(x, b)
  BY <1>1, <1>2 DEF Among
<1>4. ASSUME NEW i \in 1 .. Len(a) + Len(b), NEW j \in 1 .. Len(a) + Len(b), (a \o b)[i] = (a \o b)[j]
      PROVE  i = j
  <2>1. CASE i \in 1 .. Len(a) /\ (a \o b)[i] = a[i] /\ j \in 1 .. Len(a) /\ (a \o b)[j] = a[j]
    BY <1>4, <2>1 DEF Once
  <2>2. CASE /\ i - Len(a) \in 1 .. Len(b) /\ (a \o b)[i] = b[i - Len(a)]
             /\ j - Len(a) \in 1 .. Len(b) /\ (a \o b)[j] = b[j - Len(a)]
    <3>1. i - Len(a) = j - Len(a)
      BY <1>4, <2>2 DEF Once
    <3> QED BY <1>1, <3>1
  <2>3. CASE /\ i \in 1 .. Len(a) /\ (a \o b)[i] = a[i]
             /\ j - Len(a) \in 1 .. Len(b) /\ (a \o b)[j] = b[j - Len(a)]
    BY <1>4, <2>3 DEF Among
  <2>4. CASE /\ j \in 1 .. Len(a) /\ (a \o b)[j] = a[j]
             /\ i - Len(a) \in 1 .. Len(b) /\ (a \o b)[i] = b[i - Len(a)]
    BY <1>4, <2>4 DEF Among
  <2> QED BY <1>2, <2>1, <2>2, <2>3, <2>4
<1> QED BY <1>1, <1>3, <1>4 DEF Once

LEMMA CappedKept ==
  ASSUME NEW S, NEW t \in Seq(S), Once(t)
  PROVE  Capped(t) \in Seq(S) /\ Once(Capped(t)) /\ \A x : Among(x, Capped(t)) => Among(x, t)
<1>1. CASE Len(t) > MaxBootCloses
  <2>1. MaxBootCloses \in Nat /\ MaxBootCloses >= 1 /\ Len(t) \in Nat
    BY BootAssumption
  <2>2. Capped(t) = SubSeq(t, 1, MaxBootCloses)
    BY <1>1 DEF Capped
  <2>3. Capped(t) \in Seq(S) /\ Len(Capped(t)) = MaxBootCloses
        /\ \A i \in 1 .. MaxBootCloses : Capped(t)[i] = t[i] /\ i \in 1 .. Len(t)
    BY <1>1, <2>1, <2>2
  <2> QED BY <2>3 DEF Once, Among
<1>2. CASE ~(Len(t) > MaxBootCloses)
  BY <1>2 DEF Capped
<1> QED BY <1>1, <1>2

LEMMA InTurnKept ==
  ASSUME NEW A \in SUBSET Sessions, NEW B \in SUBSET Sessions, NEW C \in SUBSET Sessions,
         A \cap B = {}, A \cap C = {}, B \cap C = {}, NEW t \in InTurn(A, B, C)
  PROVE  t \in Seq(Sessions) /\ Once(t) /\ \A x : Among(x, t) => x \in A \cup B \cup C
<1>1. PICK a \in SetToSeqs(A), b \in SetToSeqs(B), c \in SetToSeqs(C) : t = Capped(a \o b \o c)
  BY DEF InTurn
<1>2. /\ a \in Seq(Sessions) /\ Once(a) /\ \A x : Among(x, a) => x \in A
      /\ b \in Seq(Sessions) /\ Once(b) /\ \A x : Among(x, b) => x \in B
      /\ c \in Seq(Sessions) /\ Once(c) /\ \A x : Among(x, c) => x \in C
  <2>1. a \in Seq(Sessions) /\ Once(a) /\ \A x : Among(x, a) => x \in A
    BY InListOrder
  <2>2. b \in Seq(Sessions) /\ Once(b) /\ \A x : Among(x, b) => x \in B
    BY InListOrder
  <2>3. c \in Seq(Sessions) /\ Once(c) /\ \A x : Among(x, c) => x \in C
    BY InListOrder
  <2> QED BY <2>1, <2>2, <2>3
<1>3. PICK ab : ab = a \o b
  OBVIOUS
<1>4. ab \in Seq(Sessions) /\ Once(ab) /\ \A x : Among(x, ab) => x \in A \cup B
  <2>1. \A x : ~(Among(x, a) /\ Among(x, b))
    BY <1>2
  <2> QED BY <1>2, <1>3, <2>1, ConcatKept
<1>5. PICK abc : abc = ab \o c
  OBVIOUS
<1>6. abc \in Seq(Sessions) /\ Once(abc) /\ \A x : Among(x, abc) => x \in A \cup B \cup C
  <2>1. \A x : ~(Among(x, ab) /\ Among(x, c))
    BY <1>2, <1>4
  <2>2. abc \in Seq(Sessions) /\ Once(abc) /\ \A x : Among(x, abc) => Among(x, ab) \/ Among(x, c)
    BY <1>2, <1>4, <1>5, <2>1, ConcatKept
  <2> QED BY <1>2, <1>4, <2>2
<1>7. t = Capped(abc)
  BY <1>1, <1>3, <1>5
<1> QED BY <1>6, <1>7, CappedKept

-----------------------------------------------------------------------------
\* What keeps each part of the boot's invariant.

LEMMA ChainStays ==
  ASSUME ChainTyped, UNCHANGED chainVars
  PROVE  ChainTyped' /\ ChainGoesOn
BY DEF ChainTyped, ChainGoesOn, chainVars

LEMMA TodoStays ==
  ASSUME BootInv, ChainGoesOn, boot' = boot,
         \A s \in Sessions : pool'.mark[s] = "now" => pool.mark[s] = "now"
  PROVE  TodoInv'
<1>1. TodoInv /\ boot \in BootStates
  BY DEF BootInv, MemoryTyped
<1>2. \A i \in 1 .. Len(boot.todo) : boot.todo[i] \in Sessions
  BY <1>1 DEF BootStates
<1>3. \A s \in boot.list : s \in Sessions
  BY <1>1 DEF BootStates
<1> QED BY <1>1, <1>2, <1>3 DEF TodoInv, ChainGoesOn

LEMMA SeenStays ==
  ASSUME BootInv, ChainGoesOn, unseen' \subseteq unseen,
         known' \/ boot'.pc = "apply" => known \/ boot.pc = "apply"
  PROVE  SeenInv'
BY DEF BootInv, MemoryTyped, SeenInv, ChainGoesOn

\* A list shows whatever is open and not young.
LEMMA SeenByList ==
  ASSUME BootInv, ChainGoesOn, NEW L \in Lists, unseen' = unseen \ L
  PROVE  SeenInv'
<1>1. unseen \subseteq Sessions /\ SeenInv
  BY DEF BootInv, MemoryTyped
<1>2. \A s \in unseen' : s \in unseen /\ s \in Sessions /\ s \notin L /\ life[s] # "young" /\ chain[s] \in {"open", "closed"}
  BY <1>1 DEF SeenInv
<1>3. \A s \in unseen' : chain[s] = "closed"
  BY <1>2 DEF Lists, Open
<1> QED BY <1>2, <1>3 DEF SeenInv, ChainGoesOn

\* A lease is taken on a session that no mark without an expiry holds.
LEMMA LeaseGrows ==
  ASSUME BootInv, ChainGoesOn,
         \A m \in Models : \/ pool'.entry[m] \in {NoSession, pool.entry[m]}
                           \/ pool'.entry[m] \in Sessions \ world.excluded,
         \A s \in Sessions : pool'.mark[s] = "now" => pool.mark[s] = "now",
         \A s \in pool'.mine : s \in pool.mine \/ s \notin world.excluded,
         \A r \in Requests : req'[r].pc \in {"track", "use"} =>
           \/ req[r].pc \in {"track", "use"} /\ req'[r].at = req[r].at
           \/ req'[r].at \in Sessions \ world.excluded /\ pool'.mark[req'[r].at] # "now"
  PROVE  LeaseInv'
<1>1. LeaseInv /\ world' = world
  BY DEF BootInv, ChainGoesOn
<1>2. \A m \in Models : pool'.entry[m] \in Sessions => pool'.entry[m] \notin world.excluded
  BY <1>1, BootAssumption DEF LeaseInv
<1>3. \A s \in Sessions : Busy(s)' => Busy(s) \/ pool'.mark[s] # "now"
  BY DEF Busy
<1>4. \A s \in Sessions : ~Usable(s) => ~Usable(s)'
  BY DEF Usable, ChainGoesOn
<1>5. \A s \in Sessions : pool'.mark[s] = "now" /\ Busy(s)' => ~Usable(s)'
  BY <1>1, <1>3, <1>4 DEF LeaseInv
<1>6. \A s \in pool'.mine : s \notin world'.excluded
  BY <1>1 DEF LeaseInv
<1>7. \A r \in Requests : req'[r].pc \in {"track", "use"} => req'[r].at \in Sessions \ world'.excluded
  BY <1>1 DEF LeaseInv
<1> QED BY <1>1, <1>2, <1>5, <1>6, <1>7 DEF LeaseInv

LEMMA LeaseStays ==
  ASSUME BootInv, ChainGoesOn,
         \A m \in Models : \/ pool'.entry[m] \in {NoSession, pool.entry[m]}
                           \/ pool'.entry[m] \in Sessions \ world.excluded,
         \A s \in Sessions : pool'.mark[s] = "now" => pool.mark[s] = "now",
         pool'.mine \subseteq pool.mine,
         \A r \in Requests : req'[r].pc \in {"track", "use"} => req[r].pc \in {"track", "use"} /\ req'[r].at = req[r].at
  PROVE  LeaseInv'
BY LeaseGrows

\* A step of the pool's memory that starts no request and moves neither the
\* gate nor the boot.
PoolMoves ==
    /\ ChainGoesOn /\ ChainTyped'
    /\ pool' \in PoolStates
    /\ \A m \in Models : \/ pool'.entry[m] \in {NoSession, pool.entry[m]}
                         \/ ~gate /\ pool'.entry[m] \in Sessions \ world.excluded
    /\ \A s \in Sessions : pool'.mark[s] = "now" => pool.mark[s] = "now"
    /\ pool'.mine \subseteq pool.mine
    /\ \/ UNCHANGED <<known, unseen>>
       \/ known' \in BOOLEAN /\ \E L \in Lists : unseen' = unseen \ L
    /\ UNCHANGED <<gate, boot, req>>

LEMMA PoolMovesInv ==
  ASSUME BootInv, PoolMoves, LineInv', line' \in Seq(Requests \cup {"sweep"}), skips' \in 0 .. SweepMaxSkips,
         gate => line' = line
  PROVE  BootInv'
<1>1. TodoInv'
  BY TodoStays DEF PoolMoves
<1>2. SeenInv'
  <2>1. CASE UNCHANGED <<known, unseen>>
    BY <2>1, SeenStays DEF PoolMoves
  <2>2. CASE \E L \in Lists : unseen' = unseen \ L
    BY <2>2, SeenByList DEF PoolMoves
  <2> QED BY <2>1, <2>2 DEF PoolMoves
<1>3. LeaseInv'
  BY LeaseStays DEF PoolMoves
<1>4. GateInv'
  <2>1. GateInv
    BY DEF BootInv
  <2>2. gate' = gate /\ boot' = boot /\ req' = req
    BY DEF PoolMoves
  <2>3. gate => \A m \in Models : pool'.entry[m] = NoSession
    BY <2>1 DEF PoolMoves, GateInv
  <2> QED BY <2>1, <2>2, <2>3 DEF GateInv
<1>5. MemoryTyped'
  <2>1. unseen' \subseteq Sessions /\ known' \in BOOLEAN
    BY DEF PoolMoves, BootInv, MemoryTyped
  <2> QED BY <2>1 DEF PoolMoves, BootInv, MemoryTyped
<1> QED BY <1>1, <1>2, <1>3, <1>4, <1>5 DEF BootInv, PoolMoves

LEMMA PoolMovesStill ==
  ASSUME BootInv, PoolMoves, UNCHANGED <<line, skips>>
  PROVE  BootInv'
<1>1. LineInv' /\ line' \in Seq(Requests \cup {"sweep"}) /\ skips' \in 0 .. SweepMaxSkips
  BY DEF BootInv, MemoryTyped, LineInv, PoolMoves
<1> QED BY <1>1, PoolMovesInv

\* A close of the slot's holder is such a step.
LEMMA CloseMoves ==
  ASSUME BootInv, NEW p, Shrinks(pool, p), NEW s \in Sessions, NEW out \in CloseOutcomes, CloseCall(s, out, p),
         UNCHANGED <<known, unseen>>, UNCHANGED <<gate, boot, req>>
  PROVE  PoolMoves
<1>1. p \in PoolStates /\ ChainTyped
  BY DEF Shrinks, BootInv
<1>2. Shrinks(p, pool') /\ ChainGoesOn /\ ChainTyped'
  BY <1>1, CloseCallKept
<1> QED BY <1>2 DEF Shrinks, PoolMoves

LEMMA PoolTyped ==
  ASSUME BootInv
  PROVE  /\ pool \in PoolStates /\ Shrinks(pool, pool)
         /\ pool.entry \in [Models -> Sessions \cup {NoSession}]
         /\ pool.mark \in [Sessions -> {"none", "now", "cut"}]
         /\ Model \in Models
BY WorldsAssumption DEF BootInv, MemoryTyped, PoolStates, Shrinks

-----------------------------------------------------------------------------
\* The steps of the pool, the chain and the shutdown.

LEMMA ScanMoves ==
  ASSUME BootInv, ~gate, NEW L \in Lists, pool' = Scanned(L).pool, unseen' = unseen \ L, known' \in BOOLEAN,
         UNCHANGED chainVars, UNCHANGED <<gate, boot, req>>
  PROVE  PoolMoves
<1>1. ChainGoesOn /\ ChainTyped'
  BY ChainStays DEF BootInv
<1>2. L \subseteq Sessions
  BY DEF Lists, Open
<1> QED BY <1>1, <1>2, ScannedKept DEF PoolMoves

LEMMA RehydrateInv ==
  ASSUME BootInv, Rehydrate
  PROVE  BootInv'
<1>1. PICK L \in Lists : pool' = Scanned(L).pool /\ unseen' = unseen \ L
  BY DEF Rehydrate
<1>2. PoolMoves
  BY <1>1, ScanMoves DEF Rehydrate
<1> QED BY <1>2, PoolMovesStill DEF Rehydrate

LEMMA AdminCloseInv ==
  ASSUME BootInv, NEW s \in Sessions, AdminClose(s)
  PROVE  BootInv'
<1> DEFINE p == [pool EXCEPT !.entry = [m \in Models |-> IF @[m] = s THEN NoSession ELSE @[m]]]
<1>1. PICK out \in CloseOutcomes : CloseCall(s, out, p)
  BY DEF AdminClose
<1>2. Shrinks(pool, p)
  BY PoolTyped DEF Shrinks, PoolStates
<1> HIDE DEF p
<1>3. PoolMoves
  BY <1>1, <1>2, CloseMoves DEF AdminClose
<1> QED BY <1>3, PoolMovesStill DEF AdminClose

LEMMA IdleCloseInv ==
  ASSUME BootInv, NEW s \in Sessions, IdleClose(s)
  PROVE  BootInv'
<1> DEFINE p == [pool EXCEPT !.entry[ModelOf(s)] = NoSession, !.spare = @ \cup {s}]
<1>1. PICK out \in CloseOutcomes : CloseCall(s, out, p)
  BY DEF IdleClose
<1>2. Shrinks(pool, p)
  <2> DEFINE e == [pool.entry EXCEPT ![ModelOf(s)] = NoSession]
  <2>1. p = [pool EXCEPT !.entry = e, !.spare = pool.spare \cup {s}]
    BY PoolTyped DEF PoolStates
  <2>2. e \in [Models -> Sessions \cup {NoSession}] /\ \A m \in Models : e[m] \in {pool.entry[m], NoSession}
    BY PoolTyped
  <2> HIDE DEF p, e
  <2> QED BY <2>1, <2>2, PoolTyped DEF Shrinks, PoolStates
<1> HIDE DEF p
<1>3. PoolMoves
  BY <1>1, <1>2, CloseMoves DEF IdleClose
<1> QED BY <1>3, PoolMovesStill DEF IdleClose

LEMMA ShutdownCloseInv ==
  ASSUME BootInv, NEW s \in Sessions, ShutdownClose(s)
  PROVE  BootInv'
<1>1. PICK out \in CloseOutcomes : CloseCall(s, out, pool)
  BY DEF ShutdownClose
<1>2. PoolMoves
  BY <1>1, PoolTyped, CloseMoves DEF ShutdownClose
<1> QED BY <1>2, PoolMovesStill DEF ShutdownClose

LEMMA DrainedInv ==
  ASSUME BootInv, Drained
  PROVE  BootInv'
<1>1. ChainGoesOn /\ ChainTyped'
  BY ChainStays DEF Drained, BootInv
<1>2. Shrinks(pool, pool')
  <2>1. CASE pool' = pool
    BY <2>1, PoolTyped
  <2>2. CASE pool' = [pool EXCEPT !.entry = NewPool.entry]
    <3>1. NewPool.entry = [m \in Models |-> NoSession]
      BY DEF NewPool
    <3>2. pool' = [pool EXCEPT !.entry = [m \in Models |-> NoSession]]
      BY <2>2, <3>1
    <3> QED BY <3>2, PoolTyped DEF Shrinks, PoolStates
  <2> QED BY <2>1, <2>2 DEF Drained
<1>3. PoolMoves
  BY <1>1, <1>2 DEF Shrinks, PoolMoves, Drained
<1> QED BY <1>3, PoolMovesStill DEF Drained

LEMMA CreditInv ==
  ASSUME BootInv, NEW s \in Sessions, Credit(s)
  PROVE  BootInv'
<1>1. ChainGoesOn /\ ChainTyped'
  BY ChainStays DEF Credit, BootInv
<1>2. Shrinks(pool, pool')
  <2>1. pool.notices \in [Sessions -> 0 .. MaxCredits] /\ MaxCredits \in Nat
    BY PoolTyped, StoreAssumption DEF PoolStates
  <2>2. pool.notices[s] - 1 \in 0 .. MaxCredits
    BY <2>1 DEF Credit
  <2>3. [pool.notices EXCEPT ![s] = @ - 1] \in [Sessions -> 0 .. MaxCredits]
    BY <2>1, <2>2
  <2>4. pool' = [pool EXCEPT !.notices = [pool.notices EXCEPT ![s] = @ - 1]]
    BY DEF Credit
  <2> QED BY <2>3, <2>4, PoolTyped DEF Shrinks, PoolStates
<1>3. PoolMoves
  BY <1>1, <1>2 DEF Shrinks, PoolMoves, Credit
<1> QED BY <1>3, PoolMovesStill DEF Credit

LEMMA MarkLapsesInv ==
  ASSUME BootInv, NEW s \in Sessions, MarkLapses(s)
  PROVE  BootInv'
<1>1. ChainGoesOn /\ ChainTyped'
  BY DEF MarkLapses, BootInv, ChainTyped, ChainGoesOn
<1>2. Shrinks(pool, pool')
  BY PoolTyped DEF MarkLapses, Shrinks, PoolStates
<1>3. PoolMoves
  BY <1>1, <1>2 DEF Shrinks, PoolMoves, MarkLapses
<1> QED BY <1>3, PoolMovesStill DEF MarkLapses

LEMMA LandsInv ==
  ASSUME BootInv, NEW s \in Sessions, Lands(s)
  PROVE  BootInv'
<1>1. ChainGoesOn /\ ChainTyped'
  BY DEF Lands, BootInv, ChainTyped, ChainGoesOn
<1>2. PoolMoves
  BY <1>1, PoolTyped DEF Shrinks, PoolMoves, Lands
<1> QED BY <1>2, PoolMovesStill DEF Lands

LEMMA AgeInv ==
  ASSUME BootInv, NEW s \in Sessions, Age(s)
  PROVE  BootInv'
<1>1. ChainGoesOn /\ ChainTyped'
  BY DEF Age, BootInv, ChainTyped, ChainGoesOn
<1>2. PoolMoves
  BY <1>1, PoolTyped DEF Shrinks, PoolMoves, Age
<1> QED BY <1>2, PoolMovesStill DEF Age

\* The head of the line leaves it.
LEMMA LineTail ==
  ASSUME BootInv, line # <<>>, line' = Tail(line), NEW x, Head(line) = x,
         \A r \in Requests : req'[r].pc \in {"line", "post"} <=> req[r].pc \in {"line", "post"} /\ r # x,
         \A r \in Requests : req'[r].pc = "post" => req[r].pc = "post"
  PROVE  LineInv' /\ line' \in Seq(Requests \cup {"sweep"})
<1>1. line \in Seq(Requests \cup {"sweep"}) /\ LineInv
  BY DEF BootInv, MemoryTyped
<1>2. line' \in Seq(Requests \cup {"sweep"}) /\ Once(line') /\ line[1] = x
      /\ \A y : Among(y, line') <=> Among(y, line) /\ y # x
  BY <1>1, TailKept DEF LineInv
<1>3. \A r \in Requests : req'[r].pc # "post"
  BY <1>1, <1>2 DEF LineInv
<1> QED BY <1>1, <1>2, <1>3 DEF LineInv

LEMMA SweepHoldInv ==
  ASSUME BootInv, NEW works \in BOOLEAN, SweepHold(works)
  PROVE  BootInv'
<1>1. LineInv' /\ line' \in Seq(Requests \cup {"sweep"}) /\ skips' \in 0 .. SweepMaxSkips /\ ~gate
  <2>1. \A r \in Requests : r # "sweep"
    BY BootAssumption
  <2>2. LineInv' /\ line' \in Seq(Requests \cup {"sweep"})
    BY <2>1, LineTail DEF SweepHold
  <2>3. skips' \in 0 .. SweepMaxSkips
    BY BootAssumption DEF SweepHold
  <2> QED BY <2>2, <2>3 DEF SweepHold, BootInv, GateInv
<1>2. CASE UNCHANGED <<chainVars, pool, known, unseen>>
  <2>1. ChainGoesOn /\ ChainTyped'
    BY <1>2, ChainStays DEF BootInv
  <2>2. PoolMoves
    BY <1>2, <2>1, PoolTyped DEF Shrinks, PoolMoves, SweepHold
  <2> QED BY <1>1, <2>2, PoolMovesInv
<1>3. ASSUME NEW L \in Lists, known' = TRUE, unseen' = unseen \ L,
             \/ pool' = Scanned(L).pool /\ UNCHANGED chainVars
             \/ \E s \in Scanned(L).due : \E out \in CloseOutcomes : CloseCall(s, out, Scanned(L).pool)
      PROVE  BootInv'
  <2>1. CASE pool' = Scanned(L).pool /\ UNCHANGED chainVars
    <3>1. PoolMoves
      BY <1>1, <1>3, <2>1, ScanMoves DEF SweepHold
    <3> QED BY <1>1, <3>1, PoolMovesInv
  <2>2. ASSUME NEW s \in Scanned(L).due, NEW out \in CloseOutcomes, CloseCall(s, out, Scanned(L).pool)
        PROVE  BootInv'
    <3>1. PICK q : q = Scanned(L).pool
      OBVIOUS
    <3>2. /\ q \in PoolStates /\ s \in Sessions
          /\ \A t \in Sessions : q.mark[t] = "now" => pool.mark[t] = "now"
          /\ q.mine \subseteq pool.mine
          /\ \A m \in Models : q.entry[m] \in {NoSession, pool.entry[m]} \/ q.entry[m] \in L \ world.excluded
      BY <3>1, ScannedKept
    <3>3. CloseCall(s, out, q)
      BY <2>2, <3>1
    <3>4. Shrinks(q, pool') /\ ChainGoesOn /\ ChainTyped'
      BY <3>2, <3>3, CloseCallKept DEF BootInv
    <3>5. L \subseteq Sessions
      BY DEF Lists, Open
    <3>6. \A m \in Models : \/ pool'.entry[m] \in {NoSession, pool.entry[m]}
                            \/ ~gate /\ pool'.entry[m] \in Sessions \ world.excluded
      BY <1>1, <3>2, <3>4, <3>5 DEF Shrinks
    <3>7. PoolMoves
      BY <1>3, <3>2, <3>4, <3>6 DEF Shrinks, PoolMoves, SweepHold
    <3> QED BY <1>1, <3>7, PoolMovesInv
  <2> QED BY <1>3, <2>1, <2>2
<1>4. Open \in Lists
  BY DEF Lists
<1>5. \A w \in BOOLEAN : (IF w THEN {"ok"} ELSE CloseOutcomes) \subseteq CloseOutcomes
  BY DEF CloseOutcomes
<1>6. \/ UNCHANGED <<chainVars, pool, known, unseen>>
      \/ \E L \in Lists : /\ known' = TRUE /\ unseen' = unseen \ L
                          /\ \/ pool' = Scanned(L).pool /\ UNCHANGED chainVars
                             \/ \E s \in Scanned(L).due : \E out \in CloseOutcomes : CloseCall(s, out, Scanned(L).pool)
  <2>1. CASE ~works /\ UNCHANGED <<chainVars, pool, known, unseen>>
    BY <2>1
  <2>2. ASSUME NEW L \in IF works THEN {Open} ELSE Lists, NEW scan \in {Scanned(L)},
               known' = TRUE, unseen' = unseen \ L,
               IF scan.due = {} \/ \E s \in Sessions : scan.pool.mark[s] = "cut"
               THEN pool' = scan.pool /\ UNCHANGED chainVars
               ELSE \E s \in scan.due : \E out \in IF works THEN {"ok"} ELSE CloseOutcomes :
                      CloseCall(s, out, scan.pool)
        PROVE  <1>6!2
    <3>1. L \in Lists /\ scan = Scanned(L)
      BY <1>4, <2>2
    <3>2. CASE pool' = scan.pool /\ UNCHANGED chainVars
      BY <2>2, <3>1, <3>2
    <3>3. CASE \E s \in scan.due : \E out \in IF works THEN {"ok"} ELSE CloseOutcomes : CloseCall(s, out, scan.pool)
      <4>1. PICK s \in scan.due, out \in CloseOutcomes : CloseCall(s, out, scan.pool)
        BY <1>5, <3>3
      <4> QED BY <2>2, <3>1, <4>1
    <3> QED BY <2>2, <3>2, <3>3
  <2> QED BY <2>1, <2>2 DEF SweepHold
<1> QED BY <1>2, <1>3, <1>6

LEMMA SweepTickRest ==
  ASSUME BootInv, SweepTick, LineInv', line' \in Seq(Requests \cup {"sweep"}), skips' \in 0 .. SweepMaxSkips
  PROVE  BootInv'
<1>1. ChainGoesOn /\ ChainTyped'
  BY ChainStays DEF SweepTick, BootInv
<1>2. PoolMoves
  BY <1>1, PoolTyped DEF Shrinks, PoolMoves, SweepTick
<1> QED BY <1>2, PoolMovesInv DEF SweepTick

LEMMA SweepTickInv ==
  ASSUME BootInv, SweepTick
  PROVE  BootInv'
<1>1. line \in Seq(Requests \cup {"sweep"}) /\ LineInv /\ skips \in 0 .. SweepMaxSkips /\ SweepMaxSkips \in Nat
  BY BootAssumption DEF BootInv, MemoryTyped
<1>2. ~Among("sweep", line)
  BY <1>1, RangeOf DEF SweepTick
<1>3. skips' \in 0 .. SweepMaxSkips
  BY <1>1 DEF SweepTick
<1>4. line' = line \/ line' = Append(line, "sweep")
  <2>1. Append(<<>>, "sweep") = <<"sweep">>
    OBVIOUS
  <2> QED BY <2>1 DEF SweepTick
<1>5. CASE line' = Append(line, "sweep")
  <2>1. line' \in Seq(Requests \cup {"sweep"}) /\ Once(line')
        /\ (\A x : Among(x, line') <=> Among(x, line) \/ x = "sweep") /\ (Len(line) > 0 => line'[1] = line[1])
    BY <1>1, <1>2, <1>5, AppendKept DEF LineInv
  <2>2. \A r \in Requests : Among(r, line) => Len(line) > 0
    BY <1>1 DEF Among
  <2>3. req' = req /\ \A r \in Requests : r # "sweep"
    BY BootAssumption DEF SweepTick
  <2>4. LineInv'
    BY <1>1, <2>1, <2>2, <2>3 DEF LineInv
  <2> QED BY <1>3, <2>1, <2>4, SweepTickRest
<1>6. CASE line' = line
  <2>1. LineInv'
    BY <1>1, <1>6 DEF SweepTick, LineInv
  <2> QED BY <1>1, <1>3, <1>6, <2>1, SweepTickRest
<1> QED BY <1>4, <1>5, <1>6

-----------------------------------------------------------------------------
\* The steps of a request.

LEMMA GoesKept ==
  ASSUME BootInv, NEW r \in Requests, NEW pc \in {"idle", "wait", "line", "post", "track", "use"},
         NEW s \in Sessions \cup {NoSession}, Goes(r, pc, s)
  PROVE  /\ req' \in [Requests -> ReqStates]
         /\ req'[r].pc = pc /\ req'[r].at = s
         /\ \A q \in Requests \ {r} : req'[q] = req[q]
BY DEF BootInv, MemoryTyped, Goes, ReqStates

LEMMA RequestMoves ==
  ASSUME BootInv, ChainGoesOn, ChainTyped', pool' \in PoolStates, UNCHANGED <<boot, gate, skips>>,
         \A s \in Sessions : pool'.mark[s] = "now" => pool.mark[s] = "now",
         known' \in BOOLEAN, unseen' \subseteq unseen, SeenInv', LeaseInv',
         LineInv', line' \in Seq(Requests \cup {"sweep"}), req' \in [Requests -> ReqStates],
         gate => /\ UNCHANGED <<line, pool>>
                 /\ \A r \in Requests : req'[r].pc \in {"idle", "wait"}
  PROVE  BootInv'
<1>1. TodoInv'
  BY TodoStays
<1>2. GateInv'
  BY DEF BootInv, GateInv
<1>3. MemoryTyped'
  BY DEF BootInv, MemoryTyped
<1> QED BY <1>1, <1>2, <1>3 DEF BootInv

\* A request outside the line that stays outside of it.
LEMMA LineStays ==
  ASSUME BootInv, line' = line,
         \A r \in Requests : req'[r].pc \in {"line", "post"} <=> req[r].pc \in {"line", "post"},
         \A r \in Requests : req'[r].pc = "post" => req[r].pc = "post" \/ line[1] = r
  PROVE  LineInv' /\ line' \in Seq(Requests \cup {"sweep"})
BY DEF BootInv, MemoryTyped, LineInv

LEMMA ServableKept ==
  ASSUME BootInv, Servable(Model, pool)
  PROVE  pool.entry[Model] \in Sessions \ world.excluded /\ pool.mark[pool.entry[Model]] = "none" /\ ~gate
<1>1. pool.entry[Model] \in Sessions \cup {NoSession} /\ Model \in Models
  BY PoolTyped
<1>2. pool.entry[Model] \in Sessions /\ pool.entry[Model] # NoSession /\ pool.mark[pool.entry[Model]] = "none"
  BY <1>1 DEF Servable
<1> QED BY <1>1, <1>2 DEF BootInv, LeaseInv, GateInv

LEMMA RequestMovesOnly ==
  ASSUME BootInv, NEW r \in Requests, NEW pc \in {"idle", "wait", "line", "post", "track", "use"},
         NEW s \in Sessions \cup {NoSession}, Goes(r, pc, s),
         pc \in {"track", "use"} => \/ req[r].pc \in {"track", "use"} /\ s = req[r].at
                                    \/ s \in Sessions \ world.excluded /\ pool.mark[s] # "now",
         UNCHANGED <<chainVars, pool, gate, known, boot, unseen, skips>>,
         LineInv', line' \in Seq(Requests \cup {"sweep"}),
         gate => line' = line /\ pc \in {"idle", "wait"}
  PROVE  BootInv'
<1>1. /\ req' \in [Requests -> ReqStates] /\ req'[r].pc = pc /\ req'[r].at = s
      /\ \A q \in Requests \ {r} : req'[q] = req[q]
  BY GoesKept
<1>2. ChainGoesOn /\ ChainTyped'
  BY ChainStays DEF BootInv
<1>3. LeaseInv'
  <2>1. \A q \in Requests : req'[q].pc \in {"track", "use"} =>
           \/ req[q].pc \in {"track", "use"} /\ req'[q].at = req[q].at
           \/ req'[q].at \in Sessions \ world.excluded /\ pool'.mark[req'[q].at] # "now"
    BY <1>1
  <2> QED BY <1>2, <2>1, LeaseGrows
<1>4. SeenInv'
  BY <1>2, SeenStays
<1>5. pool' \in PoolStates /\ known' \in BOOLEAN
  BY DEF BootInv, MemoryTyped
<1>6. gate => \A q \in Requests : req'[q].pc \in {"idle", "wait"}
  BY <1>1 DEF BootInv, GateInv
<1> QED BY <1>1, <1>2, <1>3, <1>4, <1>5, <1>6, RequestMoves

LEMMA ArriveInv ==
  ASSUME BootInv, NEW r \in Requests, Arrive(r)
  PROVE  BootInv'
<1>1. PICK pc \in {"wait", "use"}, s \in Sessions \cup {NoSession} :
        /\ Goes(r, pc, s)
        /\ pc = "use" => s \in Sessions \ world.excluded /\ pool.mark[s] # "now" /\ ~gate
  <2>1. CASE Servable(Model, pool)
    BY <2>1, ServableKept DEF Arrive
  <2>2. CASE ~Servable(Model, pool)
    BY <2>2 DEF Arrive
  <2> QED BY <2>1, <2>2
<1>2. /\ req'[r].pc = pc /\ \A q \in Requests \ {r} : req'[q] = req[q]
  BY <1>1, GoesKept
<1>3. LineInv' /\ line' \in Seq(Requests \cup {"sweep"})
  BY <1>2, LineStays DEF Arrive
<1> QED BY <1>1, <1>3, RequestMovesOnly DEF Arrive

LEMMA EnterInv ==
  ASSUME BootInv, NEW r \in Requests, Enter(r)
  PROVE  BootInv'
<1>1. CASE Servable(Model, pool)
  <2>1. pool.entry[Model] \in Sessions \ world.excluded /\ pool.mark[pool.entry[Model]] # "now"
    BY <1>1, ServableKept
  <2>2. Goes(r, "use", pool.entry[Model]) /\ line' = line
    BY <1>1 DEF Enter
  <2>3. /\ req'[r].pc = "use" /\ \A q \in Requests \ {r} : req'[q] = req[q]
    BY <2>1, <2>2, GoesKept
  <2>4. LineInv' /\ line' \in Seq(Requests \cup {"sweep"})
    BY <2>2, <2>3, LineStays DEF Enter
  <2> QED BY <2>1, <2>2, <2>4, RequestMovesOnly DEF Enter
<1>2. CASE ~Servable(Model, pool)
  <2>1. Goes(r, "line", NoSession) /\ line' = Append(line, r)
    BY <1>2 DEF Enter
  <2>2. /\ req'[r].pc = "line" /\ \A q \in Requests \ {r} : req'[q] = req[q]
    BY <2>1, GoesKept
  <2>3. line \in Seq(Requests \cup {"sweep"}) /\ LineInv /\ ~Among(r, line)
    BY DEF BootInv, MemoryTyped, LineInv, Enter
  <2>4. line' \in Seq(Requests \cup {"sweep"}) /\ Once(line') /\ \A x : Among(x, line') <=> Among(x, line) \/ x = r
    BY <2>1, <2>3, AppendKept DEF LineInv
  <2>5. \A q \in Requests : req'[q].pc # "post"
    BY <2>2 DEF Enter
  <2>6. LineInv'
    BY <2>2, <2>3, <2>4, <2>5 DEF LineInv
  <2> QED BY <2>1, <2>4, <2>6, RequestMovesOnly DEF Enter
<1> QED BY <1>1, <1>2

\* A request in line or about to post is past the gate.
LEMMA InLineKept ==
  ASSUME BootInv, NEW r \in Requests, req[r].pc \in {"line", "post"}
  PROVE  ~gate /\ line # <<>> /\ line \in Seq(Requests \cup {"sweep"}) /\ line[1] = Head(line)
<1>1. line # <<>>
  BY EmptyOf DEF BootInv, LineInv
<1>2. line \in Seq(Requests \cup {"sweep"})
  BY DEF BootInv, MemoryTyped
<1>3. ~gate
  BY DEF BootInv, GateInv
<1> QED BY <1>1, <1>2, <1>3, TailKept

LEMMA OpenBlindInv ==
  ASSUME BootInv, NEW r \in Requests, OpenBlind(r)
  PROVE  BootInv'
<1>1. ~gate /\ line # <<>> /\ line[1] = Head(line) /\ Head(line) = r
  BY InLineKept DEF OpenBlind
<1>2. CASE MayOpenBlind
  <2>1. Goes(r, "post", NoSession) /\ line' = line
    BY <1>2 DEF OpenBlind
  <2>2. /\ req'[r].pc = "post" /\ \A q \in Requests \ {r} : req'[q] = req[q]
    BY <2>1, GoesKept
  <2>3. LineInv' /\ line' \in Seq(Requests \cup {"sweep"})
    BY <1>1, <2>1, <2>2, LineStays DEF OpenBlind
  <2> QED BY <1>1, <2>1, <2>3, RequestMovesOnly DEF OpenBlind
<1>3. CASE ~MayOpenBlind
  <2>1. Goes(r, "idle", NoSession) /\ line' = Tail(line)
    BY <1>3 DEF OpenBlind
  <2>2. /\ req'[r].pc = "idle" /\ \A q \in Requests \ {r} : req'[q] = req[q]
    BY <2>1, GoesKept
  <2>3. LineInv' /\ line' \in Seq(Requests \cup {"sweep"})
    BY <1>1, <2>1, <2>2, LineTail DEF OpenBlind
  <2> QED BY <1>1, <2>1, <2>3, RequestMovesOnly DEF OpenBlind
<1> QED BY <1>2, <1>3

LEMMA ScanAndOpenInv ==
  ASSUME BootInv, NEW r \in Requests, ScanAndOpen(r)
  PROVE  BootInv'
<1>1. ~gate /\ line # <<>> /\ line[1] = Head(line) /\ Head(line) = r
  BY InLineKept DEF ScanAndOpen
<1>2. ChainGoesOn /\ ChainTyped'
  BY ChainStays DEF BootInv, ScanAndOpen
<1>3. PICK L \in Lists :
        LET first == Servable(Model, pool)
            p == IF first THEN pool ELSE Scanned(L).pool
        IN  /\ pool' = p
            /\ known' = (known \/ ~first)
            /\ unseen' = IF first THEN unseen ELSE unseen \ L
            /\ IF Servable(Model, p) THEN Goes(r, "use", p.entry[Model]) /\ line' = Tail(line)
               ELSE Goes(r, "post", NoSession) /\ UNCHANGED line
  BY DEF ScanAndOpen
<1>4. /\ pool' \in PoolStates
      /\ \A s \in Sessions : pool'.mark[s] = "now" => pool.mark[s] = "now"
      /\ pool'.mine \subseteq pool.mine
      /\ \A m \in Models : pool'.entry[m] \in {NoSession, pool.entry[m]} \/ pool'.entry[m] \in Sessions \ world.excluded
      /\ SeenInv' /\ known' \in BOOLEAN /\ unseen' \subseteq unseen
  <2>1. CASE Servable(Model, pool)
    <3>1. pool' = pool /\ known' = known /\ unseen' = unseen /\ boot' = boot
      BY <1>3, <2>1 DEF ScanAndOpen, BootInv, MemoryTyped
    <3>2. SeenInv'
      BY <1>2, <3>1, SeenStays
    <3> QED BY <3>1, <3>2, PoolTyped DEF BootInv, MemoryTyped
  <2>2. CASE ~Servable(Model, pool)
    <3>1. pool' = Scanned(L).pool /\ known' = TRUE /\ unseen' = unseen \ L
      BY <1>3, <2>2
    <3>2. SeenInv'
      BY <1>2, <3>1, SeenByList
    <3>3. L \subseteq Sessions
      BY DEF Lists, Open
    <3> QED BY <3>1, <3>2, <3>3, ScannedKept
  <2> QED BY <2>1, <2>2
<1>5. PICK q : q = pool'
  OBVIOUS
<1>6. CASE Servable(Model, q)
  <2>1. Goes(r, "use", q.entry[Model]) /\ line' = Tail(line)
    BY <1>3, <1>5, <1>6
  <2>2. q.entry[Model] \in Sessions \ world.excluded /\ q.mark[q.entry[Model]] = "none"
    <3>1. Model \in Models /\ q.entry[Model] \in Sessions \cup {NoSession}
      BY <1>4, <1>5, PoolTyped DEF PoolStates
    <3>2. q.entry[Model] # NoSession /\ q.mark[q.entry[Model]] = "none"
      BY <1>6 DEF Servable
    <3>3. \A m \in Models : pool.entry[m] \in Sessions => pool.entry[m] \notin world.excluded
      BY DEF BootInv, LeaseInv
    <3> QED BY <1>4, <1>5, <3>1, <3>2, <3>3
  <2>3. /\ req' \in [Requests -> ReqStates] /\ req'[r].pc = "use" /\ req'[r].at = q.entry[Model]
        /\ \A x \in Requests \ {r} : req'[x] = req[x]
    BY <2>1, <2>2, GoesKept
  <2>4. LeaseInv'
    <3>1. \A x \in Requests : req'[x].pc \in {"track", "use"} =>
             \/ req[x].pc \in {"track", "use"} /\ req'[x].at = req[x].at
             \/ req'[x].at \in Sessions \ world.excluded /\ pool'.mark[req'[x].at] # "now"
      BY <1>5, <2>2, <2>3
    <3>2. \A s \in pool'.mine : s \in pool.mine
      BY <1>4
    <3> QED BY <1>2, <1>4, <3>1, <3>2, LeaseGrows
  <2>5. LineInv' /\ line' \in Seq(Requests \cup {"sweep"})
    BY <1>1, <2>1, <2>3, LineTail DEF ScanAndOpen
  <2> QED BY <1>1, <1>2, <1>4, <2>3, <2>4, <2>5, RequestMoves DEF ScanAndOpen
<1>7. CASE ~Servable(Model, q)
  <2>1. Goes(r, "post", NoSession) /\ line' = line
    BY <1>3, <1>5, <1>7
  <2>2. /\ req' \in [Requests -> ReqStates] /\ req'[r].pc = "post"
        /\ \A x \in Requests \ {r} : req'[x] = req[x]
    BY <2>1, GoesKept
  <2>3. LeaseInv'
    <3>1. \A x \in Requests : req'[x].pc \in {"track", "use"} => req[x].pc \in {"track", "use"} /\ req'[x].at = req[x].at
      BY <2>2
    <3> QED BY <1>2, <1>4, <3>1, LeaseStays
  <2>4. LineInv' /\ line' \in Seq(Requests \cup {"sweep"})
    BY <1>1, <2>1, <2>2, LineStays DEF ScanAndOpen
  <2> QED BY <1>1, <1>2, <1>4, <2>2, <2>3, <2>4, RequestMoves DEF ScanAndOpen
<1> QED BY <1>6, <1>7

\* A session that was never opened is neither marked by the boot nor missing
\* from the lists.
LEMMA PostInv ==
  ASSUME BootInv, NEW r \in Requests, Post(r)
  PROVE  BootInv'
<1>1. ~gate /\ line # <<>> /\ line[1] = Head(line) /\ Head(line) = r
  BY InLineKept DEF Post, BootInv, LineInv
<1>2. CASE Goes(r, "idle", NoSession) /\ UNCHANGED <<chain, pool>>
  <2>1. /\ req'[r].pc = "idle" /\ \A q \in Requests \ {r} : req'[q] = req[q]
    BY <1>2, GoesKept
  <2>2. LineInv' /\ line' \in Seq(Requests \cup {"sweep"})
    BY <1>1, <2>1, LineTail DEF Post
  <2>3. UNCHANGED chainVars
    BY <1>2 DEF Post, chainVars
  <2> QED BY <1>1, <1>2, <2>2, <2>3, RequestMovesOnly DEF Post
<1>3. ASSUME NEW s \in {t \in world.fresh : chain[t] = "none"}, NEW landed \in BOOLEAN,
             chain' = [chain EXCEPT ![s] = IF landed THEN "open" ELSE "sent"],
             pool' = IF landed THEN [pool EXCEPT !.entry[Model] = s] ELSE [pool EXCEPT !.mine = @ \cup {s}],
             IF landed THEN Goes(r, IF Acts("credit") THEN "track" ELSE "use", s) ELSE Goes(r, "idle", NoSession)
      PROVE  BootInv'
  <2>1. s \in Sessions \ world.excluded /\ chain[s] = "none"
    BY <1>3, WorldsAssumption DEF BootInv, ChainTyped
  <2>2. pool.mark[s] # "now"
    <3>1. ASSUME Among(s, boot.todo) PROVE FALSE
      <4>1. PICK i \in 1 .. Len(boot.todo) : boot.todo[i] = s
        BY <3>1 DEF Among
      <4> QED BY <2>1, <4>1 DEF BootInv, TodoInv
    <3> QED BY <2>1, <3>1 DEF BootInv, TodoInv
  <2>3. ChainGoesOn /\ ChainTyped'
    BY <1>3, <2>1 DEF Post, BootInv, ChainTyped, ChainGoesOn
  <2>4. /\ pool' \in PoolStates /\ pool'.mark = pool.mark
        /\ \A m \in Models : pool'.entry[m] \in {pool.entry[m], s}
        /\ pool'.mine \subseteq pool.mine \cup {s}
    <3>1. CASE landed
      <4> DEFINE e == [pool.entry EXCEPT ![Model] = s]
      <4>1. pool' = [pool EXCEPT !.entry = e]
        BY <1>3, <3>1
      <4>2. e \in [Models -> Sessions \cup {NoSession}] /\ \A m \in Models : e[m] \in {pool.entry[m], s}
        BY <2>1, PoolTyped
      <4> HIDE DEF e
      <4> QED BY <4>1, <4>2, PoolTyped DEF PoolStates
    <3>2. CASE ~landed
      <4>1. pool' = [pool EXCEPT !.mine = pool.mine \cup {s}]
        BY <1>3, <3>2
      <4> QED BY <2>1, <4>1, PoolTyped DEF PoolStates
    <3> QED BY <3>1, <3>2
  <2>5. PICK pc \in {"track", "use", "idle"}, at \in {s, NoSession} : Goes(r, pc, at) /\ (pc # "idle" => at = s)
    BY <1>3
  <2>6. /\ req' \in [Requests -> ReqStates] /\ req'[r].pc = pc /\ req'[r].at = at
        /\ \A q \in Requests \ {r} : req'[q] = req[q]
    BY <2>1, <2>5, GoesKept
  <2>7. LeaseInv'
    <3>1. \A m \in Models : \/ pool'.entry[m] \in {NoSession, pool.entry[m]}
                            \/ pool'.entry[m] \in Sessions \ world.excluded
      BY <2>1, <2>4
    <3>2. \A t \in pool'.mine : t \in pool.mine \/ t \notin world.excluded
      BY <2>1, <2>4
    <3>3. \A q \in Requests : req'[q].pc \in {"track", "use"} =>
             \/ req[q].pc \in {"track", "use"} /\ req'[q].at = req[q].at
             \/ req'[q].at \in Sessions \ world.excluded /\ pool'.mark[req'[q].at] # "now"
      BY <2>1, <2>2, <2>4, <2>5, <2>6
    <3> QED BY <2>3, <2>4, <3>1, <3>2, <3>3, LeaseGrows
  <2>8. SeenInv' /\ known' \in BOOLEAN /\ unseen' \subseteq unseen
    <3>1. SeenInv'
      BY <2>3, SeenStays DEF Post
    <3> QED BY <3>1 DEF Post, BootInv, MemoryTyped
  <2>9. LineInv' /\ line' \in Seq(Requests \cup {"sweep"})
    BY <1>1, <2>5, <2>6, LineTail DEF Post
  <2> QED BY <1>1, <2>3, <2>4, <2>6, <2>7, <2>8, <2>9, RequestMoves DEF Post
<1> QED BY <1>2, <1>3 DEF Post

LEMMA TrackInvBoot ==
  ASSUME BootInv, NEW r \in Requests, NEW k, Track(r, k)
  PROVE  BootInv'
<1>1. req[r].at \in Sessions \cup {NoSession} /\ Goes(r, "use", req[r].at) /\ ~gate /\ req[r].pc = "track"
  BY DEF BootInv, MemoryTyped, ReqStates, GateInv, Track
<1>2. /\ req'[r].pc = "use" /\ \A q \in Requests \ {r} : req'[q] = req[q]
  BY <1>1, GoesKept
<1>3. LineInv' /\ line' \in Seq(Requests \cup {"sweep"})
  BY <1>1, <1>2, LineStays DEF Track
<1> QED BY <1>1, <1>3, RequestMovesOnly DEF Track

LEMMA DoneInv ==
  ASSUME BootInv, NEW r \in Requests, Done(r)
  PROVE  BootInv'
<1>1. /\ req'[r].pc = "idle" /\ \A q \in Requests \ {r} : req'[q] = req[q]
  BY GoesKept DEF Done
<1>2. LineInv' /\ line' \in Seq(Requests \cup {"sweep"})
  BY <1>1, LineStays DEF Done
<1> QED BY <1>2, RequestMovesOnly DEF Done

-----------------------------------------------------------------------------
\* The steps of the boot.

LEMMA BootTyped ==
  ASSUME BootInv
  PROVE  /\ boot \in BootStates /\ boot.todo \in Seq(Sessions) /\ boot.list \subseteq Sessions /\ boot.late \in BOOLEAN
         /\ boot.tries \in Nat
         /\ TodoInv /\ LeaseInv /\ SeenInv /\ GateInv /\ LineInv
BY DEF BootInv, MemoryTyped, BootStates

LEMMA BootStart ==
  /\ NewBoot \in BootStates /\ NewBoot.todo = <<>> /\ NewBoot.list = {} /\ NewBoot.pc = "list" /\ NewBoot.late = FALSE
  /\ DoneBoot \in BootStates /\ DoneBoot.todo = <<>> /\ DoneBoot.list = {} /\ DoneBoot.pc = "done"
<1>1. <<>> \in Seq(Sessions) /\ {} \in SUBSET Sessions /\ 0 \in Nat
  BY EmptySeq
<1>2. NewBoot \in BootStates
  BY <1>1 DEF NewBoot, BootStates
<1>3. NewBoot.todo = <<>> /\ NewBoot.list = {} /\ NewBoot.pc = "list" /\ NewBoot.late = FALSE
  BY DEF NewBoot
<1>4. DoneBoot \in BootStates /\ DoneBoot.todo = NewBoot.todo /\ DoneBoot.list = NewBoot.list /\ DoneBoot.pc = "done"
  BY <1>2 DEF DoneBoot, BootStates
<1> QED BY <1>2, <1>3, <1>4

LEMMA BootListInv ==
  ASSUME BootInv, NEW ok \in BOOLEAN, BootList(ok)
  PROVE  BootInv'
<1>1. boot.pc = "list" /\ boot.todo = <<>> /\ UNCHANGED <<chainVars, pool, known, line, skips, req>>
  BY BootTyped DEF BootList, TodoInv
<1>2. ChainGoesOn /\ ChainTyped'
  BY <1>1, ChainStays DEF BootInv
<1>3. /\ boot' \in BootStates /\ boot'.todo = <<>> /\ boot'.pc \in {"list", "apply"}
      /\ \A s \in boot'.list : chain[s] \in {"open", "closed"}
      /\ gate' \in BOOLEAN /\ (gate' => gate) /\ (~boot'.late => gate')
      /\ SeenInv' /\ unseen' \subseteq Sessions
  <2>1. CASE ok
    <3>1. PICK L \in Lists : boot' = [boot EXCEPT !.pc = "apply", !.list = L, !.tries = 0] /\ unseen' = unseen \ L
      BY <2>1 DEF BootList, ListRead
    <3>2. gate' = gate
      BY <2>1 DEF BootList
    <3>3. L \subseteq Sessions /\ \A s \in L : chain[s] = "open"
      BY DEF Lists, Open
    <3>4. boot' \in BootStates /\ boot'.todo = boot.todo /\ boot'.pc = "apply" /\ boot'.list = L /\ boot'.late = boot.late
      BY <3>1, <3>3, BootTyped DEF BootStates
    <3>5. SeenInv'
      BY <1>2, <3>1, SeenByList
    <3>6. ~boot.late => gate
      BY <1>1, BootTyped DEF GateInv
    <3>7. gate \in BOOLEAN /\ unseen' \subseteq Sessions
      BY <3>1 DEF BootInv, MemoryTyped
    <3> QED BY <1>1, <3>2, <3>3, <3>4, <3>5, <3>6, <3>7
  <2>2. CASE ~ok
    <3>1. PICK late \in IF MustStop THEN {TRUE} ELSE BOOLEAN :
            /\ boot' = [boot EXCEPT !.late = late, !.tries = IF late THEN 0 ELSE @ + 1]
            /\ gate' = (gate /\ ~late) /\ unseen' = unseen
      BY <2>2 DEF BootList
    <3>2. late \in BOOLEAN /\ (~late => ~boot.late)
      BY <3>1 DEF MustStop
    <3>3. boot' \in BootStates /\ boot'.todo = boot.todo /\ boot'.pc = "list" /\ boot'.list = boot.list /\ boot'.late = late
      <4>1. PICK n \in Nat : boot' = [boot EXCEPT !.late = late, !.tries = n]
        <5>1. (IF late THEN 0 ELSE boot.tries + 1) \in Nat
          BY BootTyped
        <5> QED BY <3>1, <5>1, BootTyped DEF BootStates
      <4> QED BY <1>1, <3>2, <4>1, BootTyped DEF BootStates
    <3>4. SeenInv'
      BY <1>1, <1>2, <3>1, <3>3, SeenStays
    <3>5. ~late => gate
      BY <1>1, <3>2, BootTyped DEF GateInv
    <3>6. gate \in BOOLEAN /\ unseen' \subseteq Sessions
      BY <3>1 DEF BootInv, MemoryTyped
    <3> QED BY <1>1, <3>1, <3>2, <3>3, <3>4, <3>5, <3>6, BootTyped DEF TodoInv
  <2> QED BY <2>1, <2>2
<1>4. TodoInv'
  <2>1. chain' = chain /\ pool' = pool
    BY <1>1 DEF chainVars
  <2> QED BY <1>1, <1>3, <2>1, BootTyped, EmptyOf DEF TodoInv
<1>5. GateInv'
  BY <1>1, <1>3, BootTyped DEF GateInv
<1>6. LeaseInv'
  <2>1. \A r \in Requests : req'[r].pc \in {"track", "use"} => req[r].pc \in {"track", "use"} /\ req'[r].at = req[r].at
    BY <1>1
  <2> QED BY <1>1, <1>2, <2>1, LeaseStays
<1>7. LineInv'
  BY <1>1, BootTyped DEF LineInv
<1>8. MemoryTyped'
  BY <1>1, <1>3 DEF BootInv, MemoryTyped
<1> QED BY <1>2, <1>3, <1>4, <1>5, <1>6, <1>7, <1>8 DEF BootInv

LEMMA BootCancelledInv ==
  ASSUME BootInv, BootCancelled
  PROVE  BootInv'
<1>1. boot.pc = "list" /\ boot.todo = <<>> /\ UNCHANGED <<chainVars, pool, known, unseen, line, skips, req>>
      /\ gate' = FALSE /\ boot' = DoneBoot
  BY BootTyped DEF BootCancelled, TodoInv
<1>2. ChainGoesOn /\ ChainTyped'
  BY <1>1, ChainStays DEF BootInv
<1>3. boot' \in BootStates /\ boot'.todo = <<>> /\ boot'.list = {} /\ boot'.pc = "done"
  BY <1>1, BootStart
<1>4. TodoInv'
  <2>1. chain' = chain /\ pool' = pool
    BY <1>1 DEF chainVars
  <2> QED BY <1>1, <1>3, <2>1, BootTyped, EmptyOf DEF TodoInv
<1>5. GateInv'
  BY <1>1, <1>3 DEF GateInv
<1>6. LeaseInv'
  <2>1. \A r \in Requests : req'[r].pc \in {"track", "use"} => req[r].pc \in {"track", "use"} /\ req'[r].at = req[r].at
    BY <1>1
  <2> QED BY <1>1, <1>2, <2>1, LeaseStays
<1>7. LineInv'
  BY <1>1, BootTyped DEF LineInv
<1>8. MemoryTyped'
  BY <1>1, <1>3 DEF BootInv, MemoryTyped
<1>9. SeenInv'
  BY <1>1, <1>2, <1>3, SeenStays
<1> QED BY <1>2, <1>4, <1>5, <1>6, <1>7, <1>8, <1>9 DEF BootInv

\* PlanReconcile keeps its closes apart, and what a late pass closes is at its
\* end or with an excluded provider.
LEMMA PassClosesKept ==
  ASSUME BootInv, NEW catalog \in BOOLEAN, NEW closes \in PassCloses(Plan(boot.list, catalog), boot.late)
  PROVE  /\ closes \in Seq(Sessions) /\ Once(closes)
         /\ \A x : Among(x, closes) => x \in boot.list /\ (boot.late => ~Usable(x) \/ x \in world.excluded)
         /\ Plan(boot.list, catalog).adopt \subseteq boot.list \ world.excluded
<1> DEFINE L == boot.list
           expired == {s \in L : ~Usable(s)}
           excluded == (L \ expired) \cap world.excluded
           usable == {s \in L \ (expired \cup excluded) : catalog => ModelOf(s) \in Catalog}
           dups == Duplicates(usable)
           plan == Plan(L, catalog)
<1>1. L \subseteq Sessions
  BY BootTyped
<1>2. /\ plan.expired = expired /\ plan.excluded = excluded /\ plan.dups = dups
      /\ plan.adopt \subseteq usable
  BY DEF Plan
<1>3. dups \subseteq usable
  BY DEF Duplicates
<1>4. usable \subseteq L \ world.excluded
  OBVIOUS
<1>5. expired \in SUBSET Sessions /\ excluded \in SUBSET Sessions /\ dups \in SUBSET Sessions
      /\ expired \cap excluded = {} /\ expired \cap dups = {} /\ excluded \cap dups = {}
  BY <1>1, <1>3
<1>6. \A x \in expired \cup excluded : x \in L /\ (~Usable(x) \/ x \in world.excluded)
  OBVIOUS
<1>7. \A x \in dups : x \in L
  BY <1>3
<1> HIDE DEF expired, excluded, dups, usable, plan
<1>8. CASE boot.late
  <2>1. closes \in InTurn(expired, excluded, {})
    BY <1>2, <1>8 DEF PassCloses, plan
  <2>2. closes \in Seq(Sessions) /\ Once(closes) /\ \A x : Among(x, closes) => x \in expired \cup excluded \cup {}
    <3>1. {} \in SUBSET Sessions /\ expired \cap {} = {} /\ excluded \cap {} = {}
      OBVIOUS
    <3> QED BY <1>5, <2>1, <3>1, InTurnKept
  <2> QED BY <1>2, <1>4, <1>6, <1>8, <2>2 DEF plan
<1>9. CASE ~boot.late
  <2>1. closes \in InTurn(expired, excluded, dups)
    BY <1>2, <1>9 DEF PassCloses, plan
  <2>2. closes \in Seq(Sessions) /\ Once(closes) /\ \A x : Among(x, closes) => x \in expired \cup excluded \cup dups
    BY <1>5, <2>1, InTurnKept
  <2> QED BY <1>2, <1>4, <1>6, <1>7, <1>9, <2>2 DEF plan
<1> QED BY <1>8, <1>9, BootTyped

LEMMA BootApplyInv ==
  ASSUME BootInv, NEW catalog \in BOOLEAN, BootApply(catalog)
  PROVE  BootInv'
<1> DEFINE plan == Plan(boot.list, catalog)
           Adopted(m) == {s \in plan.adopt : ModelOf(s) = m /\ (pool.entry[m] = NoSession \/ pool.entry[m] <= s)}
           e == [m \in Models |-> IF Adopted(m) # {} THEN PickOne(Adopted(m)) ELSE pool.entry[m]]
<1>1. PICK closes \in PassCloses(plan, boot.late) :
        /\ pool' = [pool EXCEPT
                      !.entry = [m \in Models |-> IF Adopted(m) # {} THEN PickOne(Adopted(m)) ELSE @[m]],
                      !.mark = [s \in Sessions |-> IF s \in Range(closes) THEN "now" ELSE @[s]]]
        /\ boot' = [boot EXCEPT !.pc = "close", !.list = {}, !.todo = closes]
  BY DEF BootApply
<1> DEFINE k == [s \in Sessions |-> IF s \in Range(closes) THEN "now" ELSE pool.mark[s]]
<1>2. boot.pc = "apply" /\ boot.todo = <<>> /\ gate' = FALSE /\ known' = TRUE /\ UNCHANGED <<chainVars, unseen, line, skips, req>>
  BY BootTyped DEF BootApply, TodoInv
<1>3. /\ closes \in Seq(Sessions) /\ Once(closes)
      /\ \A x : Among(x, closes) => x \in boot.list /\ (boot.late => ~Usable(x) \/ x \in world.excluded)
      /\ plan.adopt \subseteq boot.list \ world.excluded
  BY PassClosesKept
<1>4. \A x : x \in Range(closes) <=> Among(x, closes)
  BY <1>3, RangeOf
<1> HIDE DEF plan
<1>5. /\ e \in [Models -> Sessions \cup {NoSession}]
      /\ \A m \in Models : e[m] = pool.entry[m] \/ e[m] \in Sessions \ world.excluded
  <2>1. ASSUME NEW m \in Models, Adopted(m) # {} PROVE PickOne(Adopted(m)) \in Sessions \ world.excluded
    <3> DEFINE A == Adopted(m)
    <3>1. A \in SUBSET Sessions /\ A # {} /\ A \subseteq Sessions \ world.excluded
      BY <1>3, <2>1, BootTyped
    <3> HIDE DEF A
    <3>2. PickOne(A) \in A
      BY <3>1, PickOneIsTop
    <3> QED BY <3>1, <3>2 DEF A
  <2>2. \A m \in Models : e[m] = pool.entry[m] \/ e[m] \in Sessions \ world.excluded
    BY <2>1
  <2>3. \A m \in Models : e[m] \in Sessions \cup {NoSession}
    BY <2>2, PoolTyped
  <2> QED BY <2>2, <2>3
<1>6. k \in [Sessions -> {"none", "now", "cut"}] /\ \A s \in Sessions : k[s] = "now" => Among(s, closes)
  <2>1. \A s \in Sessions : pool.mark[s] # "now"
    BY <1>2, BootTyped, EmptyOf DEF TodoInv
  <2> QED BY <1>4, <2>1, PoolTyped
<1>7. pool' = [pool EXCEPT !.entry = e, !.mark = k]
  BY <1>1, PoolTyped DEF PoolStates
<1> HIDE DEF e, k
<1>8. pool' \in PoolStates /\ pool'.entry = e /\ pool'.mark = k /\ pool'.mine = pool.mine
  BY <1>5, <1>6, <1>7, PoolTyped DEF PoolStates
<1>9. boot' \in BootStates /\ boot'.pc = "close" /\ boot'.list = {} /\ boot'.todo = closes
  BY <1>1, <1>3, BootTyped DEF BootStates
<1>10. ChainGoesOn /\ ChainTyped' /\ chain' = chain /\ world' = world /\ life' = life
  BY <1>2, ChainStays DEF BootInv, chainVars
<1>11. TodoInv'
  <2>1. \A i \in 1 .. Len(closes) : chain[closes[i]] \in {"open", "closed"}
    <3>1. \A i \in 1 .. Len(closes) : closes[i] \in boot.list
      BY <1>3 DEF Among
    <3> QED BY <3>1, BootTyped DEF TodoInv
  <2> QED BY <1>3, <1>6, <1>8, <1>9, <1>10, <2>1 DEF TodoInv
<1>12. LeaseInv'
  <2>1. \A m \in Models : pool'.entry[m] \in Sessions => pool'.entry[m] \notin world.excluded
    BY <1>5, <1>8, BootTyped DEF LeaseInv
  <2>2. ASSUME NEW s \in Sessions, pool'.mark[s] = "now", Busy(s) PROVE ~Usable(s)
    <3>1. PICK r \in Requests : req[r].pc \in {"track", "use"} /\ req[r].at = s
      BY <2>2 DEF Busy
    <3>2. s \notin world.excluded
      BY <3>1, BootTyped DEF LeaseInv
    <3>3. boot.late
      BY <1>2, <3>1, BootTyped DEF GateInv
    <3> QED BY <1>3, <1>6, <1>8, <2>2, <3>2, <3>3
  <2>3. \A s \in Sessions : (Busy(s)' <=> Busy(s)) /\ (Usable(s)' <=> Usable(s))
    BY <1>2, <1>10 DEF Busy, Usable
  <2> QED BY <1>2, <1>8, <1>10, <2>1, <2>2, <2>3, BootTyped DEF LeaseInv
<1>13. GateInv'
  BY <1>2, <1>9 DEF GateInv
<1>14. SeenInv'
  BY <1>2, <1>10, SeenStays
<1>15. LineInv'
  BY <1>2, BootTyped DEF LineInv
<1>16. MemoryTyped'
  BY <1>2, <1>8, <1>9 DEF BootInv, MemoryTyped
<1> QED BY <1>10, <1>11, <1>12, <1>13, <1>14, <1>15, <1>16 DEF BootInv

LEMMA BootCloseInv ==
  ASSUME BootInv, BootClose
  PROVE  BootInv'
<1>1. boot.pc = "close" /\ UNCHANGED <<gate, known, line, skips, req, unseen>>
  BY DEF BootClose
<1>2. /\ ChainGoesOn /\ ChainTyped' /\ Shrinks(pool, pool')
      /\ boot' \in BootStates /\ boot'.pc \in {"close", "done"} /\ Once(boot'.todo)
      /\ (boot'.pc # "close" => boot'.todo = <<>>)
      /\ \A s \in Sessions : pool'.mark[s] = "now" => Among(s, boot'.todo)
      /\ \A s : Among(s, boot'.todo) => Among(s, boot.todo)
      /\ \A s \in boot'.list : s \in boot.list
  <2>1. CASE boot.todo = <<>> \/ CutPending \/ line # <<>>
    <3>1. pool' = Unmarked(pool, boot.todo) /\ boot' = DoneBoot /\ UNCHANGED chainVars
      BY <2>1 DEF BootClose
    <3> DEFINE k == [s \in Sessions |-> IF s \in Range(boot.todo) /\ pool.mark[s] = "now" THEN "none" ELSE pool.mark[s]]
    <3>2. k \in [Sessions -> {"none", "now", "cut"}]
      BY PoolTyped
    <3>3. \A s \in Sessions : k[s] # "now"
      <4>1. \A s \in Sessions : pool.mark[s] = "now" => s \in Range(boot.todo)
        BY BootTyped, RangeOf DEF TodoInv
      <4> QED BY <4>1
    <3>4. pool' = [pool EXCEPT !.mark = k]
      BY <3>1 DEF Unmarked
    <3> HIDE DEF k
    <3>5. Shrinks(pool, pool') /\ pool'.mark = k
      BY <3>2, <3>3, <3>4, PoolTyped DEF Shrinks, PoolStates
    <3>6. ChainGoesOn /\ ChainTyped'
      BY <3>1, ChainStays DEF BootInv
    <3> QED BY <3>1, <3>3, <3>5, <3>6, BootStart, EmptyOf
  <2>2. CASE ~(boot.todo = <<>> \/ CutPending \/ line # <<>>)
    <3>1. PICK out \in CloseOutcomes : CloseCall(Head(boot.todo), out, pool)
      BY <2>2 DEF BootClose
    <3>2. boot' = [boot EXCEPT !.todo = Tail(boot.todo)] /\ boot.todo # <<>>
      BY <2>2 DEF BootClose
    <3>3. Head(boot.todo) \in Sessions /\ Tail(boot.todo) \in Seq(Sessions) /\ Once(Tail(boot.todo))
          /\ \A x : Among(x, Tail(boot.todo)) <=> Among(x, boot.todo) /\ x # Head(boot.todo)
      BY <3>2, BootTyped, TailKept DEF TodoInv
    <3>4. PICK h \in Sessions : h = Head(boot.todo)
      BY <3>3
    <3>5. /\ Shrinks(pool, pool') /\ pool'.mark[h] # "now" /\ ChainGoesOn /\ ChainTyped'
      BY <3>1, <3>4, CloseCallKept, PoolTyped DEF BootInv
    <3>6. boot' \in BootStates /\ boot'.pc = "close" /\ boot'.list = boot.list /\ boot'.todo = Tail(boot.todo)
      BY <1>1, <3>2, <3>3, BootTyped DEF BootStates
    <3>7. \A s \in Sessions : pool'.mark[s] = "now" => Among(s, boot'.todo)
      BY <3>3, <3>4, <3>5, <3>6, BootTyped DEF Shrinks, TodoInv
    <3> QED BY <3>3, <3>5, <3>6, <3>7
  <2> QED BY <2>1, <2>2
<1>3. TodoInv'
  <2>1. \A i \in 1 .. Len(boot'.todo) : boot'.todo[i] \in Sessions /\ chain[boot'.todo[i]] \in {"open", "closed"}
    <3>1. boot'.todo \in Seq(Sessions)
      BY <1>2 DEF BootStates
    <3>2. ASSUME NEW i \in 1 .. Len(boot'.todo) PROVE chain[boot'.todo[i]] \in {"open", "closed"}
      <4>1. Among(boot'.todo[i], boot.todo)
        BY <1>2, <3>2 DEF Among
      <4> QED BY <4>1, BootTyped DEF Among, TodoInv
    <3> QED BY <3>1, <3>2
  <2>2. \A s \in boot'.list : s \in Sessions /\ chain[s] \in {"open", "closed"}
    BY <1>2, BootTyped DEF TodoInv
  <2> QED BY <1>2, <2>1, <2>2 DEF TodoInv, ChainGoesOn
<1>4. GateInv'
  BY <1>1, <1>2, BootTyped DEF GateInv, Shrinks
<1>5. LeaseInv'
  <2>1. \A r \in Requests : req'[r].pc \in {"track", "use"} => req[r].pc \in {"track", "use"} /\ req'[r].at = req[r].at
    BY <1>1
  <2> QED BY <1>2, <2>1, LeaseStays DEF Shrinks
<1>6. SeenInv'
  BY <1>1, <1>2, SeenStays
<1>7. LineInv'
  BY <1>1, BootTyped DEF LineInv
<1>8. MemoryTyped'
  BY <1>1, <1>2 DEF BootInv, MemoryTyped, Shrinks
<1> QED BY <1>2, <1>3, <1>4, <1>5, <1>6, <1>7, <1>8 DEF BootInv

\* A new process, over whatever is on chain.
FreshBoot ==
    /\ ChainTyped
    /\ pool = NewPool /\ boot = NewBoot /\ gate = TRUE /\ known = FALSE /\ unseen = LeftOver
    /\ line = <<>> /\ skips = 0 /\ req = [r \in Requests |-> IdleReq]

LEMMA BootFresh == FreshBoot => BootInv
<1> SUFFICES ASSUME FreshBoot PROVE BootInv
  OBVIOUS
<1> USE DEF FreshBoot
<1>1. pool \in PoolStates /\ (\A m \in Models : pool.entry[m] = NoSession) /\ (\A s \in Sessions : pool.mark[s] = "none")
      /\ pool.mine = {}
  <2>1. 0 \in 0 .. MaxCredits
    BY StoreAssumption
  <2> QED BY <2>1 DEF NewPool, PoolStates
<1>2. req \in [Requests -> ReqStates] /\ \A r \in Requests : req[r].pc = "idle"
  BY DEF IdleReq, ReqStates
<1>3. unseen \subseteq Sessions /\ \A s \in unseen : chain[s] = "open" /\ life[s] # "young"
  BY DEF LeftOver, Open
<1>4. boot \in BootStates /\ boot.todo = <<>> /\ boot.list = {} /\ boot.pc = "list" /\ boot.late = FALSE
  BY BootStart
<1>5. MemoryTyped
  <2>1. 0 \in 0 .. SweepMaxSkips
    BY BootAssumption
  <2>2. <<>> \in Seq(Requests \cup {"sweep"})
    BY EmptySeq
  <2> QED BY <1>1, <1>2, <1>3, <1>4, <2>1, <2>2 DEF MemoryTyped
<1>6. LineInv
  BY <1>2, EmptyOf DEF LineInv
<1>7. TodoInv
  <2>1. Len(<<>>) = 0
    OBVIOUS
  <2> QED BY <1>1, <1>4, <2>1, EmptyOf DEF TodoInv
<1>8. GateInv
  BY <1>1, <1>2, <1>4 DEF GateInv
<1>9. LeaseInv
  BY <1>1, <1>2, BootAssumption DEF LeaseInv
<1>10. SeenInv
  BY <1>3, <1>4 DEF SeenInv
<1> QED BY <1>5, <1>6, <1>7, <1>8, <1>9, <1>10 DEF BootInv

LEMMA BootFreshNext == FreshBoot' => BootInv'
BY BootFresh, PTL

LEMMA BootInitInv ==
  ASSUME BootInit
  PROVE  BootInv
<1>1. ChainTyped
  BY DEF BootInit, ChainTyped
<1> QED BY <1>1, BootFresh DEF BootInit, FreshBoot

LEMMA BootAgainInv ==
  ASSUME BootInv, BootAgain
  PROVE  BootInv'
<1>1. ChainTyped'
  BY ChainStays DEF BootAgain, BootInv
<1>2. unseen' = LeftOver'
  BY DEF BootAgain, LeftOver, Open, chainVars
<1>3. FreshBoot'
  BY <1>1, <1>2 DEF BootAgain, FreshBoot
<1> QED BY <1>3, BootFreshNext

-----------------------------------------------------------------------------
\* Every step keeps the boot's invariant.

LEMMA SessionStepInv ==
  ASSUME BootInv, SessionStep
  PROVE  BootInv'
<1>1. CASE BootStep
  BY <1>1, BootListInv, BootApplyInv, BootCloseInv DEF BootStep, WithPool
<1>2. CASE Ticks
  BY <1>2, SweepTickInv DEF Ticks, WithPool
<1>3. ASSUME NEW r \in Requests, Arrives(r) PROVE BootInv'
  BY <1>3, ArriveInv DEF Arrives, WithPool
<1>4. ASSUME NEW r \in Requests, Enters(r) PROVE BootInv'
  BY <1>4, EnterInv DEF Enters, WithPool
<1>5. ASSUME NEW r \in Requests, Works(r) PROVE BootInv'
  BY <1>5, OpenBlindInv, ScanAndOpenInv, PostInv, DoneInv DEF Works, WithPool
<1>6. ASSUME NEW r \in Requests, Tracks(r) PROVE BootInv'
  BY <1>6, TrackInvBoot DEF Tracks
<1>7. ASSUME NEW works \in BOOLEAN, Sweeps(works) PROVE BootInv'
  BY <1>7, SweepHoldInv DEF Sweeps, WithPool
<1>8. ASSUME NEW s \in Sessions, Others(s) PROVE BootInv'
  BY <1>8, AdminCloseInv, IdleCloseInv, RehydrateInv DEF Others, WithPool
<1>9. ASSUME NEW s \in Sessions, Credits(s) PROVE BootInv'
  BY <1>9, CreditInv DEF Credits
<1>10. ASSUME NEW s \in Sessions, Lapses(s) PROVE BootInv'
  BY <1>10, MarkLapsesInv DEF Lapses, WithPool
<1>11. ASSUME NEW s \in Sessions, ChainMoves(s) PROVE BootInv'
  BY <1>11, LandsInv, AgeInv DEF ChainMoves
<1> QED BY <1>1, <1>2, <1>3, <1>4, <1>5, <1>6, <1>7, <1>8, <1>9, <1>10, <1>11 DEF SessionStep

LEMMA BootUnchanged ==
  ASSUME BootInv, UNCHANGED bootVars
  PROVE  BootInv'
<1>1. ChainGoesOn /\ ChainTyped'
  BY ChainStays DEF BootInv, bootVars
<1>2. PoolMoves
  BY <1>1, PoolTyped DEF Shrinks, PoolMoves, bootVars
<1> QED BY <1>2, PoolMovesStill DEF bootVars

LEMMA BootInvStep ==
  ASSUME BootInv, [Next]_vars
  PROVE  BootInv'
<1>1. CASE SessionStep
  BY <1>1, SessionStepInv
<1>2. CASE StoreStep
  BY <1>2, BootUnchanged DEF StoreStep
<1>3. CASE AuditStep
  BY <1>3, BootUnchanged DEF AuditStep
<1>4. CASE HouseStep
  BY <1>4, BootUnchanged DEF HouseStep, HouseDay, HouseTick, HouseUp, HouseWorks, InHouse
<1>5. CASE StartAgain
  BY <1>5, BootAgainInv DEF StartAgain
<1>6. CASE RestartRequested \/ StopSignal \/ DrainHearsStop \/ Exits
  BY <1>6, BootUnchanged DEF RestartRequested, StopSignal, DrainHearsStop, Exits, Held
<1>7. CASE Drained
  BY <1>7, DrainedInv
<1>8. CASE BootCancelled
  BY <1>8, BootCancelledInv
<1>9. ASSUME NEW s \in Sessions, ShutdownClose(s) PROVE BootInv'
  BY <1>9, ShutdownCloseInv
<1>10. CASE UNCHANGED vars
  BY <1>10, BootUnchanged DEF vars
<1> QED BY <1>1, <1>2, <1>3, <1>4, <1>5, <1>6, <1>7, <1>8, <1>9, <1>10 DEF Next, ProcessStep, Crash, Exec

\* The pool that a boot meets, its closes, gate, line and leases fit together,
\* whenever the process dies and starts again (reconcile.go, lease.go): the
\* invariant behind the theorems about boots below.
THEOREM BootInvHolds == Spec => []BootInv
<1>1. Init => BootInv
  BY BootInitInv DEF Init
<1> QED BY <1>1, BootInvStep, PTL DEF Spec

LEMMA BootInvTypes ==
  ASSUME BootInv
  PROVE  BootTypeOK /\ MarkHasOwner
<1>1. boot.todo \in Seq(Sessions) /\ Once(boot.todo) /\ line \in Seq(Requests \cup {"sweep"}) /\ Once(line)
  BY BootTyped DEF BootInv, MemoryTyped, TodoInv, LineInv
<1>2. Range(boot.todo) \subseteq Sessions /\ IsInjective(boot.todo)
  BY <1>1, RangeOf
<1>3. Range(line) \subseteq Requests \cup {"sweep"} /\ IsInjective(line)
  BY <1>1, RangeOf
<1>4. MarkHasOwner
  BY <1>1, BootTyped, RangeOf DEF TodoInv, MarkHasOwner
<1>5. boot.pc \in {"list", "apply", "close", "done"} /\ skips \in 0 .. SweepMaxSkips
  BY DEF BootInv, MemoryTyped, BootStates
<1>6. \A s \in Sessions : /\ chain[s] \in {"none", "sent", "open", "closed"}
                          /\ life[s] \in {"young", "old", "ended"}
                          /\ pool.mark[s] \in {"none", "now", "cut"}
  BY PoolTyped DEF BootInv, ChainTyped
<1> QED BY <1>2, <1>3, <1>4, <1>5, <1>6, PoolTyped DEF BootTypeOK

\* The process is sound for any sessions, worlds, requests and bounds: a
\* session that the boot marks, so that no request and no sweep takes it, is
\* one the boot will close or give back (runCloses, unmark), whatever closes
\* fail, are cut or come from elsewhere and however often the process
\* restarts; and a stop signal ends the process (drainThenDecide).
THEOREM ProcessIsSound == Spec => []ProcessSound
<1>1. HouseInv => HouseTypeOK
  BY DEF HouseInv, HouseTypeOK, Passes
<1>2. BootInv /\ HouseInv /\ StopHonoured => ProcessSound
  BY <1>1, BootInvTypes DEF ProcessSound
<1> QED BY <1>2, BootInvHolds, HouseInvHolds, StopIsHonoured, PTL

-----------------------------------------------------------------------------
\* Opens and leases.

\* An open that is about to be posted knows the wallet.
LEMMA PostedKnown ==
  ASSUME BootInv, [Next]_vars, NEW r \in Requests, req[r].pc = "line", req'[r].pc = "post"
  PROVE  known' = TRUE /\ chain' = chain
<1>1. ASSUME NEW q \in Requests, NEW pc \in {"idle", "wait", "line", "track", "use"},
             NEW s \in Sessions \cup {NoSession}, Goes(q, pc, s)
      PROVE  FALSE
  BY <1>1, GoesKept
<1>2. CASE req' = req
  BY <1>2
<1>3. ASSUME NEW q \in Requests, Arrive(q) \/ Enter(q) \/ Done(q) PROVE FALSE
  <2>1. pool.entry[Model] \in Sessions \cup {NoSession}
    BY PoolTyped
  <2> QED BY <1>1, <1>3, <2>1 DEF Arrive, Enter, Done
<1>4. ASSUME NEW q \in Requests, NEW k, Track(q, k) PROVE FALSE
  <2>1. req[q].at \in Sessions \cup {NoSession}
    BY DEF BootInv, MemoryTyped, ReqStates
  <2> QED BY <1>1, <1>4, <2>1 DEF Track
<1>5. ASSUME NEW q \in Requests, Post(q) PROVE FALSE
  <2>1. \A s \in world.fresh : s \in Sessions
    BY WorldsAssumption DEF BootInv, ChainTyped
  <2> QED BY <1>1, <1>5, <2>1 DEF Post
<1>6. ASSUME NEW q \in Requests, OpenBlind(q) PROVE known' = TRUE /\ chain' = chain
  <2>1. MayOpenBlind
    BY <1>1, <1>6 DEF OpenBlind
  <2> QED BY <1>6, <2>1 DEF OpenBlind, MayOpenBlind, chainVars, BootInv, MemoryTyped
<1>7. ASSUME NEW q \in Requests, ScanAndOpen(q) PROVE known' = TRUE /\ chain' = chain
  <2>1. PICK L \in Lists :
          LET first == Servable(Model, pool)
              p == IF first THEN pool ELSE Scanned(L).pool
          IN  /\ known' = (known \/ ~first)
              /\ IF Servable(Model, p) THEN Goes(q, "use", p.entry[Model]) ELSE Goes(q, "post", NoSession)
    BY <1>7 DEF ScanAndOpen
  <2>2. ASSUME Servable(Model, pool) PROVE FALSE
    <3>1. Goes(q, "use", pool.entry[Model]) /\ pool.entry[Model] \in Sessions \cup {NoSession}
      BY <2>1, <2>2, PoolTyped
    <3> QED BY <1>1, <3>1
  <2> QED BY <1>7, <2>1, <2>2 DEF ScanAndOpen, chainVars
<1>8. CASE SessionStep
  <2>1. CASE BootStep \/ Ticks
    BY <1>2, <2>1 DEF BootStep, Ticks, WithPool, BootList, BootApply, BootClose, SweepTick
  <2>2. ASSUME NEW works \in BOOLEAN, Sweeps(works) PROVE known' = TRUE /\ chain' = chain
    BY <1>2, <2>2 DEF Sweeps, WithPool, SweepHold
  <2>3. ASSUME NEW s \in Sessions, Others(s) \/ Credits(s) \/ Lapses(s) \/ ChainMoves(s)
        PROVE  known' = TRUE /\ chain' = chain
    BY <1>2, <2>3 DEF Others, Credits, Lapses, ChainMoves, WithPool, AdminClose, IdleClose, Rehydrate, Credit,
                      MarkLapses, Lands, Age
  <2>4. ASSUME NEW q \in Requests, Arrives(q) \/ Enters(q) \/ Works(q) \/ Tracks(q)
        PROVE  known' = TRUE /\ chain' = chain
    BY <1>3, <1>4, <1>5, <1>6, <1>7, <2>4 DEF Arrives, Enters, Works, Tracks, WithPool
  <2> QED BY <1>8, <2>1, <2>2, <2>3, <2>4 DEF SessionStep
<1>9. CASE StoreStep \/ AuditStep \/ HouseStep
  BY <1>2, <1>9 DEF StoreStep, AuditStep, HouseStep, HouseDay, HouseTick, HouseUp, HouseWorks, InHouse, bootVars
<1>10. CASE StartAgain
  BY <1>10 DEF StartAgain, BootAgain, IdleReq
<1>11. CASE RestartRequested \/ StopSignal \/ DrainHearsStop \/ Exits \/ Drained \/ BootCancelled
            \/ \E s \in Sessions : ShutdownClose(s)
  BY <1>2, <1>11 DEF RestartRequested, StopSignal, DrainHearsStop, Exits, Held, Drained, BootCancelled,
                     ShutdownClose, bootVars
<1>12. CASE UNCHANGED vars
  BY <1>2, <1>12 DEF vars, bootVars
<1> QED BY <1>8, <1>9, <1>10, <1>11, <1>12 DEF Next, ProcessStep, Crash, Exec

\* The scan before an open adopts what there is to adopt.
LEMMA ScanAdopts ==
  ASSUME BootInv, NEW r \in Requests, ScanAndOpen(r), req'[r].pc = "post",
         pool.entry[Model] # NoSession => pool.mark[pool.entry[Model]] # "cut",
         NEW s \in Sessions, Adoptable(s)
  PROVE  FALSE
<1>1. PICK L \in Lists :
        LET first == Servable(Model, pool)
            p == IF first THEN pool ELSE Scanned(L).pool
        IN  IF Servable(Model, p) THEN Goes(r, "use", p.entry[Model]) ELSE Goes(r, "post", NoSession)
  BY DEF ScanAndOpen
<1>2. ASSUME NEW t \in Sessions \cup {NoSession}, Goes(r, "use", t) PROVE FALSE
  BY <1>2, GoesKept
<1>3. ~Servable(Model, pool)
  <2>1. ASSUME Servable(Model, pool) PROVE Goes(r, "use", pool.entry[Model])
    BY <1>1, <2>1
  <2> QED BY <1>2, <2>1, PoolTyped
<1>4. s \in L
  BY DEF Adoptable, Lists, Open
<1>5. PICK q : q = Scanned(L).pool
  OBVIOUS
<1>6. q \in PoolStates /\ Servable(Model, q)
  BY <1>3, <1>4, <1>5, ScannedKept
<1>7. q.entry[Model] \in Sessions \cup {NoSession}
  BY <1>6, PoolTyped DEF PoolStates
<1>8. Goes(r, "use", q.entry[Model])
  BY <1>1, <1>3, <1>5, <1>6
<1> QED BY <1>2, <1>7, <1>8

\* No stake is locked for an open while a session from before the restart
\* serves the model (waitGate, stateKnown, applyScan): for any number of
\* requests, sessions and restarts, an open is posted only once a list has
\* shown every left-over session, and its own scan has adopted what it could.
THEOREM NoOpenIsNeedless == Spec => NoNeedlessOpen
<1>1. ASSUME BootInv, BootInv', [Next]_vars, NEW r \in Requests, req[r].pc = "line", req'[r].pc = "post",
             NEW s \in unseen'
      PROVE  chain[s] # "open"
  <2>1. known' = TRUE /\ chain' = chain
    BY <1>1, PostedKnown
  <2>2. SeenInv'
    BY <1>1 DEF BootInv
  <2>3. chain'[s] = "closed"
    BY <1>1, <2>1, <2>2 DEF SeenInv
  <2> QED BY <2>1, <2>3
<1>2. BootInv /\ BootInv' /\ [Next]_vars =>
        [\A r \in Requests :
           /\ req[r].pc = "line" /\ req'[r].pc = "post" => \A s \in unseen' : chain[s] # "open" \/ ModelOf(s) # Model
           /\ ScanAndOpen(r) /\ req'[r].pc = "post"
              /\ (pool.entry[Model] # NoSession => pool.mark[pool.entry[Model]] # "cut") =>
                \A s \in Sessions : ~Adoptable(s)]_bootVars
  BY <1>1, ScanAdopts
<1> QED BY <1>2, BootInvHolds, PTL DEF Spec, NoNeedlessOpen

\* The boot closes no session under a request that uses it, unless it is at
\* its end: a late pass closes what no lease can be on, one in time works
\* behind the gate, and its marks keep new leases away (PlanReconcile,
\* runCloses).
THEOREM BootClosesSpareLeases == Spec => BootSparesLeases
<1>1. BootInv =>
        [boot.pc = "close" /\ boot'.todo # boot.todo =>
           \A s \in Sessions : chain'[s] # chain[s] /\ Busy(s) /\ pool.mark[s] = "now" => ~Usable(s)]_bootVars
  BY DEF BootInv, LeaseInv
<1> QED BY <1>1, BootInvHolds, PTL DEF BootSparesLeases

-----------------------------------------------------------------------------
\* The store: keys and the setting.

LEMMA SaveKept ==
  ASSUME KeysInv, NEW st \in StoreState, NEW ok \in BOOLEAN, Save(st, ok)
  PROVE  /\ mem' = st /\ file' = IF ok THEN st ELSE file
         /\ {mem', file'} \subseteq StoreState /\ shaky' \subseteq Keys
         /\ \A k \in Keys : k \in shaky' <=> /\ k \in shaky \/ (st.keys[k] = "revoked" /\ mem.keys[k] = "active")
                                             /\ ~(ok /\ st.keys[k] = "revoked")
BY DEF Save, KeysInv, StoreTypeOK

LEMMA StoreTyped ==
  ASSUME KeysInv
  PROVE  /\ mem \in StoreState /\ file \in StoreState
         /\ mem.keys \in [Keys -> {"none", "active", "revoked"}] /\ mem.setting \in Values
         /\ mem.opener \in [Sessions -> Rows] /\ mem.credit \in [Sessions -> [Rows -> 0 .. MaxCredits]]
         /\ told \in [keys : [Keys -> {"none", "active", "revoked"}], setting : Values]
         /\ told.keys \in [Keys -> {"none", "active", "revoked"}]
         /\ ToldIsDurable /\ FileBehind
BY DEF KeysInv, StoreTypeOK, StoreState

\* A save that leaves the keys and the setting alone, and tells nobody.
LEMMA SaveQuietlyKeys ==
  ASSUME KeysInv, NEW st \in StoreState, NEW ok \in BOOLEAN, SaveQuietly(st, ok),
         st.keys = mem.keys, st.setting = mem.setting
  PROVE  KeysInv'
<1>1. /\ mem' = st /\ file' = IF ok THEN st ELSE file
      /\ {mem', file'} \subseteq StoreState /\ shaky' \subseteq Keys
      /\ \A k \in Keys : k \in shaky' <=> /\ k \in shaky \/ (st.keys[k] = "revoked" /\ mem.keys[k] = "active")
                                          /\ ~(ok /\ st.keys[k] = "revoked")
  BY SaveKept DEF SaveQuietly
<1>2. told' = told
  BY DEF SaveQuietly
<1>3. FileBehind'
  BY <1>1, StoreTyped DEF FileBehind
<1>4. ToldIsDurable'
  BY <1>1, <1>2, StoreTyped DEF FileBehind, ToldIsDurable
<1> QED BY <1>1, <1>2, <1>3, <1>4, StoreTyped DEF KeysInv, StoreTypeOK

LEMMA KeyOfStateKept ==
  ASSUME KeysInv, NEW k \in Keys, NEW v \in {"none", "active", "revoked"}
  PROVE  /\ [mem EXCEPT !.keys[k] = v] \in StoreState
         /\ [mem EXCEPT !.keys[k] = v].keys = [mem.keys EXCEPT ![k] = v]
         /\ [mem EXCEPT !.keys[k] = v].setting = mem.setting
         /\ [mem EXCEPT !.keys[k] = v].opener = mem.opener
         /\ [mem EXCEPT !.keys[k] = v].credit = mem.credit
<1> DEFINE ks == [mem.keys EXCEPT ![k] = v]
<1>1. ks \in [Keys -> {"none", "active", "revoked"}]
  BY StoreTyped
<1>2. [mem EXCEPT !.keys[k] = v] = [mem EXCEPT !.keys = ks]
  OBVIOUS
<1> HIDE DEF ks
<1>3. [mem EXCEPT !.keys = ks] \in StoreState /\ [mem EXCEPT !.keys = ks].keys = ks
      /\ [mem EXCEPT !.keys = ks].setting = mem.setting
      /\ [mem EXCEPT !.keys = ks].opener = mem.opener
      /\ [mem EXCEPT !.keys = ks].credit = mem.credit
  BY <1>1, StoreTyped DEF StoreState
<1> QED BY <1>2, <1>3 DEF ks

LEMMA ToldKey ==
  ASSUME KeysInv, NEW k \in Keys, NEW v \in {"none", "active", "revoked"}
  PROVE  /\ [told EXCEPT !.keys[k] = v] \in [keys : [Keys -> {"none", "active", "revoked"}], setting : Values]
         /\ [told EXCEPT !.keys[k] = v].setting = told.setting
         /\ [told EXCEPT !.keys[k] = v].keys = [told.keys EXCEPT ![k] = v]
BY StoreTyped

LEMMA AddKeyKeys ==
  ASSUME KeysInv, NEW k \in Keys, NEW ok \in BOOLEAN, AddKey(k, ok)
  PROVE  KeysInv' /\ mem'.opener = mem.opener /\ mem'.credit = mem.credit /\ file' \in {mem', file}
<1>1. PICK st \in StoreState : /\ st = [mem EXCEPT !.keys[k] = "active"]
                               /\ st.keys = [mem.keys EXCEPT ![k] = "active"] /\ st.setting = mem.setting
                               /\ st.opener = mem.opener /\ st.credit = mem.credit
  BY KeyOfStateKept
<1>2. /\ mem' = st /\ file' = IF ok THEN st ELSE file
      /\ {mem', file'} \subseteq StoreState /\ shaky' \subseteq Keys
      /\ \A x \in Keys : x \in shaky' <=> /\ x \in shaky \/ (st.keys[x] = "revoked" /\ mem.keys[x] = "active")
                                          /\ ~(ok /\ st.keys[x] = "revoked")
  BY <1>1, SaveKept DEF AddKey
<1>3. /\ told' \in [keys : [Keys -> {"none", "active", "revoked"}], setting : Values]
      /\ told'.setting = told.setting
      /\ \A x \in Keys : told'.keys[x] = IF x = k /\ ok /\ told.keys[k] # "revoked" THEN "active" ELSE told.keys[x]
  <2>1. CASE ok /\ told.keys[k] # "revoked"
    BY <2>1, ToldKey, StoreTyped DEF AddKey
  <2>2. CASE ~(ok /\ told.keys[k] # "revoked")
    BY <2>2, StoreTyped DEF AddKey
  <2> QED BY <2>1, <2>2
<1>4. mem.keys[k] = "none" /\ mem.keys \in [Keys -> {"none", "active", "revoked"}]
  BY StoreTyped DEF AddKey
<1>5. FileBehind'
  BY <1>1, <1>2, <1>4, StoreTyped DEF FileBehind
<1>6. ToldIsDurable'
  BY <1>1, <1>2, <1>3, <1>4, StoreTyped DEF FileBehind, ToldIsDurable
<1> QED BY <1>1, <1>2, <1>3, <1>5, <1>6 DEF KeysInv, StoreTypeOK

LEMMA RevokeKeyKeys ==
  ASSUME KeysInv, NEW k \in Keys, NEW ok \in BOOLEAN, RevokeKey(k, ok)
  PROVE  KeysInv' /\ mem'.opener = mem.opener /\ mem'.credit = mem.credit /\ file' \in {mem', file}
<1>1. CASE /\ mem.keys[k] = "active"
           /\ Save([mem EXCEPT !.keys[k] = "revoked"], ok)
           /\ told' = IF ok THEN [told EXCEPT !.keys[k] = "revoked"] ELSE told
  <2>1. PICK st \in StoreState : /\ st = [mem EXCEPT !.keys[k] = "revoked"]
                                 /\ st.keys = [mem.keys EXCEPT ![k] = "revoked"] /\ st.setting = mem.setting
                                 /\ st.opener = mem.opener /\ st.credit = mem.credit
    BY KeyOfStateKept
  <2>2. /\ mem' = st /\ file' = IF ok THEN st ELSE file
        /\ {mem', file'} \subseteq StoreState /\ shaky' \subseteq Keys
        /\ \A x \in Keys : x \in shaky' <=> /\ x \in shaky \/ (st.keys[x] = "revoked" /\ mem.keys[x] = "active")
                                            /\ ~(ok /\ st.keys[x] = "revoked")
    BY <1>1, <2>1, SaveKept
  <2>3. /\ told' \in [keys : [Keys -> {"none", "active", "revoked"}], setting : Values]
        /\ told'.setting = told.setting
        /\ \A x \in Keys : told'.keys[x] = IF x = k /\ ok THEN "revoked" ELSE told.keys[x]
    BY <1>1, ToldKey, StoreTyped
  <2>4. mem.keys \in [Keys -> {"none", "active", "revoked"}]
    BY StoreTyped
  <2>5. FileBehind'
    BY <1>1, <2>1, <2>2, <2>4, StoreTyped DEF FileBehind
  <2>6. ToldIsDurable'
    BY <1>1, <2>1, <2>2, <2>3, <2>4, StoreTyped DEF FileBehind, ToldIsDurable
  <2> QED BY <2>1, <2>2, <2>3, <2>5, <2>6 DEF KeysInv, StoreTypeOK
<1>2. CASE mem.keys[k] = "revoked" /\ told' = [told EXCEPT !.keys[k] = "revoked"] /\ UNCHANGED <<mem, file, shaky>>
  <2>1. /\ told' \in [keys : [Keys -> {"none", "active", "revoked"}], setting : Values]
        /\ told'.setting = told.setting
        /\ \A x \in Keys : told'.keys[x] = IF x = k THEN "revoked" ELSE told.keys[x]
    BY <1>2, ToldKey, StoreTyped
  <2>2. ToldIsDurable' /\ FileBehind'
    BY <1>2, <2>1, StoreTyped DEF ToldIsDurable, FileBehind
  <2> QED BY <1>2, <2>1, <2>2 DEF KeysInv, StoreTypeOK
<1> QED BY <1>1, <1>2 DEF RevokeKey

LEMMA UpdateSettingsKeys ==
  ASSUME KeysInv, NEW v \in Values, NEW ok \in BOOLEAN, UpdateSettings(v, ok)
  PROVE  KeysInv' /\ mem'.opener = mem.opener /\ mem'.credit = mem.credit /\ file' \in {mem', file}
<1>1. CASE ok
  <2>1. PICK st \in StoreState : /\ st = [mem EXCEPT !.setting = v]
                                 /\ st.keys = mem.keys /\ st.setting = v
                                 /\ st.opener = mem.opener /\ st.credit = mem.credit
    <3>1. [mem EXCEPT !.setting = v] \in StoreState
      BY StoreTyped DEF StoreState
    <3>2. PICK st : st = [mem EXCEPT !.setting = v]
      OBVIOUS
    <3>3. st.keys = mem.keys /\ st.setting = v /\ st.opener = mem.opener /\ st.credit = mem.credit
      BY <3>2, StoreTyped DEF StoreState
    <3> QED BY <3>1, <3>2, <3>3
  <2>2. /\ mem' = st /\ file' = st
        /\ {mem', file'} \subseteq StoreState /\ shaky' \subseteq Keys
        /\ \A x \in Keys : x \in shaky' <=> /\ x \in shaky \/ (st.keys[x] = "revoked" /\ mem.keys[x] = "active")
                                            /\ st.keys[x] # "revoked"
    <3>1. Save(st, TRUE) /\ TRUE \in BOOLEAN
      BY <1>1, <2>1 DEF UpdateSettings
    <3> QED BY <3>1 DEF Save, KeysInv, StoreTypeOK
  <2>3. told' = [told EXCEPT !.setting = v]
    BY <1>1 DEF UpdateSettings
  <2>4. /\ told' \in [keys : [Keys -> {"none", "active", "revoked"}], setting : Values]
        /\ told'.setting = v /\ told'.keys = told.keys
    BY <2>3, StoreTyped
  <2>5. FileBehind'
    BY <2>1, <2>2, StoreTyped DEF FileBehind
  <2>6. ToldIsDurable'
    BY <2>1, <2>2, <2>4, StoreTyped DEF FileBehind, ToldIsDurable
  <2> QED BY <2>1, <2>2, <2>4, <2>5, <2>6 DEF KeysInv, StoreTypeOK
<1>2. CASE ~ok
  BY <1>2 DEF UpdateSettings, KeysInv, StoreTypeOK, ToldIsDurable, FileBehind
<1> QED BY <1>1, <1>2

LEMMA StoreBootKeys ==
  ASSUME KeysInv, StoreBoot
  PROVE  KeysInv'
BY StoreTyped DEF StoreBoot, KeysInv, StoreTypeOK, ToldIsDurable, FileBehind

LEMMA StoreInitKeys ==
  ASSUME StoreInit
  PROVE  KeysInv /\ KeyCreditedOnce /\ \A s \in Sessions : Untouched(mem, s) /\ Untouched(file, s)
<1>1. (CHOOSE v \in Values : TRUE) \in Values /\ 0 \in 0 .. MaxCredits /\ Unknown \in Rows /\ Keys \subseteq Rows
  BY StoreAssumption DEF Rows
<1>2. mem \in StoreState
  BY <1>1 DEF StoreInit, StoreState
<1>3. told \in [keys : [Keys -> {"none", "active", "revoked"}], setting : Values] /\ told.keys = mem.keys
      /\ told.setting = mem.setting /\ file = mem /\ shaky = {}
  BY <1>2 DEF StoreInit, StoreState
<1>4. /\ \A k \in Keys : mem.keys[k] = "none"
      /\ \A s \in Sessions : mem.opener[s] = Unknown /\ \A k \in Keys : mem.credit[s][k] = 0
  BY <1>1 DEF StoreInit
<1>5. KeysInv
  BY <1>2, <1>3, <1>4 DEF KeysInv, StoreTypeOK, ToldIsDurable, FileBehind
<1>6. KeyCreditedOnce
  BY <1>3, <1>4 DEF KeyCreditedOnce
<1> QED BY <1>3, <1>4, <1>5, <1>6 DEF Untouched

-----------------------------------------------------------------------------
\* The store: who is credited.

StoreInv == KeysInv /\ KeyCreditedOnce /\ TrackInv

\* The file is memory, or what it was.
LEMMA CreditedSaved ==
  ASSUME KeyCreditedOnce, NEW st, mem' = st, file' \in {st, file},
         \A s \in Sessions : \A k \in Keys : st.credit[s][k] > 0 =>
           /\ st.credit[s][k] = 1 /\ st.opener[s] \notin Keys
           /\ \A l \in Keys \ {k} : st.credit[s][l] = 0
  PROVE  KeyCreditedOnce'
BY DEF KeyCreditedOnce

LEMMA KeysStepCredits ==
  ASSUME KeyCreditedOnce, mem'.opener = mem.opener, mem'.credit = mem.credit, file' \in {mem', file}
  PROVE  KeyCreditedOnce' /\ \A s \in Sessions : Untouched(mem, s) /\ Untouched(file, s) =>
                                                 Untouched(mem', s) /\ Untouched(file', s)
BY DEF KeyCreditedOnce, Untouched

\* What was not opened yet, or is not tracked yet, stays as it is.
LEMMA TrackStays ==
  ASSUME BootInv, TrackInv,
         \A s \in Sessions : Untouched(mem, s) /\ Untouched(file, s) => Untouched(mem', s) /\ Untouched(file', s),
         \A s \in Sessions : chain[s] # "none" => chain'[s] # "none",
         \A r \in Requests : req'[r].pc = "track" => req[r].pc = "track" /\ req'[r].at = req[r].at
  PROVE  TrackInv'
<1>1. \A r \in Requests : req[r].pc = "track" => req[r].at \in Sessions
  BY DEF BootInv, LeaseInv
<1>2. \A s \in Sessions : chain'[s] = "none" => Untouched(mem', s) /\ Untouched(file', s)
  BY DEF TrackInv
<1>3. \A r \in Requests : req'[r].pc = "track" => Untouched(mem', req'[r].at) /\ Untouched(file', req'[r].at) /\ chain'[req'[r].at] # "none"
  BY <1>1 DEF TrackInv
<1>4. \A r, q \in Requests : req'[r].pc = "track" /\ req'[q].pc = "track" /\ req'[q].at = req'[r].at => q = r
  BY DEF TrackInv
<1> QED BY <1>2, <1>3, <1>4 DEF TrackInv, Untouched

\* TrackSessionOpen, by the one request that opened the session.
LEMMA TracksStore ==
  ASSUME BootInv, StoreInv, NEW r \in Requests, NEW k \in Keys, Track(r, k)
  PROVE  StoreInv'
<1>1. req[r].pc = "track" /\ Goes(r, "use", req[r].at) /\ chain' = chain
  BY DEF Track, chainVars
<1>2. PICK s \in Sessions : s = req[r].at
  BY <1>1 DEF BootInv, LeaseInv
<1>3. PICK ok \in BOOLEAN : TrackSessionOpen(s, k, ok)
  BY <1>2 DEF Track
<1> DEFINE o == [mem.opener EXCEPT ![s] = k]
           st == [mem EXCEPT !.opener[s] = k]
<1>4. o \in [Sessions -> Rows] /\ o[s] = k /\ \A t \in Sessions \ {s} : o[t] = mem.opener[t]
  BY StoreTyped DEF StoreInv, Rows
<1>5. st = [mem EXCEPT !.opener = o]
  OBVIOUS
<1> HIDE DEF o, st
<1>6. st \in StoreState /\ st.opener = o /\ st.credit = mem.credit /\ st.keys = mem.keys /\ st.setting = mem.setting
  BY <1>4, <1>5, StoreTyped DEF StoreInv, StoreState
<1>7. SaveQuietly(st, ok)
  BY <1>3 DEF TrackSessionOpen, st
<1>8. KeysInv'
  BY <1>6, <1>7, SaveQuietlyKeys DEF StoreInv
<1>9. mem' = st /\ file' \in {st, file}
  BY <1>7 DEF SaveQuietly, Save
<1>10. Untouched(mem, s) /\ Untouched(file, s) /\ chain[s] # "none"
       /\ \A q \in Requests : req[q].pc = "track" /\ req[q].at = s => q = r
  BY <1>1, <1>2 DEF StoreInv, TrackInv
<1>11. KeyCreditedOnce'
  <2>1. \A t \in Sessions : \A x \in Keys : st.credit[t][x] > 0 =>
           /\ st.credit[t][x] = 1 /\ st.opener[t] \notin Keys
           /\ \A l \in Keys \ {x} : st.credit[t][l] = 0
    <3>1. \A t \in Sessions \ {s} : \A x \in Keys : mem.credit[t][x] > 0 =>
             /\ mem.credit[t][x] = 1 /\ mem.opener[t] \notin Keys
             /\ \A l \in Keys \ {x} : mem.credit[t][l] = 0
      BY DEF StoreInv, KeyCreditedOnce
    <3>2. \A x \in Keys : mem.credit[s][x] = 0
      BY <1>10 DEF Untouched
    <3> QED BY <1>4, <1>6, <3>1, <3>2
  <2> HIDE DEF StoreInv
  <2> QED BY <1>9, <2>1, CreditedSaved DEF StoreInv
<1>12. TrackInv'
  <2>1. \A t \in Sessions \ {s} : Untouched(mem, t) /\ Untouched(file, t) => Untouched(mem', t) /\ Untouched(file', t)
    BY <1>4, <1>6, <1>9 DEF Untouched
  <2>2. req'[r].pc = "use" /\ \A q \in Requests \ {r} : req'[q] = req[q]
    BY <1>1, <1>2, GoesKept
  <2>3. \A q \in Requests : req'[q].pc = "track" => req[q].pc = "track" /\ req'[q].at = req[q].at /\ req[q].at \in Sessions \ {s}
    BY <1>2, <1>10, <2>2 DEF BootInv, LeaseInv
  <2>4. \A t \in Sessions : chain'[t] = "none" => t # s /\ Untouched(mem, t) /\ Untouched(file, t)
    BY <1>1, <1>10 DEF StoreInv, TrackInv
  <2>5. \A q \in Requests : req'[q].pc = "track" =>
          /\ Untouched(mem', req'[q].at) /\ Untouched(file', req'[q].at) /\ chain'[req'[q].at] # "none"
          /\ \A x \in Requests : req'[x].pc = "track" /\ req'[x].at = req'[q].at => x = q
    BY <1>1, <2>1, <2>3 DEF StoreInv, TrackInv
  <2>6. \A t \in Sessions : chain'[t] = "none" => Untouched(mem', t) /\ Untouched(file', t)
    BY <2>1, <2>4
  <2> QED BY <2>5, <2>6 DEF TrackInv, Untouched
<1> QED BY <1>8, <1>11, <1>12 DEF StoreInv

\* RecordSessionClose credits the key that opened the session, which has no
\* credit for it, and forgets it.
LEMMA CreditsStore ==
  ASSUME BootInv, StoreInv, NEW s \in Sessions, Credit(s)
  PROVE  StoreInv'
<1>1. req' = req /\ chain' = chain
  BY DEF Credit, chainVars
<1>2. CASE UNCHANGED storeVars
  <2>1. mem' = mem /\ file' = file /\ told' = told /\ shaky' = shaky
    BY <1>2 DEF storeVars
  <2>2. KeysInv' /\ KeyCreditedOnce'
    BY <2>1 DEF StoreInv, KeysInv, StoreTypeOK, ToldIsDurable, FileBehind, KeyCreditedOnce
  <2>3. TrackInv'
    BY <1>1, <2>1 DEF StoreInv, TrackInv, Untouched
  <2> QED BY <2>2, <2>3 DEF StoreInv
<1>3. ASSUME NEW ok \in BOOLEAN, RecordSessionClose(s, ok) PROVE StoreInv'
  <2> DEFINE w == mem.opener[s]
             n == IF mem.credit[s][w] < MaxCredits THEN mem.credit[s][w] + 1 ELSE mem.credit[s][w]
             c == [mem.credit EXCEPT ![s] = [mem.credit[s] EXCEPT ![w] = n]]
             o == [mem.opener EXCEPT ![s] = Unknown]
             st == [mem EXCEPT !.credit[s][mem.opener[s]] = IF @ < MaxCredits THEN @ + 1 ELSE @, !.opener[s] = Unknown]
  <2>1. w \in Rows /\ mem.credit[s] \in [Rows -> 0 .. MaxCredits] /\ MaxCredits \in Nat /\ MaxCredits > 0
    BY StoreTyped, StoreAssumption DEF StoreInv
  <2>2. n \in 0 .. MaxCredits /\ (mem.credit[s][w] = 0 => n = 1)
    BY <2>1
  <2>3. c \in [Sessions -> [Rows -> 0 .. MaxCredits]] /\ o \in [Sessions -> Rows]
    <3> HIDE DEF n, w
    <3>1. [mem.credit[s] EXCEPT ![w] = n] \in [Rows -> 0 .. MaxCredits] /\ Unknown \in Rows
      BY <2>1, <2>2 DEF Rows
    <3> QED BY <3>1, StoreTyped DEF StoreInv
  <2>4. st = [mem EXCEPT !.credit = c, !.opener = o]
    BY StoreTyped DEF StoreInv, StoreState
  <2>5. /\ \A t \in Sessions \ {s} : c[t] = mem.credit[t] /\ o[t] = mem.opener[t]
        /\ o[s] = Unknown /\ c[s][w] = n
        /\ \A x \in Rows \ {w} : c[s][x] = mem.credit[s][x]
    <3> HIDE DEF n, w
    <3> QED BY <2>1, StoreTyped DEF StoreInv
  <2>6. SaveQuietly(st, ok)
    BY <1>3 DEF RecordSessionClose
  <2> HIDE DEF c, o, st, n
  <2>7. st \in StoreState /\ st.opener = o /\ st.credit = c /\ st.keys = mem.keys /\ st.setting = mem.setting
    BY <2>3, <2>4, StoreTyped DEF StoreInv, StoreState
  <2>8. KeysInv'
    BY <2>6, <2>7, SaveQuietlyKeys DEF StoreInv
  <2>9. mem' = st /\ file' \in {st, file}
    BY <2>6 DEF SaveQuietly, Save
  <2>10. KeyCreditedOnce'
    <3>1. \A t \in Sessions : \A x \in Keys : mem.credit[t][x] > 0 =>
             /\ mem.credit[t][x] = 1 /\ mem.opener[t] \notin Keys
             /\ \A l \in Keys \ {x} : mem.credit[t][l] = 0
      BY DEF StoreInv, KeyCreditedOnce
    <3>2. \A t \in Sessions \ {s} : \A x \in Keys : st.credit[t][x] > 0 =>
             /\ st.credit[t][x] = 1 /\ st.opener[t] \notin Keys
             /\ \A l \in Keys \ {x} : st.credit[t][l] = 0
      BY <2>5, <2>7, <3>1
    <3>3. \A x \in Keys : st.credit[s][x] > 0 =>
             /\ st.credit[s][x] = 1 /\ st.opener[s] \notin Keys
             /\ \A l \in Keys \ {x} : st.credit[s][l] = 0
      <4>1. \A x \in Keys : x \in Rows /\ x # Unknown
        BY StoreAssumption DEF Rows
      <4>2. CASE w \in Keys
        <5>1. \A x \in Keys : mem.credit[s][x] = 0
          <6>1. \A x \in Keys : ~(mem.credit[s][x] > 0)
            BY <3>1, <4>2
          <6>2. \A x \in Keys : mem.credit[s][x] \in 0 .. MaxCredits
            BY <2>1, <4>1
          <6> QED BY <2>1, <6>1, <6>2
        <5>2. n = 1
          BY <2>2, <4>2, <5>1
        <5>3. \A x \in Keys \ {w} : c[s][x] = 0
          BY <2>5, <4>1, <5>1
        <5> HIDE DEF w
        <5> QED BY <2>5, <2>7, <4>1, <4>2, <5>2, <5>3, StoreAssumption
      <4>3. CASE w \notin Keys
        <5>1. \A x \in Keys : c[s][x] = mem.credit[s][x]
          BY <2>5, <4>1, <4>3
        <5>2. st.opener[s] \notin Keys
          BY <2>5, <2>7, StoreAssumption
        <5> HIDE DEF w
        <5> QED BY <2>7, <3>1, <5>1, <5>2
      <4> QED BY <4>2, <4>3
    <3>4. \A t \in Sessions : \A x \in Keys : st.credit[t][x] > 0 =>
             /\ st.credit[t][x] = 1 /\ st.opener[t] \notin Keys
             /\ \A l \in Keys \ {x} : st.credit[t][l] = 0
      BY <3>2, <3>3
    <3> QED BY <2>9, <3>4, CreditedSaved DEF StoreInv
  <2>11. TrackInv'
    <3>1. \A t \in Sessions \ {s} : Untouched(mem, t) => Untouched(st, t)
      BY <2>5, <2>7 DEF Untouched
    <3>2. Untouched(mem, s) => Untouched(st, s)
      <4>1. ASSUME Untouched(mem, s) PROVE Untouched(st, s)
        <5>1. w = Unknown /\ \A x \in Keys : x \in Rows \ {w}
          BY <4>1, StoreAssumption DEF Untouched, Rows
        <5> QED BY <2>5, <2>7, <4>1, <5>1 DEF Untouched
      <4> QED BY <4>1
    <3>3. \A t \in Sessions : Untouched(mem, t) /\ Untouched(file, t) => Untouched(mem', t) /\ Untouched(file', t)
      BY <2>9, <3>1, <3>2
    <3> QED BY <1>1, <3>3, TrackStays DEF StoreInv
  <2> QED BY <2>8, <2>10, <2>11 DEF StoreInv
<1> QED BY <1>2, <1>3 DEF Credit

\* A session the store has nothing of is opened, and will be tracked.
LEMMA PostStore ==
  ASSUME BootInv, StoreInv, NEW r \in Requests, Post(r), UNCHANGED storeVars
  PROVE  TrackInv'
<1>1. mem' = mem /\ file' = file /\ TrackInv
  BY DEF storeVars, StoreInv
<1>2. CASE Goes(r, "idle", NoSession) /\ chain' = chain
  <2>1. req'[r].pc = "idle" /\ \A q \in Requests \ {r} : req'[q] = req[q]
    BY <1>2, GoesKept
  <2>2. \A q \in Requests : req'[q].pc = "track" => req[q].pc = "track" /\ req'[q].at = req[q].at
    BY <2>1
  <2>3. \A t \in Sessions : Untouched(mem, t) /\ Untouched(file, t) => Untouched(mem', t) /\ Untouched(file', t)
    BY <1>1
  <2> QED BY <1>1, <1>2, <2>2, <2>3, TrackStays
<1>3. ASSUME NEW s \in {t \in world.fresh : chain[t] = "none"}, NEW landed \in BOOLEAN,
             chain' = [chain EXCEPT ![s] = IF landed THEN "open" ELSE "sent"],
             IF landed THEN Goes(r, IF Acts("credit") THEN "track" ELSE "use", s) ELSE Goes(r, "idle", NoSession)
      PROVE  TrackInv'
  <2>1. s \in Sessions /\ chain[s] = "none" /\ chain \in [Sessions -> {"none", "sent", "open", "closed"}]
    BY <1>3, WorldsAssumption DEF BootInv, ChainTyped
  <2>2. PICK pc \in {"track", "use", "idle"}, at \in {s, NoSession} : Goes(r, pc, at) /\ (pc = "track" => at = s)
    BY <1>3
  <2>3. req'[r].pc = pc /\ req'[r].at = at /\ \A q \in Requests \ {r} : req'[q] = req[q]
    BY <2>1, <2>2, GoesKept
  <2>4. chain'[s] # "none" /\ \A t \in Sessions \ {s} : chain'[t] = chain[t]
    BY <1>3, <2>1
  <2>5. Untouched(mem, s) /\ Untouched(file, s)
    BY <1>1, <2>1 DEF TrackInv
  <2>6. \A q \in Requests \ {r} : req'[q].pc = "track" => req[q].pc = "track" /\ req'[q].at \in Sessions \ {s}
                                                          /\ req'[q].at = req[q].at
    BY <1>1, <2>1, <2>3 DEF TrackInv, BootInv, LeaseInv
  <2>7. \A q \in Requests : req'[q].pc = "track" =>
          Untouched(mem, req'[q].at) /\ Untouched(file, req'[q].at) /\ chain'[req'[q].at] # "none"
    BY <1>1, <2>2, <2>3, <2>4, <2>5, <2>6 DEF TrackInv
  <2>8. \A q, x \in Requests : req'[q].pc = "track" /\ req'[x].pc = "track" /\ req'[x].at = req'[q].at => x = q
    BY <1>1, <2>2, <2>3, <2>6 DEF TrackInv
  <2>9. \A t \in Sessions : chain'[t] = "none" => Untouched(mem, t) /\ Untouched(file, t)
    BY <1>1, <2>1, <2>4 DEF TrackInv
  <2> QED BY <1>1, <2>7, <2>8, <2>9 DEF TrackInv, Untouched
<1> QED BY <1>2, <1>3 DEF Post

\* Only an open makes a request track, and what has been opened stays so.
LEMMA SessionStepTracks ==
  ASSUME BootInv, SessionStep, ~\E r \in Requests : Post(r)
  PROVE  /\ \A s \in Sessions : chain[s] # "none" => chain'[s] # "none"
         /\ \A r \in Requests : req'[r].pc = "track" => req[r].pc = "track" /\ req'[r].at = req[r].at
<1> DEFINE Goal == /\ \A s \in Sessions : chain[s] # "none" => chain'[s] # "none"
                   /\ \A r \in Requests : req'[r].pc = "track" => req[r].pc = "track" /\ req'[r].at = req[r].at
<1>1. ASSUME NEW q \in Requests, NEW pc \in {"idle", "wait", "line", "post", "use"},
             NEW s \in Sessions \cup {NoSession}, Goes(q, pc, s), UNCHANGED chainVars
      PROVE  Goal
  <2>1. req'[q].pc = pc /\ \A x \in Requests \ {q} : req'[x] = req[x]
    BY <1>1, GoesKept
  <2> QED BY <1>1, <2>1 DEF chainVars
<1>2. CASE req' = req /\ \A s \in Sessions : chain'[s] \in {chain[s], "open", "closed"}
  BY <1>2
<1>3. ASSUME NEW p, NEW s, NEW out, CloseCall(s, out, p)
      PROVE  \A t \in Sessions : chain'[t] \in {chain[t], "open", "closed"}
  BY <1>3 DEF CloseCall, BootInv, ChainTyped
<1>4. CASE BootStep \/ Ticks
  <2>1. \A t \in Sessions : chain'[t] \in {chain[t], "open", "closed"}
    BY <1>3, <1>4 DEF BootStep, Ticks, WithPool, BootList, BootApply, BootClose, SweepTick, chainVars
  <2>2. req' = req
    BY <1>4 DEF BootStep, Ticks, WithPool, BootList, BootApply, BootClose, SweepTick
  <2> QED BY <1>2, <2>1, <2>2
<1>5. ASSUME NEW works \in BOOLEAN, Sweeps(works) PROVE Goal
  <2>1. \A t \in Sessions : chain'[t] \in {chain[t], "open", "closed"}
    BY <1>3, <1>5 DEF Sweeps, WithPool, SweepHold, chainVars
  <2>2. req' = req
    BY <1>5 DEF Sweeps, WithPool, SweepHold
  <2> QED BY <1>2, <2>1, <2>2
<1>6. ASSUME NEW s \in Sessions, Others(s) PROVE Goal
  <2>1. \A t \in Sessions : chain'[t] \in {chain[t], "open", "closed"}
    BY <1>3, <1>6 DEF Others, WithPool, AdminClose, IdleClose, Rehydrate, chainVars
  <2>2. req' = req
    BY <1>6 DEF Others, WithPool, AdminClose, IdleClose, Rehydrate
  <2> QED BY <1>2, <2>1, <2>2
<1>7. ASSUME NEW s \in Sessions, Credits(s) \/ Lapses(s) \/ ChainMoves(s) PROVE Goal
  <2>1. \A t \in Sessions : chain'[t] \in {chain[t], "open", "closed"}
    BY <1>7 DEF Credits, Lapses, ChainMoves, WithPool, Credit, MarkLapses, Lands, Age, chainVars, BootInv, ChainTyped
  <2>2. req' = req
    BY <1>7 DEF Credits, Lapses, ChainMoves, WithPool, Credit, MarkLapses, Lands, Age
  <2> QED BY <1>2, <2>1, <2>2
<1>8. ASSUME NEW q \in Requests, Arrive(q) \/ Enter(q) \/ OpenBlind(q) \/ Done(q) PROVE Goal
  <2>1. pool.entry[Model] \in Sessions \cup {NoSession}
    BY PoolTyped
  <2>2. PICK pc \in {"idle", "wait", "line", "post", "use"}, s \in Sessions \cup {NoSession} : Goes(q, pc, s)
    BY <1>8, <2>1 DEF Arrive, Enter, OpenBlind, Done
  <2>3. UNCHANGED chainVars
    BY <1>8 DEF Arrive, Enter, OpenBlind, Done
  <2> QED BY <1>1, <2>2, <2>3
<1>9. ASSUME NEW q \in Requests, NEW k, Track(q, k) PROVE Goal
  <2>1. req[q].at \in Sessions \cup {NoSession}
    BY DEF BootInv, MemoryTyped, ReqStates
  <2> QED BY <1>1, <1>9, <2>1 DEF Track
<1>10. ASSUME NEW q \in Requests, ScanAndOpen(q) PROVE Goal
  <2>1. PICK L \in Lists :
          LET p == IF Servable(Model, pool) THEN pool ELSE Scanned(L).pool
          IN  IF Servable(Model, p) THEN Goes(q, "use", p.entry[Model]) ELSE Goes(q, "post", NoSession)
    BY <1>10 DEF ScanAndOpen
  <2>2. PICK p : p = IF Servable(Model, pool) THEN pool ELSE Scanned(L).pool
    OBVIOUS
  <2>3. p \in PoolStates
    BY <2>2, PoolTyped, ScannedKept
  <2>4. p.entry[Model] \in Sessions \cup {NoSession}
    BY <2>3, PoolTyped DEF PoolStates
  <2>5. UNCHANGED chainVars
    BY <1>10 DEF ScanAndOpen
  <2>6. PICK pc \in {"post", "use"}, s \in Sessions \cup {NoSession} : Goes(q, pc, s)
    BY <2>1, <2>2, <2>4
  <2> QED BY <1>1, <2>5, <2>6
<1>11. ASSUME NEW q \in Requests, Arrives(q) \/ Enters(q) \/ Works(q) \/ Tracks(q) PROVE Goal
  BY <1>8, <1>9, <1>10, <1>11 DEF Arrives, Enters, Works, Tracks, WithPool
<1> QED BY <1>4, <1>5, <1>6, <1>7, <1>11 DEF SessionStep

LEMMA StoreStays ==
  ASSUME BootInv, StoreInv, UNCHANGED storeVars,
         \A s \in Sessions : chain[s] # "none" => chain'[s] # "none",
         \A r \in Requests : req'[r].pc = "track" => req[r].pc = "track" /\ req'[r].at = req[r].at
  PROVE  StoreInv'
<1>1. mem' = mem /\ file' = file /\ told' = told /\ shaky' = shaky
  BY DEF storeVars
<1>2. KeysInv' /\ KeyCreditedOnce'
  BY <1>1 DEF StoreInv, KeysInv, StoreTypeOK, ToldIsDurable, FileBehind, KeyCreditedOnce
<1>3. \A s \in Sessions : Untouched(mem, s) /\ Untouched(file, s) => Untouched(mem', s) /\ Untouched(file', s)
  BY <1>1
<1>4. TrackInv'
  BY <1>3, TrackStays DEF StoreInv
<1> QED BY <1>2, <1>4 DEF StoreInv

LEMMA SessionStepStore ==
  ASSUME BootInv, StoreInv, SessionStep
  PROVE  StoreInv'
<1>2. ASSUME NEW r \in Requests, Tracks(r) PROVE StoreInv'
  BY <1>2, TracksStore DEF Tracks
<1>3. ASSUME NEW s \in Sessions, Credits(s) PROVE StoreInv'
  BY <1>3, CreditsStore DEF Credits
<1>4. CASE UNCHANGED storeVars
  <2>1. CASE \E r \in Requests : Post(r)
    <3>1. TrackInv'
      BY <1>4, <2>1, PostStore
    <3>2. KeysInv' /\ KeyCreditedOnce'
      BY <1>4 DEF storeVars, StoreInv, KeysInv, StoreTypeOK, ToldIsDurable, FileBehind, KeyCreditedOnce
    <3> QED BY <3>1, <3>2 DEF StoreInv
  <2>2. CASE ~\E r \in Requests : Post(r)
    BY <1>4, <2>2, SessionStepTracks, StoreStays
  <2> QED BY <2>1, <2>2
<1>5. \/ \E r \in Requests : Tracks(r)
      \/ \E s \in Sessions : Credits(s)
      \/ UNCHANGED storeVars
  BY DEF SessionStep, BootStep, Ticks, Arrives, Enters, Works, Sweeps, Others, Lapses, ChainMoves, WithPool
<1> QED BY <1>2, <1>3, <1>4, <1>5

LEMMA KeysStepStore ==
  ASSUME BootInv, StoreInv, StoreStep
  PROVE  StoreInv'
<1>1. PICK ok \in BOOLEAN :
        \/ \E k \in Keys : AddKey(k, ok) \/ RevokeKey(k, ok)
        \/ \E v \in Values : UpdateSettings(v, ok)
        \/ RecordUsage(ok)
  BY DEF StoreStep
<1>2. KeysInv' /\ mem'.opener = mem.opener /\ mem'.credit = mem.credit /\ file' \in {mem', file}
  <2>1. CASE RecordUsage(ok)
    <3>1. SaveQuietly(mem, ok) /\ mem \in StoreState
      BY <2>1, StoreTyped DEF RecordUsage, StoreInv
    <3>2. KeysInv'
      BY <3>1, SaveQuietlyKeys DEF StoreInv
    <3>3. mem' = mem /\ file' \in {mem, file}
      BY <3>1 DEF SaveQuietly, Save
    <3> QED BY <3>2, <3>3
  <2> QED BY <1>1, <2>1, AddKeyKeys, RevokeKeyKeys, UpdateSettingsKeys DEF StoreInv
<1>3. KeyCreditedOnce' /\ \A s \in Sessions : Untouched(mem, s) /\ Untouched(file, s) =>
                                              Untouched(mem', s) /\ Untouched(file', s)
  BY <1>2, KeysStepCredits DEF StoreInv
<1>4. chain' = chain /\ req' = req
  BY DEF StoreStep, bootVars, chainVars
<1>5. TrackInv'
  BY <1>3, <1>4, TrackStays DEF StoreInv
<1> QED BY <1>2, <1>3, <1>5 DEF StoreInv

\* A new process reads the file; nobody tracks yet.
LEMMA StartAgainStore ==
  ASSUME BootInv, StoreInv, StartAgain
  PROVE  StoreInv'
<1>1. StoreBoot /\ BootAgain
  BY DEF StartAgain
<1>2. mem' = file /\ file' = file /\ chain' = chain /\ \A r \in Requests : req'[r].pc # "track"
  BY <1>1 DEF StoreBoot, BootAgain, chainVars, IdleReq
<1>3. KeyCreditedOnce'
  BY <1>2 DEF StoreInv, KeyCreditedOnce
<1>4. TrackInv'
  BY <1>2 DEF StoreInv, TrackInv, Untouched
<1> QED BY <1>1, <1>3, <1>4, StoreBootKeys DEF StoreInv

LEMMA StoreInvStep ==
  ASSUME BootInv, StoreInv, [Next]_vars
  PROVE  StoreInv'
<1>1. CASE SessionStep
  BY <1>1, SessionStepStore
<1>2. CASE StoreStep
  BY <1>2, KeysStepStore
<1>3. CASE AuditStep \/ HouseStep
  BY <1>3, StoreStays DEF AuditStep, HouseStep, HouseDay, HouseTick, HouseUp, HouseWorks, InHouse, bootVars, chainVars
<1>4. CASE StartAgain
  BY <1>4, StartAgainStore
<1>5. CASE RestartRequested \/ StopSignal \/ DrainHearsStop \/ Exits \/ Drained \/ BootCancelled
  BY <1>5, StoreStays DEF RestartRequested, StopSignal, DrainHearsStop, Exits, Held, Drained, BootCancelled, bootVars,
                          chainVars
<1>6. ASSUME NEW s \in Sessions, ShutdownClose(s) PROVE StoreInv'
  <2>1. \A t \in Sessions : chain[t] # "none" => chain'[t] # "none"
    BY <1>6 DEF ShutdownClose, CloseCall, BootInv, ChainTyped
  <2>2. req' = req /\ UNCHANGED storeVars
    BY <1>6 DEF ShutdownClose
  <2> QED BY <2>1, <2>2, StoreStays
<1>7. CASE UNCHANGED vars
  BY <1>7, StoreStays DEF vars, bootVars, chainVars
<1> QED BY <1>1, <1>2, <1>3, <1>4, <1>5, <1>6, <1>7 DEF Next, ProcessStep, Crash, Exec

\* The state file is sound for any keys, sessions and bounds, over failed
\* saves, closes reported twice and restarts: a session is credited to one key
\* and once (TrackSessionOpen, RecordSessionClose), and what an admin was told
\* is done is in the file (AddKey, RevokeKey, UpdateSettings).
THEOREM StoreIsSound == Spec => []StoreSound
<1>1. Init => StoreInv
  <2>1. ASSUME Init PROVE StoreInv
    <3>1. KeysInv /\ KeyCreditedOnce /\ \A s \in Sessions : Untouched(mem, s) /\ Untouched(file, s)
      BY <2>1, StoreInitKeys DEF Init
    <3>2. \A r \in Requests : req[r].pc # "track"
      BY <2>1 DEF Init, BootInit, IdleReq
    <3> QED BY <3>1, <3>2 DEF StoreInv, TrackInv
  <2> QED BY <2>1
<1>2. StoreInv => StoreSound
  BY DEF StoreInv, KeysInv, StoreSound
<1> QED BY <1>1, <1>2, BootInvHolds, StoreInvStep, PTL DEF Spec

-----------------------------------------------------------------------------
\* The audit ring, whatever lines it holds.

LEMMA RingCapTyped == RingCap \in Nat /\ RingCap >= 1
<1>1. RingCap \in Nat \ {0}
  BY AuditAssumption
<1> QED BY <1>1

\* The last event of a share.
NewestOf(share) == share[Len(share)]

LEMMA PushCappedKept ==
  ASSUME NEW S, NEW share \in Seq(S), NEW ev \in S, Len(share) <= RingCap, NEW q, q = PushCapped(share, ev)
  PROVE  q \in Seq(S) /\ q # <<>> /\ Len(q) <= RingCap /\ NewestOf(q) = ev
<1> DEFINE base == IF Len(share) >= RingCap THEN Tail(share) ELSE share
<1>1. base \in Seq(S) /\ Len(base) \in Nat /\ Len(base) < RingCap
  <2>1. Len(share) \in Nat /\ (share # <<>> => Tail(share) \in Seq(S) /\ Len(Tail(share)) = Len(share) - 1)
        /\ (share = <<>> => Len(share) = 0)
    BY EmptySeq, HeadTailProperties
  <2> QED BY <2>1, RingCapTyped
<1> HIDE DEF base
<1>2. <<ev>> \in Seq(S) /\ Len(<<ev>>) = 1 /\ <<ev>>[1] = ev
  OBVIOUS
<1>3. /\ base \o <<ev>> \in Seq(S)
      /\ Len(base \o <<ev>>) = Len(base) + 1
      /\ \A i \in 1 .. Len(base) + 1 : (base \o <<ev>>)[i] = IF i <= Len(base) THEN base[i] ELSE <<ev>>[i - Len(base)]
  BY <1>1, <1>2, ConcatProperties
<1>4. (base \o <<ev>>)[Len(base) + 1] = ev
  BY <1>1, <1>2, <1>3
<1>5. q = base \o <<ev>>
  BY DEF PushCapped, base
<1>6. base \o <<ev>> # <<>>
  BY <1>1, <1>3, EmptySeq
<1>7. NewestOf(q) = ev
  BY <1>3, <1>4, <1>5 DEF NewestOf
<1> QED BY <1>1, <1>3, <1>5, <1>6, <1>7, RingCapTyped

\* The sink's Add keeps both shares within their bound: a protected event
\* becomes the newest of its share, and no other event moves that share.
THEOREM AddKeepsProtected ==
  ASSUME NEW S, NEW r \in [protected : Seq(S), other : Seq(S)], NEW ev \in S,
         Len(r.protected) <= RingCap, Len(r.other) <= RingCap
  PROVE  /\ Add(r, ev) \in [protected : Seq(S), other : Seq(S)]
         /\ Len(Add(r, ev).protected) <= RingCap /\ Len(Add(r, ev).other) <= RingCap
         /\ ev.cls = "protected" => Add(r, ev).protected # <<>> /\ NewestOf(Add(r, ev).protected) = ev
         /\ ev.cls # "protected" => Add(r, ev).protected = r.protected
<1>1. PICK p : p = PushCapped(r.protected, ev)
  OBVIOUS
<1>2. PICK o : o = PushCapped(r.other, ev)
  OBVIOUS
<1>3. p \in Seq(S) /\ p # <<>> /\ Len(p) <= RingCap /\ NewestOf(p) = ev
  BY <1>1, PushCappedKept
<1>4. o \in Seq(S) /\ Len(o) <= RingCap
  BY <1>2, PushCappedKept
<1>5. CASE ev.cls = "protected"
  <2>1. Add(r, ev) = [r EXCEPT !.protected = p]
    BY <1>1, <1>5 DEF Add
  <2>2. Add(r, ev).protected = p /\ Add(r, ev).other = r.other
    BY <2>1
  <2>3. Add(r, ev) \in [protected : Seq(S), other : Seq(S)]
    BY <1>3, <2>1
  <2> QED BY <1>3, <1>5, <2>2, <2>3
<1>6. CASE ev.cls # "protected"
  <2>1. Add(r, ev) = [r EXCEPT !.other = o]
    BY <1>2, <1>6 DEF Add
  <2> QED BY <1>4, <1>6, <2>1
<1> QED BY <1>5, <1>6

LEMMA LastOfKept ==
  ASSUME NEW S, NEW share \in Seq(S), NEW n \in Nat, n <= Len(share)
  PROVE  /\ LastOf(share, n) \in Seq(S) /\ Len(LastOf(share, n)) = n
         /\ n > 0 => LastOf(share, n)[n] = share[Len(share)]
<1>1. Len(share) \in Nat /\ Len(share) - n + 1 \in Int
  OBVIOUS
<1>2. \A i \in Len(share) - n + 1 .. Len(share) : share[i] \in S
  BY <1>1
<1>3. /\ LastOf(share, n) \in Seq(S)
      /\ Len(LastOf(share, n)) = IF Len(share) - n + 1 <= Len(share) THEN Len(share) - (Len(share) - n + 1) + 1 ELSE 0
      /\ \A i \in 1 .. Len(share) - (Len(share) - n + 1) + 1 : LastOf(share, n)[i] = share[(Len(share) - n + 1) + i - 1]
  BY <1>1, <1>2, SubSeqProperties DEF LastOf
<1>4. n > 0 => n \in 1 .. Len(share) - (Len(share) - n + 1) + 1 /\ (Len(share) - n + 1) + n - 1 = Len(share)
  BY <1>1
<1>5. Len(LastOf(share, n)) = n
  BY <1>1, <1>3
<1> QED BY <1>3, <1>4, <1>5

\* The audit page's answer, for any limit and any ring: it keeps to the limit,
\* and the newest protected event is in it however many other events there are
\* (Recent).
THEOREM RecentShowsProtected ==
  ASSUME NEW S, ring \in [protected : Seq(S), other : Seq(S)], ring.protected # <<>>, NEW limit \in Nat \ {0}
  PROVE  /\ Len(Recent(limit)) <= limit /\ Len(Recent(limit)) <= RingCap
         /\ \E i \in 1 .. Len(Recent(limit)) : Recent(limit)[i] = ring.protected[Len(ring.protected)]
<1> DEFINE np == Len(ring.protected)
           no == Len(ring.other)
           most == Smaller(Smaller(limit, RingCap), np + no)
           reserve == Smaller(np, (most + 1) \div 2)
           others == Smaller(no, most - reserve)
           shown == Smaller(np, most - others)
<1>1. np \in Nat /\ np > 0 /\ no \in Nat
  BY EmptySeq
<1>2. most \in Nat /\ most >= 1 /\ most <= limit /\ most <= RingCap
  BY <1>1, RingCapTyped DEF Smaller
<1>3. reserve \in Nat /\ reserve >= 1 /\ reserve <= most /\ reserve <= np
  <2> HIDE DEF most
  <2>1. (most + 1) \div 2 \in Nat /\ (most + 1) \div 2 >= 1 /\ (most + 1) \div 2 <= most
    BY <1>2
  <2> HIDE DEF np
  <2> QED BY <1>1, <1>2, <2>1 DEF Smaller
<1>4. others \in Nat /\ others <= no /\ others <= most - reserve
  <2> HIDE DEF most, reserve, no
  <2> QED BY <1>1, <1>2, <1>3 DEF Smaller
<1>5. shown \in Nat /\ shown >= 1 /\ shown <= np /\ shown + others <= most
  <2> HIDE DEF most, reserve, others, np
  <2> QED BY <1>1, <1>2, <1>3, <1>4 DEF Smaller
<1>6. Recent(limit) = LastOf(ring.protected, shown) \o LastOf(ring.other, others)
  BY DEF Recent
<1> HIDE DEF np, no, most, reserve, others, shown
<1>7. PICK a : a = LastOf(ring.protected, shown)
  OBVIOUS
<1>8. PICK b : b = LastOf(ring.other, others)
  OBVIOUS
<1>9. a \in Seq(S) /\ Len(a) = shown /\ a[shown] = ring.protected[np]
  BY <1>5, <1>7, LastOfKept DEF np
<1>10. b \in Seq(S) /\ Len(b) = others
  BY <1>4, <1>8, LastOfKept DEF no
<1>11. Len(a \o b) = shown + others
       /\ \A i \in 1 .. shown + others : (a \o b)[i] = IF i <= shown THEN a[i] ELSE b[i - shown]
  BY <1>9, <1>10, ConcatProperties
<1>12. shown \in 1 .. shown + others /\ (a \o b)[shown] = ring.protected[np]
  BY <1>4, <1>5, <1>9, <1>11
<1>13. shown + others <= limit /\ shown + others <= RingCap
  BY <1>2, <1>4, <1>5, RingCapTyped
<1> QED BY <1>6, <1>7, <1>8, <1>11, <1>12, <1>13 DEF np


-----------------------------------------------------------------------------
\* The audit trail: no event is lost on the way to the sink.

\* A set of naturals that is not empty has a least element.
LEMMA LeastNat ==
  ASSUME NEW S \in SUBSET Nat, S # {}
  PROVE  \E x \in S : \A y \in S : x <= y
<1> DEFINE R == {ss \in Nat \X Nat : ss[1] < ss[2]}
<1>1. IsWellFoundedOn(R, Nat)
  BY NatLessThanWellFounded, Zenon DEF OpToRel
<1>2. PICK x \in S : \A y \in S : ~(<<y, x>> \in R)
  <2> HIDE DEF R
  <2> QED BY <1>1, WFMin
<1>3. ASSUME NEW y \in S, y < x PROVE FALSE
  <2>1. <<y, x>> \in Nat \X Nat /\ <<y, x>>[1] < <<y, x>>[2]
    BY <1>3
  <2>2. <<y, x>> \in R
    BY <2>1, Zenon
  <2> QED BY <1>2, <2>2
<1> QED BY <1>3

\* The running sums of ns.
SumPass(t, ns) == t[0] = 0 /\ \A i \in 1 .. Len(ns) : t[i] = t[i - 1] + ns[i]

LEMMA SumExists ==
  ASSUME NEW ns, NEW n \in Nat
  PROVE  \E f : f = [i \in 0 .. n |-> IF i = 0 THEN 0 ELSE f[i - 1] + ns[i]]
<1> DEFINE Sums(k, f) == f = [i \in 0 .. k |-> IF i = 0 THEN 0 ELSE f[i - 1] + ns[i]]
           Without == {k \in Nat : ~\E f : Sums(k, f)}
<1>1. ASSUME Without # {} PROVE FALSE
  <2>1. PICK k \in Without : \A j \in Without : k <= j
    <3> HIDE DEF Without
    <3>1. Without \in SUBSET Nat
      BY DEF Without
    <3> QED BY <1>1, <3>1, LeastNat
  <2>2. k \in Nat /\ ~\E f : Sums(k, f)
    BY <2>1
  <2>3. CASE k = 0
    <3>1. Sums(0, [i \in 0 .. 0 |-> 0])
      OBVIOUS
    <3> QED BY <2>2, <2>3, <3>1
  <2>4. CASE k # 0
    <3>1. k - 1 \in Nat /\ k - 1 \notin Without
      <4> HIDE DEF Without
      <4> QED BY <2>1, <2>2, <2>4
    <3>2. PICK f : Sums(k - 1, f)
      BY <3>1
    <3> DEFINE g == [i \in 0 .. k |-> IF i = k THEN f[k - 1] + ns[k] ELSE f[i]]
    <3>3. \A i \in 0 .. k - 1 : f[i] = IF i = 0 THEN 0 ELSE f[i - 1] + ns[i]
      BY <3>2
    <3>4. \A i \in 0 .. k : g[i] = IF i = 0 THEN 0 ELSE g[i - 1] + ns[i]
      <4> SUFFICES ASSUME NEW i \in 0 .. k PROVE g[i] = IF i = 0 THEN 0 ELSE g[i - 1] + ns[i]
        OBVIOUS
      <4>1. CASE i = k
        <5>1. k - 1 \in 0 .. k /\ g[k - 1] = f[k - 1]
          BY <3>1
        <5> QED BY <2>4, <4>1, <5>1
      <4>2. CASE i = 0
        BY <2>4, <3>1, <3>3, <4>2
      <4>3. CASE i # 0 /\ i # k
        <5>1. i \in 0 .. k - 1 /\ i - 1 \in 0 .. k /\ i - 1 # k
          BY <3>1, <4>3
        <5>2. g[i] = f[i] /\ g[i - 1] = f[i - 1]
          BY <4>3, <5>1
        <5> QED BY <3>3, <4>3, <5>1, <5>2
      <4> QED BY <4>1, <4>2, <4>3
    <3>5. Sums(k, g)
      <4>1. PICK G : G = g
        OBVIOUS
      <4>2. G = [i \in 0 .. k |-> G[i]] /\ \A i \in 0 .. k : G[i] = IF i = 0 THEN 0 ELSE G[i - 1] + ns[i]
        BY <3>4, <4>1
      <4> QED BY <4>1, <4>2
    <3> QED BY <2>2, <3>5
  <2> QED BY <2>3, <2>4
<1> QED BY <1>1

LEMMA SumPassNat ==
  ASSUME NEW ns \in Seq(Nat), NEW t, SumPass(t, ns)
  PROVE  \A i \in 0 .. Len(ns) : t[i] \in Nat
<1> DEFINE Bad == {i \in 0 .. Len(ns) : t[i] \notin Nat}
<1>1. Len(ns) \in Nat
  OBVIOUS
<1>2. ASSUME Bad # {} PROVE FALSE
  <2>1. PICK k \in Bad : \A j \in Bad : k <= j
    <3> HIDE DEF Bad
    <3>1. Bad \in SUBSET Nat
      BY <1>1 DEF Bad
    <3> QED BY <1>2, <3>1, LeastNat
  <2>2. k # 0
    BY <2>1 DEF SumPass
  <2>3. k \in 1 .. Len(ns) /\ k - 1 \in 0 .. Len(ns) /\ k - 1 \notin Bad
    BY <1>1, <2>1, <2>2
  <2>4. t[k - 1] \in Nat /\ ns[k] \in Nat /\ t[k] = t[k - 1] + ns[k]
    BY <2>3 DEF SumPass
  <2> QED BY <2>1, <2>4
<1> QED BY <1>2

LEMMA TotalPass ==
  ASSUME NEW ns \in Seq(Nat)
  PROVE  \E t : /\ SumPass(t, ns) /\ Total(ns) = t[Len(ns)]
                /\ \A i \in 0 .. Len(ns) : t[i] \in Nat
<1>1. Len(ns) \in Nat
  OBVIOUS
<1>2. PICK f : f = CHOOSE g : g = [i \in 0 .. Len(ns) |-> IF i = 0 THEN 0 ELSE g[i - 1] + ns[i]]
  OBVIOUS
<1>3. f = [i \in 0 .. Len(ns) |-> IF i = 0 THEN 0 ELSE f[i - 1] + ns[i]]
  BY <1>1, <1>2, SumExists
<1>4. Total(ns) = f[Len(ns)]
  BY <1>2 DEF Total
<1>5. \A i \in 0 .. Len(ns) : f[i] = IF i = 0 THEN 0 ELSE f[i - 1] + ns[i]
  BY <1>3
<1>6. SumPass(f, ns)
  BY <1>1, <1>5 DEF SumPass
<1> QED BY <1>4, <1>6, SumPassNat

LEMMA TotalConcat ==
  ASSUME NEW a \in Seq(Nat), NEW b \in Seq(Nat)
  PROVE  Total(a \o b) = Total(a) + Total(b) /\ Total(a) \in Nat /\ Total(b) \in Nat
<1>1. PICK c : c = a \o b
  OBVIOUS
<1>2. Len(a) \in Nat /\ Len(b) \in Nat
  OBVIOUS
<1>3. /\ c \in Seq(Nat) /\ Len(c) = Len(a) + Len(b)
      /\ \A i \in 1 .. Len(c) : c[i] = IF i <= Len(a) THEN a[i] ELSE b[i - Len(a)]
  BY <1>1, ConcatProperties
<1>4. PICK t : SumPass(t, a) /\ Total(a) = t[Len(a)] /\ \A i \in 0 .. Len(a) : t[i] \in Nat
  BY TotalPass
<1>5. PICK v : SumPass(v, b) /\ Total(b) = v[Len(b)] /\ \A i \in 0 .. Len(b) : v[i] \in Nat
  BY TotalPass
<1>6. PICK u : SumPass(u, c) /\ Total(c) = u[Len(c)]
  BY <1>3, TotalPass
<1> DEFINE Bad == {i \in 0 .. Len(c) : u[i] # IF i <= Len(a) THEN t[i] ELSE t[Len(a)] + v[i - Len(a)]}
<1>7. ASSUME Bad # {} PROVE FALSE
  <2>1. PICK k \in Bad : \A j \in Bad : k <= j
    <3> HIDE DEF Bad
    <3>1. Bad \in SUBSET Nat
      BY <1>2, <1>3 DEF Bad
    <3> QED BY <1>7, <3>1, LeastNat
  <2>2. k # 0
    BY <1>2, <1>4, <1>6, <2>1 DEF SumPass
  <2>k. k \in 0 .. Len(c) /\ Len(c) \in Nat
    BY <1>2, <1>3, <2>1
  <2>n. k - 1 \notin Bad
    <3> HIDE DEF Bad
    <3> QED BY <2>1, <2>k
  <2>3. k \in 1 .. Len(c) /\ k - 1 \in 0 .. Len(c)
    <3> HIDE DEF Bad
    <3> QED BY <2>2, <2>k
  <2>4. u[k] = u[k - 1] + c[k] /\ u[k - 1] = IF k - 1 <= Len(a) THEN t[k - 1] ELSE t[Len(a)] + v[k - 1 - Len(a)]
    BY <1>6, <2>n, <2>3 DEF SumPass
  <2>5. CASE k <= Len(a)
    <3>1. k \in 1 .. Len(a) /\ c[k] = a[k] /\ u[k - 1] = t[k - 1]
      BY <1>2, <1>3, <2>3, <2>4, <2>5
    <3>2. t[k] = t[k - 1] + a[k]
      BY <1>4, <3>1 DEF SumPass
    <3> QED BY <2>1, <2>4, <2>5, <3>1, <3>2
  <2>6. CASE k > Len(a)
    <3>1. k - Len(a) \in 1 .. Len(b) /\ c[k] = b[k - Len(a)]
      BY <1>2, <1>3, <2>3, <2>6
    <3>2. v[k - Len(a)] = v[k - Len(a) - 1] + b[k - Len(a)]
      BY <1>5, <3>1 DEF SumPass
    <3>3. k - Len(a) - 1 \in 0 .. Len(b) /\ k - Len(a) \in 0 .. Len(b) /\ Len(a) \in 0 .. Len(a)
      BY <1>2, <3>1
    <3>4. /\ t[Len(a)] \in Nat /\ v[k - Len(a) - 1] \in Nat /\ b[k - Len(a)] \in Nat
      BY <1>4, <1>5, <3>1, <3>3
    <3>5. u[k - 1] = t[Len(a)] + v[k - Len(a) - 1]
      <4>1. CASE k - 1 = Len(a)
        <5>1. k - Len(a) - 1 = 0 /\ v[0] = 0
          BY <1>2, <1>5, <2>3, <4>1 DEF SumPass
        <5>2. u[k - 1] = t[Len(a)]
          BY <1>2, <2>4, <4>1
        <5> QED BY <3>4, <5>1, <5>2
      <4>2. CASE k - 1 # Len(a)
        <5>1. ~(k - 1 <= Len(a)) /\ k - 1 - Len(a) = k - Len(a) - 1
          BY <1>2, <2>3, <2>6, <4>2
        <5> QED BY <2>4, <5>1
      <4> QED BY <4>1, <4>2
    <3>6. u[k] = t[Len(a)] + v[k - Len(a)]
      BY <2>4, <3>1, <3>2, <3>4, <3>5
    <3> QED BY <1>2, <2>1, <2>3, <2>6, <3>6
  <2> QED BY <1>2, <2>3, <2>5, <2>6
<1>8. Len(c) \in 0 .. Len(c) /\ Len(c) \notin Bad
  <2> HIDE DEF Bad
  <2> QED BY <1>2, <1>3, <1>7
<1>9. u[Len(c)] = IF Len(b) = 0 THEN t[Len(a)] ELSE t[Len(a)] + v[Len(b)]
  BY <1>2, <1>3, <1>8
<1>10. v[0] = 0 /\ t[Len(a)] \in Nat /\ v[Len(b)] \in Nat
  BY <1>2, <1>4, <1>5 DEF SumPass
<1> QED BY <1>1, <1>4, <1>5, <1>6, <1>9, <1>10

LEMMA TotalOne ==
  /\ Total(<<>>) = 0
  /\ \A x \in Nat : Total(<<x>>) = x
<1>1. PICK t : SumPass(t, <<>>) /\ Total(<<>>) = t[Len(<<>>)]
  <2>1. <<>> \in Seq(Nat)
    OBVIOUS
  <2> QED BY <2>1, TotalPass
<1>2. ASSUME NEW x \in Nat PROVE Total(<<x>>) = x
  <2>1. <<x>> \in Seq(Nat) /\ Len(<<x>>) = 1 /\ <<x>>[1] = x
    OBVIOUS
  <2>2. PICK u : SumPass(u, <<x>>) /\ Total(<<x>>) = u[Len(<<x>>)]
    BY <2>1, TotalPass
  <2>3. u[0] = 0 /\ u[1] = u[1 - 1] + <<x>>[1]
    BY <2>1, <2>2 DEF SumPass
  <2> QED BY <2>1, <2>2, <2>3
<1> QED BY <1>1, <1>2 DEF SumPass

LEMMA TotalBumped ==
  ASSUME NEW ns \in Seq(Nat), NEW j \in 1 .. Len(ns)
  PROVE  Total([ns EXCEPT ![j] = @ + 1]) = Total(ns) + 1
<1>1. PICK c : c = [ns EXCEPT ![j] = @ + 1]
  OBVIOUS
<1>2. /\ c \in Seq(Nat) /\ Len(c) = Len(ns) /\ Len(ns) \in Nat
      /\ \A i \in 1 .. Len(ns) : ns[i] \in Nat /\ c[i] = IF i = j THEN ns[i] + 1 ELSE ns[i]
  BY <1>1
<1>3. PICK t : SumPass(t, ns) /\ Total(ns) = t[Len(ns)] /\ \A i \in 0 .. Len(ns) : t[i] \in Nat
  BY TotalPass
<1>4. PICK u : SumPass(u, c) /\ Total(c) = u[Len(c)]
  BY <1>2, TotalPass
<1> DEFINE Bad == {i \in 0 .. Len(ns) : u[i] # IF i < j THEN t[i] ELSE t[i] + 1}
<1>5. ASSUME Bad # {} PROVE FALSE
  <2>1. PICK k \in Bad : \A i \in Bad : k <= i
    <3> HIDE DEF Bad
    <3>1. Bad \in SUBSET Nat
      BY <1>2 DEF Bad
    <3> QED BY <1>5, <3>1, LeastNat
  <2>2. k # 0
    BY <1>3, <1>4, <2>1 DEF SumPass
  <2>3. k \in 1 .. Len(ns) /\ k - 1 \in 0 .. Len(ns) /\ k \in 0 .. Len(ns) /\ k - 1 \notin Bad
    BY <1>2, <2>1, <2>2
  <2>4. u[k] = u[k - 1] + c[k] /\ t[k] = t[k - 1] + ns[k]
    BY <1>2, <1>3, <1>4, <2>3 DEF SumPass
  <2>5. u[k - 1] = IF k - 1 < j THEN t[k - 1] ELSE t[k - 1] + 1
    BY <2>3
  <2>6. t[k - 1] \in Nat /\ ns[k] \in Nat /\ c[k] = IF k = j THEN ns[k] + 1 ELSE ns[k]
    BY <1>2, <1>3, <2>3
  <2>7. u[k] = IF k < j THEN t[k] ELSE t[k] + 1
    BY <2>3, <2>4, <2>5, <2>6
  <2> QED BY <2>1, <2>7
<1>6. Len(ns) \in 0 .. Len(ns) /\ Len(ns) \notin Bad /\ ~(Len(ns) < j)
  <2> HIDE DEF Bad
  <2> QED BY <1>2, <1>5
<1>7. u[Len(ns)] = t[Len(ns)] + 1
  BY <1>6
<1> QED BY <1>1, <1>2, <1>3, <1>4, <1>7

\* What OnlyIn has kept after i elements.
KeptPass(f, s, T) == f[0] = <<>> /\ \A i \in 1 .. Len(s) : f[i] = OneMore(f[i - 1], s[i], T)

LEMMA KeptExists ==
  ASSUME NEW s, NEW T, NEW n \in Nat
  PROVE  \E f : f = [i \in 0 .. n |-> IF i = 0 THEN <<>> ELSE OneMore(f[i - 1], s[i], T)]
<1> DEFINE Keeps(k, f) == f = [i \in 0 .. k |-> IF i = 0 THEN <<>> ELSE OneMore(f[i - 1], s[i], T)]
           Without == {k \in Nat : ~\E f : Keeps(k, f)}
<1>1. ASSUME Without # {} PROVE FALSE
  <2>1. PICK k \in Without : \A j \in Without : k <= j
    <3> HIDE DEF Without
    <3>1. Without \in SUBSET Nat
      BY DEF Without
    <3> QED BY <1>1, <3>1, LeastNat
  <2>2. k \in Nat /\ ~\E f : Keeps(k, f)
    BY <2>1
  <2>3. CASE k = 0
    <3>1. Keeps(0, [i \in 0 .. 0 |-> <<>>])
      OBVIOUS
    <3> QED BY <2>2, <2>3, <3>1
  <2>4. CASE k # 0
    <3>1. k - 1 \in Nat /\ k - 1 \notin Without
      <4> HIDE DEF Without
      <4> QED BY <2>1, <2>2, <2>4
    <3>2. PICK f : Keeps(k - 1, f)
      BY <3>1
    <3> DEFINE g == [i \in 0 .. k |-> IF i = k THEN OneMore(f[k - 1], s[k], T) ELSE f[i]]
    <3>3. \A i \in 0 .. k - 1 : f[i] = IF i = 0 THEN <<>> ELSE OneMore(f[i - 1], s[i], T)
      BY <3>2
    <3>4. \A i \in 0 .. k : g[i] = IF i = 0 THEN <<>> ELSE OneMore(g[i - 1], s[i], T)
      <4> SUFFICES ASSUME NEW i \in 0 .. k PROVE g[i] = IF i = 0 THEN <<>> ELSE OneMore(g[i - 1], s[i], T)
        OBVIOUS
      <4>1. CASE i = k
        <5>1. k - 1 \in 0 .. k /\ g[k - 1] = f[k - 1]
          BY <3>1
        <5> QED BY <2>4, <4>1, <5>1
      <4>2. CASE i = 0
        BY <2>4, <3>1, <3>3, <4>2
      <4>3. CASE i # 0 /\ i # k
        <5>1. i \in 0 .. k - 1 /\ i - 1 \in 0 .. k /\ i - 1 # k
          BY <3>1, <4>3
        <5>2. g[i] = f[i] /\ g[i - 1] = f[i - 1]
          BY <4>3, <5>1
        <5> QED BY <3>3, <4>3, <5>1, <5>2
      <4> QED BY <4>1, <4>2, <4>3
    <3>5. Keeps(k, g)
      <4>1. PICK G : G = g
        OBVIOUS
      <4>2. G = [i \in 0 .. k |-> G[i]] /\ \A i \in 0 .. k : G[i] = IF i = 0 THEN <<>> ELSE OneMore(G[i - 1], s[i], T)
        BY <3>4, <4>1
      <4> QED BY <4>1, <4>2
    <3> QED BY <2>2, <3>5
  <2> QED BY <2>3, <2>4
<1> QED BY <1>1

LEMMA OnlyInPass ==
  ASSUME NEW S, NEW s \in Seq(S), NEW T
  PROVE  \E f : KeptPass(f, s, T) /\ OnlyIn(s, T) = f[Len(s)]
<1>1. Len(s) \in Nat
  OBVIOUS
<1>2. PICK f : f = CHOOSE g : g = [i \in 0 .. Len(s) |-> IF i = 0 THEN <<>> ELSE OneMore(g[i - 1], s[i], T)]
  OBVIOUS
<1>3. f = [i \in 0 .. Len(s) |-> IF i = 0 THEN <<>> ELSE OneMore(f[i - 1], s[i], T)]
  BY <1>1, <1>2, KeptExists
<1>4. OnlyIn(s, T) = f[Len(s)]
  BY <1>2 DEF OnlyIn
<1>5. \A i \in 0 .. Len(s) : f[i] = IF i = 0 THEN <<>> ELSE OneMore(f[i - 1], s[i], T)
  BY <1>3
<1>6. KeptPass(f, s, T)
  BY <1>1, <1>5 DEF KeptPass
<1> QED BY <1>4, <1>6

\* The windows and the lines of the trail, and what each stands for.
Groups == [cls : {"loop", "fail"}, key : AggKeys \cup {Other}, start : Int, held : Nat]
TrailLine == [id : Int, at : Int, cls : {"protected", "loop", "fail"}, n : Nat]
HeldOf(s) == [i \in 1 .. Len(s) |-> s[i].held]
CountOf(s) == [i \in 1 .. Len(s) |-> s[i].n]

LEMMA HeldConcat ==
  ASSUME NEW a \in Seq(Groups), NEW b \in Seq(Groups)
  PROVE  /\ a \o b \in Seq(Groups) /\ HeldOf(a) \in Seq(Nat)
         /\ Total(HeldOf(a)) \in Nat
         /\ Total(HeldOf(a \o b)) = Total(HeldOf(a)) + Total(HeldOf(b))
<1>1. PICK c : c = a \o b
  OBVIOUS
<1>2. /\ c \in Seq(Groups) /\ Len(c) = Len(a) + Len(b) /\ Len(a) \in Nat /\ Len(b) \in Nat
      /\ \A i \in 1 .. Len(c) : c[i] = IF i <= Len(a) THEN a[i] ELSE b[i - Len(a)]
  BY <1>1, ConcatProperties
<1>3. ASSUME NEW x \in Seq(Groups)
      PROVE  HeldOf(x) \in Seq(Nat) /\ Len(HeldOf(x)) = Len(x) /\ \A i \in 1 .. Len(x) : HeldOf(x)[i] = x[i].held
  <2>g. \A g \in Groups : g.held \in Nat
    BY DEF Groups
  <2>1. Len(x) \in Nat /\ \A i \in 1 .. Len(x) : x[i].held \in Nat
    <3>1. Len(x) \in Nat /\ \A i \in 1 .. Len(x) : x[i] \in Groups
      OBVIOUS
    <3> QED BY <2>g, <3>1
  <2> QED BY <2>1 DEF HeldOf
<1>4. HeldOf(a) \in Seq(Nat) /\ HeldOf(b) \in Seq(Nat) /\ HeldOf(c) \in Seq(Nat)
  BY <1>2, <1>3
<1>5. PICK p, q : p = HeldOf(a) /\ q = HeldOf(b)
  OBVIOUS
<1>6. /\ Len(p) = Len(a) /\ Len(q) = Len(b) /\ p \in Seq(Nat) /\ q \in Seq(Nat)
      /\ \A i \in 1 .. Len(a) : p[i] = a[i].held
      /\ \A i \in 1 .. Len(b) : q[i] = b[i].held
  BY <1>3, <1>4, <1>5
<1>9. PICK r : r = p \o q
  OBVIOUS
<1>7. /\ r \in Seq(Nat) /\ Len(r) = Len(a) + Len(b)
      /\ \A i \in 1 .. Len(c) : r[i] = IF i <= Len(a) THEN p[i] ELSE q[i - Len(a)]
  <2>1. /\ r \in Seq(Nat) /\ Len(r) = Len(p) + Len(q)
        /\ \A i \in 1 .. Len(r) : r[i] = IF i <= Len(p) THEN p[i] ELSE q[i - Len(p)]
    <3>1. p \in Seq(Nat) /\ q \in Seq(Nat)
      BY <1>6
    <3> QED BY <1>9, <3>1, ConcatProperties
  <2> QED BY <1>2, <1>6, <2>1
<1>8. ASSUME NEW i \in 1 .. Len(c) PROVE r[i] = c[i].held
  <2>1. CASE i <= Len(a)
    <3>1. i \in 1 .. Len(a)
      BY <1>2, <2>1
    <3> QED BY <1>2, <1>6, <1>7, <2>1, <3>1
  <2>2. CASE ~(i <= Len(a))
    <3>1. i - Len(a) \in 1 .. Len(b)
      BY <1>2, <2>2
    <3> QED BY <1>2, <1>6, <1>7, <2>2, <3>1
  <2> QED BY <2>1, <2>2
<1>10. r = [i \in 1 .. Len(c) |-> c[i].held]
  <2>1. DOMAIN r = 1 .. Len(c) /\ r = [i \in DOMAIN r |-> r[i]]
    BY <1>2, <1>7
  <2> QED BY <1>8, <2>1
<1>11. HeldOf(c) = p \o q
  BY <1>9, <1>10 DEF HeldOf
<1> QED BY <1>1, <1>2, <1>5, <1>6, <1>11, TotalConcat

LEMMA CountConcat ==
  ASSUME NEW a \in Seq(TrailLine), NEW b \in Seq(TrailLine)
  PROVE  /\ a \o b \in Seq(TrailLine)
         /\ Total(CountOf(a)) \in Nat
         /\ Total(CountOf(a \o b)) = Total(CountOf(a)) + Total(CountOf(b))
<1>1. PICK c : c = a \o b
  OBVIOUS
<1>2. /\ c \in Seq(TrailLine) /\ Len(c) = Len(a) + Len(b) /\ Len(a) \in Nat /\ Len(b) \in Nat
      /\ \A i \in 1 .. Len(c) : c[i] = IF i <= Len(a) THEN a[i] ELSE b[i - Len(a)]
  BY <1>1, ConcatProperties
<1>3. ASSUME NEW x \in Seq(TrailLine)
      PROVE  CountOf(x) \in Seq(Nat) /\ Len(CountOf(x)) = Len(x) /\ \A i \in 1 .. Len(x) : CountOf(x)[i] = x[i].n
  <2>g. \A g \in TrailLine : g.n \in Nat
    BY DEF TrailLine
  <2>1. Len(x) \in Nat /\ \A i \in 1 .. Len(x) : x[i].n \in Nat
    <3>1. Len(x) \in Nat /\ \A i \in 1 .. Len(x) : x[i] \in TrailLine
      OBVIOUS
    <3> QED BY <2>g, <3>1
  <2> QED BY <2>1 DEF CountOf
<1>4. CountOf(a) \in Seq(Nat) /\ CountOf(b) \in Seq(Nat) /\ CountOf(c) \in Seq(Nat)
  BY <1>2, <1>3
<1>5. PICK p, q : p = CountOf(a) /\ q = CountOf(b)
  OBVIOUS
<1>6. /\ Len(p) = Len(a) /\ Len(q) = Len(b) /\ p \in Seq(Nat) /\ q \in Seq(Nat)
      /\ \A i \in 1 .. Len(a) : p[i] = a[i].n
      /\ \A i \in 1 .. Len(b) : q[i] = b[i].n
  BY <1>3, <1>4, <1>5
<1>9. PICK r : r = p \o q
  OBVIOUS
<1>7. /\ r \in Seq(Nat) /\ Len(r) = Len(a) + Len(b)
      /\ \A i \in 1 .. Len(c) : r[i] = IF i <= Len(a) THEN p[i] ELSE q[i - Len(a)]
  <2>1. /\ r \in Seq(Nat) /\ Len(r) = Len(p) + Len(q)
        /\ \A i \in 1 .. Len(r) : r[i] = IF i <= Len(p) THEN p[i] ELSE q[i - Len(p)]
    <3>1. p \in Seq(Nat) /\ q \in Seq(Nat)
      BY <1>6
    <3> QED BY <1>9, <3>1, ConcatProperties
  <2> QED BY <1>2, <1>6, <2>1
<1>8. ASSUME NEW i \in 1 .. Len(c) PROVE r[i] = c[i].n
  <2>1. CASE i <= Len(a)
    <3>1. i \in 1 .. Len(a)
      BY <1>2, <2>1
    <3> QED BY <1>2, <1>6, <1>7, <2>1, <3>1
  <2>2. CASE ~(i <= Len(a))
    <3>1. i - Len(a) \in 1 .. Len(b)
      BY <1>2, <2>2
    <3> QED BY <1>2, <1>6, <1>7, <2>2, <3>1
  <2> QED BY <2>1, <2>2
<1>10. r = [i \in 1 .. Len(c) |-> c[i].n]
  <2>1. DOMAIN r = 1 .. Len(c) /\ r = [i \in DOMAIN r |-> r[i]]
    BY <1>2, <1>7
  <2> QED BY <1>8, <2>1
<1>11. CountOf(c) = p \o q
  BY <1>9, <1>10 DEF CountOf
<1> QED BY <1>1, <1>2, <1>5, <1>6, <1>11, TotalConcat

LEMMA HeldEmpty == <<>> \in Seq(Groups) /\ Total(HeldOf(<<>>)) = 0
<1>1. HeldOf(<<>>) = <<>>
  BY DEF HeldOf
<1> QED BY <1>1, TotalOne

LEMMA CountEmpty == <<>> \in Seq(TrailLine) /\ Total(CountOf(<<>>)) = 0
<1>1. CountOf(<<>>) = <<>>
  BY DEF CountOf
<1> QED BY <1>1, TotalOne

LEMMA HeldAppend ==
  ASSUME NEW a \in Seq(Groups), NEW x \in Groups
  PROVE  /\ Append(a, x) \in Seq(Groups)
         /\ Total(HeldOf(Append(a, x))) = Total(HeldOf(a)) + x.held
<1>1. <<x>> \in Seq(Groups) /\ Append(a, x) = a \o <<x>> /\ x.held \in Nat
  BY DEF Groups
<1>2. HeldOf(<<x>>) = <<x.held>>
  BY DEF HeldOf
<1>3. Total(HeldOf(<<x>>)) = x.held
  BY <1>1, <1>2, TotalOne
<1> QED BY <1>1, <1>3, HeldConcat

LEMMA CountOne ==
  ASSUME NEW x \in TrailLine
  PROVE  <<x>> \in Seq(TrailLine) /\ Total(CountOf(<<x>>)) = x.n
<1>1. <<x>> \in Seq(TrailLine) /\ x.n \in Nat
  BY DEF TrailLine
<1>2. CountOf(<<x>>) = <<x.n>>
  BY DEF CountOf
<1> QED BY <1>1, <1>2, TotalOne

\* A sequence's total is split between two sets that leave out only elements
\* that hold nothing.
LEMMA HeldSplit ==
  ASSUME NEW s \in Seq(Groups), NEW A, NEW B,
         \A i \in 1 .. Len(s) : \/ s[i] \in A /\ s[i] \notin B
                                \/ s[i] \notin A /\ s[i] \in B
                                \/ s[i] \notin A /\ s[i] \notin B /\ s[i].held = 0
  PROVE  /\ OnlyIn(s, A) \in Seq(Groups) /\ OnlyIn(s, B) \in Seq(Groups)
         /\ Total(HeldOf(OnlyIn(s, A))) + Total(HeldOf(OnlyIn(s, B))) = Total(HeldOf(s))
<1>1. Len(s) \in Nat
  OBVIOUS
<1>2. PICK f : KeptPass(f, s, A) /\ OnlyIn(s, A) = f[Len(s)]
  BY OnlyInPass
<1>3. PICK g : KeptPass(g, s, B) /\ OnlyIn(s, B) = g[Len(s)]
  BY OnlyInPass
<1>4. /\ HeldOf(s) \in Seq(Nat) /\ Len(HeldOf(s)) = Len(s) /\ \A i \in 1 .. Len(s) : HeldOf(s)[i] = s[i].held
  <2>1. HeldOf(s) \in Seq(Nat)
    BY HeldEmpty, HeldConcat
  <2> QED BY <1>1, <2>1 DEF HeldOf
<1>5. PICK t : SumPass(t, HeldOf(s)) /\ Total(HeldOf(s)) = t[Len(s)] /\ \A i \in 0 .. Len(s) : t[i] \in Nat
  BY <1>4, TotalPass
<1>6. t[0] = 0 /\ \A i \in 1 .. Len(s) : t[i] = t[i - 1] + s[i].held
  BY <1>4, <1>5 DEF SumPass
<1> DEFINE Fine(i) == /\ f[i] \in Seq(Groups) /\ g[i] \in Seq(Groups)
                      /\ Total(HeldOf(f[i])) + Total(HeldOf(g[i])) = t[i]
           Bad == {i \in 0 .. Len(s) : ~Fine(i)}
<1>7. ASSUME Bad # {} PROVE FALSE
  <2>1. PICK k \in Bad : \A i \in Bad : k <= i
    <3> HIDE DEF Bad
    <3>1. Bad \in SUBSET Nat
      BY <1>1 DEF Bad
    <3> QED BY <1>7, <3>1, LeastNat
  <2>2. Fine(0)
    <3>1. f[0] = <<>> /\ g[0] = <<>>
      BY <1>2, <1>3 DEF KeptPass
    <3> QED BY <1>6, <3>1, HeldEmpty
  <2>3. k \in 0 .. Len(s) /\ ~Fine(k)
    BY <2>1
  <2>4. k # 0
    <3> HIDE DEF Fine
    <3> QED BY <2>2, <2>3
  <2>5. k \in 1 .. Len(s) /\ k - 1 \in 0 .. Len(s) /\ k - 1 \notin Bad
    <3> HIDE DEF Fine, Bad
    <3> QED BY <1>1, <2>1, <2>3, <2>4
  <2>6. Fine(k - 1)
    <3> HIDE DEF Fine
    <3> QED BY <2>5
  <2>7. PICK x : x = s[k]
    OBVIOUS
  <2>8. /\ f[k] = OneMore(f[k - 1], x, A) /\ g[k] = OneMore(g[k - 1], x, B)
        /\ t[k] = t[k - 1] + x.held
    BY <1>2, <1>3, <1>6, <2>5, <2>7 DEF KeptPass
  <2>9. PICK p, q : p = f[k - 1] /\ q = g[k - 1]
    OBVIOUS
  <2>10. /\ p \in Seq(Groups) /\ q \in Seq(Groups) /\ x \in Groups
         /\ Total(HeldOf(p)) + Total(HeldOf(q)) = t[k - 1]
    BY <2>5, <2>6, <2>7, <2>9
  <2>11. Total(HeldOf(p)) \in Nat /\ Total(HeldOf(q)) \in Nat /\ x.held \in Nat
    <3>1. x.held \in Nat
      BY <2>10 DEF Groups
    <3> QED BY <2>10, <3>1, HeldConcat
  <2>12. /\ Append(p, x) \in Seq(Groups) /\ Total(HeldOf(Append(p, x))) = Total(HeldOf(p)) + x.held
         /\ Append(q, x) \in Seq(Groups) /\ Total(HeldOf(Append(q, x))) = Total(HeldOf(q)) + x.held
    BY <2>10, HeldAppend
  <2>13. CASE x \in A /\ x \notin B
    <3>1. f[k] = Append(p, x) /\ g[k] = q
      BY <2>8, <2>9, <2>13 DEF OneMore
    <3> QED BY <2>3, <2>8, <2>10, <2>11, <2>12, <3>1
  <2>14. CASE x \notin A /\ x \in B
    <3>1. f[k] = p /\ g[k] = Append(q, x)
      BY <2>8, <2>9, <2>14 DEF OneMore
    <3> QED BY <2>3, <2>8, <2>10, <2>11, <2>12, <3>1
  <2>15. CASE x \notin A /\ x \notin B /\ x.held = 0
    <3>1. f[k] = p /\ g[k] = q
      BY <2>8, <2>9, <2>15 DEF OneMore
    <3> QED BY <2>3, <2>8, <2>10, <2>11, <2>15, <3>1
  <2> QED BY <2>5, <2>7, <2>13, <2>14, <2>15
<1>8. Len(s) \in 0 .. Len(s) /\ Len(s) \notin Bad
  <2> HIDE DEF Bad
  <2> QED BY <1>1, <1>7
<1>9. Fine(Len(s))
  <2> HIDE DEF Fine
  <2> QED BY <1>8
<1> QED BY <1>2, <1>3, <1>5, <1>9

LEMMA FlushKeeps ==
  ASSUME NEW classes, buckets \in Seq(Groups), clock \in Int, lineNo \in Int
  PROVE  /\ Flushed(classes).lines \in Seq(TrailLine)
         /\ Flushed(classes).left \in Seq(Groups)
         /\ Total(CountOf(Flushed(classes).lines)) + Total(HeldOf(Flushed(classes).left)) = Total(HeldOf(buckets))
<1> DEFINE Ends == {b \in ToSet(buckets) : b.cls \in classes /\ Ended(b) /\ HeldBack(b)}
           Stay == {b \in ToSet(buckets) : b.cls \notin classes \/ ~Ended(b)}
           over == OnlyIn(buckets, Ends)
           left == OnlyIn(buckets, Stay)
           Loops == {b \in ToSet(over) : b.cls = "loop"}
           Rest == {b \in ToSet(over) : b.cls # "loop"}
           inTurn == OnlyIn(over, Loops) \o OnlyIn(over, Rest)
           lines == [i \in 1 .. Len(inTurn) |-> Line(lineNo + i, inTurn[i].cls, inTurn[i].held)]
<1>1. /\ over \in Seq(Groups) /\ left \in Seq(Groups)
      /\ Total(HeldOf(over)) + Total(HeldOf(left)) = Total(HeldOf(buckets))
  <2>1. ASSUME NEW i \in 1 .. Len(buckets)
        PROVE  \/ buckets[i] \in Ends /\ buckets[i] \notin Stay
               \/ buckets[i] \notin Ends /\ buckets[i] \in Stay
               \/ buckets[i] \notin Ends /\ buckets[i] \notin Stay /\ buckets[i].held = 0
    <3>1. PICK b : b = buckets[i]
      OBVIOUS
    <3>2. b \in ToSet(buckets) /\ b \in Groups
      BY <3>1 DEF ToSet
    <3>3. ~HeldBack(b) => b.held = 0
      BY <3>2 DEF HeldBack, Groups
    <3> QED BY <3>1, <3>2, <3>3, Zenon
  <2> HIDE DEF Ends, Stay
  <2> QED BY <2>1, HeldSplit
<1>2. /\ OnlyIn(over, Loops) \in Seq(Groups) /\ OnlyIn(over, Rest) \in Seq(Groups)
      /\ Total(HeldOf(OnlyIn(over, Loops))) + Total(HeldOf(OnlyIn(over, Rest))) = Total(HeldOf(over))
  <2> HIDE DEF over
  <2>1. ASSUME NEW i \in 1 .. Len(over)
        PROVE  \/ over[i] \in Loops /\ over[i] \notin Rest
               \/ over[i] \notin Loops /\ over[i] \in Rest
               \/ over[i] \notin Loops /\ over[i] \notin Rest /\ over[i].held = 0
    <3>1. over[i] \in ToSet(over)
      BY <1>1 DEF ToSet
    <3> QED BY <3>1, Zenon
  <2> HIDE DEF Loops, Rest
  <2> QED BY <1>1, <2>1, HeldSplit
<1>3. inTurn \in Seq(Groups) /\ Total(HeldOf(inTurn)) = Total(HeldOf(over))
  <2> HIDE DEF over, Loops, Rest
  <2> QED BY <1>2, HeldConcat
<1>4. lines \in Seq(TrailLine) /\ CountOf(lines) = HeldOf(inTurn)
  <2> HIDE DEF inTurn
  <2>1. Len(inTurn) \in Nat /\ \A i \in 1 .. Len(inTurn) : inTurn[i] \in Groups
    BY <1>3
  <2>2. ASSUME NEW i \in 1 .. Len(inTurn)
        PROVE  Line(lineNo + i, inTurn[i].cls, inTurn[i].held) \in TrailLine
    <3>1. inTurn[i].cls \in {"loop", "fail"} /\ inTurn[i].held \in Nat
      BY <2>1 DEF Groups
    <3>2. lineNo + i \in Int
      BY <2>1
    <3> QED BY <3>1, <3>2 DEF Line, TrailLine
  <2>3. lines \in Seq(TrailLine) /\ Len(lines) = Len(inTurn)
    BY <2>1, <2>2
  <2>4. \A i \in 1 .. Len(inTurn) : lines[i].n = inTurn[i].held
    BY DEF Line
  <2> HIDE DEF lines
  <2> QED BY <2>3, <2>4 DEF CountOf, HeldOf
<1>5. Flushed(classes).lines = lines /\ Flushed(classes).left = left
  BY DEF Flushed
<1> HIDE DEF lines, left, inTurn, over
<1> QED BY <1>1, <1>3, <1>4, <1>5

LEMMA MinIsIn ==
  ASSUME NEW S \in SUBSET Nat, S # {}
  PROVE  Min(S) \in S
<1>1. \E x \in S : \A y \in S : x <= y
  BY LeastNat
<1> QED BY <1>1 DEF Min

\* One more event counted in a window.
LEMMA HeldBumped ==
  ASSUME NEW s \in Seq(Groups), NEW j \in 1 .. Len(s)
  PROVE  /\ [s EXCEPT ![j].held = @ + 1] \in Seq(Groups)
         /\ Total(HeldOf([s EXCEPT ![j].held = @ + 1])) = Total(HeldOf(s)) + 1
<1>1. PICK c : c = [s EXCEPT ![j].held = @ + 1]
  OBVIOUS
<1>2. PICK h : h = HeldOf(s)
  OBVIOUS
<1>3. h \in Seq(Nat)
  BY <1>2, HeldEmpty, HeldConcat
<1>4. Len(s) \in Nat /\ s[j] \in Groups
  OBVIOUS
<1>5. [s[j] EXCEPT !.held = @ + 1] \in Groups /\ [s[j] EXCEPT !.held = @ + 1].held = s[j].held + 1
  <2>1. ASSUME NEW g \in Groups
        PROVE  [g EXCEPT !.held = @ + 1] \in Groups /\ [g EXCEPT !.held = @ + 1].held = g.held + 1
    BY DEF Groups
  <2> QED BY <1>4, <2>1
<1>6. c = [s EXCEPT ![j] = [s[j] EXCEPT !.held = @ + 1]]
  BY <1>1
<1>7. c \in Seq(Groups) /\ Len(c) = Len(s)
  BY <1>5, <1>6
<1>8. Len(h) = Len(s) /\ \A i \in 1 .. Len(s) : h[i] = s[i].held
  BY <1>2, <1>4 DEF HeldOf
<1>9. \A i \in 1 .. Len(s) : c[i].held = IF i = j THEN h[i] + 1 ELSE h[i]
  BY <1>4, <1>5, <1>6, <1>8
<1>10. HeldOf(c) = [h EXCEPT ![j] = @ + 1]
  <2>1. DOMAIN h = 1 .. Len(s)
    BY <1>3, <1>8
  <2>2. [h EXCEPT ![j] = @ + 1] = [i \in 1 .. Len(s) |-> IF i = j THEN h[i] + 1 ELSE h[i]]
    BY <2>1
  <2> QED BY <1>7, <1>9, <2>2 DEF HeldOf
<1> QED BY <1>1, <1>2, <1>3, <1>7, <1>8, <1>10, TotalBumped

\* The invariant behind EventsAccounted: what the windows and the lines are.
TrailInv ==
    /\ buckets \in Seq(Groups) /\ pending \in Seq(TrailLine)
    /\ clock \in Int /\ lineNo \in Int /\ recorded \in Int /\ sunk \in Int /\ crashed \in Int
    /\ EventsAccounted

LEMMA AccountedIs ==
  EventsAccounted <=> recorded = sunk + crashed + Total(CountOf(pending)) + Total(HeldOf(buckets))
BY DEF EventsAccounted, CountOf, HeldOf

LEMMA AccountedNext ==
  EventsAccounted' <=> recorded' = sunk' + crashed' + Total(CountOf(pending')) + Total(HeldOf(buckets'))
BY DEF EventsAccounted, CountOf, HeldOf

LEMMA TrailStart == AuditInit => TrailInv
BY AccountedIs, HeldEmpty, CountEmpty DEF AuditInit, TrailInv

LEMMA TrailBoot == TrailInv /\ AuditBoot => TrailInv'
<1> SUFFICES ASSUME TrailInv, AuditBoot PROVE TrailInv'
  OBVIOUS
<1>1. /\ buckets' = <<>> /\ pending' = <<>> /\ crashed' = recorded - sunk
      /\ UNCHANGED <<clock, recorded, lineNo, sunk>>
  BY DEF AuditBoot
<1>2. clock \in Int /\ lineNo \in Int /\ recorded \in Int /\ sunk \in Int
  BY DEF TrailInv
<1>3. Total(CountOf(pending')) = 0 /\ Total(HeldOf(buckets')) = 0
  BY <1>1, HeldEmpty, CountEmpty
<1>4. EventsAccounted'
  BY <1>1, <1>2, <1>3, AccountedNext
<1> QED BY <1>1, <1>2, <1>4, HeldEmpty, CountEmpty DEF TrailInv

\* A step that leaves the windows and the lines alone.
LEMMA TrailStays ==
  ASSUME TrailInv, UNCHANGED <<buckets, pending, recorded, lineNo, sunk, crashed>>, clock' \in Int
  PROVE  TrailInv'
<1>1. EventsAccounted'
  BY AccountedIs, AccountedNext DEF TrailInv
<1> QED BY <1>1 DEF TrailInv

\* The facts every step below starts from.
LEMMA TrailFacts ==
  ASSUME TrailInv
  PROVE  /\ Total(CountOf(pending)) \in Nat /\ Total(HeldOf(buckets)) \in Nat
         /\ recorded = sunk + crashed + Total(CountOf(pending)) + Total(HeldOf(buckets))
         /\ recorded \in Int /\ sunk \in Int /\ crashed \in Int /\ clock \in Int /\ lineNo \in Int
<1>1. /\ buckets \in Seq(Groups) /\ pending \in Seq(TrailLine) /\ clock \in Int /\ lineNo \in Int
      /\ recorded \in Int /\ sunk \in Int /\ crashed \in Int
      /\ recorded = sunk + crashed + Total(CountOf(pending)) + Total(HeldOf(buckets))
  BY AccountedIs DEF TrailInv
<1>2. Total(CountOf(pending)) \in Nat /\ Total(HeldOf(buckets)) \in Nat
  BY <1>1, HeldConcat, CountConcat
<1> QED BY <1>1, <1>2

LEMMA FlushFacts ==
  ASSUME TrailInv, NEW classes
  PROVE  /\ Flushed(classes).lines \in Seq(TrailLine) /\ Flushed(classes).left \in Seq(Groups)
         /\ Total(CountOf(Flushed(classes).lines)) \in Nat /\ Total(HeldOf(Flushed(classes).left)) \in Nat
         /\ Len(Flushed(classes).lines) \in Nat
         /\ Total(CountOf(Flushed(classes).lines)) + Total(HeldOf(Flushed(classes).left)) = Total(HeldOf(buckets))
<1>1. /\ Flushed(classes).lines \in Seq(TrailLine) /\ Flushed(classes).left \in Seq(Groups)
      /\ Total(CountOf(Flushed(classes).lines)) + Total(HeldOf(Flushed(classes).left)) = Total(HeldOf(buckets))
  BY FlushKeeps DEF TrailInv
<1> QED BY <1>1, HeldConcat, CountConcat

LEMMA TrailFlush == TrailInv /\ FlushAudit => TrailInv'
<1> SUFFICES ASSUME TrailInv, FlushAudit PROVE TrailInv'
  OBVIOUS
<1>1. PICK out, left : out = Flushed(Both).lines /\ left = Flushed(Both).left
  OBVIOUS
<1>2. /\ buckets' = left /\ pending' = pending \o out /\ lineNo' = lineNo + Len(out)
      /\ UNCHANGED <<clock, recorded, sunk, crashed>>
  BY <1>1 DEF FlushAudit
<1>3. /\ out \in Seq(TrailLine) /\ left \in Seq(Groups) /\ Len(out) \in Nat
      /\ Total(CountOf(out)) \in Nat /\ Total(HeldOf(left)) \in Nat
      /\ Total(CountOf(out)) + Total(HeldOf(left)) = Total(HeldOf(buckets))
  BY <1>1, FlushFacts
<1>4. pending \o out \in Seq(TrailLine) /\ Total(CountOf(pending \o out)) = Total(CountOf(pending)) + Total(CountOf(out))
  BY <1>3, CountConcat DEF TrailInv
<1>5. EventsAccounted'
  <2>1. /\ recorded \in Int /\ sunk \in Int /\ crashed \in Int /\ Total(CountOf(pending)) \in Nat
        /\ recorded = sunk + crashed + Total(CountOf(pending)) + (Total(CountOf(out)) + Total(HeldOf(left)))
    BY <1>3, TrailFacts
  <2>2. ASSUME NEW r \in Int, NEW s \in Int, NEW c \in Int, NEW p \in Nat, NEW o \in Nat, NEW h \in Nat,
               r = s + c + p + (o + h)
        PROVE  r = s + c + (p + o) + h
    BY <2>2
  <2>3. recorded = sunk + crashed + (Total(CountOf(pending)) + Total(CountOf(out))) + Total(HeldOf(left))
    BY <1>3, <2>1, <2>2
  <2>4. recorded' = sunk' + crashed' + Total(CountOf(pending')) + Total(HeldOf(buckets'))
    BY <1>2, <1>4, <2>3, Zenon
  <2> QED BY <2>4, AccountedNext, Zenon
<1>6. lineNo' \in Int
  BY <1>2, <1>3, TrailFacts
<1> QED BY <1>2, <1>3, <1>4, <1>5, <1>6 DEF TrailInv

\* A flush and one more line of one event.
LEMMA TrailWrites ==
  ASSUME TrailInv, NEW out \in Seq(TrailLine), NEW cls \in {"protected", "loop", "fail"}, Len(out) \in Nat
  PROVE  /\ pending \o out \o <<Line(lineNo + Len(out) + 1, cls, 1)>> \in Seq(TrailLine)
         /\ Total(CountOf(pending \o out \o <<Line(lineNo + Len(out) + 1, cls, 1)>>))
              = Total(CountOf(pending)) + Total(CountOf(out)) + 1
<1>1. PICK l : l = Line(lineNo + Len(out) + 1, cls, 1)
  OBVIOUS
<1>2. l \in TrailLine /\ l.n = 1
  BY <1>1 DEF Line, TrailLine, TrailInv
<1>3. pending \in Seq(TrailLine)
  BY DEF TrailInv
<1>4. PICK p : p = pending \o out
  OBVIOUS
<1>5. /\ p \in Seq(TrailLine) /\ Total(CountOf(p)) = Total(CountOf(pending)) + Total(CountOf(out))
  BY <1>3, <1>4, CountConcat
<1>6. <<l>> \in Seq(TrailLine) /\ Total(CountOf(<<l>>)) = 1
  BY <1>2, CountOne
<1>7. p \o <<l>> \in Seq(TrailLine) /\ Total(CountOf(p \o <<l>>)) = Total(CountOf(p)) + 1
  BY <1>5, <1>6, CountConcat
<1> QED BY <1>1, <1>4, <1>5, <1>7

\* One more event, in a line of its own or counted in a window.
LEMMA TrailAdds ==
  ASSUME TrailInv, NEW o \in Nat, NEW h \in Nat, NEW len \in Nat, NEW d \in {0, 1},
         o + h = Total(HeldOf(buckets)),
         recorded' = recorded + 1, UNCHANGED <<clock, sunk, crashed>>, lineNo' = lineNo + len + d,
         pending' \in Seq(TrailLine), buckets' \in Seq(Groups),
         Total(CountOf(pending')) = Total(CountOf(pending)) + o + d,
         Total(HeldOf(buckets')) = h + (1 - d)
  PROVE  TrailInv'
<1>1. EventsAccounted'
  <2>1. /\ recorded \in Int /\ sunk \in Int /\ crashed \in Int
        /\ Total(CountOf(pending)) \in Nat /\ Total(HeldOf(buckets)) \in Nat
        /\ recorded = sunk + crashed + Total(CountOf(pending)) + Total(HeldOf(buckets))
    BY TrailFacts
  <2>2. recorded + 1 = sunk + crashed + (Total(CountOf(pending)) + o + d) + (h + (1 - d))
    <3>1. PICK p, b : p = Total(CountOf(pending)) /\ b = Total(HeldOf(buckets))
      OBVIOUS
    <3>2. p \in Nat /\ b \in Nat /\ recorded = sunk + crashed + p + b /\ o + h = b
      BY <2>1, <3>1, Zenon
    <3>3. recorded + 1 = sunk + crashed + (p + o + d) + (h + (1 - d))
      <4>1. PICK r, s, c : r = recorded /\ s = sunk /\ c = crashed
        OBVIOUS
      <4>2. r \in Int /\ s \in Int /\ c \in Int /\ r = s + c + p + b
        BY <2>1, <3>2, <4>1, Zenon
      <4>3. r + 1 = s + c + (p + o + d) + (h + (1 - d))
        BY <3>2, <4>2
      <4> QED BY <4>1, <4>3, Zenon
    <3> QED BY <3>1, <3>3, Zenon
  <2>3. recorded' = sunk' + crashed' + Total(CountOf(pending')) + Total(HeldOf(buckets'))
    BY <2>2, Zenon
  <2> QED BY <2>3, AccountedNext, Zenon
<1>2. clock \in Int /\ lineNo \in Int /\ recorded \in Int /\ sunk \in Int /\ crashed \in Int
  BY TrailFacts
<1>3. recorded + 1 \in Int /\ lineNo + len + d \in Int
  BY <1>2
<1>4. clock' \in Int /\ lineNo' \in Int /\ recorded' \in Int /\ sunk' \in Int /\ crashed' \in Int
  BY <1>2, <1>3, Zenon
<1> QED BY <1>1, <1>4, Zenon DEF TrailInv

LEMMA TrailDirect ==
  ASSUME TrailInv, NEW cls \in {"protected", "fail"}, WriteDirect(cls)
  PROVE  TrailInv'
<1>1. PICK out, left : out = Flushed(Both).lines /\ left = Flushed(Both).left
  OBVIOUS
<1>2. /\ buckets' = left /\ pending' = pending \o out \o <<Line(lineNo + Len(out) + 1, cls, 1)>>
      /\ lineNo' = lineNo + Len(out) + 1 /\ recorded' = recorded + 1
      /\ UNCHANGED <<clock, sunk, crashed>>
  BY <1>1 DEF WriteDirect, MoreEvents
<1>3. /\ out \in Seq(TrailLine) /\ left \in Seq(Groups) /\ Len(out) \in Nat
      /\ Total(CountOf(out)) \in Nat /\ Total(HeldOf(left)) \in Nat
      /\ Total(CountOf(out)) + Total(HeldOf(left)) = Total(HeldOf(buckets))
  BY <1>1, FlushFacts
<1>4. pending' \in Seq(TrailLine) /\ Total(CountOf(pending')) = Total(CountOf(pending)) + Total(CountOf(out)) + 1
  BY <1>2, <1>3, TrailWrites
<1>5. /\ buckets' \in Seq(Groups) /\ Total(HeldOf(buckets')) = Total(HeldOf(left)) + (1 - 1)
      /\ UNCHANGED <<clock, sunk, crashed>> /\ recorded' = recorded + 1
      /\ lineNo' = lineNo + Len(out) + 1
  BY <1>2, <1>3
<1> QED BY <1>3, <1>4, <1>5, TrailAdds

LEMMA TrailRecord ==
  ASSUME TrailInv, NEW cls \in {"loop", "fail"}, NEW key \in AggKeys, RecordAggregated(cls, key)
  PROVE  TrailInv'
<1> DEFINE out == Flushed({cls}).lines
           left == Flushed({cls}).left
           At(k) == SelectInSeq(left, LAMBDA b : b.cls = cls /\ b.key = k)
           Counts(k) == /\ buckets' = [left EXCEPT ![At(k)].held = @ + 1]
                        /\ pending' = pending \o out
                        /\ lineNo' = lineNo + Len(out)
           Starts(k) == /\ buckets' = Append(left, [cls |-> cls, key |-> k, start |-> clock, held |-> 0])
                        /\ pending' = pending \o out \o <<Line(lineNo + Len(out) + 1, cls, 1)>>
                        /\ lineNo' = lineNo + Len(out) + 1
<1>2. /\ out \in Seq(TrailLine) /\ left \in Seq(Groups) /\ Len(out) \in Nat
      /\ Total(CountOf(out)) \in Nat /\ Total(HeldOf(left)) \in Nat
      /\ Total(CountOf(out)) + Total(HeldOf(left)) = Total(HeldOf(buckets))
  BY FlushFacts
<1>3. PICK k \in AggKeys \cup {Other} : IF At(k) # 0 THEN Counts(k) ELSE Starts(k)
  <2> DEFINE keyed == Len(SelectSeq(left, LAMBDA b : b.cls = cls /\ b.key # Other))
             kk == IF At(key) = 0 /\ keyed >= MaxPerKind THEN Other ELSE key
  <2>1. IF At(kk) # 0 THEN Counts(kk) ELSE Starts(kk)
    BY DEF RecordAggregated
  <2>2. kk \in AggKeys \cup {Other}
    OBVIOUS
  <2> HIDE DEF kk, Counts, Starts, At
  <2> QED BY <2>1, <2>2
<1>5. PICK j : j = At(k)
  OBVIOUS
<1>j. j # 0 => j \in 1 .. Len(left)
  <2>1. left \in Seq(Groups)
    BY <1>2
  <2> HIDE DEF left
  <2> DEFINE I == {i \in 1 .. Len(left) : left[i].cls = cls /\ left[i].key = k}
  <2>2. At(k) = IF I # {} THEN Min(I) ELSE 0
    BY DEF SelectInSeq
  <2>3. I \in SUBSET Nat /\ I \in SUBSET (1 .. Len(left))
    OBVIOUS
  <2> HIDE DEF At, I
  <2> QED BY <1>5, <2>2, <2>3, MinIsIn
<1>c. IF j # 0 THEN /\ buckets' = [left EXCEPT ![j].held = @ + 1]
                    /\ pending' = pending \o out /\ lineNo' = lineNo + Len(out)
               ELSE Starts(k)
  <2> HIDE DEF left, out, At
  <2> QED BY <1>3, <1>5
<1> HIDE DEF left, out, At
<1>4. recorded' = recorded + 1 /\ clock' = clock /\ sunk' = sunk /\ crashed' = crashed
  BY DEF RecordAggregated, MoreEvents
<1>6. CASE j # 0
  <2>1. j \in 1 .. Len(left)
    BY <1>6, <1>j
  <2>2. buckets' = [left EXCEPT ![j].held = @ + 1] /\ pending' = pending \o out /\ lineNo' = lineNo + Len(out)
    BY <1>6, <1>c
  <2>3. buckets' \in Seq(Groups) /\ Total(HeldOf(buckets')) = Total(HeldOf(left)) + 1
    BY <1>2, <2>1, <2>2, HeldBumped
  <2>4. pending' \in Seq(TrailLine) /\ Total(CountOf(pending')) = Total(CountOf(pending)) + Total(CountOf(out))
    BY <1>2, <2>2, CountConcat DEF TrailInv
  <2>5. lineNo' = lineNo + Len(out) + 0 /\ Total(HeldOf(buckets')) = Total(HeldOf(left)) + (1 - 0)
        /\ Total(CountOf(pending')) = Total(CountOf(pending)) + Total(CountOf(out)) + 0
        /\ UNCHANGED <<clock, sunk, crashed>> /\ recorded' = recorded + 1
    <3>1. lineNo + Len(out) = lineNo + Len(out) + 0 /\ 1 = 1 - 0
      BY <1>2, TrailFacts
    <3>2. Total(CountOf(pending)) + Total(CountOf(out)) = Total(CountOf(pending)) + Total(CountOf(out)) + 0
      BY <1>2, TrailFacts
    <3> QED BY <1>4, <2>2, <2>3, <2>4, <3>1, <3>2, Zenon
  <2> QED BY <1>2, <2>3, <2>4, <2>5, TrailAdds
<1>7. CASE j = 0
  <2>1. PICK g : g = [cls |-> cls, key |-> k, start |-> clock, held |-> 0]
    OBVIOUS
  <2>2. /\ buckets' = Append(left, g) /\ pending' = pending \o out \o <<Line(lineNo + Len(out) + 1, cls, 1)>>
        /\ lineNo' = lineNo + Len(out) + 1
    BY <1>7, <1>c, <2>1
  <2>3. g \in Groups /\ g.held = 0
    BY <2>1, TrailFacts DEF Groups
  <2>4. buckets' \in Seq(Groups) /\ Total(HeldOf(buckets')) = Total(HeldOf(left))
    BY <1>2, <2>2, <2>3, HeldAppend
  <2>5. pending' \in Seq(TrailLine) /\ Total(CountOf(pending')) = Total(CountOf(pending)) + Total(CountOf(out)) + 1
    BY <1>2, <2>2, TrailWrites
  <2>6. lineNo' = lineNo + Len(out) + 1 /\ Total(HeldOf(buckets')) = Total(HeldOf(left)) + (1 - 1)
        /\ UNCHANGED <<clock, sunk, crashed>> /\ recorded' = recorded + 1
    BY <1>2, <1>4, <2>2, <2>4
  <2> QED BY <1>2, <2>4, <2>5, <2>6, TrailAdds
<1> QED BY <1>6, <1>7

LEMMA TrailSink ==
  ASSUME TrailInv, NEW fail, NEW refused, NEW write, Sink(fail, refused, write)
  PROVE  TrailInv'
<1>1. PICK l, rest : l = Head(pending) /\ rest = Tail(pending)
  OBVIOUS
<1>2. /\ pending # <<>> /\ pending' = rest /\ sunk' = sunk + l.n
      /\ UNCHANGED <<buckets, clock, recorded, lineNo, crashed>>
  BY <1>1 DEF Sink
<1>3. pending \in Seq(TrailLine) /\ buckets \in Seq(Groups)
  BY DEF TrailInv
<1>4. l \in TrailLine /\ rest \in Seq(TrailLine) /\ pending = <<l>> \o rest
  BY <1>1, <1>2, <1>3
<1>5. <<l>> \in Seq(TrailLine) /\ Total(CountOf(<<l>>)) = l.n /\ l.n \in Nat
  BY <1>4, CountOne DEF TrailLine
<1>6. Total(CountOf(pending)) = l.n + Total(CountOf(rest)) /\ Total(CountOf(rest)) \in Nat
  BY <1>4, <1>5, CountConcat
<1>7. EventsAccounted'
  <2>1. /\ recorded \in Int /\ sunk \in Int /\ crashed \in Int /\ Total(HeldOf(buckets)) \in Nat
        /\ recorded = sunk + crashed + (l.n + Total(CountOf(rest))) + Total(HeldOf(buckets))
    BY <1>6, TrailFacts
  <2>2. ASSUME NEW r \in Int, NEW s \in Int, NEW c \in Int, NEW n \in Nat, NEW p \in Nat, NEW b \in Nat,
               r = s + c + (n + p) + b
        PROVE  r = (s + n) + c + p + b
    BY <2>2
  <2>3. recorded = (sunk + l.n) + crashed + Total(CountOf(rest)) + Total(HeldOf(buckets))
    BY <1>5, <1>6, <2>1, <2>2
  <2>4. recorded' = sunk' + crashed' + Total(CountOf(pending')) + Total(HeldOf(buckets'))
    BY <1>2, <2>3, Zenon
  <2> QED BY <2>4, AccountedNext, Zenon
<1>8. sunk' \in Int
  BY <1>2, <1>5, TrailFacts
<1> QED BY <1>2, <1>3, <1>4, <1>7, <1>8, TrailFacts DEF TrailInv

LEMMA TrailAuditStep == TrailInv /\ AuditStep => TrailInv'
<1> SUFFICES ASSUME TrailInv, AuditStep PROVE TrailInv'
  OBVIOUS
<1>1. ASSUME PruneAudit PROVE TrailInv'
  <2>1. UNCHANGED <<buckets, pending, recorded, lineNo, sunk, crashed>> /\ clock' = clock
    BY <1>1 DEF PruneAudit
  <2> QED BY <2>1, TrailFacts, TrailStays
<1>2. ASSUME AuditTick PROVE TrailInv'
  <2>1. UNCHANGED <<buckets, pending, recorded, lineNo, sunk, crashed>> /\ clock' = clock + 1
    BY <1>2 DEF AuditTick
  <2>2. clock' \in Int
    BY <2>1, TrailFacts
  <2> QED BY <2>1, <2>2, TrailStays
<1>3. \/ FlushAudit \/ PruneAudit \/ AuditTick
      \/ \E cls \in {"protected", "fail"} : WriteDirect(cls)
      \/ \E cls \in {"loop", "fail"}, key \in AggKeys : RecordAggregated(cls, key)
      \/ \E fail, refused, write : Sink(fail, refused, write)
  BY Zenon DEF AuditStep
<1> QED BY <1>1, <1>2, <1>3, TrailFlush, TrailDirect, TrailRecord, TrailSink

LEMMA TrailElsewhere ==
  ASSUME [Next]_vars
  PROVE  AuditStep \/ AuditBoot \/ UNCHANGED auditVars
<1>1. CASE SessionStep
  BY <1>1 DEF SessionStep, BootStep, Ticks, Arrives, Enters, Works, Tracks, Sweeps, Others, Credits, Lapses,
              ChainMoves, WithPool, NotSessions
<1>2. CASE StoreStep
  BY <1>2 DEF StoreStep
<1>3. CASE HouseStep
  BY <1>3 DEF HouseStep, HouseDay, HouseTick, HouseWorks, HouseUp, InHouse
<1>4. CASE ProcessStep
  BY <1>4 DEF ProcessStep, RestartRequested, StopSignal, DrainHearsStop, Drained, Exec, Exits, BootCancelled,
              ShutdownClose, StartAgain, Held
<1>5. CASE Crash
  BY <1>5 DEF Crash, StartAgain
<1>6. CASE UNCHANGED vars
  BY <1>6 DEF vars
<1> QED BY <1>1, <1>2, <1>3, <1>4, <1>5, <1>6 DEF Next

LEMMA TrailStep ==
  ASSUME TrailInv, [Next]_vars
  PROVE  TrailInv'
<1>1. CASE UNCHANGED auditVars
  <2>1. UNCHANGED <<buckets, pending, recorded, lineNo, sunk, crashed>> /\ clock' = clock
    BY <1>1 DEF auditVars
  <2> QED BY <2>1, TrailFacts, TrailStays
<1> QED BY <1>1, TrailElsewhere, TrailAuditStep, TrailBoot

\* No event is lost or counted twice on its way to the audit trail: each one
\* recorded has been written, waits in a line, or is counted in a window whose
\* summary will say so; only a restart forgets any (audit_route.go, Record and
\* flushLocked), for any keys, windows and bounds.
THEOREM EventsAreAccounted == Spec => []EventsAccounted
<1>1. Init => TrailInv
  BY TrailStart DEF Init
<1>2. TrailInv => EventsAccounted
  BY DEF TrailInv
<1> QED BY <1>1, <1>2, TrailStep, PTL DEF Spec
=============================================================================
