-------------------------- MODULE PoolLeaseProofs --------------------------
(***************************************************************************)
(* Proofs about SessionPool in a calm world, for any requests, models and  *)
(* sessions: the leases, the pool slots, and the life of a session.        *)
(***************************************************************************)
EXTENDS PoolStepProofs

-----------------------------------------------------------------------------
(* Each part of the invariant is kept by each kind of step. *)

\* What is on chain stays there, and closed stays closed.
ChainGrows == \A s \in Sessions : /\ Born(s) => Born(s)'
                                  /\ chain[s] = "closed" => chain'[s] = "closed"

\* A step of one actor needs checking for that actor only.
LEMMA BornMoves ==
    ASSUME Typed, BornInv, NEW a \in Actors, OthersKeep(a), ChainGrows,
           \A s \in Sessions : SessionBorn(s)', \A m \in Models : EntryBorn(m)', ActorBorn(a)'
    PROVE  BornInv'
<1>1. ASSUME NEW b \in Actors \ {a} PROVE ActorBorn(b)'
  <2>1. /\ pc[b] \in AtBorn => at[b] \in Sessions
        /\ pc[b] \in FromSession => from[b] \in Sessions
        /\ seen[b].open \subseteq Sessions
        /\ ActorBorn(b)
    BY DEF Typed, Placed, TypeOK, AtBorn, AtSession, ClosePCs, Lists, BornInv
  <2>2. pc[b] = "forget" => at[b] \in Sessions
    BY <2>1 DEF AtBorn, ClosePCs
  <2>3. pc'[b] = pc[b] /\ at'[b] = at[b] /\ from'[b] = from[b] /\ seen'[b] = seen[b]
    BY DEF OthersKeep
  <2> QED
    BY <2>1, <2>2, <2>3 DEF ActorBorn, ChainGrows, Born
<1> QED
  BY <1>1 DEF BornInv

\* A step that leaves what is born.
LEMMA BornSame ==
    ASSUME Typed, Typed', BornInv, NEW a \in Actors, OthersKeep(a), UNCHANGED age,
           \A s \in Sessions : Born(s)' = Born(s) /\ (chain'[s] = "closed" <=> chain[s] = "closed"),
           \A s \in Sessions : Tracked(s)' => Tracked(s) \/ Born(s),
           \A s \in Sessions : mark'[s] # "none" => mark[s] # "none" \/ Born(s),
           \A s \in Sessions : s \in retired' => s \in retired \/ Born(s),
           \A m \in Models : entry'[m] # NoSession => entry'[m] = entry[m] \/ Born(entry'[m]),
           pc'[a] \in FromSession => Born(from'[a]),
           pc'[a] \in AtBorn => Born(at'[a]),
           pc'[a] = "forget" => chain[at'[a]] = "closed",
           \A s \in seen'[a].open : s \in seen[a].open \/ Born(s)
    PROVE  BornInv'
<1>1. ChainGrows
  BY DEF ChainGrows
<1>2. ASSUME NEW s \in Sessions PROVE SessionBorn(s)'
  BY DEF BornInv, SessionBorn
<1>3. ASSUME NEW m \in Models PROVE EntryBorn(m)'
  <2>1. entry'[m] \in Sessions \cup {NoSession}
    BY DEF Typed, TypeOK
  <2>2. entry'[m] # NoSession => Born(entry'[m])
    BY DEF BornInv, EntryBorn
  <2> QED
    BY <2>1, <2>2 DEF EntryBorn, Born
<1>4. ActorBorn(a)'
  <2>1. /\ pc'[a] \in AtBorn => at'[a] \in Sessions
        /\ pc'[a] \in FromSession => from'[a] \in Sessions
        /\ seen'[a].open \subseteq Sessions
    BY DEF Typed, Placed, TypeOK, AtBorn, AtSession, ClosePCs, Lists
  <2>2. "forget" \in AtBorn
    BY DEF AtBorn, ClosePCs
  <2>3. ActorBorn(a)
    BY DEF BornInv
  <2> QED
    BY <2>1, <2>2, <2>3 DEF ActorBorn, Born
<1> QED
  BY <1>1, <1>2, <1>3, <1>4, BornMoves

\* Lease.Done changes one count and nothing else.
LEMMA DoneTracked ==
    ASSUME Typed, NEW s \in Sessions, sess' = DoneState(s)
    PROVE  \A t \in Sessions : /\ Tracked(t)' <=> Tracked(t)
                               /\ t # s => sess'[t] = sess[t]
                               /\ Tracked(t) => /\ sess'[t].closing = sess[t].closing
                                                /\ sess'[t].retired = sess[t].retired
<1>1. CASE sess[s] = NoState \/ sess[s].inflight = 0
  BY <1>1 DEF DoneState, Tracked
<1>2. CASE ~(sess[s] = NoState \/ sess[s].inflight = 0)
  <2>1. sess[s] \in LeaseStates
    BY <1>2 DEF Typed, TypeOK
  <2>2. sess[s].inflight - 1 \in Nat
    BY <1>2, <2>1 DEF LeaseStates
  <2>3. /\ sess'[s] = [sess[s] EXCEPT !.inflight = sess[s].inflight - 1]
        /\ \A t \in Sessions \ {s} : sess'[t] = sess[t]
    BY <1>2 DEF DoneState, Typed, TypeOK
  <2>4. /\ sess'[s] \in LeaseStates
        /\ sess'[s].closing = sess[s].closing /\ sess'[s].retired = sess[s].retired
    BY <2>1, <2>2, <2>3 DEF LeaseStates
  <2> QED
    BY <1>2, <2>3, <2>4, NoStateAssumption DEF Tracked
<1> QED
  BY <1>1, <1>2

\* A close that failed changes one state, not its count.
LEMMA BackTracked ==
    ASSUME Typed, NEW s \in Sessions, sess' = BackToRetired(s)
    PROVE  \A t \in Sessions : /\ Tracked(t)' <=> Tracked(t)
                               /\ t # s => sess'[t] = sess[t]
                               /\ Tracked(t) => sess'[t].inflight = sess[t].inflight
                               /\ Tracked(s) => ~sess'[s].closing
<1>1. CASE sess[s] = NoState
  BY <1>1 DEF BackToRetired, Tracked
<1>2. CASE sess[s] # NoState
  <2> DEFINE n == IF sess[s].closeFails < MaxCloseRetries THEN sess[s].closeFails + 1 ELSE sess[s].closeFails
  <2>1. sess[s] \in LeaseStates
    BY <1>2 DEF Typed, TypeOK
  <2>2. n \in 0 .. MaxCloseRetries
    BY <2>1, RetriesAssumption DEF LeaseStates
  <2>3. sess' = [sess EXCEPT ![s] = [sess[s] EXCEPT !.closing = FALSE, !.retired = TRUE, !.closeFails = n]]
    BY <1>2 DEF BackToRetired, Typed, TypeOK
  <2> HIDE DEF n
  <2>4. /\ sess'[s] = [sess[s] EXCEPT !.closing = FALSE, !.retired = TRUE, !.closeFails = n]
        /\ \A t \in Sessions \ {s} : sess'[t] = sess[t]
    BY <2>3 DEF Typed, TypeOK
  <2>5. sess'[s] \in LeaseStates /\ ~sess'[s].closing /\ sess'[s].inflight = sess[s].inflight
    BY <2>1, <2>2, <2>4 DEF LeaseStates
  <2> QED
    BY <1>2, <2>4, <2>5, NoStateAssumption DEF Tracked
<1> QED
  BY <1>1, <1>2

\* What a scan does to the marks and to the one that makes it: it closes
\* nothing (C empty) or one session of the due ones.
Scanned(a, due, C) ==
    /\ OthersKeep(a) /\ SeesLess(a)
    /\ C \subseteq due
    /\ \/ C = {} /\ pc'[a] \in {"rest", "miss"}
       \/ \E c \in C : C = {c} /\ a \in Sweepers /\ pc'[a] = "closing" /\ at'[a] = c /\ how'[a] = "scan"
    /\ \A s \in Sessions : mark'[s] = IF s \in C THEN "now" ELSE ScanMarks(seen[a].open)[s]
    /\ closeSent' = closeSent \cup C

\* Every scan is of this form.
LEMMA ScanIsScanned ==
    ASSUME Calm, Typed, NEW a \in Actors \ Backgrounds, NEW due \in SUBSET Sessions, NEW keep, Scans(a, keep, due)
    PROVE  \E C \in SUBSET Sessions : Scanned(a, due, C)
<1> DEFINE marks == ScanMarks(seen[a].open)
<1>0. SweepPick(a, due, marks) /\ marks = [s \in Sessions |-> marks[s]]
  BY DEF Scans, ScanMarks
<1> HIDE DEF marks
<1>1. a \in Requests \/ a \in Sweepers
  BY DEF Actors, Calm
<1>2. CASE a \in Sweepers /\ due # {} /\ \A s \in Sessions : marks[s] # "cut"
  <2>1. PICK c \in due :
            /\ mark' = [marks EXCEPT ![c] = "now"]
            /\ closeSent' = closeSent \cup {c}
            /\ Go(a, "closing", c, "scan") /\ KeepFlag
            /\ seen' = [seen EXCEPT ![a] = NoList]
            /\ UNCHANGED <<slot, lock>>
    BY <1>0, <1>2 DEF SweepPick
  <2>2. OthersKeep(a) /\ pc'[a] = "closing" /\ at'[a] = c /\ how'[a] = "scan"
    BY <2>1, StepKeeps
  <2>3. SeesLess(a)
    BY <2>1 DEF SeesLess, NoList, Typed, TypeOK
  <2>4. \A s \in Sessions : mark'[s] = IF s \in {c} THEN "now" ELSE marks[s]
    BY <1>0, <2>1
  <2>5. Scanned(a, due, {c})
    BY <1>2, <2>1, <2>2, <2>3, <2>4 DEF Scanned, marks
  <2> QED
    BY <2>5
<1>3. CASE ~(a \in Sweepers /\ due # {} /\ \A s \in Sessions : marks[s] # "cut")
  <2>1. /\ mark' = marks /\ UNCHANGED closeSent
        /\ IF a \in Requests THEN Step(a, "miss") /\ UNCHANGED <<slot, lock>> ELSE End(a)
    BY <1>0, <1>3 DEF SweepPick
  <2>2. OthersKeep(a) /\ SeesLess(a) /\ pc'[a] \in {"rest", "miss"}
    <3>1. CASE End(a)
      BY <3>1, EndKeeps DEF SeesLess, NoList
    <3>2. CASE Step(a, "miss") /\ UNCHANGED <<slot, lock>>
      BY <3>2, StepKeeps DEF SeesLess, Step
    <3> QED
      BY <2>1, <3>1, <3>2
  <2>3. Scanned(a, due, {})
    BY <2>1, <2>2 DEF Scanned, marks
  <2> QED
    BY <2>3
<1> QED
  BY <1>2, <1>3

\* BornInv, by the steps of requests, of scans and of closes.
LEMMA BornByRequest ==
    ASSUME Typed, Typed', BornInv, NEW r \in Requests,
           \/ Ends(r) \/ Answered(r) \/ Rejected(r)
           \/ \E s \in Sessions : Takes(r, s) \/ Finds(r, s)
           \/ \E x \in Sessions, A \in SUBSET Sessions : Opens(r, x, A)
    PROVE  BornInv'
<1>0. r \in Actors /\ ActorBorn(r)
  BY DEF Actors, BornInv
<1>a. pc[r] \in AtSession => at[r] \in Sessions
  BY <1>0 DEF Typed, Placed
<1>1. CASE Ends(r)
  <2>1. PICK s \in Sessions : s = at[r]
    BY <1>1, <1>a DEF Ends, AtSession
  <2>2. \A t \in Sessions : Tracked(t)' <=> Tracked(t)
    BY <1>1, <2>1, DoneTracked DEF Ends
  <2>3. Born(at[r])
    BY <1>0, <1>1 DEF Ends, ActorBorn, AtBorn
  <2> QED
    BY <1>0, <1>1, <2>2, <2>3, BornSame DEF Ends, SeesLess, FromSession, AtBorn, ClosePCs, Born
<1>2. CASE Answered(r)
  BY <1>0, <1>2, BornSame DEF Answered, SeesLess, SamePlace, FromSession, AtBorn, ClosePCs, Born, Tracked
<1>3. CASE Rejected(r)
  <2>1. \A s \in Sessions : Born(s)' = Born(s) /\ (chain'[s] = "closed" <=> chain[s] = "closed")
    BY <1>3 DEF Rejected, Born, Typed, TypeOK
  <2>2. pc'[r] \in AtBorn => Born(at'[r])
    BY <1>3 DEF Rejected, Born, AtBorn, ClosePCs
  <2> QED
    BY <1>0, <1>3, <2>1, <2>2, BornSame DEF Rejected, SeesLess, FromSession, Tracked
<1>4. ASSUME NEW s \in Sessions, Takes(r, s) PROVE BornInv'
  <2>1. Born(s)
    <3>1. CASE pc[r] = "got" /\ at[r] = s
      BY <1>0, <3>1 DEF ActorBorn, AtBorn
    <3>2. CASE entry[ReqModel[r]] = s
      BY <3>2, SetsAssumption, ActorsAssumption DEF BornInv, EntryBorn
    <3> QED
      BY <1>4, <3>1, <3>2 DEF Takes
  <2>2. \A m \in Models : entry'[m] # NoSession => entry'[m] = entry[m] \/ Born(entry'[m])
    BY <1>4, <2>1 DEF Takes, Typed, TypeOK
  <2>3. \A t \in Sessions : Tracked(t)' => Tracked(t) \/ Born(t)
    BY <1>4, <2>1 DEF Takes, Tracked
  <2>4. \A t \in seen'[r].open : FALSE
    BY <1>4 DEF Takes, NoList
  <2> QED
    BY <1>0, <1>4, <2>1, <2>2, <2>3, <2>4, BornSame DEF Takes, FromSession, Born
<1>5. ASSUME NEW k \in Sessions, Finds(r, k) PROVE BornInv'
  BY <1>0, <1>5, BornSame DEF Finds, SeesLess, FromSession, AtBorn, Born, Tracked
<1>6. ASSUME NEW x \in Sessions, NEW A \in SUBSET Sessions, Opens(r, x, A) PROVE BornInv'
  <2>1. \A s \in Sessions : Born(s)' = Born(s) /\ (chain'[s] = "closed" <=> chain[s] = "closed")
    BY <1>6 DEF Opens, Born, Typed, TypeOK
  <2> QED
    BY <1>0, <1>6, <2>1, BornSame DEF Opens, SeesLess, FromSession, AtBorn, ClosePCs, Tracked
<1> QED
  BY <1>1, <1>2, <1>3, <1>4, <1>5, <1>6

\* A scan marks and adopts what its list has.
LEMMA BornByScan ==
    ASSUME Calm, Typed, Typed', BornInv,
           NEW a \in Actors \ Backgrounds, NEW due \in SUBSET Sessions, NEW keep, Scans(a, keep, due)
    PROVE  BornInv'
<1>1. PICK C \in SUBSET Sessions : Scanned(a, due, C)
  BY ScanIsScanned
<1>2. \A s \in seen[a].open : Born(s)
  BY DEF BornInv, ActorBorn
<1>3. /\ \A s \in due : s \in seen[a].open
      /\ \A m \in Models : keep[m] # NoSession => keep[m] \in seen[a].open
      /\ UNCHANGED <<chain, age, retired>>
  BY DEF Scans
<1>4. \A s \in Sessions : mark'[s] # "none" => mark[s] # "none" \/ Born(s)
  BY <1>1, <1>2, <1>3 DEF Scanned, ScanMarks, LiveMarks
<1>5. \A m \in Models : entry'[m] # NoSession => entry'[m] = entry[m] \/ Born(entry'[m])
  BY <1>2, <1>3 DEF Scans
<1>6. \A s \in Sessions : Tracked(s)' => Tracked(s) \/ Born(s)
  <2>1. \A s \in Sessions : Tracked(s)' => Tracked(s) \/ \E m \in Models : keep[m] = s
    BY DEF Scans, Tracked
  <2> QED
    BY <1>2, <1>3, <2>1, ActorsAssumption
<1>7. pc'[a] \in {"rest", "miss", "closing"} /\ (pc'[a] = "closing" => at'[a] \in due)
  BY <1>1 DEF Scanned
<1>8. OthersKeep(a) /\ \A s \in seen'[a].open : s \in seen[a].open
  BY <1>1 DEF Scanned, SeesLess
<1> QED
  BY <1>2, <1>3, <1>4, <1>5, <1>6, <1>7, <1>8, BornSame DEF FromSession, AtBorn, ClosePCs, Born

\* A close works on a session that is on chain.
LEMMA BornByCloser ==
    ASSUME Calm, Typed, Typed', BornInv, NEW a \in Actors,
           \/ Quiet(a) \/ Closes(a) \/ Forgets(a) \/ GoesBack(a) \/ StartsClose(a)
           \/ \E m \in {"none", "cut"} : GivesUp(a, m)
           \/ \E s \in Sessions : SweepsOut(a, s) \/ Retires(a, s)
           \/ \E r \in Requests : Cuts(r, a)
    PROVE  BornInv'
<1>0. ActorBorn(a)
  BY DEF BornInv
<1>a. /\ pc[a] \in AtSession => at[a] \in Sessions
      /\ pc[a] \in FromSession => from[a] \in Sessions
  BY DEF Typed, Placed
<1>1. CASE Quiet(a)
  <2>1. (pc'[a] \in AtBorn => pc'[a] = "closeFailed") /\ pc'[a] # "forget"
    BY <1>1 DEF Quiet, QuietPCs, AtBorn, ClosePCs
  <2>2. pc'[a] \in AtBorn => Born(at'[a])
    BY <1>0, <1>1, <2>1 DEF Quiet, ActorBorn, AtBorn, ClosePCs
  <2>3. pc'[a] \in FromSession => Born(from'[a])
    BY <1>0, <1>1 DEF Quiet, ActorBorn
  <2> QED
    BY <1>0, <1>1, <2>1, <2>2, <2>3, BornSame DEF Quiet, PoolSame, Tracked, Born
<1>2. CASE Closes(a)
  BY <1>0, <1>2, BornSame DEF Closes, SamePlace, SeesLess, ActorBorn, AtBorn, ClosePCs, FromSession, Tracked, Typed, TypeOK, Born
<1>3. CASE Forgets(a)
  <2>1. \A s \in Sessions : Tracked(s)' => Tracked(s)
    BY <1>3 DEF Forgets, Tracked, Typed, TypeOK
  <2>2. \A m \in Models : entry'[m] # NoSession => entry'[m] = entry[m]
    BY <1>3 DEF Forgets
  <2>3. pc'[a] \notin AtBorn \cup FromSession
    BY <1>3 DEF Forgets, Leaves, AtBorn, ClosePCs, FromSession
  <2> QED
    BY <1>0, <1>3, <2>1, <2>2, <2>3, BornSame DEF Forgets, Leaves, SeesLess, Born
<1>4. CASE GoesBack(a)
  <2>1. PICK s \in Sessions : s = at[a]
    BY <1>4, <1>a DEF GoesBack, AtSession
  <2>2. \A t \in Sessions : Tracked(t)' <=> Tracked(t)
    BY <1>4, <2>1, BackTracked DEF GoesBack
  <2>3. pc'[a] \notin AtBorn \cup FromSession
    BY <1>4 DEF GoesBack, Leaves, AtBorn, ClosePCs, FromSession
  <2> QED
    BY <1>0, <1>4, <2>2, <2>3, BornSame DEF GoesBack, Leaves, SeesLess, Born
<1>5. ASSUME NEW s \in Sessions, Retires(a, s) PROVE BornInv'
  <2>1. s = from[a]
    BY <1>5 DEF Retires
  <2>2. Born(s)
    BY <1>0, <1>5, <2>1 DEF ActorBorn, FromSession, Retires
  <2>3. \A t \in Sessions : Tracked(t)' => Tracked(t)
    BY <1>5, <2>1 DEF Retires, OnlyState, Tracked
  <2>4. pc'[a] \notin FromSession /\ pc'[a] # "forget" /\ (pc'[a] \in AtBorn => at'[a] = s)
    BY <1>5, <2>1 DEF Retires, FromSession, AtBorn, ClosePCs
  <2>5. \A m \in Models : entry'[m] # NoSession => entry'[m] = entry[m]
    BY <1>5 DEF Retires, TakenOut
  <2>6. UNCHANGED <<chain, age, mark>> /\ OthersKeep(a) /\ SeesLess(a) /\ retired' = retired \cup {s}
    BY <1>5, <2>1 DEF Retires
  <2> QED
    BY <2>2, <2>3, <2>4, <2>5, <2>6, BornSame DEF SeesLess, Born
<1>6. CASE StartsClose(a)
  <2>1. Born(at[a])
    BY <1>0, <1>6 DEF ActorBorn, AtBorn, ClosePCs, StartsClose
  <2> QED
    BY <1>6, <2>1, BornSame DEF StartsClose, SamePlace, SeesLess, AtBorn, ClosePCs, FromSession, Tracked, Typed, TypeOK, Born
<1>7. ASSUME NEW m \in {"none", "cut"}, GivesUp(a, m) PROVE BornInv'
  <2>1. Born(at[a])
    BY <1>0, <1>7 DEF ActorBorn, AtBorn, ClosePCs, GivesUp
  <2>2. OthersKeep(a) /\ SeesLess(a) /\ pc'[a] \notin FromSession /\ pc'[a] # "forget"
        /\ (pc'[a] \in AtBorn => at'[a] = at[a])
    BY <1>7 DEF GivesUp, Leaves, SamePlace, AtBorn, ClosePCs, FromSession
  <2> QED
    BY <1>7, <2>1, <2>2, BornSame DEF GivesUp, SeesLess, Tracked, Typed, TypeOK, Born
<1>8. ASSUME NEW s \in Sessions, SweepsOut(a, s) PROVE BornInv'
  <2>1. Born(s)
    BY <1>8 DEF SweepsOut, BornInv, SessionBorn
  <2>2. \A t \in Sessions : Tracked(t)' => Tracked(t)
    BY <1>8 DEF SweepsOut, OnlyState, Tracked
  <2>3. \A t \in Sessions : mark'[t] # "none" => mark[t] # "none" \/ Born(t)
    BY <1>8, <2>1 DEF SweepsOut, LiveMarks
  <2>4. \A m \in Models : entry'[m] # NoSession => entry'[m] = entry[m]
    BY <1>8 DEF SweepsOut, TakenOut
  <2> QED
    BY <1>8, <2>1, <2>2, <2>3, <2>4, BornSame DEF SweepsOut, SeesLess, AtBorn, ClosePCs, FromSession, Born
<1>9. ASSUME NEW r \in Requests, Cuts(r, a) PROVE BornInv'
  <2>1. Born(at[r])
    BY <1>9 DEF Cuts, BornInv, ActorBorn, AtBorn, Actors
  <2> QED
    BY <1>9, <2>1, BornSame DEF Cuts, PoolSame, SeesLess, AtBorn, ClosePCs, FromSession, Tracked, Born
<1> QED
  BY <1>1, <1>2, <1>3, <1>4, <1>5, <1>6, <1>7, <1>8, <1>9

\* Steps of a client or of the chain: no actor moves.
ActorsStay == UNCHANGED <<pc, at, how, flag, from, seen, slot, lock>>

\* What the chain and the clock may do.
ChainMoves ==
    /\ ActorsStay /\ UNCHANGED <<entry, sess, retired, dup>>
    /\ \A s \in Sessions :
         /\ chain'[s] = chain[s] \/ (chain[s] = "sent" /\ chain'[s] = "open")
                                 \/ (chain[s] = "open" /\ chain'[s] = "closed")
         /\ age'[s] = age[s] \/ (chain[s] = "open" /\ age'[s] # "young")
         /\ age'[s] # "young" /\ age[s] = "young" =>
              \A r \in Requests : pc[r] \in {"posting", "reconcile", "got"} => at[r] # s
         /\ Usable(s)' => Usable(s)
         /\ mark'[s] = mark[s] \/ (mark[s] = "cut" /\ mark'[s] = "lapsed")
         /\ att'[s] \in {att[s], {}}

\* The steps of the chain are such.
LEMMA ChainIsMoves ==
    ASSUME Typed, NEW s \in Sessions, ChainStep(s)
    PROVE  ChainMoves
<1>1. CASE OpenLands(s) \/ CloseLands(s) \/ ClosedElsewhere(s)
  <2>1. UNCHANGED <<age, closeSent, poolVars, slot, lock, actorVars>>
    BY <1>1 DEF OpenLands, CloseLands, ClosedElsewhere
  <2>2. \A t \in Sessions : \/ chain'[t] = chain[t]
                            \/ (chain[t] = "sent" /\ chain'[t] = "open")
                            \/ (chain[t] = "open" /\ chain'[t] = "closed")
    BY <1>1 DEF OpenLands, CloseLands, ClosedElsewhere, Typed, TypeOK
  <2> QED
    BY <2>1, <2>2 DEF ChainMoves, ActorsStay, poolVars, actorVars, Usable
<1>2. CASE TimePasses(s)
  <2>1. UNCHANGED <<chain, closeSent, poolVars, slot, lock, actorVars>>
    BY <1>2 DEF TimePasses
  <2>2. \A t \in Sessions \ {s} : age'[t] = age[t]
    BY <1>2 DEF TimePasses, Typed, TypeOK
  <2>3. chain[s] = "open" /\ age'[s] # "young" /\ (age'[s] \in {"young", "old"} => age[s] \in {"young", "old"})
    BY <1>2 DEF TimePasses, Typed, TypeOK
  <2>4. age'[s] # "young" /\ age[s] = "young" =>
          \A r \in Requests : pc[r] \in {"posting", "reconcile", "got"} => at[r] # s
    BY <1>2 DEF TimePasses
  <2> QED
    BY <2>1, <2>2, <2>3, <2>4 DEF ChainMoves, ActorsStay, poolVars, actorVars, Usable
<1>3. CASE MarkLapses(s)
  BY <1>3 DEF MarkLapses, ChainMoves, ActorsStay, actorVars, Usable, Typed, TypeOK
<1>4. CASE AttemptExpires(s)
  BY <1>4 DEF AttemptExpires, ChainMoves, ActorsStay, actorVars, chainVars, Usable, Typed, TypeOK
<1> QED
  BY <1>1, <1>2, <1>3, <1>4 DEF ChainStep

\* No actor moves.
LEMMA BornStays ==
    ASSUME Typed, BornInv, ActorsStay, ChainGrows,
           \A s \in Sessions : SessionBorn(s)', \A m \in Models : EntryBorn(m)'
    PROVE  BornInv'
<1>1. ASSUME NEW b \in Actors PROVE ActorBorn(b)'
  <2>1. /\ pc[b] \in AtBorn => at[b] \in Sessions
        /\ pc[b] \in FromSession => from[b] \in Sessions
        /\ seen[b].open \subseteq Sessions
        /\ ActorBorn(b)
    BY DEF Typed, Placed, TypeOK, AtBorn, AtSession, ClosePCs, Lists, BornInv
  <2>2. pc[b] = "forget" => at[b] \in Sessions
    BY <2>1 DEF AtBorn, ClosePCs
  <2>3. pc'[b] = pc[b] /\ at'[b] = at[b] /\ from'[b] = from[b] /\ seen'[b] = seen[b]
    BY DEF ActorsStay
  <2> QED
    BY <2>1, <2>2, <2>3 DEF ActorBorn, ChainGrows, Born
<1> QED
  BY <1>1 DEF BornInv

\* BornInv, by the steps of no actor.
LEMMA BornAround ==
    ASSUME Typed, Typed', BornInv, NEW s \in Sessions, Releases(s) \/ ChainStep(s)
    PROVE  BornInv'
<1>1. CASE Releases(s)
  <2>1. ActorsStay /\ ChainGrows
    BY <1>1 DEF Releases, ActorsStay, ChainGrows, Born
  <2>2. \A t \in Sessions : /\ Tracked(t)' <=> Tracked(t)
                            /\ t \in retired' => t \in retired \/ t = s
    BY <1>1 DEF Releases, OnlyState, Tracked
  <2>3. ASSUME NEW t \in Sessions PROVE SessionBorn(t)'
    BY <1>1, <2>2 DEF Releases, BornInv, SessionBorn, Born
  <2>4. ASSUME NEW m \in Models PROVE EntryBorn(m)'
    BY <1>1 DEF Releases, TakenOut, BornInv, EntryBorn, Born
  <2> QED
    BY <2>1, <2>3, <2>4, BornStays
<1>2. CASE ChainStep(s)
  <2>1. ChainMoves
    BY <1>2, ChainIsMoves
  <2>2. ActorsStay /\ ChainGrows
    BY <2>1 DEF ChainMoves, ChainGrows, Born
  <2>3. ASSUME NEW t \in Sessions PROVE SessionBorn(t)'
    <3>1. Tracked(t)' = Tracked(t) /\ (t \in retired' <=> t \in retired) /\ (mark'[t] # "none" => mark[t] # "none")
      BY <2>1 DEF ChainMoves, Tracked
    <3>2. ~Born(t)' => ~Born(t) /\ age'[t] = "young"
      BY <2>1 DEF ChainMoves, Born, BornInv, SessionBorn
    <3> QED
      BY <2>2, <3>1, <3>2 DEF BornInv, SessionBorn, ChainGrows
  <2>4. ASSUME NEW m \in Models PROVE EntryBorn(m)'
    BY <2>1, <2>2 DEF ChainMoves, BornInv, EntryBorn, ChainGrows, Typed, TypeOK, Born
  <2> QED
    BY <2>2, <2>3, <2>4, BornStays
<1> QED
  BY <1>1, <1>2

\* Nothing is known before it is on chain.
LEMMA BornKept ==
    ASSUME Calm, Typed, Typed', BornInv, StepKinds
    PROVE  BornInv'
<1>1. \A r \in Requests : r \in Actors
  BY DEF Actors
<1>2. \A b \in Backgrounds \cup Sweepers : b \in Actors
  BY DEF Actors
<1> QED
  BY <1>1, <1>2, BornByRequest, BornByScan, BornByCloser, BornAround DEF StepKinds

\* A step of one actor needs checking for that actor only.
LEMMA ModelMoves ==
    ASSUME ModelInv, NEW a \in Actors, OthersKeep(a) \/ ActorsStay,
           \A m \in Models : entry'[m] # NoSession => entry'[m] = entry[m] \/ ModelOf[entry'[m]] = m,
           \A x \in Sessions : \/ att'[x] \in {att[x], {}}
                               \/ \A s \in att'[x] : ModelOf[s] = ModelOf[x],
           a \in Requests /\ ~ActorsStay => RequestModel(a)'
    PROVE  ModelInv'
<1>1. \A m \in Models : entry'[m] # NoSession => ModelOf[entry'[m]] = m
  BY DEF ModelInv
<1>2. \A x \in Sessions : \A s \in att'[x] : ModelOf[s] = ModelOf[x]
  BY DEF ModelInv
<1>3. ASSUME NEW r \in Requests PROVE RequestModel(r)'
  <2>1. CASE ActorsStay
    BY <2>1 DEF ModelInv, RequestModel, ActorsStay
  <2>2. CASE ~ActorsStay /\ r # a
    BY <2>2 DEF ModelInv, RequestModel, OthersKeep, Actors
  <2> QED
    BY <2>1, <2>2
<1> QED
  BY <1>1, <1>2, <1>3 DEF ModelInv

\* ModelInv, by the steps of requests.
LEMMA ModelByRequest ==
    ASSUME Typed, ModelInv, NEW r \in Requests,
           \/ Ends(r) \/ Answered(r) \/ Rejected(r)
           \/ \E s \in Sessions : Takes(r, s) \/ Finds(r, s)
           \/ \E x \in Sessions, A \in SUBSET Sessions : Opens(r, x, A)
    PROVE  ModelInv'
<1>0. r \in Actors /\ RequestModel(r) /\ ReqModel[r] \in Models
  BY SetsAssumption DEF Actors, ModelInv
<1>1. CASE Ends(r)
  <2>1. RequestModel(r)'
    BY <1>0, <1>1 DEF Ends, RequestModel, AtModel, FromSession
  <2> QED
    BY <1>0, <1>1, <2>1, ModelMoves DEF Ends
<1>2. CASE Answered(r)
  <2>1. RequestModel(r)'
    BY <1>0, <1>2 DEF Answered, SamePlace, RequestModel, AtModel, FromSession
  <2>2. \A x \in Sessions : att'[x] \in {att[x], {}}
    BY <1>2 DEF Answered, Typed, TypeOK
  <2> QED
    BY <1>0, <1>2, <2>1, <2>2, ModelMoves DEF Answered
<1>3. CASE Rejected(r)
  <2>1. RequestModel(r)'
    BY <1>0, <1>3 DEF Rejected, RequestModel, AtModel, FromSession
  <2>2. \A x \in Sessions : att'[x] \in {att[x], {}}
    BY <1>3 DEF Rejected, Typed, TypeOK
  <2> QED
    BY <1>0, <1>3, <2>1, <2>2, ModelMoves DEF Rejected
<1>4. ASSUME NEW s \in Sessions, Takes(r, s) PROVE ModelInv'
  <2>1. ModelOf[s] = ReqModel[r]
    BY <1>0, <1>4, ActorsAssumption DEF Takes, ModelInv, RequestModel, AtModel
  <2>2. \A m \in Models : entry'[m] # NoSession => entry'[m] = entry[m] \/ ModelOf[entry'[m]] = m
    BY <1>0, <1>4, <2>1 DEF Takes, Typed, TypeOK
  <2>3. RequestModel(r)'
    BY <1>4, <2>1 DEF Takes, RequestModel, FromSession
  <2> QED
    BY <1>0, <1>4, <2>2, <2>3, ModelMoves DEF Takes
<1>5. ASSUME NEW k \in Sessions, Finds(r, k) PROVE ModelInv'
  <2>1. pc[r] \in {"reconcile", "named"} /\ at[r] \in Sessions
    BY <1>0, <1>5 DEF Finds, Typed, Placed, AtSession
  <2>2. ModelOf[k] = ReqModel[r]
    BY <1>0, <1>5, <2>1 DEF Finds, RequestModel, AtModel, ModelInv
  <2>3. RequestModel(r)'
    BY <1>5, <2>2 DEF Finds, RequestModel, FromSession
  <2> QED
    BY <1>0, <1>5, <2>3, ModelMoves DEF Finds
<1>6. ASSUME NEW x \in Sessions, NEW A \in SUBSET Sessions, Opens(r, x, A) PROVE ModelInv'
  <2>1. RequestModel(r)'
    BY <1>6 DEF Opens, RequestModel, FromSession
  <2>2. \A y \in Sessions : \/ att'[y] \in {att[y], {}}
                            \/ \A s \in att'[y] : ModelOf[s] = ModelOf[y]
    BY <1>6 DEF Opens, Typed, TypeOK
  <2> QED
    BY <1>0, <1>6, <2>1, <2>2, ModelMoves DEF Opens
<1> QED
  BY <1>1, <1>2, <1>3, <1>4, <1>5, <1>6

\* ModelInv, by the steps of closes and failovers.
LEMMA ModelByCloser ==
    ASSUME Typed, ModelInv, NEW a \in Actors,
           \/ Quiet(a) \/ Closes(a) \/ Forgets(a) \/ GoesBack(a) \/ StartsClose(a)
           \/ \E m \in {"none", "cut"} : GivesUp(a, m)
           \/ \E s \in Sessions : SweepsOut(a, s) \/ Retires(a, s)
           \/ a \in Backgrounds /\ \E r \in Requests : Cuts(r, a)
    PROVE  ModelInv'
<1>1. OthersKeep(a) /\ \A x \in Sessions : att'[x] = att[x]
  BY DEF Quiet, Closes, Forgets, GoesBack, StartsClose, GivesUp, SweepsOut, Retires, Cuts, Leaves, PoolSame
<1>2. \A m \in Models : entry'[m] # NoSession => entry'[m] = entry[m]
  <2>1. CASE \E s \in Sessions : SweepsOut(a, s) \/ Retires(a, s)
    BY <2>1 DEF SweepsOut, Retires, TakenOut
  <2>2. CASE Forgets(a)
    BY <2>2 DEF Forgets
  <2> QED
    BY <2>1, <2>2 DEF Quiet, Closes, GoesBack, StartsClose, GivesUp, Cuts, PoolSame
<1>3. ASSUME a \in Requests PROVE RequestModel(a)'
  <2>0. RequestModel(a) /\ a \notin Backgrounds
    BY <1>3, ActorsAssumption DEF ModelInv
  <2>1. CASE Quiet(a)
    BY <2>0, <2>1 DEF Quiet, QuietPCs, RequestModel, AtModel
  <2>2. CASE ~Quiet(a)
    <3>1. pc'[a] \notin AtModel \cup FromSession
      BY <2>0, <2>2 DEF Closes, Forgets, GoesBack, StartsClose, GivesUp, SweepsOut, Retires, Leaves, AtModel, FromSession
    <3> QED
      BY <3>1 DEF RequestModel
  <2> QED
    BY <2>1, <2>2
<1> QED
  BY <1>1, <1>2, <1>3, ModelMoves

\* Every session is of the model it is kept for.
LEMMA ModelKept ==
    ASSUME Calm, Typed, ModelInv, StepKinds
    PROVE  ModelInv'
<1>1. \A r \in Requests : r \in Actors
  BY DEF Actors
<1>2. \A b \in Backgrounds \cup Sweepers : b \in Actors
  BY DEF Actors
<1>3. ASSUME NEW a \in Actors \ Backgrounds, NEW due \in SUBSET Sessions, NEW keep, Scans(a, keep, due)
      PROVE  ModelInv'
  <2>1. PICK C \in SUBSET Sessions : Scanned(a, due, C)
    BY <1>3, ScanIsScanned
  <2>2. OthersKeep(a) /\ pc'[a] \notin AtModel \cup FromSession
    BY <2>1 DEF Scanned, AtModel, FromSession
  <2>3. \A m \in Models : entry'[m] # NoSession => entry'[m] = entry[m] \/ ModelOf[entry'[m]] = m
    BY <1>3 DEF Scans
  <2>4. \A x \in Sessions : att'[x] \in {att[x], {}}
    BY <1>3 DEF Scans
  <2> QED
    BY <2>2, <2>3, <2>4, ModelMoves DEF RequestModel
<1>4. ASSUME NEW s \in Sessions, Releases(s) \/ ChainStep(s) PROVE ModelInv'
  <2>1. ActorsStay
    BY <1>4, ChainIsMoves DEF Releases, ChainMoves, ActorsStay
  <2>2. \A m \in Models : entry'[m] # NoSession => entry'[m] = entry[m]
    BY <1>4, ChainIsMoves DEF Releases, TakenOut, ChainMoves
  <2>3. \A x \in Sessions : att'[x] \in {att[x], {}}
    BY <1>4, ChainIsMoves DEF Releases, ChainMoves
  <2>4. \A m \in Models : entry'[m] # NoSession => ModelOf[entry'[m]] = m
    BY <2>2 DEF ModelInv
  <2>5. \A x \in Sessions : \A t \in att'[x] : ModelOf[t] = ModelOf[x]
    BY <2>3 DEF ModelInv
  <2>6. \A r \in Requests : RequestModel(r)'
    BY <2>1 DEF ModelInv, RequestModel, ActorsStay
  <2> QED
    BY <2>4, <2>5, <2>6 DEF ModelInv
<1> QED
  BY <1>1, <1>2, <1>3, <1>4, ModelByRequest, ModelByCloser DEF StepKinds

\* With sure answers nothing is pending while somebody scans.
LEMMA ScanSure ==
    ASSUME Calm, Typed, PoolInv, SureInv, Sure, NEW a \in Actors \ Backgrounds, pc[a] = "apply"
    PROVE  /\ Pending = {} /\ dup = {}
           /\ \A s \in Sessions : mark[s] \in {"none", "now"}
           /\ ClosedLate(seen[a].open) = {}
           /\ \A s \in Sessions : ScanMarks(seen[a].open)[s] = mark[s]
<1>1. slot = a
  BY DEF PoolInv, SlotHeld, Needs, Actors, Calm
<1>2. Pending = {}
  BY <1>1 DEF Pending, SureInv, PoolInv, SlotHeld, Needs, WithSlot, Actors
<1>3. dup = {} /\ \A s \in Sessions : mark[s] \in {"none", "now"}
  BY DEF SureInv
<1>4. ClosedLate(seen[a].open) = {}
  BY <1>3 DEF ClosedLate
<1>5. \A s \in Sessions : ScanMarks(seen[a].open)[s] = mark[s]
  BY <1>3, <1>4 DEF ScanMarks, LiveMarks
<1> QED
  BY <1>2, <1>3, <1>4, <1>5

\* What a step of one actor must leave of SureInv.
LEMMA SureMoves ==
    ASSUME Typed, SureInv, NEW a \in Actors, OthersKeep(a), Sure => dup' \subseteq dup,
           Sure => \A s \in Sessions : mark'[s] \in {"none", "now"},
           Sure => \A x \in Sessions :
               \/ att'[x] = {}
               \/ att'[x] = att[x] /\ ~(pc[a] = "posting" /\ at[a] = x)
               \/ a \in Requests /\ pc'[a] = "posting" /\ at'[a] = x
    PROVE  SureInv'
<1>1. ASSUME Sure, NEW x \in Sessions, att'[x] # {} PROVE \E r \in Requests : pc'[r] = "posting" /\ at'[r] = x
  <2>1. CASE a \in Requests /\ pc'[a] = "posting" /\ at'[a] = x
    BY <2>1
  <2>2. CASE ~(a \in Requests /\ pc'[a] = "posting" /\ at'[a] = x)
    <3>1. att'[x] = att[x] /\ ~(pc[a] = "posting" /\ at[a] = x)
      BY <1>1, <2>2
    <3>2. PICK r \in Requests : pc[r] = "posting" /\ at[r] = x
      BY <1>1, <3>1 DEF SureInv
    <3>3. pc'[r] = "posting" /\ at'[r] = x
      BY <3>1, <3>2 DEF OthersKeep, Actors
    <3> QED
      BY <3>3
  <2> QED
    BY <2>1, <2>2
<1> QED
  BY <1>1 DEF SureInv, Sure

\* SureInv, by the steps of requests.
LEMMA SureByRequest ==
    ASSUME Typed, ControlInv, SureInv, NEW r \in Requests,
           \/ Ends(r) \/ Answered(r) \/ Rejected(r)
           \/ \E s \in Sessions : Takes(r, s) \/ Finds(r, s)
           \/ \E x \in Sessions, A \in SUBSET Sessions : Opens(r, x, A)
    PROVE  SureInv'
<1>0. r \in Actors /\ (Sure => \A s \in Sessions : mark[s] \in {"none", "now"})
  BY DEF Actors, SureInv
<1>1. CASE Ends(r)
  BY <1>0, <1>1, SureMoves DEF Ends
<1>2. CASE Answered(r) \/ Rejected(r)
  <2>1. OthersKeep(r) /\ UNCHANGED <<mark, dup>> /\ att' = [att EXCEPT ![at[r]] = {}]
    BY <1>2 DEF Answered, Rejected
  <2>2. \A x \in Sessions : att'[x] = IF x = at[r] THEN {} ELSE att[x]
    BY <2>1 DEF Typed, TypeOK
  <2> QED
    BY <1>0, <2>1, <2>2, SureMoves
<1>3. ASSUME NEW s \in Sessions, Takes(r, s) PROVE SureInv'
  BY <1>0, <1>3, SureMoves DEF Takes
<1>4. ASSUME NEW k \in Sessions, Finds(r, k) PROVE SureInv'
  <2>1. Sure => pc[r] = "named"
    BY <1>4 DEF Finds, ControlInv, RequestControl, Sure
  <2> QED
    BY <1>0, <1>4, <2>1, SureMoves DEF Finds
<1>5. ASSUME NEW x \in Sessions, NEW A \in SUBSET Sessions, Opens(r, x, A) PROVE SureInv'
  <2>1. \A y \in Sessions : att'[y] = IF y = x THEN A ELSE att[y]
    BY <1>5 DEF Opens, Typed, TypeOK
  <2> QED
    BY <1>0, <1>5, <2>1, SureMoves DEF Opens
<1> QED
  BY <1>1, <1>2, <1>3, <1>4, <1>5

\* SureInv, by the steps of closes and failovers.
LEMMA SureByCloser ==
    ASSUME Typed, SureInv, NEW a \in Actors,
           \/ Quiet(a) \/ Closes(a) \/ Forgets(a) \/ GoesBack(a) \/ StartsClose(a)
           \/ \E m \in {"none", "cut"} : GivesUp(a, m)
           \/ \E s \in Sessions : SweepsOut(a, s) \/ Retires(a, s)
           \/ \E r \in Requests : Cuts(r, a)
    PROVE  SureInv'
<1>0. Sure => \A s \in Sessions : mark[s] \in {"none", "now"}
  BY DEF SureInv
<1>1. OthersKeep(a) /\ UNCHANGED att /\ dup' \subseteq dup
  BY DEF Quiet, Closes, Forgets, GoesBack, StartsClose, GivesUp, SweepsOut, Retires, Cuts, Leaves, PoolSame
<1>2. Sure => pc[a] # "posting"
  BY DEF Quiet, Closes, Forgets, GoesBack, StartsClose, GivesUp, SweepsOut, Retires, Cuts, Sure
<1>3. Sure => \A s \in Sessions : mark'[s] \in {"none", "now"}
  <2>1. CASE Closes(a) \/ StartsClose(a) \/ \E m \in {"none", "cut"} : GivesUp(a, m)
    BY <1>0, <2>1 DEF Closes, StartsClose, GivesUp, Sure, Typed, TypeOK
  <2>2. CASE \E s \in Sessions : SweepsOut(a, s)
    BY <1>0, <2>2 DEF SweepsOut, LiveMarks
  <2>3. CASE UNCHANGED mark
    BY <1>0, <2>3
  <2> QED
    BY <2>1, <2>2, <2>3 DEF Quiet, Forgets, GoesBack, Retires, Cuts, PoolSame
<1> QED
  BY <1>1, <1>2, <1>3, SureMoves

\* Nothing comes to be pending when every answer arrives.
LEMMA SureKept ==
    ASSUME Calm, Typed, PoolInv, ControlInv, SureInv, StepKinds
    PROVE  SureInv'
<1>1. \A r \in Requests : r \in Actors
  BY DEF Actors
<1>2. \A b \in Backgrounds \cup Sweepers : b \in Actors
  BY DEF Actors
<1>3. ASSUME NEW a \in Actors \ Backgrounds, NEW due \in SUBSET Sessions, NEW keep, Scans(a, keep, due)
      PROVE  SureInv'
  <2>1. PICK C \in SUBSET Sessions : Scanned(a, due, C)
    BY <1>3, ScanIsScanned
  <2>2. pc[a] = "apply" /\ (Pending = {} => dup' \subseteq dup) /\ \A x \in Sessions : att'[x] \in {att[x], {}}
    BY <1>3 DEF Scans
  <2>3. OthersKeep(a) /\ \A s \in Sessions : mark'[s] = IF s \in C THEN "now" ELSE ScanMarks(seen[a].open)[s]
    BY <2>1 DEF Scanned
  <2>4. Sure => dup' \subseteq dup /\ \A s \in Sessions : mark'[s] \in {"none", "now"}
    BY <2>2, <2>3, ScanSure
  <2> QED
    BY <2>2, <2>3, <2>4, SureMoves
<1>4. ASSUME NEW s \in Sessions, Releases(s) \/ ChainStep(s) PROVE SureInv'
  <2>1. ActorsStay /\ UNCHANGED dup
    BY <1>4, ChainIsMoves DEF Releases, ChainMoves, ActorsStay
  <2>2. \A x \in Sessions : att'[x] \in {att[x], {}}
    BY <1>4, ChainIsMoves DEF Releases, ChainMoves
  <2>3. \A x \in Sessions : mark'[x] = mark[x] \/ mark[x] = "cut"
    BY <1>4, ChainIsMoves DEF Releases, ChainMoves
  <2> QED
    BY <2>1, <2>2, <2>3 DEF SureInv, Sure, ActorsStay
<1> QED
  BY <1>1, <1>2, <1>3, <1>4, SureByRequest, SureByCloser DEF StepKinds

\* What is left of a pooled session by a step that is not about it.
StillGood(s) ==
    /\ Tracked(s) => /\ Tracked(s)'
                     /\ sess'[s].closing => sess[s].closing
                     /\ Sure /\ sess'[s].retired => sess[s].retired
    /\ Usable(s)' => Usable(s)
    /\ mark'[s] = "none" \/ mark[s] # "none" \/ ~Usable(s)'
    /\ Sure /\ s \in retired' => s \in retired

\* A pooled session left so is as good as it was.
LEMMA GoodKept ==
    ASSUME EntryInv, NEW m \in Models, NEW s \in Sessions, entry[m] = s, entry'[m] = s, StillGood(s)
    PROVE  EntryGood(m)'
<1>1. Tracked(s) /\ ~sess[s].closing /\ (Usable(s) => mark[s] = "none")
      /\ (Sure => s \notin retired /\ ~sess[s].retired)
  BY ActorsAssumption DEF EntryInv, EntryGood
<1>2. Tracked(s)' /\ ~sess'[s].closing /\ (Usable(s)' => mark'[s] = "none")
      /\ (Sure => s \notin retired' /\ ~sess'[s].retired)
  BY <1>1 DEF StillGood
<1>3. ASSUME NEW t, t = entry'[m] PROVE Tracked(t)' /\ (Usable(t)' => mark'[t] = "none")
  BY <1>2, <1>3
<1> QED
  BY <1>2, <1>3 DEF EntryGood, Tracked, Usable, Sure

\* The pool keeps what it has, or loses it.
LEMMA EntryStays ==
    ASSUME Typed', EntryInv,
           \A m \in Models, s \in Sessions : entry'[m] = s => entry[m] = s /\ StillGood(s)
    PROVE  EntryInv'
<1>1. ASSUME NEW m \in Models PROVE EntryGood(m)'
  <2>1. CASE entry'[m] = NoSession
    BY <2>1 DEF EntryGood
  <2>2. CASE entry'[m] # NoSession
    <3>1. PICK s \in Sessions : entry'[m] = s
      BY <2>2 DEF Typed, TypeOK
    <3> QED
      BY <3>1, GoodKept
  <2> QED
    BY <2>1, <2>2
<1> QED
  BY <1>1 DEF EntryInv

\* EntryInv, by the steps of requests.
LEMMA EntryByRequest ==
    ASSUME Typed, Typed', EntryInv, FreshInv, NEW r \in Requests,
           \/ Ends(r) \/ Answered(r) \/ Rejected(r)
           \/ \E s \in Sessions : Takes(r, s) \/ Finds(r, s)
           \/ \E x \in Sessions, A \in SUBSET Sessions : Opens(r, x, A)
    PROVE  EntryInv'
<1>1. CASE Ends(r)
  <2>1. PICK s \in Sessions : s = at[r]
    BY <1>1 DEF Ends, Typed, Placed, AtSession, Actors
  <2>2. \A t \in Sessions : /\ Tracked(t)' <=> Tracked(t)
                            /\ t # s => sess'[t] = sess[t]
                            /\ Tracked(t) => /\ sess'[t].closing = sess[t].closing
                                             /\ sess'[t].retired = sess[t].retired
    BY <1>1, <2>1, DoneTracked DEF Ends
  <2>3. \A t \in Sessions : StillGood(t)
    BY <1>1, <2>2 DEF Ends, StillGood, Usable
  <2> QED
    BY <1>1, <2>3, EntryStays DEF Ends
<1>2. CASE \/ Answered(r) \/ Rejected(r) \/ \E s \in Sessions : Finds(r, s)
           \/ \E x \in Sessions, A \in SUBSET Sessions : Opens(r, x, A)
  <2>1. UNCHANGED <<age, entry, sess, mark, retired>>
    BY <1>2 DEF Answered, Rejected, Finds, Opens
  <2>2. \A t \in Sessions : StillGood(t)
    BY <2>1 DEF StillGood, Usable, Tracked
  <2> QED
    BY <2>1, <2>2, EntryStays
<1>3. ASSUME NEW s \in Sessions, Takes(r, s) PROVE EntryInv'
  <2>0. Sure => s \notin retired
    <3>1. CASE pc[r] = "got" /\ at[r] = s
      BY <3>1 DEF FreshInv, Fresh
    <3>2. CASE entry[ReqModel[r]] = s
      BY <3>2, SetsAssumption, ActorsAssumption DEF EntryInv, EntryGood
    <3> QED
      BY <1>3, <3>1, <3>2 DEF Takes
  <2>1. ASSUME NEW m \in Models PROVE EntryGood(m)'
    <3>1. CASE entry'[m] = s
      <4>1. Tracked(s)' /\ ~sess'[s].closing /\ mark'[s] = "none" /\ ~sess'[s].retired /\ (Sure => s \notin retired')
        BY <1>3, <2>0 DEF Takes
      <4> QED
        BY <3>1, <4>1 DEF EntryGood, Tracked, Usable, Sure
    <3>2. CASE entry'[m] = NoSession
      BY <3>2 DEF EntryGood
    <3>3. CASE entry'[m] # s /\ entry'[m] # NoSession
      <4>1. PICK t \in Sessions : t = entry'[m]
        BY <3>3 DEF Typed, TypeOK
      <4>2. t = entry[m]
        BY <1>3, <3>3, <4>1 DEF Takes, Typed, TypeOK
      <4>3. StillGood(t)
        BY <1>3, <3>3, <4>1 DEF Takes, StillGood, Usable, Tracked
      <4> QED
        BY <4>1, <4>2, <4>3, GoodKept
    <3> QED
      BY <3>1, <3>2, <3>3
  <2> QED
    BY <2>1 DEF EntryInv
<1> QED
  BY <1>1, <1>2, <1>3

\* EntryInv, by scans: what is adopted is new, usable and not retired.
LEMMA EntryByScan ==
    ASSUME Calm, Typed, Typed', PoolInv, SureInv, EntryInv,
           NEW a \in Actors \ Backgrounds, NEW due \in SUBSET Sessions, NEW keep, Scans(a, keep, due)
    PROVE  EntryInv'
<1> DEFINE L == seen[a].open
<1>1. PICK C \in SUBSET Sessions : Scanned(a, due, C)
  BY ScanIsScanned
<1>2. /\ C \subseteq due /\ UNCHANGED <<age, retired>> /\ pc[a] = "apply"
      /\ \A s \in Sessions : mark'[s] = IF s \in C THEN "now" ELSE ScanMarks(L)[s]
  BY <1>1 DEF Scanned, Scans
<1>3. \A s \in due : Held(s) => HeldDue(s)
  BY DEF Scans
<1>4. \A s \in Sessions : sess'[s] = IF s \in ClosedLate(L) THEN NoState
                                     ELSE IF \E m \in Models : keep[m] = s THEN StateOf(s) ELSE sess[s]
  BY DEF Scans
<1> HIDE DEF L
<1>5. ASSUME NEW m \in Models, NEW s \in Sessions, entry'[m] = s, entry[m] = s, s \notin ClosedLate(L)
      PROVE  EntryGood(m)'
  <2>1. Tracked(s)
    BY <1>5, ActorsAssumption DEF EntryInv, EntryGood
  <2>2. sess'[s] = sess[s]
    BY <1>4, <1>5, <2>1 DEF Tracked, StateOf
  <2>3. mark'[s] = "none" \/ mark[s] # "none" \/ ~Usable(s)'
    BY <1>2, <1>3, <1>5 DEF Held, HeldDue, Usable, ScanMarks, LiveMarks
  <2>4. StillGood(s)
    BY <1>2, <2>1, <2>2, <2>3 DEF StillGood, Tracked, Usable
  <2> QED
    BY <1>5, <2>4, GoodKept
<1>6. ASSUME NEW m \in Models, NEW s \in Sessions, entry'[m] = s, keep[m] = s, s \notin ClosedLate(L)
      PROVE  EntryGood(m)'
  <2>1. /\ ~Held(s) /\ ScanMarks(L)[s] = "none" /\ s \notin due
        /\ Pending = {} => s \notin retired /\ (Tracked(s) => ~sess[s].retired)
    BY <1>6, ActorsAssumption DEF Scans, L
  <2>2. sess'[s] = StateOf(s) /\ StateOf(s) \in LeaseStates
    BY <1>4, <1>6, StateTyped DEF Typed
  <2>3. Tracked(s)' /\ mark'[s] = "none"
    BY <1>2, <2>1, <2>2, NoStateAssumption DEF Tracked
  <2>4. ~sess'[s].closing
    BY <2>1, <2>2 DEF Held, RetiredIdle, StateOf, NewState, Tracked
  <2>5. Sure => s \notin retired /\ ~sess'[s].retired
    <3>1. Sure => Pending = {}
      BY <1>2, ScanSure
    <3> QED
      BY <2>1, <2>2, <3>1 DEF StateOf, NewState, Tracked
  <2> QED
    BY <1>2, <1>6, <2>3, <2>4, <2>5 DEF EntryGood, Tracked, Usable, Sure
<1>7. ASSUME NEW m \in Models PROVE EntryGood(m)'
  <2>1. CASE entry'[m] = NoSession
    BY <2>1 DEF EntryGood
  <2>2. CASE entry'[m] # NoSession
    <3>1. PICK s \in Sessions : entry'[m] = s
      BY <2>2 DEF Typed, TypeOK
    <3>2. s \notin ClosedLate(L) /\ (entry[m] = s \/ keep[m] = s)
      BY <2>2, <3>1 DEF Scans, L
    <3> QED
      BY <1>5, <1>6, <3>1, <3>2
  <2> QED
    BY <2>1, <2>2
<1> QED
  BY <1>7 DEF EntryInv

\* A failover closes only where answers are sure, and what it has retired.
LEMMA FailoverSure ==
    ASSUME Calm, Typed, ControlInv, NEW a \in Requests \cup Backgrounds, pc[a] \in FailoverPCs
    PROVE  Sure /\ (pc[a] \in ClosePCs => Closer(a))
<1>1. "failover" \in Enabled
  BY DEF ControlInv, RequestControl, BackgroundControl, FailoverPCs, ClosePCs
<1>2. pc[a] \in ClosePCs => how[a] = "failover"
  BY DEF ControlInv, RequestControl, BackgroundControl
<1> QED
  BY <1>1, <1>2 DEF Calm, Sure, Closer, Owns, ClosePCs

\* EntryInv, by closes and failovers, which take the entry out first.
LEMMA EntryByCloser ==
    ASSUME Calm, Typed, Typed', ControlInv, EntryInv, CloserInv, NEW a \in Actors,
           \/ Quiet(a) \/ Closes(a) \/ Forgets(a) \/ GoesBack(a)
           \/ a \in Requests \cup Backgrounds /\ StartsClose(a)
           \/ \E m \in {"none", "cut"} : GivesUp(a, m)
           \/ \E s \in Sessions : SweepsOut(a, s) \/ Retires(a, s)
           \/ \E r \in Requests : Cuts(r, a)
    PROVE  EntryInv'
<1>0. pc[a] \in AtSession => at[a] \in Sessions
  BY DEF Typed, Placed
<1>c. ActorCloses(a)
  BY DEF CloserInv
<1>1. CASE Quiet(a) \/ \E r \in Requests : Cuts(r, a)
  <2>1. UNCHANGED <<age, entry, sess, mark, retired>>
    BY <1>1 DEF Quiet, Cuts, PoolSame
  <2>2. \A t \in Sessions : StillGood(t)
    BY <2>1 DEF StillGood, Usable, Tracked
  <2> QED
    BY <2>1, <2>2, EntryStays
<1>2. CASE Closes(a)
  <2>1. UNCHANGED <<age, entry, sess, retired>> /\ \A s \in Sessions : mark'[s] \in {"none", mark[s]}
    BY <1>2 DEF Closes, Typed, TypeOK
  <2>2. \A t \in Sessions : StillGood(t)
    BY <2>1 DEF StillGood, Usable, Tracked
  <2> QED
    BY <2>1, <2>2, EntryStays
<1>3. CASE Forgets(a)
  <2>1. \A m \in Models, s \in Sessions : entry'[m] = s => entry[m] = s /\ s # at[a]
    BY <1>3, ActorsAssumption DEF Forgets
  <2>2. \A s \in Sessions : s # at[a] => sess'[s] = sess[s]
    BY <1>3 DEF Forgets, Typed, TypeOK
  <2>3. \A s \in Sessions : s # at[a] => StillGood(s)
    BY <1>3, <2>2 DEF Forgets, StillGood, Usable, Tracked
  <2> QED
    BY <2>1, <2>3, EntryStays
<1>4. CASE GoesBack(a)
  <2>1. PICK s \in Sessions : s = at[a]
    BY <1>0, <1>4 DEF GoesBack, AtSession
  <2>2. /\ \A t \in Sessions : Tracked(t)' <=> Tracked(t)
        /\ \A t \in Sessions : t # s => sess'[t] = sess[t]
        /\ Tracked(s) => ~sess'[s].closing
    BY <1>4, <2>1, BackTracked DEF GoesBack
  <2>3. how[a] \in {"retired", "failover"}
    BY <1>4 DEF GoesBack, ControlInv, RequestControl, BackgroundControl, SweeperControl, ClosePCs, Actors, Calm
  <2>4. Sure => Unpooled(s)
    BY <1>4, <1>c, <2>1, <2>3 DEF ActorCloses, Closer, Owns, GoesBack
  <2>5. \A t \in Sessions : t # s \/ ~Sure => StillGood(t)
    BY <1>4, <2>2 DEF GoesBack, StillGood, Usable
  <2>6. \A m \in Models, t \in Sessions : entry'[m] = t => entry[m] = t /\ StillGood(t)
    BY <1>4, <2>4, <2>5 DEF GoesBack, Unpooled
  <2> QED
    BY <2>6, EntryStays
<1>5. ASSUME NEW m \in {"none", "cut"}, GivesUp(a, m) PROVE EntryInv'
  <2>1. \A n \in Models : entry[n] = at[a] => ~Usable(at[a])
    BY <1>5, <1>c DEF ActorCloses, GivesUp
  <2>2. UNCHANGED <<age, entry, sess, retired>> /\ \A s \in Sessions : mark'[s] = IF s = at[a] THEN m ELSE mark[s]
    BY <1>5 DEF GivesUp, Typed, TypeOK
  <2>3. ASSUME NEW n \in Models, NEW s \in Sessions, entry[n] = s PROVE StillGood(s)
    BY <2>1, <2>2, <2>3 DEF StillGood, Usable, Tracked
  <2> QED
    BY <2>2, <2>3, EntryStays
<1>6. CASE a \in Requests \cup Backgrounds /\ StartsClose(a)
  <2>1. Sure /\ Closer(a)
    BY <1>6, FailoverSure DEF StartsClose, FailoverPCs, ClosePCs
  <2>2. Unpooled(at[a])
    BY <1>c, <2>1 DEF ActorCloses
  <2>3. UNCHANGED <<age, entry, sess, retired>> /\ \A s \in Sessions : s # at[a] => mark'[s] = mark[s]
    BY <1>6 DEF StartsClose, Typed, TypeOK
  <2>4. \A s \in Sessions : s # at[a] => StillGood(s)
    BY <2>3 DEF StillGood, Usable, Tracked
  <2> QED
    BY <2>2, <2>3, <2>4, EntryStays DEF Unpooled
<1>7. ASSUME NEW s \in Sessions, SweepsOut(a, s) \/ Retires(a, s) PROVE EntryInv'
  <2>1. /\ UNCHANGED age /\ retired' = retired \cup {s} /\ \A t \in Sessions \ {s} : sess'[t] = sess[t]
        /\ TakenOut(s)
    BY <1>7 DEF SweepsOut, Retires, OnlyState
  <2>2. \A t \in Sessions \ {s} : mark'[t] \in {mark[t], "none"}
    BY <1>7 DEF SweepsOut, Retires, LiveMarks
  <2>3. \A t \in Sessions \ {s} : StillGood(t)
    BY <2>1, <2>2 DEF StillGood, Usable, Tracked
  <2>4. \A m \in Models, t \in Sessions : entry'[m] = t => entry[m] = t /\ t # s
    BY <2>1, ActorsAssumption DEF TakenOut
  <2> QED
    BY <2>3, <2>4, EntryStays
<1> QED
  BY <1>1, <1>2, <1>3, <1>4, <1>5, <1>6, <1>7

\* The pool holds what it may hand out.
LEMMA EntryKept ==
    ASSUME Calm, Typed, Typed', PoolInv, LeaseInv, StepKinds
    PROVE  EntryInv'
<1>1. \A r \in Requests : r \in Actors
  BY DEF Actors
<1>2. \A b \in Backgrounds \cup Sweepers : b \in Actors
  BY DEF Actors
<1>3. ASSUME NEW s \in Sessions, Releases(s) PROVE EntryInv'
  <2>1. CASE UNCHANGED <<entry, retired>> /\ (sess'[s].retired <=> sess[s].retired)
    <3>1. \A t \in Sessions : StillGood(t)
      BY <1>3, <2>1 DEF Releases, OnlyState, StillGood, Usable, Tracked
    <3> QED
      BY <2>1, <3>1, EntryStays DEF LeaseInv
  <2>2. CASE TakenOut(s) /\ retired' = retired \cup {s}
    <3>1. \A t \in Sessions \ {s} : StillGood(t)
      BY <1>3, <2>2 DEF Releases, OnlyState, StillGood, Usable, Tracked
    <3>2. \A m \in Models, t \in Sessions : entry'[m] = t => entry[m] = t /\ t # s
      BY <2>2, ActorsAssumption DEF TakenOut
    <3> QED
      BY <3>1, <3>2, EntryStays DEF LeaseInv
  <2> QED
    BY <1>3, <2>1, <2>2 DEF Releases
<1>4. ASSUME NEW s \in Sessions, ChainStep(s) PROVE EntryInv'
  <2>1. ChainMoves
    BY <1>4, ChainIsMoves
  <2>2. \A t \in Sessions : StillGood(t)
    BY <2>1 DEF ChainMoves, StillGood, Tracked
  <2> QED
    BY <2>1, <2>2, EntryStays DEF LeaseInv, ChainMoves
<1> QED
  BY <1>1, <1>2, <1>3, <1>4, EntryByRequest, EntryByScan, EntryByCloser DEF StepKinds, LeaseInv

\* A count of zero, or none, is no lease.
LEMMA NoLeases ==
    ASSUME InflightExact, NEW s \in Sessions, Tracked(s) => sess[s].inflight = 0
    PROVE  Leases(s) = {}
<1>1. IsFiniteSet(Leases(s)) /\ Cardinality(Leases(s)) = 0
  BY LeasesFinite DEF InflightExact
<1> QED
  BY <1>1, FS_EmptySet

\* What another actor leaves of a session being opened.
StillFresh(s) ==
    /\ ~Tracked(s)' /\ mark'[s] = "none"
    /\ \A m \in Models : entry'[m] = s => entry[m] = s
    /\ Sure => s \notin retired'
    /\ age'[s] = age[s]

\* A session being opened, beside a step of another actor.
LEMMA FreshStays ==
    ASSUME FreshInv, NEW r \in Requests, pc[r] \in {"posting", "got"},
           NEW a \in Actors, a # r, OthersKeep(a),
           NEW s \in Sessions, s = at[r], StillFresh(s),
           pc'[a] \in FromSession => from'[a] # s,
           pc'[a] \in {"closing", "forget"} => at'[a] # s
    PROVE  Fresh(r)'
<1>1. Fresh(r)
  BY DEF FreshInv
<1>2. pc'[r] = pc[r] /\ at'[r] = s /\ how'[r] = how[r]
  BY DEF OthersKeep, Actors
<1>3. \A b \in Actors : /\ pc'[b] \in FromSession => from'[b] # s
                        /\ pc'[b] \in {"closing", "forget"} => at'[b] # s
  BY <1>1 DEF Fresh, OthersKeep
<1>4. \A m \in Models : entry'[m] # s
  BY <1>1 DEF StillFresh, Fresh, Unpooled
<1>5. sess'[s] = NoState /\ mark'[s] = "none" /\ (Sure => s \notin retired') /\ age'[s] = age[s]
  BY DEF StillFresh, Tracked
<1> QED
  BY <1>1, <1>2, <1>3, <1>4, <1>5 DEF Fresh, Unpooled, Tracked, Sure

\* Only one request opens for a model.
LEMMA OneOpener ==
    ASSUME Typed, ControlInv, ModelInv, NEW q \in Requests, NEW r \in Requests,
           pc[q] \in {"posting", "got"}, pc[r] \in {"posting", "got"}, at[q] = at[r]
    PROVE  q = r
BY DEF ControlInv, RequestControl, NoLock, ModelInv, RequestModel, AtModel

\* What a step of a request does to another's session being opened.
LEMMA FreshBesideRequest ==
    ASSUME Typed, ControlInv, ModelInv, FreshInv, InflightExact, NEW q \in Requests,
           \/ Ends(q) \/ Answered(q) \/ Rejected(q)
           \/ \E s \in Sessions : Takes(q, s) \/ Finds(q, s)
           \/ \E x \in Sessions, A \in SUBSET Sessions : Opens(q, x, A),
           NEW r \in Requests, r # q, pc[r] \in {"posting", "got"}
    PROVE  Fresh(r)'
<1>0. q \in Actors /\ r \in Actors /\ Fresh(r)
  BY DEF Actors, FreshInv
<1>s. PICK s \in Sessions : s = at[r]
  BY <1>0 DEF Typed, Placed, AtSession
<1>f. ~Tracked(s) /\ mark[s] = "none" /\ (Sure => s \notin retired) /\ \A m \in Models : entry[m] # s
  BY <1>0, <1>s DEF Fresh, Unpooled
<1>l. Leases(s) = {}
  BY <1>f, NoLeases
<1>1. CASE Ends(q)
  <2>1. PICK t \in Sessions : t = at[q]
    BY <1>0, <1>1 DEF Ends, Typed, Placed, AtSession
  <2>2. t # s
    BY <1>1, <1>l, <2>1 DEF Ends, Leases
  <2>3. ~Tracked(s)'
    BY <1>1, <1>f, <2>1, DoneTracked DEF Ends
  <2>4. StillFresh(s)
    BY <1>1, <1>f, <2>3 DEF Ends, StillFresh
  <2>5. OthersKeep(q) /\ (pc'[q] \in FromSession => from'[q] # s) /\ pc'[q] \notin {"closing", "forget"}
    BY <1>1, <2>1, <2>2 DEF Ends, FromSession
  <2> QED
    BY <1>0, <1>s, <2>4, <2>5, FreshStays
<1>2. CASE \/ Answered(q) \/ Rejected(q) \/ \E k \in Sessions : Finds(q, k)
           \/ \E x \in Sessions, A \in SUBSET Sessions : Opens(q, x, A)
  <2>1. UNCHANGED <<age, entry, sess, mark, retired>> /\ OthersKeep(q)
        /\ pc'[q] \notin FromSession \cup {"closing", "forget"}
    BY <1>2 DEF Answered, Rejected, Finds, Opens, FromSession
  <2>2. StillFresh(s)
    BY <1>f, <2>1 DEF StillFresh, Tracked
  <2> QED
    BY <1>0, <1>s, <2>1, <2>2, FreshStays
<1>3. ASSUME NEW t \in Sessions, Takes(q, t) PROVE Fresh(r)'
  <2>1. t # s
    <3>1. CASE pc[q] = "got" /\ at[q] = t
      BY <1>s, <3>1, OneOpener
    <3>2. CASE entry[ReqModel[q]] = t
      BY <1>f, <3>2, SetsAssumption
    <3> QED
      BY <1>3, <3>1, <3>2 DEF Takes
  <2>2. \A m \in Models : entry'[m] = s => entry[m] = s
    BY <1>3, <2>1 DEF Takes, Typed, TypeOK
  <2>3. StillFresh(s)
    BY <1>3, <1>f, <2>1, <2>2 DEF Takes, StillFresh, Tracked
  <2>4. OthersKeep(q) /\ pc'[q] \notin FromSession \cup {"closing", "forget"}
    BY <1>3 DEF Takes, FromSession
  <2> QED
    BY <1>0, <1>s, <2>3, <2>4, FreshStays
<1> QED
  BY <1>1, <1>2, <1>3

\* FreshInv, by the steps of requests.
LEMMA FreshByRequest ==
    ASSUME Calm, Typed, Typed', PoolInv, LeaseInv, NEW q \in Requests,
           \/ Ends(q) \/ Answered(q) \/ Rejected(q)
           \/ \E s \in Sessions : Takes(q, s) \/ Finds(q, s)
           \/ \E x \in Sessions, A \in SUBSET Sessions : Opens(q, x, A)
    PROVE  FreshInv'
<1>0. q \in Actors
  BY DEF Actors
<1>1. ASSUME pc'[q] \in {"posting", "got"} PROVE Fresh(q)'
  <2>1. CASE Answered(q)
    <3>1. PICK s \in Sessions : s = at[q]
      BY <1>0, <2>1 DEF Answered, Typed, Placed, AtSession
    <3>2. Fresh(q) /\ pc[q] = "posting"
      BY <2>1 DEF Answered, LeaseInv, FreshInv
    <3>3. at'[q] = s /\ UNCHANGED <<age, entry, sess, mark, retired>> /\ pc'[q] = "got"
      BY <2>1, <3>1 DEF Answered, SamePlace
    <3>4. \A a \in Actors : /\ pc'[a] \in FromSession => from'[a] # s
                            /\ pc'[a] \in {"closing", "forget"} => at'[a] # s
      BY <2>1, <3>1, <3>2, <3>3 DEF Fresh, Answered, OthersKeep, FromSession
    <3> QED
      BY <3>1, <3>2, <3>3, <3>4 DEF Fresh, Unpooled, Tracked, Sure
  <2>2. ASSUME NEW k \in Sessions, Finds(q, k) PROVE Fresh(q)'
    <3>1. /\ UNCHANGED <<chain, age, entry, sess, mark, retired>> /\ pc[q] \in {"reconcile", "named"}
          /\ chain[k] = "open" /\ mark[k] = "none" /\ ~Tracked(k)
          /\ pc'[q] = "got" /\ at'[q] = k /\ how'[q] = how[q] /\ OthersKeep(q)
      BY <2>2 DEF Finds
    <3>2. Sure => k \notin retired
      BY <2>2 DEF Finds, LeaseInv, ControlInv, RequestControl, Sure
    <3>3. Unpooled(k)
      BY <3>1, ActorsAssumption DEF Unpooled, LeaseInv, EntryInv, EntryGood
    <3>4. how[q] = "acquire"
      <4>1. pc[q] = "named" => how[q] = "acquire"
        BY DEF LeaseInv, ControlInv, RequestControl, Acquiring
      <4>2. pc[q] = "reconcile" => "failover" \notin Enabled
        BY DEF LeaseInv, ControlInv, RequestControl, Calm
      <4>3. pc[q] = "reconcile" => how[q] = "acquire"
        BY <4>2 DEF LeaseInv, ControlInv, RequestControl, Opening
      <4> QED
        BY <3>1, <4>1, <4>3
    <3>5. ASSUME NEW a \in Actors, pc[a] \in FromSession PROVE from[a] # k
      <4>1. Sure
        <5>1. a \in Requests \cup Backgrounds
          BY <3>5 DEF LeaseInv, ControlInv, SweeperControl, FromSession, Actors, Calm
        <5> QED
          BY <3>5, <5>1, FailoverSure DEF LeaseInv, FailoverPCs, FromSession
      <4> QED
        BY <3>1, <3>2, <3>5, <4>1 DEF LeaseInv, CloserInv, ActorCloses
    <3>6. ASSUME NEW a \in Actors, pc[a] \in {"closing", "forget"} PROVE FALSE
      BY <1>0, <3>1, <3>6 DEF PoolInv, SlotHeld, Needs, WithSlot
    <3>7. \A a \in Actors : /\ pc'[a] \in FromSession => from'[a] # k
                            /\ pc'[a] \in {"closing", "forget"} => at'[a] # k
      BY <3>1, <3>5, <3>6 DEF OthersKeep, FromSession
    <3> QED
      BY <3>1, <3>2, <3>3, <3>4, <3>7 DEF Fresh, Unpooled, Tracked, Sure
  <2>3. ASSUME NEW x \in Sessions, NEW A \in SUBSET Sessions, Opens(q, x, A) PROVE Fresh(q)'
    <3>1. /\ UNCHANGED <<age, entry, sess, mark, retired>> /\ pc'[q] = "posting" /\ at'[q] = x
          /\ OthersKeep(q) /\ ~Born(x)
      BY <2>3 DEF Opens, Born
    <3>2. ~Tracked(x) /\ mark[x] = "none" /\ x \notin retired /\ age[x] = "young"
      BY <3>1 DEF LeaseInv, BornInv, SessionBorn
    <3>3. Unpooled(x)
      BY <3>1, ActorsAssumption DEF Unpooled, LeaseInv, BornInv, EntryBorn
    <3>4. \A a \in Actors : /\ pc[a] \in FromSession => from[a] # x
                            /\ pc[a] \in {"closing", "forget"} => at[a] # x
      BY <3>1 DEF LeaseInv, BornInv, ActorBorn, AtBorn, ClosePCs
    <3>5. \A a \in Actors : /\ pc'[a] \in FromSession => from'[a] # x
                            /\ pc'[a] \in {"closing", "forget"} => at'[a] # x
      BY <3>1, <3>4 DEF OthersKeep, FromSession
    <3> QED
      BY <3>1, <3>2, <3>3, <3>5 DEF Fresh, Unpooled, Tracked, Sure
  <2>4. CASE Ends(q) \/ Rejected(q) \/ \E s \in Sessions : Takes(q, s)
    BY <1>1, <2>4 DEF Ends, Rejected, Takes
  <2> QED
    BY <2>1, <2>2, <2>3, <2>4
<1>2. ASSUME NEW r \in Requests, r # q, pc'[r] \in {"posting", "got"} PROVE Fresh(r)'
  <2>1. OthersKeep(q)
    BY DEF Ends, Answered, Rejected, Takes, Finds, Opens
  <2>2. pc[r] \in {"posting", "got"}
    BY <1>2, <2>1 DEF OthersKeep, Actors
  <2> QED
    BY <1>2, <2>2, FreshBesideRequest DEF LeaseInv
<1> QED
  BY <1>1, <1>2 DEF FreshInv

\* A scan runs beside no opening but a failover's, whose session it leaves.
LEMMA ScanBesideFresh ==
    ASSUME Calm, Typed, PoolInv, LeaseInv, NEW a \in Actors \ Backgrounds, pc[a] = "apply",
           NEW r \in Requests, pc[r] \in {"posting", "got"}
    PROVE  Sure /\ age[at[r]] = "young"
<1>0. r \in Actors /\ r # a
  BY DEF Actors
<1>1. slot = a
  BY DEF PoolInv, SlotHeld, Needs, Actors, Calm
<1>2. pc[r] = "got"
  BY <1>0, <1>1 DEF PoolInv, SlotHeld, Needs, WithSlot
<1>3. how[r] # "acquire"
  BY <1>0, <1>1, <1>2 DEF LeaseInv, ControlInv, RequestControl
<1>4. "failover" \in Enabled
  BY <1>2, <1>3 DEF LeaseInv, ControlInv, RequestControl, Opening
<1> QED
  BY <1>2, <1>3, <1>4 DEF Calm, Sure, LeaseInv, FreshInv, Fresh

\* FreshInv, by scans: the slot is with the open, or the list is without it.
LEMMA FreshByScan ==
    ASSUME Calm, Typed, PoolInv, LeaseInv,
           NEW a \in Actors \ Backgrounds, NEW due \in SUBSET Sessions, NEW keep, Scans(a, keep, due)
    PROVE  FreshInv'
<1>1. PICK C \in SUBSET Sessions : Scanned(a, due, C)
  BY ScanIsScanned
<1>2. ASSUME NEW r \in Requests, pc'[r] \in {"posting", "got"} PROVE Fresh(r)'
  <2>0. OthersKeep(a) /\ pc'[a] \in {"rest", "miss", "closing"} /\ (pc'[a] = "closing" => at'[a] \in C) /\ C \subseteq due
    BY <1>1 DEF Scanned
  <2>1. r # a /\ r \in Actors
    BY <1>2, <2>0 DEF Actors
  <2>2. pc[r] \in {"posting", "got"}
    BY <1>2, <2>0, <2>1 DEF OthersKeep
  <2>3. PICK s \in Sessions : s = at[r]
    BY <2>1, <2>2 DEF Typed, Placed, AtSession
  <2>4. pc[a] = "apply"
    BY DEF Scans
  <2>5. Sure /\ age[s] = "young"
    BY <2>2, <2>3, <2>4, ScanBesideFresh
  <2>6. ~Tracked(s) /\ mark[s] = "none" /\ s \notin retired /\ \A m \in Models : entry[m] # s
    BY <2>2, <2>3, <2>5 DEF LeaseInv, FreshInv, Fresh, Unpooled
  <2>7. Pending = {} /\ dup = {} /\ ScanMarks(seen[a].open)[s] = "none"
    BY <2>4, <2>5, <2>6, ScanSure DEF LeaseInv
  <2>8. \A m \in Models : keep[m] # s
    BY <2>5, <2>7, ActorsAssumption DEF Scans
  <2>9. s \notin due
    BY <2>5, <2>6, <2>7 DEF Scans, Held, Usable
  <2>10. StillFresh(s)
    <3>1. ~Tracked(s)'
      BY <2>6, <2>8 DEF Scans, Tracked
    <3>2. mark'[s] = "none"
      BY <1>1, <2>0, <2>7, <2>9 DEF Scanned
    <3>3. \A m \in Models : entry'[m] = s => entry[m] = s
      BY <2>8, ActorsAssumption DEF Scans
    <3>4. s \notin retired' /\ age'[s] = age[s]
      BY <2>6 DEF Scans
    <3> QED
      BY <3>1, <3>2, <3>3, <3>4 DEF StillFresh
  <2>11. pc'[a] \notin FromSession \cup {"forget"} /\ (pc'[a] = "closing" => at'[a] # s)
    BY <2>0, <2>9 DEF FromSession
  <2> QED
    BY <2>0, <2>1, <2>2, <2>3, <2>10, <2>11, FreshStays DEF LeaseInv
<1> QED
  BY <1>2 DEF FreshInv

\* FreshInv, by closes and failovers.
LEMMA FreshByCloser ==
    ASSUME Calm, Typed, PoolInv, LeaseInv, NEW a \in Actors,
           \/ Quiet(a) \/ Closes(a) \/ Forgets(a) \/ GoesBack(a)
           \/ a \in Requests \cup Backgrounds /\ StartsClose(a)
           \/ \E m \in {"none", "cut"} : GivesUp(a, m)
           \/ \E s \in Sessions : SweepsOut(a, s) \/ Retires(a, s)
           \/ a \in Backgrounds /\ \E r \in Requests : Cuts(r, a)
    PROVE  FreshInv'
<1>0. OthersKeep(a) /\ pc'[a] \notin {"posting", "got"}
  BY DEF Quiet, QuietPCs, Closes, Forgets, GoesBack, StartsClose, GivesUp, SweepsOut, Retires, Cuts, Leaves
<1>a. pc[a] \in AtSession => at[a] \in Sessions
  BY DEF Typed, Placed
<1>1. ASSUME NEW r \in Requests, pc'[r] \in {"posting", "got"} PROVE Fresh(r)'
  <2>1. r # a /\ r \in Actors
    BY <1>0, <1>1 DEF Actors
  <2>2. pc[r] \in {"posting", "got"}
    BY <1>0, <1>1, <2>1 DEF OthersKeep
  <2>3. PICK s \in Sessions : s = at[r]
    BY <2>1, <2>2 DEF Typed, Placed, AtSession
  <2>4. /\ ~Tracked(s) /\ mark[s] = "none" /\ (Sure => s \notin retired) /\ \A m \in Models : entry[m] # s
        /\ pc[a] \in FromSession => from[a] # s
        /\ pc[a] \in {"closing", "forget"} => at[a] # s
    BY <2>2, <2>3 DEF LeaseInv, FreshInv, Fresh, Unpooled
  <2>5. CASE Quiet(a)
    <3>1. StillFresh(s)
      BY <2>4, <2>5 DEF Quiet, PoolSame, StillFresh, Tracked
    <3>2. (pc'[a] \in FromSession => from'[a] # s) /\ pc'[a] \notin {"closing", "forget"}
      BY <2>4, <2>5 DEF Quiet, QuietPCs
    <3> QED
      BY <1>0, <2>1, <2>2, <2>3, <3>1, <3>2, FreshStays DEF LeaseInv
  <2>6. ASSUME NEW q \in Requests, Cuts(q, a) PROVE Fresh(r)'
    <3>1. StillFresh(s)
      BY <2>4, <2>6 DEF Cuts, PoolSame, StillFresh, Tracked
    <3>2. at[q] # s
      BY <2>4, <2>6, NoLeases DEF LeaseInv, Cuts, Leases
    <3>3. (pc'[a] \in FromSession => from'[a] # s) /\ pc'[a] \notin {"closing", "forget"}
      BY <2>6, <3>2 DEF Cuts
    <3> QED
      BY <1>0, <2>1, <2>2, <2>3, <3>1, <3>3, FreshStays DEF LeaseInv
  <2>7. CASE Closes(a) \/ \E m \in {"none", "cut"} : GivesUp(a, m)
    <3>1. UNCHANGED <<age, entry, sess, retired>> /\ pc[a] = "closing" /\ \A t \in Sessions : t # at[a] => mark'[t] = mark[t]
      BY <2>7 DEF Closes, GivesUp, Typed, TypeOK
    <3>2. StillFresh(s)
      BY <2>4, <3>1 DEF StillFresh, Tracked
    <3>3. pc'[a] \notin FromSession /\ (pc'[a] \in {"closing", "forget"} => at'[a] # s)
      BY <2>4, <2>7 DEF Closes, GivesUp, Leaves, SamePlace, FromSession
    <3> QED
      BY <1>0, <2>1, <2>2, <2>3, <3>2, <3>3, FreshStays DEF LeaseInv
  <2>8. CASE Forgets(a)
    <3>1. StillFresh(s)
      BY <2>4, <2>8, ActorsAssumption DEF Forgets, StillFresh, Tracked, Typed, TypeOK
    <3>2. pc'[a] \notin FromSession \cup {"closing", "forget"}
      BY <2>8 DEF Forgets, Leaves, FromSession
    <3> QED
      BY <1>0, <2>1, <2>2, <2>3, <3>1, <3>2, FreshStays DEF LeaseInv
  <2>9. CASE GoesBack(a)
    <3>1. PICK t \in Sessions : t = at[a]
      BY <1>a, <2>9 DEF GoesBack, AtSession
    <3>2. ~Tracked(s)'
      BY <2>4, <2>9, <3>1, BackTracked DEF GoesBack
    <3>3. StillFresh(s)
      BY <2>4, <2>9, <3>2 DEF GoesBack, StillFresh
    <3>4. pc'[a] \notin FromSession \cup {"closing", "forget"}
      BY <2>9 DEF GoesBack, Leaves, FromSession
    <3> QED
      BY <1>0, <2>1, <2>2, <2>3, <3>3, <3>4, FreshStays DEF LeaseInv
  <2>10. CASE a \in Requests \cup Backgrounds /\ StartsClose(a)
    <3>1. Sure /\ Closer(a)
      BY <2>10, FailoverSure DEF StartsClose, FailoverPCs, ClosePCs, LeaseInv
    <3>2. at[a] \in retired
      BY <3>1 DEF LeaseInv, CloserInv, ActorCloses
    <3>3. at[a] # s
      BY <2>4, <3>1, <3>2
    <3>4. StillFresh(s)
      BY <2>4, <2>10, <3>3 DEF StartsClose, StillFresh, Tracked, Typed, TypeOK
    <3>5. pc'[a] \notin FromSession /\ at'[a] # s
      BY <2>10, <3>3 DEF StartsClose, SamePlace, FromSession
    <3> QED
      BY <1>0, <2>1, <2>2, <2>3, <3>4, <3>5, FreshStays DEF LeaseInv
  <2>11. ASSUME NEW t \in Sessions, SweepsOut(a, t) PROVE Fresh(r)'
    <3>1. t # s
      BY <2>4, <2>11 DEF SweepsOut
    <3>2. StillFresh(s)
      BY <2>4, <2>11, <3>1, ActorsAssumption DEF SweepsOut, OnlyState, TakenOut, LiveMarks, StillFresh, Tracked
    <3>3. pc'[a] \notin FromSession /\ at'[a] # s
      BY <2>11, <3>1 DEF SweepsOut, FromSession
    <3> QED
      BY <1>0, <2>1, <2>2, <2>3, <3>2, <3>3, FreshStays DEF LeaseInv
  <2>12. ASSUME NEW t \in Sessions, Retires(a, t) PROVE Fresh(r)'
    <3>1. t # s
      BY <2>4, <2>12 DEF Retires, FromSession
    <3>2. StillFresh(s)
      BY <2>4, <2>12, <3>1, ActorsAssumption DEF Retires, OnlyState, TakenOut, StillFresh, Tracked
    <3>3. pc'[a] \notin FromSession \cup {"closing", "forget"}
      BY <2>12 DEF Retires, FromSession
    <3> QED
      BY <1>0, <2>1, <2>2, <2>3, <3>2, <3>3, FreshStays DEF LeaseInv
  <2> QED
    BY <2>5, <2>6, <2>7, <2>8, <2>9, <2>10, <2>11, <2>12
<1> QED
  BY <1>1 DEF FreshInv

\* Nobody else comes to a session being opened.
LEMMA FreshKept ==
    ASSUME Calm, Typed, Typed', PoolInv, LeaseInv, StepKinds
    PROVE  FreshInv'
<1>1. \A r \in Requests : r \in Actors
  BY DEF Actors
<1>2. \A b \in Backgrounds \cup Sweepers : b \in Actors
  BY DEF Actors
<1>3. ASSUME NEW t \in Sessions, Releases(t) \/ ChainStep(t), NEW r \in Requests, pc'[r] \in {"posting", "got"}
      PROVE  Fresh(r)'
  <2>1. ActorsStay
    BY <1>3, ChainIsMoves DEF Releases, ChainMoves, ActorsStay
  <2>2. pc[r] \in {"posting", "got"} /\ at'[r] = at[r] /\ pc'[r] = pc[r] /\ how'[r] = how[r]
    BY <1>3, <2>1 DEF ActorsStay
  <2>3. PICK s \in Sessions : s = at[r]
    BY <2>2 DEF Typed, Placed, AtSession, Actors
  <2>4. Fresh(r) /\ ~Tracked(s) /\ mark[s] = "none" /\ (Sure => s \notin retired) /\ \A m \in Models : entry[m] # s
    BY <2>2, <2>3 DEF LeaseInv, FreshInv, Fresh, Unpooled
  <2>5. StillFresh(s) \/ (~Tracked(s)' /\ mark'[s] = "none" /\ (Sure => s \notin retired')
                           /\ (age[s] = "young" => age'[s] = "young") /\ UNCHANGED entry)
    <3>1. CASE Releases(t)
      BY <2>4, <3>1, ActorsAssumption DEF Releases, OnlyState, TakenOut, StillFresh, Tracked
    <3>2. CASE ChainMoves
      <4>1. age[s] = "young" => age'[s] = "young"
        BY <2>2, <2>3, <3>2 DEF ChainMoves
      <4> QED
        BY <2>4, <3>2, <4>1 DEF ChainMoves, Tracked
    <3> QED
      BY <1>3, <3>1, <3>2, ChainIsMoves
  <2>6. sess'[s] = NoState /\ mark'[s] = "none" /\ (Sure => s \notin retired') /\ (age[s] = "young" => age'[s] = "young")
        /\ \A m \in Models : entry'[m] # s
    BY <2>4, <2>5 DEF StillFresh, Tracked
  <2> QED
    BY <2>1, <2>2, <2>3, <2>4, <2>6 DEF Fresh, Unpooled, Tracked, Sure, ActorsStay
<1>4. ASSUME NEW t \in Sessions, Releases(t) \/ ChainStep(t) PROVE FreshInv'
  BY <1>3, <1>4 DEF FreshInv
<1> QED
  BY <1>1, <1>2, <1>4, FreshByRequest, FreshByScan, FreshByCloser DEF StepKinds

\* Time and the chain go forward, and what is retired stays retired.
LEMMA TimeGrows ==
    ASSUME Calm, Typed, StepKinds
    PROVE  /\ \A s \in Sessions : /\ Usable(s)' => Usable(s)
                                  /\ chain[s] = "closed" => chain'[s] = "closed"
           /\ retired \subseteq retired'
<1>1. CASE \E s \in Sessions : ChainStep(s)
  BY <1>1, ChainIsMoves DEF ChainMoves
<1>2. CASE \E r \in Requests : Rejected(r) \/ \E x \in Sessions, A \in SUBSET Sessions : Opens(r, x, A)
  BY <1>2 DEF Rejected, Opens, Usable, Typed, TypeOK
<1>3. CASE UNCHANGED <<chain, age>> /\ retired \subseteq retired'
  BY <1>3 DEF Usable
<1>4. CASE \E a \in Actors \ Backgrounds, due \in SUBSET Sessions : \E keep : Scans(a, keep, due)
  BY <1>3, <1>4 DEF Scans
<1>5. CASE \E a \in Actors : \/ Quiet(a) \/ Closes(a) \/ Forgets(a) \/ GoesBack(a) \/ StartsClose(a)
                             \/ \E m \in {"none", "cut"} : GivesUp(a, m)
                             \/ \E s \in Sessions : SweepsOut(a, s) \/ Retires(a, s)
                             \/ \E r \in Requests : Cuts(r, a)
  BY <1>3, <1>5 DEF Quiet, Closes, Forgets, GoesBack, StartsClose, GivesUp, SweepsOut, Retires, Cuts, PoolSame
<1>6. CASE \/ \E r \in Requests : Ends(r) \/ Answered(r)
           \/ \E r \in Requests, s \in Sessions : Takes(r, s) \/ Finds(r, s)
           \/ \E s \in Sessions : Releases(s)
  BY <1>3, <1>6 DEF Ends, Answered, Takes, Finds, Releases
<1>7. \A b \in Backgrounds \cup Sweepers \cup Requests : b \in Actors
  BY DEF Actors
<1> QED
  BY <1>1, <1>2, <1>4, <1>5, <1>6, <1>7 DEF StepKinds

\* Leases are only added by taking one.
LEMMA LeasesShrink ==
    ASSUME Calm, Typed, StepKinds
    PROVE  \/ \E r \in Requests, s \in Sessions : Takes(r, s)
           \/ \A t \in Sessions : Leases(t)' \subseteq Leases(t)
<1>1. ASSUME NEW a \in Actors, OthersKeep(a), a \in Requests => pc'[a] # "using"
      PROVE  \A t \in Sessions : Leases(t)' \subseteq Leases(t)
  BY <1>1 DEF OthersKeep, Leases, Actors
<1>2. ASSUME ActorsStay PROVE \A t \in Sessions : Leases(t)' \subseteq Leases(t)
  BY <1>2 DEF ActorsStay, Leases
<1>3. ASSUME NEW a \in Actors \ Backgrounds, NEW due \in SUBSET Sessions, NEW keep, Scans(a, keep, due)
      PROVE  \A t \in Sessions : Leases(t)' \subseteq Leases(t)
  <2>2. PICK C \in SUBSET Sessions : Scanned(a, due, C)
    BY <1>3, ScanIsScanned
  <2> QED
    BY <1>1, <2>2 DEF Scanned
<1>4. ASSUME NEW a \in Actors,
             \/ Quiet(a) \/ Closes(a) \/ Forgets(a) \/ GoesBack(a) \/ StartsClose(a)
             \/ \E m \in {"none", "cut"} : GivesUp(a, m)
             \/ \E s \in Sessions : SweepsOut(a, s) \/ Retires(a, s)
             \/ \E r \in Requests : Cuts(r, a)
      PROVE  \A t \in Sessions : Leases(t)' \subseteq Leases(t)
  BY <1>1, <1>4 DEF Quiet, QuietPCs, Closes, Forgets, GoesBack, StartsClose, GivesUp, SweepsOut, Retires, Cuts, Leaves
<1>5. ASSUME NEW r \in Requests,
             \/ Ends(r) \/ Answered(r) \/ Rejected(r)
             \/ \E s \in Sessions : Finds(r, s)
             \/ \E x \in Sessions, A \in SUBSET Sessions : Opens(r, x, A)
      PROVE  \A t \in Sessions : Leases(t)' \subseteq Leases(t)
  <2>1. r \in Actors /\ OthersKeep(r) /\ pc'[r] # "using"
    BY <1>5 DEF Ends, Answered, Rejected, Finds, Opens, Actors
  <2> QED
    BY <1>1, <2>1
<1>6. ASSUME NEW s \in Sessions, Releases(s) \/ ChainStep(s)
      PROVE  \A t \in Sessions : Leases(t)' \subseteq Leases(t)
  BY <1>2, <1>6, ChainIsMoves DEF Releases, ChainMoves, ActorsStay
<1>7. \A b \in Backgrounds \cup Sweepers \cup Requests : b \in Actors
  BY DEF Actors
<1> DEFINE Shrink == \A t \in Sessions : Leases(t)' \subseteq Leases(t)
<1> HIDE DEF Shrink
<1>8. SUFFICES ASSUME ~\E r \in Requests, s \in Sessions : Takes(r, s) PROVE Shrink
  BY DEF Shrink
<1>9. ASSUME NEW s \in Sessions, Releases(s) \/ ChainStep(s) PROVE Shrink
  BY <1>6, <1>9 DEF Shrink
<1>10. ASSUME NEW r \in Requests, Ends(r) \/ Answered(r) \/ Rejected(r) PROVE Shrink
  BY <1>5, <1>10 DEF Shrink
<1>11. ASSUME NEW r \in Requests, NEW k \in Sessions, Finds(r, k) PROVE Shrink
  BY <1>5, <1>11 DEF Shrink
<1>12. ASSUME NEW r \in Requests, NEW x \in Sessions, NEW A \in SUBSET Sessions, Opens(r, x, A) PROVE Shrink
  BY <1>5, <1>12 DEF Shrink
<1>13. ASSUME NEW a \in Actors, Quiet(a) \/ Closes(a) \/ Forgets(a) \/ GoesBack(a) \/ StartsClose(a) PROVE Shrink
  BY <1>4, <1>13 DEF Shrink
<1>14. ASSUME NEW a \in Actors, NEW m \in {"none", "cut"}, GivesUp(a, m) PROVE Shrink
  BY <1>4, <1>14 DEF Shrink
<1>15. ASSUME NEW a \in Actors, NEW s \in Sessions, SweepsOut(a, s) \/ Retires(a, s) PROVE Shrink
  BY <1>4, <1>15 DEF Shrink
<1>16. ASSUME NEW a \in Actors, NEW r \in Requests, Cuts(r, a) PROVE Shrink
  BY <1>4, <1>16 DEF Shrink
<1>17. ASSUME NEW a \in Actors \ Backgrounds, NEW due \in SUBSET Sessions, NEW keep, Scans(a, keep, due) PROVE Shrink
  BY <1>3, <1>17 DEF Shrink
<1> QED
  BY <1>7, <1>8, <1>9, <1>10, <1>11, <1>12, <1>13, <1>14, <1>15, <1>16, <1>17 DEF StepKinds

\* A lease is taken on what nobody closes.
LEMMA TakesFree ==
    ASSUME Typed, LeaseInv, NEW r \in Requests, NEW s \in Sessions, Takes(r, s)
    PROVE  /\ mark[s] = "none"
           /\ \A b \in Actors : pc[b] \in {"closing", "forget"} => at[b] # s
           /\ Sure => \A b \in Actors : Closer(b) => at[b] # s
           /\ \A t \in Sessions \ {s} : Leases(t)' = Leases(t)
           /\ Leases(s)' = Leases(s) \cup {r} /\ r \notin Leases(s)
<1>0. mark[s] = "none"
  BY DEF Takes
<1>1. ASSUME NEW b \in Actors PROVE /\ pc[b] \in {"closing", "forget"} => at[b] # s
                                    /\ Sure /\ Closer(b) => at[b] # s
  <2>0. ActorCloses(b)
    BY DEF LeaseInv, CloserInv
  <2>1. CASE pc[r] = "got" /\ at[r] = s
    BY <2>0, <2>1 DEF LeaseInv, FreshInv, Fresh, ActorCloses
  <2>2. CASE entry[ReqModel[r]] = s /\ Usable(s)
    BY <2>0, <2>2, SetsAssumption DEF ActorCloses, Unpooled
  <2> QED
    BY <2>1, <2>2 DEF Takes
<1>2. /\ \A t \in Sessions \ {s} : Leases(t)' = Leases(t)
      /\ Leases(s)' = Leases(s) \cup {r} /\ r \notin Leases(s)
  BY DEF Takes, OthersKeep, Leases, Actors
<1> QED
  BY <1>0, <1>1, <1>2

\* What a scan finds due nobody uses, nor can come to use.
LEMMA DueUnused ==
    ASSUME Typed, LeaseInv, NEW a \in Actors, NEW due \in SUBSET Sessions, NEW keep, Scans(a, keep, due), NEW s \in due
    PROVE  /\ Leases(s) = {}
           /\ \A m \in Models : entry'[m] = s => ~Usable(s)
<1>1. Held(s) => HeldDue(s)
  BY DEF Scans
<1>2. Tracked(s) => sess[s].inflight = 0
  BY <1>1 DEF Held, HeldDue, RetiredIdle
<1>3. Leases(s) = {}
  BY <1>2, NoLeases DEF LeaseInv
<1>4. ASSUME NEW m \in Models, entry'[m] = s PROVE ~Usable(s)
  <2>1. keep[m] # s
    BY ActorsAssumption DEF Scans
  <2>2. entry[m] = s
    BY <1>4, <2>1, ActorsAssumption DEF Scans
  <2> QED
    BY <1>1, <2>2 DEF Held, HeldDue
<1> QED
  BY <1>3, <1>4

\* No mark is on a session in use.
MarkUnused == \A s \in Sessions : mark[s] # "none" => Leases(s) = {}

\* A new mark is on an unused session.
LEMMA NewMarkUnused ==
    ASSUME Calm, Typed, LeaseInv, StepKinds, NEW s \in Sessions, mark[s] = "none", mark'[s] # "none"
    PROVE  Leases(s) = {} /\ ~\E r \in Requests, t \in Sessions : Takes(r, t)
<1>1. ASSUME NEW a \in Actors \ Backgrounds, NEW due \in SUBSET Sessions, NEW keep, Scans(a, keep, due) PROVE Leases(s) = {}
  <2>1. PICK C \in SUBSET Sessions : Scanned(a, due, C)
    BY <1>1, ScanIsScanned
  <2>2. s \in due
    BY <2>1 DEF Scanned, ScanMarks, LiveMarks
  <2> QED
    BY <1>1, <2>2, DueUnused
<1>2. ASSUME NEW a \in Actors, NEW t \in Sessions, SweepsOut(a, t) PROVE Leases(s) = {}
  <2>1. s = t
    BY <1>2 DEF SweepsOut, LiveMarks
  <2> QED
    BY <1>2, <2>1, NoLeases DEF SweepsOut, LeaseInv
<1>3. ASSUME NEW a \in Requests \cup Backgrounds, StartsClose(a) PROVE Leases(s) = {}
  <2>1. at[a] = s
    BY <1>3 DEF StartsClose, Typed, TypeOK
  <2>2. Sure /\ Closer(a) /\ a \in Actors
    BY <1>3, FailoverSure DEF StartsClose, FailoverPCs, ClosePCs, LeaseInv, Actors
  <2> QED
    BY <2>1, <2>2 DEF LeaseInv, CloserInv, ActorCloses
<1>4. ASSUME NEW a \in Actors, NEW m \in {"none", "cut"}, GivesUp(a, m) PROVE Leases(s) = {}
  <2>1. at[a] = s /\ pc[a] = "closing"
    BY <1>4 DEF GivesUp, Typed, TypeOK
  <2> QED
    BY <2>1 DEF LeaseInv, CloserInv, ActorCloses
<1>5. ASSUME NEW a \in Actors, Closes(a) PROVE FALSE
  BY <1>5 DEF Closes, Typed, TypeOK
<1>6. ASSUME NEW a \in Actors, \/ Quiet(a) \/ Forgets(a) \/ GoesBack(a)
                               \/ \E t \in Sessions : Retires(a, t)
                               \/ \E r \in Requests : Cuts(r, a)
      PROVE FALSE
  BY <1>6 DEF Quiet, PoolSame, Forgets, GoesBack, Retires, Cuts
<1>7. ASSUME NEW r \in Requests, \/ Ends(r) \/ Answered(r) \/ Rejected(r)
                                 \/ \E t \in Sessions : Takes(r, t) \/ Finds(r, t)
                                 \/ \E x \in Sessions, A \in SUBSET Sessions : Opens(r, x, A)
      PROVE FALSE
  BY <1>7 DEF Ends, Answered, Rejected, Takes, Finds, Opens
<1>8. ASSUME NEW t \in Sessions, Releases(t) \/ ChainStep(t) PROVE FALSE
  BY <1>8, ChainIsMoves DEF Releases, ChainMoves
<1>9. \A b \in Backgrounds \cup Sweepers \cup Requests : b \in Actors
  BY DEF Actors
<1> QED
  BY <1>1, <1>2, <1>3, <1>4, <1>5, <1>6, <1>7, <1>8, <1>9 DEF StepKinds

\* It stays so.
LEMMA MarkUnusedKept ==
    ASSUME Calm, Typed, LeaseInv, StepKinds
    PROVE  MarkUnused'
<1> SUFFICES ASSUME NEW s \in Sessions, mark'[s] # "none" PROVE Leases(s)' = {}
  BY DEF MarkUnused
<1>1. Leases(s) = {}
  BY NewMarkUnused DEF LeaseInv, CloserInv
<1>2. ASSUME NEW r \in Requests, NEW t \in Sessions, Takes(r, t) PROVE Leases(s)' = {}
  <2>1. s # t
    BY <1>2 DEF Takes
  <2> QED
    BY <1>1, <1>2, <2>1, TakesFree
<1> QED
  BY <1>1, <1>2, LeasesShrink

-----------------------------------------------------------------------------
\* The three parts of ActorCloses.
ClosesUnused(a) ==
    pc[a] \in {"closing", "forget"} =>
        /\ Leases(at[a]) = {}
        /\ \A m \in Models : entry[m] = at[a] => ~Usable(at[a])
ClosesAlone(a) ==
    Sure /\ Closer(a) =>
        /\ Leases(at[a]) = {}
        /\ Unpooled(at[a])
        /\ at[a] \in retired
        /\ Tracked(at[a]) => /\ sess[at[a]].closing
                             /\ \A b \in Actors \ {a} : Closer(b) => at[b] # at[a]
FailsKnown(a) ==
    Sure /\ pc[a] \in FromSession =>
        Tracked(from[a]) \/ chain[from[a]] = "closed" \/ from[a] \in retired

\* No lease comes to a session that is being closed.
LEMMA StaysUnused ==
    ASSUME Calm, Typed, LeaseInv, StepKinds, NEW a \in Actors,
           pc[a] \in {"closing", "forget"} \/ (Sure /\ Closer(a)),
           NEW s \in Sessions, s = at[a]
    PROVE  Leases(s)' = {}
<1>1. Leases(s) = {}
  BY DEF LeaseInv, CloserInv, ActorCloses
<1>2. ASSUME NEW r \in Requests, NEW t \in Sessions, Takes(r, t) PROVE Leases(s)' = {}
  <2>1. s # t
    BY <1>2, TakesFree
  <2> QED
    BY <1>1, <1>2, <2>1, TakesFree
<1> QED
  BY <1>1, <1>2, LeasesShrink

\* What a step may put into the pool.
LEMMA NewEntry ==
    ASSUME Calm, Typed, LeaseInv, StepKinds, NEW m \in Models, NEW s \in Sessions, entry'[m] = s
    PROVE  \/ entry[m] = s
           \/ \E r \in Requests : Takes(r, s)
           \/ \E a \in Actors \ Backgrounds, due \in SUBSET Sessions : \E keep : Scans(a, keep, due) /\ keep[m] = s
<1> SUFFICES ASSUME entry[m] # s PROVE \/ \E r \in Requests : Takes(r, s)
                                       \/ \E a \in Actors \ Backgrounds, due \in SUBSET Sessions :
                                            \E keep : Scans(a, keep, due) /\ keep[m] = s
  OBVIOUS
<1>1. ASSUME NEW a \in Actors \ Backgrounds, NEW due \in SUBSET Sessions, NEW keep, Scans(a, keep, due) PROVE keep[m] = s
  BY <1>1, ActorsAssumption DEF Scans
<1>2. ASSUME NEW r \in Requests, NEW t \in Sessions, Takes(r, t) PROVE t = s
  BY <1>2 DEF Takes, Typed, TypeOK
<1>3. ASSUME NEW a \in Actors, \/ Quiet(a) \/ Closes(a) \/ Forgets(a) \/ GoesBack(a) \/ StartsClose(a)
                               \/ \E n \in {"none", "cut"} : GivesUp(a, n)
                               \/ \E t \in Sessions : SweepsOut(a, t) \/ Retires(a, t)
                               \/ \E r \in Requests : Cuts(r, a)
      PROVE  FALSE
  <2>1. entry'[m] = entry[m] \/ entry'[m] = NoSession
    BY <1>3 DEF Quiet, PoolSame, Closes, Forgets, GoesBack, StartsClose, GivesUp, SweepsOut, Retires, TakenOut, Cuts
  <2> QED
    BY <2>1, ActorsAssumption
<1>4. ASSUME NEW r \in Requests, \/ Ends(r) \/ Answered(r) \/ Rejected(r) \/ \E t \in Sessions : Finds(r, t)
                                 \/ \E x \in Sessions, A \in SUBSET Sessions : Opens(r, x, A)
      PROVE FALSE
  BY <1>4 DEF Ends, Answered, Rejected, Finds, Opens
<1>5. ASSUME NEW t \in Sessions, Releases(t) \/ ChainStep(t) PROVE FALSE
  BY <1>5, ChainIsMoves, ActorsAssumption DEF Releases, TakenOut, ChainMoves
<1>9. \A b \in Backgrounds \cup Sweepers \cup Requests : b \in Actors
  BY DEF Actors
<1> QED
  BY <1>1, <1>2, <1>3, <1>4, <1>5, <1>9 DEF StepKinds

\* How an actor comes to close a session.
LEMMA CloseOrigin ==
    ASSUME Calm, Typed, StepKinds, NEW b \in Actors, pc'[b] \in {"closing", "forget"}
    PROVE  \/ pc[b] \in {"closing", "forget"} /\ at'[b] = at[b] /\ (pc'[b] = "closing" => pc[b] = "closing")
           \/ \E due \in SUBSET Sessions : \E keep : Scans(b, keep, due) /\ at'[b] \in due
           \/ \E s \in Sessions : SweepsOut(b, s)
           \/ b \in Requests \cup Backgrounds /\ StartsClose(b)
<1> DEFINE Stays == pc[b] \in {"closing", "forget"} /\ at'[b] = at[b] /\ (pc'[b] = "closing" => pc[b] = "closing")
           Goal == \/ Stays
                   \/ \E due \in SUBSET Sessions : \E keep : Scans(b, keep, due) /\ at'[b] \in due
                   \/ \E s \in Sessions : SweepsOut(b, s)
                   \/ b \in Requests \cup Backgrounds /\ StartsClose(b)
<1>0. ASSUME NEW a \in Actors, OthersKeep(a), a # b PROVE Stays
  BY <1>0 DEF OthersKeep
<1>1. ASSUME NEW a \in Actors, \/ Quiet(a) \/ Closes(a) \/ Forgets(a) \/ GoesBack(a)
                               \/ \E n \in {"none", "cut"} : GivesUp(a, n)
                               \/ \E t \in Sessions : Retires(a, t)
                               \/ \E r \in Requests : Cuts(r, a)
      PROVE Stays
  <2>1. /\ OthersKeep(a)
        /\ pc'[a] \in {"closing", "forget"} => pc'[a] = "forget" /\ pc[a] = "closing" /\ at'[a] = at[a]
    BY <1>1 DEF Quiet, QuietPCs, Closes, Forgets, GoesBack, GivesUp, Retires, Cuts, Leaves, SamePlace
  <2> QED
    BY <1>0, <2>1
<1>2. ASSUME NEW r \in Requests, \/ Ends(r) \/ Answered(r) \/ Rejected(r)
                                 \/ \E t \in Sessions : Finds(r, t) \/ Takes(r, t)
                                 \/ \E x \in Sessions, A \in SUBSET Sessions : Opens(r, x, A)
      PROVE Stays
  <2>1. OthersKeep(r) /\ pc'[r] \notin {"closing", "forget"} /\ r \in Actors
    BY <1>2 DEF Ends, Answered, Rejected, Finds, Takes, Opens, Actors
  <2> QED
    BY <1>0, <2>1
<1>3. ASSUME NEW t \in Sessions, Releases(t) \/ ChainStep(t) PROVE Stays
  BY <1>3, ChainIsMoves DEF Releases, ChainMoves, ActorsStay
<1>4. ASSUME NEW a \in Actors \ Backgrounds, NEW due \in SUBSET Sessions, NEW keep, Scans(a, keep, due) PROVE Goal
  <2>1. PICK C \in SUBSET Sessions : Scanned(a, due, C)
    BY <1>4, ScanIsScanned
  <2>2. CASE a = b
    <3>1. at'[b] \in due
      BY <2>1, <2>2 DEF Scanned
    <3>2. Scans(b, keep, due)
      BY <1>4, <2>2
    <3> QED
      BY <3>1, <3>2
  <2>3. CASE a # b
    <3>1. OthersKeep(a)
      BY <2>1 DEF Scanned
    <3>2. Stays
      BY <1>0, <2>3, <3>1
    <3> QED
      BY <3>2
  <2> QED
    BY <2>2, <2>3
<1>5. ASSUME NEW a \in Actors, NEW s \in Sessions, SweepsOut(a, s) PROVE Goal
  <2>1. CASE a = b
    BY <1>5, <2>1
  <2>2. CASE a # b
    <3>1. Stays
      BY <1>0, <1>5, <2>2 DEF SweepsOut
    <3> QED
      BY <3>1
  <2> QED
    BY <2>1, <2>2
<1>6. ASSUME NEW a \in Requests \cup Backgrounds, StartsClose(a) PROVE Goal
  <2>1. CASE a = b
    BY <1>6, <2>1
  <2>2. CASE a # b
    <3>1. Stays
      BY <1>0, <1>6, <2>2 DEF StartsClose, Actors
    <3> QED
      BY <3>1
  <2> QED
    BY <2>1, <2>2
<1>7. Stays => Goal
  OBVIOUS
<1> HIDE DEF Stays, Goal
<1>8. \A a \in Backgrounds \cup Sweepers \cup Requests : a \in Actors
  BY DEF Actors
<1>9. Goal
  BY <1>1, <1>2, <1>3, <1>4, <1>5, <1>6, <1>7, <1>8 DEF StepKinds
<1> QED
  BY <1>9 DEF Goal, Stays

\* How an actor comes to close a session the pool has retired.
LEMMA CloserOrigin ==
    ASSUME Calm, Typed, StepKinds, NEW b \in Actors, Closer(b)'
    PROVE  \/ Closer(b) /\ at'[b] = at[b]
           \/ \E s \in Sessions : SweepsOut(b, s) \/ (Retires(b, s) /\ pc'[b] = "foClose")
<1> DEFINE Stays == Closer(b) /\ at'[b] = at[b]
           Goal == \/ Stays
                   \/ \E s \in Sessions : SweepsOut(b, s) \/ (Retires(b, s) /\ pc'[b] = "foClose")
<1>c. pc'[b] \in ClosePCs /\ how'[b] \in {"retired", "failover"}
  BY DEF Closer, Owns, ClosePCs
<1>0. ASSUME NEW a \in Actors, OthersKeep(a), a # b PROVE Stays
  BY <1>0 DEF OthersKeep, Closer
<1>1. ASSUME NEW a \in Actors, \/ Quiet(a) \/ Closes(a) \/ Forgets(a) \/ GoesBack(a) \/ StartsClose(a)
                               \/ \E n \in {"none", "cut"} : GivesUp(a, n)
                               \/ \E r \in Requests : Cuts(r, a)
      PROVE Stays
  <2>1. OthersKeep(a) /\ (pc'[a] \in ClosePCs => pc[a] \in ClosePCs /\ at'[a] = at[a] /\ how'[a] = how[a])
    BY <1>1 DEF Quiet, QuietPCs, Closes, Forgets, GoesBack, StartsClose, GivesUp, Cuts, Leaves, SamePlace, ClosePCs
  <2> QED
    BY <1>0, <1>c, <2>1 DEF Closer, Owns, ClosePCs
<1>2. ASSUME NEW r \in Requests, \/ Ends(r) \/ Answered(r) \/ Rejected(r)
                                 \/ \E t \in Sessions : Finds(r, t) \/ Takes(r, t)
                                 \/ \E x \in Sessions, A \in SUBSET Sessions : Opens(r, x, A)
      PROVE Stays
  <2>1. OthersKeep(r) /\ pc'[r] \notin ClosePCs /\ r \in Actors
    BY <1>2 DEF Ends, Answered, Rejected, Finds, Takes, Opens, Actors, ClosePCs
  <2> QED
    BY <1>0, <1>c, <2>1
<1>3. ASSUME NEW t \in Sessions, Releases(t) \/ ChainStep(t) PROVE Stays
  <2>1. ActorsStay
    BY <1>3, ChainIsMoves DEF Releases, ChainMoves, ActorsStay
  <2> QED
    BY <2>1 DEF ActorsStay, Closer
<1>4. ASSUME NEW a \in Actors \ Backgrounds, NEW due \in SUBSET Sessions, NEW keep, Scans(a, keep, due) PROVE Stays
  <2>1. PICK C \in SUBSET Sessions : Scanned(a, due, C)
    BY <1>4, ScanIsScanned
  <2>2. OthersKeep(a) /\ ~(pc'[a] \in ClosePCs /\ how'[a] \in {"retired", "failover"})
    BY <2>1 DEF Scanned, ClosePCs
  <2> QED
    BY <1>0, <1>c, <2>2
<1>5. ASSUME NEW a \in Actors, NEW s \in Sessions, SweepsOut(a, s) \/ Retires(a, s) PROVE Goal
  <2>0. OthersKeep(a) /\ (Retires(a, s) => pc'[a] \in {"foClose", "foOpen", "rest"})
    BY <1>5 DEF SweepsOut, Retires
  <2>1. CASE a = b
    BY <1>5, <1>c, <2>0, <2>1 DEF ClosePCs
  <2>2. CASE a # b
    <3>1. Stays
      BY <1>0, <2>0, <2>2
    <3> QED
      BY <3>1
  <2> QED
    BY <2>1, <2>2
<1>7. Stays => Goal
  OBVIOUS
<1> HIDE DEF Stays, Goal
<1>8. \A a \in Backgrounds \cup Sweepers \cup Requests : a \in Actors
  BY DEF Actors
<1>9. Goal
  BY <1>1, <1>2, <1>3, <1>4, <1>5, <1>7, <1>8 DEF StepKinds
<1> QED
  BY <1>9 DEF Goal, Stays

\* How an actor comes to fail over from a session.
LEMMA FailsOrigin ==
    ASSUME Calm, Typed, StepKinds, NEW b \in Actors, pc'[b] \in FromSession
    PROVE  \/ pc[b] \in FromSession /\ from'[b] = from[b]
           \/ \E r \in Requests : /\ pc[r] = "using" /\ from'[b] = at[r]
                                  /\ sess' = sess \/ sess' = DoneState(at[r])
<1> DEFINE Stays == pc[b] \in FromSession /\ from'[b] = from[b]
           Goal == \/ Stays
                   \/ \E r \in Requests : /\ pc[r] = "using" /\ from'[b] = at[r]
                                          /\ sess' = sess \/ sess' = DoneState(at[r])
<1>0. ASSUME NEW a \in Actors, OthersKeep(a), a # b PROVE Stays
  BY <1>0 DEF OthersKeep
<1>1. ASSUME NEW a \in Actors, \/ Quiet(a) \/ Closes(a) \/ Forgets(a) \/ GoesBack(a) \/ StartsClose(a)
                               \/ \E n \in {"none", "cut"} : GivesUp(a, n)
                               \/ \E s \in Sessions : SweepsOut(a, s) \/ Retires(a, s)
      PROVE Stays
  <2>1. OthersKeep(a) /\ (pc'[a] \in FromSession => pc[a] \in FromSession /\ from'[a] = from[a])
    BY <1>1 DEF Quiet, Closes, Forgets, GoesBack, StartsClose, GivesUp, Leaves, SweepsOut, Retires, FromSession
  <2> QED
    BY <1>0, <2>1
<1>2. ASSUME NEW r \in Requests, \/ Answered(r) \/ Rejected(r)
                                 \/ \E t \in Sessions : Finds(r, t) \/ Takes(r, t)
                                 \/ \E x \in Sessions, A \in SUBSET Sessions : Opens(r, x, A)
      PROVE Stays
  <2>1. OthersKeep(r) /\ pc'[r] \notin FromSession /\ r \in Actors
    BY <1>2 DEF Answered, Rejected, Finds, Takes, Opens, Actors, FromSession
  <2> QED
    BY <1>0, <2>1
<1>3. ASSUME NEW t \in Sessions, Releases(t) \/ ChainStep(t) PROVE Stays
  BY <1>3, ChainIsMoves DEF Releases, ChainMoves, ActorsStay
<1>4. ASSUME NEW a \in Actors \ Backgrounds, NEW due \in SUBSET Sessions, NEW keep, Scans(a, keep, due) PROVE Stays
  <2>1. PICK C \in SUBSET Sessions : Scanned(a, due, C)
    BY <1>4, ScanIsScanned
  <2>2. OthersKeep(a) /\ pc'[a] \notin FromSession
    BY <2>1 DEF Scanned, FromSession
  <2> QED
    BY <1>0, <2>2
<1>5. ASSUME NEW r \in Requests, Ends(r) PROVE Goal
  <2>1. OthersKeep(r) /\ r \in Actors /\ pc[r] = "using" /\ (pc'[r] \in FromSession => from'[r] = at[r])
        /\ sess' = DoneState(at[r])
    BY <1>5 DEF Ends, FromSession, Actors
  <2>2. CASE r = b
    BY <2>1, <2>2
  <2>3. CASE r # b
    <3>1. Stays
      BY <1>0, <2>1, <2>3
    <3> QED
      BY <3>1
  <2> QED
    BY <2>2, <2>3
<1>6. ASSUME NEW r \in Requests, NEW a \in Actors, Cuts(r, a) PROVE Goal
  <2>1. OthersKeep(a) /\ pc[r] = "using" /\ from'[a] = at[r] /\ sess' = sess
    BY <1>6 DEF Cuts, PoolSame
  <2>2. CASE a = b
    BY <2>1, <2>2
  <2>3. CASE a # b
    <3>1. Stays
      BY <1>0, <2>1, <2>3
    <3> QED
      BY <3>1
  <2> QED
    BY <2>2, <2>3
<1>7. Stays => Goal
  OBVIOUS
<1> HIDE DEF Stays, Goal
<1>8. \A a \in Backgrounds \cup Sweepers \cup Requests : a \in Actors
  BY DEF Actors
<1>9. Goal
  BY <1>1, <1>2, <1>3, <1>4, <1>5, <1>6, <1>7, <1>8 DEF StepKinds
<1> QED
  BY <1>9 DEF Goal, Stays

\* No session comes into the pool while it is being closed.
LEMMA StaysOut ==
    ASSUME Calm, Typed, PoolInv, LeaseInv, StepKinds, NEW b \in Actors,
           pc[b] \in {"closing", "forget"} \/ (Sure /\ Closer(b)),
           NEW s \in Sessions, s = at[b], NEW m \in Models, entry'[m] = s
    PROVE  entry[m] = s
<1>1. ASSUME NEW r \in Requests, Takes(r, s) PROVE FALSE
  BY <1>1, TakesFree
<1>2. ASSUME NEW a \in Actors \ Backgrounds, NEW due \in SUBSET Sessions, NEW keep, Scans(a, keep, due), keep[m] = s
      PROVE  FALSE
  <2>1. pc[a] = "apply" /\ slot = a
    BY <1>2 DEF Scans, PoolInv, SlotHeld, Needs, Actors, Calm
  <2>2. CASE pc[b] \in {"closing", "forget"}
    BY <2>1, <2>2 DEF PoolInv, SlotHeld, Needs, WithSlot
  <2>3. CASE Sure /\ Closer(b)
    <3>1. Pending = {}
      BY <2>1, <2>3, ScanSure DEF LeaseInv
    <3>2. s \notin retired
      BY <1>2, <3>1, ActorsAssumption DEF Scans
    <3> QED
      BY <2>3, <3>2 DEF LeaseInv, CloserInv, ActorCloses
  <2> QED
    BY <2>2, <2>3
<1> QED
  BY <1>1, <1>2, NewEntry

\* Whoever closes a session is the only one to, so it stays flagged.
LEMMA StaysClosing ==
    ASSUME Calm, Typed, PoolInv, LeaseInv, StepKinds, Sure, NEW b \in Actors, Closer(b), Closer(b)',
           NEW s \in Sessions, s = at[b], Tracked(s)'
    PROVE  Tracked(s) /\ sess'[s].closing
<1> DEFINE Goal == Tracked(s) /\ sess'[s].closing
<1>0. /\ s \in retired
      /\ Tracked(s) => /\ sess[s].closing
                       /\ \A c \in Actors \ {b} : Closer(c) => at[c] # s
  BY DEF LeaseInv, CloserInv, ActorCloses
<1>1. ASSUME sess'[s] = sess[s] PROVE Goal
  BY <1>0, <1>1 DEF Tracked
<1>2. ASSUME NEW a \in Actors, \/ Quiet(a) \/ Closes(a) \/ StartsClose(a)
                               \/ \E n \in {"none", "cut"} : GivesUp(a, n)
                               \/ \E r \in Requests : Cuts(r, a)
      PROVE Goal
  BY <1>1, <1>2 DEF Quiet, PoolSame, Closes, StartsClose, GivesUp, Cuts
<1>3. ASSUME NEW r \in Requests, \/ Answered(r) \/ Rejected(r) \/ \E t \in Sessions : Finds(r, t)
                                 \/ \E x \in Sessions, A \in SUBSET Sessions : Opens(r, x, A)
      PROVE Goal
  BY <1>1, <1>3 DEF Answered, Rejected, Finds, Opens
<1>4. ASSUME NEW r \in Requests, NEW t \in Sessions, Takes(r, t) PROVE Goal
  <2>1. t # s
    BY <1>4, TakesFree
  <2> QED
    BY <1>1, <1>4, <2>1 DEF Takes
<1>5. ASSUME NEW r \in Requests, Ends(r) PROVE Goal
  <2>1. PICK t \in Sessions : t = at[r]
    BY <1>5 DEF Ends, Typed, Placed, AtSession, Actors
  <2>2. Tracked(s) /\ sess'[s].closing = sess[s].closing
    BY <1>5, <2>1, DoneTracked DEF Ends
  <2> QED
    BY <1>0, <2>2
<1>6. ASSUME NEW a \in Actors \ Backgrounds, NEW due \in SUBSET Sessions, NEW keep, Scans(a, keep, due) PROVE Goal
  <2>1. Pending = {} /\ ClosedLate(seen[a].open) = {}
    BY <1>6, ScanSure DEF Scans, LeaseInv
  <2>2. \A m \in Models : keep[m] # s
    BY <1>0, <1>6, <2>1, ActorsAssumption DEF Scans
  <2> QED
    BY <1>1, <1>6, <2>1, <2>2 DEF Scans
<1>7. ASSUME NEW a \in Actors, Forgets(a) PROVE Goal
  <2>1. sess'[s] = IF s = at[a] THEN NoState ELSE sess[s]
    BY <1>7 DEF Forgets, Typed, TypeOK
  <2> QED
    BY <1>1, <2>1 DEF Tracked
<1>8. ASSUME NEW a \in Actors, GoesBack(a) PROVE Goal
  <2>1. PICK t \in Sessions : t = at[a]
    BY <1>8 DEF GoesBack, Typed, Placed, AtSession
  <2>2. /\ Tracked(s)
        /\ t # s => sess'[s] = sess[s]
    BY <1>8, <2>1, BackTracked DEF GoesBack
  <2>3. how[a] \in {"retired", "failover"}
    BY <1>8 DEF GoesBack, LeaseInv, ControlInv, RequestControl, BackgroundControl, SweeperControl, ClosePCs, Actors, Calm
  <2>4. Closer(a)
    BY <1>8, <2>3 DEF GoesBack, Closer, Owns
  <2>5. a # b
    BY <1>8 DEF GoesBack, Leaves, Closer, Owns
  <2> QED
    BY <1>0, <1>1, <2>1, <2>2, <2>4, <2>5
<1>9. ASSUME NEW a \in Actors, NEW t \in Sessions, SweepsOut(a, t) \/ Retires(a, t) PROVE Goal
  <2>1. CASE t # s
    BY <1>1, <1>9, <2>1 DEF SweepsOut, Retires, OnlyState
  <2>2. CASE t = s
    BY <1>0, <1>9, <2>2 DEF SweepsOut, Retires, OnlyState
  <2> QED
    BY <2>1, <2>2
<1>10. ASSUME NEW t \in Sessions, Releases(t) PROVE Goal
  <2>1. CASE t # s
    BY <1>1, <1>10, <2>1 DEF Releases, OnlyState
  <2>2. CASE t = s
    BY <1>0, <1>10, <2>2 DEF Releases
  <2> QED
    BY <2>1, <2>2
<1>11. ASSUME NEW t \in Sessions, ChainStep(t) PROVE Goal
  BY <1>1, <1>11, ChainIsMoves DEF ChainMoves
<1> HIDE DEF Goal
<1>12. \A a \in Backgrounds \cup Sweepers \cup Requests : a \in Actors
  BY DEF Actors
<1>13. Goal
  BY <1>2, <1>3, <1>4, <1>5, <1>6, <1>7, <1>8, <1>9, <1>10, <1>11, <1>12 DEF StepKinds
<1> QED
  BY <1>13 DEF Goal

\* A failed session stays known until it is closed on chain.
LEMMA StaysKnown ==
    ASSUME Calm, Typed, PoolInv, LeaseInv, StepKinds, Sure,
           NEW s \in Sessions, Tracked(s) \/ chain[s] = "closed" \/ s \in retired
    PROVE  Tracked(s)' \/ chain'[s] = "closed" \/ s \in retired'
<1> DEFINE Goal == Tracked(s)' \/ chain'[s] = "closed"
<1>1. SUFFICES ASSUME Tracked(s) PROVE Goal
  BY TimeGrows
<1>2. ASSUME NEW a \in Actors, \/ Quiet(a) \/ Closes(a) \/ StartsClose(a)
                               \/ \E n \in {"none", "cut"} : GivesUp(a, n)
                               \/ \E r \in Requests : Cuts(r, a)
      PROVE Goal
  BY <1>1, <1>2 DEF Quiet, PoolSame, Closes, StartsClose, GivesUp, Cuts, Tracked
<1>3. ASSUME NEW r \in Requests, \/ Answered(r) \/ Rejected(r) \/ \E t \in Sessions : Finds(r, t)
                                 \/ \E x \in Sessions, A \in SUBSET Sessions : Opens(r, x, A)
      PROVE Goal
  BY <1>1, <1>3 DEF Answered, Rejected, Finds, Opens, Tracked
<1>4. ASSUME NEW r \in Requests, NEW t \in Sessions, Takes(r, t) PROVE Goal
  BY <1>1, <1>4 DEF Takes, Tracked
<1>5. ASSUME NEW r \in Requests, Ends(r) PROVE Goal
  <2>1. PICK t \in Sessions : t = at[r]
    BY <1>5 DEF Ends, Typed, Placed, AtSession, Actors
  <2> QED
    BY <1>1, <1>5, <2>1, DoneTracked DEF Ends
<1>6. ASSUME NEW a \in Actors \ Backgrounds, NEW due \in SUBSET Sessions, NEW keep, Scans(a, keep, due) PROVE Goal
  <2>1. ClosedLate(seen[a].open) = {}
    BY <1>6, ScanSure DEF Scans, LeaseInv
  <2>2. sess'[s] = sess[s]
    BY <1>1, <1>6, <2>1 DEF Scans, StateOf, Tracked
  <2> QED
    BY <1>1, <2>2 DEF Tracked
<1>7. ASSUME NEW a \in Actors, Forgets(a) PROVE Goal
  <2>1. sess'[s] = IF s = at[a] THEN NoState ELSE sess[s]
    BY <1>7 DEF Forgets, Typed, TypeOK
  <2>2. chain[at[a]] = "closed" /\ chain' = chain
    BY <1>7 DEF Forgets, LeaseInv, BornInv, ActorBorn
  <2> QED
    BY <1>1, <2>1, <2>2 DEF Tracked
<1>8. ASSUME NEW a \in Actors, GoesBack(a) PROVE Goal
  <2>1. PICK t \in Sessions : t = at[a]
    BY <1>8 DEF GoesBack, Typed, Placed, AtSession
  <2> QED
    BY <1>1, <1>8, <2>1, BackTracked DEF GoesBack
<1>9. ASSUME NEW t \in Sessions, Releases(t) \/ \E a \in Actors : SweepsOut(a, t) \/ Retires(a, t) PROVE Goal
  <2>1. CASE t # s
    BY <1>1, <1>9, <2>1 DEF SweepsOut, Retires, Releases, OnlyState, Tracked
  <2>2. CASE t = s
    BY <1>1, <1>9, <2>2 DEF SweepsOut, Retires, Releases, OnlyState
  <2> QED
    BY <2>1, <2>2
<1>11. ASSUME NEW t \in Sessions, ChainStep(t) PROVE Goal
  BY <1>1, <1>11, ChainIsMoves DEF ChainMoves, Tracked
<1> HIDE DEF Goal
<1>12. \A a \in Backgrounds \cup Sweepers \cup Requests : a \in Actors
  BY DEF Actors
<1> QED
  BY <1>2, <1>3, <1>4, <1>5, <1>6, <1>7, <1>8, <1>9, <1>11, <1>12 DEF StepKinds

\* A close under way stays without leases.
LEMMA ClosesUnusedKept ==
    ASSUME Calm, Typed, Typed', PoolInv, LeaseInv, StepKinds, NEW b \in Actors
    PROVE  ClosesUnused(b)'
<1> SUFFICES ASSUME pc'[b] \in {"closing", "forget"}
             PROVE  Leases(at[b])' = {} /\ \A m \in Models : entry'[m] = at'[b] => ~Usable(at[b])'
  BY DEF ClosesUnused
<1>1. PICK s \in Sessions : s = at'[b]
  BY DEF Typed, Placed, AtSession
<1>2. SUFFICES Leases(s)' = {} /\ \A m \in Models : entry'[m] = s => ~Usable(s)
  BY <1>1, TimeGrows DEF Leases, Usable
<1>3. CASE pc[b] \in {"closing", "forget"} /\ at'[b] = at[b]
  <2>1. \A m \in Models : entry[m] = s => ~Usable(s)
    BY <1>1, <1>3 DEF LeaseInv, CloserInv, ActorCloses
  <2> QED
    BY <1>1, <1>3, <2>1, StaysUnused, StaysOut
<1>4. ASSUME NEW due \in SUBSET Sessions, NEW keep, Scans(b, keep, due), at'[b] \in due
      PROVE  Leases(s)' = {} /\ \A m \in Models : entry'[m] = s => ~Usable(s)
  <2>0. b \in Actors \ Backgrounds
    BY <1>4 DEF Scans, LeaseInv, ControlInv, BackgroundControl, FailoverPCs, ClosePCs
  <2>1. PICK C \in SUBSET Sessions : Scanned(b, due, C)
    BY <1>4, <2>0, ScanIsScanned
  <2>2. Leases(s)' \subseteq Leases(s)
    BY <2>1 DEF Scanned, OthersKeep, Leases, Actors
  <2> QED
    BY <1>1, <1>4, <2>2, DueUnused
<1>5. ASSUME NEW t \in Sessions, SweepsOut(b, t)
      PROVE  Leases(s)' = {} /\ \A m \in Models : entry'[m] = s => ~Usable(s)
  <2>1. s = t
    BY <1>1, <1>5 DEF SweepsOut
  <2>2. Leases(s) = {}
    BY <1>5, <2>1, NoLeases DEF SweepsOut, LeaseInv
  <2>3. Leases(s)' \subseteq Leases(s)
    BY <1>5 DEF SweepsOut, OthersKeep, Leases, Actors
  <2>4. \A m \in Models : entry'[m] # s
    BY <1>5, <2>1, ActorsAssumption DEF SweepsOut, TakenOut
  <2> QED
    BY <2>2, <2>3, <2>4
<1>6. CASE b \in Requests \cup Backgrounds /\ StartsClose(b)
  <2>1. Sure /\ Closer(b)
    BY <1>6, FailoverSure DEF StartsClose, FailoverPCs, ClosePCs, LeaseInv
  <2>2. s = at[b] /\ entry' = entry
    BY <1>1, <1>6 DEF StartsClose, SamePlace
  <2>3. Unpooled(s)
    BY <2>1, <2>2 DEF LeaseInv, CloserInv, ActorCloses
  <2>4. Leases(s)' = {}
    BY <2>1, <2>2, StaysUnused
  <2> QED
    BY <2>2, <2>3, <2>4 DEF Unpooled
<1> QED
  BY <1>3, <1>4, <1>5, <1>6, CloseOrigin

\* A session with its closing flag stays with the one that set it.
LEMMA ClosesAloneKept ==
    ASSUME Calm, Typed, Typed', PoolInv, LeaseInv, StepKinds, NEW b \in Actors
    PROVE  ClosesAlone(b)'
<1> SUFFICES ASSUME Sure, Closer(b)'
             PROVE  /\ Leases(at[b])' = {}
                    /\ Unpooled(at[b])'
                    /\ at'[b] \in retired'
                    /\ Tracked(at[b])' => /\ sess'[at'[b]].closing
                                          /\ \A c \in Actors \ {b} : Closer(c)' => at'[c] # at'[b]
  BY DEF ClosesAlone, Sure
<1>1. PICK s \in Sessions : s = at'[b]
  BY DEF Closer, Owns, Typed, Placed, AtSession
<1> DEFINE Alone == /\ Leases(s)' = {}
                    /\ \A m \in Models : entry'[m] # s
                    /\ s \in retired'
                    /\ Tracked(s)' => /\ sess'[s].closing
                                      /\ \A c \in Actors \ {b} : Closer(c)' => at'[c] # s
<1>2. SUFFICES Alone
  BY <1>1 DEF Leases, Unpooled, Tracked
<1>3. CASE Closer(b) /\ at'[b] = at[b]
  <2>1. /\ Unpooled(s) /\ s \in retired
        /\ Tracked(s) => /\ sess[s].closing
                         /\ \A c \in Actors \ {b} : Closer(c) => at[c] # s
    BY <1>1, <1>3 DEF LeaseInv, CloserInv, ActorCloses
  <2>2. Leases(s)' = {}
    BY <1>1, <1>3, StaysUnused
  <2>3. \A m \in Models : entry'[m] # s
    BY <1>1, <1>3, <2>1, StaysOut DEF Unpooled
  <2>4. s \in retired'
    BY <2>1, TimeGrows
  <2>5. Tracked(s)' => Tracked(s) /\ sess'[s].closing
    BY <1>1, <1>3, StaysClosing
  <2>6. ASSUME Tracked(s)', NEW c \in Actors \ {b}, Closer(c)' PROVE at'[c] # s
    <3>1. sess[s].closing /\ Tracked(s) /\ (Closer(c) => at[c] # s)
      BY <2>1, <2>5, <2>6
    <3>2. \A t \in Sessions : SweepsOut(c, t) => t # s /\ at'[c] = t
      BY <3>1 DEF SweepsOut
    <3>3. \A t \in Sessions : Retires(c, t) /\ pc'[c] = "foClose" => t # s /\ at'[c] = t
      BY <3>1 DEF Retires
    <3> QED
      BY <2>6, <3>1, <3>2, <3>3, CloserOrigin
  <2> QED
    BY <2>2, <2>3, <2>4, <2>5, <2>6
<1>4. ASSUME NEW t \in Sessions, SweepsOut(b, t) \/ (Retires(b, t) /\ pc'[b] = "foClose") PROVE Alone
  <2>1. /\ s = t /\ OthersKeep(b) /\ pc'[b] # "using"
        /\ TakenOut(s) /\ s \in retired' /\ OnlyState(s)
        /\ Tracked(s) => sess[s].inflight = 0 /\ ~sess[s].closing /\ sess'[s].closing
    BY <1>1, <1>4 DEF SweepsOut, Retires
  <2>2. Leases(s)' = {}
    <3>1. Leases(s) = {}
      BY <2>1, NoLeases DEF LeaseInv
    <3>2. Leases(s)' \subseteq Leases(s)
      BY <2>1 DEF OthersKeep, Leases, Actors
    <3> QED
      BY <3>1, <3>2
  <2>3. \A m \in Models : entry'[m] # s
    BY <2>1, ActorsAssumption DEF TakenOut
  <2>4. ASSUME Tracked(s)', NEW c \in Actors \ {b}, Closer(c)' PROVE at'[c] # s
    <3>1. Tracked(s) /\ ~sess[s].closing
      BY <2>1, <2>4 DEF OnlyState
    <3>2. Closer(c) /\ at'[c] = at[c]
      BY <2>1, <2>4 DEF OthersKeep, Closer
    <3>3. ASSUME at[c] = s PROVE FALSE
      <4>1. ActorCloses(c)
        BY DEF LeaseInv, CloserInv
      <4> QED
        BY <3>1, <3>2, <3>3, <4>1 DEF ActorCloses
    <3> QED
      BY <3>2, <3>3
  <2>5. Tracked(s)' => sess'[s].closing
    BY <2>1 DEF OnlyState
  <2> QED
    BY <2>1, <2>2, <2>3, <2>4, <2>5
<1> HIDE DEF Alone
<1> QED
  BY <1>3, <1>4, CloserOrigin

\* A failed session stays known until it is retired.
LEMMA FailsKnownKept ==
    ASSUME Calm, Typed, Typed', PoolInv, LeaseInv, StepKinds, NEW b \in Actors
    PROVE  FailsKnown(b)'
<1> SUFFICES ASSUME Sure, pc'[b] \in FromSession
             PROVE  Tracked(from[b])' \/ chain'[from'[b]] = "closed" \/ from'[b] \in retired'
  BY DEF FailsKnown, Sure
<1>1. PICK s \in Sessions : s = from'[b]
  BY DEF Typed, Placed
<1>2. SUFFICES Tracked(s)' \/ chain'[s] = "closed" \/ s \in retired'
  BY <1>1 DEF Tracked
<1>3. SUFFICES Tracked(s) \/ chain[s] = "closed" \/ s \in retired
  BY StaysKnown
<1>4. CASE pc[b] \in FromSession /\ from'[b] = from[b]
  BY <1>1, <1>4 DEF LeaseInv, CloserInv, ActorCloses
<1>5. CASE \E r \in Requests : pc[r] = "using" /\ from'[b] = at[r]
  <2>1. Leases(s) # {}
    BY <1>1, <1>5 DEF Leases
  <2> QED
    BY <2>1, NoLeases DEF LeaseInv
<1> QED
  BY <1>4, <1>5, FailsOrigin

\* Nobody comes to use what is being closed.
LEMMA CloserKept ==
    ASSUME Calm, Typed, Typed', PoolInv, LeaseInv, StepKinds
    PROVE  CloserInv'
<1>1. ASSUME NEW b \in Actors PROVE ActorCloses(b)'
  <2>1. ClosesUnused(b)' /\ ClosesAlone(b)' /\ FailsKnown(b)'
    BY ClosesUnusedKept, ClosesAloneKept, FailsKnownKept
  <2> QED
    BY <2>1 DEF ActorCloses, ClosesUnused, ClosesAlone, FailsKnown, Sure, Closer, Unpooled, Tracked, Leases, Usable
<1> QED
  BY <1>1, MarkUnusedKept DEF CloserInv, MarkUnused

\* What the pool counts for s.
Count(s) == IF Tracked(s) THEN sess[s].inflight ELSE 0

\* A step that neither gives nor ends a lease leaves every count right.
LEMMA CountsSame ==
    ASSUME Calm, Typed, Typed', LeaseInv, StepKinds,
           ~\E r \in Requests : Ends(r) \/ \E s \in Sessions : Takes(r, s),
           NEW s \in Sessions
    PROVE  Leases(s)' = Leases(s) /\ Count(s)' = Count(s)
<1> DEFINE Goal == Leases(s)' = Leases(s) /\ Count(s)' = Count(s)
<1>0. Leases(s) = {} => Count(s) = 0
  BY FS_EmptySet DEF LeaseInv, InflightExact, Count
<1>1. ASSUME NEW a \in Actors, OthersKeep(a), pc[a] # "using", pc'[a] # "using" PROVE Leases(s)' = Leases(s)
  BY <1>1 DEF OthersKeep, Leases, Actors
<1>2. ASSUME ActorsStay PROVE Leases(s)' = Leases(s)
  BY <1>2 DEF ActorsStay, Leases
<1>3. ASSUME sess'[s] = sess[s] PROVE Count(s)' = Count(s)
  BY <1>3 DEF Count, Tracked
<1>4. ASSUME NEW a \in Actors, \/ Quiet(a) \/ Closes(a) \/ StartsClose(a)
                               \/ \E n \in {"none", "cut"} : GivesUp(a, n)
                               \/ \E r \in Requests : Cuts(r, a)
      PROVE Goal
  <2>1. OthersKeep(a) /\ pc[a] # "using" /\ pc'[a] # "using" /\ sess' = sess
    BY <1>4 DEF Quiet, QuietPCs, PoolSame, Closes, StartsClose, GivesUp, Leaves, Cuts
  <2> QED
    BY <1>1, <1>3, <2>1
<1>5. ASSUME NEW r \in Requests, \/ Answered(r) \/ Rejected(r) \/ \E t \in Sessions : Finds(r, t)
                                 \/ \E x \in Sessions, A \in SUBSET Sessions : Opens(r, x, A)
      PROVE Goal
  <2>1. r \in Actors /\ OthersKeep(r) /\ pc[r] # "using" /\ pc'[r] # "using" /\ sess' = sess
    BY <1>5 DEF Answered, Rejected, Finds, Opens, Actors
  <2> QED
    BY <1>1, <1>3, <2>1
<1>6. ASSUME NEW a \in Actors \ Backgrounds, NEW due \in SUBSET Sessions, NEW keep, Scans(a, keep, due) PROVE Goal
  <2>1. PICK C \in SUBSET Sessions : Scanned(a, due, C)
    BY <1>6, ScanIsScanned
  <2>2. Leases(s)' = Leases(s)
    BY <1>1, <1>6, <2>1 DEF Scanned, Scans
  <2>3. CASE s \in ClosedLate(seen[a].open)
    <3>1. Leases(s) = {}
      BY <2>3 DEF ClosedLate, LeaseInv, CloserInv
    <3>2. ~Tracked(s)'
      BY <1>6, <2>3 DEF Scans, Tracked
    <3> QED
      BY <1>0, <2>2, <3>1, <3>2 DEF Count
  <2>4. CASE s \notin ClosedLate(seen[a].open)
    <3>1. sess'[s] = sess[s] \/ (sess[s] = NoState /\ sess'[s] = NewState)
      BY <1>6, <2>4 DEF Scans, StateOf
    <3>2. NewState.inflight = 0
      BY DEF NewState
    <3>3. CASE sess[s] = NoState /\ sess'[s] = NewState
      BY <2>2, <3>2, <3>3 DEF Count, Tracked
    <3> QED
      BY <1>3, <2>2, <3>1, <3>3
  <2> QED
    BY <2>3, <2>4
<1>7. ASSUME NEW a \in Actors, Forgets(a) PROVE Goal
  <2>1. sess'[s] = IF s = at[a] THEN NoState ELSE sess[s]
    BY <1>7 DEF Forgets, Typed, TypeOK
  <2>2. s = at[a] => Leases(s) = {}
    BY <1>7 DEF Forgets, LeaseInv, CloserInv, ActorCloses
  <2>3. Leases(s)' = Leases(s)
    BY <1>1, <1>7 DEF Forgets, Leaves
  <2> QED
    BY <1>0, <1>3, <2>1, <2>2, <2>3 DEF Count, Tracked
<1>8. ASSUME NEW a \in Actors, GoesBack(a) PROVE Goal
  <2>1. PICK t \in Sessions : t = at[a]
    BY <1>8 DEF GoesBack, Typed, Placed, AtSession
  <2>2. Leases(s)' = Leases(s)
    BY <1>1, <1>8 DEF GoesBack, Leaves
  <2>3. (Tracked(s)' <=> Tracked(s)) /\ (Tracked(s) => sess'[s].inflight = sess[s].inflight)
    BY <1>8, <2>1, BackTracked DEF GoesBack
  <2> QED
    BY <2>2, <2>3 DEF Count
<1>9. ASSUME NEW t \in Sessions, Releases(t) \/ \E a \in Actors : SweepsOut(a, t) \/ Retires(a, t) PROVE Goal
  <2>1. Leases(s)' = Leases(s)
    BY <1>1, <1>2, <1>9 DEF SweepsOut, Retires, Releases, ActorsStay
  <2>2. CASE t # s
    BY <1>3, <1>9, <2>1, <2>2 DEF SweepsOut, Retires, Releases, OnlyState
  <2>3. CASE t = s
    BY <1>9, <2>1, <2>3 DEF SweepsOut, Retires, Releases, OnlyState, Count
  <2> QED
    BY <2>2, <2>3
<1>10. ASSUME NEW t \in Sessions, ChainStep(t) PROVE Goal
  BY <1>2, <1>3, <1>10, ChainIsMoves DEF ChainMoves
<1> HIDE DEF Goal
<1>11. \A a \in Backgrounds \cup Sweepers \cup Requests : a \in Actors
  BY DEF Actors
<1>12. Goal
  BY <1>4, <1>5, <1>6, <1>7, <1>8, <1>9, <1>10, <1>11 DEF StepKinds
<1> QED
  BY <1>12 DEF Goal

\* A lease taken or ended counts one more or one less.
LEMMA CountsTaken ==
    ASSUME Typed, LeaseInv, NEW r \in Requests, NEW t \in Sessions, Takes(r, t), NEW s \in Sessions
    PROVE  Cardinality(Leases(s))' = Count(s)'
<1>0. Cardinality(Leases(s)) = Count(s) /\ IsFiniteSet(Leases(s))
  BY LeasesFinite DEF LeaseInv, InflightExact, Count
<1>1. CASE s # t
  BY <1>0, <1>1, TakesFree DEF Takes, Count, Tracked
<1>2. CASE s = t
  <2>1. Leases(s)' = Leases(s) \cup {r} /\ r \notin Leases(s)
    BY <1>2, TakesFree
  <2>2. Cardinality(Leases(s)') = Cardinality(Leases(s)) + 1
    BY <1>0, <2>1, FS_AddElement
  <2>3. Tracked(s)' /\ sess'[s].inflight = StateOf(s).inflight + 1
    BY <1>2 DEF Takes
  <2>4. StateOf(s).inflight = Count(s)
    BY DEF StateOf, NewState, Count, Tracked
  <2> QED
    BY <1>0, <2>2, <2>3, <2>4 DEF Count
<1> QED
  BY <1>1, <1>2

\* A lease ended counts one less: the session is still tracked.
LEMMA CountsEnded ==
    ASSUME Typed, LeaseInv, NEW r \in Requests, Ends(r), NEW s \in Sessions
    PROVE  Cardinality(Leases(s))' = Count(s)'
<1>0. Cardinality(Leases(s)) = Count(s) /\ IsFiniteSet(Leases(s))
  BY LeasesFinite DEF LeaseInv, InflightExact, Count
<1>1. PICK t \in Sessions : t = at[r]
  BY DEF Ends, Typed, Placed, AtSession, Actors
<1>2. /\ OthersKeep(r) /\ pc[r] = "using" /\ pc'[r] # "using" /\ r \in Actors
      /\ sess' = DoneState(t)
  BY <1>1 DEF Ends, Actors
<1>3. CASE s # t
  <2>1. Leases(s)' = Leases(s)
    BY <1>1, <1>2, <1>3 DEF OthersKeep, Leases, Actors
  <2>2. sess'[s] = sess[s]
    BY <1>2, <1>3, DoneTracked
  <2> QED
    BY <1>0, <2>1, <2>2 DEF Count, Tracked
<1>4. CASE s = t
  <2>1. Leases(s)' = Leases(s) \ {r} /\ r \in Leases(s)
    BY <1>1, <1>2, <1>4 DEF OthersKeep, Leases, Actors
  <2>2. Cardinality(Leases(s)') = Cardinality(Leases(s)) - 1
    BY <1>0, <2>1, FS_RemoveElement
  <2>3. Tracked(s) /\ sess[s].inflight # 0
    BY <1>4, <2>1, NoLeases DEF LeaseInv
  <2>4. sess[s] \in LeaseStates
    BY <2>3 DEF Typed, TypeOK, Tracked
  <2>5. sess'[s] = [sess[s] EXCEPT !.inflight = sess[s].inflight - 1]
    BY <1>2, <1>4, <2>3 DEF DoneState, Tracked, Typed, TypeOK
  <2>6. sess'[s].inflight = sess[s].inflight - 1
    BY <2>4, <2>5 DEF LeaseStates
  <2>7. Tracked(s)'
    BY <1>2, <2>3, DoneTracked
  <2> QED
    BY <1>0, <2>2, <2>3, <2>6, <2>7 DEF Count
<1> QED
  BY <1>3, <1>4

\* The counts stay exact.
LEMMA ExactKept ==
    ASSUME Calm, Typed, Typed', LeaseInv, StepKinds
    PROVE  InflightExact'
<1> SUFFICES ASSUME NEW s \in Sessions PROVE Cardinality(Leases(s))' = Count(s)'
  BY DEF InflightExact, Count
<1>1. CASE ~\E r \in Requests : Ends(r) \/ \E t \in Sessions : Takes(r, t)
  BY <1>1, CountsSame DEF LeaseInv, InflightExact, Count
<1> QED
  BY <1>1, CountsTaken, CountsEnded

-----------------------------------------------------------------------------
\* The invariant holds of the empty pool.
LEMMA LeaseInitially == Init => LeaseInv
<1> SUFFICES ASSUME Init PROVE LeaseInv
  OBVIOUS
<1>1. \A a \in Actors : pc[a] = "rest" /\ from[a] = NoSession /\ seen[a] = NoList
  BY DEF Init
<1>2. \A r \in Requests : r \in Actors
  BY DEF Actors
<1>3. \A b \in Backgrounds \cup Sweepers : b \in Actors
  BY DEF Actors
<1>4. ControlInv
  <2>1. \A r \in Requests : RequestControl(r)
    BY <1>1, <1>2 DEF Init, RequestControl, NoLock, Acquiring, Opening, FailoverPCs, ClosePCs
  <2>2. \A b \in Backgrounds : BackgroundControl(b)
    BY <1>1, <1>3 DEF BackgroundControl, ClosePCs
  <2>3. \A a \in Sweepers : SweeperControl(a)
    BY <1>1, <1>3 DEF SweeperControl, ClosePCs
  <2> QED
    BY <2>1, <2>2, <2>3 DEF ControlInv
<1>5. BornInv
  <2>1. ASSUME NEW s \in Sessions PROVE SessionBorn(s)
    BY DEF Init, SessionBorn, Born, Tracked
  <2>2. ASSUME NEW m \in Models PROVE EntryBorn(m)
    BY DEF Init, EntryBorn
  <2>3. ASSUME NEW a \in Actors PROVE ActorBorn(a)
    BY <1>1 DEF ActorBorn, FromSession, AtBorn, ClosePCs, NoList
  <2> QED
    BY <2>1, <2>2, <2>3 DEF BornInv
<1>6. ModelInv
  BY <1>1, <1>2 DEF Init, ModelInv, RequestModel, AtModel, FromSession
<1>7. SureInv
  BY DEF Init, SureInv
<1>8. EntryInv
  BY DEF Init, EntryInv, EntryGood
<1>9. FreshInv
  BY <1>1, <1>2 DEF FreshInv
<1>10. CloserInv
  <2>1. \A s \in Sessions : mark[s] = "none"
    BY DEF Init
  <2>2. ASSUME NEW a \in Actors PROVE ActorCloses(a)
    BY <1>1 DEF ActorCloses, Closer, Owns, FromSession
  <2> QED
    BY <2>1, <2>2 DEF CloserInv
<1>11. InflightExact
  <2>1. ASSUME NEW s \in Sessions PROVE Leases(s) = {} /\ ~Tracked(s)
    BY <1>1, <1>2 DEF Init, Leases, Tracked
  <2> QED
    BY <2>1, FS_EmptySet DEF InflightExact
<1> QED
  BY <1>4, <1>5, <1>6, <1>7, <1>8, <1>9, <1>10, <1>11 DEF LeaseInv

\* Nothing happens to it when nothing happens.
LEMMA LeaseUntouched ==
    ASSUME LeaseInv, UNCHANGED vars
    PROVE  LeaseInv'
<1> USE DEF vars, chainVars, poolVars, actorVars
<1>1. ControlInv'
  BY DEF LeaseInv, ControlInv, RequestControl, BackgroundControl, SweeperControl
<1>2. BornInv'
  BY DEF LeaseInv, BornInv, SessionBorn, EntryBorn, ActorBorn, Born, Tracked
<1>3. ModelInv' /\ SureInv'
  BY DEF LeaseInv, ModelInv, RequestModel, SureInv, Sure
<1>4. EntryInv'
  BY DEF LeaseInv, EntryInv, EntryGood, Tracked, Usable, Sure
<1>5. FreshInv'
  BY DEF LeaseInv, FreshInv, Fresh, Tracked, Unpooled, Sure
<1>6. CloserInv'
  BY DEF LeaseInv, CloserInv, ActorCloses, Closer, Leases, Usable, Unpooled, Tracked, Sure
<1>7. InflightExact'
  BY DEF LeaseInv, InflightExact, Leases, Tracked
<1> QED
  BY <1>1, <1>2, <1>3, <1>4, <1>5, <1>6, <1>7 DEF LeaseInv

\* Every step of a calm world keeps it.
LEMMA LeaseInvKept ==
    ASSUME Calm, Typed, PoolInv, LeaseInv, [Next]_vars
    PROVE  LeaseInv'
<1>1. CASE Next
  <2>1. StepKinds
    BY <1>1, Kinds DEF LeaseInv
  <2>2. Typed'
    BY TypedKept
  <2>3. ControlInv'
    BY ControlKept DEF LeaseInv
  <2>4. BornInv' /\ ModelInv' /\ SureInv'
    BY <2>1, <2>2, BornKept, ModelKept, SureKept DEF LeaseInv
  <2>5. EntryInv' /\ FreshInv' /\ CloserInv' /\ InflightExact'
    BY <2>1, <2>2, EntryKept, FreshKept, CloserKept, ExactKept
  <2> QED
    BY <2>3, <2>4, <2>5 DEF LeaseInv
<1>2. CASE UNCHANGED vars
  BY <1>2, LeaseUntouched
<1> QED
  BY <1>1, <1>2

\* The inductive invariant of the leases holds in every calm world.
THEOREM LeaseIInv ==
    ASSUME Calm
    PROVE  Spec => [](Typed /\ PoolInv /\ LeaseInv)
<1>1. Init => Typed /\ PoolInv /\ LeaseInv
  BY TypedInit, PoolInitially, LeaseInitially
<1>2. Typed /\ PoolInv /\ LeaseInv /\ [Next]_vars => (Typed /\ PoolInv /\ LeaseInv)'
  BY TypedKept, PoolKept, LeaseInvKept
<1> QED
  BY <1>1, <1>2, PTL DEF Spec

\* The in-flight count of every session is the number of requests that use it,
\* through scans, releases, sweeps, failovers and forgotten sessions
\* (leaseLocked, Lease.Done, forget), for any requests, models and sessions.
THEOREM LeasesAreExact ==
    ASSUME Calm
    PROVE  Spec => []LeasesExact
<1>1. Typed /\ LeaseInv => LeasesExact
  BY DEF Typed, LeaseInv, LeasesExact
<1> QED
  BY <1>1, LeaseIInv, PTL

\* No close of a sweep or of a failover, queued or under way, is on a session a
\* request uses (sweepRetired, ScanOrphans, FailoverCtx).
THEOREM ClosesAreUnused ==
    ASSUME Calm
    PROVE  Spec => []NoCloseUnderLease
<1>1. Typed /\ LeaseInv => NoCloseUnderLease
  <2> SUFFICES ASSUME Typed, LeaseInv, NEW a \in Actors, pc[a] \in {"closing", "foClose"}
               PROVE  Leases(at[a]) = {}
    BY DEF NoCloseUnderLease
  <2>1. CASE pc[a] = "closing"
    BY <2>1 DEF LeaseInv, CloserInv, ActorCloses
  <2>2. CASE pc[a] = "foClose"
    <3>1. a \in Requests \cup Backgrounds
      BY <2>2 DEF LeaseInv, ControlInv, SweeperControl, Actors, Calm
    <3>2. Sure /\ Closer(a)
      BY <2>2, <3>1, FailoverSure DEF FailoverPCs, ClosePCs, LeaseInv
    <3> QED
      BY <3>2 DEF LeaseInv, CloserInv, ActorCloses
  <2> QED
    BY <2>1, <2>2
<1> QED
  BY <1>1, LeaseIInv, PTL

\* A pool slot points at a tracked session of its model that no sweep has
\* started to close, and a marked one is past its use (sweepRetired, applyScan,
\* poolOpenedLocked).
THEOREM EntriesServe ==
    ASSUME Calm
    PROVE  Spec => []EntryServable
<1>1. LeaseInv => EntryServable
  BY DEF LeaseInv, ModelInv, EntryInv, EntryGood, EntryServable
<1> QED
  BY <1>1, LeaseIInv, PTL

\* A lease never lands on a session that is retired, closing or marked by a
\* close, however it is handed out (leaseLocked and its callers).
THEOREM LeasesLandServable ==
    ASSUME Calm
    PROVE  Spec => LeaseOnServable
<1> DEFINE Lands == \A s \in Sessions :
                      ~(Leases(s)' \subseteq Leases(s)) =>
                          mark[s] = "none" /\ ~StateOf(s).retired /\ ~StateOf(s).closing
<1>1. Typed /\ PoolInv /\ LeaseInv /\ [Next]_vars => [Lands]_vars
  <2> SUFFICES ASSUME Typed, PoolInv, LeaseInv, Next PROVE Lands
    OBVIOUS
  <2>1. StepKinds
    BY Kinds DEF LeaseInv
  <2>2. ASSUME NEW r \in Requests, NEW t \in Sessions, Takes(r, t), NEW s \in Sessions, ~(Leases(s)' \subseteq Leases(s))
        PROVE  mark[s] = "none" /\ ~StateOf(s).retired /\ ~StateOf(s).closing
    <3>1. s = t
      BY <2>2, TakesFree
    <3> QED
      BY <2>2, <3>1 DEF Takes
  <2> QED
    BY <2>1, <2>2, LeasesShrink
<1> QED
  BY <1>1, LeaseIInv, PTL DEF Spec, LeaseOnServable

\* Where every answer arrives, a session that release, failover or the idle
\* sweep retired is not in the pool again: no scan adopts it and no open
\* returns it (p.retired).
THEOREM RetiredIsOut ==
    ASSUME Calm, "lost" \notin Enabled
    PROVE  Spec => []RetiredStaysOut
<1>1. Typed /\ LeaseInv => RetiredStaysOut
  <2> SUFFICES ASSUME Typed, LeaseInv, NEW m \in Models, entry[m] # NoSession
               PROVE  entry[m] \notin retired /\ ~StateOf(entry[m]).retired
    BY DEF RetiredStaysOut
  <2>1. EntryGood(m) /\ Sure
    BY DEF LeaseInv, EntryInv, Sure
  <2> QED
    BY <2>1 DEF EntryGood, StateOf, Tracked
<1> QED
  BY <1>1, LeaseIInv, PTL

-----------------------------------------------------------------------------
(* What is open on chain, when nobody else closes sessions and every answer *)
(* arrives.                                                                  *)

\* Every answer arrives, and nobody else closes a session.
Known == Sure /\ "gone" \notin Enabled

\* A close the router may still carry out has its caller waiting, ...
SentOwned == \A s \in closeSent : \E a \in Actors : pc[a] = "closing" /\ at[a] = s
\* ... and the session is marked until the call returns.
ClosingMarked == \A a \in Actors : pc[a] = "closing" => mark[at[a]] = "now"
\* What a scan is about to apply is open, ...
ListOpen(a) == pc[a] = "apply" => \A s \in seen[a].open : chain[s] = "open"
\* ... and so is what a request has opened.
OpenedOpen(r) == /\ pc[r] = "posting" => chain[at[r]] \in {"sent", "open"}
                 /\ pc[r] = "got" => chain[at[r]] = "open"

\* A close is carried out only while its caller waits, so what a scan has
\* listed or a request has opened is open until it is pooled.
OpenInv ==
    /\ SentOwned /\ ClosingMarked
    /\ \A a \in Actors : ListOpen(a)
    /\ \A r \in Requests : OpenedOpen(r)
    /\ ClosedStaysOut

\* Where a close call goes on.
LEMMA CloseGoesOn ==
    ASSUME Calm, Typed, StepKinds, NEW b \in Actors, pc[b] \in {"closing", "forget"}
    PROVE  \/ pc'[b] = pc[b] /\ at'[b] = at[b]
           \/ Closes(b) \/ Forgets(b) \/ \E n \in {"none", "cut"} : GivesUp(b, n)
<1> DEFINE Stays == pc'[b] = pc[b] /\ at'[b] = at[b]
           Goal == Stays \/ Closes(b) \/ Forgets(b) \/ \E n \in {"none", "cut"} : GivesUp(b, n)
<1>0. ASSUME NEW a \in Actors, OthersKeep(a), a # b PROVE Stays
  BY <1>0 DEF OthersKeep
<1>1. ASSUME NEW a \in Actors, Closes(a) \/ Forgets(a) \/ \E n \in {"none", "cut"} : GivesUp(a, n) PROVE Goal
  <2>1. OthersKeep(a)
    BY <1>1 DEF Closes, Forgets, GivesUp, Leaves
  <2> QED
    BY <1>0, <1>1, <2>1
<1>2. ASSUME NEW a \in Actors, \/ Quiet(a) \/ GoesBack(a) \/ StartsClose(a)
                               \/ \E t \in Sessions : SweepsOut(a, t) \/ Retires(a, t)
                               \/ \E r \in Requests : Cuts(r, a)
      PROVE Stays
  <2>1. OthersKeep(a) /\ pc[a] \notin {"closing", "forget"}
    BY <1>2 DEF Quiet, GoesBack, Leaves, StartsClose, SweepsOut, Retires, Cuts
  <2> QED
    BY <1>0, <2>1
<1>3. ASSUME NEW r \in Requests, \/ Ends(r) \/ Answered(r) \/ Rejected(r)
                                 \/ \E t \in Sessions : Finds(r, t) \/ Takes(r, t)
                                 \/ \E x \in Sessions, A \in SUBSET Sessions : Opens(r, x, A)
      PROVE Stays
  <2>1. OthersKeep(r) /\ pc[r] \notin {"closing", "forget"} /\ r \in Actors
    BY <1>3 DEF Ends, Answered, Rejected, Finds, Takes, Opens, Actors
  <2> QED
    BY <1>0, <2>1
<1>4. ASSUME NEW t \in Sessions, Releases(t) \/ ChainStep(t) PROVE Stays
  BY <1>4, ChainIsMoves DEF Releases, ChainMoves, ActorsStay
<1>5. ASSUME NEW a \in Actors \ Backgrounds, NEW due \in SUBSET Sessions, NEW keep, Scans(a, keep, due) PROVE Stays
  <2>1. PICK C \in SUBSET Sessions : Scanned(a, due, C)
    BY <1>5, ScanIsScanned
  <2> QED
    BY <1>0, <1>5, <2>1 DEF Scanned, Scans
<1>6. Stays => Goal
  OBVIOUS
<1> HIDE DEF Stays, Goal
<1>7. \A a \in Backgrounds \cup Sweepers \cup Requests : a \in Actors
  BY DEF Actors
<1>8. Goal
  BY <1>1, <1>2, <1>3, <1>4, <1>5, <1>6, <1>7 DEF StepKinds
<1> QED
  BY <1>8 DEF Goal, Stays

\* What the chain may do to a session in one step.
LEMMA ChainTurns ==
    ASSUME Calm, Typed, Known, StepKinds, NEW s \in Sessions
    PROVE  \/ chain'[s] = chain[s]
           \/ chain[s] = "unborn" /\ chain'[s] = "sent"
           \/ chain[s] = "sent" /\ chain'[s] = "open"
           \/ \E r \in Requests : Rejected(r) /\ at[r] = s /\ chain[s] = "sent"
           \/ s \in closeSent /\ chain[s] = "open" /\ ActorsStay /\ UNCHANGED <<entry, mark>>
<1>1. ASSUME NEW t \in Sessions, ChainStep(t)
      PROVE  \/ chain'[s] = chain[s]
             \/ chain[s] = "sent" /\ chain'[s] = "open"
             \/ s \in closeSent /\ chain[s] = "open" /\ ActorsStay /\ UNCHANGED <<entry, mark>>
  <2>1. CASE OpenLands(t)
    BY <2>1 DEF OpenLands, Typed, TypeOK
  <2>2. CASE CloseLands(t)
    BY <2>2 DEF CloseLands, ActorsStay, poolVars, actorVars, Typed, TypeOK
  <2>3. CASE TimePasses(t) \/ MarkLapses(t) \/ AttemptExpires(t)
    BY <2>3 DEF TimePasses, MarkLapses, AttemptExpires, chainVars
  <2> QED
    BY <1>1, <2>1, <2>2, <2>3 DEF ChainStep, ClosedElsewhere, On, Known
<1>2. ASSUME NEW r \in Requests, Rejected(r)
      PROVE chain'[s] = chain[s] \/ (Rejected(r) /\ at[r] = s /\ chain[s] = "sent")
  BY <1>2 DEF Rejected, Typed, TypeOK
<1>3. ASSUME NEW r \in Requests, NEW x \in Sessions, NEW A \in SUBSET Sessions, Opens(r, x, A)
      PROVE  chain'[s] = chain[s] \/ (chain[s] = "unborn" /\ chain'[s] = "sent")
  BY <1>3 DEF Opens, Typed, TypeOK
<1>4. ASSUME NEW a \in Actors \ Backgrounds, NEW due \in SUBSET Sessions, NEW keep, Scans(a, keep, due) PROVE chain'[s] = chain[s]
  BY <1>4 DEF Scans
<1>5. ASSUME NEW a \in Actors, \/ Quiet(a) \/ Closes(a) \/ Forgets(a) \/ GoesBack(a) \/ StartsClose(a)
                               \/ \E n \in {"none", "cut"} : GivesUp(a, n)
                               \/ \E t \in Sessions : SweepsOut(a, t) \/ Retires(a, t)
                               \/ \E r \in Requests : Cuts(r, a)
      PROVE  chain'[s] = chain[s]
  BY <1>5 DEF Quiet, Closes, Forgets, GoesBack, StartsClose, GivesUp, SweepsOut, Retires, Cuts, PoolSame
<1>6. ASSUME NEW t \in Sessions, Releases(t) PROVE chain'[s] = chain[s]
  BY <1>6 DEF Releases
<1>7. ASSUME NEW r \in Requests, Ends(r) \/ Answered(r) \/ \E t \in Sessions : Takes(r, t) \/ Finds(r, t) PROVE chain'[s] = chain[s]
  BY <1>7 DEF Ends, Answered, Takes, Finds
<1>8. \A b \in Backgrounds \cup Sweepers \cup Requests : b \in Actors
  BY DEF Actors
<1> QED
  BY <1>1, <1>2, <1>3, <1>4, <1>5, <1>6, <1>7, <1>8 DEF StepKinds

\* What is sent to the router to close.
LEMMA SentGrows ==
    ASSUME Calm, Typed, StepKinds, NEW s \in Sessions, s \in closeSent'
    PROVE  \/ s \in closeSent /\ \A a \in Actors : at[a] = s => ~Closes(a) /\ ~GivesUp(a, "none")
           \/ \E a \in Actors : pc'[a] = "closing" /\ at'[a] = s
<1> DEFINE Goal == \/ s \in closeSent
                   \/ \E a \in Actors : pc'[a] = "closing" /\ at'[a] = s
<1>0. \A a \in Actors : at[a] = s => ~Closes(a) /\ ~GivesUp(a, "none")
  BY DEF Closes, GivesUp
<1>1. ASSUME NEW a \in Actors \ Backgrounds, NEW due \in SUBSET Sessions, NEW keep, Scans(a, keep, due) PROVE Goal
  <2>1. PICK C \in SUBSET Sessions : Scanned(a, due, C)
    BY <1>1, ScanIsScanned
  <2> QED
    BY <2>1 DEF Scanned
<1>2. ASSUME NEW a \in Actors, NEW t \in Sessions, SweepsOut(a, t) PROVE Goal
  BY <1>2 DEF SweepsOut
<1>3. ASSUME NEW a \in Actors, StartsClose(a) PROVE Goal
  BY <1>3 DEF StartsClose, SamePlace
<1>4. ASSUME NEW a \in Actors, \/ Quiet(a) \/ Closes(a) \/ Forgets(a) \/ GoesBack(a)
                               \/ \E n \in {"none", "cut"} : GivesUp(a, n)
                               \/ \E t \in Sessions : Retires(a, t)
                               \/ \E r \in Requests : Cuts(r, a)
      PROVE Goal
  BY <1>4 DEF Quiet, Closes, Forgets, GoesBack, GivesUp, Retires, Cuts, PoolSame
<1>5. ASSUME NEW r \in Requests, \/ Ends(r) \/ Answered(r) \/ Rejected(r)
                                 \/ \E t \in Sessions : Finds(r, t) \/ Takes(r, t)
                                 \/ \E x \in Sessions, A \in SUBSET Sessions : Opens(r, x, A)
      PROVE Goal
  BY <1>5 DEF Ends, Answered, Rejected, Finds, Takes, Opens
<1>6. ASSUME NEW t \in Sessions, Releases(t) \/ ChainStep(t) PROVE Goal
  BY <1>6 DEF Releases, ChainStep, OpenLands, CloseLands, ClosedElsewhere, TimePasses, MarkLapses, AttemptExpires, chainVars
<1> HIDE DEF Goal
<1>7. \A a \in Backgrounds \cup Sweepers \cup Requests : a \in Actors
  BY DEF Actors
<1>8. Goal
  BY <1>1, <1>2, <1>3, <1>4, <1>5, <1>6, <1>7 DEF StepKinds
<1> QED
  BY <1>0, <1>8 DEF Goal

\* The caller waits until the close lands or is given up.
LEMMA SentKept ==
    ASSUME Calm, Typed, Typed', Known, SentOwned, StepKinds
    PROVE  SentOwned'
<1> SUFFICES ASSUME NEW s \in Sessions, s \in closeSent' PROVE \E a \in Actors : pc'[a] = "closing" /\ at'[a] = s
  BY DEF SentOwned, Typed, TypeOK
<1>1. CASE s \in closeSent /\ \A a \in Actors : at[a] = s => ~Closes(a) /\ ~GivesUp(a, "none")
  <2>1. PICK a \in Actors : pc[a] = "closing" /\ at[a] = s
    BY <1>1 DEF SentOwned
  <2>2. ~GivesUp(a, "cut") /\ ~Forgets(a)
    BY <2>1 DEF GivesUp, Forgets, Known, Sure
  <2> QED
    BY <1>1, <2>1, <2>2, CloseGoesOn
<1> QED
  BY <1>1, SentGrows

\* A mark of a close call under way stays until the call returns.
LEMMA MarkStays ==
    ASSUME Calm, Typed, PoolInv, StepKinds, NEW b \in Actors, pc[b] = "closing", pc'[b] = "closing",
           NEW s \in Sessions, s = at[b], mark[s] = "now"
    PROVE  mark'[s] = "now"
<1>1. ASSUME NEW a \in Actors \ Backgrounds, NEW due \in SUBSET Sessions, NEW keep, Scans(a, keep, due) PROVE mark'[s] = "now"
  <2>1. PICK C \in SUBSET Sessions : Scanned(a, due, C)
    BY <1>1, ScanIsScanned
  <2> QED
    BY <2>1 DEF Scanned, ScanMarks, ClosedLate, LiveMarks
<1>2. ASSUME NEW a \in Actors, Closes(a) \/ \E n \in {"none", "cut"} : GivesUp(a, n) PROVE mark'[s] = "now"
  <2>1. pc[a] = "closing" /\ pc'[a] # "closing"
    BY <1>2 DEF Closes, GivesUp, Leaves
  <2>2. slot = a /\ slot = b
    BY <2>1 DEF PoolInv, SlotHeld, Needs, WithSlot
  <2> QED
    BY <2>1, <2>2
<1>3. ASSUME NEW a \in Actors, StartsClose(a) \/ \E t \in Sessions : SweepsOut(a, t) PROVE mark'[s] = "now"
  BY <1>3 DEF StartsClose, SweepsOut, LiveMarks, Typed, TypeOK
<1>4. ASSUME NEW a \in Actors, \/ Quiet(a) \/ Forgets(a) \/ GoesBack(a)
                               \/ \E t \in Sessions : Retires(a, t)
                               \/ \E r \in Requests : Cuts(r, a)
      PROVE  mark'[s] = "now"
  BY <1>4 DEF Quiet, PoolSame, Forgets, GoesBack, Retires, Cuts
<1>5. ASSUME NEW r \in Requests, \/ Ends(r) \/ Answered(r) \/ Rejected(r)
                                 \/ \E t \in Sessions : Takes(r, t) \/ Finds(r, t)
                                 \/ \E x \in Sessions, A \in SUBSET Sessions : Opens(r, x, A)
      PROVE  mark'[s] = "now"
  BY <1>5 DEF Ends, Answered, Rejected, Takes, Finds, Opens
<1>6. ASSUME NEW t \in Sessions, Releases(t) \/ ChainStep(t) PROVE mark'[s] = "now"
  BY <1>6, ChainIsMoves DEF Releases, ChainMoves
<1>7. \A a \in Backgrounds \cup Sweepers \cup Requests : a \in Actors
  BY DEF Actors
<1> QED
  BY <1>1, <1>2, <1>3, <1>4, <1>5, <1>6, <1>7 DEF StepKinds

\* The mark stands as long as the call.
LEMMA MarkedKept ==
    ASSUME Calm, Typed, Typed', PoolInv, ControlInv, ClosingMarked, StepKinds
    PROVE  ClosingMarked'
<1> SUFFICES ASSUME NEW b \in Actors, pc'[b] = "closing" PROVE mark'[at'[b]] = "now"
  BY DEF ClosingMarked
<1>1. PICK s \in Sessions : s = at'[b]
  BY DEF Typed, Placed, AtSession
<1>2. CASE pc[b] = "closing" /\ at'[b] = at[b]
  BY <1>1, <1>2, MarkStays DEF ClosingMarked
<1>3. ASSUME NEW due \in SUBSET Sessions, NEW keep, Scans(b, keep, due) PROVE mark'[s] = "now"
  <2>0. b \in Actors \ Backgrounds
    BY <1>3 DEF Scans, ControlInv, BackgroundControl, FailoverPCs, ClosePCs
  <2>1. PICK C \in SUBSET Sessions : Scanned(b, due, C)
    BY <1>3, <2>0, ScanIsScanned
  <2> QED
    BY <1>1, <2>1 DEF Scanned
<1>4. ASSUME NEW t \in Sessions, SweepsOut(b, t) PROVE mark'[s] = "now"
  BY <1>1, <1>4 DEF SweepsOut, LiveMarks
<1>5. CASE StartsClose(b)
  BY <1>1, <1>5 DEF StartsClose, SamePlace, Typed, TypeOK
<1> QED
  BY <1>1, <1>2, <1>3, <1>4, <1>5, CloseOrigin

\* A list to apply was read when the step before it began, or in this step.
LEMMA ApplyOrigin ==
    ASSUME Calm, Typed, StepKinds, NEW b \in Actors, pc'[b] = "apply"
    PROVE  \/ pc[b] = "apply" /\ seen'[b] = seen[b]
           \/ chain' = chain /\ \A s \in seen'[b].open : chain[s] = "open"
<1> DEFINE Stays == pc[b] = "apply" /\ seen'[b] = seen[b]
           Goal == \/ Stays
                   \/ chain' = chain /\ \A s \in seen'[b].open : chain[s] = "open"
<1>0. ASSUME NEW a \in Actors, OthersKeep(a), a # b PROVE Stays
  BY <1>0 DEF OthersKeep
<1>1. ASSUME NEW a \in Actors, Quiet(a) PROVE Goal
  <2>1. CASE a = b
    BY <1>1, <2>1 DEF Quiet, PoolSame
  <2>2. CASE a # b
    <3>1. Stays
      BY <1>0, <1>1, <2>2 DEF Quiet
    <3> QED
      BY <3>1
  <2> QED
    BY <2>1, <2>2
<1>2. ASSUME NEW a \in Actors, \/ Closes(a) \/ Forgets(a) \/ GoesBack(a) \/ StartsClose(a)
                               \/ \E n \in {"none", "cut"} : GivesUp(a, n)
                               \/ \E t \in Sessions : SweepsOut(a, t) \/ Retires(a, t)
                               \/ \E r \in Requests : Cuts(r, a)
      PROVE Stays
  <2>1. OthersKeep(a) /\ pc'[a] # "apply"
    BY <1>2 DEF Closes, Forgets, GoesBack, Leaves, StartsClose, GivesUp, SweepsOut, Retires, Cuts
  <2> QED
    BY <1>0, <2>1
<1>3. ASSUME NEW r \in Requests, \/ Ends(r) \/ Answered(r) \/ Rejected(r)
                                 \/ \E t \in Sessions : Finds(r, t) \/ Takes(r, t)
                                 \/ \E x \in Sessions, A \in SUBSET Sessions : Opens(r, x, A)
      PROVE Stays
  <2>1. OthersKeep(r) /\ pc'[r] # "apply" /\ r \in Actors
    BY <1>3 DEF Ends, Answered, Rejected, Finds, Takes, Opens, Actors
  <2> QED
    BY <1>0, <2>1
<1>4. ASSUME NEW t \in Sessions, Releases(t) \/ ChainStep(t) PROVE Stays
  BY <1>4, ChainIsMoves DEF Releases, ChainMoves, ActorsStay
<1>5. ASSUME NEW a \in Actors \ Backgrounds, NEW due \in SUBSET Sessions, NEW keep, Scans(a, keep, due) PROVE Stays
  <2>1. PICK C \in SUBSET Sessions : Scanned(a, due, C)
    BY <1>5, ScanIsScanned
  <2> QED
    BY <1>0, <2>1 DEF Scanned
<1>6. Stays => Goal
  OBVIOUS
<1> HIDE DEF Stays, Goal
<1>7. \A a \in Backgrounds \cup Sweepers \cup Requests : a \in Actors
  BY DEF Actors
<1>8. Goal
  BY <1>1, <1>2, <1>3, <1>4, <1>5, <1>6, <1>7 DEF StepKinds
<1> QED
  BY <1>8 DEF Goal, Stays

\* Nobody closes beside a scan: it has the slot.
LEMMA ListKept ==
    ASSUME Calm, Typed, Typed', Known, PoolInv, ControlInv, OpenInv, StepKinds, NEW b \in Actors
    PROVE  ListOpen(b)'
<1> SUFFICES ASSUME pc'[b] = "apply", NEW s \in seen'[b].open PROVE chain'[s] = "open"
  BY DEF ListOpen
<1>0. s \in Sessions
  BY DEF Typed, TypeOK, Lists
<1>1. CASE chain' = chain /\ \A t \in seen'[b].open : chain[t] = "open"
  BY <1>1
<1>2. CASE pc[b] = "apply" /\ seen'[b] = seen[b]
  <2>1. chain[s] = "open"
    BY <1>2 DEF OpenInv, ListOpen
  <2>2. s \notin closeSent
    <3>1. b \in Requests \cup Sweepers
      BY <1>2 DEF ControlInv, BackgroundControl, FailoverPCs, ClosePCs, Actors, Calm
    <3> QED
      BY <1>2, <3>1 DEF OpenInv, SentOwned, PoolInv, SlotHeld, Needs, WithSlot
  <2> QED
    BY <1>0, <2>1, <2>2, ChainTurns
<1> QED
  BY <1>1, <1>2, ApplyOrigin

\* How a request comes to wait for an open, or to have a session.
LEMMA OpenOrigin ==
    ASSUME Calm, Typed, StepKinds, NEW q \in Requests, pc'[q] \in {"posting", "got"}
    PROVE  \/ pc'[q] = pc[q] /\ at'[q] = at[q] /\ ~Rejected(q)
           \/ pc'[q] = "posting" /\ at'[q] \in Sessions /\ chain'[at'[q]] = "sent"
           \/ Answered(q)
           \/ pc'[q] = "got" /\ chain'[at'[q]] = "open"
<1> DEFINE Stays == pc'[q] = pc[q] /\ at'[q] = at[q] /\ ~Rejected(q)
           Goal == \/ Stays
                   \/ pc'[q] = "posting" /\ at'[q] \in Sessions /\ chain'[at'[q]] = "sent"
                   \/ Answered(q)
                   \/ pc'[q] = "got" /\ chain'[at'[q]] = "open"
<1>r. ~Rejected(q) /\ q \in Actors
  BY DEF Rejected, Actors
<1>0. ASSUME NEW a \in Actors, OthersKeep(a), a # q PROVE Stays
  BY <1>0, <1>r DEF OthersKeep
<1>1. ASSUME NEW a \in Actors, \/ Quiet(a) \/ Closes(a) \/ Forgets(a) \/ GoesBack(a) \/ StartsClose(a)
                               \/ \E n \in {"none", "cut"} : GivesUp(a, n)
                               \/ \E t \in Sessions : SweepsOut(a, t) \/ Retires(a, t)
                               \/ \E r \in Requests : Cuts(r, a)
      PROVE Stays
  <2>1. OthersKeep(a) /\ pc'[a] \notin {"posting", "got"}
    BY <1>1 DEF Quiet, QuietPCs, Closes, Forgets, GoesBack, Leaves, StartsClose, GivesUp, SweepsOut, Retires, Cuts
  <2> QED
    BY <1>0, <2>1
<1>2. ASSUME NEW r \in Requests, Ends(r) \/ Rejected(r) \/ \E t \in Sessions : Takes(r, t) PROVE Stays
  <2>1. OthersKeep(r) /\ pc'[r] \notin {"posting", "got"} /\ r \in Actors
    BY <1>2 DEF Ends, Rejected, Takes, Actors
  <2> QED
    BY <1>0, <2>1
<1>3. ASSUME NEW r \in Requests, Answered(r) PROVE Goal
  <2>1. OthersKeep(r) /\ r \in Actors
    BY <1>3 DEF Answered, Actors
  <2> QED
    BY <1>0, <1>3, <2>1
<1>4. ASSUME NEW r \in Requests, NEW k \in Sessions, Finds(r, k) PROVE Goal
  <2>1. OthersKeep(r) /\ r \in Actors /\ pc'[r] = "got" /\ chain'[at'[r]] = "open"
    BY <1>4 DEF Finds, Actors
  <2> QED
    BY <1>0, <2>1
<1>5. ASSUME NEW r \in Requests, NEW x \in Sessions, NEW A \in SUBSET Sessions, Opens(r, x, A) PROVE Goal
  <2>1. OthersKeep(r) /\ r \in Actors /\ pc'[r] = "posting" /\ at'[r] = x /\ chain'[x] = "sent"
    BY <1>5 DEF Opens, Actors, Typed, TypeOK
  <2> QED
    BY <1>0, <2>1
<1>6. ASSUME NEW t \in Sessions, Releases(t) \/ ChainStep(t) PROVE Stays
  BY <1>6, <1>r, ChainIsMoves DEF Releases, ChainMoves, ActorsStay
<1>7. ASSUME NEW a \in Actors \ Backgrounds, NEW due \in SUBSET Sessions, NEW keep, Scans(a, keep, due) PROVE Stays
  <2>1. PICK C \in SUBSET Sessions : Scanned(a, due, C)
    BY <1>7, ScanIsScanned
  <2> QED
    BY <1>0, <2>1 DEF Scanned
<1>8. Stays => Goal
  OBVIOUS
<1> HIDE DEF Stays, Goal
<1>9. \A a \in Backgrounds \cup Sweepers \cup Requests : a \in Actors
  BY DEF Actors
<1>10. Goal
  BY <1>1, <1>2, <1>3, <1>4, <1>5, <1>6, <1>7, <1>8, <1>9 DEF StepKinds
<1> QED
  BY <1>10 DEF Goal, Stays

\* Nor beside an open.
LEMMA OpenedKept ==
    ASSUME Calm, Typed, Typed', Known, LeaseInv, OpenInv, StepKinds, NEW q \in Requests
    PROVE  OpenedOpen(q)'
<1> SUFFICES ASSUME pc'[q] \in {"posting", "got"}
             PROVE  chain'[at'[q]] = "open" \/ (pc'[q] = "posting" /\ chain'[at'[q]] = "sent")
  BY DEF OpenedOpen
<1>1. CASE pc'[q] = pc[q] /\ at'[q] = at[q] /\ ~Rejected(q)
  <2>1. PICK s \in Sessions : s = at[q]
    BY <1>1 DEF Typed, Placed, AtSession, Actors
  <2>2. chain[s] = "open" \/ (pc[q] = "posting" /\ chain[s] = "sent")
    BY <1>1, <2>1 DEF OpenInv, OpenedOpen
  <2>3. s \notin closeSent
    BY <1>1, <2>1 DEF OpenInv, SentOwned, LeaseInv, FreshInv, Fresh
  <2>4. ASSUME NEW r \in Requests, Rejected(r), at[r] = s PROVE FALSE
    <3>1. r = q
      BY <1>1, <2>1, <2>4, OneOpener DEF Rejected, LeaseInv
    <3> QED
      BY <1>1, <2>4, <3>1
  <2> QED
    BY <1>1, <2>1, <2>2, <2>3, <2>4, ChainTurns
<1>2. CASE Answered(q)
  <2>1. pc[q] = "posting" /\ at'[q] = at[q] /\ chain' = chain /\ Born(at[q])
    BY <1>2 DEF Answered, SamePlace
  <2> QED
    BY <2>1 DEF OpenInv, OpenedOpen, Born
<1> QED
  BY <1>1, <1>2, OpenOrigin

\* No closed session comes into the pool.
LEMMA EntersOpen ==
    ASSUME Calm, Typed, Known, PoolInv, LeaseInv, OpenInv, StepKinds,
           NEW m \in Models, NEW s \in Sessions, entry'[m] = s, entry[m] # s
    PROVE  chain'[s] # "closed"
<1>1. ASSUME NEW r \in Requests, Takes(r, s) PROVE chain'[s] # "closed"
  <2>0. chain' = chain
    BY <1>1 DEF Takes
  <2>1. CASE pc[r] = "got" /\ at[r] = s
    BY <2>0, <2>1 DEF OpenInv, OpenedOpen
  <2>2. CASE UNCHANGED entry
    BY <2>2
  <2> QED
    BY <1>1, <2>1, <2>2 DEF Takes
<1>2. ASSUME NEW a \in Actors \ Backgrounds, NEW due \in SUBSET Sessions, NEW keep, Scans(a, keep, due), keep[m] = s
      PROVE  chain'[s] # "closed"
  <2>1. s \in seen[a].open /\ pc[a] = "apply" /\ chain' = chain
    BY <1>2, ActorsAssumption DEF Scans
  <2> QED
    BY <2>1 DEF OpenInv, ListOpen
<1> QED
  BY <1>1, <1>2, NewEntry

\* A closed session stays in the pool only until it is forgotten.
LEMMA ClosedKept ==
    ASSUME Calm, Typed, Typed', Known, PoolInv, LeaseInv, OpenInv, ClosingMarked', StepKinds
    PROVE  ClosedStaysOut'
<1> SUFFICES ASSUME NEW m \in Models, entry'[m] # NoSession, chain'[entry'[m]] = "closed"
             PROVE  \/ mark'[entry'[m]] # "none"
                    \/ \E a \in Actors : pc'[a] = "forget" /\ at'[a] = entry'[m]
  BY DEF ClosedStaysOut
<1>1. PICK s \in Sessions : s = entry'[m]
  BY DEF Typed, TypeOK
<1>2. entry[m] = s /\ entry[m] # NoSession
  BY <1>1, EntersOpen
<1>3. CASE chain[s] # "closed"
  <2>1. s \in closeSent /\ UNCHANGED mark
    <3>1. ASSUME NEW r \in Requests, Rejected(r), at[r] = s PROVE chain'[s] # "closed"
      BY <3>1 DEF Rejected, Typed, TypeOK
    <3> QED
      BY <1>1, <1>3, <3>1, ChainTurns
  <2>2. mark[s] = "now"
    BY <2>1 DEF OpenInv, SentOwned, ClosingMarked
  <2> QED
    BY <1>1, <2>1, <2>2
<1>4. CASE chain[s] = "closed" /\ mark[s] # "none"
  <2>1. mark[s] = "now"
    BY <1>4 DEF LeaseInv, SureInv, Known
  <2>2. PICK a \in Actors : pc[a] = "closing" /\ at[a] = s
    BY <2>1 DEF PoolInv, Owned
  <2>3. CASE pc'[a] = pc[a] /\ at'[a] = at[a]
    BY <1>1, <2>2, <2>3 DEF ClosingMarked
  <2>4. CASE Closes(a)
    BY <1>1, <2>2, <2>4 DEF Closes, SamePlace
  <2>5. CASE Forgets(a) \/ \E n \in {"none", "cut"} : GivesUp(a, n)
    BY <1>4, <2>2, <2>5 DEF Forgets, GivesUp, Known, Sure
  <2> QED
    BY <2>2, <2>3, <2>4, <2>5, CloseGoesOn
<1>5. CASE \E a \in Actors : pc[a] = "forget" /\ at[a] = s
  <2>1. PICK a \in Actors : pc[a] = "forget" /\ at[a] = s
    BY <1>5
  <2>2. ~Forgets(a)
    BY <1>1, <2>1, ActorsAssumption DEF Forgets
  <2>3. ~Closes(a) /\ \A n \in {"none", "cut"} : ~GivesUp(a, n)
    BY <2>1 DEF Closes, GivesUp
  <2>4. pc'[a] = "forget" /\ at'[a] = s
    BY <2>1, <2>2, <2>3, CloseGoesOn
  <2> QED
    BY <1>1, <2>4
<1> QED
  BY <1>2, <1>3, <1>4, <1>5 DEF OpenInv, ClosedStaysOut

\* OpenInv holds of the empty pool.
LEMMA OpenInitially == Init => OpenInv
<1> SUFFICES ASSUME Init PROVE OpenInv
  OBVIOUS
<1>1. \A a \in Actors : pc[a] = "rest"
  BY DEF Init
<1>2. SentOwned /\ ClosedStaysOut
  BY DEF Init, SentOwned, ClosedStaysOut
<1> QED
  BY <1>1, <1>2 DEF OpenInv, ClosingMarked, ListOpen, OpenedOpen, Actors

\* Every step of such a world keeps OpenInv.
LEMMA OpenKeptNext ==
    ASSUME Calm, Known, Typed, PoolInv, LeaseInv, OpenInv, [Next]_vars
    PROVE  OpenInv'
<1>1. CASE Next
  <2>1. StepKinds
    BY <1>1, Kinds DEF LeaseInv
  <2>2. Typed'
    BY TypedKept
  <2>3. SentOwned' /\ ClosingMarked'
    BY <2>1, <2>2, SentKept, MarkedKept DEF OpenInv, LeaseInv
  <2>4. \A a \in Actors : ListOpen(a)'
    BY <2>1, <2>2, ListKept DEF LeaseInv
  <2>5. \A r \in Requests : OpenedOpen(r)'
    BY <2>1, <2>2, OpenedKept
  <2>6. ClosedStaysOut'
    BY <2>1, <2>2, <2>3, ClosedKept
  <2> QED
    BY <2>3, <2>4, <2>5, <2>6 DEF OpenInv
<1>2. CASE UNCHANGED vars
  BY <1>2 DEF vars, chainVars, poolVars, actorVars, OpenInv, SentOwned, ClosingMarked, ListOpen, OpenedOpen, ClosedStaysOut
<1> QED
  BY <1>1, <1>2

\* Where every answer arrives and nobody else closes, the pool holds a session
\* closed on chain only while its mark stands or it is about to be forgotten:
\* it is never handed out again (closeWithToken, forget).
THEOREM ClosedIsOut ==
    ASSUME Calm, "lost" \notin Enabled, "gone" \notin Enabled
    PROVE  Spec => []ClosedStaysOut
<1>0. Known
  BY DEF Known, Sure
<1>1. Typed /\ PoolInv /\ LeaseInv /\ OpenInv /\ [Next]_vars => OpenInv'
  BY <1>0, OpenKeptNext
<1>2. OpenInv => ClosedStaysOut
  BY DEF OpenInv
<1> QED
  BY <1>1, <1>2, OpenInitially, LeaseIInv, PTL DEF Spec

-----------------------------------------------------------------------------
(* The pool implements the life of a session drawn at the head of lease.go. *)

\* Closed by its caller, about to be forgotten; what makes a session closing.
Forgotten(s) == \E a \in Actors : pc[a] = "forget" /\ at[a] = s
Busy(s) == mark[s] \in {"now", "cut"} \/ StateOf(s).closing \/ Forgotten(s)

\* The phases, case by case.
LEMMA Phases ==
    ASSUME NEW s \in Sessions
    PROVE  /\ ~Tracked(s) /\ chain[s] = "closed" => Phase(s) = "closed"
           /\ (Tracked(s) \/ chain[s] # "closed") /\ Busy(s) => Phase(s) = "closing"
           /\ ~Tracked(s) /\ chain[s] # "closed" /\ ~Busy(s) => Phase(s) = "unheld"
           /\ Tracked(s) /\ ~Busy(s) /\ sess[s].retired => Phase(s) = "retired"
           /\ Tracked(s) /\ ~Busy(s) /\ ~sess[s].retired => Phase(s) = "open"
BY DEF Phase, Busy, Forgotten

\* A step of the pool is, for session s, a step of its life.
Lives(s) ==
    LET p == Phase(s)
        q == Phase(s)'
        same == Leases(s)' = Leases(s)
    IN  \/ p \in {"unheld", "open"} /\ q = "open" /\ \E r \in Requests \ Leases(s) : Leases(s)' = Leases(s) \cup {r}
        \/ q = p /\ \E r \in Leases(s) : Leases(s)' = Leases(s) \ {r}
        \/ p = "unheld" /\ q = "open" /\ same
        \/ p = "open" /\ q = "retired" /\ same
        \/ Leases(s) = {} /\ p \in {"unheld", "open", "retired"} /\ q = "closing" /\ same
        \/ p = "closing" /\ q \in {"unheld", "open", "retired"} /\ same
        \/ Leases(s) = {} /\ p \in {"closing", "unheld", "retired"} /\ q = "closed" /\ same
        \/ q = p /\ same

\* Steps of the lives of all sessions are a step of SessionLifecycle.
LEMMA LivesImplements ==
    ASSUME \A s \in Sessions : Lives(s)
    PROVE  Lifecycle!Next
<1> SUFFICES ASSUME NEW s \in Sessions PROVE Lifecycle!SessionStep(s)
  BY DEF Lifecycle!Next
<1> DEFINE ph == [t \in Sessions |-> Phase(t)]
           us == [t \in Sessions |-> Leases(t)]
<1>1. ph[s] = Phase(s) /\ ph'[s] = Phase(s)' /\ us[s] = Leases(s) /\ us'[s] = Leases(s)'
  OBVIOUS
<1>2. Lives(s)
  OBVIOUS
<1> QED
  BY <1>1, <1>2 DEF Lives, Lifecycle!SessionStep, Lifecycle!Lease, Lifecycle!EndLease, Lifecycle!Adopt, Lifecycle!Retire,
     Lifecycle!StartClose, Lifecycle!CloseFails, Lifecycle!Closed, Lifecycle!Stays, Lifecycle!Moves, Lifecycle!SameUsers

\* A session left as it is stays in its phase.
LEMMA LivesSame ==
    ASSUME NEW s \in Sessions, sess'[s] = sess[s], mark'[s] = mark[s],
           chain'[s] = "closed" <=> chain[s] = "closed",
           Forgotten(s)' <=> Forgotten(s), Leases(s)' = Leases(s)
    PROVE  Lives(s)
<1>1. (Tracked(s)' <=> Tracked(s)) /\ (Busy(s)' <=> Busy(s))
  BY DEF Tracked, Busy, StateOf
<1>2. Phase(s)' = Phase(s)
  BY <1>1 DEF Phase, Tracked, Busy, Forgotten
<1> QED
  BY <1>2 DEF Lives

\* Nothing comes to be forgotten by a step elsewhere.
LEMMA ForgottenSame ==
    ASSUME NEW a \in Actors, OthersKeep(a), pc[a] # "forget", pc'[a] # "forget", NEW s
    PROVE  Forgotten(s)' <=> Forgotten(s)
BY DEF Forgotten, OthersKeep

\* With the slot free or held by another, nothing waits to be forgotten.
LEMMA NoneForgotten ==
    ASSUME PoolInv, \/ slot = NoOne
                    \/ \E a \in Actors : pc[a] \in WithSlot \ {"forget"}
                    \/ \E a \in Requests \cup Sweepers : pc[a] = "apply",
           NEW s
    PROVE  ~Forgotten(s)
BY ActorsAssumption DEF Forgotten, PoolInv, SlotHeld, Needs, WithSlot, Actors

\* The same of the next state.
LEMMA PhasesNext ==
    ASSUME NEW s \in Sessions
    PROVE  /\ ~Tracked(s)' /\ chain'[s] = "closed" => Phase(s)' = "closed"
           /\ (Tracked(s)' \/ chain'[s] # "closed") /\ Busy(s)' => Phase(s)' = "closing"
           /\ ~Tracked(s)' /\ chain'[s] # "closed" /\ ~Busy(s)' => Phase(s)' = "unheld"
           /\ Tracked(s)' /\ ~Busy(s)' /\ sess'[s].retired => Phase(s)' = "retired"
           /\ Tracked(s)' /\ ~Busy(s)' /\ ~sess'[s].retired => Phase(s)' = "open"
BY DEF Phase, Busy, Forgotten

\* Nor do the leases change.
LEMMA LeasesSame ==
    ASSUME NEW a \in Actors, OthersKeep(a), pc[a] # "using", pc'[a] # "using", NEW s
    PROVE  Leases(s)' = Leases(s)
BY DEF OthersKeep, Leases, Actors

\* A step that leaves session s as it is.
LEMMA LivesAlong ==
    ASSUME NEW a \in Actors, OthersKeep(a), pc[a] \notin {"using", "forget"}, pc'[a] \notin {"using", "forget"},
           NEW s \in Sessions, sess'[s] = sess[s], mark'[s] = mark[s], chain'[s] = "closed" <=> chain[s] = "closed"
    PROVE  Lives(s)
<1>1. Forgotten(s)' <=> Forgotten(s)
  BY ForgottenSame
<1>2. Leases(s)' = Leases(s)
  BY LeasesSame
<1> QED
  BY <1>1, <1>2, LivesSame

\* The steps that leave the pool as it is.
LEMMA LivesQuiet ==
    ASSUME Calm, Typed, NEW a \in Actors, Quiet(a) \/ \E r \in Requests : Cuts(r, a), NEW s \in Sessions
    PROVE  Lives(s)
<1>1. /\ OthersKeep(a) /\ pc[a] \notin {"using", "forget"} /\ pc'[a] \notin {"using", "forget"}
      /\ sess' = sess /\ mark' = mark /\ chain' = chain
  BY DEF Quiet, QuietPCs, Cuts, PoolSame
<1> QED
  BY <1>1, LivesAlong

\* An open under way is not yet closed, nor is it when it is refused.
LEMMA LivesOpening ==
    ASSUME Calm, Typed, NEW r \in Requests, NEW s \in Sessions,
           \/ Answered(r) \/ Rejected(r) \/ \E k \in Sessions : Finds(r, k)
           \/ \E x \in Sessions, A \in SUBSET Sessions : Opens(r, x, A)
    PROVE  Lives(s)
<1>1. /\ r \in Actors /\ OthersKeep(r) /\ pc[r] \notin {"using", "forget"} /\ pc'[r] \notin {"using", "forget"}
      /\ sess' = sess /\ mark' = mark
  BY DEF Answered, Rejected, Finds, Opens, Actors
<1>2. chain'[s] = "closed" <=> chain[s] = "closed"
  BY DEF Answered, Rejected, Finds, Opens, Typed, TypeOK
<1> QED
  BY <1>1, <1>2, LivesAlong

\* A close that lands closes a session marked by its caller.
LEMMA LivesOnChain ==
    ASSUME Calm, Typed, Known, PoolInv, LeaseInv, OpenInv, NEW t \in Sessions, ChainStep(t), NEW s \in Sessions
    PROVE  Lives(s)
<1>0. ChainMoves
  BY ChainIsMoves
<1>1. /\ sess' = sess /\ pc' = pc /\ at' = at
      /\ (Forgotten(s)' <=> Forgotten(s)) /\ Leases(s)' = Leases(s)
  BY <1>0 DEF ChainMoves, ActorsStay, Forgotten, Leases
<1>2. mark'[s] = mark[s]
  BY <1>0 DEF ChainMoves, LeaseInv, SureInv, Known
<1>3. CASE chain'[s] = "closed" <=> chain[s] = "closed"
  BY <1>1, <1>2, <1>3, LivesSame
<1>4. CASE ~(chain'[s] = "closed" <=> chain[s] = "closed")
  <2>1. s \in closeSent /\ chain[s] = "open" /\ chain'[s] = "closed"
    <3>1. StepKinds
      BY DEF StepKinds
    <3>2. ~\E r \in Requests : Rejected(r) /\ at[r] = s /\ chain[s] = "sent" /\ chain'[s] = "closed"
      BY DEF Rejected, Typed, TypeOK
    <3> QED
      BY <1>0, <1>4, <3>1, <3>2, ChainTurns DEF ChainMoves
  <2>2. PICK a \in Actors : pc[a] = "closing" /\ at[a] = s /\ mark[s] = "now"
    BY <2>1 DEF OpenInv, SentOwned, ClosingMarked
  <2>3. Leases(s) = {}
    BY <2>2 DEF LeaseInv, CloserInv
  <2>4. Busy(s) /\ Busy(s)' /\ (Tracked(s)' <=> Tracked(s))
    BY <1>1, <1>2, <2>2 DEF Busy, Tracked
  <2> QED
    BY <1>1, <2>1, <2>3, <2>4, Phases, PhasesNext DEF Lives
<1> QED
  BY <1>3, <1>4

\* A lease is taken on an open session, or on an unheld one just opened.
LEMMA LivesLeased ==
    ASSUME Calm, Typed, Known, LeaseInv, OpenInv, NEW r \in Requests, NEW t \in Sessions, Takes(r, t), NEW s \in Sessions
    PROVE  Lives(s)
<1>0. r \in Actors /\ OthersKeep(r) /\ pc[r] # "forget" /\ pc'[r] # "forget" /\ mark' = mark /\ chain' = chain
  BY DEF Takes, Actors
<1>1. Forgotten(s)' <=> Forgotten(s)
  BY <1>0, ForgottenSame
<1>2. CASE s # t
  BY <1>0, <1>1, <1>2, LivesSame, TakesFree DEF Takes
<1>3. CASE s = t
  <2>1. r \in Requests \ Leases(s) /\ Leases(s)' = Leases(s) \cup {r}
    BY <1>3, TakesFree
  <2>2. mark[s] = "none" /\ ~StateOf(s).retired /\ ~StateOf(s).closing /\ ~Forgotten(s)
    BY <1>3, TakesFree DEF Takes, Forgotten
  <2>3. ~Busy(s)
    BY <2>2 DEF Busy
  <2>4. Tracked(s)' /\ ~sess'[s].closing /\ ~sess'[s].retired
    BY <1>3 DEF Takes
  <2>5. ~Busy(s)'
    BY <1>0, <1>1, <2>2, <2>4 DEF Busy, StateOf, Tracked
  <2>6. CASE Tracked(s)
    <3>1. ~sess[s].retired
      BY <2>2, <2>6 DEF StateOf, Tracked
    <3> QED
      BY <2>1, <2>3, <2>4, <2>5, <2>6, <3>1, Phases, PhasesNext DEF Lives
  <2>7. CASE ~Tracked(s)
    <3>1. ReqModel[r] \in Models
      BY SetsAssumption
    <3>2. chain[s] # "closed"
      BY <1>3, <2>7, <3>1, ActorsAssumption DEF Takes, LeaseInv, EntryInv, EntryGood, OpenInv, OpenedOpen
    <3> QED
      BY <2>1, <2>3, <2>4, <2>5, <2>7, <3>2, Phases, PhasesNext DEF Lives
  <2> QED
    BY <2>6, <2>7
<1> QED
  BY <1>2, <1>3

\* A lease ends, whatever the phase.
LEMMA LivesOn ==
    ASSUME Calm, Typed, NEW r \in Requests, Ends(r), NEW s \in Sessions
    PROVE  Lives(s)
<1>0. PICK t \in Sessions : t = at[r]
  BY DEF Ends, Typed, Placed, AtSession, Actors
<1>1. /\ r \in Actors /\ OthersKeep(r) /\ pc[r] = "using" /\ pc'[r] \in {"rest", "fo"}
      /\ sess' = DoneState(t) /\ mark' = mark /\ chain' = chain
  BY <1>0 DEF Ends, Actors
<1>2. Forgotten(s)' <=> Forgotten(s)
  BY <1>1, ForgottenSame
<1>3. /\ Tracked(s)' <=> Tracked(s)
      /\ s # t => sess'[s] = sess[s]
      /\ Tracked(s) => /\ sess'[s].closing = sess[s].closing
                       /\ sess'[s].retired = sess[s].retired
  BY <1>1, DoneTracked
<1>4. Busy(s)' <=> Busy(s)
  BY <1>1, <1>2, <1>3 DEF Busy, StateOf, Tracked
<1>5. Phase(s)' = Phase(s)
  BY <1>1, <1>3, <1>4, Phases, PhasesNext
<1>6. CASE s = t
  <2>1. r \in Leases(s) /\ Leases(s)' = Leases(s) \ {r}
    BY <1>0, <1>1, <1>6 DEF Leases, OthersKeep, Actors
  <2> QED
    BY <1>5, <2>1 DEF Lives
<1>7. CASE s # t
  <2>1. Leases(s)' = Leases(s)
    BY <1>0, <1>1, <1>7 DEF Leases, OthersKeep, Actors
  <2> QED
    BY <1>5, <2>1 DEF Lives
<1> QED
  BY <1>6, <1>7

\* A scan adopts sessions, and a sweep starts the close of one.
LEMMA LivesScanned ==
    ASSUME Calm, Typed, Known, PoolInv, LeaseInv, OpenInv,
           NEW a \in Actors \ Backgrounds, NEW due \in SUBSET Sessions, NEW keep, Scans(a, keep, due), NEW s \in Sessions
    PROVE  Lives(s)
<1>0. PICK C \in SUBSET Sessions : Scanned(a, due, C)
  BY ScanIsScanned
<1>1. /\ pc[a] = "apply" /\ a \in Actors /\ OthersKeep(a) /\ chain' = chain /\ C \subseteq due
      /\ pc'[a] \notin {"using", "forget"}
  BY <1>0 DEF Scans, Scanned
<1>2. /\ Leases(s)' = Leases(s) /\ (Forgotten(s)' <=> Forgotten(s))
  BY <1>1, ForgottenSame, LeasesSame
<1>3. ~Forgotten(s)
  BY <1>1, NoneForgotten DEF Calm, Actors
<1>3a. /\ ClosedLate(seen[a].open) = {} /\ mark[s] \in {"none", "now"}
      /\ ScanMarks(seen[a].open)[s] = mark[s]
  BY <1>1, ScanSure DEF Known, LeaseInv
<1>4. /\ mark'[s] = IF s \in C THEN "now" ELSE mark[s]
      /\ sess'[s] = IF \E m \in Models : keep[m] = s THEN StateOf(s) ELSE sess[s]
      /\ mark[s] \in {"none", "now"}
  BY <1>0, <1>3a DEF Scanned, Scans
<1>5. CASE s \in C
  <2>1. s \in due /\ s \in seen[a].open /\ mark[s] = "none"
    BY <1>1, <1>5, <1>3a DEF Scans
  <2>2. Leases(s) = {} /\ chain[s] = "open"
    BY <1>1, <2>1, DueUnused DEF OpenInv, ListOpen
  <2>3. ~StateOf(s).closing
    BY <2>1 DEF Scans, Held, HeldDue, RetiredIdle, StateOf, NewState, Tracked
  <2>4. sess'[s] = sess[s]
    BY <1>4, <2>1, ActorsAssumption DEF Scans
  <2>5. ~Busy(s) /\ Busy(s)' /\ (Tracked(s)' <=> Tracked(s))
    BY <1>3, <1>4, <1>5, <2>1, <2>3, <2>4 DEF Busy, Tracked
  <2>6. Phase(s) \in {"unheld", "open", "retired"}
    BY <2>2, <2>5, Phases
  <2>7. Phase(s)' = "closing"
    BY <1>1, <2>2, <2>5, PhasesNext
  <2> QED
    BY <1>2, <2>2, <2>6, <2>7 DEF Lives
<1>6. CASE s \notin C /\ (Tracked(s) \/ ~\E m \in Models : keep[m] = s)
  <2>1. sess'[s] = sess[s]
    BY <1>4, <1>6 DEF StateOf, Tracked
  <2> QED
    BY <1>1, <1>2, <1>4, <1>6, <2>1, LivesSame
<1>7. CASE s \notin C /\ ~Tracked(s) /\ \E m \in Models : keep[m] = s
  <2>1. s \in seen[a].open /\ mark[s] = "none" /\ sess'[s] = NewState
    BY <1>4, <1>7, <1>3a, ActorsAssumption DEF Scans, StateOf, Tracked
  <2>2. chain[s] = "open"
    BY <1>1, <2>1 DEF OpenInv, ListOpen
  <2>3. ~NewState.closing /\ ~NewState.retired /\ NewState # NoState
    <3>1. NewState \in LeaseStates
      BY RetriesAssumption DEF NewState, LeaseStates
    <3> QED
      BY <3>1, NoStateAssumption DEF NewState
  <2>4. Tracked(s)' /\ ~sess'[s].closing /\ ~sess'[s].retired
    BY <2>1, <2>3 DEF Tracked
  <2>5. ~Busy(s)
    BY <1>3, <1>7, <2>1, <2>3 DEF Busy, StateOf, Tracked
  <2>6. ~Busy(s)'
    BY <1>2, <1>3, <1>4, <1>7, <2>1, <2>4 DEF Busy, StateOf, Tracked
  <2> QED
    BY <1>1, <1>2, <1>7, <2>2, <2>4, <2>5, <2>6, Phases, PhasesNext DEF Lives
<1> QED
  BY <1>5, <1>6, <1>7

\* The close call: it lands, the session is forgotten, or it fails.
LEMMA LivesClosed ==
    ASSUME Calm, Typed, LeaseInv, NEW a \in Actors, Closes(a), NEW s \in Sessions
    PROVE  Lives(s)
<1>1. /\ OthersKeep(a) /\ pc[a] = "closing" /\ pc'[a] = "forget" /\ at'[a] = at[a]
      /\ sess' = sess /\ chain' = chain
  BY DEF Closes, SamePlace
<1>2. Leases(s)' = Leases(s)
  BY <1>1, LeasesSame
<1>3. CASE s # at[a]
  <2>1. mark'[s] = mark[s] /\ (Forgotten(s)' <=> Forgotten(s))
    BY <1>1, <1>3 DEF Closes, Forgotten, OthersKeep, Typed, TypeOK
  <2> QED
    BY <1>1, <1>2, <2>1, LivesSame
<1>4. CASE s = at[a]
  <2>1. chain[s] = "closed" /\ (Tracked(s)' <=> Tracked(s))
    BY <1>1, <1>4 DEF Closes, Tracked
  <2>2. Busy(s)'
    BY <1>1, <1>4 DEF Busy, Forgotten
  <2>3. Leases(s) = {}
    BY <1>1, <1>4 DEF LeaseInv, CloserInv, ActorCloses
  <2>4. CASE ~Tracked(s)
    BY <1>1, <1>2, <2>1, <2>4, Phases, PhasesNext DEF Lives
  <2>5. CASE Tracked(s)
    <3>1. Phase(s)' = "closing"
      BY <2>1, <2>2, <2>5, PhasesNext
    <3>2. Phase(s) \in {"closing", "open", "retired"}
      BY <2>5, Phases
    <3> QED
      BY <1>2, <2>3, <3>1, <3>2 DEF Lives
  <2> QED
    BY <2>4, <2>5
<1> QED
  BY <1>3, <1>4

\* A session forgotten after its close is closed.
LEMMA LivesForgotten ==
    ASSUME Calm, Typed, PoolInv, LeaseInv, NEW a \in Actors, Forgets(a), NEW s \in Sessions
    PROVE  Lives(s)
<1>1. /\ OthersKeep(a) /\ pc[a] = "forget" /\ pc'[a] \in {"rest", "foOpen"}
      /\ mark' = mark /\ chain' = chain
  BY DEF Forgets, Leaves
<1>2. Leases(s)' = Leases(s)
  BY <1>1, LeasesSame
<1>3. CASE s # at[a]
  <2>1. sess'[s] = sess[s] /\ (Forgotten(s)' <=> Forgotten(s))
    BY <1>1, <1>3 DEF Forgets, Forgotten, OthersKeep, Typed, TypeOK
  <2> QED
    BY <1>1, <1>2, <2>1, LivesSame
<1>4. CASE s = at[a]
  <2>1. chain[s] = "closed" /\ Leases(s) = {} /\ Busy(s)
    BY <1>1, <1>4 DEF LeaseInv, BornInv, ActorBorn, CloserInv, ActorCloses, Busy, Forgotten
  <2>2. ~Tracked(s)'
    BY <1>4 DEF Forgets, Tracked, Typed, TypeOK
  <2>3. Phase(s)' = "closed" /\ Phase(s) \in {"closed", "closing"}
    BY <1>1, <2>1, <2>2, Phases, PhasesNext
  <2> QED
    BY <1>2, <2>1, <2>3 DEF Lives
<1> QED
  BY <1>3, <1>4

\* A close that failed leaves the session as it was, or still closing.
LEMMA LivesGivenUp ==
    ASSUME Calm, Typed, Known, OpenInv, NEW a \in Actors, NEW n \in {"none", "cut"}, GivesUp(a, n), NEW s \in Sessions
    PROVE  Lives(s)
<1>1. /\ OthersKeep(a) /\ pc[a] = "closing" /\ pc'[a] \in {"rest", "foOpen", "closeFailed"}
      /\ sess' = sess /\ chain' = chain /\ n = "none" /\ chain[at[a]] # "closed"
  BY DEF GivesUp, Leaves, Known, Sure
<1>2. Leases(s)' = Leases(s) /\ (Forgotten(s)' <=> Forgotten(s))
  BY <1>1, LeasesSame, ForgottenSame
<1>3. CASE s # at[a]
  <2>1. mark'[s] = mark[s]
    BY <1>1, <1>3 DEF GivesUp, Typed, TypeOK
  <2> QED
    BY <1>1, <1>2, <2>1, LivesSame
<1>4. CASE s = at[a]
  <2>1. Busy(s)
    BY <1>1, <1>4 DEF OpenInv, ClosingMarked, Busy
  <2>2. Phase(s) = "closing"
    BY <1>1, <1>4, <2>1, Phases
  <2>3. Phase(s)' \in {"closing", "unheld", "retired", "open"}
    BY <1>1, <1>4, PhasesNext
  <2> QED
    BY <1>2, <2>2, <2>3 DEF Lives
<1> QED
  BY <1>3, <1>4

\* A closing session is put back to retired.
LEMMA LivesBack ==
    ASSUME Calm, Typed, Known, LeaseInv, NEW a \in Actors, GoesBack(a), NEW s \in Sessions
    PROVE  Lives(s)
<1>0. PICK t \in Sessions : t = at[a]
  BY DEF GoesBack, Typed, Placed, AtSession
<1>1. /\ OthersKeep(a) /\ pc[a] = "closeFailed" /\ pc'[a] \in {"rest", "foOpen"}
      /\ sess' = BackToRetired(t) /\ mark' = mark /\ chain' = chain
  BY <1>0 DEF GoesBack, Leaves
<1>2. Leases(s)' = Leases(s) /\ (Forgotten(s)' <=> Forgotten(s))
  BY <1>1, LeasesSame, ForgottenSame
<1>3. (Tracked(s)' <=> Tracked(s)) /\ (t # s => sess'[s] = sess[s])
  BY <1>1, BackTracked
<1>4. CASE t # s
  BY <1>1, <1>2, <1>3, <1>4, LivesSame
<1>5. CASE t = s /\ ~Tracked(s)
  <2>1. sess'[s] = sess[s]
    BY <1>3, <1>5 DEF Tracked
  <2> QED
    BY <1>1, <1>2, <2>1, LivesSame
<1>6. CASE t = s /\ Tracked(s)
  <2>1. Closer(a)
    BY <1>1 DEF LeaseInv, ControlInv, RequestControl, BackgroundControl, SweeperControl, ClosePCs, Actors, Calm, Closer, Owns
  <2>2. StateOf(s).closing
    BY <1>0, <1>6, <2>1 DEF LeaseInv, CloserInv, ActorCloses, Known, StateOf, Tracked
  <2>3. Phase(s) = "closing"
    BY <1>6, <2>2, Phases DEF Busy
  <2>4. Phase(s)' \in {"closing", "retired", "open"}
    BY <1>3, <1>6, PhasesNext
  <2> QED
    BY <1>2, <2>3, <2>4 DEF Lives
<1> QED
  BY <1>4, <1>5, <1>6

\* sweepRetired, failover and release.
LEMMA LivesSwept ==
    ASSUME Calm, Typed, Known, PoolInv, LeaseInv, NEW a \in Actors, NEW t \in Sessions, SweepsOut(a, t), NEW s \in Sessions
    PROVE  Lives(s)
<1>1. /\ OthersKeep(a) /\ pc[a] = "rest" /\ pc'[a] = "closing" /\ slot = NoOne /\ chain' = chain
  BY DEF SweepsOut
<1>2. Leases(s)' = Leases(s) /\ (Forgotten(s)' <=> Forgotten(s)) /\ ~Forgotten(s)
  BY <1>1, LeasesSame, ForgottenSame, NoneForgotten
<1>3. LiveMarks[s] = mark[s] /\ mark'[s] = IF s = t THEN "now" ELSE LiveMarks[s]
  BY DEF SweepsOut, LiveMarks, LeaseInv, SureInv, Known
<1>4. CASE s # t
  BY <1>1, <1>2, <1>3, <1>4, LivesSame DEF SweepsOut, OnlyState
<1>5. CASE s = t
  <2>1. Tracked(s) /\ Tracked(s)' /\ ~sess[s].closing /\ mark[s] = "none" /\ Leases(s) = {}
    BY <1>3, <1>5, NoLeases DEF SweepsOut, OnlyState, LeaseInv
  <2>2. ~Busy(s) /\ Busy(s)'
    BY <1>2, <1>3, <1>5, <2>1 DEF Busy, StateOf, Tracked
  <2>3. Phase(s) \in {"open", "retired"} /\ Phase(s)' = "closing"
    BY <2>1, <2>2, Phases, PhasesNext
  <2> QED
    BY <1>2, <2>1, <2>3 DEF Lives
<1> QED
  BY <1>4, <1>5

\* The close of a failed session begins.
LEMMA LivesClosing ==
    ASSUME Calm, Typed, Known, PoolInv, LeaseInv, NEW a \in Requests \cup Backgrounds, StartsClose(a), NEW s \in Sessions
    PROVE  Lives(s)
<1>1. /\ a \in Actors /\ OthersKeep(a) /\ pc[a] = "foClose" /\ pc'[a] = "closing" /\ slot = NoOne
      /\ chain' = chain /\ sess' = sess
  BY DEF StartsClose, Actors
<1>2. Leases(s)' = Leases(s) /\ (Forgotten(s)' <=> Forgotten(s)) /\ ~Forgotten(s)
  BY <1>1, LeasesSame, ForgottenSame, NoneForgotten
<1>3. CASE s # at[a]
  <2>1. mark'[s] = mark[s]
    BY <1>3 DEF StartsClose, Typed, TypeOK
  <2> QED
    BY <1>1, <1>2, <2>1, LivesSame
<1>4. CASE s = at[a]
  <2>1. Closer(a)
    BY <1>1 DEF LeaseInv, ControlInv, RequestControl, BackgroundControl, ClosePCs, Closer, Owns
  <2>2. Leases(s) = {}
    BY <1>1, <1>4, <2>1 DEF LeaseInv, CloserInv, ActorCloses, Known
  <2>3. Busy(s)' /\ (Tracked(s)' <=> Tracked(s))
    BY <1>1, <1>4 DEF StartsClose, Busy, Tracked, Typed, TypeOK
  <2>4. CASE ~Tracked(s) /\ chain[s] = "closed"
    BY <1>1, <1>2, <2>3, <2>4, Phases, PhasesNext DEF Lives
  <2>5. CASE Tracked(s) \/ chain[s] # "closed"
    <3>1. Phase(s)' = "closing" /\ Phase(s) \in {"closing", "unheld", "retired", "open"}
      BY <1>1, <2>3, <2>5, Phases, PhasesNext
    <3> QED
      BY <1>2, <2>2, <3>1 DEF Lives
  <2> QED
    BY <2>4, <2>5
<1> QED
  BY <1>3, <1>4

\* A failed session is retired, or closing when nobody uses it.
LEMMA LivesRetired ==
    ASSUME Calm, Typed, Known, PoolInv, LeaseInv, NEW a \in Actors, NEW t \in Sessions, Retires(a, t), NEW s \in Sessions
    PROVE  Lives(s)
<1>1. /\ OthersKeep(a) /\ pc[a] = "foRetire" /\ pc'[a] \in {"foClose", "foOpen", "rest"}
      /\ chain' = chain /\ mark' = mark
  BY DEF Retires
<1>2. Leases(s)' = Leases(s) /\ (Forgotten(s)' <=> Forgotten(s))
  BY <1>1, LeasesSame, ForgottenSame
<1>3. CASE s # t \/ ~Tracked(s)
  <2>1. sess'[s] = sess[s]
    BY <1>3 DEF Retires, OnlyState, Tracked
  <2> QED
    BY <1>1, <1>2, <2>1, LivesSame
<1>4. CASE s = t /\ Tracked(s)
  <2>1. Tracked(s)' /\ sess'[s].retired
    BY <1>4 DEF Retires, OnlyState
  <2>2. CASE sess[s].inflight = 0 /\ ~sess[s].closing /\ sess'[s].closing
    <3>1. Leases(s) = {}
      BY <2>2, NoLeases DEF LeaseInv
    <3>2. Busy(s)'
      BY <2>1, <2>2 DEF Busy, StateOf, Tracked
    <3>3. Phase(s)' = "closing" /\ Phase(s) \in {"closing", "open", "retired"}
      BY <1>4, <2>1, <3>2, Phases, PhasesNext
    <3> QED
      BY <1>2, <3>1, <3>3 DEF Lives
  <2>3. CASE sess'[s].closing <=> sess[s].closing
    <3>1. Busy(s)' <=> Busy(s)
      BY <1>1, <1>2, <1>4, <2>1, <2>3 DEF Busy, StateOf, Tracked
    <3>2. CASE Busy(s)
      BY <1>2, <1>4, <2>1, <3>1, <3>2, Phases, PhasesNext DEF Lives
    <3>3. CASE ~Busy(s)
      BY <1>2, <1>4, <2>1, <3>1, <3>3, Phases, PhasesNext DEF Lives
    <3> QED
      BY <3>2, <3>3
  <2> QED
    BY <1>4, <2>2, <2>3 DEF Retires
<1> QED
  BY <1>3, <1>4

\* A released session may be retired.
LEMMA LivesReleased ==
    ASSUME Calm, Typed, NEW t \in Sessions, Releases(t), NEW s \in Sessions
    PROVE  Lives(s)
<1>1. UNCHANGED <<pc, at, mark, chain>>
  BY DEF Releases
<1>2. Leases(s)' = Leases(s) /\ (Forgotten(s)' <=> Forgotten(s))
  BY <1>1 DEF Leases, Forgotten
<1>3. CASE s # t
  BY <1>1, <1>2, <1>3, LivesSame DEF Releases, OnlyState
<1>4. CASE s = t
  <2>1. Tracked(s) /\ Tracked(s)' /\ ~sess[s].closing /\ ~sess'[s].closing
    BY <1>4 DEF Releases, OnlyState
  <2>2. (sess'[s].retired <=> sess[s].retired) \/ sess'[s].retired
    BY <1>4 DEF Releases
  <2>3. Busy(s)' <=> Busy(s)
    BY <1>1, <1>2, <2>1 DEF Busy, StateOf, Tracked
  <2>4. CASE Busy(s)
    BY <1>2, <2>1, <2>3, <2>4, Phases, PhasesNext DEF Lives
  <2>5. CASE ~Busy(s)
    BY <1>2, <2>1, <2>2, <2>3, <2>5, Phases, PhasesNext DEF Lives
  <2> QED
    BY <2>4, <2>5
<1> QED
  BY <1>3, <1>4

\* Every step is a step in the life of every session.
LEMMA LivesNext ==
    ASSUME Calm, Typed, Known, PoolInv, LeaseInv, OpenInv, StepKinds, NEW s \in Sessions
    PROVE  Lives(s)
<1>1. ASSUME NEW a \in Actors, \/ Quiet(a) \/ Closes(a) \/ Forgets(a) \/ GoesBack(a)
                               \/ \E n \in {"none", "cut"} : GivesUp(a, n)
                               \/ \E t \in Sessions : SweepsOut(a, t) \/ Retires(a, t)
                               \/ \E r \in Requests : Cuts(r, a)
      PROVE Lives(s)
  BY <1>1, LivesQuiet, LivesClosed, LivesForgotten, LivesBack, LivesGivenUp, LivesSwept, LivesRetired
<1>2. ASSUME NEW r \in Requests, \/ Ends(r) \/ Answered(r) \/ Rejected(r)
                                 \/ \E t \in Sessions : Finds(r, t) \/ Takes(r, t)
                                 \/ \E x \in Sessions, A \in SUBSET Sessions : Opens(r, x, A)
      PROVE Lives(s)
  BY <1>2, LivesOn, LivesOpening, LivesLeased
<1>3. ASSUME NEW a \in Actors \ Backgrounds, NEW due \in SUBSET Sessions, NEW keep, Scans(a, keep, due) PROVE Lives(s)
  BY <1>3, LivesScanned
<1>4. ASSUME NEW a \in Requests \cup Backgrounds, StartsClose(a) PROVE Lives(s)
  BY <1>4, LivesClosing
<1>5. ASSUME NEW t \in Sessions, Releases(t) \/ ChainStep(t) PROVE Lives(s)
  BY <1>5, LivesReleased, LivesOnChain
<1>6. \A a \in Backgrounds \cup Sweepers \cup Requests : a \in Actors
  BY DEF Actors
<1> QED
  BY <1>1, <1>2, <1>3, <1>4, <1>5, <1>6 DEF StepKinds

\* Every session is unheld to begin with.
LEMMA LifeBegins == Init => Lifecycle!Init
<1> SUFFICES ASSUME Init PROVE Lifecycle!Init
  OBVIOUS
<1>1. ASSUME NEW s \in Sessions PROVE Phase(s) = "unheld" /\ Leases(s) = {}
  <2>1. /\ \A a \in Actors : pc[a] = "rest"
        /\ ~Tracked(s) /\ chain[s] # "closed" /\ mark[s] = "none"
    BY DEF Init, Tracked
  <2>2. ~Busy(s)
    BY <2>1 DEF Busy, Forgotten, StateOf, NewState, Tracked
  <2> QED
    BY <2>1, <2>2, Phases DEF Leases, Actors
<1> QED
  BY <1>1 DEF Lifecycle!Init

\* The pool implements SessionLifecycle, the states drawn at the head of
\* lease.go in their order and with their conditions on the requests in flight,
\* where every answer arrives and nobody else closes a session.
THEOREM FollowsTheLifecycle ==
    ASSUME Calm, "lost" \notin Enabled, "gone" \notin Enabled
    PROVE  Spec => FollowsLifecycle
<1>0. Known
  BY DEF Known, Sure
<1>1. Typed /\ PoolInv /\ LeaseInv /\ OpenInv /\ [Next]_vars => OpenInv'
  BY <1>0, OpenKeptNext
<1>2. ASSUME Typed, PoolInv, LeaseInv, OpenInv, [Next]_vars
      PROVE  [Lifecycle!Next]_(Lifecycle!vars)
  <2>1. CASE Next
    <3>1. StepKinds
      BY <1>2, <2>1, Kinds DEF LeaseInv
    <3>2. \A s \in Sessions : Lives(s)
      BY <1>0, <1>2, <3>1, LivesNext
    <3> QED
      BY <3>2, LivesImplements
  <2>2. CASE UNCHANGED vars
    <3>1. ASSUME NEW s \in Sessions PROVE Phase(s)' = Phase(s) /\ Leases(s)' = Leases(s)
      BY <2>2 DEF vars, chainVars, poolVars, actorVars, Phase, Leases, Tracked, StateOf
    <3> QED
      BY <3>1 DEF Lifecycle!vars
  <2> QED
    BY <1>2, <2>1, <2>2
<1> QED
  BY <1>1, <1>2, OpenInitially, LifeBegins, LeaseIInv, PTL DEF Spec, FollowsLifecycle, Lifecycle!Spec
=============================================================================
