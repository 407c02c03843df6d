------------------------------ MODULE PoolScan ------------------------------
(*****************************************************************************)
(* The wallet scan (sweep.go): a list of the open sessions is read and then  *)
(* applied.  It resolves open attempts, adopts one session per model, drops  *)
(* entries closed elsewhere, notices late closes, and a sweep picks one      *)
(* session to close.                                                         *)
(*****************************************************************************)
EXTENDS PoolLeases

\* The list holds every open session, except that it may lag behind an open
\* by less than pruneGrace.
ReadList(a) ==
    LET opened == {s \in Sessions : chain[s] = "open"}
        aged == {s \in Sessions : age[s] # "young"}
    IN  /\ pc[a] = "scan"
        /\ \E L \in SUBSET opened :
              /\ opened \cap aged \subseteq L
              /\ seen' = [seen EXCEPT ![a] = [open |-> L, old |-> aged]]
        /\ Go(a, "apply", at[a], how[a]) /\ KeepFlag
        /\ UNCHANGED <<chainVars, poolVars, slot, lock>>

ReadFails(a) ==
    /\ pc[a] = "scan"
    /\ \/ /\ a \in Requests
          /\ Step(a, "miss") /\ UNCHANGED <<slot, lock>>
       \/ a \notin Requests /\ End(a)
    /\ UNCHANGED <<chainVars, poolVars>>

\* cutCloseMarkLocked drops the marks that have lapsed and reports whether
\* a cut close is still pending.
LiveMarks == [s \in Sessions |-> IF mark[s] = "lapsed" THEN "none" ELSE mark[s]]
CutClosePending == \E s \in Sessions : mark[s] = "cut"

\* A cut close that is gone from the list has landed.
ClosedLate(L) == {s \in Sessions \ L : mark[s] \in {"cut", "lapsed"}}
ScanMarks(L) == [s \in Sessions |-> IF s \in ClosedLate(L) THEN "none" ELSE LiveMarks[s]]

\* Pooled, or tracked by leases; a retired session with nothing in flight
\* counts as unheld.
RetiredIdle(s) ==
    Tracked(s) /\ sess[s].retired /\ ~sess[s].closing /\ sess[s].inflight = 0
Held(s) ==
    \/ \E m \in Models : entry[m] = s
    \/ Tracked(s) /\ ~RetiredIdle(s)

\* An idle pooled session near its end is close-due.
HeldDue(s) ==
    /\ ~Usable(s)
    /\ \/ ~Tracked(s)
       \/ sess[s].inflight = 0 /\ ~sess[s].closing /\ ~sess[s].retired

\* Which listed unheld session resolves which pending attempt: each attempt
\* once, and no session is left over that a pending attempt matches.
Pending == {a \in Sessions : att[a] # {}}
Matchings(S) ==
    {f \in [S -> Pending \cup {NoSession}] :
        /\ \A s \in S : f[s] # NoSession => s \in att[f[s]]
        /\ \A s, t \in S : f[s] = f[t] /\ f[s] # NoSession => s = t
        /\ \A s \in S : f[s] = NoSession =>
              \A a \in Pending : s \in att[a] => \E t \in S : f[t] = a}

\* Mutant: retired sessions are not told from older ones.
RestDueForgetsRetired(s) ==
    ~Usable(s) \/ s \in dup \/ (age[s] # "young" /\ BidOf[s] \in Excluded)

\* An unmatched unheld session that must go: it ends, it is a known
\* duplicate, or it is not young and retired or of an excluded provider.
RestDue(s) ==
    \/ ~Usable(s)
    \/ s \in dup
    \/ age[s] # "young" /\ \/ s \in retired
                           \/ Tracked(s) /\ sess[s].retired
                           \/ BidOf[s] \in Excluded

\* usableEntry
UsableEntry(m, mk) ==
    LET s == entry[m] IN
    /\ s # NoSession
    /\ Usable(s)
    /\ mk[s] = "none"
    /\ Tracked(s) => ~sess[s].retired /\ ~sess[s].closing

\* Of(S, m) keeps the sessions of model m.
Of(S, m) == {s \in S : ModelOf[s] = m}

\* One session per model may be adopted (pickOne): a matched one first.
Keeps(matched, older, mk) ==
    {k \in [Models -> Sessions \cup {NoSession}] :
        \A m \in Models :
            LET cands == IF UsableEntry(m, mk) THEN {}
                         ELSE IF Of(matched, m) # {} THEN Of(matched, m)
                         ELSE Of(older, m)
            IN  k[m] \in (IF cands = {} THEN {NoSession} ELSE cands)}

\* A pooled session that is not listed was closed elsewhere, unless a
\* request uses it or it was young when the scan started.
PruneEntry(s, st, list) ==
    /\ s # NoSession
    /\ s \notin list.open
    /\ ~(st # NoState /\ (st.inflight > 0 \/ s \notin list.old))

\* What a sweep does with the sessions due: it starts one close, unless a
\* cut close is pending.
SweepPick(a, due, mk) ==
    IF a \in Sweepers /\ due # {} /\ \A s \in Sessions : mk[s] # "cut"
    THEN \E c \in due :
            /\ mark' = [mk EXCEPT ![c] = "now"]
            /\ closeSent' = closeSent \cup {c}
            /\ Go(a, "closing", c, "scan") /\ KeepFlag
            /\ seen' = [seen EXCEPT ![a] = NoList]
            /\ UNCHANGED <<slot, lock>>
    ELSE /\ mark' = mk
         /\ UNCHANGED closeSent
         /\ IF a \in Requests
            THEN Step(a, "miss") /\ UNCHANGED <<slot, lock>>
            ELSE End(a)

\* applyScan; the notifyClosed calls for late closes are part of it.
ApplyScan(a) ==
    LET L == seen[a].open
        mk == ScanMarks(L)
        unmarked == {s \in L : mk[s] = "none"}
        unheld == {s \in unmarked : ~Held(s)}
        heldDue == {s \in unmarked : Held(s) /\ HeldDue(s)}
    IN  /\ pc[a] = "apply"
        /\ \E f \in Matchings(unheld) :
              LET matched == {s \in unheld : f[s] # NoSession}
                  ours == {s \in matched : Usable(s)}
                  rest == unheld \ matched
                  older == {s \in rest : ~RestDue(s) /\ age[s] # "young"}
                  restDue == {s \in rest : RestDue(s)}
              IN  \E keep \in Keeps(ours, older, mk) :
                    LET kept == Range(keep)
                        pooled == [m \in Models |-> IF keep[m] = NoSession
                                                    THEN entry[m] ELSE keep[m]]
                        tracked == [s \in Sessions |-> IF s \in kept THEN StateOf(s)
                                                       ELSE sess[s]]
                        gone == ClosedLate(L)
                    IN  /\ att' = [s \in Sessions |-> IF s \in Range(f) THEN {} ELSE att[s]]
                        /\ entry' = [m \in Models |->
                              IF pooled[m] \in gone THEN NoSession
                              ELSE IF pooled[m] # NoSession
                                      /\ PruneEntry(pooled[m], tracked[pooled[m]], seen[a])
                              THEN NoSession ELSE pooled[m]]
                        /\ sess' = [s \in Sessions |-> IF s \in gone THEN NoState
                                                       ELSE tracked[s]]
                        /\ dup' = (dup \cup (ours \ kept)) \cap L
                        /\ SweepPick(a, heldDue \cup restDue \cup (matched \ ours)
                                        \cup ((ours \cup older) \ kept), mk)
        /\ shown' = IF Admins = {} THEN {} ELSE L
        /\ UNCHANGED <<chain, age, retired>>

=============================================================================
