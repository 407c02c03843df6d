----------------------------- MODULE PoolClose ------------------------------
(*****************************************************************************)
(* Closes: closeWithToken and its callers (sweep.go, lease.go), the two      *)
(* sweeps and the status rescan, and the admin closes of pool.go.            *)
(*****************************************************************************)
EXTENDS PoolOpen

\* The close is marked and sent.
StartClose(a, s, h) ==
    /\ slot' = a
    /\ mark' = [mark EXCEPT ![s] = "now"]
    /\ closeSent' = closeSent \cup {s}
    /\ Go(a, "closing", s, h)
    /\ KeepFlag

\* The close succeeded, or the session turns out to be closed already.
CloseDone(a) ==
    /\ pc[a] = "closing"
    /\ chain[at[a]] = "closed"
    /\ mark' = [mark EXCEPT ![at[a]] = "none"]
    /\ dup' = dup \ {at[a]}
    /\ closeSent' = closeSent \ {at[a]}
    /\ shown' = shown \ {at[a]}
    /\ Step(a, "forget")
    /\ UNCHANGED <<chain, age, entry, sess, retired, att, slot, lock>>

\* Where a closer goes once its close is over: a failover opens next (or
\* ends, after a cut stream), an admin close turns to its next session.
AfterClose(a) ==
    \/ how[a] \in {"retired", "scan"} /\ End(a)
    \/ how[a] = "admin" /\ Step(a, "drop") /\ slot' = Free(a) /\ UNCHANGED lock
    \/ how[a] = "failover" /\ a \in Backgrounds /\ End(a)
    \/ how[a] = "failover" /\ a \in Requests
          /\ Step(a, "foOpen") /\ slot' = Free(a) /\ UNCHANGED lock

\* Mutant: only the lease state is dropped.
ForgetKeepsEntry(a) ==
    /\ pc[a] = "forget"
    /\ sess' = [sess EXCEPT ![at[a]] = NoState]
    /\ AfterClose(a)
    /\ UNCHANGED <<chainVars, entry, mark, retired, dup, att, shown>>

\* notifyClosed, forget: no lease state and no entry is left of it.
Forget(a) ==
    /\ pc[a] = "forget"
    /\ sess' = [sess EXCEPT ![at[a]] = NoState]
    /\ entry' = [m \in Models |-> IF entry[m] = at[a] THEN NoSession ELSE entry[m]]
    /\ AfterClose(a)
    /\ UNCHANGED <<chainVars, mark, retired, dup, att, shown>>

\* After a failed close of a session with a closing state the state goes
\* back to retired in a later critical section.
CloseGivenUp(a) ==
    IF how[a] \in {"retired", "failover"}
    THEN Step(a, "closeFailed") /\ slot' = Free(a) /\ UNCHANGED lock
    ELSE AfterClose(a)

\* The call is cut: the router may carry the close out later.
CloseCut(a) ==
    /\ On("lost")
    /\ pc[a] = "closing"
    /\ mark' = [mark EXCEPT ![at[a]] = "cut"]
    /\ CloseGivenUp(a)
    /\ UNCHANGED <<chainVars, entry, sess, retired, dup, att, shown>>

\* Mutant: the mark of a refused close stays.
CloseFailsKeepsMark(a) ==
    /\ pc[a] = "closing"
    /\ chain[at[a]] # "closed"
    /\ closeSent' = closeSent \ {at[a]}
    /\ CloseGivenUp(a)
    /\ UNCHANGED <<chain, age, entry, sess, mark, retired, dup, att, shown>>

\* A definite refusal, and the session is still open.
CloseFails(a) ==
    /\ pc[a] = "closing"
    /\ chain[at[a]] # "closed"
    /\ mark' = [mark EXCEPT ![at[a]] = "none"]
    /\ closeSent' = closeSent \ {at[a]}
    /\ CloseGivenUp(a)
    /\ UNCHANGED <<chain, age, entry, sess, retired, dup, att, shown>>

\* sweepRetired's last section, failoverCloseFailed.
BackToRetired(s) ==
    IF sess[s] = NoState THEN sess
    ELSE [sess EXCEPT ![s].closing = FALSE, ![s].retired = TRUE,
                      ![s].closeFails = IF @ < MaxCloseRetries THEN @ + 1 ELSE @]

CloseFailed(a) ==
    /\ pc[a] = "closeFailed"
    /\ sess' = BackToRetired(at[a])
    /\ AfterClose(a)
    /\ UNCHANGED <<chainVars, entry, mark, retired, dup, att, shown>>

\* Mutant: the in-flight count is not looked at.
CloseDueInUse(s) ==
    /\ Tracked(s)
    /\ ~sess[s].closing
    /\ LiveMarks[s] = "none"
    /\ IF sess[s].retired THEN sess[s].closeFails < MaxCloseRetries ELSE On("idle")

\* pick: an idle session past its grace, or a retired one with tries left.
CloseDue(s) ==
    /\ Tracked(s)
    /\ ~sess[s].closing
    /\ sess[s].inflight = 0
    /\ LiveMarks[s] = "none"
    /\ IF sess[s].retired THEN sess[s].closeFails < MaxCloseRetries ELSE On("idle")

\* Mutant: the entry of the session stays.
SweepRetiredKeepsEntry(a) ==
    /\ pc[a] = "rest"
    /\ slot = NoOne
    /\ ~CutClosePending
    /\ \E s \in Sessions :
          /\ CloseDue(s)
          /\ sess' = [sess EXCEPT ![s].closing = TRUE]
          /\ retired' = retired \cup {s}
          /\ slot' = a
          /\ mark' = [LiveMarks EXCEPT ![s] = "now"]
          /\ closeSent' = closeSent \cup {s}
          /\ Go(a, "closing", s, "retired") /\ KeepFlag
    /\ UNCHANGED <<chain, age, entry, dup, att, lock, seen, shown>>

\* sweepRetired: with the slot, one session is taken out of the pool and
\* closed.
SweepRetired(a) ==
    /\ pc[a] = "rest"
    /\ slot = NoOne
    /\ ~CutClosePending
    /\ \E s \in Sessions :
          /\ CloseDue(s)
          /\ sess' = [sess EXCEPT ![s].closing = TRUE]
          /\ entry' = [m \in Models |-> IF entry[m] = s THEN NoSession ELSE entry[m]]
          /\ retired' = retired \cup {s}
          /\ slot' = a
          /\ mark' = [LiveMarks EXCEPT ![s] = "now"]
          /\ closeSent' = closeSent \cup {s}
          /\ Go(a, "closing", s, "retired") /\ KeepFlag
    /\ UNCHANGED <<chain, age, dup, att, lock, seen, shown>>

\* ScanOrphans: a scan with the slot.
ScanOrphans(a) ==
    /\ pc[a] = "rest"
    /\ slot = NoOne
    /\ slot' = a
    /\ Step(a, "scan")
    /\ UNCHANGED <<chainVars, poolVars, lock>>

\* Rehydrate: a scan without the slot.
Rehydrate(a) ==
    /\ pc[a] = "rest"
    /\ Step(a, "scan")
    /\ UNCHANGED <<chainVars, poolVars, slot, lock>>

-----------------------------------------------------------------------------
(* Admin closes: CloseSession, CloseAll, CloseAllWithin. *)

PooledSessions == Range(entry) \ {NoSession}

\* CloseSession takes the session's entry out; closeTargets empties the pool
\* and adds the sessions of the last scan.
AdminClose(a) ==
    /\ pc[a] = "rest"
    /\ \E T \in {{s} : s \in PooledSessions \cup shown} \cup {PooledSessions \cup shown} :
          /\ T # {}
          /\ todo' = [todo EXCEPT ![a] = T]
          /\ entry' = [m \in Models |-> IF entry[m] \in T THEN NoSession ELSE entry[m]]
    /\ Go(a, "drop", NoSession, "admin")
    /\ UNCHANGED <<chainVars, sess, mark, retired, dup, att, slot, lock, flag, from, seen, shown>>

\* Mutant: the close does not wait for the slot.
AdminNextNoSlot(a) ==
    /\ pc[a] = "drop"
    /\ \E s \in todo[a] :
          /\ todo' = [todo EXCEPT ![a] = @ \ {s}]
          /\ mark' = [mark EXCEPT ![s] = "now"]
          /\ closeSent' = closeSent \cup {s}
          /\ Go(a, "closing", s, "admin")
    /\ UNCHANGED <<chain, age, entry, sess, retired, dup, att, slot, lock, flag, from, seen, shown>>

\* The next close waits for the slot, or gives up on it (the queue is full
\* or timed out, the shutdown deadline is over).
AdminNext(a) ==
    /\ pc[a] = "drop"
    /\ \E s \in todo[a] :
          /\ todo' = [todo EXCEPT ![a] = @ \ {s}]
          /\ \/ /\ slot = NoOne
                /\ slot' = a
                /\ mark' = [mark EXCEPT ![s] = "now"]
                /\ closeSent' = closeSent \cup {s}
                /\ Go(a, "closing", s, "admin")
             \/ UNCHANGED <<slot, mark, closeSent, pc, at, how>>
    /\ UNCHANGED <<chain, age, entry, sess, retired, dup, att, lock, flag, from, seen, shown>>

\* RehydrateForce, once every close was tried; not at shutdown, nor when
\* CloseSession got no slot.
AdminRescan(a) ==
    /\ pc[a] = "drop"
    /\ todo[a] = {}
    /\ \/ Step(a, "scan") /\ UNCHANGED <<slot, lock>>
       \/ End(a)
    /\ UNCHANGED <<chainVars, poolVars>>

=============================================================================
