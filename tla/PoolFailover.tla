---------------------------- MODULE PoolFailover ----------------------------
(*****************************************************************************)
(* Provider failover (failover.go, openai.go): a failed session is retired,  *)
(* closed when nothing is in flight, and another provider is opened.         *)
(*****************************************************************************)
EXTENDS PoolClose

\* Mutant: the request keeps its lease on the failed session.
ProviderFailsKeepsLease(r) ==
    /\ On("failover")
    /\ pc[r] = "using"
    /\ Go(r, "fo", NoSession, "failover")
    /\ from' = [from EXCEPT ![r] = at[r]]
    /\ UNCHANGED <<chainVars, poolVars, slot, lock, flag, seen, todo>>

\* handleInference: the provider fails before anything was streamed; the
\* request's own lease ends first.
ProviderFails(r) ==
    /\ On("failover")
    /\ pc[r] = "using"
    /\ sess' = DoneState(at[r])
    /\ Go(r, "fo", NoSession, "failover")
    /\ from' = [from EXCEPT ![r] = at[r]]
    /\ UNCHANGED <<chainVars, entry, mark, retired, dup, att, slot, lock, flag, seen, todo, shown>>

\* afterStreamProviderError: a stream is cut, a goroutine fails over without
\* reopening while the request still ends.
StreamCut(r, b) ==
    /\ On("failover")
    /\ pc[r] = "using"
    /\ pc[b] = "rest"
    /\ Go(b, "fo", NoSession, "failover")
    /\ from' = [from EXCEPT ![b] = at[r]]
    /\ UNCHANGED <<chainVars, poolVars, slot, lock, flag, seen, todo>>

\* With the model lock: somebody has replaced the session (it is leased if
\* it is not retired or closing), or it was retired and its replacement is
\* gone, or the failed provider is known and the candidates are read next.
FailoverLocked(a) ==
    LET m == ModelAt(a)
        c == entry[m]
        replaced == c # NoSession /\ c # from[a] /\ Usable(c)
        fit == ~StateOf(c).retired /\ ~StateOf(c).closing
    IN  /\ pc[a] = "fo"
        /\ lock[m] = NoOne
        /\ \/ /\ replaced /\ a \in Requests /\ fit
              /\ Lease(a, c, StateOf(c))
           \/ /\ replaced /\ (a \in Requests => ~fit)
              /\ End(a) /\ UNCHANGED sess
           \/ /\ ~replaced /\ from[a] \in retired
              /\ UNCHANGED sess
              /\ IF a \in Requests
                 THEN /\ Go(a, "foOpen", NoSession, "reopen")
                      /\ lock' = [lock EXCEPT ![m] = a]
                      /\ KeepFlag /\ UNCHANGED <<slot, seen>>
                 ELSE End(a)
           \/ /\ ~replaced /\ from[a] \notin retired
              /\ UNCHANGED sess
              /\ \/ /\ Step(a, "foCand")
                    /\ lock' = [lock EXCEPT ![m] = a]
                    /\ UNCHANGED slot
                 \/ End(a)
        /\ UNCHANGED <<chainVars, entry, mark, retired, dup, att, shown>>

\* The guardrail: the candidates are read with the slot; without the slot
\* or an alternate nothing is closed.
FailoverCandidates(a) ==
    /\ pc[a] = "foCand"
    /\ \/ slot = NoOne /\ Step(a, "foRetire") /\ UNCHANGED <<slot, lock>>
       \/ End(a)
    /\ UNCHANGED <<chainVars, poolVars>>

\* Mutant: the session is closed at once, whoever uses it.
FailoverRetireAtOnce(a) ==
    LET m == ModelAt(a)
        s == from[a]
    IN  /\ pc[a] = "foRetire"
        /\ retired' = retired \cup {s}
        /\ entry' = IF entry[m] = s THEN [entry EXCEPT ![m] = NoSession] ELSE entry
        /\ sess' = IF Tracked(s)
                   THEN [sess EXCEPT ![s].retired = TRUE, ![s].closing = TRUE]
                   ELSE sess
        /\ Go(a, "foClose", s, "failover") /\ KeepFlag
        /\ UNCHANGED <<chainVars, mark, dup, att, shown, slot, lock, seen>>

\* retire and retireForFailover: closed now, or when its last lease ends.
FailoverRetire(a) ==
    LET m == ModelAt(a)
        s == from[a]
        now == IF Tracked(s) THEN sess[s].inflight = 0 /\ ~sess[s].closing ELSE TRUE
    IN  /\ pc[a] = "foRetire"
        /\ retired' = retired \cup {s}
        /\ entry' = IF entry[m] = s THEN [entry EXCEPT ![m] = NoSession] ELSE entry
        /\ sess' = IF Tracked(s)
                   THEN [sess EXCEPT ![s].retired = TRUE, ![s].closing = @ \/ now]
                   ELSE sess
        /\ \/ now /\ Go(a, "foClose", s, "failover") /\ KeepFlag
                  /\ UNCHANGED <<slot, lock, seen>>
           \/ ~now /\ a \in Requests /\ Step(a, "foOpen") /\ UNCHANGED <<slot, lock>>
           \/ ~now /\ a \in Backgrounds /\ End(a)
        /\ UNCHANGED <<chainVars, mark, dup, att, shown>>

\* closeBounded queues for the slot; the wait may time out.
FailoverClose(a) ==
    /\ pc[a] = "foClose"
    /\ \/ /\ slot = NoOne
          /\ StartClose(a, at[a], "failover")
          /\ UNCHANGED <<lock, seen>>
       \/ /\ slot # NoOne
          /\ Step(a, "closeFailed")
          /\ UNCHANGED <<closeSent, mark, slot, lock>>
    /\ UNCHANGED <<chain, age, entry, sess, retired, dup, att, shown>>

\* failoverOpen takes the slot again for the open; rejectExisting is not set.
FailoverOpen(r) ==
    /\ pc[r] = "foOpen"
    /\ slot = NoOne
    /\ slot' = r
    /\ Step(r, "chosen")
    /\ UNCHANGED <<chainVars, poolVars, lock>>

=============================================================================
