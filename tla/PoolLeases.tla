----------------------------- MODULE PoolLeases -----------------------------
(*****************************************************************************)
(* Leases (lease.go): requests take them on pooled sessions, end them, and   *)
(* release a session for their key; AcquireCtx up to the wallet scan.        *)
(*****************************************************************************)
EXTENDS PoolState

NewState == [inflight |-> 0, holders |-> {}, retired |-> FALSE,
             closing |-> FALSE, closeFails |-> 0]

\* stateLocked
StateOf(s) == IF sess[s] = NoState THEN NewState ELSE sess[s]
Tracked(s) == sess[s] # NoState

\* Before the on-chain end less expiryBuffer.
Usable(s) == age[s] \in {"young", "old"}

\* Mutant: the holder recorded is the request, not its API key.
LeaseByRequest(r, s, st) ==
    /\ sess' = [sess EXCEPT ![s] = [st EXCEPT !.inflight = @ + 1,
                                              !.holders = @ \cup {r}]]
    /\ Go(r, "using", s, "none")
    /\ flag' = [flag EXCEPT ![r] = FALSE]
    /\ from' = [from EXCEPT ![r] = NoSession]
    /\ seen' = [seen EXCEPT ![r] = NoList]
    /\ FreeAll(r)
    /\ UNCHANGED todo

\* leaseLocked, and the handler goes on to forward its request.
Lease(r, s, st) ==
    /\ sess' = [sess EXCEPT ![s] = [st EXCEPT !.inflight = @ + 1,
                                              !.holders = @ \cup {KeyOf[r]}]]
    /\ Go(r, "using", s, "none")
    /\ flag' = [flag EXCEPT ![r] = FALSE]
    /\ from' = [from EXCEPT ![r] = NoSession]
    /\ seen' = [seen EXCEPT ![r] = NoList]
    /\ FreeAll(r)
    /\ UNCHANGED todo

\* Mutant: the entry is trusted without a look at its lease state.
ServableByEntry(m) == entry[m] # NoSession /\ Usable(entry[m]) /\ mark[entry[m]] = "none"

\* What tryPooledLocked asks of the pooled session.

Servable(m) ==
    LET s == entry[m] IN
    /\ s # NoSession
    /\ Usable(s)
    /\ mark[s] = "none"
    /\ ~StateOf(s).retired
    /\ ~StateOf(s).closing

\* tryPooledLocked
TryPooled(r) ==
    LET m == ReqModel[r] IN
    /\ Servable(m)
    /\ Lease(r, entry[m], StateOf(entry[m]))
    /\ UNCHANGED <<chainVars, entry, mark, retired, dup, att, shown>>

\* AcquireCtx up to the model lock, ...
Begin(r) ==
    /\ pc[r] = "rest"
    /\ \/ TryPooled(r)
       \/ /\ ~Servable(ReqModel[r])
          /\ Go(r, "want", NoSession, "acquire") /\ KeepFlag
          /\ UNCHANGED <<chainVars, poolVars, slot, lock, seen>>

\* ... with the model lock, ...
TakeLock(r) ==
    /\ pc[r] = "want"
    /\ lock[ReqModel[r]] = NoOne
    /\ \/ TryPooled(r)
       \/ /\ ~Servable(ReqModel[r])
          /\ lock' = [lock EXCEPT ![ReqModel[r]] = r]
          /\ Step(r, "locked")
          /\ UNCHANGED <<chainVars, poolVars, slot>>

\* ... and with the wallet slot.
TakeSlot(r) ==
    /\ pc[r] = "locked"
    /\ slot = NoOne
    /\ \/ TryPooled(r)
       \/ /\ ~Servable(ReqModel[r])
          /\ slot' = r
          /\ Step(r, "scan")
          /\ UNCHANGED <<chainVars, poolVars, lock>>

\* The context ends, the slot queue is full or timed out, or no bid is left
\* (no candidate, no funds, above the stake limit): the request is refused.
Refused(r) ==
    /\ pc[r] \in {"locked", "scan", "choose", "chosen", "foOpen"}
    /\ End(r)
    /\ UNCHANGED <<chainVars, poolVars>>

\* Mutant: the lease is never counted down.
DoneStateKept(s) == sess

\* Done: the lease ends by session id, whatever became of the session.
DoneState(s) ==
    IF sess[s] = NoState \/ sess[s].inflight = 0 THEN sess
    ELSE [sess EXCEPT ![s].inflight = @ - 1]

Done(r) ==
    /\ pc[r] = "using"
    /\ sess' = DoneState(at[r])
    /\ End(r)
    /\ UNCHANGED <<chainVars, entry, mark, retired, dup, att, shown>>

\* The router refuses the session id (it ended or was closed): Done, ...
SessionDead(r) ==
    /\ On("dead")
    /\ pc[r] = "using"
    /\ chain[at[r]] = "closed" \/ age[at[r]] = "ended"
    /\ sess' = DoneState(at[r])
    /\ Go(r, "dead", NoSession, "none")
    /\ KeepFlag
    /\ UNCHANGED <<chainVars, entry, mark, retired, dup, att, slot, lock, seen, shown>>

\* ... then Invalidate the model's pooled session, whichever it is now, and
\* acquire again.
Invalidate(r) ==
    LET m == ReqModel[r] IN
    /\ pc[r] = "dead"
    /\ sess' = IF entry[m] = NoSession THEN sess
               ELSE [sess EXCEPT ![entry[m]] = NoState]
    /\ entry' = [entry EXCEPT ![m] = NoSession]
    /\ End(r)
    /\ UNCHANGED <<chainVars, mark, retired, dup, att, shown>>

\* The session Release takes k off: the pooled one, else one k still holds.
ReleaseTargets(m, k) ==
    LET Holds(s) == Tracked(s) /\ ~sess[s].closing /\ k \in sess[s].holders
        draining == {s \in Sessions : Holds(s) /\ ModelOf[s] = m}
    IN  IF entry[m] # NoSession /\ Holds(entry[m]) THEN {entry[m]} ELSE draining

\* Release: the last holder of an idle session retires it.
Release(m, k) ==
    /\ On("release")
    /\ \E s \in ReleaseTargets(m, k) :
          LET left == sess[s].holders \ {k}
              last == left = {} /\ sess[s].inflight = 0
          IN  /\ sess' = [sess EXCEPT ![s].holders = left,
                                      ![s].retired = @ \/ last]
              /\ entry' = IF last /\ entry[m] = s
                          THEN [entry EXCEPT ![m] = NoSession] ELSE entry
              /\ retired' = IF last THEN retired \cup {s} ELSE retired
    /\ UNCHANGED <<chainVars, mark, dup, att, slot, lock, actorVars, shown>>

=============================================================================
