------------------------------ MODULE PoolOpen ------------------------------
(*****************************************************************************)
(* Opens: AcquireCtx after its scan (lease.go) and the open operation of     *)
(* failover.go, from the bid walk to the pooled, leased session.             *)
(*****************************************************************************)
EXTENDS PoolScan

\* The pool is read once more after the scan.
RetryPooled(r) ==
    /\ pc[r] = "miss"
    /\ \/ TryPooled(r)
       \/ /\ ~Servable(ReqModel[r])
          /\ Step(r, "choose")
          /\ UNCHANGED <<chainVars, poolVars, slot, lock>>

\* holdsLiveLocked
HoldsLive(m) == \E s \in Sessions : Tracked(s) /\ ModelOf[s] = m /\ age[s] # "ended"
ListedLive(r, m) ==
    \E s \in seen[r].open : ModelOf[s] = m /\ age[s] # "ended"

\* rejectExisting is settled before the candidates are read.
ChooseBids(r) ==
    LET m == ReqModel[r] IN
    /\ pc[r] = "choose"
    /\ flag' = [flag EXCEPT ![r] = ~HoldsLive(m) /\ ~ListedLive(r, m)]
    /\ seen' = [seen EXCEPT ![r] = NoList]
    /\ Go(r, "chosen", NoSession, how[r])
    /\ UNCHANGED <<chainVars, poolVars, slot, lock, from, todo>>

\* The sessions an attempt opened now could be taken for: same model and
\* bid, opened later, or no more than attemptSkew earlier.
Matchable(x, skewed) ==
    {s \in Sessions : /\ ModelOf[s] = ModelOf[x]
                      /\ BidOf[s] = BidOf[x]
                      /\ chain[s] \in {"unborn", "sent"} \/ s \in skewed}

\* addAttempt and the open POST for one bid of the filtered list.
Post(r) ==
    /\ pc[r] = "chosen"
    /\ \E x \in Of(Sessions, ReqModel[r]) :
          /\ chain[x] = "unborn"
          /\ BidOf[x] \notin Excluded
          /\ how[r] = "failover" => BidOf[x] # BidOf[from[r]]
          /\ \E skewed \in SUBSET {s \in Sessions : chain[s] = "open" /\ age[s] = "young"} :
                att' = [att EXCEPT ![x] = Matchable(x, skewed)]
          /\ chain' = [chain EXCEPT ![x] = "sent"]
          /\ Go(r, "posting", x, how[r])
    /\ KeepFlag
    /\ UNCHANGED <<age, closeSent, entry, sess, mark, retired, dup, slot, lock, seen, shown>>

\* An open that produced session s. A failover gives the slot back before it
\* pools the session, AcquireCtx after.
Got(r, s, resumed) ==
    /\ Go(r, "got", s, how[r])
    /\ flag' = [flag EXCEPT ![r] = resumed]
    /\ slot' = IF how[r] = "acquire" THEN slot ELSE Free(r)
    /\ UNCHANGED <<lock, from, seen, todo>>

\* The walk goes on with the next bid, or the open is refused.
NextBid(r) ==
    \/ Go(r, "chosen", NoSession, how[r]) /\ KeepFlag /\ UNCHANGED <<slot, lock, seen>>
    \/ End(r)

\* The router answers with the id of the session.
PostOK(r) ==
    /\ pc[r] = "posting"
    /\ chain[at[r]] \in {"open", "closed"}
    /\ att' = [att EXCEPT ![at[r]] = {}]
    /\ Got(r, at[r], FALSE)
    /\ UNCHANGED <<chainVars, entry, sess, mark, retired, dup, shown>>

\* A rejectExisting open is refused; the answer names a live session.
PostExisting(r) ==
    /\ pc[r] = "posting"
    /\ flag[r]
    /\ chain[at[r]] = "sent"
    /\ att' = [att EXCEPT ![at[r]] = {}]
    /\ chain' = [chain EXCEPT ![at[r]] = "unborn"]
    /\ \E y \in Of(Sessions, ReqModel[r]) :
          chain[y] = "open" /\ age[y] # "ended" /\ Go(r, "named", y, how[r])
    /\ KeepFlag
    /\ UNCHANGED <<age, closeSent, entry, sess, mark, retired, dup, slot, lock, seen, shown>>

\* A definite failure before the transaction (provider fault, chain-stage
\* error, funds): nothing was opened.
PostFailed(r) ==
    /\ pc[r] = "posting"
    /\ chain[at[r]] = "sent"
    /\ att' = [att EXCEPT ![at[r]] = {}]
    /\ chain' = [chain EXCEPT ![at[r]] = "unborn"]
    /\ NextBid(r)
    /\ UNCHANGED <<age, closeSent, entry, sess, mark, retired, dup, shown>>

\* The open may have been sent: it is looked for in the wallet, or, for a
\* transient error in the send window, tried again while the attempt stays.
PostLost(r) ==
    /\ On("lost")
    /\ pc[r] = "posting"
    /\ \/ Step(r, "reconcile") /\ UNCHANGED <<slot, lock>>
       \/ NextBid(r)
    /\ UNCHANGED <<chainVars, poolVars>>

\* matchOpen over a list read just before.
MatchOpen(r, L) ==
    LET found == {s \in L : /\ s \in att[at[r]]
                            /\ mark[s] = "none"
                            /\ ~Tracked(s)
                            /\ Usable(s)}
    IN  IF found = {} THEN End(r) /\ UNCHANGED <<dup, att>>
        ELSE \E keep \in found :
                /\ dup' = dup \cup (found \ {keep})
                /\ att' = [att EXCEPT ![at[r]] = {}]
                /\ Got(r, keep, FALSE)

\* reconcile: the last poll decides.
Reconcile(r) ==
    /\ pc[r] = "reconcile"
    /\ \E L \in SUBSET {s \in Sessions : chain[s] = "open"} :
          /\ \A s \in Sessions : chain[s] = "open" /\ age[s] # "young" => s \in L
          /\ MatchOpen(r, L)
    /\ UNCHANGED <<chainVars, entry, sess, mark, retired, shown>>

\* adoptExisting and adoptable, for the session the router named.
AdoptExisting(r) ==
    LET s == at[r]
        ok == /\ chain[s] = "open"
              /\ Usable(s)
              /\ s \notin retired /\ s \notin dup
              /\ mark[s] = "none"
              /\ ~Tracked(s)
              /\ BidOf[s] \notin Excluded
        mine == {a \in Pending : s \in att[a]}
    IN  /\ pc[r] = "named"
        /\ \/ End(r) /\ UNCHANGED att
           \/ ok /\ mine = {} /\ Got(r, s, TRUE) /\ UNCHANGED att
           \/ ok /\ \E a \in mine :
                       Got(r, s, FALSE) /\ att' = [att EXCEPT ![a] = {}]
        /\ UNCHANGED <<chainVars, entry, sess, mark, retired, dup, shown>>

\* poolOpenedLocked starts a fresh lease state; adoptLocked keeps one that
\* is there. The caller's lease is taken in the same critical section.
PoolOpened(r) ==
    LET s == at[r] IN
    /\ pc[r] = "got"
    /\ entry' = [entry EXCEPT ![ReqModel[r]] = s]
    /\ Lease(r, s, IF flag[r] THEN StateOf(s) ELSE NewState)
    /\ UNCHANGED <<chainVars, mark, retired, dup, att, shown>>

=============================================================================
