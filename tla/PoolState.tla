----------------------------- MODULE PoolState ------------------------------
(*****************************************************************************)
(* The state of the session pool of internal/pool (the Pool struct, its      *)
(* locks and the wallet slot) and of the goroutines that work on it: the     *)
(* inference requests of internal/api/openai.go, the sweeps, status polls    *)
(* and admin closes.  Each goroutine is an actor with a program counter.     *)
(*                                                                           *)
(* A step is one critical section under p.mu, one wait for the model lock    *)
(* or the wallet slot, or one call to the router.  The slot is the lock      *)
(* WalletSlot describes; here only who holds it matters.  The clock is       *)
(* kept as the age of each session: every duration of the code compares a    *)
(* session's opening or end with now.                                        *)
(*                                                                           *)
(* The router and the chain are external: an open may land and its answer    *)
(* be lost, a close may be cut and land later, a list may lag behind an      *)
(* open by less than pruneGrace.                                             *)
(*****************************************************************************)
EXTENDS Integers, FiniteSets, Functions

CONSTANTS
  Models,           \* normalised model ids
  Sessions,         \* the sessions opens can create, or a past process left
  Bids,             \* bids; each is of another provider
  ModelOf, BidOf,   \* the model and the bid of each session
  Leftover,         \* sessions already open on chain when the pool starts
  Excluded,         \* bids of excluded providers (the providerExclude setting)
  Requests,         \* inference requests, one after the other per identity
  ReqModel, KeyOf,  \* the model a request names, the API key it carries
  Backgrounds,      \* goroutines of afterStreamProviderError
  Sweepers,         \* the RunSweep and SweepIdle loops
  Pollers,          \* status polls and forced rescans (Rehydrate)
  Admins,           \* admin closes (CloseSession, CloseAll)
  NoOne, NoSession, NoState,
  MaxCloseRetries,  \* lease.go: maxCloseRetries
  Enabled           \* the faults and calls this instance explores

Actors == Requests \cup Backgrounds \cup Sweepers \cup Pollers \cup Admins
Keys == Range(KeyOf)

\* What can happen around the pool.
\* release   a client calls release          failover  a provider fails
\* dead      the router refuses a session id lost      an answer never arrives
\* gone      a session is closed elsewhere   ends      a session nears its end
\* idle      a session passes its idle grace
Happenings == {"release", "failover", "dead", "lost", "gone", "ends", "idle"}

ASSUME SetsAssumption ==
    /\ ModelOf \in [Sessions -> Models]
    /\ BidOf \in [Sessions -> Bids]
    /\ Leftover \subseteq Sessions
    /\ Excluded \subseteq Bids
    /\ ReqModel \in [Requests -> Models]
    /\ DOMAIN KeyOf = Requests
    /\ Enabled \subseteq Happenings
    /\ IsFiniteSet(Requests)
ASSUME ActorsAssumption ==
    /\ NoOne \notin Actors
    /\ NoSession \notin Sessions
    /\ Requests \cap (Backgrounds \cup Sweepers \cup Pollers \cup Admins) = {}
    /\ Backgrounds \cap (Sweepers \cup Pollers \cup Admins) = {}
    /\ Sweepers \cap (Pollers \cup Admins) = {}
    /\ Pollers \cap Admins = {}
ASSUME RetriesAssumption == MaxCloseRetries \in Nat

On(h) == h \in Enabled

VARIABLES
  \* the chain and the router (external)
  chain,      \* unborn, sent (an open under way), open, closed
  age,        \* young (< pruneGrace), old, ending (<= expiryBuffer left), ended
  closeSent,  \* sessions with a close the router may still carry out
  \* the pool, under p.mu (retired under p.fmu)
  entry,      \* p.entries: the pooled session of each model
  sess,       \* p.sess: the lease state of each session
  mark,       \* p.closingIDs: none, now (zero time), cut (until a time), lapsed
  retired,    \* p.retired: sessions never to be adopted back
  dup,        \* p.knownDup
  att,        \* p.pending: what the open attempt for each session can match
  shown,      \* p.chainOpen: the last list (kept where an admin reads it)
  \* locks and goroutines
  slot, lock, \* who holds the wallet slot, and each model's open lock
  pc, at,     \* where each actor is, and the session it works on
  how,        \* why: acquire, reopen, failover / retired, scan, admin
  flag,       \* op.rejectExisting, then openResult.resumed
  from,       \* the failedID of a failover
  seen,       \* the list a scan has read
  todo        \* sessions an admin close still has to close

chainVars == <<chain, age, closeSent>>
poolVars == <<entry, sess, mark, retired, dup, att, shown>>
actorVars == <<pc, at, how, flag, from, seen, todo>>
vars == <<chainVars, poolVars, slot, lock, actorVars>>

Chains == {"unborn", "sent", "open", "closed"}
Ages == {"young", "old", "ending", "ended"}
Marks == {"none", "now", "cut", "lapsed"}
PCs == {"rest", "want", "locked", "scan", "apply", "miss", "choose", "chosen",
        "posting", "reconcile", "named", "got", "using", "dead",
        "fo", "foCand", "foRetire", "foClose", "foOpen",
        "closing", "forget", "closeFailed", "drop"}
Hows == {"none", "acquire", "reopen", "failover", "retired", "scan", "admin"}

LeaseStates == [inflight : Nat, holders : SUBSET Keys, retired : BOOLEAN,
                closing : BOOLEAN, closeFails : 0 .. MaxCloseRetries]
ASSUME NoStateAssumption == NoState \notin LeaseStates
Lists == [open : SUBSET Sessions, old : SUBSET Sessions]
NoList == [open |-> {}, old |-> {}]

TypeOK ==
    /\ chain \in [Sessions -> Chains]
    /\ age \in [Sessions -> Ages]
    /\ closeSent \subseteq Sessions
    /\ entry \in [Models -> Sessions \cup {NoSession}]
    /\ sess \in [Sessions -> LeaseStates \cup {NoState}]
    /\ mark \in [Sessions -> Marks]
    /\ retired \subseteq Sessions
    /\ dup \subseteq Sessions
    /\ att \in [Sessions -> SUBSET Sessions]
    /\ shown \subseteq Sessions
    /\ slot \in Actors \cup {NoOne}
    /\ lock \in [Models -> Actors \cup {NoOne}]
    /\ pc \in [Actors -> PCs]
    /\ at \in [Actors -> Sessions \cup {NoSession}]
    /\ how \in [Actors -> Hows]
    /\ flag \in [Actors -> BOOLEAN]
    /\ from \in [Actors -> Sessions \cup {NoSession}]
    /\ seen \in [Actors -> Lists]
    /\ todo \in [Admins -> SUBSET Sessions]

Init ==
    /\ chain = [s \in Sessions |-> IF s \in Leftover THEN "open" ELSE "unborn"]
    /\ age = [s \in Sessions |-> IF s \in Leftover THEN "old" ELSE "young"]
    /\ closeSent = {}
    /\ entry = [m \in Models |-> NoSession]
    /\ sess = [s \in Sessions |-> NoState]
    /\ mark = [s \in Sessions |-> "none"]
    /\ retired = {}
    /\ dup = {}
    /\ att = [s \in Sessions |-> {}]
    /\ shown = {}
    /\ slot = NoOne
    /\ lock = [m \in Models |-> NoOne]
    /\ pc = [a \in Actors |-> "rest"]
    /\ at = [a \in Actors |-> NoSession]
    /\ how = [a \in Actors |-> "none"]
    /\ flag = [a \in Actors |-> FALSE]
    /\ from = [a \in Actors |-> NoSession]
    /\ seen = [a \in Actors |-> NoList]
    /\ todo = [a \in Admins |-> {}]


-----------------------------------------------------------------------------
(* Control of the actors. *)

Free(a) == IF slot = a THEN NoOne ELSE slot
\* Mutant: a handler that forgets its deferred unlock.
UnlockNothing(a) == lock

Unlock(a) == [m \in Models |-> IF lock[m] = a THEN NoOne ELSE lock[m]]
FreeAll(a) == slot' = Free(a) /\ lock' = Unlock(a)

\* a goes to step p, working on session s for reason h.
Go(a, p, s, h) ==
    /\ pc' = [pc EXCEPT ![a] = p]
    /\ at' = [at EXCEPT ![a] = s]
    /\ how' = [how EXCEPT ![a] = h]

KeepFlag == UNCHANGED <<flag, from, todo>>
Step(a, p) == Go(a, p, at[a], how[a]) /\ KeepFlag /\ UNCHANGED seen

\* The handler or loop is done: deferred releases run, nothing is kept.
End(a) ==
    /\ Go(a, "rest", NoSession, "none")
    /\ flag' = [flag EXCEPT ![a] = FALSE]
    /\ from' = [from EXCEPT ![a] = NoSession]
    /\ seen' = [seen EXCEPT ![a] = NoList]
    /\ FreeAll(a)
    /\ UNCHANGED todo

ModelAt(a) == IF a \in Requests THEN ReqModel[a] ELSE ModelOf[from[a]]

=============================================================================
