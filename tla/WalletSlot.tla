----------------------------- MODULE WalletSlot -----------------------------
(***************************************************************************)
(* The wallet slot of internal/pool/slot.go: the FIFO lock in front of     *)
(* every wallet call (an open or a close of a session).  A caller is a     *)
(* goroutine; it makes one call at a time and keeps the token of its last  *)
(* hold, which it may release more than once (a deferred release follows   *)
(* an explicit one).                                                       *)
(*                                                                         *)
(* Steps are the code's critical sections: what happens under s.mu is one  *)
(* step, and the lock-free parts (the select of acquire, the               *)
(* compare-and-swap of release) are steps of their own, so a hand-over may *)
(* fall between the moment a waiter gives up and the moment it locks s.mu. *)
(* The 90 s queue wait and the caller's context may end at any time.       *)
(***************************************************************************)
EXTENDS Integers, Sequences, FiniteSets, SequencesExt

CONSTANTS Callers,          \* goroutines that use the slot
          Nobody,           \* not a caller: by whom the zero token is held
          Keys,             \* API keys
          NoKey,            \* the empty key (sweeps, admin), exempt from the cap
          KeyOf,            \* the key each caller acquires with
          MaxQueuedPerKey,  \* slot.go: maxQueuedPerKey
          MaxCalls          \* bound: calls of acquire and tryAcquire explored

ASSUME CallersAssumption == Nobody \notin Callers
ASSUME KeysAssumption == NoKey \notin Keys /\ KeyOf \in [Callers -> Keys \cup {NoKey}]
ASSUME BoundsAssumption == MaxQueuedPerKey \in Nat /\ MaxCalls \in Nat

VARIABLES
  holder,    \* s.holder, NoToken when nil
  waiters,   \* s.waiters, the callers whose slotWaiter is queued, head first
  nextID,    \* s.nextID
  live,      \* tokens granted whose released flag is still false
  ch,        \* ch[c]: what is in the channel of c's slotWaiter
  tok,       \* tok[c]: the token c's code last received
  pc,        \* where each caller is
  held,      \* s.held
  maxHeld,   \* s.maxHeld
  calls      \* calls made so far (bound only)

vars == <<holder, waiters, nextID, live, ch, tok, pc, held, maxHeld, calls>>

\* A token is told apart by its id; who asked for it stands for its key.
Token(id, c) == [id |-> id, by |-> c]
NoToken == Token(0, Nobody)
Tokens == [id : Nat, by : Callers \cup {Nobody}]

\* idle      outside the slot's code (its last token, if any, is released)
\* waiting   in acquire's select
\* giveup    the context or the timer won the select, s.mu not yet taken
\* holding   acquire returned a token
\* passon    gave up but found a token in the channel, about to release it
\* releasing past release's compare-and-swap, s.mu not yet taken
PCs == {"idle", "waiting", "giveup", "holding", "passon", "releasing"}

TypeOK ==
    /\ holder \in Tokens
    /\ waiters \in Seq(Callers)
    /\ nextID \in Nat
    /\ live \in SUBSET Tokens
    /\ ch \in [Callers -> Tokens]
    /\ tok \in [Callers -> Tokens]
    /\ pc \in [Callers -> PCs]
    /\ held \in Nat
    /\ maxHeld \in Nat
    /\ calls \in 0 .. MaxCalls

Init ==
    /\ holder = NoToken
    /\ waiters = <<>>
    /\ nextID = 0
    /\ live = {}
    /\ ch = [c \in Callers |-> NoToken]
    /\ tok = [c \in Callers |-> NoToken]
    /\ pc = [c \in Callers |-> "idle"]
    /\ held = 0
    /\ maxHeld = 0
    /\ calls = 0

-----------------------------------------------------------------------------
\* grantLocked: a fresh token for c becomes the holder. h is the number of
\* tokens still held when it is granted.
GrantLocked(c, h) ==
    /\ nextID' = nextID + 1
    /\ holder' = Token(nextID + 1, c)
    /\ live' = live \cup {Token(nextID + 1, c)}
    /\ held' = h + 1
    /\ maxHeld' = IF h + 1 > maxHeld THEN h + 1 ELSE maxHeld

SlotFree == holder = NoToken /\ waiters = <<>>

StartCall(c) ==
    /\ pc[c] = "idle"
    /\ calls < MaxCalls
    /\ calls' = calls + 1

\* Refused at once: nothing of the slot changes.
Refuse ==
    UNCHANGED <<holder, waiters, nextID, live, ch, tok, pc, held, maxHeld>>

\* tryAcquire and acquire take a free slot with nobody queued in one step.
TakeFree(c) ==
    /\ SlotFree
    /\ GrantLocked(c, held)
    /\ tok' = [tok EXCEPT ![c] = Token(nextID + 1, c)]
    /\ pc' = [pc EXCEPT ![c] = "holding"]
    /\ UNCHANGED <<waiters, ch>>

\* tryAcquire
TryAcquire(c) ==
    /\ StartCall(c)
    /\ \/ TakeFree(c)
       \/ ~SlotFree /\ Refuse

QueuedOf(k) == Cardinality({i \in 1 .. Len(waiters) : KeyOf[waiters[i]] = k})

\* Mutant: the queue cap is off by one.
KeyCapReachedLate(c) == KeyOf[c] # NoKey /\ QueuedOf(KeyOf[c]) > MaxQueuedPerKey

KeyCapReached(c) == KeyOf[c] # NoKey /\ QueuedOf(KeyOf[c]) >= MaxQueuedPerKey

Enqueue(c) ==
    /\ ~SlotFree
    /\ ~KeyCapReached(c)
    /\ waiters' = Append(waiters, c)
    /\ ch' = [ch EXCEPT ![c] = NoToken]
    /\ pc' = [pc EXCEPT ![c] = "waiting"]
    /\ UNCHANGED <<holder, nextID, live, tok, held, maxHeld>>

\* acquire up to its select. The context may already have ended, whatever
\* the state of the slot.
Acquire(c) ==
    /\ StartCall(c)
    /\ \/ Refuse
       \/ TakeFree(c)
       \/ ~SlotFree /\ KeyCapReached(c) /\ Refuse
       \/ Enqueue(c)

\* acquire's select receives the token handed over.
Receive(c) ==
    /\ pc[c] = "waiting"
    /\ ch[c] # NoToken
    /\ tok' = [tok EXCEPT ![c] = ch[c]]
    /\ ch' = [ch EXCEPT ![c] = NoToken]
    /\ pc' = [pc EXCEPT ![c] = "holding"]
    /\ UNCHANGED <<holder, waiters, nextID, live, held, maxHeld, calls>>

\* acquire's select ends on ctx.Done() or on the timer; a token may be in
\* the channel already, or arrive before s.mu is taken.
GiveUp(c) ==
    /\ pc[c] = "waiting"
    /\ pc' = [pc EXCEPT ![c] = "giveup"]
    /\ UNCHANGED <<holder, waiters, nextID, live, ch, tok, held, maxHeld, calls>>

\* Under s.mu: take the token that was handed over meanwhile ...
TakeLateToken(c) ==
    /\ ch[c] # NoToken
    /\ tok' = [tok EXCEPT ![c] = ch[c]]
    /\ ch' = [ch EXCEPT ![c] = NoToken]
    /\ pc' = [pc EXCEPT ![c] = "passon"]
    /\ UNCHANGED waiters

\* Mutant: the waiter's list element stays in the queue.
LeaveQueueStaying(c) ==
    /\ ch[c] = NoToken
    /\ pc' = [pc EXCEPT ![c] = "idle"]
    /\ UNCHANGED <<waiters, ch, tok>>

\* ... or leave the queue.
LeaveQueue(c) ==
    /\ ch[c] = NoToken
    /\ \E i \in 1 .. Len(waiters) :
          /\ waiters[i] = c
          /\ waiters' = RemoveAt(waiters, i)
    /\ pc' = [pc EXCEPT ![c] = "idle"]
    /\ UNCHANGED <<ch, tok>>

\* Mutant: a waiter that gives up drops a token handed over meanwhile.
AbandonDroppingToken(c) ==
    /\ pc[c] = "giveup"
    /\ \/ LeaveQueue(c)
       \/ /\ ch[c] # NoToken
          /\ ch' = [ch EXCEPT ![c] = NoToken]
          /\ pc' = [pc EXCEPT ![c] = "idle"]
          /\ UNCHANGED <<waiters, tok>>
    /\ UNCHANGED <<holder, nextID, live, held, maxHeld, calls>>

Abandon(c) ==
    /\ pc[c] = "giveup"
    /\ TakeLateToken(c) \/ LeaveQueue(c)
    /\ UNCHANGED <<holder, nextID, live, held, maxHeld, calls>>

\* Mutant: a token taken late is kept instead of passed on.
ReleaseSwapHolderOnly(c) ==
    /\ pc[c] = "holding"
    /\ tok[c] \in live
    /\ live' = live \ {tok[c]}
    /\ pc' = [pc EXCEPT ![c] = "releasing"]
    /\ UNCHANGED <<holder, waiters, nextID, ch, tok, held, maxHeld, calls>>

\* release up to the compare-and-swap of tok.released.
ReleaseSwap(c) ==
    /\ pc[c] \in {"holding", "passon"}
    /\ tok[c] \in live
    /\ live' = live \ {tok[c]}
    /\ pc' = [pc EXCEPT ![c] = "releasing"]
    /\ UNCHANGED <<holder, waiters, nextID, ch, tok, held, maxHeld, calls>>

\* A second release of the same token: the compare-and-swap fails.
ReleaseAgain(c) ==
    /\ pc[c] = "idle"
    /\ tok[c] # NoToken
    /\ tok[c] \notin live
    /\ UNCHANGED vars

\* Mutant: the last waiter is served instead of the first.
HandToLast ==
    LET w == Last(waiters) IN
    /\ waiters' = Front(waiters)
    /\ GrantLocked(w, held - 1)
    /\ ch' = [ch EXCEPT ![w] = Token(nextID + 1, w)]

\* Mutant: the slot looks free while a token for the head waiter is out.
HandToHeadNotHeld ==
    LET w == Head(waiters) IN
    /\ waiters' = Tail(waiters)
    /\ nextID' = nextID + 1
    /\ live' = live \cup {Token(nextID + 1, w)}
    /\ ch' = [ch EXCEPT ![w] = Token(nextID + 1, w)]
    /\ holder' = NoToken
    /\ UNCHANGED <<held, maxHeld>>

\* The head waiter is removed and a token for it goes into its channel.
HandToHead ==
    LET w == Head(waiters) IN
    /\ waiters' = Tail(waiters)
    /\ GrantLocked(w, held - 1)
    /\ ch' = [ch EXCEPT ![w] = Token(nextID + 1, w)]

\* Mutant: a release with nobody queued is counted down twice.
FreeSlotCountedTwice ==
    /\ holder' = NoToken
    /\ held' = held - 2
    /\ UNCHANGED <<waiters, nextID, live, ch, maxHeld>>

FreeSlot ==
    /\ holder' = NoToken
    /\ held' = held - 1
    /\ UNCHANGED <<waiters, nextID, live, ch, maxHeld>>

\* release under s.mu.
ReleaseLocked(c) ==
    /\ pc[c] = "releasing"
    /\ pc' = [pc EXCEPT ![c] = "idle"]
    /\ IF holder # tok[c]
       THEN UNCHANGED <<holder, waiters, nextID, live, ch, held, maxHeld>>
       ELSE IF waiters = <<>> THEN FreeSlot ELSE HandToHead
    /\ UNCHANGED <<tok, calls>>

CallerStep(c) ==
    \/ TryAcquire(c)
    \/ Acquire(c)
    \/ Receive(c)
    \/ GiveUp(c)
    \/ Abandon(c)
    \/ ReleaseSwap(c)
    \/ ReleaseAgain(c)
    \/ ReleaseLocked(c)

Next == \E c \in Callers : CallerStep(c)

Spec == Init /\ [][Next]_vars

\* Every caller defers its release (slotHoldCap bounds each hold), receives
\* what is in its channel and finishes what it began. Nobody has to ask for
\* the slot, and nobody has to give up: progress never rests on the timer.
Fairness ==
    \A c \in Callers :
        WF_vars(Receive(c) \/ Abandon(c) \/ ReleaseSwap(c) \/ ReleaseLocked(c))

FairSpec == Spec /\ Fairness

-----------------------------------------------------------------------------
\* At most one hold is live at any moment, and it is the one the slot knows
\* of (slot.go: "tests assert <= 1" of maxHeld): two wallet calls never
\* overlap, whatever the race of release, hand-over and give-up.
OneLiveHold ==
    /\ \A t \in live : t = holder
    /\ maxHeld <= 1
    /\ held = IF holder = NoToken THEN 0 ELSE 1

\* The holder's token is always in the hands of somebody who will release it:
\* no hand-over is lost when the waiter gives up at the same moment.
HolderHasOwner ==
    holder # NoToken =>
        LET c == holder.by IN
        /\ c \in Callers
        /\ \/ pc[c] \in {"waiting", "giveup"} /\ ch[c] = holder
           \/ pc[c] \in {"holding", "passon", "releasing"} /\ tok[c] = holder

\* Nobody queues in front of a free slot.
NoWaiterBeforeFreeSlot == waiters # <<>> => holder # NoToken

\* A caller waits in the queue once, and only while its call is in progress;
\* a waiting caller without a token is in the queue (else it would wait for
\* its timer with nobody left to serve it).
QueueIsTheWaiting ==
    /\ \A i, j \in 1 .. Len(waiters) : waiters[i] = waiters[j] => i = j
    /\ \A c \in Callers :
          (\E i \in 1 .. Len(waiters) : waiters[i] = c)
              <=> (pc[c] \in {"waiting", "giveup"} /\ ch[c] = NoToken)

\* maxQueuedPerKey: one API key never fills the queue.
KeyCap == \A k \in Keys : QueuedOf(k) <= MaxQueuedPerKey

\* The slot is a FIFO lock: served in arrival order, no barging (slot.go).
Abstract == INSTANCE FifoLock WITH owner <- holder.by, queue <- waiters
ImplementsFifoLock == Abstract!Spec

\* A caller that queues is served or gives up: the queue always moves, with
\* no help from the 90 s timer.
WaiterServed ==
    \A c \in Callers : (pc[c] = "waiting") ~> (pc[c] # "waiting")
=============================================================================
