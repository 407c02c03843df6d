-------------------------- MODULE WalletSlotProofs --------------------------
(***************************************************************************)
(* Proofs about WalletSlot for any set of callers, any keys and any bound  *)
(* on the calls: the slot is held at most once, no hand-over is lost, the  *)
(* queue is exactly the set of callers that wait, no key queues more than  *)
(* its cap, and the slot implements FifoLock.                              *)
(***************************************************************************)
EXTENDS WalletSlot, SequenceTheorems, FiniteSetTheorems, TLAPS

\* Where every token is. What makes the invariants inductive: a token is in
\* one channel or with one caller, it is live until that caller's
\* compare-and-swap, and the slot's holder is that token until the caller
\* takes s.mu.
TokensTracked ==
    /\ NoToken \notin live
    /\ holder # NoToken => holder.by \in Callers
    /\ \A c \in Callers :
          /\ ch[c] # NoToken => /\ ch[c] = holder
                                /\ holder.by = c
                                /\ holder \in live
                                /\ pc[c] \in {"waiting", "giveup"}
          /\ pc[c] \in {"holding", "passon"} => /\ tok[c] = holder
                                                /\ holder.by = c
                                                /\ holder \in live
          /\ pc[c] = "releasing" => /\ tok[c] = holder
                                    /\ holder.by = c
                                    /\ holder \notin live

IInv ==
    /\ TypeOK
    /\ OneLiveHold
    /\ HolderHasOwner
    /\ NoWaiterBeforeFreeSlot
    /\ QueueIsTheWaiting
    /\ TokensTracked

-----------------------------------------------------------------------------
\* What leaving the queue from place i leaves behind.
LEMMA RemoveAtIsShift ==
    ASSUME NEW S, NEW q \in Seq(S), NEW i \in 1 .. Len(q)
    PROVE  /\ RemoveAt(q, i) \in Seq(S)
           /\ Len(RemoveAt(q, i)) = Len(q) - 1
           /\ \A j \in 1 .. Len(q) - 1 :
                 RemoveAt(q, i)[j] = IF j < i THEN q[j] ELSE q[j + 1]
<1> DEFINE a == SubSeq(q, 1, i - 1)
           b == SubSeq(q, i + 1, Len(q))
<1>1. /\ a \in Seq(S)
      /\ Len(a) = i - 1
      /\ \A j \in 1 .. i - 1 : a[j] = q[j]
  OBVIOUS
<1>2. /\ b \in Seq(S)
      /\ Len(b) = Len(q) - i
      /\ \A j \in 1 .. Len(q) - i : b[j] = q[i + j]
  OBVIOUS
<1>3. RemoveAt(q, i) = a \o b
  BY DEF RemoveAt
<1> HIDE DEF a, b
<1>4. /\ a \o b \in Seq(S)
      /\ Len(a \o b) = Len(a) + Len(b)
      /\ \A j \in 1 .. Len(a) + Len(b) :
            (a \o b)[j] = IF j <= Len(a) THEN a[j] ELSE b[j - Len(a)]
  BY <1>1, <1>2, ConcatProperties
<1>5. Len(RemoveAt(q, i)) = Len(q) - 1
  BY <1>1, <1>2, <1>3, <1>4
<1>6. ASSUME NEW j \in 1 .. Len(q) - 1
      PROVE  RemoveAt(q, i)[j] = IF j < i THEN q[j] ELSE q[j + 1]
  <2>1. CASE j < i
    BY <1>1, <1>2, <1>3, <1>4, <2>1
  <2>2. CASE ~(j < i)
    <3>1. b[j - (i - 1)] = q[i + (j - (i - 1))]
      BY <1>2, <2>2
    <3>2. i + (j - (i - 1)) = j + 1
      OBVIOUS
    <3>3. QED
      BY <1>1, <1>2, <1>3, <1>4, <2>2, <3>1, <3>2
  <2>3. QED
    BY <2>1, <2>2
<1>7. QED
  BY <1>3, <1>4, <1>5, <1>6

\* Leaving place i of a queue without repetitions takes out that element and
\* no other, and leaves no repetitions.
LEMMA RemoveAtKeepsOthers ==
    ASSUME NEW S, NEW q \in Seq(S), NEW i \in 1 .. Len(q),
           \A j, k \in 1 .. Len(q) : q[j] = q[k] => j = k
    PROVE  /\ \A j, k \in 1 .. Len(RemoveAt(q, i)) :
                 RemoveAt(q, i)[j] = RemoveAt(q, i)[k] => j = k
           /\ \A d \in S :
                 (\E j \in 1 .. Len(RemoveAt(q, i)) : RemoveAt(q, i)[j] = d)
                    <=> d # q[i] /\ \E j \in 1 .. Len(q) : q[j] = d
<1> DEFINE r == RemoveAt(q, i)
           Old(n) == IF n < i THEN n ELSE n + 1
<1>1. /\ Len(r) = Len(q) - 1
      /\ Len(q) \in Nat
      /\ \A j \in 1 .. Len(q) - 1 : r[j] = IF j < i THEN q[j] ELSE q[j + 1]
  BY RemoveAtIsShift
<1> HIDE DEF r
<1>2. ASSUME NEW j \in 1 .. Len(r)
      PROVE  Old(j) \in 1 .. Len(q) /\ Old(j) # i /\ r[j] = q[Old(j)]
  BY <1>1
<1>3. ASSUME NEW j \in 1 .. Len(r), NEW k \in 1 .. Len(r), r[j] = r[k]
      PROVE  j = k
  <2>1. Old(j) = Old(k)
    <3> HIDE DEF Old
    <3>1. QED
      BY <1>2, <1>3
  <2>2. QED
    BY <1>1, <2>1
<1>4. ASSUME NEW d \in S, NEW j \in 1 .. Len(r), r[j] = d
      PROVE  d # q[i] /\ \E k \in 1 .. Len(q) : q[k] = d
  <2> HIDE DEF Old
  <2>1. QED
    BY <1>2, <1>4
<1>5. ASSUME NEW d \in S, d # q[i], NEW k \in 1 .. Len(q), q[k] = d
      PROVE  \E j \in 1 .. Len(r) : r[j] = d
  <2>1. CASE k < i
    <3>1. k \in 1 .. Len(r) /\ r[k] = q[k]
      BY <1>1, <2>1
    <3>2. QED
      BY <1>5, <3>1
  <2>2. CASE k > i
    <3>1. k - 1 \in 1 .. Len(r) /\ ~(k - 1 < i) /\ (k - 1) + 1 = k
      BY <1>1, <2>2
    <3>2. r[k - 1] = q[k]
      BY <1>1, <3>1
    <3>3. QED
      BY <1>5, <3>1, <3>2
  <2>3. QED
    BY <1>1, <1>5, <2>1, <2>2
<1>6. QED
  BY <1>3, <1>4, <1>5 DEF r

\* Serving the head is leaving place 1.
LEMMA TailIsRemoveAt ==
    ASSUME NEW S, NEW q \in Seq(S), q # <<>>
    PROVE  1 \in 1 .. Len(q) /\ Tail(q) = RemoveAt(q, 1) /\ Head(q) = q[1]
<1>1. SubSeq(q, 1, 0) = <<>> /\ Tail(q) = SubSeq(q, 2, Len(q)) /\ 1 \in 1 .. Len(q)
  BY HeadTailProperties, TailIsSubSeq
<1>2. SubSeq(q, 2, Len(q)) \in Seq(S)
  BY <1>1, HeadTailProperties
<1>3. <<>> \o SubSeq(q, 2, Len(q)) = SubSeq(q, 2, Len(q))
  BY <1>2, ConcatEmptySeq
<1>4. QED
  BY <1>1, <1>3 DEF RemoveAt

LEMMA TokenFacts ==
    /\ NoToken \in Tokens
    /\ \A n \in Nat, c \in Callers : /\ Token(n, c) \in Tokens
                                     /\ Token(n, c) # NoToken
                                     /\ Token(n, c).by = c
    /\ NoToken.by \notin Callers
  BY CallersAssumption DEF Token, NoToken, Tokens

-----------------------------------------------------------------------------
LEMMA InitIInv == Init => IInv
  BY CallersAssumption, BoundsAssumption, TokenFacts
     DEF Init, IInv, TypeOK, OneLiveHold, HolderHasOwner, NoWaiterBeforeFreeSlot,
         QueueIsTheWaiting, TokensTracked, PCs

\* Taking the free slot.
LEMMA TakeFreeIInv ==
    ASSUME IInv, NEW c \in Callers, StartCall(c), TakeFree(c)
    PROVE  IInv'
<1> USE TokenFacts DEF IInv, StartCall, TakeFree, GrantLocked, SlotFree
<1>1. TypeOK'
  BY BoundsAssumption DEF TypeOK, PCs
<1>2. OneLiveHold'
  <2>1. live = {}
    BY DEF OneLiveHold, TokensTracked
  <2>2. QED
    BY <2>1 DEF TypeOK, OneLiveHold
<1>3. HolderHasOwner'
  BY DEF TypeOK, HolderHasOwner
<1>4. NoWaiterBeforeFreeSlot'
  BY DEF TypeOK, NoWaiterBeforeFreeSlot
<1>5. QueueIsTheWaiting'
  BY DEF TypeOK, QueueIsTheWaiting
<1>6. TokensTracked'
  BY DEF TypeOK, TokensTracked
<1>7. QED
  BY <1>1, <1>2, <1>3, <1>4, <1>5, <1>6

\* Joining the queue.
LEMMA EnqueueIInv ==
    ASSUME IInv, NEW c \in Callers, StartCall(c), Enqueue(c)
    PROVE  IInv'
<1> USE TokenFacts DEF IInv, StartCall, Enqueue, SlotFree
<1>0. /\ waiters' \in Seq(Callers)
      /\ Len(waiters') = Len(waiters) + 1
      /\ \A i \in 1 .. Len(waiters) : waiters'[i] = waiters[i]
      /\ waiters'[Len(waiters) + 1] = c
      /\ Len(waiters) \in Nat
  BY DEF TypeOK
<1>1. TypeOK'
  BY <1>0, BoundsAssumption DEF TypeOK, PCs
<1>2. OneLiveHold'
  BY DEF TypeOK, OneLiveHold
<1>3. HolderHasOwner'
  BY DEF TypeOK, HolderHasOwner
<1>4. NoWaiterBeforeFreeSlot'
  BY DEF TypeOK, NoWaiterBeforeFreeSlot
<1>5. QueueIsTheWaiting'
  BY <1>0 DEF TypeOK, QueueIsTheWaiting
<1>6. TokensTracked'
  BY DEF TypeOK, TokensTracked
<1>7. QED
  BY <1>1, <1>2, <1>3, <1>4, <1>5, <1>6

\* The select of acquire: the token is received, or the wait ends.
LEMMA ReceiveIInv ==
    ASSUME IInv, NEW c \in Callers, Receive(c)
    PROVE  IInv'
  BY TokenFacts
     DEF IInv, Receive, TypeOK, PCs, OneLiveHold, HolderHasOwner,
         NoWaiterBeforeFreeSlot, QueueIsTheWaiting, TokensTracked

LEMMA GiveUpIInv ==
    ASSUME IInv, NEW c \in Callers, GiveUp(c)
    PROVE  IInv'
  BY TokenFacts
     DEF IInv, GiveUp, TypeOK, PCs, OneLiveHold, HolderHasOwner,
         NoWaiterBeforeFreeSlot, QueueIsTheWaiting, TokensTracked

\* A waiter that gave up: the late token is kept for release, or the waiter
\* leaves the queue and everybody behind it moves up.
LEMMA AbandonIInv ==
    ASSUME IInv, NEW c \in Callers, Abandon(c)
    PROVE  IInv'
<1>1. CASE TakeLateToken(c)
  BY <1>1, TokenFacts
     DEF IInv, Abandon, TakeLateToken, TypeOK, PCs, OneLiveHold, HolderHasOwner,
         NoWaiterBeforeFreeSlot, QueueIsTheWaiting, TokensTracked
<1>2. CASE LeaveQueue(c)
  <2>0. PICK i \in 1 .. Len(waiters) :
           waiters[i] = c /\ waiters' = RemoveAt(waiters, i)
    BY <1>2 DEF LeaveQueue
  <2> USE <1>2, TokenFacts DEF IInv, Abandon, LeaveQueue
  <2>1. waiters \in Seq(Callers) /\ waiters' \in Seq(Callers)
    <3>1. waiters \in Seq(Callers)
      BY DEF TypeOK
    <3>2. RemoveAt(waiters, i) \in Seq(Callers)
      BY ONLY <2>0, <3>1, RemoveAtIsShift
    <3>3. QED
      BY <2>0, <3>1, <3>2
  <2>2. TypeOK'
    BY <2>1 DEF TypeOK, PCs
  <2>3. OneLiveHold'
    BY DEF TypeOK, OneLiveHold
  <2>4. HolderHasOwner'
    BY DEF TypeOK, HolderHasOwner
  <2>5. NoWaiterBeforeFreeSlot'
    <3>1. waiters # <<>>
      BY <2>0 DEF TypeOK
    <3>2. QED
      BY <3>1 DEF TypeOK, NoWaiterBeforeFreeSlot
  <2>6. QueueIsTheWaiting'
    <3>1. /\ \A j, k \in 1 .. Len(waiters') : waiters'[j] = waiters'[k] => j = k
          /\ \A d \in Callers : (\E j \in 1 .. Len(waiters') : waiters'[j] = d)
                <=> d # c /\ \E j \in 1 .. Len(waiters) : waiters[j] = d
      <4>1. \A j, k \in 1 .. Len(waiters) : waiters[j] = waiters[k] => j = k
        BY DEF QueueIsTheWaiting
      <4>2. /\ \A j, k \in 1 .. Len(RemoveAt(waiters, i)) :
               RemoveAt(waiters, i)[j] = RemoveAt(waiters, i)[k] => j = k
            /\ \A d \in Callers :
                 (\E j \in 1 .. Len(RemoveAt(waiters, i)) :
                      RemoveAt(waiters, i)[j] = d)
                 <=> d # waiters[i] /\ \E j \in 1 .. Len(waiters) : waiters[j] = d
        BY ONLY <2>0, <2>1, <4>1, RemoveAtKeepsOthers
      <4>3. QED
        BY ONLY <2>0, <4>2
    <3>2. QED
      BY <3>1 DEF TypeOK, QueueIsTheWaiting
  <2>7. TokensTracked'
    BY DEF TypeOK, TokensTracked
  <2>8. QED
    BY <2>2, <2>3, <2>4, <2>5, <2>6, <2>7
<1>3. QED
  BY <1>1, <1>2 DEF Abandon

LEMMA ReleaseSwapIInv ==
    ASSUME IInv, NEW c \in Callers, ReleaseSwap(c)
    PROVE  IInv'
  BY TokenFacts
     DEF IInv, ReleaseSwap, TypeOK, PCs, OneLiveHold, HolderHasOwner,
         NoWaiterBeforeFreeSlot, QueueIsTheWaiting, TokensTracked

\* release under s.mu: the slot is freed, or handed to the head of the queue.
LEMMA ReleaseLockedIInv ==
    ASSUME IInv, NEW c \in Callers, ReleaseLocked(c)
    PROVE  IInv'
<1> USE TokenFacts
<1>1. tok[c] = holder /\ holder.by = c /\ live = {} /\ holder # NoToken /\ held = 1
  BY DEF IInv, ReleaseLocked, TokensTracked, OneLiveHold, TypeOK
<1>2. \A d \in Callers : d # c => ~(pc[d] \in {"holding", "passon", "releasing"})
  BY <1>1 DEF IInv, TokensTracked
<1>3. \A d \in Callers : ch[d] = NoToken
  BY <1>1 DEF IInv, TokensTracked
<1>4. CASE waiters = <<>>
  BY <1>1, <1>2, <1>3, <1>4
     DEF IInv, ReleaseLocked, FreeSlot, TypeOK, PCs, OneLiveHold, HolderHasOwner,
         NoWaiterBeforeFreeSlot, QueueIsTheWaiting, TokensTracked
<1>5. CASE waiters # <<>>
  <2> DEFINE w == Head(waiters)
             t == Token(nextID + 1, w)
  <2>1. /\ w \in Callers
        /\ w = waiters[1]
        /\ 1 \in 1 .. Len(waiters)
        /\ Len(waiters) \in Nat
        /\ waiters' = Tail(waiters)
        /\ holder' = t /\ live' = {t} /\ held' = 1 /\ nextID' = nextID + 1
        /\ maxHeld' = IF 1 > maxHeld THEN 1 ELSE maxHeld
        /\ ch' = [ch EXCEPT ![w] = t]
        /\ pc' = [pc EXCEPT ![c] = "idle"]
        /\ UNCHANGED <<tok, calls>>
    BY <1>1, <1>5
       DEF IInv, ReleaseLocked, HandToHead, GrantLocked, TypeOK
  <2>2. pc[w] \in {"waiting", "giveup"}
    BY <2>1 DEF IInv, QueueIsTheWaiting
  <2>3. w # c
    BY <2>2 DEF ReleaseLocked
  <2>4. /\ waiters' \in Seq(Callers)
        /\ waiters' = RemoveAt(waiters, 1)
    <3>1. waiters \in Seq(Callers)
      BY DEF IInv, TypeOK
    <3>2. QED
      BY ONLY <1>5, <2>1, <3>1, TailIsRemoveAt, RemoveAtIsShift
  <2>5. t \in Tokens /\ t # NoToken /\ t.by = w
    BY <2>1 DEF IInv, TypeOK
  <2> HIDE DEF w, t
  <2>6. TypeOK'
    BY <2>1, <2>4, <2>5 DEF IInv, TypeOK, PCs
  <2>7. OneLiveHold'
    BY <2>1, <2>5 DEF IInv, TypeOK, OneLiveHold
  <2>8. HolderHasOwner'
    BY <2>1, <2>2, <2>3, <2>5 DEF IInv, TypeOK, HolderHasOwner
  <2>9. NoWaiterBeforeFreeSlot'
    BY <2>1, <2>5 DEF NoWaiterBeforeFreeSlot
  <2>10. QueueIsTheWaiting'
    <3>1. /\ waiters \in Seq(Callers)
          /\ \A j, k \in 1 .. Len(waiters) : waiters[j] = waiters[k] => j = k
      BY DEF IInv, TypeOK, QueueIsTheWaiting
    <3>2. /\ \A j, k \in 1 .. Len(waiters') : waiters'[j] = waiters'[k] => j = k
          /\ \A d \in Callers : (\E j \in 1 .. Len(waiters') : waiters'[j] = d)
                <=> d # w /\ \E j \in 1 .. Len(waiters) : waiters[j] = d
      <4>2. /\ \A j, k \in 1 .. Len(RemoveAt(waiters, 1)) :
               RemoveAt(waiters, 1)[j] = RemoveAt(waiters, 1)[k] => j = k
            /\ \A d \in Callers :
                 (\E j \in 1 .. Len(RemoveAt(waiters, 1)) :
                      RemoveAt(waiters, 1)[j] = d)
                 <=> d # waiters[1] /\ \E j \in 1 .. Len(waiters) : waiters[j] = d
        BY ONLY <2>1, <3>1, RemoveAtKeepsOthers
      <4>3. QED
        BY ONLY <2>1, <2>4, <4>2
    <3>4. ASSUME NEW d \in Callers
          PROVE  (\E i \in 1 .. Len(waiters') : waiters'[i] = d)
                    <=> (pc'[d] \in {"waiting", "giveup"} /\ ch'[d] = NoToken)
      <4>1. CASE d = w
        BY <2>1, <2>5, <3>2, <4>1 DEF IInv, TypeOK
      <4>2. CASE d # w
        BY <2>1, <3>2, <4>2 DEF IInv, TypeOK, QueueIsTheWaiting, ReleaseLocked
      <4>3. QED
        BY <4>1, <4>2
    <3>5. QED
      BY <3>2, <3>4 DEF QueueIsTheWaiting
  <2>11. TokensTracked'
    BY <1>2, <1>3, <2>1, <2>2, <2>3, <2>5 DEF IInv, TypeOK, TokensTracked
  <2>12. QED
    BY <2>6, <2>7, <2>8, <2>9, <2>10, <2>11 DEF IInv
<1>6. QED
  BY <1>4, <1>5

-----------------------------------------------------------------------------
\* Steps that leave the slot alone but for the number of calls.
LEMMA RefuseIInv ==
    ASSUME IInv, NEW c \in Callers, StartCall(c), Refuse
    PROVE  IInv'
  BY BoundsAssumption
     DEF IInv, StartCall, Refuse, TypeOK, OneLiveHold, HolderHasOwner,
         NoWaiterBeforeFreeSlot, QueueIsTheWaiting, TokensTracked

LEMMA StutterIInv ==
    ASSUME IInv, UNCHANGED vars
    PROVE  IInv'
  BY DEF IInv, vars, TypeOK, OneLiveHold, HolderHasOwner,
         NoWaiterBeforeFreeSlot, QueueIsTheWaiting, TokensTracked

LEMMA StepIInv == IInv /\ [Next]_vars => IInv'
<1> SUFFICES ASSUME IInv, [Next]_vars PROVE IInv'
  OBVIOUS
<1>1. ASSUME NEW c \in Callers, CallerStep(c) PROVE IInv'
  <2>1. CASE TryAcquire(c)
    BY <2>1, TakeFreeIInv, RefuseIInv DEF TryAcquire
  <2>2. CASE Acquire(c)
    BY <2>2, TakeFreeIInv, RefuseIInv, EnqueueIInv DEF Acquire
  <2>3. CASE Receive(c)
    BY <2>3, ReceiveIInv
  <2>4. CASE GiveUp(c)
    BY <2>4, GiveUpIInv
  <2>5. CASE Abandon(c)
    BY <2>5, AbandonIInv
  <2>6. CASE ReleaseSwap(c)
    BY <2>6, ReleaseSwapIInv
  <2>7. CASE ReleaseAgain(c)
    BY <2>7, StutterIInv DEF ReleaseAgain
  <2>8. CASE ReleaseLocked(c)
    BY <2>8, ReleaseLockedIInv
  <2>9. QED
    BY <1>1, <2>1, <2>2, <2>3, <2>4, <2>5, <2>6, <2>7, <2>8 DEF CallerStep
<1>2. CASE UNCHANGED vars
  BY <1>2, StutterIInv
<1>3. QED
  BY <1>1, <1>2 DEF Next

\* Every state of the slot satisfies the inductive invariant.
THEOREM SlotIInv == Spec => []IInv
<1>1. QED
  BY InitIInv, StepIInv, PTL DEF Spec

\* The slot is typed as its declarations say.
THEOREM SlotTypeCorrect == Spec => []TypeOK
<1>1. IInv => TypeOK
  BY DEF IInv
<1>2. QED
  BY <1>1, SlotIInv, PTL

\* Two wallet calls never overlap: at most one token is live, it is the
\* holder's, and the counter maxHeld never exceeds 1.
THEOREM SlotMutualExclusion == Spec => []OneLiveHold
<1>1. IInv => OneLiveHold
  BY DEF IInv
<1>2. QED
  BY <1>1, SlotIInv, PTL

\* No hand-over is lost: the holder's token is with a caller that releases it.
THEOREM SlotNeverLeaks == Spec => []HolderHasOwner
<1>1. IInv => HolderHasOwner
  BY DEF IInv
<1>2. QED
  BY <1>1, SlotIInv, PTL

\* The queue holds exactly the callers that wait for a token, each once.
THEOREM SlotQueueExact == Spec => []QueueIsTheWaiting
<1>1. IInv => QueueIsTheWaiting
  BY DEF IInv
<1>2. QED
  BY <1>1, SlotIInv, PTL

-----------------------------------------------------------------------------
\* The places key k has in a queue; QueuedOf counts them.
Places(q, k) == {i \in 1 .. Len(q) : KeyOf[q[i]] = k}

LEMMA PlacesAreFinite ==
    ASSUME NEW q \in Seq(Callers), NEW k
    PROVE  IsFiniteSet(Places(q, k)) /\ Cardinality(Places(q, k)) \in Nat
<1>1. IsFiniteSet(1 .. Len(q))
  BY FS_Interval
<1>2. Places(q, k) \in SUBSET (1 .. Len(q))
  BY DEF Places
<1>3. IsFiniteSet(Places(q, k))
  BY <1>1, <1>2, FS_Subset
<1>4. QED
  BY <1>3, FS_CardinalityType

\* Joining the queue takes one place more for the caller's own key and none
\* for any other.
LEMMA PlacesAfterAppend ==
    ASSUME NEW q \in Seq(Callers), NEW c \in Callers, NEW k
    PROVE  Cardinality(Places(Append(q, c), k)) =
             IF KeyOf[c] = k THEN Cardinality(Places(q, k)) + 1
                             ELSE Cardinality(Places(q, k))
<1> DEFINE r == Append(q, c)
<1>1. /\ Len(q) \in Nat
      /\ Len(r) = Len(q) + 1
      /\ \A i \in 1 .. Len(q) : r[i] = q[i]
      /\ r[Len(q) + 1] = c
  OBVIOUS
<1> HIDE DEF r
<1>2. CASE KeyOf[c] = k
  <2>1. Places(r, k) = Places(q, k) \cup {Len(q) + 1}
    BY <1>1, <1>2 DEF Places
  <2>2. Len(q) + 1 \notin Places(q, k)
    BY <1>1 DEF Places
  <2>3. Cardinality(Places(q, k) \cup {Len(q) + 1}) = Cardinality(Places(q, k)) + 1
    BY <2>2, PlacesAreFinite, FS_AddElement
  <2>4. QED
    BY <1>2, <2>1, <2>3 DEF r
<1>3. CASE KeyOf[c] # k
  <2>1. Places(r, k) = Places(q, k)
    BY <1>1, <1>3 DEF Places
  <2>2. QED
    BY <1>3, <2>1 DEF r
<1>4. QED
  BY <1>2, <1>3

\* Leaving the queue, from whatever place, gives no key a further place: the
\* places that are left map one to one to places there were.
LEMMA PlacesAfterRemoveAt ==
    ASSUME NEW q \in Seq(Callers), NEW i \in 1 .. Len(q), NEW k
    PROVE  Cardinality(Places(RemoveAt(q, i), k)) <= Cardinality(Places(q, k))
<1> DEFINE r == RemoveAt(q, i)
           f == [j \in Places(r, k) |-> IF j < i THEN j ELSE j + 1]
<1>1. /\ Len(r) = Len(q) - 1
      /\ Len(q) \in Nat
      /\ \A j \in 1 .. Len(q) - 1 : r[j] = IF j < i THEN q[j] ELSE q[j + 1]
  BY RemoveAtIsShift
<1> HIDE DEF r
<1>2. ASSUME NEW j \in Places(r, k)
      PROVE  j \in Int /\ (IF j < i THEN j ELSE j + 1) \in Places(q, k)
  BY <1>1 DEF Places
<1>3. f \in [Places(r, k) -> Places(q, k)]
  BY <1>2
<1>4. ASSUME NEW a \in Places(r, k), NEW b \in Places(r, k), f[a] = f[b]
      PROVE  a = b
  BY <1>2, <1>4
<1>5. f \in Injection(Places(r, k), Places(q, k))
  <2> HIDE DEF f
  <2>1. QED
    BY <1>3, <1>4 DEF Injection, IsInjective
<1>6. QED
  <2> HIDE DEF f
  <2>1. QED
    BY <1>5, PlacesAreFinite, FS_Injection DEF r

\* The queue of a step: it stays, somebody joins below the cap of its key, or
\* somebody leaves from some place.
LEMMA QueueSteps ==
    ASSUME IInv, [Next]_vars
    PROVE  \/ waiters' = waiters
           \/ \E c \in Callers : ~KeyCapReached(c) /\ waiters' = Append(waiters, c)
           \/ \E i \in 1 .. Len(waiters) : waiters' = RemoveAt(waiters, i)
<1>1. ASSUME NEW c \in Callers, TryAcquire(c) PROVE waiters' = waiters
  BY <1>1 DEF TryAcquire, TakeFree, Refuse
<1>2. ASSUME NEW c \in Callers, Acquire(c)
      PROVE  waiters' = waiters \/ (~KeyCapReached(c) /\ waiters' = Append(waiters, c))
  BY <1>2 DEF Acquire, TakeFree, Refuse, Enqueue
<1>3. ASSUME NEW c \in Callers,
             Receive(c) \/ GiveUp(c) \/ ReleaseSwap(c) \/ ReleaseAgain(c)
      PROVE  waiters' = waiters
  BY <1>3 DEF Receive, GiveUp, ReleaseSwap, ReleaseAgain, vars
<1>4. ASSUME NEW c \in Callers, Abandon(c)
      PROVE  \/ waiters' = waiters
             \/ \E i \in 1 .. Len(waiters) : waiters' = RemoveAt(waiters, i)
  BY <1>4 DEF Abandon, TakeLateToken, LeaveQueue
<1>5. ASSUME NEW c \in Callers, ReleaseLocked(c)
      PROVE  \/ waiters' = waiters
             \/ \E i \in 1 .. Len(waiters) : waiters' = RemoveAt(waiters, i)
  <2>1. waiters' = waiters \/ (waiters # <<>> /\ waiters' = Tail(waiters))
    BY <1>5 DEF ReleaseLocked, FreeSlot, HandToHead
  <2>2. waiters \in Seq(Callers)
    BY DEF IInv, TypeOK
  <2>3. QED
    BY <2>1, <2>2, TailIsRemoveAt
<1>6. CASE UNCHANGED vars
  BY <1>6 DEF vars
<1>7. QED
  BY <1>1, <1>2, <1>3, <1>4, <1>5, <1>6 DEF Next, CallerStep

LEMMA StepKeyCap == IInv /\ KeyCap /\ [Next]_vars => KeyCap'
<1> SUFFICES ASSUME IInv, KeyCap, [Next]_vars, NEW k \in Keys
             PROVE  QueuedOf(k)' <= MaxQueuedPerKey
  BY DEF KeyCap
<1>1. /\ QueuedOf(k) = Cardinality(Places(waiters, k))
      /\ QueuedOf(k)' = Cardinality(Places(waiters', k))
      /\ QueuedOf(k) <= MaxQueuedPerKey
  BY DEF QueuedOf, Places, KeyCap
<1>2. waiters \in Seq(Callers) /\ waiters' \in Seq(Callers)
  BY StepIInv DEF IInv, TypeOK
<1>3. Cardinality(Places(waiters, k)) \in Nat /\ Cardinality(Places(waiters', k)) \in Nat
  BY <1>2, PlacesAreFinite
<1>4. CASE waiters' = waiters
  BY <1>1, <1>4
<1>5. ASSUME NEW c \in Callers, ~KeyCapReached(c), waiters' = Append(waiters, c)
      PROVE  QueuedOf(k)' <= MaxQueuedPerKey
  <2>1. CASE KeyOf[c] = k
    <3>1. ~(QueuedOf(k) >= MaxQueuedPerKey)
      BY <1>5, <2>1, KeysAssumption DEF KeyCapReached
    <3>2. Cardinality(Places(waiters', k)) = Cardinality(Places(waiters, k)) + 1
      BY <1>2, <1>5, <2>1, PlacesAfterAppend
    <3>3. QED
      BY <1>1, <1>3, <3>1, <3>2, BoundsAssumption
  <2>2. CASE KeyOf[c] # k
    <3>1. Cardinality(Places(waiters', k)) = Cardinality(Places(waiters, k))
      BY <1>2, <1>5, <2>2, PlacesAfterAppend
    <3>2. QED
      BY <1>1, <3>1
  <2>3. QED
    BY <2>1, <2>2
<1>6. ASSUME NEW i \in 1 .. Len(waiters), waiters' = RemoveAt(waiters, i)
      PROVE  QueuedOf(k)' <= MaxQueuedPerKey
  <2>1. Cardinality(Places(waiters', k)) <= Cardinality(Places(waiters, k))
    BY <1>2, <1>6, PlacesAfterRemoveAt
  <2>2. QED
    BY <1>1, <1>3, <2>1, BoundsAssumption
<1>7. QED
  BY <1>4, <1>5, <1>6, QueueSteps

\* maxQueuedPerKey holds for every key and any number of callers: however
\* joins, hand-overs and give-ups interleave, no API key has more requests in
\* the queue of acquire than its cap.
THEOREM SlotKeyCap == Spec => []KeyCap
<1>1. Init => KeyCap
  <2> SUFFICES ASSUME Init, NEW k \in Keys PROVE QueuedOf(k) <= MaxQueuedPerKey
    BY DEF KeyCap
  <2>1. {i \in 1 .. Len(waiters) : KeyOf[waiters[i]] = k} = {}
    BY DEF Init
  <2>2. Cardinality({}) = 0
    BY FS_EmptySet
  <2>3. QueuedOf(k) = 0
    BY <2>1, <2>2, Zenon DEF QueuedOf
  <2>4. QED
    BY <2>3, BoundsAssumption
<1>2. QED
  BY <1>1, StepKeyCap, SlotIInv, PTL DEF Spec

-----------------------------------------------------------------------------
\* Every step of the slot is a step of the FIFO lock or changes neither its
\* owner nor its queue.
LEMMA StepImplements == IInv /\ [Next]_vars => [Abstract!Next]_(Abstract!vars)
<1> SUFFICES ASSUME IInv, [Next]_vars PROVE [Abstract!Next]_(Abstract!vars)
  OBVIOUS
<1> USE TokenFacts
<1>1. ASSUME NEW c \in Callers, StartCall(c), TakeFree(c)
      PROVE  Abstract!Take(c)
  BY <1>1, CallersAssumption
     DEF IInv, TypeOK, TakeFree, SlotFree, GrantLocked, Abstract!Take, NoToken, Token
<1>2. ASSUME NEW c \in Callers, StartCall(c), Enqueue(c)
      PROVE  Abstract!Join(c)
  <2>1. holder # NoToken
    BY <1>2 DEF Enqueue, SlotFree, IInv, NoWaiterBeforeFreeSlot
  <2>2. holder.by # Nobody
    BY <2>1, CallersAssumption DEF IInv, TokensTracked
  <2>3. \A i \in 1 .. Len(waiters) : waiters[i] # c
    BY <1>2 DEF StartCall, IInv, QueueIsTheWaiting
  <2>4. QED
    BY <1>2, <2>2, <2>3 DEF Enqueue, Abstract!Join
<1>3. ASSUME NEW c \in Callers, LeaveQueue(c), UNCHANGED holder
      PROVE  \E i \in 1 .. Len(waiters) : Abstract!Leave(i)
  <2>1. PICK i \in 1 .. Len(waiters) : waiters' = RemoveAt(waiters, i)
    BY <1>3 DEF LeaveQueue
  <2>2. Abstract!Leave(i)
    BY <1>3, <2>1 DEF Abstract!Leave, Abstract!RemoveAt, RemoveAt
  <2>3. QED
    BY <2>2
<1>4. ASSUME NEW c \in Callers, ReleaseLocked(c)
      PROVE  Abstract!Free \/ Abstract!HandOver
  <2>1. tok[c] = holder /\ holder.by = c /\ c # Nobody
    BY <1>4, CallersAssumption DEF IInv, ReleaseLocked, TokensTracked
  <2>2. CASE waiters = <<>>
    BY <1>4, <2>1, <2>2
       DEF ReleaseLocked, FreeSlot, Abstract!Free, NoToken, Token
  <2>3. CASE waiters # <<>>
    <3>1. Head(waiters) \in Callers
      BY <2>3 DEF IInv, TypeOK
    <3>2. QED
      BY <1>4, <2>1, <2>3, <3>1
         DEF ReleaseLocked, HandToHead, GrantLocked, Abstract!HandOver, IInv, TypeOK
  <2>4. QED
    BY <2>2, <2>3
<1>5. ASSUME NEW c \in Callers, CallerStep(c)
      PROVE  [Abstract!Next]_(Abstract!vars)
  <2>1. CASE TryAcquire(c)
    BY <1>1, <2>1 DEF TryAcquire, Refuse, Abstract!Next, Abstract!vars
  <2>2. CASE Acquire(c)
    BY <1>1, <1>2, <2>2 DEF Acquire, Refuse, Abstract!Next, Abstract!vars
  <2>3. CASE Abandon(c)
    BY <1>3, <2>3 DEF Abandon, TakeLateToken, Abstract!Next, Abstract!vars
  <2>4. CASE ReleaseLocked(c)
    BY <1>4, <2>4 DEF Abstract!Next
  <2>5. CASE Receive(c) \/ GiveUp(c) \/ ReleaseSwap(c) \/ ReleaseAgain(c)
    BY <2>5 DEF Receive, GiveUp, ReleaseSwap, ReleaseAgain, vars, Abstract!vars
  <2>6. QED
    BY <1>5, <2>1, <2>2, <2>3, <2>4, <2>5 DEF CallerStep
<1>6. CASE UNCHANGED vars
  BY <1>6 DEF vars, Abstract!vars
<1>7. QED
  BY <1>5, <1>6 DEF Next

\* The slot implements the FIFO lock: served in arrival order, nobody
\* overtakes, and the queue is left only by being served or by giving up.
THEOREM SlotImplementsFifoLock == Spec => ImplementsFifoLock
<1>1. Init => Abstract!Init
  BY DEF Init, Abstract!Init, NoToken, Token
<1>2. QED
  BY <1>1, StepImplements, SlotIInv, PTL DEF Spec, ImplementsFifoLock, Abstract!Spec
=============================================================================
