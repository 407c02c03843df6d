------------------------------ MODULE FifoLock ------------------------------
(***************************************************************************)
(* What the wallet slot promises to its callers, without tokens, channels, *)
(* mutexes or timers: one owner at a time, a queue served strictly in      *)
(* arrival order, and a queue that is only ever left by being served or    *)
(* by walking away.                                                        *)
(***************************************************************************)
EXTENDS Naturals, Sequences, SequencesExt

CONSTANTS Callers,   \* everybody who may ask for the lock
          Nobody     \* the owner of a free lock

VARIABLES owner,     \* the caller whose turn it is, or Nobody
          queue      \* the callers waiting for their turn, in arrival order

vars == <<owner, queue>>

Init == owner = Nobody /\ queue = <<>>

\* The lock is free and nobody is ahead of c.
Take(c) ==
    /\ owner = Nobody
    /\ queue = <<>>
    /\ owner' = c
    /\ UNCHANGED queue

\* The lock is taken: c goes to the end of the queue.
Join(c) ==
    /\ owner # Nobody
    /\ \A i \in 1 .. Len(queue) : queue[i] # c
    /\ queue' = Append(queue, c)
    /\ UNCHANGED owner

\* The waiter in place i walks away and everybody behind it moves up.
Leave(i) ==
    /\ queue' = RemoveAt(queue, i)
    /\ UNCHANGED owner

\* The owner is done and nobody waits.
Free ==
    /\ owner # Nobody
    /\ queue = <<>>
    /\ owner' = Nobody
    /\ UNCHANGED queue

\* The owner is done: the head of the queue, and no other, owns the lock.
HandOver ==
    /\ owner # Nobody
    /\ queue # <<>>
    /\ owner' = Head(queue)
    /\ queue' = Tail(queue)

Next ==
    \/ \E c \in Callers : Take(c) \/ Join(c)
    \/ \E i \in 1 .. Len(queue) : Leave(i)
    \/ Free
    \/ HandOver

Spec == Init /\ [][Next]_vars
=============================================================================
