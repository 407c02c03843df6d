-------------------------- MODULE SessionLifecycle --------------------------
(***************************************************************************)
(* What the head of internal/pool/lease.go promises of every session: who  *)
(* may use it, and when it may be closed.  A session is leased only while  *)
(* it is in the pool and neither retired nor closing; a close starts only  *)
(* when no request uses it; a close ends in closed, or the session is as   *)
(* it was (retired, if the pool tracks it); nothing follows closed.        *)
(***************************************************************************)
CONSTANTS Sessions, Requests

VARIABLES phase,  \* unheld, open, retired, closing, closed
          users   \* the requests that use each session

vars == <<phase, users>>

Init ==
    /\ phase = [s \in Sessions |-> "unheld"]
    /\ users = [s \in Sessions |-> {}]

\* The session stays in phase p or moves to phase q.
Moves(s, p, q) == phase[s] = p /\ phase'[s] = q
SameUsers(s) == users'[s] = users[s]

\* A lease is taken; an unheld session is pooled with it.
Lease(s) ==
    /\ Moves(s, "unheld", "open") \/ Moves(s, "open", "open")
    /\ \E r \in Requests \ users[s] : users'[s] = users[s] \cup {r}

\* A lease ends, whatever the phase.
EndLease(s) ==
    /\ phase'[s] = phase[s]
    /\ \E r \in users[s] : users'[s] = users[s] \ {r}

Adopt(s) == Moves(s, "unheld", "open") /\ SameUsers(s)

\* A retired session may still be used by the requests that lease it.
Retire(s) == Moves(s, "open", "retired") /\ SameUsers(s)

StartClose(s) ==
    /\ users[s] = {}
    /\ phase[s] \in {"unheld", "open", "retired"}
    /\ phase'[s] = "closing"
    /\ SameUsers(s)

CloseFails(s) ==
    /\ phase[s] = "closing"
    /\ phase'[s] \in {"unheld", "open", "retired"}
    /\ SameUsers(s)

\* A close given up on may turn out to have happened.
Closed(s) ==
    /\ users[s] = {}
    /\ phase[s] \in {"closing", "unheld", "retired"}
    /\ phase'[s] = "closed"
    /\ SameUsers(s)

Stays(s) == phase'[s] = phase[s] /\ SameUsers(s)

SessionStep(s) ==
    \/ Lease(s) \/ EndLease(s) \/ Adopt(s) \/ Retire(s)
    \/ StartClose(s) \/ CloseFails(s) \/ Closed(s) \/ Stays(s)

\* A scan moves several sessions at once.
Next == \A s \in Sessions : SessionStep(s)

Spec == Init /\ [][Next]_vars
=============================================================================
