--------------------------- MODULE AdminSessions ---------------------------
(***************************************************************************)
(* The admin cookie sessions of internal/adminauth/session.go, kept in     *)
(* memory only.  A token is a number, given out in order, so that one that *)
(* was revoked never comes back; ages count up and stop once they decide.  *)
(***************************************************************************)
EXTENDS Integers, FiniteSets, FiniteSetsExt, Functions

CONSTANTS MaxSessions,      \* MaxSessions
          SessionAbsolute,  \* SessionAbsolute
          SessionIdle,      \* SessionIdle
          StepUpMaxAge,     \* StepUpMaxAge
          MaxTokens         \* bound: sessions created

ASSUME SessionsAssumption ==
    /\ {MaxSessions, SessionAbsolute, SessionIdle} \subseteq Nat \ {0}
    /\ {StepUpMaxAge, MaxTokens} \subseteq Nat

VARIABLES
  byHash,  \* live token -> [age, idle, proof, born]
  issued   \* tokens given out

sessVars == <<byHash, issued>>

\* proof: time since the login or the last step-up; born: the second-factor
\* setup at the session's creation (history).
SessionsTypeOK ==
    /\ issued \in 0 .. MaxTokens
    /\ DOMAIN byHash \subseteq 1 .. issued
    /\ \A t \in DOMAIN byHash :
          byHash[t] \in [age : 0 .. SessionAbsolute + 1, idle : 0 .. SessionIdle + 1,
                         proof : 0 .. StepUpMaxAge + 1, born : Nat]

SessionsInit == byHash = <<>> /\ issued = 0

Without(S) == Restrict(byHash, DOMAIN byHash \ S)

\* The n oldest sessions; of two created at once either may go, and the
\* earlier token stands for it.
Evicted(n) ==
    {t \in DOMAIN byHash :
       Cardinality({u \in DOMAIN byHash : byHash[u].age > byHash[t].age
                       \/ (byHash[u].age = byHash[t].age /\ u < t)}) < n}

\* Create: at the cap the oldest go first.
Create(born) ==
    LET over == Cardinality(DOMAIN byHash) - (MaxSessions - 1)
        kept == Without(Evicted(IF over > 0 THEN over ELSE 0))
        t == issued + 1
    IN  /\ t <= MaxTokens
        /\ issued' = t
        /\ byHash' = [k \in DOMAIN kept \cup {t} |->
                        IF k = t THEN [age |-> 0, idle |-> 0, proof |-> 0, born |-> born] ELSE kept[k]]

\* RevokeAll followed by Create
Reissue(born) ==
    /\ issued < MaxTokens
    /\ issued' = issued + 1
    /\ byHash' = [k \in {issued + 1} |-> [age |-> 0, idle |-> 0, proof |-> 0, born |-> born]]

Ended(t) == byHash[t].age > SessionAbsolute \/ byHash[t].idle > SessionIdle

\* Lookup: an ended session is deleted; a poll does not extend the idle time.
Found(t) == t \in DOMAIN byHash /\ ~Ended(t)
Lookup(t, extendIdle) ==
    byHash' = IF t \notin DOMAIN byHash THEN byHash
              ELSE IF Ended(t) THEN Without({t})
              ELSE IF extendIdle THEN [byHash EXCEPT ![t].idle = 0] ELSE byHash

\* Fresh
Fresh(t) == byHash[t].proof <= StepUpMaxAge

StampStepUp(t) == IF t \in DOMAIN byHash THEN byHash' = [byHash EXCEPT ![t].proof = 0] ELSE UNCHANGED byHash

RevokeRaw(t) == byHash' = Without({t})
RevokeAll == byHash' = <<>>

Grown(n, cap) == IF n > cap THEN n ELSE n + 1
SessionsTick ==
    /\ byHash' = [t \in DOMAIN byHash |->
                    [age |-> Grown(byHash[t].age, SessionAbsolute), idle |-> Grown(byHash[t].idle, SessionIdle),
                     proof |-> Grown(byHash[t].proof, StepUpMaxAge), born |-> byHash[t].born]]
    /\ UNCHANGED issued
=============================================================================
