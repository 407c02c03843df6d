----------------------------- MODULE AdminAuth -----------------------------
(***************************************************************************)
(* The admin login, the step-up and the second factor's life               *)
(* (internal/api/admin_login.go, stepup.go, totp_handlers.go,              *)
(* second_factor.go; internal/store/authstate.go; internal/adminauth       *)
(* totp.go, recovery.go), over the lockout and the sessions.  Requests run *)
(* side by side; each goes through its checks in separate critical         *)
(* sections: admission, password and the read of the stored state, the     *)
(* consumption of the code, the end.  The store's file is written inside   *)
(* the store lock, a save may fail, and the process may be restarted at    *)
(* any point, with or without UPLINK_RESET_2FA.                            *)
(*                                                                         *)
(* A TOTP code is [kind |-> "totp", of |-> secret, n |-> step], a recovery *)
(* code [kind |-> "recovery", of |-> issue, n |-> which].                  *)
(***************************************************************************)
EXTENDS Lockout, AdminSessions

CONSTANTS
  Reqs,            \* request goroutines
  NoIP,
  RecoveryCodes,   \* numbers of the recovery codes of one issue
  PendingLife,     \* life of a pending secret
  MaxStep,         \* bound: TOTP steps
  MaxIssues,       \* bound: secrets and recovery code issues generated
  MaxRequests,     \* bound: admin requests, by scene; 0: no bound
  MaxLogins        \* bound: sessions created, by scene

ASSUME AuthAssumption ==
    /\ IPs # {} /\ NoIP \notin IPs
    /\ RecoveryCodes \subseteq Nat /\ PendingLife \in Nat
    /\ MaxStep \in Nat \ {0}
    /\ MaxIssues \in Nat /\ MaxIssues >= 2
    /\ IsFiniteSet(Reqs) /\ Reqs # {}

VARIABLES
  req,       \* req[r]: [pc, op, ip, tok]
  auth,      \* AuthState in memory: [secret, on, step, codes, pending, left, done]
  disk,      \* AuthState in the state file
  cur,       \* the current TOTP step
  made,      \* secrets and recovery issues generated so far
  setup,     \* changes of the second factor so far (history)
  accepted,  \* one-time codes accepted so far (history)
  replayed,  \* one-time codes accepted twice (history)
  reset2FA,  \* UPLINK_RESET_2FA of this run of the process
  unsaved,   \* the boot's own write of the state failed (history)
  scene,     \* what a behaviour explores (bound, fixed)
  count      \* requests so far (bound only)

authVars == <<auth, disk, made, setup, accepted, replayed, reset2FA, unsaved>>
bounds == <<scene, count>>
vars == <<lockVars, sessVars, req, authVars, cur, bounds>>

Issue(k) == {[kind |-> "recovery", of |-> k, n |-> n] : n \in RecoveryCodes}

\* secret 0: none stored (Enrolled is secret # 0); pending 0: none.
NoAuth == [secret |-> 0, on |-> FALSE, step |-> 0, codes |-> {}, pending |-> 0, left |-> 0, done |-> FALSE]
Wiped == [NoAuth EXCEPT !.done = TRUE]
Enrolled == [NoAuth EXCEPT !.secret = 1, !.on = TRUE, !.codes = Issue(2)]
IdleReq == [pc |-> "idle", op |-> "login", ip |-> NoIP, tok |-> 0]

FactorOps == {"remove", "reset", "regen"}
Ops == {"login", "stepUp", "enrollStart", "enrollConfirm", "bearer"} \cup FactorOps
ReqPCs == {"idle", "bearer", "check", "consume", "pend", "confirm", "end"}

Totp(secret, step) == [kind |-> "totp", of |-> secret, n |-> step]
BadCode == [kind |-> "bad", of |-> 0, n |-> 0]

AuthStates ==
    [secret : 0 .. MaxIssues, on : BOOLEAN, step : 0 .. MaxStep + 1,
     codes : SUBSET UNION {Issue(k) : k \in 1 .. MaxIssues},
     pending : 0 .. MaxIssues, left : 0 .. PendingLife, done : BOOLEAN]

TypeOK ==
    /\ LockoutTypeOK /\ SessionsTypeOK
    /\ req \in [Reqs -> [pc : ReqPCs, op : Ops, ip : IPs \cup {NoIP}, tok : 0 .. MaxTokens]]
    /\ {auth, disk} \subseteq AuthStates
    /\ cur \in 1 .. MaxStep /\ made \in 0 .. MaxIssues /\ setup \in Nat
    /\ {reset2FA, unsaved} \subseteq BOOLEAN

\* On
On(a) == a.on \/ a.secret # 0

\* lock: floods of bad passwords; bearer: bad master keys; factor: the second
\* factor with failed saves and restarts; cap: many sessions and their ages.
Explores(s) == scene = s

Init ==
    /\ scene \in DOMAIN MaxRequests
    /\ LockoutInit /\ SessionsInit
    /\ req = [r \in Reqs |-> IdleReq]
    /\ auth \in IF Explores("factor") THEN {NoAuth, Wiped, Enrolled} ELSE {NoAuth}
    /\ disk = auth
    /\ cur = 1 /\ made = (IF auth = Enrolled THEN 2 ELSE 0) /\ setup = 0
    /\ count = (IF auth = Enrolled THEN 1 ELSE 0)
    /\ accepted = {} /\ replayed = {}
    /\ reset2FA = auth.done /\ unsaved = FALSE

-----------------------------------------------------------------------------
\* The store.

Saves == IF Explores("factor") THEN BOOLEAN ELSE {TRUE}

\* Mutant: a failed save leaves the change in memory.
UpdateAuthStateKeeps(a, saved) ==
    /\ auth' = a
    /\ disk' = IF saved THEN a ELSE disk
    /\ unsaved' = (unsaved /\ ~saved)

\* UpdateAuthState once its function has agreed to a: the file is replaced
\* whole, or the memory is put back.
UpdateAuthState(a, saved) ==
    /\ auth' = IF saved THEN a ELSE auth
    /\ disk' = IF saved THEN a ELSE disk
    /\ unsaved' = (unsaved /\ ~saved)

Untouched == UNCHANGED <<authVars>>

-----------------------------------------------------------------------------
\* A request's way.

Go(r, pc) == req' = [req EXCEPT ![r].pc = pc]
Answer(r) == req' = [req EXCEPT ![r] = IdleReq]

MoreRequests == MaxRequests[scene] = 0 \/ count < MaxRequests[scene]
Counted == count' = IF MaxRequests[scene] = 0 THEN 0 ELSE count + 1

\* Bound: one address will do where the lockout is not the point.
Clients == IF Explores("lock") THEN IPs ELSE {CHOOSE ip \in IPs : TRUE}

\* Mutant: a refused attempt starts the overall lock again.
AdmitRearming(r, op, ip, tok) ==
    /\ req[r].pc = "idle" /\ op = "login"
    /\ req' = IF Allow(ip) THEN [req EXCEPT ![r] = [pc |-> "check", op |-> op, ip |-> ip, tok |-> tok]]
              ELSE req
    /\ globalUntil' = IF globalUntil > 0 THEN globalBackoff ELSE 0
    /\ UNCHANGED <<perIP, bearerIP, recent, globalBackoff, tripped, byHash>>

\* The route's own check (requireSession, requireAdmin with its enrolment
\* gate), then the lockout.
Admit(r, op, ip, tok) ==
    /\ req[r].pc = "idle"
    /\ op # "login" => Found(tok)
    /\ op \in FactorOps => ~(On(auth) /\ auth.secret = 0)
    /\ IF op = "login" THEN UNCHANGED byHash ELSE Lookup(tok, TRUE)
    /\ req' = IF Allow(ip) THEN [req EXCEPT ![r] = [pc |-> "check", op |-> op, ip |-> ip, tok |-> tok]]
              ELSE req
    /\ perIP' = IF globalUntil = 0 THEN Forgive(perIP, ip) ELSE perIP
    /\ UNCHANGED <<bearerIP, recent, globalUntil, globalBackoff, tripped>>

AdmitLogin(r) ==
    /\ MoreRequests /\ Counted
    /\ ~Explores("bearer")
    /\ \E ip \in Clients : Admit(r, "login", ip, 0)
    /\ Untouched /\ UNCHANGED <<issued, cur, scene>>

AdmitSession(r) ==
    /\ MoreRequests /\ Counted
    /\ Explores("factor") \/ Explores("cap")
    /\ \E op \in Ops \ {"login", "bearer"}, tok \in DOMAIN byHash :
          /\ Explores("cap") => op = "stepUp"
          /\ \E ip \in Clients : Admit(r, op, ip, tok)
    /\ Untouched /\ UNCHANGED <<issued, cur, scene>>

\* failAuth
Strike(r) == Failure(req[r].ip) /\ Answer(r)

\* A wrong password.
BadPassword(r) ==
    /\ req[r].pc = "check" /\ Explores("lock")
    /\ Strike(r)
    /\ Untouched /\ UNCHANGED <<sessVars, cur, bounds>>

\* Bound: every session that may still be created has its token.
Room ==
    issued + Cardinality({q \in Reqs : req[q].pc \in {"consume", "confirm", "end"}}) < MaxLogins[scene]

\* The right password, and what the stored state asks for next. A login
\* without the code it needs is only told so; a factor route without a
\* factor is refused.
GoodPassword(r) ==
    /\ req[r].pc = "check" /\ Room
    /\ LET op == req[r].op IN
       \/ op = "enrollStart" /\ Go(r, "pend")
       \/ op = "enrollConfirm" /\ Go(r, "confirm")
       \/ /\ op \notin {"enrollStart", "enrollConfirm"} /\ auth.secret = 0
          /\ IF op \in FactorOps THEN Answer(r) ELSE Go(r, "end")
       \/ /\ op \notin {"enrollStart", "enrollConfirm"} /\ auth.secret # 0
          /\ Go(r, "consume") \/ (op = "login" /\ Answer(r))
    /\ Untouched /\ UNCHANGED <<lockVars, sessVars, cur, bounds>>

\* The TOTP codes of a secret that a client may send.
TotpsAround(g) == {Totp(g, s) : s \in {cur - 1, cur, cur + 1} \ {0}}

\* The codes a client may send: of the secret in force or the one before,
\* around the current step, any recovery code issued, or a wrong one.
Offered ==
    (UNION {TotpsAround(g) : g \in {auth.secret, auth.pending} \ {0}})
      \cup (UNION {Issue(k) : k \in 1 .. made})
      \cup (IF DOMAIN perIP = {} THEN {BadCode} ELSE {})

\* Mutant: a code of the step used last is accepted again.
ValidStepTwice(secret, code, usedStep) ==
    /\ code.kind = "totp" /\ code.of = secret
    /\ code.n \in {cur, cur - 1, cur + 1} \ {0}
    /\ usedStep # 0 => code.n >= usedStep

\* ValidateTOTP
ValidStep(secret, code, usedStep) ==
    /\ code.kind = "totp" /\ code.of = secret
    /\ code.n \in {cur, cur - 1, cur + 1} \ {0}
    /\ usedStep # 0 => code.n > usedStep

\* consumeFactor's function: the states it leaves, none when it refuses.
Consumed(a, code, allowRecovery) ==
    IF a.secret = 0 THEN {}
    ELSE IF code.kind = "recovery"
    THEN IF allowRecovery /\ code \in a.codes THEN {[a EXCEPT !.codes = @ \ {code}]} ELSE {}
    ELSE IF ValidStep(a.secret, code, a.step) THEN {[a EXCEPT !.step = code.n]} ELSE {}

\* wipe2FA
Wipe(a) == [NoAuth EXCEPT !.on = a.on, !.done = a.done]

\* What a route does in the same update (then).
Then(op, a) ==
    CASE op = "remove" -> [Wipe(a) EXCEPT !.on = FALSE]
      [] op = "reset" -> Wipe(a)
      [] op = "regen" -> [a EXCEPT !.codes = Issue(made + 1)]
      [] OTHER -> a

Accept(code) ==
    /\ accepted' = accepted \cup {code}
    /\ replayed' = IF code \in accepted THEN replayed \cup {code} ELSE replayed

\* A code refused is a strike. A factor gone meanwhile is not, unless the code
\* is a recovery code sent to regenerate: that is refused before the state is read.
ConsumeFactor(r, code, saved) ==
    LET op == req[r].op
        next == Consumed(auth, code, op \notin {"stepUp", "regen"})
        gone == auth.secret = 0 /\ op \in FactorOps /\ ~(op = "regen" /\ code.kind = "recovery")
    IN
    /\ req[r].pc = "consume"
    /\ op = "regen" => made < MaxIssues
    /\ IF next = {} \/ ~saved
       THEN /\ IF gone THEN Answer(r) /\ UNCHANGED <<lockVars>> ELSE Strike(r)
            /\ UNCHANGED <<made, setup, accepted, replayed>>
            /\ IF next = {} THEN UNCHANGED <<auth, disk, unsaved>>
               ELSE \E a \in next : UpdateAuthState(Then(op, a), FALSE)
       ELSE /\ \E a \in next : UpdateAuthState(Then(op, a), TRUE)
            /\ Accept(code)
            /\ made' = IF op = "regen" THEN made + 1 ELSE made
            /\ setup' = IF op \in {"remove", "reset"} THEN setup + 1 ELSE setup
            /\ Go(r, "end")
            /\ IF op \in FactorOps THEN Success(req[r].ip) ELSE UNCHANGED <<lockVars>>
    /\ UNCHANGED <<sessVars, cur, reset2FA, bounds>>

\* The state with a new pending secret, and with the pending one in force.
Pended(a) == [a EXCEPT !.pending = made + 1, !.left = PendingLife]
Confirmed(a, step) ==
    [a EXCEPT !.secret = a.pending, !.on = TRUE, !.step = step, !.codes = Issue(made + 1), !.pending = 0, !.left = 0]

\* handleTOTPEnrollStart
EnrollStart(r, saved) ==
    /\ req[r].pc = "pend"
    /\ made < MaxIssues
    /\ IF auth.secret # 0 THEN UNCHANGED <<auth, disk, unsaved, made>>
       ELSE /\ UpdateAuthState(Pended(auth), saved)
            /\ made' = made + 1
    /\ Answer(r)
    /\ UNCHANGED <<lockVars, sessVars, cur, setup, accepted, replayed, reset2FA, bounds>>

\* handleTOTPEnrollConfirm: its first code is checked against the pending
\* secret and stored with it. A bad code is a strike, nothing pending is not.
EnrollConfirm(r, code, saved) ==
    /\ req[r].pc = "confirm"
    /\ made < MaxIssues
    /\ IF auth.secret # 0 \/ auth.pending = 0 \/ auth.left = 0
       THEN Answer(r) /\ UNCHANGED <<lockVars, auth, disk, unsaved, made, setup, accepted, replayed>>
       ELSE IF ~ValidStep(auth.pending, code, 0)
       THEN Strike(r) /\ UNCHANGED <<auth, disk, unsaved, made, setup, accepted, replayed>>
       ELSE /\ UpdateAuthState(Confirmed(auth, code.n), saved)
            /\ made' = made + 1
            /\ IF saved THEN Accept(code) /\ setup' = setup + 1 /\ Success(req[r].ip) /\ Go(r, "end")
               ELSE Answer(r) /\ UNCHANGED <<lockVars, setup, accepted, replayed>>
    /\ UNCHANGED <<sessVars, cur, reset2FA, bounds>>

\* Mutant: turning the factor off leaves the sessions alone.
RevokesConfirmOnly(op) == op = "enrollConfirm"

\* The routes that end every session.
Revokes(op) == op \in {"enrollConfirm", "remove", "reset"}

\* After the checks: the session is created or stamped, or every session is
\* revoked (and the caller of a confirmed enrolment gets a new one).
Finish(r) ==
    LET op == req[r].op IN
    /\ req[r].pc = "end"
    /\ Answer(r)
    /\ \/ op = "login" /\ Success(req[r].ip) /\ Create(setup)
       \/ /\ op = "stepUp" /\ StampStepUp(req[r].tok) /\ UNCHANGED issued
          /\ IF req[r].tok \in DOMAIN byHash THEN Success(req[r].ip) ELSE UNCHANGED <<lockVars>>
       \/ /\ op \notin {"login", "stepUp"} /\ UNCHANGED <<lockVars>>
          /\ IF ~Revokes(op) THEN UNCHANGED sessVars
             ELSE IF op = "enrollConfirm" THEN Reissue(setup)
             ELSE RevokeAll /\ UNCHANGED issued
    /\ Untouched /\ UNCHANGED <<cur, bounds>>

-----------------------------------------------------------------------------
\* Other admin requests, in one step each.

\* Any admin page: the session is looked up; a poll does not extend it.
UseSession(t) ==
    /\ Explores("cap")
    /\ t \in DOMAIN byHash
    /\ \E poll \in BOOLEAN : Lookup(t, ~poll)
    /\ UNCHANGED <<lockVars, issued, req, cur, bounds>> /\ Untouched

\* handleLogout, handleRevokeAllSessions
Logout(t) ==
    /\ Explores("cap")
    /\ Found(t)
    /\ RevokeRaw(t) \/ RevokeAll
    /\ UNCHANGED <<lockVars, issued, req, cur, bounds>> /\ Untouched

\* requireAdmin over the master key: its own lockout check, then the key.
AdmitBearer(r) ==
    /\ Explores("bearer") /\ req[r].pc = "idle"
    /\ \E ip \in IPs :
          /\ req' = IF AllowBearer(ip)
                    THEN [req EXCEPT ![r] = [pc |-> "bearer", op |-> "bearer", ip |-> ip, tok |-> 0]]
                    ELSE req
          /\ bearerIP' = Forgive(bearerIP, ip)
    /\ UNCHANGED <<perIP, recent, globalUntil, globalBackoff, tripped, sessVars, cur, bounds>>
    /\ Untouched

Bearer(r) ==
    /\ req[r].pc = "bearer"
    /\ SuccessBearer(req[r].ip) \/ FailureBearer(req[r].ip)
    /\ Answer(r)
    /\ UNCHANGED <<sessVars, cur, bounds>> /\ Untouched

-----------------------------------------------------------------------------
\* The process.

\* Mutant: the marker is not stored, so every boot with the flag wipes.
BreakGlassUnmarked(flag, a) == IF flag THEN NoAuth ELSE [a EXCEPT !.done = FALSE]

\* applyBreakGlass: with the flag everything is wiped once, until a boot
\* without it.
BreakGlass(flag, a) ==
    IF ~flag THEN [a EXCEPT !.done = FALSE]
    ELSE IF a.done THEN a ELSE Wiped

\* A crash or stop at any point and a new start: memory is gone, the file is
\* read, and applyBreakGlass writes it (SetAuthState keeps the change in
\* memory when the write fails).
Restart(flag, saved) ==
    /\ Explores("factor") /\ MoreRequests /\ Counted
    /\ auth' = BreakGlass(flag, disk)
    /\ disk' = IF saved THEN auth' ELSE disk
    /\ unsaved' = (disk' # auth')
    /\ setup' = IF auth'.secret # auth.secret THEN setup + 1 ELSE setup
    /\ reset2FA' = flag
    /\ perIP' = <<>> /\ bearerIP' = <<>> /\ recent' = [i \in 1 .. Window |-> 0]
    /\ globalUntil' = 0 /\ globalBackoff' = 1 /\ tripped' = Clean
    /\ byHash' = <<>>
    /\ req' = [r \in Reqs |-> IdleReq]
    /\ UNCHANGED <<issued, cur, made, accepted, replayed, scene>>

\* Any other write of the state file carries the memory's AuthState along.
OtherSave ==
    /\ unsaved
    /\ disk' = auth /\ unsaved' = FALSE
    /\ UNCHANGED <<lockVars, sessVars, req, cur, auth, made, setup, accepted, replayed, reset2FA, bounds>>

Older(a) == [a EXCEPT !.left = Pass(@)]

\* One TOTP period.
Tick ==
    /\ LockoutTick /\ SessionsTick
    /\ cur' = UpTo(cur + 1, MaxStep)
    /\ auth' = Older(auth) /\ disk' = Older(disk)
    /\ UNCHANGED <<req, made, setup, accepted, replayed, reset2FA, unsaved, bounds>>

Step(r) ==
    \/ GoodPassword(r) \/ BadPassword(r)
    \/ \E code \in Offered, saved \in Saves : ConsumeFactor(r, code, saved) \/ EnrollConfirm(r, code, saved)
    \/ \E saved \in Saves : EnrollStart(r, saved)
    \/ Finish(r)
    \/ Bearer(r)

Next ==
    \/ \E r \in Reqs : AdmitLogin(r) \/ AdmitSession(r) \/ AdmitBearer(r) \/ Step(r)
    \/ \E t \in 1 .. issued : UseSession(t) \/ Logout(t)
    \/ OtherSave
    \/ \E flag, saved \in BOOLEAN : Restart(flag, saved)
    \/ Tick

\* Time passes and a handler that has begun goes on.
Fairness == WF_vars(Tick) /\ \A r \in Reqs : WF_vars(Step(r))

Spec == Init /\ [][Next]_vars /\ Fairness

-----------------------------------------------------------------------------
\* No TOTP step of a secret and no recovery code is ever accepted twice,
\* though requests race, saves fail and the process restarts
\* (consumeFactor, UpdateAuthState).
CodeOnce == replayed = {}

\* A session never outlives a change of the second factor made after it was
\* created: enrolling, removing or resetting it ends every session
\* (handleTOTPEnrollConfirm, handleTOTPRemove, handleTOTPReset).
SessionsFollowFactor ==
    \A t \in DOMAIN byHash :
      \/ byHash[t].born = setup
      \/ \E r \in Reqs : req[r].pc = "end" /\ req[r].op \in {"enrollConfirm", "remove", "reset"}

\* What the handlers act on is what a restart would read, so nothing that was
\* acknowledged is forgotten, but for a boot that could not write its wipe.
MemoryIsDurable == auth = disk \/ unsaved

\* The second factor: each code once, in memory as in the file.
FactorSound == TypeOK /\ CodeOnce /\ MemoryIsDurable

\* While UPLINK_RESET_2FA stays set, restarts wipe once: an enrolment made
\* since survives them (applyBreakGlass).
EnrolmentSurvivesBoot ==
    [][reset2FA /\ (\E saved \in BOOLEAN : Restart(TRUE, saved)) => auth'.secret = auth.secret]_vars

\* A lock ends by time alone, or by the right password sent from the address
\* before it was locked: no flood of other addresses pushes it out.
LockNotForgotten ==
    [][\A ip \in IPs :
         /\ Locked(perIP, ip) /\ ~Locked(perIP, ip)' =>
              \/ perIP[ip].lock = 1 /\ ip \in DOMAIN perIP'
              \/ \E r \in Reqs : req[r].ip = ip /\ req[r].pc \in {"consume", "confirm", "end"}
              \/ \E flag, saved \in BOOLEAN : Restart(flag, saved)
         /\ Locked(bearerIP, ip) /\ ~Locked(bearerIP, ip)' =>
              \/ bearerIP[ip].lock = 1 /\ ip \in DOMAIN bearerIP'
              \/ \E r \in Reqs : req[r].ip = ip /\ req[r].pc = "bearer"]_vars

\* An address gets no more wrong guesses than the free ones and, for each
\* lock it has waited out, one per request that can run at a time.
GuessBudget ==
    \A m \in {perIP, bearerIP} : \A ip \in DOMAIN m :
      m[ip].fails <= FreeFailures + Cardinality(Reqs) * (1 + m[ip].waits)

\* Every lock ends, the overall one too, whatever other addresses do.
LockEnds == \A ip \in IPs : ~Allow(ip) ~> Allow(ip)
=============================================================================
