-------------------------- MODULE AdminAuthProofs --------------------------
(***************************************************************************)
(* Proofs about AdminAuth, for any requests, addresses, codes and bounds.  *)
(***************************************************************************)
EXTENDS AdminAuth, LockoutProofs

\* What a request carries where it stands: an address from its admission on,
\* and at the confirmation of an enrolment no other route.
RequestsPlaced ==
    \A r \in Reqs :
      /\ req[r].pc # "idle" => req[r].ip \in IPs
      /\ req[r].pc = "confirm" => req[r].op = "enrollConfirm"

Typed == TypeOK /\ RequestsPlaced

-----------------------------------------------------------------------------
\* The sessions.

\* The sessions that stay keep the setup they were created under.
BornKept == \A t \in DOMAIN byHash' : t \in DOMAIN byHash /\ byHash'[t].born = byHash[t].born

LEMMA WithoutType ==
    ASSUME SessionsTypeOK, NEW S, byHash' = Without(S), issued' = issued
    PROVE  SessionsTypeOK' /\ BornKept
  BY DEF SessionsTypeOK, BornKept, Without, Restrict

\* Looking a session up, stamping it and ending some change no session's birth.
LEMMA LookupType ==
    ASSUME SessionsTypeOK, NEW t, NEW extend \in BOOLEAN, Lookup(t, extend), issued' = issued
    PROVE  SessionsTypeOK' /\ BornKept
<1>1. CASE byHash' = byHash
  BY <1>1 DEF SessionsTypeOK, BornKept
<1>2. CASE byHash' = Without({t})
  BY <1>2, WithoutType
<1>3. CASE t \in DOMAIN byHash /\ byHash' = [byHash EXCEPT ![t].idle = 0]
  BY <1>3, SessionsAssumption DEF SessionsTypeOK, BornKept
<1>4. QED
  BY <1>1, <1>2, <1>3 DEF Lookup

LEMMA StampStepUpType ==
    ASSUME SessionsTypeOK, NEW t, StampStepUp(t), issued' = issued
    PROVE  SessionsTypeOK' /\ BornKept
<1>1. CASE byHash' = byHash
  BY <1>1 DEF SessionsTypeOK, BornKept
<1>2. CASE t \in DOMAIN byHash /\ byHash' = [byHash EXCEPT ![t].proof = 0]
  BY <1>2, SessionsAssumption DEF SessionsTypeOK, BornKept
<1>3. QED
  BY <1>1, <1>2 DEF StampStepUp

LEMMA RevokeType ==
    ASSUME SessionsTypeOK, NEW t, RevokeRaw(t) \/ RevokeAll, issued' = issued
    PROVE  SessionsTypeOK' /\ BornKept
<1>1. CASE RevokeRaw(t)
  BY <1>1, WithoutType DEF RevokeRaw
<1>2. CASE RevokeAll
  BY <1>2 DEF RevokeAll, SessionsTypeOK, BornKept
<1>3. QED
  BY <1>1, <1>2

\* A new session, after an eviction or a revocation of all, is born under the
\* setup in force.
LEMMA CreateType ==
    ASSUME SessionsTypeOK, NEW born \in Nat, Create(born) \/ Reissue(born)
    PROVE  /\ SessionsTypeOK'
           /\ \A t \in DOMAIN byHash' :
                 \/ byHash'[t].born = born
                 \/ t \in DOMAIN byHash /\ byHash'[t].born = byHash[t].born /\ Create(born)
<1> DEFINE new == [age |-> 0, idle |-> 0, proof |-> 0, born |-> born]
<1>1. CASE Create(born)
  <2>1. PICK S : /\ issued + 1 <= MaxTokens /\ issued' = issued + 1
                 /\ byHash' = [k \in DOMAIN Without(S) \cup {issued + 1} |->
                                 IF k = issued + 1 THEN new ELSE Without(S)[k]]
    BY <1>1 DEF Create
  <2>2. DOMAIN Without(S) = DOMAIN byHash \ S /\ \A k \in DOMAIN byHash \ S : Without(S)[k] = byHash[k]
    BY DEF Without, Restrict
  <2>3. QED
    BY <1>1, <2>1, <2>2, SessionsAssumption DEF SessionsTypeOK
<1>2. CASE Reissue(born)
  BY <1>2, SessionsAssumption DEF Reissue, SessionsTypeOK
<1>3. QED
  BY <1>1, <1>2

LEMMA SessionsTickType ==
    ASSUME SessionsTypeOK, SessionsTick
    PROVE  SessionsTypeOK' /\ BornKept
<1>1. ASSUME NEW t \in DOMAIN byHash
      PROVE  /\ byHash'[t] \in [age : 0 .. SessionAbsolute + 1, idle : 0 .. SessionIdle + 1,
                                proof : 0 .. StepUpMaxAge + 1, born : Nat]
             /\ byHash'[t].born = byHash[t].born
  BY <1>1, SessionsAssumption DEF SessionsTypeOK, SessionsTick, Grown
<1>2. QED
  BY <1>1 DEF SessionsTypeOK, SessionsTick, BornKept

-----------------------------------------------------------------------------
\* The stored state of the second factor.

LEMMA IssueFacts ==
    ASSUME NEW k, NEW c \in Issue(k)
    PROVE  c.kind = "recovery" /\ c.of = k /\ c.n \in RecoveryCodes
  BY DEF Issue

LEMMA IssueType ==
    ASSUME NEW k \in 1 .. MaxIssues
    PROVE  Issue(k) \in SUBSET UNION {Issue(j) : j \in 1 .. MaxIssues}
  OBVIOUS

LEMMA NoAuthType ==
    /\ NoAuth \in AuthStates
    /\ NoAuth.secret = 0 /\ NoAuth.pending = 0 /\ NoAuth.step = 0 /\ NoAuth.codes = {} /\ ~NoAuth.done
  BY AuthAssumption DEF NoAuth, AuthStates

LEMMA WipedType ==
    /\ Wiped \in AuthStates
    /\ Wiped.secret = 0 /\ Wiped.pending = 0 /\ Wiped.codes = {} /\ Wiped.done
<1> HIDE DEF NoAuth
<1>1. QED
  BY NoAuthType DEF Wiped, AuthStates

LEMMA EnrolledType ==
    /\ Enrolled \in AuthStates
    /\ Enrolled.secret = 1 /\ Enrolled.pending = 0 /\ Enrolled.step = 0 /\ Enrolled.codes = Issue(2)
    /\ ~Enrolled.done
<1> DEFINE a == [NoAuth EXCEPT !.secret = 1]
           b == [a EXCEPT !.on = TRUE]
<1>1. a \in AuthStates /\ a.secret = 1 /\ a.pending = 0 /\ a.step = 0 /\ ~a.done
  BY NoAuthType, AuthAssumption DEF AuthStates
<1> HIDE DEF a
<1>2. b \in AuthStates /\ b.secret = 1 /\ b.pending = 0 /\ b.step = 0 /\ ~b.done
  BY <1>1 DEF AuthStates
<1> HIDE DEF b
<1>3. Issue(2) \in SUBSET UNION {Issue(j) : j \in 1 .. MaxIssues}
  BY IssueType, AuthAssumption
<1>4. [b EXCEPT !.codes = Issue(2)] \in AuthStates
  BY <1>2, <1>3 DEF AuthStates
<1>5. Enrolled = [b EXCEPT !.codes = Issue(2)]
  BY DEF Enrolled, a, b
<1>6. QED
  BY <1>2, <1>4, <1>5 DEF AuthStates

\* wipe2FA keeps the setting and the break-glass marker only.
LEMMA WipeType ==
    ASSUME NEW a \in AuthStates
    PROVE  /\ Wipe(a) \in AuthStates
           /\ Wipe(a).secret = 0 /\ Wipe(a).pending = 0 /\ Wipe(a).codes = {} /\ Wipe(a).done = a.done
<1> DEFINE b == [NoAuth EXCEPT !.on = a.on]
<1>1. b \in AuthStates /\ b.secret = 0 /\ b.pending = 0 /\ b.codes = {}
  BY NoAuthType DEF AuthStates
<1> HIDE DEF b
<1>2. Wipe(a) = [b EXCEPT !.done = a.done]
  BY DEF Wipe, b
<1>3. QED
  BY <1>1, <1>2 DEF AuthStates

\* What a route does in the same update as the code it consumed.
LEMMA ThenType ==
    ASSUME NEW op, NEW a \in AuthStates, made \in 0 .. MaxIssues, op = "regen" => made < MaxIssues
    PROVE  /\ Then(op, a) \in AuthStates
           /\ Then(op, a).done = a.done
           /\ IF op \in {"remove", "reset"}
              THEN Then(op, a).secret = 0 /\ Then(op, a).pending = 0 /\ Then(op, a).codes = {}
              ELSE /\ Then(op, a).secret = a.secret /\ Then(op, a).pending = a.pending
                   /\ Then(op, a).step = a.step
                   /\ Then(op, a).codes = IF op = "regen" THEN Issue(made + 1) ELSE a.codes
<1> DEFINE w == Wipe(a)
<1>1. w \in AuthStates /\ w.secret = 0 /\ w.pending = 0 /\ w.codes = {} /\ w.done = a.done
  BY WipeType
<1> HIDE DEF w
<1>2. CASE op = "remove"
  <2>1. Then(op, a) = [w EXCEPT !.on = FALSE]
    BY <1>2 DEF Then, w
  <2>2. QED
    BY <1>1, <1>2, <2>1 DEF AuthStates
<1>3. CASE op = "reset"
  <2>1. Then(op, a) = w
    BY <1>3 DEF Then, w
  <2>2. QED
    BY <1>1, <1>3, <2>1
<1>4. CASE op = "regen"
  <2>1. Then(op, a) = [a EXCEPT !.codes = Issue(made + 1)]
    BY <1>4 DEF Then
  <2>2. made + 1 \in 1 .. MaxIssues
    BY <1>4, AuthAssumption
  <2>3. Issue(made + 1) \in SUBSET UNION {Issue(j) : j \in 1 .. MaxIssues}
    BY <2>2, IssueType
  <2>4. QED
    BY <1>4, <2>1, <2>3 DEF AuthStates
<1>5. CASE op \notin {"remove", "reset", "regen"}
  <2>1. Then(op, a) = a
    BY <1>5 DEF Then
  <2>2. QED
    BY <1>5, <2>1
<1>6. QED
  BY <1>2, <1>3, <1>4, <1>5

\* The codes a client may send, as far as one can be accepted.
Codes == [kind : {"totp", "recovery", "bad"}, of : Nat, n : Nat]

LEMMA OfferedType ==
    ASSUME Typed, NEW c \in Offered
    PROVE  /\ c \in Codes
           /\ c.kind = "totp" => c.of # 0 /\ c.n \in 1 .. MaxStep + 1
           /\ c.kind = "recovery" => c.of \in 1 .. made
<1>1. CASE \E g \in {auth.secret, auth.pending} \ {0} : c \in TotpsAround(g)
  BY <1>1, AuthAssumption DEF Typed, TypeOK, AuthStates, TotpsAround, Totp, Codes
<1>2. CASE \E k \in 1 .. made : c \in Issue(k)
  BY <1>2, AuthAssumption DEF Typed, TypeOK, Issue, Codes
<1>3. CASE c = BadCode
  BY <1>3 DEF BadCode, Codes
<1>4. QED
  BY <1>1, <1>2, <1>3 DEF Offered

\* A code is consumed by moving the used step on to it, or by taking the
\* recovery code out.
LEMMA ConsumedType ==
    ASSUME Typed, NEW c \in Offered, NEW allow \in BOOLEAN, NEW b \in Consumed(auth, c, allow)
    PROVE  /\ b \in AuthStates
           /\ b.done = auth.done /\ b.secret = auth.secret /\ b.pending = auth.pending
           /\ auth.secret # 0
           /\ \/ /\ c.kind = "recovery" /\ c \in auth.codes
                 /\ b.codes = auth.codes \ {c} /\ b.step = auth.step
              \/ /\ c.kind = "totp" /\ c.of = auth.secret
                 /\ auth.step # 0 => c.n > auth.step
                 /\ b.codes = auth.codes /\ b.step = c.n
<1>1. auth \in AuthStates /\ auth.secret # 0
  BY DEF Typed, TypeOK, Consumed
<1>2. CASE c.kind = "recovery"
  <2>1. c \in auth.codes /\ b = [auth EXCEPT !.codes = auth.codes \ {c}]
    BY <1>1, <1>2 DEF Consumed
  <2>2. QED
    BY <1>1, <1>2, <2>1 DEF AuthStates
<1>3. CASE c.kind # "recovery"
  <2>1. ValidStep(auth.secret, c, auth.step) /\ b = [auth EXCEPT !.step = c.n]
    BY <1>1, <1>3 DEF Consumed
  <2>2. c.n \in 0 .. MaxStep + 1
    BY <2>1, OfferedType, AuthAssumption DEF ValidStep
  <2>3. QED
    BY <1>1, <1>3, <2>1, <2>2 DEF AuthStates, ValidStep
<1>4. QED
  BY <1>2, <1>3

\* A save that fails puts the memory back.
LEMMA UpdateAuthStateType ==
    ASSUME {auth, disk} \subseteq AuthStates, {reset2FA, unsaved} \subseteq BOOLEAN,
           NEW a \in AuthStates, NEW saved \in BOOLEAN, UpdateAuthState(a, saved)
    PROVE  {auth', disk'} \subseteq AuthStates /\ unsaved' \in BOOLEAN
  BY DEF UpdateAuthState

LEMMA SavesType == Saves \subseteq BOOLEAN
  BY DEF Saves

-----------------------------------------------------------------------------
\* Type correctness, action by action.

\* A request that moves on, is answered or is admitted stays in its place.
LEMMA GoTyped ==
    ASSUME Typed, NEW r \in Reqs, NEW pc \in ReqPCs, Go(r, pc),
           req[r].pc # "idle", pc = "confirm" => req[r].op = "enrollConfirm"
    PROVE  /\ req' \in [Reqs -> [pc : ReqPCs, op : Ops, ip : IPs \cup {NoIP}, tok : 0 .. MaxTokens]]
           /\ RequestsPlaced'
           /\ \A q \in Reqs : req'[q].op = req[q].op /\ req'[q].ip = req[q].ip
           /\ \A q \in Reqs : req'[q].pc = IF q = r THEN pc ELSE req[q].pc
  BY DEF Typed, TypeOK, RequestsPlaced, Go

LEMMA AnswerTyped ==
    ASSUME Typed, NEW r \in Reqs, Answer(r)
    PROVE  /\ req' \in [Reqs -> [pc : ReqPCs, op : Ops, ip : IPs \cup {NoIP}, tok : 0 .. MaxTokens]]
           /\ RequestsPlaced'
           /\ req'[r].pc = "idle"
           /\ \A q \in Reqs \ {r} : req'[q] = req[q]
  BY SessionsAssumption DEF Typed, TypeOK, RequestsPlaced, Answer, IdleReq, ReqPCs, Ops

LEMMA ClientsType == Clients \subseteq IPs
  BY AuthAssumption DEF Clients

LEMMA InitTyped == Init => Typed
<1> SUFFICES ASSUME Init PROVE Typed
  OBVIOUS
<1>1. LockoutTypeOK
  BY LockoutInitType DEF Init
<1>2. SessionsTypeOK
  BY SessionsAssumption DEF Init, SessionsInit, SessionsTypeOK
<1>3. req \in [Reqs -> [pc : ReqPCs, op : Ops, ip : IPs \cup {NoIP}, tok : 0 .. MaxTokens]] /\ RequestsPlaced
  BY SessionsAssumption DEF Init, IdleReq, ReqPCs, Ops, RequestsPlaced
<1>4. auth \in AuthStates /\ disk = auth /\ made \in {0, 2} /\ auth.done \in BOOLEAN
  BY NoAuthType, WipedType, EnrolledType DEF Init, AuthStates
<1>5. cur = 1 /\ setup = 0 /\ reset2FA = auth.done /\ unsaved = FALSE
  BY DEF Init
<1>6. reset2FA \in BOOLEAN /\ unsaved \in BOOLEAN
  BY <1>4, <1>5
<1>7. cur \in 1 .. MaxStep /\ made \in 0 .. MaxIssues /\ setup \in Nat
  BY <1>4, <1>5, AuthAssumption
<1>8. QED
  BY <1>1, <1>2, <1>3, <1>4, <1>6, <1>7 DEF Typed, TypeOK

LEMMA AdmitTyped ==
    ASSUME Typed, NEW r \in Reqs, NEW op \in Ops, NEW ip \in IPs, NEW tok \in 0 .. MaxTokens,
           Admit(r, op, ip, tok), Untouched, UNCHANGED <<issued, cur, scene>>
    PROVE  Typed' /\ BornKept
<1>1. LockoutTypeOK'
  <2>1. Table(perIP) /\ Table(bearerIP)
    BY LockoutTables DEF Typed, TypeOK
  <2>2. Table(perIP')
    BY <2>1, ForgiveTable DEF Admit
  <2>3. QED
    BY <2>1, <2>2 DEF Typed, TypeOK, Admit, LockoutTypeOK, Table
<1>2. SessionsTypeOK' /\ BornKept
  <2>1. CASE op = "login"
    BY <2>1 DEF Typed, TypeOK, Admit, SessionsTypeOK, BornKept
  <2>2. CASE op # "login"
    BY <2>2, LookupType DEF Typed, TypeOK, Admit
  <2>3. QED
    BY <2>1, <2>2
<1>3. /\ req' \in [Reqs -> [pc : ReqPCs, op : Ops, ip : IPs \cup {NoIP}, tok : 0 .. MaxTokens]]
      /\ RequestsPlaced'
  BY DEF Typed, TypeOK, RequestsPlaced, Admit, ReqPCs
<1>4. QED
  BY <1>1, <1>2, <1>3 DEF Typed, TypeOK, Untouched, authVars

\* failAuth
LEMMA StrikeTyped ==
    ASSUME Typed, NEW r \in Reqs, Strike(r), req[r].pc # "idle"
    PROVE  LockoutTypeOK' /\ RequestsPlaced'
           /\ req' \in [Reqs -> [pc : ReqPCs, op : Ops, ip : IPs \cup {NoIP}, tok : 0 .. MaxTokens]]
<1>1. req[r].ip \in IPs
  BY DEF Typed, RequestsPlaced
<1>2. QED
  BY <1>1, FailureType, AnswerTyped DEF Strike, Typed, TypeOK

LEMMA GoodPasswordMoves ==
    ASSUME Typed, NEW r \in Reqs, GoodPassword(r)
    PROVE  \/ Answer(r)
           \/ \E pc \in {"pend", "confirm", "end", "consume"} :
                 /\ Go(r, pc)
                 /\ pc = "confirm" => req[r].op = "enrollConfirm"
                 /\ pc = "end" => req[r].op \notin {"enrollStart", "enrollConfirm"} \cup FactorOps
<1> DEFINE op == req[r].op
<1>1. CASE op = "enrollStart"
  BY <1>1 DEF GoodPassword
<1>2. CASE op = "enrollConfirm"
  BY <1>2 DEF GoodPassword
<1>3. CASE op \notin {"enrollStart", "enrollConfirm"} /\ auth.secret = 0
  BY <1>3 DEF GoodPassword
<1>4. CASE op \notin {"enrollStart", "enrollConfirm"} /\ auth.secret # 0
  BY <1>4 DEF GoodPassword
<1>5. QED
  BY <1>1, <1>2, <1>3, <1>4

LEMMA GoodPasswordTyped ==
    ASSUME Typed, NEW r \in Reqs, GoodPassword(r)
    PROVE  Typed'
<1>1. req[r].pc = "check" /\ Untouched /\ UNCHANGED <<lockVars, sessVars, cur, bounds>>
  BY DEF GoodPassword
<1>2. /\ req' \in [Reqs -> [pc : ReqPCs, op : Ops, ip : IPs \cup {NoIP}, tok : 0 .. MaxTokens]]
      /\ RequestsPlaced'
  BY <1>1, GoodPasswordMoves, GoTyped, AnswerTyped DEF ReqPCs
<1>3. QED
  BY <1>1, <1>2
     DEF Typed, TypeOK, Untouched, authVars, lockVars, sessVars, LockoutTypeOK, SessionsTypeOK

\* The parts of Typed that a step on the stored state leaves to show.
LEMMA TypedParts ==
    ASSUME Typed, LockoutTypeOK', SessionsTypeOK', RequestsPlaced',
           req' \in [Reqs -> [pc : ReqPCs, op : Ops, ip : IPs \cup {NoIP}, tok : 0 .. MaxTokens]],
           {auth', disk'} \subseteq AuthStates, unsaved' \in BOOLEAN, UNCHANGED reset2FA,
           cur' = cur, made' \in 0 .. MaxIssues, setup' \in Nat
    PROVE  Typed'
  BY DEF Typed, TypeOK

\* The changes a consumed code makes, once saved, and those of a refused one.
LEMMA ConsumeFactorEffect ==
    ASSUME Typed, NEW r \in Reqs, NEW code \in Offered, NEW saved \in BOOLEAN,
           ConsumeFactor(r, code, saved)
    PROVE  \/ /\ UNCHANGED <<auth, disk, made, setup, accepted, replayed>>
              /\ unsaved' \in BOOLEAN /\ unsaved' = unsaved
              /\ Strike(r) \/ (Answer(r) /\ UNCHANGED lockVars)
           \/ /\ \E a \in Consumed(auth, code, req[r].op \notin {"stepUp", "regen"}) :
                    auth' = Then(req[r].op, a) /\ disk' = Then(req[r].op, a)
              /\ unsaved' = FALSE /\ Accept(code) /\ Go(r, "end")
              /\ made' = IF req[r].op = "regen" THEN made + 1 ELSE made
              /\ setup' = IF req[r].op \in {"remove", "reset"} THEN setup + 1 ELSE setup
              /\ Success(req[r].ip) \/ UNCHANGED lockVars
<1> DEFINE op == req[r].op
           next == Consumed(auth, code, op \notin {"stepUp", "regen"})
<1>1. CASE next = {} \/ ~saved
  <2>1. /\ Strike(r) \/ (Answer(r) /\ UNCHANGED lockVars)
        /\ UNCHANGED <<made, setup, accepted, replayed>>
        /\ IF next = {} THEN UNCHANGED <<auth, disk, unsaved>>
           ELSE \E a \in next : UpdateAuthState(Then(op, a), FALSE)
    BY <1>1 DEF ConsumeFactor
  <2> HIDE DEF next, op
  <2>2. unsaved \in BOOLEAN
    BY DEF Typed, TypeOK
  <2>3. UNCHANGED <<auth, disk>> /\ unsaved' = unsaved
    BY <2>1, <2>2 DEF UpdateAuthState
  <2>4. QED
    BY <2>1, <2>2, <2>3 DEF op
<1>2. CASE next # {} /\ saved
  <2>1. /\ \E a \in next : UpdateAuthState(Then(op, a), TRUE)
        /\ Accept(code)
        /\ made' = IF op = "regen" THEN made + 1 ELSE made
        /\ setup' = IF op \in {"remove", "reset"} THEN setup + 1 ELSE setup
        /\ Go(r, "end")
        /\ IF op \in FactorOps THEN Success(req[r].ip) ELSE UNCHANGED <<lockVars>>
    BY <1>2 DEF ConsumeFactor
  <2>2. PICK a \in next : UpdateAuthState(Then(op, a), TRUE)
    BY <2>1
  <2>3. auth' = Then(op, a) /\ disk' = Then(op, a) /\ unsaved' = FALSE
    BY <2>2 DEF UpdateAuthState
  <2> HIDE DEF next
  <2>4. QED
    BY <2>1, <2>2, <2>3 DEF next
<1>3. QED
  BY <1>1, <1>2

LEMMA ConsumeFactorTyped ==
    ASSUME Typed, NEW r \in Reqs, NEW code \in Offered, NEW saved \in BOOLEAN,
           ConsumeFactor(r, code, saved)
    PROVE  Typed'
<1>1. /\ req[r].pc = "consume" /\ (req[r].op = "regen" => made < MaxIssues)
      /\ UNCHANGED <<sessVars, cur, reset2FA, bounds>>
  BY DEF ConsumeFactor
<1>2. SessionsTypeOK'
  BY <1>1 DEF Typed, TypeOK, SessionsTypeOK, sessVars
<1>3. LockoutTypeOK /\ made \in 0 .. MaxIssues /\ setup \in Nat /\ MaxIssues \in Nat
  BY AuthAssumption DEF Typed, TypeOK
<1>4. CASE /\ UNCHANGED <<auth, disk, made, setup, accepted, replayed>>
           /\ unsaved' \in BOOLEAN /\ unsaved' = unsaved
           /\ Strike(r) \/ (Answer(r) /\ UNCHANGED lockVars)
  <2>1. /\ LockoutTypeOK' /\ RequestsPlaced'
        /\ req' \in [Reqs -> [pc : ReqPCs, op : Ops, ip : IPs \cup {NoIP}, tok : 0 .. MaxTokens]]
    BY <1>1, <1>3, <1>4, StrikeTyped, AnswerTyped DEF lockVars, LockoutTypeOK
  <2>2. QED
    BY <1>1, <1>2, <1>3, <1>4, <2>1, TypedParts DEF Typed, TypeOK
<1>5. CASE /\ \E a \in Consumed(auth, code, req[r].op \notin {"stepUp", "regen"}) :
                auth' = Then(req[r].op, a) /\ disk' = Then(req[r].op, a)
           /\ unsaved' = FALSE /\ Accept(code) /\ Go(r, "end")
           /\ made' = IF req[r].op = "regen" THEN made + 1 ELSE made
           /\ setup' = IF req[r].op \in {"remove", "reset"} THEN setup + 1 ELSE setup
           /\ Success(req[r].ip) \/ UNCHANGED lockVars
  <2>1. LockoutTypeOK'
    BY <1>3, <1>5, SuccessType DEF lockVars, LockoutTypeOK
  <2>2. /\ req' \in [Reqs -> [pc : ReqPCs, op : Ops, ip : IPs \cup {NoIP}, tok : 0 .. MaxTokens]]
        /\ RequestsPlaced'
    BY <1>1, <1>5, GoTyped DEF ReqPCs
  <2>3. PICK a \in Consumed(auth, code, req[r].op \notin {"stepUp", "regen"}) :
           auth' = Then(req[r].op, a) /\ disk' = Then(req[r].op, a)
    BY <1>5
  <2>4. a \in AuthStates
    BY <2>3, ConsumedType
  <2>5. Then(req[r].op, a) \in AuthStates
    BY <1>1, <1>3, <2>4, ThenType
  <2>6. unsaved' \in BOOLEAN
    BY <1>5
  <2>7. /\ made' = IF req[r].op = "regen" THEN made + 1 ELSE made
        /\ setup' = IF req[r].op \in {"remove", "reset"} THEN setup + 1 ELSE setup
    BY <1>5
  <2>8. made' \in 0 .. MaxIssues /\ setup' \in Nat
    BY <1>1, <1>3, <2>7
  <2>9. QED
    BY <1>1, <1>2, <2>1, <2>2, <2>3, <2>5, <2>6, <2>8, TypedParts
<1>6. QED
  BY <1>4, <1>5, ConsumeFactorEffect

\* A pending secret is stored, or nothing is.
LEMMA EnrollStartEffect ==
    ASSUME Typed, NEW r \in Reqs, NEW saved \in BOOLEAN, EnrollStart(r, saved)
    PROVE  /\ Answer(r) /\ made < MaxIssues
           /\ UNCHANGED <<lockVars, sessVars, cur, setup, accepted, replayed, reset2FA, bounds>>
           /\ made' \in {made, made + 1}
           /\ \/ UNCHANGED <<auth, disk, unsaved>>
              \/ /\ auth.secret = 0 /\ made' = made + 1 /\ unsaved' = FALSE
                 /\ auth' = Pended(auth) /\ disk' = auth'
<1>1. unsaved \in BOOLEAN
  BY DEF Typed, TypeOK
<1>2. CASE auth.secret # 0
  BY <1>2 DEF EnrollStart
<1>3. CASE auth.secret = 0
  <2>1. /\ UpdateAuthState(Pended(auth), saved)
        /\ made' = made + 1
    BY <1>3 DEF EnrollStart
  <2>2. \/ UNCHANGED <<auth, disk, unsaved>>
        \/ /\ unsaved' = FALSE
           /\ auth' = Pended(auth) /\ disk' = auth'
    BY <1>1, <2>1 DEF UpdateAuthState
  <2>3. QED
    BY <1>3, <2>1, <2>2 DEF EnrollStart
<1>4. QED
  BY <1>2, <1>3

LEMMA PendedType ==
    ASSUME NEW a \in AuthStates, made + 1 \in 0 .. MaxIssues
    PROVE  /\ Pended(a) \in AuthStates
           /\ Pended(a).secret = a.secret /\ Pended(a).step = a.step /\ Pended(a).codes = a.codes
           /\ Pended(a).pending = made + 1 /\ Pended(a).done = a.done
<1> DEFINE c == [a EXCEPT !.pending = made + 1]
<1>1. /\ c \in AuthStates /\ c.secret = a.secret /\ c.step = a.step /\ c.codes = a.codes
      /\ c.pending = made + 1 /\ c.done = a.done
  BY DEF AuthStates
<1> HIDE DEF c
<1>2. [c EXCEPT !.left = PendingLife] \in AuthStates
  BY <1>1, AuthAssumption DEF AuthStates
<1>3. Pended(a) = [c EXCEPT !.left = PendingLife]
  BY DEF c, Pended
<1>4. QED
  BY <1>1, <1>2, <1>3 DEF AuthStates

LEMMA EnrollStartTyped ==
    ASSUME Typed, NEW r \in Reqs, NEW saved \in BOOLEAN, EnrollStart(r, saved)
    PROVE  Typed'
<1>1. /\ LockoutTypeOK' /\ SessionsTypeOK' /\ setup' \in Nat
      /\ cur' = cur /\ UNCHANGED reset2FA
  BY EnrollStartEffect DEF Typed, TypeOK, lockVars, sessVars, LockoutTypeOK, SessionsTypeOK
<1>2. /\ req' \in [Reqs -> [pc : ReqPCs, op : Ops, ip : IPs \cup {NoIP}, tok : 0 .. MaxTokens]]
      /\ RequestsPlaced'
  BY EnrollStartEffect, AnswerTyped
<1>3. made + 1 \in 0 .. MaxIssues /\ made' \in 0 .. MaxIssues /\ PendingLife \in 0 .. PendingLife
  <2>1. made < MaxIssues /\ made' \in {made, made + 1}
    BY EnrollStartEffect
  <2>2. QED
    BY <2>1, AuthAssumption DEF Typed, TypeOK
<1>4. auth \in AuthStates /\ disk \in AuthStates /\ unsaved \in BOOLEAN
  BY DEF Typed, TypeOK
<1>5. Pended(auth) \in AuthStates
  BY <1>3, <1>4, PendedType
<1>6. {auth', disk'} \subseteq AuthStates /\ unsaved' \in BOOLEAN
  BY <1>4, <1>5, EnrollStartEffect
<1>7. QED
  BY <1>1, <1>2, <1>3, <1>6, TypedParts

LEMMA ConfirmedType ==
    ASSUME NEW a \in AuthStates, made + 1 \in 1 .. MaxIssues, NEW step \in 0 .. MaxStep + 1
    PROVE  LET b == Confirmed(a, step)
           IN  /\ b \in AuthStates
               /\ b.secret = a.pending /\ b.step = step /\ b.codes = Issue(made + 1)
               /\ b.pending = 0 /\ b.done = a.done
<1> DEFINE c == [a EXCEPT !.secret = a.pending]
           d == [c EXCEPT !.on = TRUE]
           e == [d EXCEPT !.step = step]
           f == [e EXCEPT !.codes = Issue(made + 1)]
           g == [f EXCEPT !.pending = 0]
<1>1. c \in AuthStates /\ c.secret = a.pending /\ c.done = a.done
  BY DEF AuthStates
<1> HIDE DEF c
<1>2. d \in AuthStates /\ d.secret = a.pending /\ d.done = a.done
  BY <1>1 DEF AuthStates
<1> HIDE DEF d
<1>3. e \in AuthStates /\ e.secret = a.pending /\ e.done = a.done /\ e.step = step
  BY <1>2 DEF AuthStates
<1> HIDE DEF e
<1>4. Issue(made + 1) \in SUBSET UNION {Issue(j) : j \in 1 .. MaxIssues}
  BY IssueType
<1>5. f \in AuthStates /\ f.secret = a.pending /\ f.done = a.done /\ f.step = step /\ f.codes = Issue(made + 1)
  BY <1>3, <1>4 DEF AuthStates
<1> HIDE DEF f
<1>6. /\ g \in AuthStates /\ g.secret = a.pending /\ g.done = a.done /\ g.step = step
      /\ g.codes = Issue(made + 1) /\ g.pending = 0
  BY <1>5, AuthAssumption DEF AuthStates
<1> HIDE DEF g
<1>7. [g EXCEPT !.left = 0] \in AuthStates
  BY <1>6, AuthAssumption DEF AuthStates
<1>8. Confirmed(a, step) = [g EXCEPT !.left = 0]
  BY DEF c, d, e, f, g, Confirmed
<1>9. QED
  BY <1>6, <1>7, <1>8 DEF AuthStates

\* The first code of the pending secret puts it in force with new recovery
\* codes; or the attempt changes nothing but the number of issues made.
LEMMA EnrollConfirmEffect ==
    ASSUME Typed, NEW r \in Reqs, NEW code, NEW saved \in BOOLEAN, EnrollConfirm(r, code, saved)
    PROVE  /\ req[r].pc = "confirm" /\ made < MaxIssues
           /\ UNCHANGED <<sessVars, cur, reset2FA, bounds>>
           /\ made' \in {made, made + 1}
           /\ \/ /\ UNCHANGED <<auth, disk, unsaved, setup, accepted, replayed>>
                 /\ Strike(r) \/ (Answer(r) /\ UNCHANGED lockVars)
              \/ /\ auth.secret = 0 /\ auth.pending # 0 /\ ValidStep(auth.pending, code, 0)
                 /\ auth' = Confirmed(auth, code.n) /\ disk' = auth' /\ unsaved' = FALSE
                 /\ made' = made + 1 /\ setup' = setup + 1
                 /\ Accept(code) /\ Success(req[r].ip) /\ Go(r, "end")
<1>1. unsaved \in BOOLEAN
  BY DEF Typed, TypeOK
<1>2. CASE auth.secret # 0 \/ auth.pending = 0 \/ auth.left = 0
  BY <1>2 DEF EnrollConfirm
<1>3. CASE ~(auth.secret # 0 \/ auth.pending = 0 \/ auth.left = 0) /\ ~ValidStep(auth.pending, code, 0)
  BY <1>3 DEF EnrollConfirm
<1>4. CASE ~(auth.secret # 0 \/ auth.pending = 0 \/ auth.left = 0) /\ ValidStep(auth.pending, code, 0)
  <2>1. /\ UpdateAuthState(Confirmed(auth, code.n), saved)
        /\ made' = made + 1
        /\ IF saved THEN Accept(code) /\ setup' = setup + 1 /\ Success(req[r].ip) /\ Go(r, "end")
           ELSE Answer(r) /\ UNCHANGED <<lockVars, setup, accepted, replayed>>
    BY <1>4 DEF EnrollConfirm
  <2>2. CASE saved
    BY <1>4, <2>1, <2>2 DEF EnrollConfirm, UpdateAuthState
  <2>3. CASE ~saved
    BY <1>1, <1>4, <2>1, <2>3 DEF EnrollConfirm, UpdateAuthState
  <2>4. QED
    BY <2>2, <2>3
<1>5. QED
  BY <1>2, <1>3, <1>4

LEMMA EnrollConfirmTyped ==
    ASSUME Typed, NEW r \in Reqs, NEW code \in Offered, NEW saved \in BOOLEAN, EnrollConfirm(r, code, saved)
    PROVE  Typed'
<1> DEFINE Refused == /\ UNCHANGED <<auth, disk, unsaved, setup, accepted, replayed>>
                      /\ Strike(r) \/ (Answer(r) /\ UNCHANGED lockVars)
           Enrols == /\ auth.secret = 0 /\ auth.pending # 0 /\ ValidStep(auth.pending, code, 0)
                     /\ auth' = Confirmed(auth, code.n) /\ disk' = auth' /\ unsaved' = FALSE
                     /\ made' = made + 1 /\ setup' = setup + 1
                     /\ Accept(code) /\ Success(req[r].ip) /\ Go(r, "end")
<1>1. /\ req[r].pc = "confirm" /\ made < MaxIssues
      /\ UNCHANGED <<sessVars, cur, reset2FA, bounds>>
      /\ made' \in {made, made + 1}
      /\ Refused \/ Enrols
  BY EnrollConfirmEffect
<1>2. /\ SessionsTypeOK' /\ LockoutTypeOK /\ setup \in Nat /\ unsaved \in BOOLEAN
      /\ auth \in AuthStates /\ disk \in AuthStates
      /\ made' \in 0 .. MaxIssues /\ made + 1 \in 1 .. MaxIssues
  BY <1>1, AuthAssumption DEF Typed, TypeOK, sessVars, SessionsTypeOK
<1>3. CASE Refused
  <2>1. /\ LockoutTypeOK' /\ RequestsPlaced'
        /\ req' \in [Reqs -> [pc : ReqPCs, op : Ops, ip : IPs \cup {NoIP}, tok : 0 .. MaxTokens]]
    BY <1>1, <1>2, <1>3, StrikeTyped, AnswerTyped DEF lockVars, LockoutTypeOK
  <2>2. QED
    BY <1>1, <1>2, <1>3, <2>1, TypedParts
<1>4. CASE Enrols
  <2>1. LockoutTypeOK'
    BY <1>2, <1>4, SuccessType
  <2>2. /\ req' \in [Reqs -> [pc : ReqPCs, op : Ops, ip : IPs \cup {NoIP}, tok : 0 .. MaxTokens]]
        /\ RequestsPlaced'
    BY <1>1, <1>4, GoTyped DEF ReqPCs
  <2>3. code.n \in 0 .. MaxStep + 1
    BY <1>4, OfferedType, AuthAssumption DEF ValidStep
  <2>4. auth' \in AuthStates
    BY <1>2, <1>4, <2>3, ConfirmedType
  <2>5. setup' \in Nat
    <3>1. setup' = setup + 1
      BY <1>4
    <3>2. QED
      BY <1>2, <3>1
  <2>6. QED
    BY <1>1, <1>2, <1>4, <2>1, <2>2, <2>4, <2>5, TypedParts
<1>5. QED
  BY <1>1, <1>3, <1>4

\* The end of a request: a new session is born under the setup in force, and
\* after a change of the second factor no other is left.
LEMMA FinishSessions ==
    ASSUME Typed, NEW r \in Reqs, Finish(r)
    PROVE  /\ SessionsTypeOK' /\ LockoutTypeOK'
           /\ \A t \in DOMAIN byHash' :
                 \/ byHash'[t].born = setup
                 \/ /\ t \in DOMAIN byHash /\ byHash'[t].born = byHash[t].born
                    /\ ~Revokes(req[r].op)
<1>1. SessionsTypeOK /\ LockoutTypeOK /\ setup \in Nat
  BY DEF Typed, TypeOK
<1>2. CASE req[r].op = "login"
  <2>1. Success(req[r].ip) /\ Create(setup)
    BY <1>2 DEF Finish
  <2>2. QED
    BY <1>1, <1>2, <2>1, SuccessType, CreateType DEF Revokes
<1>3. CASE req[r].op = "stepUp"
  <2>1. /\ StampStepUp(req[r].tok) /\ issued' = issued
        /\ Success(req[r].ip) \/ UNCHANGED lockVars
    BY <1>3 DEF Finish
  <2>2. LockoutTypeOK'
    BY <1>1, <2>1, SuccessType DEF lockVars, LockoutTypeOK
  <2>3. QED
    BY <1>1, <1>3, <2>1, <2>2, StampStepUpType DEF Revokes, BornKept
<1>4. CASE req[r].op \notin {"login", "stepUp"}
  <2>1. /\ UNCHANGED lockVars
        /\ IF ~Revokes(req[r].op) THEN UNCHANGED sessVars
           ELSE IF req[r].op = "enrollConfirm" THEN Reissue(setup)
           ELSE RevokeAll /\ UNCHANGED issued
    BY <1>4 DEF Finish
  <2>2. LockoutTypeOK'
    BY <1>1, <2>1 DEF lockVars, LockoutTypeOK
  <2>3. CASE ~Revokes(req[r].op)
    BY <1>1, <2>1, <2>2, <2>3 DEF sessVars, SessionsTypeOK
  <2>4. CASE Revokes(req[r].op) /\ req[r].op = "enrollConfirm"
    <3>1. Reissue(setup)
      BY <2>1, <2>4
    <3>2. SessionsTypeOK'
      BY <1>1, <3>1, CreateType
    <3>3. \A t \in DOMAIN byHash' : byHash'[t].born = setup
      BY <3>1 DEF Reissue
    <3>4. QED
      BY <2>2, <3>2, <3>3
  <2>5. CASE Revokes(req[r].op) /\ req[r].op # "enrollConfirm"
    <3>1. byHash' = <<>> /\ issued' = issued
      BY <2>1, <2>5 DEF RevokeAll
    <3>2. QED
      BY <1>1, <2>2, <3>1 DEF SessionsTypeOK
  <2>6. QED
    BY <2>3, <2>4, <2>5
<1>5. QED
  BY <1>2, <1>3, <1>4

LEMMA FinishTyped ==
    ASSUME Typed, NEW r \in Reqs, Finish(r)
    PROVE  Typed'
<1>1. /\ req' \in [Reqs -> [pc : ReqPCs, op : Ops, ip : IPs \cup {NoIP}, tok : 0 .. MaxTokens]]
      /\ RequestsPlaced'
  BY AnswerTyped DEF Finish
<1>2. QED
  BY <1>1, FinishSessions DEF Typed, TypeOK, Finish, Untouched, authVars

LEMMA BearerTyped ==
    ASSUME Typed, NEW r \in Reqs, AdmitBearer(r) \/ Bearer(r)
    PROVE  Typed'
<1>0. LockoutTypeOK
  BY DEF Typed, TypeOK
<1>1. CASE AdmitBearer(r)
  <2>1. PICK ip \in IPs :
          /\ req' = IF AllowBearer(ip)
                    THEN [req EXCEPT ![r] = [pc |-> "bearer", op |-> "bearer", ip |-> ip, tok |-> 0]]
                    ELSE req
          /\ bearerIP' = Forgive(bearerIP, ip)
    BY <1>1 DEF AdmitBearer
  <2>2. Table(perIP) /\ Table(bearerIP')
    BY <1>0, <2>1, LockoutTables, ForgiveTable
  <2>3. /\ req' \in [Reqs -> [pc : ReqPCs, op : Ops, ip : IPs \cup {NoIP}, tok : 0 .. MaxTokens]]
        /\ RequestsPlaced'
    BY <2>1, SessionsAssumption DEF Typed, TypeOK, RequestsPlaced, ReqPCs, Ops
  <2>4. LockoutTypeOK'
    BY <1>0, <1>1, <2>2 DEF AdmitBearer, LockoutTypeOK, Table
  <2>5. QED
    BY <1>1, <2>3, <2>4 DEF AdmitBearer, Typed, TypeOK, Untouched, authVars, sessVars, SessionsTypeOK
<1>2. CASE Bearer(r)
  <2>1. req[r].ip \in IPs
    BY <1>2 DEF Bearer, Typed, RequestsPlaced
  <2>2. LockoutTypeOK'
    BY <1>0, <1>2, <2>1, SuccessType, FailureBearerType DEF Bearer
  <2>3. /\ req' \in [Reqs -> [pc : ReqPCs, op : Ops, ip : IPs \cup {NoIP}, tok : 0 .. MaxTokens]]
        /\ RequestsPlaced'
    BY <1>2, AnswerTyped DEF Bearer
  <2>4. QED
    BY <1>2, <2>2, <2>3 DEF Bearer, Typed, TypeOK, Untouched, authVars, sessVars, SessionsTypeOK
<1>3. QED
  BY <1>1, <1>2

\* The marker of the break-glass wipe follows the flag.
LEMMA BreakGlassType ==
    ASSUME NEW flag \in BOOLEAN, NEW a \in AuthStates
    PROVE  LET b == BreakGlass(flag, a)
           IN  /\ b \in AuthStates
               /\ b.done = flag
               /\ b = Wiped \/ (/\ b.secret = a.secret /\ b.pending = a.pending
                                /\ b.step = a.step /\ b.codes = a.codes)
               /\ flag => b = IF a.done THEN a ELSE Wiped
<1>1. CASE ~flag
  BY <1>1 DEF BreakGlass, AuthStates
<1>2. CASE flag
  BY <1>2, WipedType DEF BreakGlass, AuthStates
<1>3. QED
  BY <1>1, <1>2

LEMMA RestartTyped ==
    ASSUME Typed, NEW flag \in BOOLEAN, NEW saved \in BOOLEAN, Restart(flag, saved)
    PROVE  Typed'
<1>1. LockoutTypeOK'
  BY LockoutAssumption DEF Restart, LockoutTypeOK
<1>2. SessionsTypeOK'
  BY DEF Restart, Typed, TypeOK, SessionsTypeOK
<1>3. /\ req' \in [Reqs -> [pc : ReqPCs, op : Ops, ip : IPs \cup {NoIP}, tok : 0 .. MaxTokens]]
      /\ RequestsPlaced'
  BY SessionsAssumption DEF Restart, IdleReq, ReqPCs, Ops, RequestsPlaced
<1>4. auth' = BreakGlass(flag, disk) /\ disk' = IF saved THEN auth' ELSE disk
  BY DEF Restart
<1>5. auth' \in AuthStates /\ disk' \in AuthStates
  BY <1>4, BreakGlassType DEF Typed, TypeOK
<1>6. setup' = IF auth'.secret # auth.secret THEN setup + 1 ELSE setup
  BY DEF Restart
<1>7. setup' \in Nat
  BY <1>6 DEF Typed, TypeOK
<1>8. unsaved' \in BOOLEAN /\ reset2FA' \in BOOLEAN
  BY DEF Restart
<1>9. cur' = cur /\ made' = made
  BY DEF Restart
<1>10. QED
  BY <1>1, <1>2, <1>3, <1>5, <1>7, <1>8, <1>9 DEF Typed, TypeOK

LEMMA OlderType ==
    ASSUME NEW a \in AuthStates
    PROVE  /\ Older(a) \in AuthStates
           /\ Older(a).secret = a.secret /\ Older(a).pending = a.pending /\ Older(a).step = a.step
           /\ Older(a).codes = a.codes /\ Older(a).done = a.done
  BY AuthAssumption DEF Older, Pass, AuthStates

LEMMA TickTyped ==
    ASSUME Typed, Tick
    PROVE  Typed' /\ BornKept
<1>1. LockoutTypeOK'
  BY LockoutTickType DEF Typed, TypeOK, Tick
<1>2. SessionsTypeOK' /\ BornKept
  BY SessionsTickType DEF Typed, TypeOK, Tick
<1>3. auth' \in AuthStates /\ disk' \in AuthStates
  BY OlderType DEF Typed, TypeOK, Tick
<1>4. cur' \in 1 .. MaxStep
  BY AuthAssumption DEF Typed, TypeOK, Tick, UpTo
<1>5. QED
  BY <1>1, <1>2, <1>3, <1>4 DEF Typed, TypeOK, Tick, RequestsPlaced

LEMMA NextTyped == Typed /\ [Next]_vars => Typed'
<1> SUFFICES ASSUME Typed, [Next]_vars PROVE Typed'
  OBVIOUS
<1>1. ASSUME NEW r \in Reqs, AdmitLogin(r) PROVE Typed'
  <2>1. PICK ip \in IPs : Admit(r, "login", ip, 0)
    BY <1>1, ClientsType DEF AdmitLogin
  <2>2. QED
    BY <1>1, <2>1, AdmitTyped, SessionsAssumption DEF AdmitLogin, Ops
<1>2. ASSUME NEW r \in Reqs, AdmitSession(r) PROVE Typed'
  <2>1. PICK op \in Ops, tok \in DOMAIN byHash, ip \in IPs : Admit(r, op, ip, tok)
    BY <1>2, ClientsType DEF AdmitSession
  <2>2. tok \in 0 .. MaxTokens
    BY SessionsAssumption DEF Typed, TypeOK, SessionsTypeOK
  <2>3. QED
    BY <1>2, <2>1, <2>2, AdmitTyped DEF AdmitSession
<1>3. ASSUME NEW r \in Reqs, BadPassword(r) PROVE Typed'
  <2>1. /\ LockoutTypeOK' /\ RequestsPlaced'
        /\ req' \in [Reqs -> [pc : ReqPCs, op : Ops, ip : IPs \cup {NoIP}, tok : 0 .. MaxTokens]]
    BY <1>3, StrikeTyped DEF BadPassword
  <2>2. QED
    BY <1>3, <2>1 DEF BadPassword, Typed, TypeOK, Untouched, authVars, sessVars, SessionsTypeOK
<1>4. ASSUME NEW r \in Reqs, NEW code \in Offered, NEW saved \in Saves,
             ConsumeFactor(r, code, saved) \/ EnrollConfirm(r, code, saved)
      PROVE  Typed'
  BY <1>4, SavesType, ConsumeFactorTyped, EnrollConfirmTyped
<1>5. ASSUME NEW r \in Reqs, NEW saved \in Saves, EnrollStart(r, saved) PROVE Typed'
  BY <1>5, SavesType, EnrollStartTyped
<1>6. ASSUME NEW t, UseSession(t) \/ Logout(t) PROVE Typed'
  <2>1. SessionsTypeOK'
    BY <1>6, LookupType, RevokeType DEF UseSession, Logout, Typed, TypeOK
  <2>2. QED
    BY <1>6, <2>1 DEF UseSession, Logout, Typed, TypeOK, RequestsPlaced, Untouched, authVars, lockVars, LockoutTypeOK
<1>7. CASE OtherSave
  BY <1>7 DEF OtherSave, Typed, TypeOK, RequestsPlaced, lockVars, LockoutTypeOK, sessVars, SessionsTypeOK
<1>8. CASE UNCHANGED vars
  BY <1>8 DEF vars, Typed, TypeOK, RequestsPlaced, lockVars, LockoutTypeOK, sessVars, SessionsTypeOK, authVars
<1>9. QED
  BY <1>1, <1>2, <1>3, <1>4, <1>5, <1>6, <1>7, <1>8,
     GoodPasswordTyped, FinishTyped, BearerTyped, RestartTyped, TickTyped DEF Next, Step

-----------------------------------------------------------------------------
\* One-time codes. From a stored state, in memory or in the file, no code is
\* accepted that ever was: the codes of its secret are used up to its step,
\* its pending secret has not been used, its recovery codes are fresh.
NotAgain(a, used, n) ==
    /\ a.secret # 0 => a.pending = 0
    /\ a.secret <= n /\ a.pending <= n
    /\ \A c \in a.codes : c.kind = "recovery" /\ c.of <= n /\ c \notin used
    /\ \A c \in used : c.kind = "totp" =>
          /\ c.of # a.pending
          /\ c.of = a.secret => c.n <= a.step

\* What was accepted was issued before.
AcceptedIssued == \A c \in accepted : c.of \in 1 .. made /\ c.n \in Nat

\* The wipe of UPLINK_RESET_2FA is marked as done, in memory at once and in the
\* file unless the boot could not write it; then nothing is enrolled since.
WipeMarked == reset2FA => auth.done /\ (unsaved => auth.secret = 0 /\ ~disk.done)

FactorInv ==
    /\ CodeOnce
    /\ MemoryIsDurable
    /\ AcceptedIssued
    /\ NotAgain(auth, accepted, made) /\ NotAgain(disk, accepted, made)
    /\ WipeMarked

LEMMA InitFactorInv == Init => FactorInv
<1> SUFFICES ASSUME Init PROVE FactorInv
  OBVIOUS
<1>1. accepted = {} /\ replayed = {} /\ disk = auth /\ reset2FA = auth.done /\ unsaved = FALSE
  BY DEF Init
<1>2. auth \in {NoAuth, Wiped, Enrolled} /\ made = (IF auth = Enrolled THEN 2 ELSE 0)
  BY DEF Init
<1>3. NoAuth # Enrolled /\ Wiped # Enrolled
  BY NoAuthType, WipedType, EnrolledType
<1>4. NotAgain(auth, accepted, made)
  <2>1. CASE auth = Enrolled
    BY <1>1, <1>2, <2>1, EnrolledType, IssueFacts DEF NotAgain
  <2>2. CASE auth # Enrolled
    BY <1>1, <1>2, <2>2, NoAuthType, WipedType DEF NotAgain
  <2>3. QED
    BY <2>1, <2>2
<1>5. QED
  BY <1>1, <1>4 DEF FactorInv, CodeOnce, MemoryIsDurable, AcceptedIssued, WipeMarked

\* More issues made takes nothing away.
LEMMA NotAgainGrows ==
    ASSUME Typed, FactorInv, NEW a \in AuthStates, NotAgain(a, accepted, made), accepted' = accepted,
           made' \in {made, made + 1}
    PROVE  NotAgain(a, accepted', made') /\ AcceptedIssued'
<1>1. made \in Nat /\ made' \in Nat /\ made <= made'
  BY AuthAssumption DEF Typed, TypeOK
<1>2. \A c \in a.codes : c.of \in Nat
  BY IssueFacts DEF AuthStates
<1>3. QED
  BY <1>1, <1>2 DEF NotAgain, AcceptedIssued, FactorInv, AuthStates

\* What consuming a code leaves accepts it no more.
LEMMA ConsumeFactorInv ==
    ASSUME Typed, FactorInv, NEW r \in Reqs, NEW code \in Offered, NEW saved \in BOOLEAN,
           ConsumeFactor(r, code, saved)
    PROVE  FactorInv'
<1>0. reset2FA' = reset2FA /\ (req[r].op = "regen" => made < MaxIssues)
  BY DEF ConsumeFactor
<1>1. CASE UNCHANGED <<auth, disk, made, setup, accepted, replayed>> /\ unsaved' = unsaved
  BY <1>0, <1>1 DEF FactorInv, CodeOnce, MemoryIsDurable, AcceptedIssued, NotAgain, WipeMarked
<1>2. CASE /\ \E a \in Consumed(auth, code, req[r].op \notin {"stepUp", "regen"}) :
                auth' = Then(req[r].op, a) /\ disk' = Then(req[r].op, a)
           /\ unsaved' = FALSE /\ Accept(code)
           /\ made' = IF req[r].op = "regen" THEN made + 1 ELSE made
  <2>1. PICK a \in Consumed(auth, code, req[r].op \notin {"stepUp", "regen"}) :
           auth' = Then(req[r].op, a) /\ disk' = Then(req[r].op, a)
    BY <1>2
  <2> DEFINE b == Then(req[r].op, a)
  <2>2. /\ a \in AuthStates
        /\ a.done = auth.done /\ a.secret = auth.secret /\ a.pending = auth.pending
        /\ auth.secret # 0
        /\ \/ /\ code.kind = "recovery" /\ code \in auth.codes
              /\ a.codes = auth.codes \ {code} /\ a.step = auth.step
           \/ /\ code.kind = "totp" /\ code.of = auth.secret
              /\ auth.step # 0 => code.n > auth.step
              /\ a.codes = auth.codes /\ a.step = code.n
    BY <2>1, ConsumedType
  <2>3. /\ auth \in AuthStates /\ made \in 0 .. MaxIssues /\ made' \in {made, made + 1} /\ NotAgain(auth, accepted, made)
    BY <1>2 DEF Typed, TypeOK, FactorInv
  <2>4. /\ b \in AuthStates /\ b.done = a.done
        /\ IF req[r].op \in {"remove", "reset"} THEN b.secret = 0 /\ b.pending = 0 /\ b.codes = {}
           ELSE /\ b.secret = a.secret /\ b.pending = a.pending /\ b.step = a.step
                /\ b.codes = IF req[r].op = "regen" THEN Issue(made + 1) ELSE a.codes
    BY <1>0, <2>2, <2>3, ThenType
  <2> HIDE DEF b
  <2>5. /\ code.of \in 1 .. made /\ code.n \in Nat /\ code.kind \in {"totp", "recovery"}
        /\ code.kind = "totp" => code.n # 0
    BY <2>2, <2>3, OfferedType DEF NotAgain, Codes, AuthStates
  <2>6. code \notin accepted
    BY <2>2, <2>3, <2>5 DEF NotAgain, AuthStates
  <2>7. accepted' = accepted \cup {code} /\ replayed' = {}
    BY <1>2, <2>6 DEF Accept, FactorInv, CodeOnce
  <2>8. AcceptedIssued'
    BY <2>3, <2>5, <2>7 DEF AcceptedIssued, FactorInv
  <2>9. NotAgain(b, accepted', made')
    <3>1. (b.secret # 0 => b.pending = 0) /\ b.secret <= made' /\ b.pending <= made'
      BY <2>2, <2>3, <2>4 DEF NotAgain, AuthStates
    <3>2. \A c \in b.codes : c.kind = "recovery" /\ c.of <= made' /\ c \notin accepted'
      <4>1. CASE req[r].op \in {"remove", "reset"}
        BY <2>4, <4>1
      <4>2. CASE req[r].op = "regen"
        <5>1. b.codes = Issue(made + 1) /\ made' = made + 1
          BY <1>2, <2>4, <4>2
        <5>2. \A c \in b.codes : c.kind = "recovery" /\ c.of = made + 1
          BY <5>1, IssueFacts
        <5>3. \A c \in accepted' : c.of <= made
          BY <2>3, <2>5, <2>7 DEF FactorInv, AcceptedIssued
        <5>4. QED
          BY <2>3, <5>1, <5>2, <5>3
      <4>3. CASE req[r].op \notin {"remove", "reset", "regen"}
        <5>1. b.codes = a.codes /\ a.codes \subseteq auth.codes /\ code \notin a.codes
          BY <2>2, <2>3, <2>4, <4>3 DEF NotAgain
        <5>2. \A c \in auth.codes : c.kind = "recovery" /\ c.of <= made /\ c \notin accepted /\ c.of \in Nat
          BY <2>3, IssueFacts DEF NotAgain, AuthStates
        <5>3. QED
          BY <2>3, <2>7, <5>1, <5>2
      <4>4. QED
        BY <4>1, <4>2, <4>3
    <3>3. ASSUME NEW c \in accepted', c.kind = "totp"
          PROVE  c.of # b.pending /\ (c.of = b.secret => c.n <= b.step)
      <4>1. CASE req[r].op \in {"remove", "reset"}
        BY <2>4, <2>8, <3>3, <4>1 DEF AcceptedIssued
      <4>2. CASE req[r].op \notin {"remove", "reset"}
        <5>1. b.secret = auth.secret /\ b.pending = 0 /\ b.step = a.step
          BY <2>2, <2>3, <2>4, <4>2 DEF NotAgain
        <5>2. c.of \in 1 .. made' /\ c.n \in Nat
          BY <2>8, <3>3 DEF AcceptedIssued
        <5>3. c \in accepted => (c.of = auth.secret => c.n <= auth.step)
          BY <2>3, <3>3 DEF NotAgain
        <5>4. auth.step <= a.step /\ (c = code => c.n = a.step)
          BY <2>2, <2>3, <2>5, <3>3 DEF AuthStates
        <5>5. a.step \in Nat /\ auth.step \in Nat
          BY <2>2, <2>3, AuthAssumption DEF AuthStates
        <5>6. QED
          BY <2>7, <5>1, <5>2, <5>3, <5>4, <5>5
      <4>3. QED
        BY <4>1, <4>2
    <3>4. QED
      BY <3>1, <3>2, <3>3 DEF NotAgain
  <2>10. WipeMarked'
    BY <1>0, <1>2, <2>1, <2>2, <2>4 DEF FactorInv, WipeMarked, b
  <2>11. QED
    BY <1>2, <2>1, <2>7, <2>8, <2>9, <2>10 DEF FactorInv, CodeOnce, MemoryIsDurable, b
<1>3. QED
  BY <1>1, <1>2, ConsumeFactorEffect

LEMMA EnrollStartInv ==
    ASSUME Typed, FactorInv, NEW r \in Reqs, NEW saved \in BOOLEAN, EnrollStart(r, saved)
    PROVE  FactorInv'
<1>1. /\ made \in 0 .. MaxIssues /\ made < MaxIssues /\ made' \in {made, made + 1}
      /\ UNCHANGED <<accepted, replayed, reset2FA>>
      /\ auth \in AuthStates /\ disk \in AuthStates
  BY EnrollStartEffect DEF Typed, TypeOK
<1>2. /\ NotAgain(auth, accepted', made') /\ NotAgain(disk, accepted', made')
      /\ AcceptedIssued'
  BY <1>1, NotAgainGrows DEF FactorInv
<1>3. CASE UNCHANGED <<auth, disk, unsaved>>
  BY <1>1, <1>2, <1>3 DEF FactorInv, CodeOnce, MemoryIsDurable, WipeMarked
<1>4. CASE /\ auth.secret = 0 /\ made' = made + 1 /\ unsaved' = FALSE
           /\ auth' = Pended(auth) /\ disk' = auth'
  <2> DEFINE b == Pended(auth)
  <2>1. made + 1 \in 0 .. MaxIssues
    BY <1>1, AuthAssumption
  <2>2. /\ b.secret = auth.secret /\ b.step = auth.step /\ b.codes = auth.codes
        /\ b.pending = made + 1 /\ b.done = auth.done
    BY <1>1, <2>1, PendedType
  <2> HIDE DEF b
  <2>3. \A c \in accepted : c.of # made + 1
    BY <1>1 DEF FactorInv, AcceptedIssued
  <2>4. NotAgain(b, accepted', made')
    BY <1>1, <1>2, <1>4, <2>1, <2>2, <2>3 DEF NotAgain
  <2>5. QED
    BY <1>1, <1>2, <1>4, <2>2, <2>4 DEF FactorInv, CodeOnce, MemoryIsDurable, WipeMarked, b
<1>5. QED
  BY <1>3, <1>4, EnrollStartEffect

LEMMA EnrollConfirmInv ==
    ASSUME Typed, FactorInv, NEW r \in Reqs, NEW code \in Offered, NEW saved \in BOOLEAN,
           EnrollConfirm(r, code, saved)
    PROVE  FactorInv'
<1>1. /\ made \in 0 .. MaxIssues /\ made < MaxIssues /\ made' \in {made, made + 1}
      /\ reset2FA' = reset2FA
      /\ auth \in AuthStates /\ disk \in AuthStates
  BY EnrollConfirmEffect DEF Typed, TypeOK
<1>2. CASE UNCHANGED <<auth, disk, unsaved, setup, accepted, replayed>>
  <2>1. /\ NotAgain(auth, accepted', made') /\ NotAgain(disk, accepted', made')
        /\ AcceptedIssued'
    BY <1>1, <1>2, NotAgainGrows DEF FactorInv
  <2>2. QED
    BY <1>1, <1>2, <2>1 DEF FactorInv, CodeOnce, MemoryIsDurable, WipeMarked
<1>3. CASE /\ auth.secret = 0 /\ auth.pending # 0 /\ ValidStep(auth.pending, code, 0)
           /\ auth' = Confirmed(auth, code.n) /\ disk' = auth' /\ unsaved' = FALSE
           /\ made' = made + 1
           /\ Accept(code)
  <2> DEFINE b == Confirmed(auth, code.n)
  <2>1. /\ code.kind = "totp" /\ code.of = auth.pending /\ code.n \in 1 .. MaxStep + 1
    BY <1>3, OfferedType DEF ValidStep
  <2>2. made + 1 \in 1 .. MaxIssues /\ code.n \in 0 .. MaxStep + 1
    BY <1>1, <2>1, AuthAssumption
  <2>3. /\ b.secret = auth.pending /\ b.step = code.n /\ b.codes = Issue(made + 1)
        /\ b.pending = 0 /\ b.done = auth.done
    BY <1>1, <2>2, ConfirmedType
  <2> HIDE DEF b
  <2>4. NotAgain(auth, accepted, made) /\ AcceptedIssued
    BY DEF FactorInv
  <2>5. code \notin accepted
    BY <2>1, <2>4 DEF NotAgain
  <2>6. accepted' = accepted \cup {code} /\ replayed' = {}
    BY <1>3, <2>5 DEF Accept, FactorInv, CodeOnce
  <2>7. auth.pending \in 1 .. made
    BY <1>1, <1>3, <2>4 DEF NotAgain, AuthStates
  <2>8. \A c \in accepted' : c.of \in 1 .. made /\ c.n \in Nat
    BY <2>1, <2>4, <2>6, <2>7, AuthAssumption DEF AcceptedIssued
  <2>9. AcceptedIssued'
    BY <1>1, <1>3, <2>8 DEF AcceptedIssued
  <2>10. \A c \in b.codes : c.kind = "recovery" /\ c.of = made + 1
    BY <2>3, IssueFacts
  <2>11. \A c \in accepted' : c.kind = "totp" => c.of # 0 /\ (c.of = auth.pending => c = code)
    BY <2>4, <2>6, <2>8 DEF NotAgain
  <2>12. NotAgain(b, accepted', made')
    <3>1. \A c \in b.codes : c.kind = "recovery" /\ c.of <= made' /\ c \notin accepted'
      BY <1>1, <1>3, <2>8, <2>10
    <3>2. b.secret <= made' /\ b.pending <= made'
      BY <1>1, <1>3, <2>3, <2>7
    <3>3. code.n <= b.step
      BY <2>1, <2>3, AuthAssumption
    <3>4. QED
      BY <2>3, <2>11, <3>1, <3>2, <3>3 DEF NotAgain
  <2>13. QED
    BY <1>1, <1>3, <2>3, <2>6, <2>9, <2>12 DEF FactorInv, CodeOnce, MemoryIsDurable, WipeMarked, b
<1>4. QED
  BY <1>2, <1>3, EnrollConfirmEffect

LEMMA RestartInv ==
    ASSUME Typed, FactorInv, NEW flag \in BOOLEAN, NEW saved \in BOOLEAN, Restart(flag, saved)
    PROVE  /\ FactorInv'
           /\ reset2FA /\ flag => auth'.secret = auth.secret
<1>1. /\ auth' = BreakGlass(flag, disk) /\ disk' = (IF saved THEN auth' ELSE disk)
      /\ unsaved' = (disk' # auth') /\ reset2FA' = flag
      /\ UNCHANGED <<made, accepted, replayed>>
  BY DEF Restart
<1>2. auth \in AuthStates /\ disk \in AuthStates /\ made \in Nat /\ unsaved \in BOOLEAN /\ reset2FA \in BOOLEAN
  BY AuthAssumption DEF Typed, TypeOK
<1>3. /\ auth'.done = flag
      /\ auth' = Wiped \/ (/\ auth'.secret = disk.secret /\ auth'.pending = disk.pending
                           /\ auth'.step = disk.step /\ auth'.codes = disk.codes)
      /\ flag => auth' = IF disk.done THEN disk ELSE Wiped
  BY <1>1, <1>2, BreakGlassType
<1>4. NotAgain(auth', accepted', made')
  <2>1. CASE auth' = Wiped
    BY <1>1, <1>2, <2>1, WipedType DEF NotAgain, FactorInv, AcceptedIssued
  <2>2. CASE /\ auth'.secret = disk.secret /\ auth'.pending = disk.pending
             /\ auth'.step = disk.step /\ auth'.codes = disk.codes
    BY <1>1, <2>2 DEF NotAgain, FactorInv
  <2>3. QED
    BY <1>3, <2>1, <2>2
<1>5. NotAgain(disk', accepted', made')
  BY <1>1, <1>4 DEF FactorInv, NotAgain
<1>6. AcceptedIssued' /\ CodeOnce' /\ MemoryIsDurable'
  BY <1>1 DEF AcceptedIssued, CodeOnce, MemoryIsDurable, FactorInv
<1>7. WipeMarked'
  <2>1. CASE flag /\ unsaved'
    <3>1. disk' = disk /\ disk # auth'
      BY <1>1, <2>1
    <3>2. ~disk.done /\ auth' = Wiped
      BY <1>3, <2>1, <3>1
    <3>3. QED
      BY <3>1, <3>2, WipedType DEF WipeMarked
  <2>2. CASE ~flag
    BY <1>1, <2>2 DEF WipeMarked
  <2>3. CASE flag /\ ~unsaved'
    BY <1>3, <2>3 DEF WipeMarked
  <2>4. QED
    BY <2>1, <2>2, <2>3
<1>8. ASSUME reset2FA, flag PROVE auth'.secret = auth.secret
  <2>1. CASE unsaved
    BY <1>3, <1>8, <2>1, WipedType DEF FactorInv, WipeMarked
  <2>2. CASE ~unsaved
    BY <1>3, <1>8, <2>2 DEF FactorInv, WipeMarked, MemoryIsDurable
  <2>3. QED
    BY <2>1, <2>2
<1>9. QED
  BY <1>4, <1>5, <1>6, <1>7, <1>8 DEF FactorInv

LEMMA TickInv ==
    ASSUME Typed, FactorInv, Tick
    PROVE  FactorInv'
<1>1. /\ auth' = Older(auth) /\ disk' = Older(disk)
      /\ UNCHANGED <<made, accepted, replayed, reset2FA, unsaved>>
  BY DEF Tick
<1>2. \A a \in {auth, disk} :
        /\ Older(a).secret = a.secret /\ Older(a).pending = a.pending /\ Older(a).step = a.step
        /\ Older(a).codes = a.codes /\ Older(a).done = a.done
  BY OlderType DEF Typed, TypeOK
<1>3. NotAgain(auth', accepted', made') /\ NotAgain(disk', accepted', made')
  BY <1>1, <1>2 DEF NotAgain, FactorInv
<1>4. QED
  BY <1>1, <1>2, <1>3 DEF FactorInv, CodeOnce, MemoryIsDurable, AcceptedIssued, WipeMarked

LEMMA NextFactorInv == Typed /\ FactorInv /\ [Next]_vars => FactorInv'
<1> SUFFICES ASSUME Typed, FactorInv, [Next]_vars PROVE FactorInv'
  OBVIOUS
<1>1. CASE UNCHANGED authVars
  BY <1>1 DEF authVars, FactorInv, CodeOnce, MemoryIsDurable, AcceptedIssued, NotAgain, WipeMarked
<1>2. ASSUME NEW r \in Reqs, AdmitLogin(r) \/ AdmitSession(r) \/ AdmitBearer(r) \/ Bearer(r)
                              \/ GoodPassword(r) \/ BadPassword(r) \/ Finish(r)
      PROVE  UNCHANGED authVars
  BY <1>2 DEF AdmitLogin, AdmitSession, AdmitBearer, Bearer, GoodPassword, BadPassword, Finish, Untouched
<1>3. ASSUME NEW t, UseSession(t) \/ Logout(t) PROVE UNCHANGED authVars
  BY <1>3 DEF UseSession, Logout, Untouched
<1>4. ASSUME NEW r \in Reqs, NEW code \in Offered, NEW saved \in Saves,
             ConsumeFactor(r, code, saved) \/ EnrollConfirm(r, code, saved)
      PROVE  FactorInv'
  BY <1>4, SavesType, ConsumeFactorInv, EnrollConfirmInv
<1>5. ASSUME NEW r \in Reqs, NEW saved \in Saves, EnrollStart(r, saved) PROVE FactorInv'
  BY <1>5, SavesType, EnrollStartInv
<1>6. CASE OtherSave
  BY <1>6 DEF OtherSave, FactorInv, CodeOnce, MemoryIsDurable, AcceptedIssued, NotAgain, WipeMarked
<1>7. CASE UNCHANGED vars
  BY <1>1, <1>7 DEF vars
<1>8. QED
  BY <1>1, <1>2, <1>3, <1>4, <1>5, <1>6, <1>7, RestartInv, TickInv DEF Next, Step

\* The second factor is sound in every behaviour: no TOTP step and no recovery
\* code is accepted twice, whatever saves fail and whenever the process is
\* restarted, and what the handlers act on is what a restart would read
\* (consumeFactor, UpdateAuthState, applyBreakGlass).
THEOREM FactorIsSound == Spec => []FactorSound
<1>1. Init => Typed /\ FactorInv
  BY InitTyped, InitFactorInv
<1>2. Typed /\ FactorInv /\ [Next]_vars => (Typed /\ FactorInv)'
  BY NextTyped, NextFactorInv
<1>3. Typed /\ FactorInv => FactorSound
  BY DEF Typed, FactorInv, FactorSound
<1>4. QED
  BY <1>1, <1>2, <1>3, PTL DEF Spec

\* While UPLINK_RESET_2FA stays set, a restart keeps the enrolment in force
\* (applyBreakGlass and its marker).
THEOREM EnrolmentSurvives == Spec => EnrolmentSurvivesBoot
<1> DEFINE Kept == reset2FA /\ (\E saved \in BOOLEAN : Restart(TRUE, saved)) => auth'.secret = auth.secret
<1>1. Init => Typed /\ FactorInv
  BY InitTyped, InitFactorInv
<1>2. Typed /\ FactorInv /\ [Next]_vars => (Typed /\ FactorInv)'
  BY NextTyped, NextFactorInv
<1>3. Typed /\ FactorInv => Kept
  BY RestartInv
<1>4. QED
  BY <1>1, <1>2, <1>3, PTL DEF Spec, EnrolmentSurvivesBoot

-----------------------------------------------------------------------------
\* Sessions end with the second factor they were opened under.

\* A step that keeps the sessions' births, the setup and the requests on their
\* way keeps the property.
LEMMA FollowKept ==
    ASSUME SessionsFollowFactor, BornKept, setup' = setup,
           \A r \in Reqs : req[r].pc = "end" => req'[r].pc = "end" /\ req'[r].op = req[r].op
    PROVE  SessionsFollowFactor'
  BY DEF SessionsFollowFactor, BornKept

LEMMA NextFollow == Typed /\ SessionsFollowFactor /\ [Next]_vars => SessionsFollowFactor'
<1> SUFFICES ASSUME Typed, SessionsFollowFactor, [Next]_vars PROVE SessionsFollowFactor'
  OBVIOUS
<1> DEFINE Others == \A r \in Reqs : req[r].pc = "end" => req'[r].pc = "end" /\ req'[r].op = req[r].op
           Same == byHash' = byHash
<1>0. Same => BornKept
  BY DEF BornKept
<1>1. ASSUME NEW r \in Reqs, AdmitLogin(r) \/ AdmitSession(r) PROVE SessionsFollowFactor'
  <2>1. PICK op \in Ops, ip \in IPs, tok \in 0 .. MaxTokens : Admit(r, op, ip, tok)
    BY <1>1, ClientsType, SessionsAssumption
       DEF AdmitLogin, AdmitSession, Typed, TypeOK, SessionsTypeOK, Ops
  <2>2. BornKept
    BY <1>1, <2>1, AdmitTyped DEF AdmitLogin, AdmitSession
  <2>3. Others
    BY <2>1 DEF Admit, Typed, TypeOK
  <2>4. QED
    BY <1>1, <2>2, <2>3, FollowKept DEF AdmitLogin, AdmitSession, Untouched, authVars
<1>2. ASSUME NEW r \in Reqs, Answer(r) \/ (\E pc \in ReqPCs : Go(r, pc)), req[r].pc \notin {"idle", "end"}
      PROVE  Others
  BY <1>2 DEF Answer, Go, Typed, TypeOK
<1>3. ASSUME NEW r \in Reqs, BadPassword(r) \/ GoodPassword(r) PROVE SessionsFollowFactor'
  <2>1. Answer(r) \/ (\E pc \in ReqPCs : Go(r, pc))
    BY <1>3, GoodPasswordMoves DEF BadPassword, Strike, ReqPCs
  <2>2. Others /\ Same /\ setup' = setup
    BY <1>2, <1>3, <2>1 DEF BadPassword, GoodPassword, sessVars, Untouched, authVars
  <2>3. QED
    BY <1>0, <2>2, FollowKept
<1>4. ASSUME NEW r \in Reqs, AdmitBearer(r) \/ Bearer(r) PROVE SessionsFollowFactor'
  <2>1. Others
    BY <1>2, <1>4 DEF AdmitBearer, Bearer, Typed, TypeOK
  <2>2. Same /\ setup' = setup
    BY <1>4 DEF AdmitBearer, Bearer, sessVars, Untouched, authVars
  <2>3. QED
    BY <1>0, <2>1, <2>2, FollowKept
<1>5. ASSUME NEW r \in Reqs, NEW code \in Offered, NEW saved \in Saves, ConsumeFactor(r, code, saved)
      PROVE  SessionsFollowFactor'
  <2>1. req[r].pc = "consume" /\ Same
    BY <1>5 DEF ConsumeFactor, sessVars
  <2>2. CASE setup' = setup /\ (Strike(r) \/ Answer(r) \/ Go(r, "end"))
    <3>1. Others
      BY <1>2, <2>1, <2>2 DEF Strike, ReqPCs
    <3>2. QED
      BY <1>0, <2>1, <2>2, <3>1, FollowKept
  <2>3. CASE req[r].op \in {"remove", "reset"} /\ Go(r, "end")
    <3>1. req'[r].pc = "end" /\ req'[r].op = req[r].op
      BY <2>3 DEF Go, Typed, TypeOK
    <3>2. QED
      BY <2>3, <3>1 DEF SessionsFollowFactor
  <2>4. QED
    BY <1>5, <2>2, <2>3, SavesType, ConsumeFactorEffect
<1>6. ASSUME NEW r \in Reqs, NEW code \in Offered, NEW saved \in Saves, EnrollConfirm(r, code, saved)
      PROVE  SessionsFollowFactor'
  <2>1. req[r].pc = "confirm" /\ req[r].op = "enrollConfirm" /\ Same
    BY <1>6 DEF EnrollConfirm, sessVars, Typed, RequestsPlaced
  <2>2. CASE setup' = setup /\ (Strike(r) \/ Answer(r))
    <3>1. Others
      BY <1>2, <2>1, <2>2 DEF Strike
    <3>2. QED
      BY <1>0, <2>1, <2>2, <3>1, FollowKept
  <2>3. CASE Go(r, "end")
    <3>1. req'[r].pc = "end" /\ req'[r].op = req[r].op
      BY <2>3 DEF Go, Typed, TypeOK
    <3>2. QED
      BY <2>1, <3>1 DEF SessionsFollowFactor
  <2>4. QED
    BY <1>6, <2>2, <2>3, SavesType, EnrollConfirmEffect
<1>7. ASSUME NEW r \in Reqs, NEW saved \in Saves, EnrollStart(r, saved) PROVE SessionsFollowFactor'
  <2>1. req[r].pc = "pend" /\ Same /\ setup' = setup /\ Answer(r)
    BY <1>7 DEF EnrollStart, sessVars
  <2>2. Others
    BY <1>2, <2>1
  <2>3. QED
    BY <1>0, <2>1, <2>2, FollowKept
<1>8. ASSUME NEW r \in Reqs, Finish(r) PROVE SessionsFollowFactor'
  <2>1. /\ Answer(r) /\ setup' = setup
    BY <1>8 DEF Finish, Untouched, authVars
  <2>2. \A q \in Reqs \ {r} : req'[q] = req[q]
    BY <2>1, AnswerTyped
  <2>3. ASSUME NEW t \in DOMAIN byHash', byHash'[t].born # setup
        PROVE  \E q \in Reqs : req'[q].pc = "end" /\ req'[q].op \in {"enrollConfirm", "remove", "reset"}
    <3>1. t \in DOMAIN byHash /\ byHash[t].born # setup /\ ~Revokes(req[r].op)
      BY <1>8, <2>3, FinishSessions
    <3>2. PICK q \in Reqs : req[q].pc = "end" /\ req[q].op \in {"enrollConfirm", "remove", "reset"}
      BY <3>1 DEF SessionsFollowFactor
    <3>3. q # r
      BY <3>1, <3>2 DEF Revokes
    <3>4. QED
      BY <2>2, <3>2, <3>3
  <2>4. QED
    BY <2>1, <2>3 DEF SessionsFollowFactor
<1>9. ASSUME NEW t, UseSession(t) \/ Logout(t) PROVE SessionsFollowFactor'
  <2>1. BornKept
    BY <1>9, LookupType, RevokeType DEF UseSession, Logout, Typed, TypeOK
  <2>2. req' = req /\ setup' = setup
    BY <1>9 DEF UseSession, Logout, Untouched, authVars
  <2>3. QED
    BY <2>1, <2>2, FollowKept
<1>10. ASSUME NEW flag, NEW saved, Restart(flag, saved) PROVE SessionsFollowFactor'
  BY <1>10 DEF Restart, SessionsFollowFactor
<1>11. CASE Tick
  BY <1>11, TickTyped, FollowKept DEF Tick
<1>12. CASE OtherSave \/ UNCHANGED vars
  BY <1>12 DEF OtherSave, vars, sessVars, authVars, SessionsFollowFactor
<1>13. QED
  BY <1>1, <1>3, <1>4, <1>5, <1>6, <1>7, <1>8, <1>9, <1>10, <1>11, <1>12 DEF Next, Step

\* No session outlives a change of the second factor made after its creation,
\* but for the step between the change and the end of the request that made
\* it (handleTOTPEnrollConfirm, handleTOTPRemove, handleTOTPReset).
THEOREM SessionsFollow == Spec => []SessionsFollowFactor
<1>1. Init => Typed /\ SessionsFollowFactor
  BY InitTyped DEF Init, SessionsInit, SessionsFollowFactor
<1>2. Typed /\ SessionsFollowFactor /\ [Next]_vars => (Typed /\ SessionsFollowFactor)'
  BY NextTyped, NextFollow
<1>3. QED
  BY <1>1, <1>2, PTL DEF Spec

-----------------------------------------------------------------------------
\* The guesses of an address.

GuessPCs == {"check", "consume", "pend", "confirm", "end"}

\* The requests of an address that are past the lockout's check.
Admitted(q, pcs, ip) == {r \in Reqs : q[r].ip = ip /\ q[r].pc \in pcs}

\* What makes the budget inductive: a request that is past the check counts as
\* the guess it may still fail, and an address that may enter again has used
\* up no more than the free guesses and those of the locks it waited out.
InBudget(m, until, q, pcs) ==
    \A ip \in DOMAIN m :
      /\ m[ip].fails + Cardinality(Admitted(q, pcs, ip))
            <= FreeFailures + Cardinality(Reqs) * (1 + m[ip].waits)
      /\ m[ip].lock = 0 /\ until = 0 =>
            m[ip].fails <= FreeFailures + Cardinality(Reqs) * m[ip].waits

BudgetInv ==
    /\ InBudget(perIP, globalUntil, req, GuessPCs)
    /\ InBudget(bearerIP, 0, req, {"bearer"})

LEMMA AdmittedFacts ==
    ASSUME NEW q, NEW pcs, NEW ip
    PROVE  /\ IsFiniteSet(Admitted(q, pcs, ip))
           /\ Cardinality(Admitted(q, pcs, ip)) \in 0 .. Cardinality(Reqs)
           /\ Cardinality(Reqs) \in Nat \ {0}
<1>1. IsFiniteSet(Reqs) /\ Cardinality(Reqs) \in Nat \ {0}
  BY AuthAssumption, FS_CardinalityType, FS_EmptySet
<1>2. Admitted(q, pcs, ip) \in SUBSET Reqs
  BY DEF Admitted
<1>3. QED
  BY <1>1, <1>2, FS_Subset, FS_CardinalityType

LEMMA EntryFacts ==
    ASSUME NEW m, Table(m), NEW ip \in DOMAIN m
    PROVE  /\ ip \in IPs
           /\ m[ip].fails \in 0 .. MaxFails /\ m[ip].waits \in 0 .. MaxFails
           /\ m[ip].lock \in 0 .. MaxLock
           /\ MaxFails \in Nat /\ MaxLock \in Nat /\ FreeFailures \in Nat
  BY LockoutAssumption DEF Table, Entry

LEMMA TimesFacts ==
    ASSUME NEW n \in Nat \ {0}, NEW w \in Nat
    PROVE  n * w \in Nat /\ n * w >= w /\ n * (1 + w) = n * w + n /\ n * (w + 1) = n * w + n
  OBVIOUS

\* Requests go on or end, and entries go: no guess more.
LEMMA BudgetKept ==
    ASSUME NEW m, NEW m2, NEW until, NEW q, NEW q2, NEW pcs,
           Table(m), InBudget(m, until, q, pcs),
           DOMAIN m2 \subseteq DOMAIN m, \A k \in DOMAIN m2 : m2[k] = m[k],
           \A k \in IPs : Admitted(q2, pcs, k) \subseteq Admitted(q, pcs, k)
    PROVE  InBudget(m2, until, q2, pcs)
<1> SUFFICES ASSUME NEW ip \in DOMAIN m2
             PROVE  /\ m2[ip].fails + Cardinality(Admitted(q2, pcs, ip))
                          <= FreeFailures + Cardinality(Reqs) * (1 + m2[ip].waits)
                    /\ m2[ip].lock = 0 /\ until = 0 =>
                          m2[ip].fails <= FreeFailures + Cardinality(Reqs) * m2[ip].waits
  BY DEF InBudget
<1>1. ip \in DOMAIN m /\ m2[ip] = m[ip] /\ ip \in IPs /\ m[ip].fails \in Nat
  BY DEF Table, Entry
<1> DEFINE A == Cardinality(Admitted(q, pcs, ip))
           B == Cardinality(Admitted(q2, pcs, ip))
           b == FreeFailures + Cardinality(Reqs) * (1 + m[ip].waits)
<1>2. B <= A /\ A \in Nat /\ B \in Nat
  BY <1>1, AdmittedFacts, FS_Subset
<1>3. b \in Int
  BY <1>1, EntryFacts, AdmittedFacts
<1>4. m[ip].fails + A <= b
  BY <1>1 DEF InBudget
<1> HIDE DEF A, B, b
<1>5. m[ip].fails + B <= b
  BY <1>1, <1>2, <1>3, <1>4
<1>6. QED
  BY <1>1, <1>5 DEF InBudget, B, b

\* A request is admitted from an address that is not locked.
LEMMA BudgetAdmit ==
    ASSUME NEW m, NEW m2, NEW until, NEW q, NEW q2, NEW pcs, NEW ip0 \in IPs,
           Table(m), InBudget(m, until, q, pcs),
           DOMAIN m2 \subseteq DOMAIN m, \A k \in DOMAIN m2 : m2[k] = m[k],
           until = 0, ~Locked(m, ip0),
           \A k \in IPs \ {ip0} : Admitted(q2, pcs, k) \subseteq Admitted(q, pcs, k)
    PROVE  InBudget(m2, until, q2, pcs)
<1> SUFFICES ASSUME NEW ip \in DOMAIN m2
             PROVE  /\ m2[ip].fails + Cardinality(Admitted(q2, pcs, ip))
                          <= FreeFailures + Cardinality(Reqs) * (1 + m2[ip].waits)
                    /\ m2[ip].lock = 0 /\ until = 0 =>
                          m2[ip].fails <= FreeFailures + Cardinality(Reqs) * m2[ip].waits
  BY DEF InBudget
<1>1. ip \in DOMAIN m /\ m2[ip] = m[ip] /\ ip \in IPs
  BY DEF Table
<1>2. CASE ip # ip0
  <2> DEFINE A == Cardinality(Admitted(q, pcs, ip))
             B == Cardinality(Admitted(q2, pcs, ip))
             b == FreeFailures + Cardinality(Reqs) * (1 + m[ip].waits)
  <2>1. B <= A /\ A \in Nat /\ B \in Nat
    BY <1>1, <1>2, AdmittedFacts, FS_Subset
  <2>2. b \in Int /\ m[ip].fails \in Nat
    BY <1>1, EntryFacts, AdmittedFacts
  <2>3. m[ip].fails + A <= b
    BY <1>1 DEF InBudget
  <2> HIDE DEF A, B, b
  <2>4. m[ip].fails + B <= b
    BY <2>1, <2>2, <2>3
  <2>5. QED
    BY <1>1, <2>4 DEF InBudget, B, b
<1>3. CASE ip = ip0
  <2> DEFINE N == Cardinality(Reqs)
             B == Cardinality(Admitted(q2, pcs, ip))
             w == m[ip].waits
             f == m[ip].fails
  <2>1. m[ip].lock = 0
    BY <1>1, <1>3, EntryFacts DEF Locked
  <2>2. f <= FreeFailures + N * w
    BY <1>1, <2>1 DEF InBudget
  <2>3. f \in Nat /\ w \in Nat /\ FreeFailures \in Nat /\ N \in Nat \ {0} /\ B \in 0 .. N
    BY <1>1, EntryFacts, AdmittedFacts
  <2> HIDE DEF N, B, w, f
  <2>4. N * w \in Nat /\ N * (1 + w) = N * w + N
    BY <2>3, TimesFacts
  <2>5. f + B <= FreeFailures + N * (1 + w)
    BY <2>2, <2>3, <2>4
  <2>6. QED
    BY <1>1, <2>2, <2>5 DEF N, B, w, f
<1>4. QED
  BY <1>2, <1>3

\* A request that fails was counted; past the free guesses it locks the
\* address, or the overall lock has begun.
LEMMA BudgetStrike ==
    ASSUME NEW m, NEW lock \in BOOLEAN, NEW ip0 \in IPs, NEW m2 \in Struck(m, ip0, lock),
           NEW until, NEW until2, NEW q, NEW q2, NEW pcs, NEW r \in Reqs,
           Table(m), InBudget(m, until, q, pcs),
           IF lock THEN until2 = until ELSE until2 # 0,
           r \in Admitted(q, pcs, ip0), r \notin Admitted(q2, pcs, ip0),
           \A k \in IPs : Admitted(q2, pcs, k) \subseteq Admitted(q, pcs, k)
    PROVE  InBudget(m2, until2, q2, pcs)
<1> SUFFICES ASSUME NEW ip \in DOMAIN m2
             PROVE  /\ m2[ip].fails + Cardinality(Admitted(q2, pcs, ip))
                          <= FreeFailures + Cardinality(Reqs) * (1 + m2[ip].waits)
                    /\ m2[ip].lock = 0 /\ until2 = 0 =>
                          m2[ip].fails <= FreeFailures + Cardinality(Reqs) * m2[ip].waits
  BY DEF InBudget
<1>0. /\ Table(m2) /\ ip0 \in DOMAIN m2
      /\ \E e \in Entry :
            /\ e = NewEntry \/ (ip0 \in DOMAIN m /\ e = m[ip0])
            /\ m2[ip0].fails = UpTo(e.fails + 1, MaxFails)
            /\ m2[ip0].waits = e.waits
            /\ lock /\ m2[ip0].fails > FreeFailures => m2[ip0].lock > 0
      /\ \A k \in DOMAIN m2 \ {ip0} : k \in DOMAIN m /\ m2[k] = m[k]
  BY StruckTable
<1> DEFINE N == Cardinality(Reqs)
           A == Cardinality(Admitted(q, pcs, ip))
           B == Cardinality(Admitted(q2, pcs, ip))
<1>1. CASE ip # ip0
  <2> DEFINE b == FreeFailures + N * (1 + m[ip].waits)
  <2>1. ip \in DOMAIN m /\ m2[ip] = m[ip] /\ ip \in IPs
    BY <1>0, <1>1 DEF Table
  <2>2. B <= A /\ A \in Nat /\ B \in Nat
    BY <2>1, AdmittedFacts, FS_Subset
  <2>3. b \in Int /\ m[ip].fails \in Nat
    BY <2>1, EntryFacts, AdmittedFacts
  <2>4. m[ip].fails + A <= b
    BY <2>1 DEF InBudget
  <2> HIDE DEF A, B, b
  <2>5. m[ip].fails + B <= b
    BY <2>2, <2>3, <2>4
  <2>6. QED
    BY <2>1, <2>5 DEF InBudget, B, b
<1>2. CASE ip = ip0
  <2>1. PICK e \in Entry :
            /\ e = NewEntry \/ (ip0 \in DOMAIN m /\ e = m[ip0])
            /\ m2[ip0].fails = UpTo(e.fails + 1, MaxFails)
            /\ m2[ip0].waits = e.waits
            /\ lock /\ m2[ip0].fails > FreeFailures => m2[ip0].lock > 0
    BY <1>0
  <2>2. /\ e.fails \in Nat /\ e.waits \in Nat /\ MaxFails \in Nat /\ FreeFailures \in Nat
        /\ N \in Nat \ {0} /\ A \in 0 .. N /\ B \in Nat
        /\ m2[ip].fails \in Nat /\ m2[ip].lock \in Nat
    BY <1>0, <1>2, AdmittedFacts, EntryFacts, LockoutAssumption DEF Entry
  <2>3. B <= A - 1
    <3>1. Admitted(q2, pcs, ip) \in SUBSET (Admitted(q, pcs, ip) \ {r})
      BY <1>2
    <3>2. /\ IsFiniteSet(Admitted(q, pcs, ip) \ {r})
          /\ Cardinality(Admitted(q, pcs, ip) \ {r}) = A - 1
      BY <1>2, AdmittedFacts, FS_RemoveElement
    <3>3. QED
      BY <3>1, <3>2, FS_Subset
  <2>4. e.fails + A <= FreeFailures + N * (1 + e.waits)
    <3>1. CASE e = NewEntry
      BY <2>2, <3>1 DEF NewEntry
    <3>2. CASE ip0 \in DOMAIN m /\ e = m[ip0]
      BY <1>2, <3>2 DEF InBudget
    <3>3. QED
      BY <2>1, <3>1, <3>2
  <2>5. m2[ip].fails <= e.fails + 1
    BY <1>2, <2>1, <2>2 DEF UpTo
  <2> HIDE DEF N, A, B
  <2>6. N * e.waits \in Nat /\ N * (1 + e.waits) = N * e.waits + N
    BY <2>2, TimesFacts
  <2>7. m2[ip].fails + B <= FreeFailures + N * (1 + e.waits)
    BY <2>2, <2>3, <2>4, <2>5, <2>6
  <2>8. ASSUME m2[ip].lock = 0, until2 = 0
        PROVE  m2[ip].fails <= FreeFailures + N * e.waits
    <3>1. lock /\ ~(m2[ip].fails > FreeFailures)
      BY <1>2, <2>1, <2>8
    <3>2. QED
      BY <2>2, <2>6, <3>1
  <2>9. QED
    BY <1>2, <2>1, <2>7, <2>8 DEF N, B
<1>3. QED
  BY <1>1, <1>2

\* A lock that ends is a lock waited out.
LEMMA BudgetTick ==
    ASSUME NEW m, Table(m), NEW until \in Nat, NEW q, NEW pcs, InBudget(m, until, q, pcs)
    PROVE  InBudget(Aged(m, until = 1), Pass(until), q, pcs)
<1> DEFINE t == Aged(m, until = 1)
<1>0. /\ DOMAIN t = DOMAIN m
      /\ \A k \in DOMAIN m :
            /\ t[k].fails = m[k].fails
            /\ t[k].lock = Pass(m[k].lock)
            /\ t[k].waits = UpTo(m[k].waits + (IF until = 1 \/ m[k].lock = 1 THEN 1 ELSE 0), MaxFails)
  BY AgedTable
<1> HIDE DEF t
<1> SUFFICES ASSUME NEW ip \in DOMAIN m
             PROVE  /\ t[ip].fails + Cardinality(Admitted(q, pcs, ip))
                          <= FreeFailures + Cardinality(Reqs) * (1 + t[ip].waits)
                    /\ t[ip].lock = 0 /\ Pass(until) = 0 =>
                          t[ip].fails <= FreeFailures + Cardinality(Reqs) * t[ip].waits
  BY <1>0 DEF InBudget, t
<1> DEFINE N == Cardinality(Reqs)
           A == Cardinality(Admitted(q, pcs, ip))
           w == m[ip].waits
           v == t[ip].waits
           f == m[ip].fails
           l == m[ip].lock
<1>1. /\ f \in 0 .. MaxFails /\ w \in 0 .. MaxFails /\ l \in Nat /\ A \in 0 .. N /\ N \in Nat \ {0}
      /\ MaxFails \in Nat /\ FreeFailures \in Nat
  BY EntryFacts, AdmittedFacts
<1>2. f + A <= FreeFailures + N * (1 + w)
  BY DEF InBudget
<1>3. l = 0 /\ until = 0 => f <= FreeFailures + N * w
  BY DEF InBudget
<1>4. t[ip].fails = f /\ t[ip].lock = Pass(l) /\ v = UpTo(w + (IF until = 1 \/ l = 1 THEN 1 ELSE 0), MaxFails)
  BY <1>0
<1> HIDE DEF N, A, w, v, f, l
<1>5. v \in Nat /\ v \in {w, w + 1} /\ (v = w + 1 \/ v = MaxFails \/ (until # 1 /\ l # 1))
  BY <1>1, <1>4 DEF UpTo
<1>6. N * w \in Nat /\ N * (1 + w) = N * w + N /\ N * (w + 1) = N * w + N
      /\ N * v \in Nat /\ N * v >= v /\ N * (1 + v) = N * v + N
  BY <1>1, <1>5, TimesFacts
<1>7. N * v \in {N * w, N * w + N}
  BY <1>5, <1>6
<1>8. f + A <= FreeFailures + N * (1 + v)
  BY <1>1, <1>2, <1>6, <1>7
<1>9. ASSUME Pass(l) = 0, Pass(until) = 0
      PROVE  f <= FreeFailures + N * v
  <2>1. l \in {0, 1} /\ until \in {0, 1}
    BY <1>1, <1>9 DEF Pass
  <2>2. CASE l = 0 /\ until = 0
    BY <1>1, <1>3, <1>6, <1>7, <2>2
  <2>3. CASE v = w + 1
    <3>1. N * v = N * w + N
      BY <1>6, <2>3
    <3>2. QED
      BY <1>1, <1>2, <1>6, <3>1
  <2>4. CASE v = MaxFails
    BY <1>1, <1>6, <2>4
  <2>5. QED
    BY <1>5, <2>1, <2>2, <2>3, <2>4
<1>10. QED
  BY <1>4, <1>8, <1>9 DEF N, A, v

\* Requests that move on within the guesses, are answered, or stay.
LEMMA AdmittedMoves ==
    ASSUME Typed, NEW r \in Reqs, req[r].pc \in GuessPCs,
           Answer(r) \/ (\E pc \in GuessPCs : Go(r, pc))
    PROVE  \A k \in IPs : /\ Admitted(req', GuessPCs, k) \subseteq Admitted(req, GuessPCs, k)
                          /\ Admitted(req', {"bearer"}, k) \subseteq Admitted(req, {"bearer"}, k)
  BY DEF Typed, TypeOK, Answer, Go, Admitted, IdleReq, GuessPCs

LEMMA BudgetStrikes ==
    ASSUME Typed, BudgetInv, NEW r \in Reqs, req[r].pc \in GuessPCs, Strike(r)
    PROVE  BudgetInv'
<1>1. Table(perIP) /\ Table(bearerIP) /\ req[r].ip \in IPs
  BY LockoutTables DEF Typed, TypeOK, RequestsPlaced, GuessPCs
<1>2. \A k \in IPs : /\ Admitted(req', GuessPCs, k) \subseteq Admitted(req, GuessPCs, k)
                     /\ Admitted(req', {"bearer"}, k) \subseteq Admitted(req, {"bearer"}, k)
  BY AdmittedMoves DEF Strike
<1>3. r \in Admitted(req, GuessPCs, req[r].ip) /\ r \notin Admitted(req', GuessPCs, req[r].ip)
  BY DEF Strike, Answer, Admitted, IdleReq, GuessPCs, Typed, TypeOK
<1> DEFINE trips == SumFunction(recent) + 1 > GlobalMax
           backoff == IF tripped = Clean THEN 1 ELSE globalBackoff
<1>4. /\ perIP' \in Struck(perIP, req[r].ip, ~trips)
      /\ globalUntil' = IF trips THEN backoff ELSE globalUntil
      /\ bearerIP' = bearerIP
  BY DEF Strike, Failure
<1>5. backoff # 0
  BY LockoutAssumption DEF Typed, TypeOK, LockoutTypeOK
<1> HIDE DEF trips, backoff
<1>6. IF ~trips THEN globalUntil' = globalUntil ELSE globalUntil' # 0
  BY <1>4, <1>5
<1>7. InBudget(perIP', globalUntil', req', GuessPCs)
  <2> DEFINE lock == ~trips
  <2>1. lock \in BOOLEAN /\ perIP' \in Struck(perIP, req[r].ip, lock)
        /\ IF lock THEN globalUntil' = globalUntil ELSE globalUntil' # 0
    BY <1>4, <1>6
  <2> HIDE DEF lock
  <2>2. InBudget(perIP, globalUntil, req, GuessPCs)
    BY DEF BudgetInv
  <2>3. QED
    BY <1>1, <1>2, <1>3, <2>1, <2>2, BudgetStrike
<1>8. InBudget(bearerIP', 0, req', {"bearer"})
  BY <1>1, <1>2, <1>4, BudgetKept DEF BudgetInv
<1>9. QED
  BY <1>7, <1>8 DEF BudgetInv

\* A request that does not fail adds no guess; the right credentials may take
\* the entry of its address out.
LEMMA BudgetMoves ==
    ASSUME Typed, BudgetInv, NEW r \in Reqs, req[r].pc \in GuessPCs,
           Answer(r) \/ (\E pc \in GuessPCs : Go(r, pc)),
           UNCHANGED lockVars \/ Success(req[r].ip)
    PROVE  BudgetInv'
<1>1. Table(perIP) /\ Table(bearerIP)
  BY LockoutTables DEF Typed, TypeOK
<1>2. \A k \in IPs : /\ Admitted(req', GuessPCs, k) \subseteq Admitted(req, GuessPCs, k)
                     /\ Admitted(req', {"bearer"}, k) \subseteq Admitted(req, {"bearer"}, k)
  BY AdmittedMoves
<1>3. /\ DOMAIN perIP' \subseteq DOMAIN perIP /\ \A k \in DOMAIN perIP' : perIP'[k] = perIP[k]
      /\ bearerIP' = bearerIP /\ globalUntil' = globalUntil
  <2>1. CASE UNCHANGED lockVars
    BY <2>1 DEF lockVars
  <2>2. CASE Success(req[r].ip)
    BY <2>2, SuccessTable DEF Success
  <2>3. QED
    BY <2>1, <2>2
<1>4. InBudget(perIP', globalUntil, req', GuessPCs)
  BY <1>1, <1>2, <1>3, BudgetKept DEF BudgetInv
<1>5. InBudget(bearerIP', 0, req', {"bearer"})
  BY <1>1, <1>2, <1>3, BudgetKept DEF BudgetInv
<1>6. QED
  BY <1>3, <1>4, <1>5 DEF BudgetInv

LEMMA BudgetAdmits ==
    ASSUME Typed, BudgetInv, NEW r \in Reqs, NEW op, NEW ip \in IPs, NEW tok, Admit(r, op, ip, tok)
    PROVE  BudgetInv'
<1>1. Table(perIP) /\ Table(bearerIP)
  BY LockoutTables DEF Typed, TypeOK
<1>2. /\ DOMAIN perIP' \subseteq DOMAIN perIP /\ \A k \in DOMAIN perIP' : perIP'[k] = perIP[k]
      /\ bearerIP' = bearerIP /\ globalUntil' = globalUntil
  BY <1>1, ForgiveTable DEF Admit
<1>3. /\ \A k \in IPs : Admitted(req', {"bearer"}, k) \subseteq Admitted(req, {"bearer"}, k)
      /\ \A k \in IPs \ {ip} : Admitted(req', GuessPCs, k) \subseteq Admitted(req, GuessPCs, k)
  BY DEF Admit, Admitted, Typed, TypeOK
<1>4. InBudget(bearerIP', 0, req', {"bearer"})
  BY <1>1, <1>2, <1>3, BudgetKept DEF BudgetInv
<1>5. InBudget(perIP', globalUntil, req', GuessPCs)
  <2>1. CASE Allow(ip)
    BY <1>1, <1>2, <1>3, <2>1, BudgetAdmit DEF BudgetInv, Allow
  <2>2. CASE ~Allow(ip)
    <3>1. req' = req
      BY <2>2 DEF Admit
    <3>2. QED
      BY <1>1, <1>2, <3>1, BudgetKept DEF BudgetInv
  <2>3. QED
    BY <2>1, <2>2
<1>6. QED
  BY <1>2, <1>4, <1>5 DEF BudgetInv

LEMMA BudgetBearers ==
    ASSUME Typed, BudgetInv, NEW r \in Reqs, AdmitBearer(r) \/ Bearer(r)
    PROVE  BudgetInv'
<1>1. Table(perIP) /\ Table(bearerIP)
  BY LockoutTables DEF Typed, TypeOK
<1>2. CASE AdmitBearer(r)
  <2>1. PICK ip \in IPs :
          /\ req' = IF AllowBearer(ip)
                    THEN [req EXCEPT ![r] = [pc |-> "bearer", op |-> "bearer", ip |-> ip, tok |-> 0]]
                    ELSE req
          /\ bearerIP' = Forgive(bearerIP, ip)
    BY <1>2 DEF AdmitBearer
  <2>2. /\ DOMAIN bearerIP' \subseteq DOMAIN bearerIP /\ \A k \in DOMAIN bearerIP' : bearerIP'[k] = bearerIP[k]
        /\ perIP' = perIP /\ globalUntil' = globalUntil /\ req[r].pc = "idle"
    BY <1>1, <1>2, <2>1, ForgiveTable DEF AdmitBearer
  <2>3. /\ \A k \in IPs : Admitted(req', GuessPCs, k) \subseteq Admitted(req, GuessPCs, k)
        /\ \A k \in IPs \ {ip} : Admitted(req', {"bearer"}, k) \subseteq Admitted(req, {"bearer"}, k)
    BY <2>1, <2>2 DEF Admitted, Typed, TypeOK, GuessPCs
  <2>4. InBudget(perIP', globalUntil', req', GuessPCs)
    BY <1>1, <2>2, <2>3, BudgetKept DEF BudgetInv
  <2>5. InBudget(bearerIP', 0, req', {"bearer"})
    <3>1. CASE AllowBearer(ip)
      BY <1>1, <2>2, <2>3, <3>1, BudgetAdmit DEF BudgetInv, AllowBearer
    <3>2. CASE ~AllowBearer(ip)
      <4>1. req' = req
        BY <2>1, <3>2
      <4>2. QED
        BY <1>1, <2>2, <4>1, BudgetKept DEF BudgetInv
    <3>3. QED
      BY <3>1, <3>2
  <2>6. QED
    BY <2>4, <2>5 DEF BudgetInv
<1>3. CASE Bearer(r)
  <2>1. req[r].pc = "bearer" /\ req[r].ip \in IPs /\ Answer(r)
    BY <1>3 DEF Bearer, Typed, RequestsPlaced
  <2>2. /\ \A k \in IPs : /\ Admitted(req', GuessPCs, k) \subseteq Admitted(req, GuessPCs, k)
                          /\ Admitted(req', {"bearer"}, k) \subseteq Admitted(req, {"bearer"}, k)
        /\ r \in Admitted(req, {"bearer"}, req[r].ip) /\ r \notin Admitted(req', {"bearer"}, req[r].ip)
    BY <2>1 DEF Typed, TypeOK, Answer, Admitted, IdleReq, GuessPCs
  <2>3. perIP' = perIP /\ globalUntil' = globalUntil
    BY <1>3 DEF Bearer, SuccessBearer, FailureBearer
  <2>4. InBudget(perIP', globalUntil', req', GuessPCs)
    BY <1>1, <2>2, <2>3, BudgetKept DEF BudgetInv
  <2>5. InBudget(bearerIP', 0, req', {"bearer"})
    <3>1. CASE SuccessBearer(req[r].ip)
      <4>1. DOMAIN bearerIP' \subseteq DOMAIN bearerIP /\ \A k \in DOMAIN bearerIP' : bearerIP'[k] = bearerIP[k]
        BY <3>1, SuccessTable
      <4>2. QED
        BY <1>1, <2>2, <4>1, BudgetKept DEF BudgetInv
    <3>2. CASE FailureBearer(req[r].ip)
      <4>1. bearerIP' \in Struck(bearerIP, req[r].ip, TRUE)
        BY <3>2 DEF FailureBearer
      <4>2. QED
        BY <1>1, <2>1, <2>2, <4>1, BudgetStrike DEF BudgetInv
    <3>3. QED
      BY <1>3, <3>1, <3>2 DEF Bearer
  <2>6. QED
    BY <2>4, <2>5 DEF BudgetInv
<1>4. QED
  BY <1>2, <1>3

LEMMA NextBudget == Typed /\ BudgetInv /\ [Next]_vars => BudgetInv'
<1> SUFFICES ASSUME Typed, BudgetInv, [Next]_vars PROVE BudgetInv'
  OBVIOUS
<1>1. ASSUME NEW r \in Reqs, AdmitLogin(r) \/ AdmitSession(r) PROVE BudgetInv'
  <2>1. \E op, tok : \E ip \in IPs : Admit(r, op, ip, tok)
    BY <1>1, ClientsType DEF AdmitLogin, AdmitSession
  <2>2. QED
    BY <2>1, BudgetAdmits
<1>2. ASSUME NEW r \in Reqs, BadPassword(r) PROVE BudgetInv'
  BY <1>2, BudgetStrikes DEF BadPassword, GuessPCs
<1>3. ASSUME NEW r \in Reqs, GoodPassword(r) PROVE BudgetInv'
  <2>1. req[r].pc \in GuessPCs /\ UNCHANGED lockVars
    BY <1>3 DEF GoodPassword, GuessPCs
  <2>2. Answer(r) \/ (\E pc \in GuessPCs : Go(r, pc))
    BY <1>3, GoodPasswordMoves DEF GuessPCs
  <2>3. QED
    BY <2>1, <2>2, BudgetMoves
<1>4. ASSUME NEW r \in Reqs, NEW code \in Offered, NEW saved \in Saves, ConsumeFactor(r, code, saved)
      PROVE  BudgetInv'
  <2>1. req[r].pc \in GuessPCs
    BY <1>4 DEF ConsumeFactor, GuessPCs
  <2>2. Strike(r) \/ (Answer(r) /\ UNCHANGED lockVars) \/ (Go(r, "end") /\ (Success(req[r].ip) \/ UNCHANGED lockVars))
    BY <1>4, SavesType, ConsumeFactorEffect
  <2>3. "end" \in GuessPCs
    BY DEF GuessPCs
  <2>4. QED
    BY <2>1, <2>2, <2>3, BudgetStrikes, BudgetMoves
<1>5. ASSUME NEW r \in Reqs, NEW code \in Offered, NEW saved \in Saves, EnrollConfirm(r, code, saved)
      PROVE  BudgetInv'
  <2>1. req[r].pc \in GuessPCs
    BY <1>5 DEF EnrollConfirm, GuessPCs
  <2>2. Strike(r) \/ (Answer(r) /\ UNCHANGED lockVars) \/ (Go(r, "end") /\ Success(req[r].ip))
    BY <1>5, SavesType, EnrollConfirmEffect
  <2>3. "end" \in GuessPCs
    BY DEF GuessPCs
  <2>4. QED
    BY <2>1, <2>2, <2>3, BudgetStrikes, BudgetMoves
<1>6. ASSUME NEW r \in Reqs, NEW saved \in Saves, EnrollStart(r, saved) PROVE BudgetInv'
  BY <1>6, BudgetMoves DEF EnrollStart, GuessPCs
<1>7. ASSUME NEW r \in Reqs, Finish(r) PROVE BudgetInv'
  <2>1. req[r].pc \in GuessPCs /\ Answer(r) /\ (UNCHANGED lockVars \/ Success(req[r].ip))
    BY <1>7 DEF Finish, GuessPCs
  <2>2. QED
    BY <2>1, BudgetMoves
<1>8. ASSUME NEW flag, NEW saved, Restart(flag, saved) PROVE BudgetInv'
  BY <1>8 DEF Restart, BudgetInv, InBudget
<1>9. CASE Tick
  <2>1. /\ perIP' = Aged(perIP, globalUntil = 1) /\ bearerIP' = Aged(bearerIP, FALSE)
        /\ globalUntil' = Pass(globalUntil) /\ req' = req
    BY <1>9 DEF Tick, LockoutTick
  <2>2. Table(perIP) /\ Table(bearerIP) /\ globalUntil \in Nat
    BY LockoutTables, LockoutAssumption DEF Typed, TypeOK, LockoutTypeOK
  <2>3. InBudget(perIP', globalUntil', req', GuessPCs)
    BY <2>1, <2>2, BudgetTick DEF BudgetInv
  <2>4. InBudget(Aged(bearerIP, 0 = 1), Pass(0), req, {"bearer"})
    BY <2>2, BudgetTick DEF BudgetInv
  <2>5. (0 = 1) = FALSE /\ Pass(0) = 0
    BY DEF Pass
  <2>6. InBudget(bearerIP', 0, req', {"bearer"})
    BY <2>1, <2>4, <2>5
  <2>7. QED
    BY <2>3, <2>6 DEF BudgetInv
<1>10. ASSUME NEW t, UseSession(t) \/ Logout(t) PROVE BudgetInv'
  BY <1>10 DEF UseSession, Logout, lockVars, BudgetInv
<1>11. CASE OtherSave \/ UNCHANGED vars
  BY <1>11 DEF OtherSave, vars, lockVars, BudgetInv
<1>12. QED
  BY <1>1, <1>2, <1>3, <1>4, <1>5, <1>6, <1>7, <1>8, <1>9, <1>10, <1>11, BudgetBearers DEF Next, Step

\* An address gets no more wrong guesses than the free ones and, for every lock
\* it waited out, one for each request that can run at a time, on the password
\* and on the master-key path (Allow, Failure, AllowBearer, FailureBearer).
THEOREM GuessesAreBounded == Spec => []GuessBudget
<1>1. Init => Typed /\ BudgetInv
  BY InitTyped DEF Init, LockoutInit, BudgetInv, InBudget
<1>2. Typed /\ BudgetInv /\ [Next]_vars => (Typed /\ BudgetInv)'
  BY NextTyped, NextBudget
<1>3. Typed /\ BudgetInv => GuessBudget
  <2> SUFFICES ASSUME Typed, BudgetInv, NEW m \in {perIP, bearerIP}, NEW ip \in DOMAIN m
               PROVE  m[ip].fails <= FreeFailures + Cardinality(Reqs) * (1 + m[ip].waits)
    BY DEF GuessBudget
  <2>1. Table(m)
    BY LockoutTables DEF Typed, TypeOK
  <2>2. PICK pcs : m[ip].fails + Cardinality(Admitted(req, pcs, ip))
                     <= FreeFailures + Cardinality(Reqs) * (1 + m[ip].waits)
    BY DEF BudgetInv, InBudget
  <2>3. Cardinality(Admitted(req, pcs, ip)) \in Nat /\ Cardinality(Reqs) \in Nat
    BY AdmittedFacts
  <2>4. m[ip].fails \in Nat /\ m[ip].waits \in Nat /\ FreeFailures \in Nat
    BY <2>1, EntryFacts
  <2> DEFINE b == FreeFailures + Cardinality(Reqs) * (1 + m[ip].waits)
  <2>5. b \in Int
    BY <2>3, <2>4
  <2> HIDE DEF b
  <2>6. m[ip].fails <= b
    BY <2>2, <2>3, <2>4, <2>5 DEF b
  <2>7. QED
    BY <2>6 DEF b
<1>4. QED
  BY <1>1, <1>2, <1>3, PTL DEF Spec

-----------------------------------------------------------------------------
\* Locks end by time.

\* Bearer requests, and with them entries of bearerIP, are in a scene without
\* restarts.
BearerScene ==
    Explores("bearer") \/ (bearerIP = <<>> /\ \A r \in Reqs : req[r].pc # "bearer")

LEMMA NextBearerScene == Typed /\ BearerScene /\ [Next]_vars => BearerScene'
<1> SUFFICES ASSUME Typed, BearerScene, [Next]_vars PROVE BearerScene'
  OBVIOUS
<1> USE DEF BearerScene, Explores
<1>0. scene' = scene
  <2>1. ASSUME NEW r, AdmitLogin(r) \/ AdmitSession(r) \/ AdmitBearer(r) \/ Bearer(r) PROVE scene' = scene
    BY <2>1 DEF AdmitLogin, AdmitSession, AdmitBearer, Bearer, bounds
  <2>2. ASSUME NEW r, GoodPassword(r) \/ BadPassword(r) \/ Finish(r) PROVE scene' = scene
    BY <2>2 DEF GoodPassword, BadPassword, Finish, bounds
  <2>3. ASSUME NEW r, NEW code, NEW saved, ConsumeFactor(r, code, saved) PROVE scene' = scene
    BY <2>3 DEF ConsumeFactor, bounds
  <2>4. ASSUME NEW r, NEW code, NEW saved, EnrollConfirm(r, code, saved) PROVE scene' = scene
    BY <2>4 DEF EnrollConfirm, bounds
  <2>5. ASSUME NEW r, NEW saved, EnrollStart(r, saved) PROVE scene' = scene
    BY <2>5 DEF EnrollStart, bounds
  <2>6. ASSUME NEW t, UseSession(t) \/ Logout(t) PROVE scene' = scene
    BY <2>6 DEF UseSession, Logout, bounds
  <2>7. ASSUME NEW flag, NEW saved, Restart(flag, saved) PROVE scene' = scene
    BY <2>7 DEF Restart
  <2>8. CASE OtherSave \/ Tick \/ UNCHANGED vars
    BY <2>8 DEF OtherSave, Tick, vars, bounds
  <2>9. QED
    BY <2>1, <2>2, <2>3, <2>4, <2>5, <2>6, <2>7, <2>8 DEF Next, Step
<1>1. ASSUME NEW r \in Reqs, Answer(r) \/ (\E pc \in GuessPCs : Go(r, pc)),
             ~Explores("bearer")
      PROVE  \A q \in Reqs : req'[q].pc # "bearer"
  BY <1>1 DEF Answer, Go, IdleReq, GuessPCs, Typed, TypeOK
<1>2. ASSUME NEW r \in Reqs, AdmitLogin(r) \/ AdmitSession(r) PROVE BearerScene'
  <2>1. \E op, tok, ip : Admit(r, op, ip, tok)
    BY <1>2 DEF AdmitLogin, AdmitSession
  <2>2. QED
    BY <1>0, <2>1 DEF Admit, Typed, TypeOK
<1>3. ASSUME NEW r \in Reqs, AdmitBearer(r) \/ Bearer(r) PROVE BearerScene'
  BY <1>0, <1>3 DEF AdmitBearer, Bearer
<1>4. ASSUME NEW r \in Reqs, Strike(r) \/ Success(req[r].ip) \/ UNCHANGED lockVars PROVE bearerIP' = bearerIP
  BY <1>4 DEF Strike, Failure, Success, lockVars
<1>5. ASSUME NEW r \in Reqs, BadPassword(r) PROVE BearerScene'
  BY <1>0, <1>1, <1>4, <1>5 DEF BadPassword, Strike
<1>6. ASSUME NEW r \in Reqs, GoodPassword(r) PROVE BearerScene'
  <2>1. UNCHANGED lockVars /\ (Answer(r) \/ (\E pc \in GuessPCs : Go(r, pc)))
    BY <1>6, GoodPasswordMoves DEF GuessPCs, GoodPassword
  <2>2. QED
    BY <1>0, <1>1, <1>4, <2>1
<1>7. ASSUME NEW r \in Reqs, NEW code \in Offered, NEW saved \in Saves,
             ConsumeFactor(r, code, saved) \/ EnrollConfirm(r, code, saved)
      PROVE  BearerScene'
  <2>1. /\ Strike(r) \/ Success(req[r].ip) \/ UNCHANGED lockVars
        /\ Answer(r) \/ Go(r, "end")
    BY <1>7, SavesType, ConsumeFactorEffect, EnrollConfirmEffect DEF Strike
  <2>2. QED
    BY <1>0, <1>1, <1>4, <2>1 DEF GuessPCs
<1>8. ASSUME NEW r \in Reqs, NEW saved \in Saves, EnrollStart(r, saved) PROVE BearerScene'
  BY <1>0, <1>1, <1>4, <1>8 DEF EnrollStart
<1>9. ASSUME NEW r \in Reqs, Finish(r) PROVE BearerScene'
  <2>1. Answer(r) /\ (UNCHANGED lockVars \/ Success(req[r].ip))
    BY <1>9 DEF Finish
  <2>2. QED
    BY <1>0, <1>1, <1>4, <2>1
<1>10. ASSUME NEW flag, NEW saved, Restart(flag, saved) PROVE BearerScene'
  BY <1>10 DEF Restart, IdleReq
<1>11. CASE Tick
  BY <1>0, <1>11 DEF Tick, LockoutTick, Aged
<1>12. ASSUME NEW t, UseSession(t) \/ Logout(t) PROVE BearerScene'
  BY <1>0, <1>12 DEF UseSession, Logout, lockVars
<1>13. CASE OtherSave \/ UNCHANGED vars
  BY <1>0, <1>13 DEF OtherSave, vars, lockVars
<1>14. QED
  BY <1>2, <1>3, <1>5, <1>6, <1>7, <1>8, <1>9, <1>10, <1>11, <1>12, <1>13 DEF Next, Step

\* What may end the lock of one address in one step.
LockEnding(ip) ==
    /\ Locked(perIP, ip) /\ ~Locked(perIP, ip)' =>
          \/ perIP[ip].lock = 1 /\ ip \in DOMAIN perIP'
          \/ \E r \in Reqs : req[r].ip = ip /\ req[r].pc \in {"consume", "confirm", "end"}
          \/ \E flag, saved \in BOOLEAN : Restart(flag, saved)
    /\ Locked(bearerIP, ip) /\ ~Locked(bearerIP, ip)' =>
          \/ bearerIP[ip].lock = 1 /\ ip \in DOMAIN bearerIP'
          \/ \E r \in Reqs : req[r].ip = ip /\ req[r].pc = "bearer"

\* A failure and the right password change no other lock.
LEMMA RequestEndsLock ==
    ASSUME Typed, NEW ip \in IPs, NEW r \in Reqs,
           \/ UNCHANGED lockVars
           \/ Strike(r) /\ req[r].pc # "idle"
           \/ Success(req[r].ip) /\ req[r].pc \in {"consume", "confirm", "end"}
    PROVE  LockEnding(ip)
<1>1. Table(perIP) /\ Table(bearerIP)
  BY LockoutTables DEF Typed, TypeOK
<1>2. CASE UNCHANGED lockVars
  BY <1>2 DEF LockEnding, lockVars, Locked
<1>3. CASE Strike(r) /\ req[r].pc # "idle"
  <2>1. PICK lock \in BOOLEAN : perIP' \in Struck(perIP, req[r].ip, lock)
    BY <1>3 DEF Strike, Failure
  <2>2. req[r].ip \in IPs
    BY <1>3 DEF Typed, RequestsPlaced
  <2>3. \A k \in DOMAIN perIP : perIP[k].lock > 0 => k \in DOMAIN perIP' /\ perIP'[k].lock > 0
    BY <1>1, <2>1, <2>2, StruckTable
  <2>4. bearerIP' = bearerIP
    BY <1>3 DEF Strike, Failure
  <2>5. QED
    BY <2>3, <2>4 DEF LockEnding, Locked
<1>4. CASE Success(req[r].ip) /\ req[r].pc \in {"consume", "confirm", "end"}
  <2>1. /\ DOMAIN perIP' = DOMAIN perIP \ {req[r].ip}
        /\ \A k \in DOMAIN perIP' : perIP'[k] = perIP[k]
        /\ bearerIP' = bearerIP
    BY <1>4, SuccessTable DEF Success
  <2>2. QED
    BY <1>4, <2>1 DEF LockEnding, Locked
<1>5. QED
  BY <1>2, <1>3, <1>4

LEMMA NextEndsLock ==
    ASSUME Typed, BearerScene, Next, NEW ip \in IPs
    PROVE  LockEnding(ip)
<1>0. Table(perIP) /\ Table(bearerIP)
  BY LockoutTables DEF Typed, TypeOK
<1>1. ASSUME NEW r \in Reqs, AdmitLogin(r) \/ AdmitSession(r) PROVE LockEnding(ip)
  <2>1. PICK op, tok, a : Admit(r, op, a, tok)
    BY <1>1 DEF AdmitLogin, AdmitSession
  <2>2. /\ \A k \in DOMAIN perIP : perIP[k].lock > 0 => k \in DOMAIN perIP' /\ perIP'[k] = perIP[k]
        /\ bearerIP' = bearerIP
    BY <1>0, <2>1, ForgiveTable DEF Admit
  <2>3. QED
    BY <2>2 DEF LockEnding, Locked
<1>2. ASSUME NEW r \in Reqs, AdmitBearer(r) PROVE LockEnding(ip)
  <2>1. PICK a : bearerIP' = Forgive(bearerIP, a)
    BY <1>2 DEF AdmitBearer
  <2>2. /\ \A k \in DOMAIN bearerIP : bearerIP[k].lock > 0 => k \in DOMAIN bearerIP' /\ bearerIP'[k] = bearerIP[k]
        /\ perIP' = perIP
    BY <1>0, <1>2, <2>1, ForgiveTable DEF AdmitBearer
  <2>3. QED
    BY <2>2 DEF LockEnding, Locked
<1>3. ASSUME NEW r \in Reqs, Bearer(r) PROVE LockEnding(ip)
  <2>1. req[r].pc = "bearer" /\ req[r].ip \in IPs /\ perIP' = perIP
    BY <1>3 DEF Bearer, Typed, RequestsPlaced, SuccessBearer, FailureBearer
  <2>2. \A k \in DOMAIN bearerIP \ {req[r].ip} :
           bearerIP[k].lock > 0 => k \in DOMAIN bearerIP' /\ bearerIP'[k].lock > 0
    <3>1. CASE SuccessBearer(req[r].ip)
      BY <3>1, SuccessTable
    <3>2. CASE FailureBearer(req[r].ip)
      BY <1>0, <2>1, <3>2, StruckTable DEF FailureBearer
    <3>3. QED
      BY <1>3, <3>1, <3>2 DEF Bearer
  <2>3. QED
    BY <2>1, <2>2 DEF LockEnding, Locked
<1>4. ASSUME NEW r \in Reqs, BadPassword(r) \/ GoodPassword(r) PROVE LockEnding(ip)
  BY <1>4, RequestEndsLock DEF BadPassword, GoodPassword
<1>5. ASSUME NEW r \in Reqs, NEW code \in Offered, NEW saved \in Saves,
             ConsumeFactor(r, code, saved) \/ EnrollConfirm(r, code, saved)
      PROVE  LockEnding(ip)
  <2>1. req[r].pc \in {"consume", "confirm"}
    BY <1>5 DEF ConsumeFactor, EnrollConfirm
  <2>2. Strike(r) \/ Success(req[r].ip) \/ UNCHANGED lockVars
    BY <1>5, SavesType, ConsumeFactorEffect, EnrollConfirmEffect
  <2>3. QED
    BY <2>1, <2>2, RequestEndsLock
<1>6. ASSUME NEW r \in Reqs, NEW saved \in Saves, EnrollStart(r, saved) PROVE LockEnding(ip)
  BY <1>6, RequestEndsLock DEF EnrollStart
<1>7. ASSUME NEW r \in Reqs, Finish(r) PROVE LockEnding(ip)
  <2>1. req[r].pc = "end" /\ (UNCHANGED lockVars \/ Success(req[r].ip))
    BY <1>7 DEF Finish
  <2>2. QED
    BY <2>1, RequestEndsLock
<1>8. ASSUME NEW flag \in BOOLEAN, NEW saved \in BOOLEAN, Restart(flag, saved) PROVE LockEnding(ip)
  <2>1. bearerIP = <<>>
    BY <1>8 DEF Restart, BearerScene, Explores
  <2>2. QED
    BY <1>8, <2>1 DEF LockEnding, Locked
<1>9. CASE Tick
  <2>1. ASSUME NEW m, Table(m), NEW waited \in BOOLEAN, Locked(m, ip), ~Locked(Aged(m, waited), ip)
        PROVE  m[ip].lock = 1 /\ ip \in DOMAIN Aged(m, waited)
    <3>1. /\ DOMAIN Aged(m, waited) = DOMAIN m /\ ip \in DOMAIN m
          /\ Aged(m, waited)[ip].lock = Pass(m[ip].lock)
      BY <2>1, AgedTable DEF Locked
    <3>2. m[ip].lock \in Nat
      BY <2>1, <3>1, EntryFacts
    <3>3. QED
      BY <2>1, <3>1, <3>2 DEF Locked, Pass
  <2>2. perIP' = Aged(perIP, globalUntil = 1) /\ bearerIP' = Aged(bearerIP, FALSE)
    BY <1>9 DEF Tick, LockoutTick
  <2>3. QED
    BY <1>0, <2>1, <2>2 DEF LockEnding
<1>10. ASSUME NEW t, UseSession(t) \/ Logout(t) PROVE LockEnding(ip)
  BY <1>10 DEF UseSession, Logout, lockVars, LockEnding, Locked
<1>11. CASE OtherSave
  BY <1>11 DEF OtherSave, lockVars, LockEnding, Locked
<1>12. QED
  BY <1>1, <1>2, <1>3, <1>4, <1>5, <1>6, <1>7, <1>8, <1>9, <1>10, <1>11 DEF Next, Step

\* A lock ends by time, by the right password from its own address, or with the
\* process: the eviction of a full table and the failures of other addresses
\* never end it (evictOne, ensureIn).
THEOREM LocksHold == Spec => LockNotForgotten
<1>1. Init => Typed /\ BearerScene
  BY InitTyped DEF Init, LockoutInit, BearerScene, IdleReq
<1>2. Typed /\ BearerScene /\ [Next]_vars => (Typed /\ BearerScene)'
  BY NextTyped, NextBearerScene
<1>3. Typed /\ BearerScene /\ [Next]_vars => [\A ip \in IPs : LockEnding(ip)]_vars
  BY NextEndsLock
<1>4. LockNotForgotten <=> [][\A ip \in IPs : LockEnding(ip)]_vars
  BY DEF LockNotForgotten, LockEnding
<1>5. QED
  BY <1>1, <1>2, <1>3, <1>4, PTL DEF Spec
=============================================================================
