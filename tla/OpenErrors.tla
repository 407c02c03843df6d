----------------------------- MODULE OpenErrors -----------------------------
(***************************************************************************)
(* What an error of an open POST says about the open                       *)
(* (internal/pool/transient.go).  An error is [from, stage, mark]: who     *)
(* answered, the router stage its text names, and a marker in the rest of  *)
(* the text.                                                               *)
(***************************************************************************)
EXTENDS Integers, FiniteSets

CONSTANTS PreSendProofWindow,   \* preSendProofWindow
          TransientBase,        \* transientBase
          TransientCap          \* transientCap

ASSUME ErrorsAssumption ==
    /\ PreSendProofWindow \in Nat
    /\ TransientBase \in Nat \ {0} /\ TransientCap \in Nat \ {0}

Err(from, stage, mark) == [from |-> from, stage |-> stage, mark |-> mark]

\* transport: a Go transport error, our deadline, 502/503/504; answer: an
\* unreadable 200. The rest are the router's own error replies: a
\* providerStageTexts text, a preSendPrefixes or windowPrefixes one, or the
\* open transaction's stage.
OpenErrors ==
    {Err("transport", "none", "none"), Err("answer", "none", "none"),
     Err("router", "provider", "none"),
     Err("router", "presend", "none"), Err("router", "presend", "funds"),
     Err("router", "window", "none"),
     Err("router", "open", "none"), Err("router", "open", "funds"),
     Err("router", "open", "nonce"), Err("router", "open", "unmined")}

\* Mutant: the 18 s rule is not applied, and funding texts pass for provider
\* faults.
ClassifyLoose(e, elapsed, windowOK) ==
    CASE e.from # "router" -> "maybeSent"
      [] e.stage = "provider" -> "providerFault"
      [] e.stage = "presend" -> IF e.mark = "funds" THEN "walletFunds" ELSE "transientPreSend"
      [] OTHER -> "transientPreSend"

\* classifyOpenErr
ClassifyOpenErr(e, elapsed, windowOK) ==
    CASE e.from # "router" -> "maybeSent"
      [] e.stage = "provider" -> "providerFault"
      [] e.stage = "presend" -> IF e.mark = "funds" THEN "walletFunds" ELSE "transientPreSend"
      [] e.stage = "open" /\ e.mark # "funds" -> "maybeSent"
      [] ~windowOK \/ elapsed >= PreSendProofWindow -> "maybeSent"
      [] OTHER -> IF e.mark = "funds" THEN "walletFunds" ELSE "transientWindow"

\* The router's side of it: an error after which a transaction may be on its
\* way. A stage that ends before the send never is; a funding text means the
\* node took nothing.
MayBeSent(e) == ~(e.from = "router" /\ (e.stage \in {"provider", "presend"} \/ e.mark = "funds"))

\* chainWaitReason
ChainWaitReason(e) ==
    CASE e.from = "router" /\ e.stage = "open" /\ e.mark = "nonce" -> "wallet_tx_pending"
      [] e.from = "router" /\ e.stage = "open" /\ e.mark = "unmined" -> "chain_congested"
      [] OTHER -> "none"

\* backoffStep: transientBase doubled n times, capped.
BackoffStep(n) ==
    IF TransientBase * (2 ^ n) > TransientCap THEN TransientCap ELSE TransientBase * (2 ^ n)
=============================================================================
