---------------------------- MODULE MCWalletSlot ----------------------------
(* Three requests of one API key and one internal caller (a sweep): enough   *)
(* for the holder, a full per-key queue and a refused third request.         *)
EXTENDS WalletSlot

CONSTANTS r1, r2, r3, sweep, k1

MCCallers == {r1, r2, r3, sweep}
MCKeys == {k1}
MCKeyOf == [c \in MCCallers |-> IF c = sweep THEN NoKey ELSE k1]
=============================================================================
