--------------------------- MODULE MCSessionPool ---------------------------
(* Instances of SessionPool for TLC. *)
EXTENDS SessionPool, TLC

CONSTANTS m1, s1, s2, s3, b1, b2, r1, r2, bg, sweep, poll, admin, k1, k2

OneModel == {m1}
ToModel1 == [s \in Sessions |-> m1]
OneBid == [s \in Sessions |-> b1]
TwoBids == [s \in Sessions |-> IF s = s1 THEN b1 ELSE b2]
ReqModel1 == [r \in Requests |-> m1]
OwnKey == [r \in Requests |-> IF r = r1 THEN k1 ELSE k2]
Symmetric == Permutations(Sessions)
=============================================================================
