----------------------------- MODULE MCOpenWalk -----------------------------
(* Three bids of two providers, and a provider that is excluded. *)
EXTENDS OpenWalk

CONSTANTS opener, reader, p1, p2, p3, b1, b2, b3

MCProvOf == (b1 :> p1) @@ (b2 :> p2) @@ (b3 :> p3)
MCRated == {<<b3>>, <<b3, b1>>, <<b2, b3, b1>>}
MCStake == (b1 :> <<1, 3>>) @@ (b2 :> <<2, 1>>) @@ (b3 :> <<1, 1>>)

Offer(b, price, status) == [bid |-> b, prov |-> MCProvOf[b], price |-> price, status |-> status]
Row(id, name, offers) == [id |-> id, name |-> name, bids |-> offers]

MCModelFiles ==
    << [stamp |-> 1, rows |-> <<Row(1, "n", {Offer(b3, 1, "healthy"), Offer(b1, 3, "healthy")}),
                                Row(2, "n", {Offer(b2, 2, "healthy")})>>],
       [stamp |-> 2, rows |-> <<Row(1, "n", {Offer(b1, 2, "bad"), Offer(b3, 1, "null")}),
                                Row(3, "n", {}), Row(2, "n", {Offer(b2, 2, "bad")})>>] >>

Health(b, status) == [bid |-> b, status |-> status]
MCBidFiles ==
    << [stamp |-> 1, rows |-> <<Health(b1, "healthy"), Health(b2, "healthy"), Health(b3, "healthy")>>],
       [stamp |-> 2, rows |-> <<Health(b1, "bad"), Health(b2, "healthy"), Health(b3, "healthy")>>],
       [stamp |-> 3, rows |-> <<Health(b1, "null")>>] >>

MCMaxOpens == [feeds |-> 1, stake |-> 2, cools |-> 2, loss |-> 1]
=============================================================================
