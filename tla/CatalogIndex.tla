---------------------------- MODULE CatalogIndex ----------------------------
(***************************************************************************)
(* The name index of internal/catalog/catalog.go as operators: which row   *)
(* of the models file a shared display name resolves to, with the bids of  *)
(* excluded providers left out.                                            *)
(*                                                                         *)
(* A row is a record [id, name, bids], its bids a set; a bid is            *)
(* [bid, prov, price, status], where price 0 stands for one that is not a  *)
(* positive number and status is "healthy", "bad" or "null" (any JSON      *)
(* value that is not a string).  Ids are numbered in their string order.   *)
(***************************************************************************)
EXTENDS Integers, Sequences, FiniteSets, SequencesExt

\* UnmarshalJSON keeps the bids whose status is a string.
ReadableBids(m) == {b \in m.bids : b.status # "null"}

Prices(m, onlyHealthy) ==
    {b.price : b \in {x \in ReadableBids(m) :
                        x.price > 0 /\ (onlyHealthy => x.status = "healthy")}}

\* 0 when there is none.
Least(S) == IF S = {} THEN 0 ELSE Min(S)

\* healthyBidWei
HealthyBidWei(m) == Least(Prices(m, TRUE))

\* LowestBid, LowestPricePerSecondWei
LowestPrice(m) ==
    IF Prices(m, TRUE) # {} THEN HealthyBidWei(m) ELSE Least(Prices(m, FALSE))

\* Mutant: a tie between rows without a healthy bid goes to the later row.
PreferModelLater(cand, cur) ==
    LET ch == HealthyBidWei(cand)  uh == HealthyBidWei(cur)
    IN  (ch > 0 /\ uh = 0) \/ (ch > 0 /\ ch < uh) \/ (ch = 0 /\ uh = 0)

\* preferModel: does cand replace cur for a name they share?
PreferModel(cand, cur) ==
    LET ch == HealthyBidWei(cand)  uh == HealthyBidWei(cur)
        cp == LowestPrice(cand)    up == LowestPrice(cur)
        tie == cand.id < cur.id
    IN  IF (ch > 0) # (uh > 0) THEN ch > 0
        ELSE IF ch > 0 THEN ch < uh \/ (ch = uh /\ tie)
        ELSE IF (cp > 0) # (up > 0) THEN cp > 0
        ELSE cp < up \/ (cp = up /\ tie)

\* indexModels: one pass over the rows in file order.
Chosen(was, m) ==
    IF m.name \in DOMAIN was /\ ~PreferModel(m, was[m.name]) THEN was
    ELSE [n \in DOMAIN was \cup {m.name} |-> IF n = m.name THEN m ELSE was[n]]

IndexModels(rows) ==
    LET chosen[i \in 0 .. Len(rows)] == IF i = 0 THEN <<>> ELSE Chosen(chosen[i - 1], rows[i])
    IN  chosen[Len(rows)]

\* withoutExcluded: a row left with no bid is dropped, one the file lists
\* with no bid at all is kept.
Stripped(m, excluded) == [m EXCEPT !.bids = {b \in ReadableBids(m) : b.prov \notin excluded}]
Stays(m, excluded) == ReadableBids(m) = {} \/ Stripped(m, excluded).bids # {}

Shown(was, m, excluded) == IF Stays(m, excluded) THEN Append(was, Stripped(m, excluded)) ELSE was

WithoutExcluded(rows, excluded) ==
    LET out[i \in 0 .. Len(rows)] == IF i = 0 THEN <<>> ELSE Shown(out[i - 1], rows[i], excluded)
    IN  out[Len(rows)]

\* indexLocked: a name whose every row is hidden still resolves.
IndexLocked(rows, excluded) ==
    LET all == IndexModels(rows)
        visible == IndexModels(WithoutExcluded(rows, excluded))
    IN  [n \in DOMAIN all |-> IF n \in DOMAIN visible THEN visible[n].id ELSE all[n].id]

-----------------------------------------------------------------------------
\* The reference: rows ranked by a key, whatever their order in the file.
RankKey(m) ==
    IF HealthyBidWei(m) > 0 THEN <<0, HealthyBidWei(m), m.id>>
    ELSE IF LowestPrice(m) > 0 THEN <<1, LowestPrice(m), m.id>>
    ELSE <<2, 0, m.id>>

KeyLess(a, b) ==
    \E i \in 1 .. 3 : a[i] < b[i] /\ \A j \in 1 .. i - 1 : a[j] = b[j]

BestRow(S) == CHOOSE m \in S : \A x \in S : x = m \/ KeyLess(RankKey(m), RankKey(x))

BestId(rows, excluded, name) ==
    LET named(R) == {m \in ToSet(R) : m.name = name}
        visible == named(WithoutExcluded(rows, excluded))
    IN  BestRow(IF visible # {} THEN visible ELSE named(rows)).id
=============================================================================
