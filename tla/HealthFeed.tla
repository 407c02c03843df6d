----------------------------- MODULE HealthFeed -----------------------------
(***************************************************************************)
(* The catalog's two gateway files (internal/catalog): the models file,    *)
(* which also carries the bidDetail health, and the bids file, the health  *)
(* source proper.  Each is fetched when its copy is older than the TTL and *)
(* no failure pause runs, by one caller at a time and outside the catalog  *)
(* lock, so callers pass one another between the check, the mutex and the  *)
(* result.                                                                 *)
(*                                                                         *)
(* Times are countdowns: fresh is what is left of the TTL, pause of the    *)
(* failure pause.  A copy is the index of the file it was read from.       *)
(***************************************************************************)
EXTENDS CatalogIndex

CONSTANTS Callers,     \* goroutines that ask the catalog
          Nobody,      \* not a caller
          ModelFiles,  \* what the models URL may serve: sequence of [stamp, rows]
          BidFiles,    \* what the bids URL may serve: sequence of [stamp, rows]
          Model,       \* id of the model whose bids are opened
          Excluded,    \* the providerExclude setting
          TTL,         \* ttl
          RetryPause   \* retryAfter

ASSUME FeedAssumption ==
    /\ Nobody \notin Callers
    /\ TTL \in Nat \ {0} /\ RetryPause \in Nat \ {0}
    /\ \A files \in {ModelFiles, BidFiles} :
         /\ files \in Seq(ToSet(files)) \ {<<>>}
         /\ \A i \in DOMAIN files : files[i].stamp \in Nat

\* A row has its three fields, prices are naturals (0: not a positive number),
\* and the id of a row is its own: it is the model's id on chain.
ASSUME RowsAssumption ==
    \A i \in DOMAIN ModelFiles :
      LET rows == ModelFiles[i].rows
      IN  /\ rows \in Seq(ToSet(rows))
          /\ \A m \in ToSet(rows) :
               /\ m = [id |-> m.id, name |-> m.name, bids |-> m.bids]
               /\ m.id \in Int /\ \A b \in m.bids : b.price \in Nat
          /\ \A m, x \in ToSet(rows) : m.id = x.id => m = x

VARIABLES
  models,   \* the models copy: [file, fresh, pause]; file 0 when nil
  byName,   \* the name index
  detail,   \* health.detail: index of a models file, 0 when nil
  bids,     \* health.bids: [file, fresh, pause]; file 0 when nil
  fetching, \* who holds fetchMu and bidsFetchMu
  fpc       \* where each caller is in ensureFresh

feedVars == <<models, byName, detail, bids, fetching, fpc>>

\* out: not in the catalog; models, modelsLock, modelsFetch: refreshModels
\* at its state check, its mutex, its fetch; bids, bidsTry, bidsWait,
\* bidsFetch: refreshBids, where bidsTry saw a health copy and bidsWait did
\* not; ready: ensureFresh is done.
FeedPCs == {"out", "models", "modelsLock", "modelsFetch",
            "bids", "bidsTry", "bidsWait", "bidsFetch", "ready"}

Copy(files) == [file : 0 .. Len(files), fresh : 0 .. TTL, pause : 0 .. RetryPause]
NoCopy == [file |-> 0, fresh |-> 0, pause |-> 0]

FeedTypeOK ==
    /\ models \in Copy(ModelFiles)
    /\ detail \in 0 .. Len(ModelFiles)
    /\ bids \in Copy(BidFiles)
    /\ fetching \in [{"models", "bids"} -> Callers \cup {Nobody}]
    /\ fpc \in [Callers -> FeedPCs]

FeedInit ==
    /\ models = NoCopy
    /\ byName = <<>>
    /\ detail = 0
    /\ bids = NoCopy
    /\ fetching = [f \in {"models", "bids"} |-> Nobody]
    /\ fpc = [c \in Callers |-> "out"]

-----------------------------------------------------------------------------
\* state, bidsState: is a fetch due?
Due(copy) == copy.fresh = 0 /\ copy.pause = 0

\* parseBidsFeed and parseBidDetail: the rows with a readable status; a file
\* without one cannot be used.
Statuses(rows) == {r \in rows : r.status # "null"}
BidRows(i) == Statuses(ToSet(BidFiles[i].rows))
DetailRows(i) ==
    Statuses(UNION {m.bids : m \in {x \in ToSet(ModelFiles[i].rows) : x.id = Model}})
DetailUsable(i) ==
    Statuses(UNION {m.bids : m \in ToSet(ModelFiles[i].rows)}) # {}

HealthyOf(rows) == {r.bid : r \in {x \in rows : x.status = "healthy"}}

\* Mutant: an older file replaces the copy.
ReplaceSnapAlways(files, cur, next) == next

\* replaceSnapLocked: the copy held after file next was read; a newer stamp
\* replaces it, an equal one keeps it, an older one fails (0).
ReplaceSnap(files, cur, next) ==
    IF cur = 0 \/ files[next].stamp > files[cur].stamp THEN next
    ELSE IF files[next].stamp = files[cur].stamp THEN cur
    ELSE 0

\* HealthyBidIDs, once ensureFresh is done. health is known when either
\* copy is loaded; a loaded bids copy is final.
HealthKnown == bids.file # 0 \/ detail # 0
HealthyBidIDs ==
    IF bids.file # 0 THEN HealthyOf(BidRows(bids.file)) ELSE HealthyOf(DetailRows(detail))

\* Both files loaded, as after the first call.
FeedLoaded ==
    /\ models = [file |-> 1, fresh |-> TTL, pause |-> 0]
    /\ byName = IndexLocked(ModelFiles[1].rows, Excluded)
    /\ detail = 1
    /\ bids = [file |-> 1, fresh |-> TTL, pause |-> 0]
    /\ fetching = [f \in {"models", "bids"} |-> Nobody]
    /\ fpc = [c \in Callers |-> "out"]

-----------------------------------------------------------------------------
FGo(c, to) == fpc' = [fpc EXCEPT ![c] = to]

EnsureFresh(c) ==
    /\ fpc[c] = "out"
    /\ FGo(c, "models")
    /\ UNCHANGED <<models, byName, detail, bids, fetching>>

ModelsCheck(c) ==
    /\ fpc[c] = "models"
    /\ FGo(c, IF Due(models) THEN "modelsLock" ELSE "bids")
    /\ UNCHANGED <<models, byName, detail, bids, fetching>>

\* A caller with a copy does not wait for a running fetch; whoever gets the
\* mutex looks again.
ModelsLock(c) ==
    /\ fpc[c] = "modelsLock"
    /\ \/ /\ fetching["models"] # Nobody
          /\ models.file # 0
          /\ FGo(c, "bids")
          /\ UNCHANGED fetching
       \/ /\ fetching["models"] = Nobody
          /\ IF Due(models)
             THEN FGo(c, "modelsFetch") /\ fetching' = [fetching EXCEPT !["models"] = c]
             ELSE FGo(c, "bids") /\ UNCHANGED fetching
    /\ UNCHANGED <<models, byName, detail, bids>>

FetchOver(c, feed, to) ==
    /\ fetching' = [fetching EXCEPT ![feed] = Nobody]
    /\ FGo(c, to)

\* The models fetch fails (transport, redirect, status, size, JSON): the
\* data held, if any, is served on.
ModelsFailed(c) ==
    /\ fpc[c] = "modelsFetch"
    /\ models' = [models EXCEPT !.pause = RetryPause]
    /\ FetchOver(c, "models", "bids")
    /\ UNCHANGED <<byName, detail, bids>>

\* The models fetch returns file i. The list is replaced whatever its stamp;
\* applyDetailLocked decides on the health copy, and its failure (a bad
\* stamp, no usable row, a rollback) takes the pause.
ModelsFetched(c, i, stampOK) ==
    LET next == IF stampOK /\ DetailUsable(i) THEN ReplaceSnap(ModelFiles, detail, i) ELSE 0
    IN  /\ fpc[c] = "modelsFetch"
        /\ models' = [file |-> i, fresh |-> TTL, pause |-> IF next = 0 THEN RetryPause ELSE 0]
        /\ byName' = IndexLocked(ModelFiles[i].rows, Excluded)
        /\ detail' = IF next = 0 THEN detail ELSE next
        /\ FetchOver(c, "models", "bids")
        /\ UNCHANGED bids

BidsCheck(c) ==
    /\ fpc[c] = "bids"
    /\ FGo(c, IF ~Due(bids) THEN "ready" ELSE IF HealthKnown THEN "bidsTry" ELSE "bidsWait")
    /\ UNCHANGED <<models, byName, detail, bids, fetching>>

\* Mutant: the mutex's new holder does not look again.
BidsLockBlind(c) ==
    /\ fpc[c] \in {"bidsTry", "bidsWait"}
    /\ fetching["bids"] = Nobody
    /\ FGo(c, "bidsFetch") /\ fetching' = [fetching EXCEPT !["bids"] = c]
    /\ UNCHANGED <<models, byName, detail, bids>>

BidsLock(c) ==
    /\ fpc[c] \in {"bidsTry", "bidsWait"}
    /\ \/ /\ fetching["bids"] # Nobody
          /\ fpc[c] = "bidsTry"
          /\ FGo(c, "ready")
          /\ UNCHANGED fetching
       \/ /\ fetching["bids"] = Nobody
          /\ IF Due(bids)
             THEN FGo(c, "bidsFetch") /\ fetching' = [fetching EXCEPT !["bids"] = c]
             ELSE FGo(c, "ready") /\ UNCHANGED fetching
    /\ UNCHANGED <<models, byName, detail, bids>>

\* Mutant: a failed fetch keeps bidsFetchMu.
BidsFetchedKeepsLock(c, i) ==
    LET next == IF i # 0 /\ BidRows(i) # {} THEN ReplaceSnap(BidFiles, bids.file, i) ELSE 0
    IN  /\ fpc[c] = "bidsFetch"
        /\ bids' = IF next = 0 THEN [bids EXCEPT !.pause = RetryPause]
                   ELSE [file |-> next, fresh |-> TTL, pause |-> 0]
        /\ fetching' = IF next = 0 THEN fetching ELSE [fetching EXCEPT !["bids"] = Nobody]
        /\ FGo(c, "ready")
        /\ UNCHANGED <<models, byName, detail>>

\* refreshBids after its fetch: file i with a good stamp, or 0 for any
\* failure before the rows are read. The copy held survives a failure.
BidsFetched(c, i) ==
    LET next == IF i # 0 /\ BidRows(i) # {} THEN ReplaceSnap(BidFiles, bids.file, i) ELSE 0
    IN  /\ fpc[c] = "bidsFetch"
        /\ bids' = IF next = 0 THEN [bids EXCEPT !.pause = RetryPause]
                   ELSE [file |-> next, fresh |-> TTL, pause |-> 0]
        /\ FetchOver(c, "bids", "ready")
        /\ UNCHANGED <<models, byName, detail>>

\* The caller leaves with its answer (Resolve, List, HealthyBidIDs).
Answered(c) ==
    /\ fpc[c] = "ready"
    /\ FGo(c, "out")
    /\ UNCHANGED <<models, byName, detail, bids, fetching>>

Down(n) == IF n = 0 THEN 0 ELSE n - 1

Older(copy) == [file |-> copy.file, fresh |-> Down(copy.fresh), pause |-> Down(copy.pause)]

FeedTick ==
    /\ models' = Older(models)
    /\ bids' = Older(bids)
    /\ UNCHANGED <<byName, detail, fetching, fpc>>

FeedStep(c) ==
    \/ ModelsCheck(c)
    \/ ModelsLock(c)
    \/ ModelsFailed(c)
    \/ \E i \in DOMAIN ModelFiles, stampOK \in BOOLEAN : ModelsFetched(c, i, stampOK)
    \/ BidsCheck(c)
    \/ BidsLock(c)
    \/ \E i \in 0 .. Len(BidFiles) : BidsFetched(c, i)
=============================================================================
