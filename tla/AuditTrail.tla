----------------------------- MODULE AuditTrail -----------------------------
(***************************************************************************)
(* The audit trail: the in-memory ring with its two shares                 *)
(* (internal/api/audit.go), the aggregation of repeatable events           *)
(* (audit_route.go) and the rotating files (internal/auditlog/stream.go).  *)
(*                                                                         *)
(* A line is [id, at, cls, n]: its number, its time, its class and how     *)
(* many recorded events it stands for.  A protected or a loopable event    *)
(* goes to the security file, a failure to the ops file.  A file's last    *)
(* line tells its age; a line that cannot be read has id 0.                *)
(***************************************************************************)
EXTENDS Integers, Sequences, SequencesExt, FiniteSetsExt

CONSTANTS
  Files,         \* live and rotated files of a stream
  MaxLines,      \* MaxLines[st]: lines of a stream that fit a file (MaxBytes)
  Retention,     \* age of the newest line at which a rotated file goes
  RingCap,       \* events in each share of the ring
  BootLines,     \* auditBootLines
  AggKeys,       \* keys events are grouped by
  MaxPerKind,    \* groups kept apart for a kind
  AggWindow,
  MaxEvents,     \* bound: events recorded
  MaxFaults,     \* bound: failures of the file system
  MaxNow         \* bound: time

ASSUME AuditAssumption ==
    /\ Files \in Nat /\ Files >= 2
    /\ Range(MaxLines) \cup {RingCap, BootLines, MaxPerKind, AggWindow} \subseteq Nat \ {0}

VARIABLES
  files,     \* files[st][i]: lines of the ith file of a stream, i = 0 the live one
  torn,      \* streams whose live file ends in half a line
  disabled,  \* streams refused after a rotation
  ring,      \* [protected, other]
  buckets,   \* the aggregators' queues: [cls, key, start, held]
  pending,   \* lines on their way to the sink
  clock,
  recorded,  \* events recorded so far
  lineNo,    \* lines made so far
  sunk,      \* events the sink has been given (history)
  crashed,   \* events lost with the memory (history)
  wrote,     \* wrote[st]: lines written whole, in order (history)
  newest,    \* last protected line sunk that a boot has not lost (history)
  faults     \* bound

auditVars == <<files, torn, disabled, ring, buckets, pending, clock, recorded, lineNo,
               sunk, crashed, wrote, newest, faults>>

Streams == {"security", "ops"}
Other == "other"

\* AuditStreamFor
StreamFor(cls) == IF cls = "fail" THEN "ops" ELSE "security"

AuditTypeOK ==
    /\ \A st \in Streams : /\ DOMAIN files[st] = 0 .. Files - 1
                           /\ Len(files[st][0]) <= MaxLines[st] + MaxFaults
    /\ torn \subseteq Streams /\ disabled \subseteq Streams
    /\ Len(ring.protected) <= RingCap /\ Len(ring.other) <= RingCap
    /\ \A i \in 1 .. Len(buckets) : buckets[i].key \in AggKeys \cup {Other}

AuditInit ==
    /\ files = [st \in Streams |-> [i \in 0 .. Files - 1 |-> <<>>]]
    /\ torn = {} /\ disabled = {}
    /\ ring = [protected |-> <<>>, other |-> <<>>]
    /\ buckets = <<>> /\ pending = <<>> /\ clock = 0
    /\ recorded = 0 /\ lineNo = 0 /\ sunk = 0 /\ crashed = 0
    /\ wrote = [st \in Streams |-> <<>>] /\ newest = 0 /\ faults = 0

-----------------------------------------------------------------------------
\* The ring.

\* Mutant: the oldest event stays.
PushUncapped(share, ev) == share \o <<ev>>

\* pushCapped
PushCapped(share, ev) == (IF Len(share) >= RingCap THEN Tail(share) ELSE share) \o <<ev>>

\* Mutant: the share goes by the stream alone.
AddByStream(r, ev) ==
    IF StreamFor(ev.cls) = "security" THEN [r EXCEPT !.protected = PushCapped(@, ev)]
    ELSE [r EXCEPT !.other = PushCapped(@, ev)]

\* Add, as the sink and the boot call it: high-value and not loopable.
Add(r, ev) ==
    IF ev.cls = "protected" THEN [r EXCEPT !.protected = PushCapped(@, ev)]
    ELSE [r EXCEPT !.other = PushCapped(@, ev)]

Smaller(a, b) == IF a < b THEN a ELSE b
LastOf(share, n) == SubSeq(share, Len(share) - n + 1, Len(share))

\* Recent: the protected events get at least half of the answer.
Recent(limit) ==
    LET most == Smaller(Smaller(limit, RingCap), Len(ring.protected) + Len(ring.other))
        reserve == Smaller(Len(ring.protected), (most + 1) \div 2)
        others == Smaller(Len(ring.other), most - reserve)
    IN  LastOf(ring.protected, Smaller(Len(ring.protected), most - others)) \o LastOf(ring.other, others)

-----------------------------------------------------------------------------
\* One stream.

\* Tail and the order of the files: the oldest line first.
Lines(fs) == FoldLeft(LAMBDA acc, i : fs[i - 1] \o acc, <<>>, [i \in 1 .. Files |-> i])
Readable(ls) == SelectSeq(ls, LAMBDA l : l.id # 0)
TailLines(fs) == LET ls == Lines(fs) IN IF Len(ls) > BootLines THEN LastOf(ls, BootLines) ELSE ls

\* One rename; a missing file moves nothing.
Renamed(fs, i) == IF fs[i] = <<>> THEN fs ELSE [fs EXCEPT ![i + 1] = fs[i], ![i] = <<>>]

\* Mutant: the last file is not removed first.
RotatedOver(fs, fail) ==
    FoldLeft(LAMBDA acc, k : IF Files - 1 - k \in fail THEN acc ELSE Renamed(acc, Files - 1 - k),
             fs, [k \in 1 .. Files - 1 |-> k])

\* rotateLocked: the last file is removed, then every other one moves up, the
\* highest first, but for those whose rename fails.
Rotated(fs, fail) ==
    FoldLeft(LAMBDA acc, k : IF Files - 1 - k \in fail THEN acc ELSE Renamed(acc, Files - 1 - k),
             [fs EXCEPT ![Files - 1] = <<>>], [k \in 1 .. Files - 1 |-> k])

\* Append of a line to stream st. A file at its size is rotated first: renames
\* may fail, and the new live file may be refused. The write may fail before
\* the line or inside it, and half a line spoils the next one.
AppendLine(st, l, fail, refused, write) ==
    LET full == Len(files[st][0]) >= MaxLines[st]
        fs == IF full THEN Rotated(files[st], fail) ELSE files[st]
        half == st \in torn /\ (full => 0 \in fail)
        line == IF half THEN [l EXCEPT !.id = 0] ELSE l
    IN  IF st \in disabled
        THEN fail = {} /\ ~refused /\ write = "ok" /\ UNCHANGED <<files, torn, disabled, wrote>>
        ELSE /\ fail # {} \/ refused => full
             /\ refused => write = "none"
             /\ files' = [files EXCEPT ![st] = IF write = "ok" THEN [fs EXCEPT ![0] = Append(@, line)] ELSE fs]
             /\ torn' = IF write = "half" \/ (half /\ write # "ok") THEN torn \cup {st} ELSE torn \ {st}
             /\ disabled' = IF refused THEN disabled \cup {st} ELSE disabled
             /\ wrote' = IF write = "ok" /\ ~half THEN [wrote EXCEPT ![st] = Append(@, l.id)] ELSE wrote

\* newestAt, or the file's own time when its last line cannot be read.
NewestAt(ls) == Last(ls).at

\* Prune: rotated files whose newest line is past the retention.
Pruned(fs) ==
    [i \in DOMAIN fs |-> IF i > 0 /\ fs[i] # <<>> /\ NewestAt(fs[i]) < clock - Retention THEN <<>> ELSE fs[i]]

-----------------------------------------------------------------------------
\* The aggregator and the sink.

Ended(b) == clock - b.start >= AggWindow
Line(no, cls, n) == [id |-> no, at |-> clock, cls |-> cls, n |-> n]

\* Mutant: the shared group of a kind has no summary.
HeldBackOwn(b) == b.held > 0 /\ b.key # Other

\* A window with repeats leaves a summary.
HeldBack(b) == b.held > 0

\* The elements of s that are in T, in order.
OneMore(was, x, T) == IF x \in T THEN Append(was, x) ELSE was
OnlyIn(s, T) ==
    LET kept[i \in 0 .. Len(s)] == IF i = 0 THEN <<>> ELSE OneMore(kept[i - 1], s[i], T)
    IN  kept[Len(s)]

\* flushLocked of the aggregators of the classes (loopable events have one,
\* failures the other): the summaries of the windows that have ended, and the
\* windows left. Windows end in the order of the queue.
Flushed(classes) ==
    LET over == OnlyIn(buckets, {b \in ToSet(buckets) : b.cls \in classes /\ Ended(b) /\ HeldBack(b)})
        inTurn == OnlyIn(over, {b \in ToSet(over) : b.cls = "loop"}) \o OnlyIn(over, {b \in ToSet(over) : b.cls # "loop"})
    IN  [lines |-> [i \in 1 .. Len(inTurn) |-> Line(lineNo + i, inTurn[i].cls, inTurn[i].held)],
         left |-> OnlyIn(buckets, {b \in ToSet(buckets) : b.cls \notin classes \/ ~Ended(b)})]
Both == {"loop", "fail"}

\* A call writes its lines before the next one starts.
Quiet == pending = <<>>
MoreEvents == Quiet /\ recorded < MaxEvents /\ recorded' = recorded + 1

\* FlushAudit, on its timer.
FlushAudit ==
    /\ Quiet /\ Flushed(Both).left # buckets
    /\ buckets' = Flushed(Both).left
    /\ pending' = pending \o Flushed(Both).lines
    /\ lineNo' = lineNo + Len(Flushed(Both).lines)
    /\ UNCHANGED <<files, torn, disabled, ring, clock, recorded, sunk, crashed, wrote, newest, faults>>

\* writeAudit: ended windows are written first.
WriteDirect(cls) ==
    LET out == Flushed(Both).lines IN
    /\ MoreEvents
    /\ buckets' = Flushed(Both).left
    /\ pending' = pending \o out \o <<Line(lineNo + Len(out) + 1, cls, 1)>>
    /\ lineNo' = lineNo + Len(out) + 1
    /\ UNCHANGED <<files, torn, disabled, ring, clock, sunk, crashed, wrote, newest, faults>>

\* Record: the first of a group is written, the others are counted; past the
\* bound a key shares the group of the rest.
RecordAggregated(cls, key) ==
    LET out == Flushed({cls}).lines
        left == Flushed({cls}).left
        At(k) == SelectInSeq(left, LAMBDA b : b.cls = cls /\ b.key = k)
        keyed == Len(SelectSeq(left, LAMBDA b : b.cls = cls /\ b.key # Other))
        k == IF At(key) = 0 /\ keyed >= MaxPerKind THEN Other ELSE key
    IN  /\ MoreEvents
        /\ IF At(k) # 0
           THEN /\ buckets' = [left EXCEPT ![At(k)].held = @ + 1]
                /\ pending' = pending \o out
                /\ lineNo' = lineNo + Len(out)
           ELSE /\ buckets' = Append(left, [cls |-> cls, key |-> k, start |-> clock, held |-> 0])
                /\ pending' = pending \o out \o <<Line(lineNo + Len(out) + 1, cls, 1)>>
                /\ lineNo' = lineNo + Len(out) + 1
        /\ UNCHANGED <<files, torn, disabled, ring, clock, sunk, crashed, wrote, newest, faults>>

\* WriteAudit: the ring, then the file.
Sink(fail, refused, write) ==
    LET l == Head(pending) IN
    /\ pending # <<>>
    /\ pending' = Tail(pending)
    /\ ring' = Add(ring, l)
    /\ AppendLine(StreamFor(l.cls), l, fail, refused, write)
    /\ sunk' = sunk + l.n
    /\ newest' = IF l.cls = "protected" THEN l.id ELSE newest
    /\ faults' = faults + (IF fail # {} \/ write # "ok" THEN 1 ELSE 0)
    /\ UNCHANGED <<buckets, clock, recorded, lineNo, crashed>>

\* PruneAudit, once a day.
PruneAudit ==
    /\ Quiet
    /\ \E st \in Streams : Pruned(files[st]) # files[st]
    /\ files' = [st \in Streams |-> Pruned(files[st])]
    /\ UNCHANGED <<torn, disabled, ring, buckets, pending, clock, recorded, lineNo,
                   sunk, crashed, wrote, newest, faults>>

AuditTick ==
    /\ Quiet /\ clock < MaxNow /\ clock' = clock + 1
    /\ UNCHANGED <<files, torn, disabled, ring, buckets, pending, recorded, lineNo,
                   sunk, crashed, wrote, newest, faults>>

\* openAuditSink: the files are pruned, and their last lines fill the ring in
\* the order of their times.
AuditBoot ==
    LET kept == [st \in Streams |-> Pruned(files[st])]
        tails == Readable(TailLines(kept["security"])) \o Readable(TailLines(kept["ops"]))
        inTime == SortSeq(tails, LAMBDA a, b : a.at < b.at \/ (a.at = b.at /\ a.cls # "fail" /\ b.cls = "fail")
                                                \/ (a.at = b.at /\ (a.cls = "fail") = (b.cls = "fail") /\ a.id < b.id))
        found == {i \in 1 .. Len(tails) : tails[i].cls = "protected"}
    IN  /\ files' = kept
        /\ disabled' = {}
        /\ ring' = FoldLeft(Add, [protected |-> <<>>, other |-> <<>>], inTime)
        /\ buckets' = <<>> /\ pending' = <<>>
        /\ crashed' = recorded - sunk
        /\ newest' = IF found = {} THEN 0 ELSE tails[Max(found)].id
        /\ UNCHANGED <<torn, clock, recorded, lineNo, sunk, wrote, faults>>

-----------------------------------------------------------------------------
Total(ns) ==
    LET sum[i \in 0 .. Len(ns)] == IF i = 0 THEN 0 ELSE sum[i - 1] + ns[i]
    IN  sum[Len(ns)]

\* Every event recorded is written, counted in a summary, or still counted in
\* an open window; only a restart forgets any (Record, flushLocked).
EventsAccounted ==
    recorded = sunk + crashed + Total([i \in 1 .. Len(pending) |-> pending[i].n])
                              + Total([i \in 1 .. Len(buckets) |-> buckets[i].held])

\* However many failures and loopable events there are, the newest protected
\* event is in the shortest answer of the audit page, after a restart too if
\* the boot found its line (Add, Recent, openAuditSink).
NewestProtectedShown ==
    newest # 0 => \E i \in 1 .. Len(Recent(2)) : Recent(2)[i].id = newest

\* Whatever renames fail in a rotation, the files hold the lines last written,
\* in order and without a gap (rotateLocked, Tail).
TrailIsSuffix ==
    \A st \in Streams :
      LET ls == Readable(Lines(files[st]))
      IN  IsSuffix([i \in 1 .. Len(ls) |-> ls[i].id], wrote[st])

\* The trail is complete: events, ring and files together.
AuditSound == AuditTypeOK /\ EventsAccounted /\ NewestProtectedShown /\ TrailIsSuffix
=============================================================================
