------------------------------- MODULE Uplink -------------------------------
(***************************************************************************)
(* The Uplink process (cmd/uplink main.go, restart.go; internal/api        *)
(* restart.go): it starts, serves, is stopped or restarted in place, or    *)
(* dies at any point, over the parts whose memory that takes away: the     *)
(* session pool and its boot reconcile, the state file, the audit trail    *)
(* and the daily reclaim.                                                  *)
(*                                                                         *)
(* A behaviour explores the parts of one scene; the others stand still.    *)
(***************************************************************************)
EXTENDS BootReconcile, AuditTrail, Housekeep

CONSTANTS Scenes,
          MaxStarts   \* bound: starts of the process, in the other scenes

VARIABLES
  scene,    \* what a behaviour explores (fixed)
  phase,    \* up, drain, close (CloseAllWithin), exec (about to start again), down
  again,    \* the restart variable of the drain loop
  signal,   \* a stop signal waits in the stop channel
  heard,    \* a stop signal came before the drain ended (history)
  targets,  \* sessions CloseAllWithin has left
  starts    \* bound

procVars == <<phase, again, signal, heard, targets>>
vars == <<bootVars, storeVars, auditVars, houseVars, procVars, scene, starts>>

In(s) == scene = s

Init ==
    /\ scene \in Scenes
    /\ BootInit /\ StoreInit /\ AuditInit /\ HouseInit
    /\ ~In("sessions") => /\ world = CHOOSE w \in Worlds : TRUE
                          /\ \A s \in world.before : life[s] = "old"
    /\ phase = "up" /\ again = FALSE /\ signal = FALSE /\ heard = FALSE /\ targets = {}
    /\ starts = 1

-----------------------------------------------------------------------------
\* The process.

\* Everything in memory is new; the chain, the files and the day go on.
StartAgain ==
    /\ starts < (IF In("sessions") THEN world.starts ELSE MaxStarts[scene]) /\ starts' = starts + 1
    /\ BootAgain /\ StoreBoot /\ AuditBoot /\ HouseBoot
    /\ phase' = "up" /\ again' = FALSE /\ signal' = FALSE /\ heard' = FALSE /\ targets' = {}
    /\ UNCHANGED scene

\* It dies wherever it is, or is started after it went down.
Crash == StartAgain

Held == UNCHANGED <<bootVars, storeVars, auditVars, houseVars, scene, starts>>

\* handleRestart and its hook: one at a time.
RestartRequested ==
    /\ phase = "up"
    /\ phase' = "drain" /\ again' = TRUE
    /\ UNCHANGED <<signal, heard, targets>> /\ Held

\* A stop signal ends the main loop, or waits in its channel.
StopSignal ==
    /\ phase \in {"up", "drain", "exec"} /\ ~signal
    /\ IF phase = "up" THEN phase' = "drain" /\ UNCHANGED signal
       ELSE signal' = TRUE /\ UNCHANGED phase
    /\ heard' = (heard \/ phase = "drain")
    /\ UNCHANGED <<again, targets>> /\ Held

\* drainThenDecide takes the signal while it waits for the drain.
DrainHearsStop ==
    /\ phase = "drain" /\ signal
    /\ signal' = FALSE /\ again' = FALSE
    /\ UNCHANGED <<phase, heard, targets>> /\ Held

\* Mutant: the end of the drain does not look for a signal.
RestartsBlind == again

\* The drain has ended: a signal that has come by then cancels the restart.
Restarts == again /\ ~signal

\* finishStop: requests have ended or 30 s are over. Then the binary is
\* started again, or the sessions are closed if that is configured
\* (closeTargets empties the pool).
Drained ==
    /\ phase = "drain"
    /\ IF Restarts THEN phase' = "exec" /\ UNCHANGED <<pool, targets>>
       ELSE \/ phase' = "down" /\ UNCHANGED <<pool, targets>>
            \/ /\ phase' = "close"
               /\ targets' = (Range(pool.entry) \ {NoSession}) \cup pool.shown
               /\ pool' = [pool EXCEPT !.entry = NewPool.entry]
    /\ signal' = FALSE
    /\ UNCHANGED <<again, heard, chainVars, gate, known, boot, unseen, line, skips, req>>
    /\ UNCHANGED <<storeVars, auditVars, houseVars, scene, starts>>

\* The ended windows are flushed before the new binary starts.
Exec ==
    /\ phase = "exec"
    /\ pending = <<>> /\ Flushed(Both).left = buckets
    /\ StartAgain

\* CloseAllWithin: one target, with the slot.
ShutdownClose(s) ==
    /\ phase = "close" /\ s \in targets /\ line = <<>>
    /\ targets' = targets \ {s}
    /\ \E out \in CloseOutcomes : CloseCall(s, out, pool)
    /\ UNCHANGED <<phase, again, signal, heard, gate, known, boot, unseen, line, skips, req>>
    /\ UNCHANGED <<storeVars, auditVars, houseVars, scene, starts>>

\* No target is left, or no time.
Exits ==
    /\ phase = "close"
    /\ phase' = "down" /\ targets' = {}
    /\ UNCHANGED <<again, signal, heard>> /\ Held

\* reconcileCancel ends a boot reconcile that waits to try again.
BootCancelled ==
    /\ phase # "up" /\ boot.pc = "list"
    /\ boot' = DoneBoot /\ gate' = FALSE
    /\ UNCHANGED <<chainVars, pool, known, unseen, line, skips, req>>
    /\ UNCHANGED <<storeVars, auditVars, houseVars, procVars, scene, starts>>

-----------------------------------------------------------------------------
\* The scenes.

NotSessions == UNCHANGED <<auditVars, houseVars, procVars, scene, starts>>
SessionsRun == In("sessions") /\ phase # "down"
WithPool(A) == SessionsRun /\ A /\ UNCHANGED storeVars /\ NotSessions

BootStep == WithPool((\E ok \in BOOLEAN : BootList(ok)) \/ (\E c \in BOOLEAN : BootApply(c)) \/ BootClose)
Arrives(r) == WithPool(phase = "up" /\ Arrive(r))
Enters(r) == WithPool(Enter(r))
Works(r) == WithPool(OpenBlind(r) \/ ScanAndOpen(r) \/ Post(r) \/ Done(r))
Tracks(r) == SessionsRun /\ (\E k \in Keys : Track(r, k)) /\ NotSessions
Ticks == WithPool(phase = "up" /\ SweepTick)
Sweeps(works) == WithPool(SweepHold(works))
Others(s) == WithPool(AdminClose(s) \/ (phase = "up" /\ (IdleClose(s) \/ Rehydrate)))
Credits(s) == SessionsRun /\ Credit(s) /\ NotSessions
Lapses(s) == WithPool(MarkLapses(s))
ChainMoves(s) == In("sessions") /\ (Lands(s) \/ Age(s)) /\ UNCHANGED storeVars /\ NotSessions

SessionStep ==
    \/ BootStep \/ Ticks
    \/ \E r \in Requests : Arrives(r) \/ Enters(r) \/ Works(r) \/ Tracks(r)
    \/ \E works \in BOOLEAN : Sweeps(works)
    \/ \E s \in Sessions : Others(s) \/ Credits(s) \/ Lapses(s) \/ ChainMoves(s)

\* Keys and settings.
StoreStep ==
    /\ In("keys") /\ phase # "down"
    /\ \E ok \in BOOLEAN :
         \/ \E k \in Keys : AddKey(k, ok) \/ RevokeKey(k, ok)
         \/ \E v \in Values : UpdateSettings(v, ok)
         \/ RecordUsage(ok)
    /\ UNCHANGED <<bootVars, auditVars, houseVars, procVars, scene, starts>>

\* The audit trail: events and their aggregation with the files sound, and
\* plain events with files that fail.
AnAuditScene == In("audit") \/ In("files")
AuditStep ==
    /\ AnAuditScene /\ phase # "down"
    /\ \/ FlushAudit \/ PruneAudit
       \/ (In("audit") => clock < AggWindow) /\ AuditTick
       \/ \E cls \in {"protected", "fail"} : WriteDirect(cls)
       \/ In("audit") /\ \E cls \in {"loop", "fail"}, key \in AggKeys : RecordAggregated(cls, key)
       \/ Sink({}, FALSE, "ok")
       \/ /\ In("files") /\ faults < MaxFaults
          /\ \E fail \in SUBSET (0 .. Files - 2), refused \in BOOLEAN, write \in {"ok", "none", "half"} :
               (fail # {} \/ write # "ok") /\ Sink(fail, refused, write)
    /\ UNCHANGED <<bootVars, storeVars, houseVars, procVars, scene, starts>>

InHouse(A) == In("reclaim") /\ A /\ UNCHANGED <<bootVars, storeVars, auditVars, procVars, scene, starts>>
HouseUp(A) == InHouse(phase # "down" /\ A)
HouseDay == InHouse(NextDay \/ Morning)
HouseWorks(r) == HouseUp((\E ok \in BOOLEAN : ReadHold(r, ok)) \/ Withdraw(r) \/ WithdrawFails(r))
HouseTick == HouseUp(StartPass("timer"))
HouseStep ==
    \/ HouseDay \/ HouseTick \/ HouseUp(StartPass("admin"))
    \/ \E r \in Runners : HouseWorks(r)

ProcessStep ==
    /\ (In("sessions") /\ Acts("stop")) \/ In("keys")
    /\ \/ RestartRequested \/ StopSignal \/ DrainHearsStop \/ Drained \/ Exec \/ Exits \/ BootCancelled
       \/ \E s \in Sessions : ShutdownClose(s)

Next == SessionStep \/ StoreStep \/ AuditStep \/ HouseStep \/ ProcessStep \/ Crash

\* Loops tick, the reclaim's on some day after the morning; days go by; requests,
\* holds, boot closes and passes come to an end, no request is passed over for
\* ever at its model's lock, and marks lapse; a sweep that
\* again and again finds a session at its end gets a close through. The boot's
\* attempts go on up to the deadline; past it they may fail for ever.
SweepCloses == (\E s \in Open : ~Usable(s)) /\ Sweeps(TRUE) /\ chain' # chain
Fairness ==
    /\ WF_vars(BootStep /\ ~(boot.pc = "list" /\ boot.late))
    /\ WF_vars(Ticks \/ \E works \in BOOLEAN : Sweeps(works)) /\ SF_vars(SweepCloses)
    /\ WF_vars(\E s \in Sessions : Lapses(s))
    /\ \A r \in Requests : SF_vars(Enters(r) \/ Works(r) \/ Tracks(r))
    /\ WF_vars(HouseDay) /\ SF_vars(HouseTick) /\ WF_vars(HouseWorks("timer"))

Spec == Init /\ [][Next]_vars /\ Fairness

-----------------------------------------------------------------------------
\* A stop signal that came before the drain ended is not answered by starting
\* the binary again (drainThenDecide).
StopHonoured == phase = "exec" => ~heard

\* The process: boot closes give their marks back and stops are stops.
ProcessSound == BootTypeOK /\ HouseTypeOK /\ MarkHasOwner /\ StopHonoured

\* Every session at its end is closed, so that its stake comes back, though
\* opens keep the slot busy, closes fail or are cut and the process restarts:
\* again and again there is none left (RunSweep, ScanOrphans).
ExpiredClosed == []<>(phase # "up" \/ \A s \in Sessions : chain[s] = "open" => Usable(s))

\* A request gets an answer, though the wallet cannot be listed at the start
\* (Gate, waitGate, StartupReconcile).
RequestEnds == \A r \in Requests : []<>(phase # "up" \/ req[r].pc = "idle")
=============================================================================
