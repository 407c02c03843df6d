----------------------------- MODULE Housekeep -----------------------------
(***************************************************************************)
(* The daily reclaim of stake that has come off hold                       *)
(* (internal/housekeep/housekeep.go): a timer and the console's button run *)
(* passes that read what is claimable and withdraw it in rounds; the day   *)
(* of the last pass that did not fail is remembered.                       *)
(***************************************************************************)
EXTENDS Integers

CONSTANTS MaxRounds,    \* MaxWithdrawRounds
          MaxClaim,     \* bound: claimable stake
          MaxFails      \* bound: passes that fail

ASSUME HousekeepAssumption == {MaxRounds, MaxClaim, MaxFails} \subseteq Nat \ {0}

VARIABLES
  claim,    \* stake claimable on chain
  owed,     \* stake came off hold and no withdrawal was sent since (history)
  early,    \* before AfterUTCMinute
  lastDay,  \* none, earlier, today
  looked,   \* a pass read the claimable stake today (history)
  pass,     \* pass[r]: [pc, day, rounds, startup] of the timer and the button
  fails     \* bound

houseVars == <<claim, owed, early, lastDay, looked, pass, fails>>

Runners == {"timer", "admin"}
NoPass == [pc |-> "idle", day |-> "today", rounds |-> 0, startup |-> FALSE]

HouseTypeOK ==
    /\ claim \in 0 .. MaxClaim
    /\ lastDay \in {"none", "earlier", "today"}
    /\ \A r \in Runners : /\ pass[r].pc \in {"idle", "read", "draw"}
                          /\ pass[r].day \in {"earlier", "today"}
                          /\ pass[r].rounds \in 0 .. MaxRounds

\* A new process: the boot pass is under way (Start, startupRun).
HouseMemory == [r \in Runners |-> IF r = "timer" THEN [NoPass EXCEPT !.pc = "read", !.startup = TRUE] ELSE NoPass]

HouseInit ==
    /\ claim = 0 /\ owed = FALSE
    /\ early = FALSE
    /\ lastDay = "none" /\ looked = FALSE
    /\ pass = HouseMemory
    /\ fails = 0

-----------------------------------------------------------------------------
\* Mutant: a pass that failed counts for the day.
DayAfterAlways(r, failed) == IF r = "admin" THEN "today" ELSE pass[r].day

\* The day a pass that ends leaves: the timer's is the day it started, the
\* button's the day it ends; one that failed leaves the day alone.
DayAfter(r, failed) ==
    IF failed THEN lastDay ELSE IF r = "admin" THEN "today" ELSE pass[r].day

\* A pass ends. A boot pass that failed, or whose close scan failed, is tried
\* again for a while.
EndPass(r, failed) ==
    /\ lastDay' = DayAfter(r, failed)
    /\ failed => fails < MaxFails
    /\ fails' = IF failed THEN fails + 1 ELSE fails
    /\ \/ pass' = [pass EXCEPT ![r] = NoPass]
       \/ pass[r].startup /\ pass' = [pass EXCEPT ![r] = HouseMemory[r]]

\* Mutant: any earlier pass will do.
AlreadyRanEver == lastDay # "none"

\* maybeRun's already
AlreadyRan == lastDay = "today"

\* The timer's tick, after AfterUTCMinute and once a day; the button always.
StartPass(r) ==
    /\ pass[r].pc = "idle"
    /\ r = "timer" => ~early /\ ~AlreadyRan
    /\ pass' = [pass EXCEPT ![r] = [NoPass EXCEPT !.pc = "read"]]
    /\ UNCHANGED <<claim, owed, early, lastDay, looked, fails>>

\* Run up to the first read of the stakes on hold; the close scan before it
\* may fail without ending the pass.
ReadHold(r, ok) ==
    /\ pass[r].pc = "read"
    /\ looked' = (looked \/ ok)
    /\ IF ok /\ claim > 0
       THEN pass' = [pass EXCEPT ![r].pc = "draw"] /\ UNCHANGED <<lastDay, fails>>
       ELSE EndPass(r, ~ok)
    /\ UNCHANGED <<claim, owed, early>>

\* One round: a withdrawal is sent, and what is left is read again.
Withdraw(r) ==
    /\ pass[r].pc = "draw" /\ claim > 0
    /\ claim' \in 0 .. claim - 1
    /\ owed' = FALSE
    /\ \E reread \in BOOLEAN :
         IF reread /\ claim' > 0 /\ pass[r].rounds + 1 < MaxRounds
         THEN pass' = [pass EXCEPT ![r].rounds = @ + 1] /\ UNCHANGED <<lastDay, fails>>
         ELSE EndPass(r, FALSE)
    /\ UNCHANGED <<early, looked>>

\* A withdrawal is refused: with nothing left to release, or with a revert
\* after an earlier round, the pass stops there; otherwise it failed.
WithdrawFails(r) ==
    /\ pass[r].pc = "draw"
    /\ \/ (claim = 0 \/ pass[r].rounds > 0) /\ EndPass(r, FALSE)
       \/ EndPass(r, TRUE)
    /\ UNCHANGED <<claim, owed, early, looked>>

\* 00:00 UTC: stake may come off hold. Then AfterUTCMinute.
NextDay ==
    /\ ~early
    /\ early' = TRUE /\ looked' = FALSE
    /\ claim' \in claim .. MaxClaim
    /\ owed' = (owed \/ claim' > claim)
    /\ lastDay' = IF lastDay = "none" THEN "none" ELSE "earlier"
    /\ pass' = [r \in Runners |-> [pass[r] EXCEPT !.day = IF pass[r].pc = "idle" THEN "today" ELSE "earlier"]]
    /\ UNCHANGED fails

Morning ==
    /\ early /\ early' = FALSE
    /\ UNCHANGED <<claim, owed, lastDay, looked, pass, fails>>

HouseBoot ==
    /\ lastDay' = "none" /\ pass' = HouseMemory
    /\ UNCHANGED <<claim, owed, early, looked, fails>>

-----------------------------------------------------------------------------
\* The day is not marked as done before what is claimable was read on it, so
\* stake that came off hold at midnight is not passed over. The exception is
\* a pass of the button that ran across midnight.
DayNotSkipped ==
    [][lastDay' = "today" /\ lastDay # "today" => looked' \/ pass["admin"].day = "earlier"]_houseVars

\* Stake that comes off hold is withdrawn, whatever fails on the way: again and
\* again none is owed (maybeRun, Run).
StakeReclaimed == []<>~owed
=============================================================================
