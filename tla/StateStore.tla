----------------------------- MODULE StateStore -----------------------------
(***************************************************************************)
(* The state file of internal/store: API keys, settings and the session    *)
(* time credited to each key, all in one file.  Every operation changes    *)
(* the memory under the store lock and writes the whole of it; the write   *)
(* is a new file renamed over the old one, so it happens or it does not.   *)
(*                                                                         *)
(* Used seconds are abstracted to the number of times a session was        *)
(* credited to a row.                                                      *)
(***************************************************************************)
EXTENDS Integers

CONSTANTS Sessions, Keys,
          Unknown,    \* the row of sessions nobody is known to have opened
          Values,     \* values of a setting
          MaxCredits  \* bound: credits of one session to one row

ASSUME StoreAssumption ==
    /\ Unknown \notin Keys /\ Keys # {} /\ Values # {}
    /\ MaxCredits \in Nat \ {0}

VARIABLES
  mem,    \* Store.st
  file,   \* the state file
  told,   \* what its caller was told of a key or the setting, a revocation
          \* for good (history)
  shaky   \* keys revoked by an operation no save has written (history)

storeVars == <<mem, file, told, shaky>>

Rows == Keys \cup {Unknown}

StoreState ==
    [keys : [Keys -> {"none", "active", "revoked"}],
     setting : Values,
     opener : [Sessions -> Rows],        \* OpenSessions; Unknown: not tracked
     credit : [Sessions -> [Rows -> 0 .. MaxCredits]]]

StoreTypeOK ==
    /\ {mem, file} \subseteq StoreState
    /\ told \in [keys : [Keys -> {"none", "active", "revoked"}], setting : Values]
    /\ shaky \subseteq Keys

StoreInit ==
    /\ mem = [keys |-> [k \in Keys |-> "none"], setting |-> CHOOSE v \in Values : TRUE,
              opener |-> [s \in Sessions |-> Unknown],
              credit |-> [s \in Sessions |-> [r \in Rows |-> 0]]]
    /\ file = mem
    /\ told = [keys |-> mem.keys, setting |-> mem.setting]
    /\ shaky = {}

-----------------------------------------------------------------------------
\* save: st is the memory, and the file too if the write works.
Save(st, ok) ==
    /\ mem' = st
    /\ file' = IF ok THEN st ELSE file
    /\ shaky' = {k \in Keys : k \in shaky \/ (st.keys[k] = "revoked" /\ mem.keys[k] = "active")} \
                IF ok THEN {k \in Keys : st.keys[k] = "revoked"} ELSE {}

\* Mutant: only an active key is a collision.
AddKeyOverTombstone(k, ok) ==
    /\ mem.keys[k] # "active"
    /\ Save([mem EXCEPT !.keys[k] = "active"], ok)
    /\ told' = IF ok /\ told.keys[k] # "revoked" THEN [told EXCEPT !.keys[k] = "active"] ELSE told

\* AddKey: no collision with any record, a tombstone included.
AddKey(k, ok) ==
    /\ mem.keys[k] = "none"
    /\ Save([mem EXCEPT !.keys[k] = "active"], ok)
    /\ told' = IF ok /\ told.keys[k] # "revoked" THEN [told EXCEPT !.keys[k] = "active"] ELSE told

\* RevokeKey: the caller of a second one is told it is revoked, and nothing
\* is written.
RevokeKey(k, ok) ==
    \/ /\ mem.keys[k] = "active"
       /\ Save([mem EXCEPT !.keys[k] = "revoked"], ok)
       /\ told' = IF ok THEN [told EXCEPT !.keys[k] = "revoked"] ELSE told
    \/ /\ mem.keys[k] = "revoked"
       /\ told' = [told EXCEPT !.keys[k] = "revoked"]
       /\ UNCHANGED <<mem, file, shaky>>

\* Mutant: a failed save leaves the new settings in memory.
UpdateSettingsKeeps(v, ok) ==
    /\ Save([mem EXCEPT !.setting = v], ok)
    /\ told' = IF ok THEN [told EXCEPT !.setting = v] ELSE told

\* UpdateSettings puts the old settings back when the write fails.
UpdateSettings(v, ok) ==
    /\ IF ok THEN Save([mem EXCEPT !.setting = v], TRUE) ELSE UNCHANGED <<mem, file, shaky>>
    /\ told' = IF ok THEN [told EXCEPT !.setting = v] ELSE told

\* The writes whose error nobody sees.
SaveQuietly(st, ok) ==
    /\ Save(st, ok)
    /\ UNCHANGED told

\* RecordUsage: its token counts are not modelled, its save is.
RecordUsage(ok) == SaveQuietly(mem, ok)

TrackSessionOpen(s, k, ok) == SaveQuietly([mem EXCEPT !.opener[s] = k], ok)

\* Mutant: the session stays tracked after its credit.
RecordSessionCloseKeepsOpener(s, ok) ==
    SaveQuietly([mem EXCEPT !.credit[s][mem.opener[s]] = IF @ < MaxCredits THEN @ + 1 ELSE @], ok)

\* RecordSessionClose: the row of the key that opened s, once.
RecordSessionClose(s, ok) ==
    SaveQuietly([mem EXCEPT !.credit[s][mem.opener[s]] = IF @ < MaxCredits THEN @ + 1 ELSE @,
                            !.opener[s] = Unknown], ok)

\* Open: a new process reads the file.
StoreBoot ==
    /\ mem' = file
    /\ UNCHANGED <<file, told, shaky>>

-----------------------------------------------------------------------------
\* A session is credited to one key, once, and then has no opener left to be
\* credited for it, in memory or in the file, though
\* closes are reported twice, saves fail and the process restarts
\* (TrackSessionOpen, RecordSessionClose).
KeyCreditedOnce ==
    \A st \in {mem, file} : \A s \in Sessions : \A k \in Keys : st.credit[s][k] > 0 =>
      /\ st.credit[s][k] = 1 /\ st.opener[s] \notin Keys
      /\ \A l \in Keys \ {k} : st.credit[s][l] = 0

\* What an admin was told is done is in the file, so a restart keeps it: a
\* key made or revoked, the setting. The exception is a revocation that
\* failed to be written and was confirmed when it was asked for again. A
\* revocation is for good: no new key takes its record over.
ToldIsDurable ==
    /\ told.setting = file.setting /\ told.setting = mem.setting
    /\ \A k \in Keys :
         /\ told.keys[k] = "active" => file.keys[k] # "none"
         /\ told.keys[k] = "revoked" => file.keys[k] = "revoked" \/ k \in shaky

\* The state file: keys, the setting and what keys are billed for.
StoreSound == StoreTypeOK /\ KeyCreditedOnce /\ ToldIsDurable
=============================================================================
