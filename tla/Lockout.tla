------------------------------ MODULE Lockout ------------------------------
(***************************************************************************)
(* The failed-credential lockout of internal/adminauth/lockout.go: a       *)
(* schedule per client address for the password path (perIP), the same for *)
(* the master-key Bearer path (bearerIP), and an overall trip for the      *)
(* password path.                                                          *)
(*                                                                         *)
(* Times are countdowns, except since and tripped, which count up from the *)
(* last failure and the last trip and stop at Clean, the clean hour.       *)
(***************************************************************************)
EXTENDS Integers, FiniteSets, FiniteSetsExt, Functions

CONSTANTS IPs,
          FreeFailures,   \* failures of an address before it is locked
          MaxLock,        \* the longest lock, per address and overall
          Clean,          \* the clean hour
          Window,         \* the overall window
          GlobalMax,      \* failures in the window before the overall trip
          MaxTrackedIPs,  \* maxTrackedIPs
          MaxFails        \* bound: where the failure and wait counts stop

ASSUME LockoutAssumption ==
    /\ {FreeFailures, GlobalMax, MaxFails} \subseteq Nat
    /\ {MaxLock, Clean, Window, MaxTrackedIPs} \subseteq Nat \ {0}
    /\ MaxLock <= Clean /\ FreeFailures < MaxFails

VARIABLES
  perIP,     \* perIP: tracked address -> [fails, lock, since, waits]
  bearerIP,  \* bearerIP, the same
  recent,    \* global: failures by the time they have left in the window
  globalUntil, globalBackoff,
  tripped    \* time since globalLastTrip, Clean when none or that long ago

lockVars == <<perIP, bearerIP, recent, globalUntil, globalBackoff, tripped>>

\* waits counts the locks the address has waited out (history).
Entry == [fails : 0 .. MaxFails, lock : 0 .. MaxLock, since : 0 .. Clean, waits : 0 .. MaxFails]
NewEntry == [fails |-> 0, lock |-> 0, since |-> 0, waits |-> 0]

LockoutTypeOK ==
    /\ \A m \in {perIP, bearerIP} : DOMAIN m \subseteq IPs /\ \A ip \in DOMAIN m : m[ip] \in Entry
    /\ recent \in [1 .. Window -> 0 .. GlobalMax + 1]
    /\ globalUntil \in 0 .. MaxLock /\ globalBackoff \in 1 .. MaxLock
    /\ tripped \in 0 .. Clean

LockoutInit ==
    /\ perIP = <<>> /\ bearerIP = <<>>
    /\ recent = [i \in 1 .. Window |-> 0]
    /\ globalUntil = 0 /\ globalBackoff = 1
    /\ tripped = Clean

-----------------------------------------------------------------------------
UpTo(n, cap) == IF n > cap THEN cap ELSE n

\* The address has been clean for an hour and is not locked.
Lapsed(e) == e.fails > 0 /\ e.since = Clean /\ e.lock = 0

\* Allow and AllowBearer delete a lapsed entry as they go.
Forgive(m, ip) == IF ip \in DOMAIN m /\ Lapsed(m[ip]) THEN Restrict(m, DOMAIN m \ {ip}) ELSE m

Locked(m, ip) == ip \in DOMAIN m /\ m[ip].lock > 0
AllowBearer(ip) == ~Locked(bearerIP, ip)

\* Mutant: the address's own lock is not looked at.
AllowGlobalOnly(ip) == globalUntil = 0

Allow(ip) == globalUntil = 0 /\ ~Locked(perIP, ip)

\* Mutant: any entry is evicted, a locked one too.
EvictionsAny(m) == {Restrict(m, DOMAIN m \ {ip}) : ip \in DOMAIN m}

\* evictOne: one unlocked entry goes, whichever the map's order brings up.
\* With none the map grows.
Evictions(m) ==
    LET unlocked == {ip \in DOMAIN m : m[ip].lock = 0}
    IN  IF unlocked = {} THEN {m} ELSE {Restrict(m, DOMAIN m \ {ip}) : ip \in unlocked}

\* ensureIn: the tables in which ip has an entry, reset when it had lapsed.
Ensured(m, ip) ==
    IF ip \in DOMAIN m
    THEN {IF Lapsed(m[ip]) THEN [m EXCEPT ![ip] = NewEntry] ELSE m}
    ELSE LET rooms == IF Cardinality(DOMAIN m) >= MaxTrackedIPs THEN Evictions(m) ELSE {m}
         IN  {[k \in DOMAIN r \cup {ip} |-> IF k = ip THEN NewEntry ELSE r[k]] : r \in rooms}

\* Mutant: the doubling has no end.
LockForUncapped(n) == IF n <= FreeFailures THEN 0 ELSE 2 ^ (n - FreeFailures - 1)

\* The lock of the nth failure: none for the free ones, then doubling.
LockFor(n) == IF n <= FreeFailures THEN 0 ELSE UpTo(2 ^ (n - FreeFailures - 1), MaxLock)

\* The entry after one more failure, locked if lock is set and the free ones
\* are used up.
OneMore(e, lock) ==
    LET n == UpTo(e.fails + 1, MaxFails)
    IN  [fails |-> n, lock |-> IF lock /\ LockFor(n) > 0 THEN LockFor(n) ELSE e.lock,
         since |-> 0, waits |-> e.waits]

\* A failure counted for ip.
Struck(m, ip, lock) == {[t EXCEPT ![ip] = OneMore(t[ip], lock)] : t \in Ensured(m, ip)}

\* Failure: more than GlobalMax failures in the window, this one included,
\* trip the overall lock, and then the address itself is not locked.
Failure(ip) ==
    LET trips == SumFunction(recent) + 1 > GlobalMax
        backoff == IF tripped = Clean THEN 1 ELSE globalBackoff
    IN  /\ perIP' \in Struck(perIP, ip, ~trips)
        /\ recent' = [recent EXCEPT ![Window] = UpTo(@ + 1, GlobalMax + 1)]
        /\ globalUntil' = IF trips THEN backoff ELSE globalUntil
        /\ globalBackoff' = IF trips THEN UpTo(2 * backoff, MaxLock) ELSE backoff
        /\ tripped' = IF trips THEN 0 ELSE tripped
        /\ UNCHANGED bearerIP

\* FailureBearer: no overall window.
FailureBearer(ip) ==
    /\ bearerIP' \in Struck(bearerIP, ip, TRUE)
    /\ UNCHANGED <<perIP, recent, globalUntil, globalBackoff, tripped>>

Success(ip) ==
    /\ perIP' = Restrict(perIP, DOMAIN perIP \ {ip})
    /\ UNCHANGED <<bearerIP, recent, globalUntil, globalBackoff, tripped>>

SuccessBearer(ip) ==
    /\ bearerIP' = Restrict(bearerIP, DOMAIN bearerIP \ {ip})
    /\ UNCHANGED <<perIP, recent, globalUntil, globalBackoff, tripped>>

Pass(n) == IF n = 0 THEN 0 ELSE n - 1

\* waited: the overall lock ends with this tick.
Aged(m, waited) ==
    [ip \in DOMAIN m |->
       [fails |-> m[ip].fails, lock |-> Pass(m[ip].lock), since |-> UpTo(m[ip].since + 1, Clean),
        waits |-> UpTo(m[ip].waits + (IF waited \/ m[ip].lock = 1 THEN 1 ELSE 0), MaxFails)]]

LockoutTick ==
    /\ perIP' = Aged(perIP, globalUntil = 1)
    /\ bearerIP' = Aged(bearerIP, FALSE)
    /\ recent' = [i \in 1 .. Window |-> IF i = Window THEN 0 ELSE recent[i + 1]]
    /\ globalUntil' = Pass(globalUntil)
    /\ tripped' = UpTo(tripped + 1, Clean)
    /\ UNCHANGED globalBackoff
=============================================================================
