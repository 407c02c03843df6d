--------------------------- MODULE LockoutProofs ---------------------------
(***************************************************************************)
(* Lemmas about the lockout's operators, for any addresses, schedule and   *)
(* table size: what counting a failure, making room for an address and the *)
(* passing of time do to a table, and that they keep its type.             *)
(***************************************************************************)
EXTENDS Lockout, FiniteSetTheorems, TLAPS

\* A table of addresses, as both perIP and bearerIP are.
Table(m) == DOMAIN m \subseteq IPs /\ \A ip \in DOMAIN m : m[ip] \in Entry

-----------------------------------------------------------------------------
\* Doubling never reaches 0: 2^n counts the subsets of 1 .. n.
LEMMA DoublingPositive == \A n \in Nat : 2 ^ n \in Nat \ {0}
<1>1. TAKE n \in Nat
<1>2. IsFiniteSet(1 .. n) /\ Cardinality(1 .. n) = n
  BY FS_Interval
<1>3. IsFiniteSet(SUBSET (1 .. n)) /\ Cardinality(SUBSET (1 .. n)) = 2 ^ n
  BY <1>2, FS_SUBSET
<1>4. SUBSET (1 .. n) # {}
  OBVIOUS
<1>5. QED
  BY <1>3, <1>4, FS_EmptySet, FS_CardinalityType

\* A lock is never longer than MaxLock, and every failure after the free ones
\* locks for some time (the schedule in Failure and FailureBearer).
LEMMA LockForRange ==
    ASSUME NEW n \in Nat
    PROVE  LockFor(n) \in 0 .. MaxLock /\ (n > FreeFailures <=> LockFor(n) > 0)
<1>1. MaxLock \in Nat \ {0} /\ FreeFailures \in Nat
  BY LockoutAssumption
<1>2. CASE n <= FreeFailures
  BY <1>1, <1>2 DEF LockFor
<1>3. CASE n > FreeFailures
  <2>1. n - FreeFailures - 1 \in Nat
    BY <1>1, <1>3
  <2>2. 2 ^ (n - FreeFailures - 1) \in Nat \ {0}
    BY <2>1, DoublingPositive
  <2>3. QED
    BY <1>1, <1>3, <2>2 DEF LockFor, UpTo
<1>4. QED
  BY <1>1, <1>2, <1>3

\* Taking an address out of a table touches no other.
LEMMA RestrictTable ==
    ASSUME NEW m, Table(m), NEW S
    PROVE  LET r == Restrict(m, DOMAIN m \ S)
           IN  Table(r) /\ DOMAIN r = DOMAIN m \ S /\ \A k \in DOMAIN r : r[k] = m[k]
  BY DEF Table, Restrict

\* Allow and AllowBearer drop no locked address.
LEMMA ForgiveTable ==
    ASSUME NEW m, Table(m), NEW ip
    PROVE  LET r == Forgive(m, ip)
           IN  /\ Table(r) /\ DOMAIN r \subseteq DOMAIN m
               /\ \A k \in DOMAIN r : r[k] = m[k]
               /\ \A k \in DOMAIN m : m[k].lock > 0 => k \in DOMAIN r
<1>1. CASE ip \in DOMAIN m /\ Lapsed(m[ip])
  <2>1. Forgive(m, ip) = Restrict(m, DOMAIN m \ {ip})
    BY <1>1 DEF Forgive
  <2>2. m[ip].lock = 0
    BY <1>1 DEF Lapsed
  <2>3. LET r == Restrict(m, DOMAIN m \ {ip})
        IN  Table(r) /\ DOMAIN r = DOMAIN m \ {ip} /\ \A k \in DOMAIN r : r[k] = m[k]
    BY RestrictTable
  <2>4. QED
    BY <2>1, <2>2, <2>3
<1>2. CASE ~(ip \in DOMAIN m /\ Lapsed(m[ip]))
  BY <1>2 DEF Forgive
<1>3. QED
  BY <1>1, <1>2

\* Making room drops no locked address and changes none that stays.
LEMMA EvictionsTable ==
    ASSUME NEW m, Table(m), NEW r \in Evictions(m)
    PROVE  /\ Table(r) /\ DOMAIN r \subseteq DOMAIN m
           /\ \A k \in DOMAIN r : r[k] = m[k]
           /\ \A k \in DOMAIN m : m[k].lock > 0 => k \in DOMAIN r
<1>1. CASE r = m
  BY <1>1
<1>2. CASE \E ip \in DOMAIN m : m[ip].lock = 0 /\ r = Restrict(m, DOMAIN m \ {ip})
  <2>1. PICK ip \in DOMAIN m : m[ip].lock = 0 /\ r = Restrict(m, DOMAIN m \ {ip})
    BY <1>2
  <2>2. Table(r) /\ DOMAIN r = DOMAIN m \ {ip} /\ \A k \in DOMAIN r : r[k] = m[k]
    BY <2>1 DEF Table, Restrict
  <2>3. \A k \in DOMAIN m : m[k].lock > 0 => k # ip
    BY <2>1
  <2>4. QED
    BY <2>2, <2>3
<1>3. QED
  BY <1>1, <1>2 DEF Evictions

\* ensureIn: the address has an entry, its own or a new one, and what else is
\* in the table was there before; no locked address is lost.
LEMMA EnsuredTable ==
    ASSUME NEW m, Table(m), NEW ip \in IPs, NEW t \in Ensured(m, ip)
    PROVE  /\ Table(t) /\ ip \in DOMAIN t
           /\ t[ip] = NewEntry \/ (ip \in DOMAIN m /\ t[ip] = m[ip])
           /\ \A k \in DOMAIN t \ {ip} : k \in DOMAIN m /\ t[k] = m[k]
           /\ \A k \in DOMAIN m : m[k].lock > 0 => k \in DOMAIN t /\ t[k] = m[k]
<1>0. NewEntry \in Entry
  BY LockoutAssumption DEF NewEntry, Entry
<1>1. CASE ip \in DOMAIN m /\ Lapsed(m[ip])
  <2>1. t = [m EXCEPT ![ip] = NewEntry]
    BY <1>1 DEF Ensured
  <2>2. m[ip].lock = 0
    BY <1>1 DEF Lapsed
  <2>3. QED
    BY <1>0, <1>1, <2>1, <2>2 DEF Table
<1>2. CASE ip \in DOMAIN m /\ ~Lapsed(m[ip])
  BY <1>2 DEF Ensured
<1>3. CASE ip \notin DOMAIN m
  <2>1. PICK r \in Evictions(m) \cup {m} :
           t = [k \in DOMAIN r \cup {ip} |-> IF k = ip THEN NewEntry ELSE r[k]]
    BY <1>3 DEF Ensured
  <2>2. /\ Table(r) /\ DOMAIN r \subseteq DOMAIN m
        /\ \A k \in DOMAIN r : r[k] = m[k]
        /\ \A k \in DOMAIN m : m[k].lock > 0 => k \in DOMAIN r
    BY <2>1, EvictionsTable
  <2>3. QED
    BY <1>0, <1>3, <2>1, <2>2 DEF Table
<1>4. QED
  BY <1>1, <1>2, <1>3

\* A failure counts once for its address, after the entry it had or a new
\* one; past the free failures it locks the address when a lock is asked for,
\* and it unlocks nobody.
LEMMA StruckTable ==
    ASSUME NEW m, Table(m), NEW ip \in IPs, NEW lock \in BOOLEAN, NEW t \in Struck(m, ip, lock)
    PROVE  /\ Table(t) /\ ip \in DOMAIN t
           /\ \E e \in Entry :
                 /\ e = NewEntry \/ (ip \in DOMAIN m /\ e = m[ip])
                 /\ t[ip].fails = UpTo(e.fails + 1, MaxFails)
                 /\ t[ip].waits = e.waits
                 /\ lock /\ t[ip].fails > FreeFailures => t[ip].lock > 0
           /\ \A k \in DOMAIN t \ {ip} : k \in DOMAIN m /\ t[k] = m[k]
           /\ \A k \in DOMAIN m : m[k].lock > 0 => k \in DOMAIN t /\ t[k].lock > 0
<1>0. MaxFails \in Nat /\ FreeFailures \in Nat /\ MaxLock \in Nat /\ Clean \in Nat
  BY LockoutAssumption
<1>1. PICK u \in Ensured(m, ip) : t = [u EXCEPT ![ip] = OneMore(u[ip], lock)]
  BY DEF Struck
<1>2. /\ Table(u) /\ ip \in DOMAIN u
      /\ u[ip] = NewEntry \/ (ip \in DOMAIN m /\ u[ip] = m[ip])
      /\ \A k \in DOMAIN u \ {ip} : k \in DOMAIN m /\ u[k] = m[k]
      /\ \A k \in DOMAIN m : m[k].lock > 0 => k \in DOMAIN u /\ u[k] = m[k]
  BY EnsuredTable
<1> DEFINE e == u[ip]
           n == UpTo(e.fails + 1, MaxFails)
<1>3. e \in Entry
  BY <1>2 DEF Table
<1>4. n \in 0 .. MaxFails
  BY <1>0, <1>3 DEF Entry, UpTo
<1>5. LockFor(n) \in 0 .. MaxLock /\ (n > FreeFailures <=> LockFor(n) > 0)
  BY <1>0, <1>4, LockForRange
<1> DEFINE l == IF lock /\ LockFor(n) > 0 THEN LockFor(n) ELSE e.lock
<1>6. OneMore(e, lock) = [fails |-> n, lock |-> l, since |-> 0, waits |-> e.waits]
  BY DEF OneMore
<1>7. l \in 0 .. MaxLock
  BY <1>3, <1>5 DEF Entry
<1> HIDE DEF l, n
<1>8. /\ DOMAIN t = DOMAIN u
      /\ t[ip] = [fails |-> n, lock |-> l, since |-> 0, waits |-> e.waits]
      /\ \A k \in DOMAIN u \ {ip} : t[k] = u[k]
  BY <1>1, <1>2, <1>6
<1>9. Table(t) /\ ip \in DOMAIN t
  BY <1>0, <1>2, <1>3, <1>4, <1>7, <1>8 DEF Table, Entry
<1>10. lock /\ n > FreeFailures => l > 0
  BY <1>5 DEF l
<1>11. e.lock > 0 => l > 0
  BY DEF l
<1>12. n = UpTo(e.fails + 1, MaxFails)
  BY DEF n
<1> HIDE DEF e
<1>13. \A k \in DOMAIN m : m[k].lock > 0 => k \in DOMAIN t /\ t[k].lock > 0
  BY <1>2, <1>8, <1>11 DEF e
<1>14. QED
  BY <1>2, <1>3, <1>8, <1>9, <1>10, <1>12, <1>13 DEF e

\* Time: counts stay, locks run down by one, and a lock that ends (the
\* address's own, or the overall one) is counted as waited out.
LEMMA AgedTable ==
    ASSUME NEW m, Table(m), NEW waited \in BOOLEAN
    PROVE  LET t == Aged(m, waited)
           IN  /\ Table(t) /\ DOMAIN t = DOMAIN m
               /\ \A k \in DOMAIN m :
                     /\ t[k].fails = m[k].fails
                     /\ t[k].lock = Pass(m[k].lock)
                     /\ t[k].waits = UpTo(m[k].waits + (IF waited \/ m[k].lock = 1 THEN 1 ELSE 0), MaxFails)
<1> USE LockoutAssumption DEF Entry, Aged, Pass, UpTo
<1>1. DOMAIN Aged(m, waited) = DOMAIN m
  OBVIOUS
<1>2. ASSUME NEW k \in DOMAIN m
      PROVE  Aged(m, waited)[k] \in Entry
  BY <1>2 DEF Table
<1>3. QED
  BY <1>1, <1>2 DEF Table

-----------------------------------------------------------------------------
LEMMA LockoutInitType == LockoutInit => LockoutTypeOK
  BY LockoutAssumption DEF LockoutInit, LockoutTypeOK

LEMMA LockoutTables == LockoutTypeOK => Table(perIP) /\ Table(bearerIP)
  BY DEF LockoutTypeOK, Table

\* A failure on the password path keeps the lockout's type.
LEMMA FailureType ==
    ASSUME LockoutTypeOK, NEW ip \in IPs, Failure(ip)
    PROVE  LockoutTypeOK'
<1> DEFINE trips == SumFunction(recent) + 1 > GlobalMax
           backoff == IF tripped = Clean THEN 1 ELSE globalBackoff
<1>1. Table(perIP) /\ Table(bearerIP)
  BY LockoutTables
<1>2. /\ perIP' \in Struck(perIP, ip, ~trips)
      /\ recent' = [recent EXCEPT ![Window] = UpTo(@ + 1, GlobalMax + 1)]
      /\ globalUntil' = IF trips THEN backoff ELSE globalUntil
      /\ globalBackoff' = IF trips THEN UpTo(2 * backoff, MaxLock) ELSE backoff
      /\ tripped' = IF trips THEN 0 ELSE tripped
      /\ bearerIP' = bearerIP
  BY DEF Failure
<1>3. Table(perIP')
  BY <1>1, <1>2, StruckTable
<1> HIDE DEF trips
<1>4. backoff \in 1 .. MaxLock
  BY LockoutAssumption DEF LockoutTypeOK
<1> HIDE DEF backoff
<1>5. recent' \in [1 .. Window -> 0 .. GlobalMax + 1]
  BY <1>2, LockoutAssumption DEF LockoutTypeOK, UpTo
<1>6. QED
  BY <1>1, <1>2, <1>3, <1>4, <1>5, LockoutAssumption DEF LockoutTypeOK, Table, UpTo

LEMMA FailureBearerType ==
    ASSUME LockoutTypeOK, NEW ip \in IPs, FailureBearer(ip)
    PROVE  LockoutTypeOK'
<1>1. Table(perIP) /\ Table(bearerIP)
  BY LockoutTables
<1>2. Table(bearerIP')
  BY <1>1, StruckTable DEF FailureBearer
<1>3. QED
  BY <1>1, <1>2 DEF FailureBearer, LockoutTypeOK, Table

LEMMA SuccessType ==
    ASSUME LockoutTypeOK, NEW ip, Success(ip) \/ SuccessBearer(ip)
    PROVE  LockoutTypeOK'
<1>1. Table(perIP) /\ Table(bearerIP)
  BY LockoutTables
<1>2. Table(perIP') /\ Table(bearerIP')
  BY <1>1, RestrictTable DEF Success, SuccessBearer
<1>3. QED
  BY <1>2 DEF Success, SuccessBearer, LockoutTypeOK, Table

\* The right credentials take their address out and no other.
LEMMA SuccessTable ==
    ASSUME NEW ip
    PROVE  /\ Success(ip) => /\ DOMAIN perIP' = DOMAIN perIP \ {ip}
                             /\ \A k \in DOMAIN perIP' : perIP'[k] = perIP[k]
           /\ SuccessBearer(ip) => /\ DOMAIN bearerIP' = DOMAIN bearerIP \ {ip}
                                   /\ \A k \in DOMAIN bearerIP' : bearerIP'[k] = bearerIP[k]
  BY DEF Success, SuccessBearer, Restrict

LEMMA LockoutTickType ==
    ASSUME LockoutTypeOK, LockoutTick
    PROVE  LockoutTypeOK'
<1>1. Table(perIP) /\ Table(bearerIP)
  BY LockoutTables
<1>2. Table(perIP') /\ Table(bearerIP')
  BY <1>1, AgedTable DEF LockoutTick
<1>3. recent' \in [1 .. Window -> 0 .. GlobalMax + 1]
  BY LockoutAssumption DEF LockoutTypeOK, LockoutTick
<1>4. globalUntil' \in 0 .. MaxLock /\ globalBackoff' \in 1 .. MaxLock /\ tripped' \in 0 .. Clean
  BY LockoutAssumption DEF LockoutTick, LockoutTypeOK, Pass, UpTo
<1>5. QED
  BY <1>2, <1>3, <1>4 DEF LockoutTypeOK, Table
=============================================================================
