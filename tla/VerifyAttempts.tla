--------------------------- MODULE VerifyAttempts ---------------------------
(***************************************************************************)
(* The login of the web page (POST /auth/verify) and the table of its      *)
(* failed attempts, kept per address and per device cookie.                *)
(*                                                                         *)
(* A request reads the clock first and the table later, under its mutex:   *)
(* what it does there is one step, on a time that may be a little old.     *)
(* The table is pruned now and then, holds at most Capacity identities and *)
(* makes room by giving up one that is not locked.                         *)
(***************************************************************************)
EXTENDS Integers, FiniteSets, Sequences

CONSTANTS
  Ips, Devices,    (* identities: addresses, and values of the device cookie *)
  Capacity,        (* VERIFY_ATTEMPT_CAPACITY                                *)
  Limit,           (* VERIFY_FAILURE_LIMIT                                   *)
  Lockout,         (* VERIFY_LOCKOUT, in ticks                               *)
  PruneInterval,   (* VERIFY_PRUNE_INTERVAL, in ticks                        *)
  Lag,             (* how long a request waits for the mutex, at most        *)
  None,
  MaxTime          (* bound: the clock                                       *)

Keys == Ips \cup Devices

Never == 0   \* locked_until: None

Attempts == [failures : 0 .. Limit, lockedUntil : Nat, expiresAt : Nat]

ASSUME VerifyAssumption ==
  /\ Ips \cap Devices = {}
  /\ {Capacity, Limit, Lockout, PruneInterval} \subseteq Nat \ {0}
  /\ Lag \in Nat /\ Lag < Lockout
  /\ MaxTime \in Nat
  /\ None \notin Attempts

VARIABLES
  time,        (* the clock                                                  *)
  attempts,    (* attempts[k]: the entry of identity k, or None              *)
  lastPruned,  (* last_pruned_at                                             *)
  requests,    (* requests that have read the clock                          *)
  tries        (* history: when wrong keys of k were compared, last ones;    *)
               (* forgotten with the entry when it is cleared or given up    *)

verifyVars == <<time, attempts, lastPruned, requests, tries>>

Requests == [ip : Ips, device : Devices, right : BOOLEAN, now : Nat]

Fresh == [failures |-> 0, lockedUntil |-> Never, expiresAt |-> 0]

VerifyTypeOK ==
  /\ time \in Nat
  /\ attempts \in [Keys -> Attempts \cup {None}]
  /\ Cardinality({k \in Keys : attempts[k] # None}) <= Capacity
  /\ lastPruned \in Nat
  /\ requests \subseteq Requests
  /\ tries \in [Keys -> Seq(Nat)]

VerifyInit ==
  /\ time = 1
  /\ attempts = [k \in Keys |-> None]
  /\ lastPruned = 0
  /\ requests = {}
  /\ tries = [k \in Keys |-> <<>>]

-----------------------------------------------------------------------------
(* The operations of VerifyAttemptStore.  "table" is its map.              *)

\* VerifyAttemptStore::locked_until().
Locked(table, k, now) == table[k] # None /\ table[k].lockedUntil > now

PruneDue(now) == now - lastPruned >= PruneInterval

\* Mutant: nothing is pruned.
PrunedNever(now) == attempts

\* prune_if_due().
Pruned(now) ==
  IF PruneDue(now)
  THEN [k \in Keys |-> IF attempts[k] # None /\ attempts[k].expiresAt > now THEN attempts[k] ELSE None]
  ELSE attempts

Put(table, k, entry) == [other \in Keys |-> IF other = k THEN entry ELSE table[other]]

Places(table) == {k \in Keys : table[k] # None}

\* Mutant: the oldest entry, locked or not.
EvictableAny(table, now) ==
  {k \in Places(table) : \A other \in Places(table) : table[k].expiresAt <= table[other].expiresAt}

\* evict_available(): of those that are not locked, one that expires first.
Evictable(table, now) ==
  LET unlocked == {k \in Places(table) : ~Locked(table, k, now)} IN
  {k \in unlocked : \A other \in unlocked : table[k].expiresAt <= table[other].expiresAt}

\* Mutant: one place more than there are.
HasPlaceMore(table, k) == table[k] # None \/ Cardinality(Places(table)) <= Capacity

HasPlace(table, k) == table[k] # None \/ Cardinality(Places(table)) < Capacity

\* The tables with a place for k; none if all others are locked.
WithRoom(table, k, now) ==
  IF HasPlace(table, k) THEN {table}
  ELSE {Put(table, v, None) : v \in Evictable(table, now)}

\* Mutant: the first wrong key past the limit locks.
CountedLate(a, now) ==
  LET base == IF a.lockedUntil # Never THEN Fresh ELSE a
      failures == IF base.failures = Limit THEN Limit ELSE base.failures + 1
  IN [failures |-> failures, expiresAt |-> now + Lockout,
      lockedUntil |-> IF base.failures = Limit THEN now + Lockout ELSE Never]

\* One more failure of an entry that is not locked; a lock that is over goes.
Counted(a, now) ==
  LET base == IF a.lockedUntil # Never THEN Fresh ELSE a
      failures == base.failures + 1
  IN [failures |-> failures, expiresAt |-> now + Lockout,
      lockedUntil |-> IF failures >= Limit THEN now + Lockout ELSE Never]

\* record_failure(): the tables it may leave.
Recorded(table, k, now) ==
  LET rooms == WithRoom(table, k, now) IN
  IF Locked(table, k, now) \/ rooms = {} THEN {table}
  ELSE {Put(room, k, Counted(IF room[k] = None THEN Fresh ELSE room[k], now)) : room \in rooms}

-----------------------------------------------------------------------------
Arrive(ip, device, right) ==
  /\ \A r \in requests : r.now < time   \* bound: of one tick, one at a time
  /\ requests' = requests \cup {[ip |-> ip, device |-> device, right |-> right, now |-> time]}
  /\ UNCHANGED <<time, attempts, lastPruned, tries>>

\* prune_if_due() begins every request that has come to the table.
Enter(r) ==
  /\ r \in requests
  /\ requests' = requests \ {r}
  /\ lastPruned' = IF PruneDue(r.now) THEN r.now ELSE lastPruned
  /\ UNCHANGED time

IsLocked(r) ==
  Locked(Pruned(r.now), r.ip, r.now) \/ Locked(Pruned(r.now), r.device, r.now)

\* 429 Too Many Requests, before the key is compared.
Refuse(r) ==
  /\ IsLocked(r)
  /\ Enter(r)
  /\ attempts' = Pruned(r.now)
  /\ UNCHANGED tries

LastOnes(s) == IF Len(s) > Limit + 1 THEN Tail(s) ELSE s

\* A wrong key: 401, or 429 if it has been one too many.  If the address is
\* locked by it, the device is not asked any more.
WrongKey(r) ==
  /\ ~IsLocked(r) /\ ~r.right
  /\ Enter(r)
  /\ \E first \in Recorded(Pruned(r.now), r.ip, r.now) :
       LET tried == IF Locked(first, r.ip, r.now) THEN {r.ip} ELSE {r.ip, r.device}
           GivenUp(before, after, k) == before[k] # None /\ after[k] = None
       IN
       /\ attempts' \in IF r.device \in tried THEN Recorded(first, r.device, r.now) ELSE {first}
       /\ tries' = [k \in Keys |->
            IF GivenUp(first, attempts', k) \/ (k \in tried /\ attempts'[k] = None) THEN <<>>
            ELSE LastOnes((IF GivenUp(Pruned(r.now), first, k) THEN <<>> ELSE tries[k])
                          \o (IF k \in tried THEN <<time>> ELSE <<>>))]

\* The right key: both identities are cleared, a session begins.
RightKey(r) ==
  /\ ~IsLocked(r) /\ r.right
  /\ Enter(r)
  /\ attempts' = [k \in Keys |-> IF k \in {r.ip, r.device} THEN None ELSE Pruned(r.now)[k]]
  /\ tries' = [k \in Keys |-> IF k \in {r.ip, r.device} THEN <<>> ELSE tries[k]]

Tick ==
  /\ time < MaxTime
  /\ \A r \in requests : time - r.now < Lag
  /\ time' = time + 1
  /\ UNCHANGED <<attempts, lastPruned, requests, tries>>

VerifyNext ==
  \/ \E ip \in Ips, device \in Devices, right \in BOOLEAN : Arrive(ip, device, right)
  \/ \E r \in requests : Refuse(r) \/ WrongKey(r) \/ RightKey(r)
  \/ Tick

VerifySpec == VerifyInit /\ [][VerifyNext]_verifyVars

-----------------------------------------------------------------------------
\* A lock lasts to its end: no right key, no eviction, no pruning and no
\* further attempt takes it away, shortens or extends it.
LockHolds ==
  [][\A k \in Keys :
       Locked(attempts, k, time) /\ Locked(attempts, k, time')
         => attempts'[k] # None /\ attempts'[k].lockedUntil = attempts[k].lockedUntil]_verifyVars

\* No identity has more than Limit wrong keys compared within a lockout, less
\* the time a request may wait for the table, unless its entry was cleared by
\* the right key, given up for another one, or found no place.
TriesLimited ==
  \A k \in Keys :
    Cardinality({i \in DOMAIN tries[k] : tries[k][i] > time - (Lockout - Lag)}) <= Limit

\* An identity is locked only for Limit wrong keys of its own, each of which
\* followed the one before within a lockout and the time to the next pruning.
LockedForCause ==
  \A k \in Keys : Locked(attempts, k, time) =>
    LET s == tries[k] IN
    /\ Len(s) >= Limit
    /\ \A i \in Len(s) - Limit + 1 .. Len(s) - 1 :
         s[i + 1] - s[i] < Lockout + PruneInterval + Lag
=============================================================================
