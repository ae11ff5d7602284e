------------------------ MODULE VerifyAttemptsProofs ------------------------
(***************************************************************************)
(* The limits of the login, for any number of addresses and devices and    *)
(* any capacity, limit and times.                                          *)
(***************************************************************************)
EXTENDS VerifyAttempts, FiniteSetTheorems, TLAPS

Entries == Attempts \cup {None}

\* Times of wrong keys, none later than "t" or than the last.
Timed(s, t) ==
  s \in Seq(Nat) /\ \A i \in 1 .. Len(s) : s[i] <= t /\ s[i] <= s[Len(s)]

\* The first n of them are out of any window of a lockout.
Old(s, n, t) == \A i \in 1 .. n : s[i] <= t - (Lockout - Lag)

\* The last n of them followed soon after each other.
Close(s, n) ==
  \A i \in Len(s) - n + 1 .. Len(s) - 1 : s[i + 1] - s[i] < Lockout + PruneInterval + Lag

\* What an entry "a" tells of the wrong keys "s" of its identity, after a pruning
\* at "pruned": its failures are the last of them, each soon after the other.
Tells(a, s, pruned) ==
  /\ a \in Attempts
  /\ a.failures > 0 /\ a.failures <= Len(s)
  /\ a.lockedUntil = IF a.failures < Limit THEN Never ELSE a.expiresAt
  /\ a.expiresAt > pruned
  /\ a.expiresAt - Lockout <= s[Len(s)] /\ s[Len(s)] <= a.expiresAt - Lockout + Lag
  /\ Close(s, a.failures)

Sound(a, s, t, pruned) ==
  /\ Timed(s, t)
  /\ a = None => Old(s, Len(s), t)
  /\ a # None => Tells(a, s, pruned) /\ Old(s, Len(s) - a.failures, t)

\* A request has read the clock no more than Lag ago.
ClocksKnown ==
  /\ time \in Nat /\ lastPruned \in Nat /\ lastPruned <= time
  /\ requests \subseteq Requests
  /\ \A r \in requests : r.now <= time /\ time <= r.now + Lag

TableTyped ==
  /\ attempts \in [Keys -> Entries]
  /\ tries \in [Keys -> Seq(Nat)]
  /\ IsFiniteSet(Places(attempts)) /\ Cardinality(Places(attempts)) <= Capacity

AllSound == \A k \in Keys : Sound(attempts[k], tries[k], time, lastPruned)

VerifyInv == ClocksKnown /\ TableTyped /\ AllSound

-----------------------------------------------------------------------------
(* One entry                                                               *)

LEMMA Parameters ==
  /\ Capacity \in Nat /\ Limit \in Nat /\ Lockout \in Nat /\ PruneInterval \in Nat /\ Lag \in Nat
  /\ Capacity > 0 /\ Limit > 0 /\ Lockout > 0 /\ PruneInterval > 0 /\ Lag < Lockout
  /\ None \notin Attempts
  BY VerifyAssumption

LEMMA AttemptTypes ==
  ASSUME NEW a \in Attempts
  PROVE  /\ a.failures \in Nat /\ a.lockedUntil \in Nat /\ a.expiresAt \in Nat
         /\ a.failures <= Limit
  BY Parameters DEF Attempts

\* The times of an entry that is over at "now" are old.
LEMMA OverIsOld ==
  ASSUME NEW a, NEW s, NEW t \in Nat, NEW pruned \in Nat, NEW now \in Nat,
         Timed(s, t), Tells(a, s, pruned), a.expiresAt <= now, now <= t
  PROVE  Old(s, Len(s), t)
  <1>1. a.expiresAt \in Nat /\ a.failures \in Nat
    BY AttemptTypes DEF Tells
  <1>2. Len(s) \in Nat /\ Len(s) > 0
    BY <1>1 DEF Tells, Timed
  <1>3. Len(s) \in 1 .. Len(s)
    BY <1>2
  <1>4. s[Len(s)] \in Nat
    BY <1>3 DEF Timed
  <1>5. s[Len(s)] <= a.expiresAt - Lockout + Lag
    BY DEF Tells
  <1>6. s[Len(s)] <= t - (Lockout - Lag)
    BY <1>1, <1>4, <1>5, Parameters
  <1>7. ASSUME NEW i \in 1 .. Len(s)
        PROVE  s[i] <= t - (Lockout - Lag)
    <2>1. s[i] \in Nat /\ s[i] <= s[Len(s)]
      BY DEF Timed
    <2>. QED
      BY <1>4, <1>6, <2>1, Parameters
  <1>. QED
    BY <1>7 DEF Old

\* History that is dropped in front is not missed.
LEMMA LastOnesSound ==
  ASSUME NEW a, NEW s, NEW t \in Nat, NEW pruned \in Nat, Sound(a, s, t, pruned)
  PROVE  Sound(a, LastOnes(s), t, pruned)
  <1>1. CASE ~ (Len(s) > Limit + 1)
    BY <1>1 DEF LastOnes
  <1>2. CASE Len(s) > Limit + 1
    <2>. DEFINE u == Tail(s)
                m == Len(u)
    <2>1. s \in Seq(Nat) /\ Len(s) \in Nat /\ Limit \in Nat
      BY Parameters DEF Sound, Timed
    <2>2. LastOnes(s) = u /\ u \in Seq(Nat) /\ m \in Nat /\ Len(s) = m + 1 /\ m > Limit
      BY <1>2, <2>1 DEF LastOnes
    <2>3. \A i \in 1 .. m : u[i] = s[i + 1]
      BY <1>2, <2>1
    <2>. HIDE DEF u
    <2>4. ASSUME NEW i \in 1 .. m
          PROVE  i + 1 \in 1 .. Len(s) /\ u[i] = s[i + 1]
      BY <2>2, <2>3
    <2>5. u[m] = s[Len(s)]
      <3>1. m \in 1 .. m
        BY <2>1, <2>2
      <3>. QED
        BY <2>2, <2>4, <3>1
    <2>6. Timed(u, t)
      BY <2>2, <2>4, <2>5 DEF Sound, Timed
    <2>7. a = None => Old(u, m, t)
      BY <2>4 DEF Sound, Old
    <2>. HIDE DEF m
    <2>8. ASSUME a # None
          PROVE  Tells(a, u, pruned) /\ Old(u, m - a.failures, t)
      <3>1. Tells(a, s, pruned) /\ Old(s, Len(s) - a.failures, t)
        BY <2>8 DEF Sound
      <3>2. a.failures \in Nat /\ a.failures <= Limit
        BY <3>1, AttemptTypes DEF Tells
      <3>3. ASSUME NEW i \in m - a.failures + 1 .. m - 1
            PROVE  u[i + 1] - u[i] < Lockout + PruneInterval + Lag
        <4>1. i \in 1 .. m /\ i + 1 \in 1 .. m
          BY <2>1, <2>2, <3>2, SMTT(40)
        <4>2. u[i] = s[i + 1] /\ u[i + 1] = s[(i + 1) + 1]
          BY <2>4, <4>1
        <4>3. i + 1 \in Len(s) - a.failures + 1 .. Len(s) - 1
          BY <2>1, <2>2, <3>2, SMTT(40)
        <4>. QED
          BY <3>1, <4>2, <4>3 DEF Tells, Close
      <3>4. ASSUME NEW i \in 1 .. m - a.failures
            PROVE  u[i] <= t - (Lockout - Lag)
        <4>1. i \in 1 .. m /\ i + 1 \in 1 .. Len(s) - a.failures
          BY <2>1, <2>2, <3>2, SMTT(40)
        <4>. QED
          BY <2>4, <3>1, <4>1 DEF Old
      <3>5. a.failures <= m
        BY <2>1, <2>2, <3>2
      <3>. QED
        BY <2>5, <3>1, <3>3, <3>4, <3>5 DEF Tells, Close, Old, m
    <2>. QED
      BY <2>2, <2>6, <2>7, <2>8 DEF Sound, m
  <1>. QED
    BY <1>1, <1>2

\* Time passes.
LEMMA LaterSound ==
  ASSUME NEW a, NEW s, NEW t \in Nat, NEW pruned \in Nat, Sound(a, s, t, pruned),
         NEW later \in Nat, t <= later
  PROVE  Sound(a, s, later, pruned)
  <1>1. Timed(s, later)
    <2>1. ASSUME NEW i \in 1 .. Len(s)
          PROVE  s[i] <= later /\ s[i] <= s[Len(s)]
      <3>1. s[i] \in Nat /\ s[i] <= t /\ s[i] <= s[Len(s)]
        BY DEF Sound, Timed
      <3>. QED
        BY <3>1
    <2>. QED
      BY <2>1 DEF Sound, Timed
  <1>2. ASSUME NEW n \in Nat, n <= Len(s), Old(s, n, t)
        PROVE  Old(s, n, later)
    <2>1. ASSUME NEW i \in 1 .. n
          PROVE  s[i] <= later - (Lockout - Lag)
      <3>1. i \in 1 .. Len(s) /\ s[i] <= t - (Lockout - Lag)
        BY <1>2 DEF Old, Sound, Timed
      <3>2. s[i] \in Nat
        BY <3>1 DEF Sound, Timed
      <3>. QED
        BY <3>1, <3>2, Parameters
    <2>. QED
      BY <2>1 DEF Old
  <1>3. Len(s) \in Nat
    BY DEF Sound, Timed
  <1>4. a # None => Len(s) - a.failures \in Nat /\ Len(s) - a.failures <= Len(s)
    <2>1. ASSUME a # None
          PROVE  a.failures \in Nat /\ a.failures <= Len(s)
      <3>1. a \in Attempts /\ a.failures <= Len(s)
        BY <2>1 DEF Sound, Tells
      <3>. QED
        BY <3>1, AttemptTypes
    <2>. QED
      BY <1>3, <2>1
  <1>. QED
    BY <1>1, <1>2, <1>3, <1>4 DEF Sound

\* What prune_if_due() leaves is sound, and what was over a pruning interval ago
\* is gone.
LEMMA PrunedSound ==
  ASSUME VerifyInv, NEW k \in Keys, NEW now \in Nat, now <= time
  PROVE  /\ Sound(Pruned(now)[k], tries[k], time, IF PruneDue(now) THEN now ELSE lastPruned)
         /\ Pruned(now)[k] # None => Pruned(now)[k].expiresAt > now - PruneInterval
         /\ Pruned(now)[k] \in {attempts[k], None}
  <1>. DEFINE a == attempts[k]
  <1>1. Sound(a, tries[k], time, lastPruned)
    BY DEF VerifyInv, AllSound
  <1>2. time \in Nat /\ lastPruned \in Nat
    BY DEF VerifyInv, ClocksKnown
  <1>3. a # None => a.expiresAt \in Nat /\ a.expiresAt > lastPruned
    BY <1>1, AttemptTypes DEF Sound, Tells
  <1>4. CASE ~ PruneDue(now)
    <2>1. Pruned(now) = attempts
      BY <1>4 DEF Pruned
    <2>2. now < lastPruned + PruneInterval
      BY <1>2, <1>4, Parameters DEF PruneDue
    <2>3. a # None => a.expiresAt > now - PruneInterval
      BY <1>2, <1>3, <2>2, Parameters
    <2>. QED
      BY <1>1, <1>4, <2>1, <2>3
  <1>5. CASE PruneDue(now) /\ a # None /\ a.expiresAt > now
    <2>1. Pruned(now)[k] = a
      BY <1>5 DEF Pruned
    <2>2. a.expiresAt > now - PruneInterval
      BY <1>3, <1>5, Parameters
    <2>. QED
      BY <1>1, <1>5, <2>1, <2>2 DEF Sound, Tells
  <1>6. CASE PruneDue(now) /\ ~ (a # None /\ a.expiresAt > now)
    <2>1. Pruned(now)[k] = None
      BY <1>6 DEF Pruned
    <2>2. Old(tries[k], Len(tries[k]), time)
      <3>1. CASE a = None
        BY <1>1, <3>1 DEF Sound
      <3>2. CASE a # None
        <4>1. a.expiresAt <= now
          BY <1>3, <1>6, <3>2
        <4>. QED
          BY <1>1, <1>2, <3>2, <4>1, OverIsOld DEF Sound
      <3>. QED
        BY <3>1, <3>2
    <2>. QED
      BY <1>1, <2>1, <2>2 DEF Sound
  <1>. QED
    BY <1>4, <1>5, <1>6

\* One more failure, counted in an entry that is not locked.
LEMMA CountedSound ==
  ASSUME NEW a, NEW s, NEW t \in Nat, NEW pruned \in Nat, NEW now \in Nat,
         Sound(a, s, t, pruned), pruned <= t, now <= t, t <= now + Lag,
         a # None => a.expiresAt > now - PruneInterval /\ ~ (a.lockedUntil > now)
  PROVE  Sound(Counted(IF a = None THEN Fresh ELSE a, now), s \o <<t>>, t, pruned)
  <1>. DEFINE old  == IF a = None THEN Fresh ELSE a
              base == IF old.lockedUntil # Never THEN Fresh ELSE old
              f    == base.failures
              b    == Counted(old, now)
              u    == s \o <<t>>
              n    == Len(s)
  <1>1. s \in Seq(Nat) /\ n \in Nat /\ \A i \in 1 .. n : s[i] \in Nat /\ s[i] <= t
    BY DEF Sound, Timed
  <1>2. u \in Seq(Nat) /\ Len(u) = n + 1 /\ u[n + 1] = t /\ \A i \in 1 .. n : u[i] = s[i]
    BY <1>1
  <1>3. a # None => /\ Tells(a, s, pruned) /\ Old(s, n - a.failures, t)
                    /\ a.failures \in Nat /\ a.lockedUntil \in Nat /\ a.expiresAt \in Nat
    BY AttemptTypes DEF Sound, Tells
  <1>4. Fresh.failures = 0 /\ Fresh.lockedUntil = Never
    BY DEF Fresh
  <1>5. /\ f \in Nat /\ f < Limit /\ f <= n
        /\ Old(s, n - f, t)
        /\ f > 0 => a # None /\ a.failures = f
    <2>1. CASE a = None
      <3>1. f = 0
        BY <1>4, <2>1
      <3>2. Old(s, n, t) /\ n - 0 = n
        BY <1>1, <2>1 DEF Sound
      <3>. QED
        BY <1>1, <3>1, <3>2, Parameters
    <2>2. CASE a # None /\ a.lockedUntil = Never
      <3>1. f = a.failures
        BY <2>2
      <3>2. a.failures < Limit
        BY <1>3, <2>2, Parameters DEF Tells, Never
      <3>. QED
        BY <1>3, <2>2, <3>1, <3>2 DEF Tells
    <2>3. CASE a # None /\ a.lockedUntil # Never
      <3>1. f = 0
        BY <1>4, <2>3
      <3>2. a.expiresAt <= now
        BY <1>3, <2>3 DEF Tells
      <3>3. Old(s, n, t) /\ n - 0 = n
        BY <1>1, <1>3, <2>3, <3>2, OverIsOld DEF Sound
      <3>. QED
        BY <1>1, <3>1, <3>3, Parameters
    <2>. QED
      BY <2>1, <2>2, <2>3
  <1>6. b = [failures |-> f + 1, expiresAt |-> now + Lockout,
             lockedUntil |-> IF f + 1 >= Limit THEN now + Lockout ELSE Never]
    BY DEF Counted
  <1>. HIDE DEF b, f, u, base, n
  <1>7. /\ b.failures = f + 1 /\ b.expiresAt = now + Lockout
        /\ b.lockedUntil = IF f + 1 >= Limit THEN now + Lockout ELSE Never
    BY <1>6
  <1>8. f + 1 \in 0 .. Limit /\ now + Lockout \in Nat /\ Never \in Nat
    BY <1>5, Parameters DEF Never
  <1>9. b \in Attempts
    BY <1>6, <1>8 DEF Attempts
  <1>10. Timed(u, t)
    <2>1. ASSUME NEW i \in 1 .. n + 1
          PROVE  u[i] <= t
      <3>1. CASE i = n + 1
        BY <1>2, <3>1
      <3>2. CASE i \in 1 .. n
        BY <1>1, <1>2, <3>2
      <3>. QED
        BY <1>1, <3>1, <3>2
    <2>. QED
      BY <1>2, <2>1 DEF Timed
  <1>11. Close(u, f + 1)
    <2>1. ASSUME NEW i \in (n + 1) - (f + 1) + 1 .. (n + 1) - 1
          PROVE  u[i + 1] - u[i] < Lockout + PruneInterval + Lag
      <3>1. f > 0 /\ i \in 1 .. n /\ u[i] = s[i] /\ n > 0
        BY <1>1, <1>2, <1>5
      <3>2. a # None /\ a.failures = f /\ Tells(a, s, pruned)
        BY <1>3, <1>5, <3>1
      <3>3. CASE i = n
        <4>1. u[i + 1] = t /\ u[i] = s[n] /\ s[n] \in Nat
          BY <1>1, <1>2, <3>1, <3>3
        <4>2. a.expiresAt - Lockout <= s[n]
          BY <3>2 DEF Tells, n
        <4>. QED
          BY <1>3, <3>2, <4>1, <4>2, Parameters
      <3>4. CASE i # n
        <4>1. i \in n - f + 1 .. n - 1 /\ i + 1 \in 1 .. n
          BY <1>1, <1>5, <3>1, <3>4
        <4>2. u[i + 1] = s[i + 1]
          BY <1>2, <4>1
        <4>. QED
          BY <3>1, <3>2, <4>1, <4>2 DEF Tells, Close, n
      <3>. QED
        BY <3>3, <3>4
    <2>. QED
      BY <1>2, <2>1 DEF Close
  <1>12. Old(u, (n + 1) - (f + 1), t)
    <2>1. ASSUME NEW i \in 1 .. (n + 1) - (f + 1)
          PROVE  u[i] <= t - (Lockout - Lag)
      <3>1. i \in 1 .. n - f /\ i \in 1 .. n
        BY <1>1, <1>5
      <3>. QED
        BY <1>2, <1>5, <3>1 DEF Old
    <2>. QED
      BY <2>1 DEF Old
  <1>13. b.expiresAt > pruned /\ f + 1 > 0 /\ f + 1 <= n + 1
    BY <1>1, <1>5, <1>7, Parameters
  <1>14. b.expiresAt - Lockout <= t /\ t <= b.expiresAt - Lockout + Lag
    BY <1>7, Parameters
  <1>15. b.lockedUntil = IF b.failures < Limit THEN Never ELSE b.expiresAt
    BY <1>5, <1>7, Parameters
  <1>16. Tells(b, u, pruned)
    BY <1>2, <1>7, <1>9, <1>11, <1>13, <1>14, <1>15 DEF Tells
  <1>. QED
    BY <1>2, <1>7, <1>9, <1>10, <1>12, <1>16, Parameters DEF Sound, b, u

LEMMA EmptySound ==
  ASSUME NEW t, NEW pruned
  PROVE  Sound(None, <<>>, t, pruned)
  BY DEF Sound, Timed, Old

-----------------------------------------------------------------------------
(* The table                                                               *)

IsTable(table) == table = [k \in Keys |-> table[k]]

FitsIn(places) == IsFiniteSet(places) /\ Cardinality(places) <= Capacity

\* Room is made at the cost of one identity that is not locked.
LEMMA RoomMade ==
  ASSUME NEW table, IsTable(table), NEW k \in Keys, NEW now, NEW room \in WithRoom(table, k, now)
  PROVE  /\ IsTable(room) /\ room[k] = table[k]
         /\ \A o \in Keys : room[o] = table[o] \/ (room[o] = None /\ ~ Locked(table, o, now))
         /\ FitsIn(Places(table)) => FitsIn(Places(room) \cup {k})
  <1>1. CASE HasPlace(table, k)
    <2>1. room = table
      BY <1>1 DEF WithRoom
    <2>2. ASSUME FitsIn(Places(table))
          PROVE  FitsIn(Places(table) \cup {k})
      <3>1. Cardinality(Places(table)) \in Nat
        BY <2>2, FS_CardinalityType DEF FitsIn
      <3>2. k \in Places(table) \/ Cardinality(Places(table)) < Capacity
        BY <1>1 DEF HasPlace, Places
      <3>3. /\ IsFiniteSet(Places(table) \cup {k})
            /\ Cardinality(Places(table) \cup {k}) =
                 IF k \in Places(table) THEN Cardinality(Places(table)) ELSE Cardinality(Places(table)) + 1
        BY <2>2, FS_AddElement DEF FitsIn
      <3>. QED
        BY <2>2, <3>1, <3>2, <3>3, Parameters DEF FitsIn
    <2>. QED
      BY <2>1, <2>2
  <1>2. CASE ~ HasPlace(table, k)
    <2>1. PICK v \in Evictable(table, now) : room = Put(table, v, None)
      BY <1>2 DEF WithRoom
    <2>2. v \in Places(table) /\ v \in Keys /\ ~ Locked(table, v, now) /\ v # k
      BY <1>2, <2>1 DEF Evictable, Places, HasPlace
    <2>3. \A o \in Keys : room[o] = IF o = v THEN None ELSE table[o]
      BY <2>1 DEF Put
    <2>4. IsTable(room)
      BY <2>1 DEF Put, IsTable
    <2>5. Places(room) = Places(table) \ {v}
      BY <2>2, <2>3 DEF Places
    <2>6. ASSUME FitsIn(Places(table))
          PROVE  FitsIn(Places(room) \cup {k})
      <3>1. Cardinality(Places(table)) \in Nat
        BY <2>6, FS_CardinalityType DEF FitsIn
      <3>2. IsFiniteSet(Places(room)) /\ Cardinality(Places(room)) = Cardinality(Places(table)) - 1
        BY <2>2, <2>5, <2>6, FS_RemoveElement DEF FitsIn
      <3>3. /\ IsFiniteSet(Places(room) \cup {k})
            /\ Cardinality(Places(room) \cup {k}) =
                 IF k \in Places(room) THEN Cardinality(Places(room)) ELSE Cardinality(Places(room)) + 1
        BY <3>2, FS_AddElement
      <3>. QED
        BY <2>6, <3>1, <3>2, <3>3, Parameters DEF FitsIn
    <2>. QED
      BY <2>2, <2>3, <2>4, <2>6
  <1>. QED
    BY <1>1, <1>2

\* What record_failure() does to each entry, and that the table stays in its
\* capacity.
LEMMA RecordedEntries ==
  ASSUME NEW table, IsTable(table), NEW k \in Keys, NEW now, NEW after \in Recorded(table, k, now)
  PROVE  /\ IsTable(after)
         /\ \A o \in Keys \ {k} : after[o] = table[o] \/ (after[o] = None /\ ~ Locked(table, o, now))
         /\ \/ after = table /\ (table[k] = None \/ Locked(table, k, now))
            \/ ~ Locked(table, k, now)
                 /\ after[k] = Counted(IF table[k] = None THEN Fresh ELSE table[k], now)
         /\ FitsIn(Places(table)) => FitsIn(Places(after))
  <1>1. CASE Locked(table, k, now)
    <2>1. after = table
      BY <1>1 DEF Recorded
    <2>. QED
      BY <1>1, <2>1
  <1>2. CASE ~ Locked(table, k, now) /\ WithRoom(table, k, now) = {}
    <2>1. after = table
      BY <1>2 DEF Recorded
    <2>2. table[k] = None
      BY <1>2 DEF WithRoom, HasPlace
    <2>. QED
      BY <2>1, <2>2
  <1>3. CASE ~ Locked(table, k, now) /\ WithRoom(table, k, now) # {}
    <2>1. PICK room \in WithRoom(table, k, now) :
            after = Put(room, k, Counted(IF room[k] = None THEN Fresh ELSE room[k], now))
      BY <1>3 DEF Recorded
    <2>2. /\ IsTable(room) /\ room[k] = table[k]
          /\ \A o \in Keys : room[o] = table[o] \/ (room[o] = None /\ ~ Locked(table, o, now))
          /\ FitsIn(Places(table)) => FitsIn(Places(room) \cup {k})
      BY RoomMade
    <2>3. IsTable(after)
      BY <2>1 DEF Put, IsTable
    <2>4. /\ after[k] = Counted(IF table[k] = None THEN Fresh ELSE table[k], now)
          /\ \A o \in Keys \ {k} : after[o] = room[o]
      BY <2>1, <2>2 DEF Put
    <2>5. Places(after) \in SUBSET (Places(room) \cup {k})
      BY <2>4 DEF Places
    <2>6. ASSUME FitsIn(Places(table))
          PROVE  FitsIn(Places(after))
      <3>1. FitsIn(Places(room) \cup {k})
        BY <2>2, <2>6
      <3>2. /\ IsFiniteSet(Places(after))
            /\ Cardinality(Places(after)) <= Cardinality(Places(room) \cup {k})
        BY <2>5, <3>1, FS_Subset DEF FitsIn
      <3>3. Cardinality(Places(after)) \in Nat /\ Cardinality(Places(room) \cup {k}) \in Nat
        BY <3>1, <3>2, FS_CardinalityType DEF FitsIn
      <3>. QED
        BY <3>1, <3>2, <3>3, Parameters DEF FitsIn
    <2>. QED
      BY <1>3, <2>2, <2>3, <2>4, <2>6
  <1>. QED
    BY <1>1, <1>2, <1>3

LEMMA PrunedTable ==
  ASSUME VerifyInv, NEW now
  PROVE  IsTable(Pruned(now)) /\ FitsIn(Places(Pruned(now)))
  <1>1. IsTable(attempts) /\ FitsIn(Places(attempts))
    BY DEF VerifyInv, TableTyped, IsTable, FitsIn
  <1>2. IsTable(Pruned(now))
    BY <1>1 DEF Pruned, IsTable
  <1>3. \A k \in Keys : Pruned(now)[k] \in {attempts[k], None}
    BY DEF Pruned
  <1>4. Places(Pruned(now)) \in SUBSET Places(attempts)
    BY <1>3 DEF Places
  <1>5. IsFiniteSet(Places(Pruned(now))) /\ Cardinality(Places(Pruned(now))) <= Cardinality(Places(attempts))
    BY <1>1, <1>4, FS_Subset DEF FitsIn
  <1>6. Cardinality(Places(Pruned(now))) \in Nat /\ Cardinality(Places(attempts)) \in Nat
    BY <1>1, <1>5, FS_CardinalityType DEF FitsIn
  <1>. QED
    BY <1>1, <1>2, <1>5, <1>6, Parameters DEF FitsIn

\* What a wrong key does to each identity: its entry is kept, or counts the try,
\* or goes together with what is known of its tries.
LEMMA WrongKeyEntries ==
  ASSUME VerifyInv, NEW r \in requests, WrongKey(r), NEW k \in Keys
  PROVE  LET table == Pruned(r.now)
             counted(entry) == Counted(IF entry = None THEN Fresh ELSE entry, r.now) IN
         /\ IsTable(attempts') /\ FitsIn(Places(attempts'))
         /\ DOMAIN tries' = Keys
         /\ Locked(table, k, r.now) => attempts'[k] = table[k]
         /\ \/ attempts'[k] = None /\ tries'[k] = <<>>
            \/ attempts'[k] = table[k] /\ tries'[k] = LastOnes(tries[k])
            \/ /\ ~ Locked(table, k, r.now)
               /\ attempts'[k] = counted(table[k])
               /\ tries'[k] = LastOnes(tries[k] \o <<time>>)
            \/ /\ attempts'[k] = counted(None)
               /\ tries'[k] = LastOnes(<<>> \o <<time>>)
  <1>. DEFINE table == Pruned(r.now)
              counted(entry) == Counted(IF entry = None THEN Fresh ELSE entry, r.now)
  <1>1. r.ip \in Keys /\ r.device \in Keys /\ r.ip # r.device
    BY VerifyAssumption DEF VerifyInv, ClocksKnown, Requests, Keys
  <1>2. ~ Locked(table, r.ip, r.now) /\ ~ Locked(table, r.device, r.now)
    BY DEF WrongKey, IsLocked
  <1>. DEFINE tried(first) == IF Locked(first, r.ip, r.now) THEN {r.ip} ELSE {r.ip, r.device}
              GivenUp(before, after, o) == before[o] # None /\ after[o] = None
  <1>3. PICK first \in Recorded(table, r.ip, r.now) :
          /\ attempts' \in IF r.device \in tried(first) THEN Recorded(first, r.device, r.now) ELSE {first}
          /\ tries' = [o \in Keys |->
               IF GivenUp(first, attempts', o) \/ (o \in tried(first) /\ attempts'[o] = None) THEN <<>>
               ELSE LastOnes((IF GivenUp(table, first, o) THEN <<>> ELSE tries[o])
                             \o (IF o \in tried(first) THEN <<time>> ELSE <<>>))]
    BY DEF WrongKey
  <1>4. IsTable(table) /\ FitsIn(Places(table))
    BY PrunedTable
  <1>5. /\ IsTable(first) /\ FitsIn(Places(first))
        /\ \A o \in Keys \ {r.ip} : first[o] = table[o] \/ (first[o] = None /\ ~ Locked(table, o, r.now))
        /\ \/ first = table /\ table[r.ip] = None
           \/ first[r.ip] = counted(table[r.ip])
    BY <1>1, <1>2, <1>4, RecordedEntries
  <1>6. \A o \in Keys \ {r.ip} : Locked(first, o, r.now) => Locked(table, o, r.now)
    BY <1>5 DEF Locked
  <1>7. /\ IsTable(attempts') /\ FitsIn(Places(attempts'))
        /\ \A o \in Keys \ {r.device} :
             attempts'[o] = first[o] \/ (attempts'[o] = None /\ ~ Locked(first, o, r.now))
        /\ r.device \notin tried(first) => attempts' = first
        /\ r.device \in tried(first) =>
             \/ attempts' = first /\ first[r.device] = None
             \/ attempts'[r.device] = counted(first[r.device])
    <2>1. CASE r.device \in tried(first)
      <3>1. ~ Locked(first, r.device, r.now)
        BY <1>1, <1>2, <1>6
      <3>. QED
        BY <1>1, <1>3, <1>5, <2>1, <3>1, RecordedEntries
    <2>2. CASE r.device \notin tried(first)
      BY <1>3, <1>5, <2>2
    <2>. QED
      BY <2>1, <2>2
  <1>8. tries'[k] =
          IF GivenUp(first, attempts', k) \/ (k \in tried(first) /\ attempts'[k] = None) THEN <<>>
          ELSE LastOnes((IF GivenUp(table, first, k) THEN <<>> ELSE tries[k])
                        \o (IF k \in tried(first) THEN <<time>> ELSE <<>>))
    BY <1>3
  <1>9. DOMAIN tries' = Keys
    BY <1>3
  <1>10. Locked(table, k, r.now) => attempts'[k] = table[k]
    <2>1. SUFFICES ASSUME Locked(table, k, r.now) PROVE attempts'[k] = table[k]
      OBVIOUS
    <2>2. k # r.ip /\ k # r.device /\ table[k] # None
      BY <1>2, <2>1 DEF Locked
    <2>3. first[k] = table[k]
      BY <1>5, <2>1, <2>2
    <2>4. Locked(first, k, r.now)
      BY <2>1, <2>3 DEF Locked
    <2>. QED
      BY <1>7, <2>2, <2>3, <2>4
  <1>11. tries[k] \o <<>> = tries[k] /\ LastOnes(<<>> \o <<>>) = <<>>
    <2>1. tries[k] \in Seq(Nat)
      BY DEF VerifyInv, TableTyped
    <2>2. <<>> \o <<>> = <<>> /\ ~ (Len(<<>>) > Limit + 1)
      BY Parameters
    <2>. QED
      BY <2>1, <2>2 DEF LastOnes
  <1>12. tries[k] \in Seq(Nat)
    BY DEF VerifyInv, TableTyped
  <1>. HIDE DEF table, counted
  <1>13. \/ attempts'[k] = None /\ tries'[k] = <<>>
         \/ attempts'[k] = table[k] /\ tries'[k] = LastOnes(tries[k])
         \/ /\ ~ Locked(table, k, r.now)
            /\ attempts'[k] = counted(table[k])
            /\ tries'[k] = LastOnes(tries[k] \o <<time>>)
         \/ /\ attempts'[k] = counted(None)
            /\ tries'[k] = LastOnes(<<>> \o <<time>>)
    <2>1. CASE k \notin tried(first)
      <3>1. first[k] = table[k] \/ first[k] = None
        BY <1>5, <2>1
      <3>2. attempts'[k] = first[k] \/ attempts'[k] = None
        BY <1>7, <2>1
      <3>. QED
        BY <1>8, <1>11, <2>1, <3>1, <3>2
    <2>2. CASE k \in tried(first) /\ attempts'[k] = None
      BY <1>8, <2>2
    <2>3. CASE k = r.ip /\ attempts'[k] # None
      <3>1. attempts'[k] = first[k] /\ first[k] = counted(table[k])
        BY <1>1, <1>5, <1>7, <2>3
      <3>2. tries'[k] = LastOnes(tries[k] \o <<time>>)
        BY <1>8, <2>3, <3>1
      <3>. QED
        BY <1>2, <2>3, <3>1, <3>2
    <2>4. CASE k = r.device /\ k \in tried(first) /\ attempts'[k] # None
      <3>1. attempts'[k] = counted(first[k])
        BY <1>7, <2>4
      <3>2. first[k] = table[k] \/ first[k] = None
        BY <1>1, <1>5, <2>4
      <3>3. CASE first[k] = table[k]
        BY <1>2, <1>8, <2>4, <3>1, <3>3
      <3>4. CASE first[k] = None /\ table[k] # None
        BY <1>8, <2>4, <3>1, <3>4
      <3>. QED
        BY <3>2, <3>3, <3>4
    <2>. QED
      BY <2>1, <2>2, <2>3, <2>4
  <1>. QED
    BY <1>7, <1>9, <1>10, <1>13 DEF table, counted

\* A lock that lasts is not pruned.
LEMMA LockKept ==
  ASSUME VerifyInv, NEW k \in Keys, NEW now \in Nat, now <= time, Locked(attempts, k, time)
  PROVE  Pruned(now)[k] = attempts[k] /\ Locked(Pruned(now), k, now)
  <1>1. attempts[k] # None /\ attempts[k].lockedUntil > time
    BY DEF Locked
  <1>2. Tells(attempts[k], tries[k], lastPruned)
    BY <1>1 DEF VerifyInv, AllSound, Sound
  <1>3. /\ attempts[k].lockedUntil \in Nat /\ attempts[k].expiresAt \in Nat
        /\ attempts[k].lockedUntil = Never \/ attempts[k].lockedUntil = attempts[k].expiresAt
    BY <1>2, AttemptTypes DEF Tells
  <1>4. time \in Nat
    BY DEF VerifyInv, ClocksKnown
  <1>5. attempts[k].expiresAt > now /\ attempts[k].lockedUntil > now
    BY <1>1, <1>3, <1>4 DEF Never
  <1>6. Pruned(now)[k] = attempts[k]
    BY <1>1, <1>5 DEF Pruned
  <1>. QED
    BY <1>1, <1>5, <1>6 DEF Locked

-----------------------------------------------------------------------------
(* The steps                                                               *)

\* What a table of sound entries is, put together.
LEMMA TableOfSound ==
  ASSUME VerifyInv, time' \in Nat, lastPruned' \in Nat,
         IsTable(attempts'), FitsIn(Places(attempts')),
         tries' = [k \in Keys |-> tries'[k]],
         \A k \in Keys : Sound(attempts'[k], tries'[k], time', lastPruned')
  PROVE  (TableTyped /\ AllSound)'
  <1>1. \A k \in Keys : attempts'[k] \in Entries /\ tries'[k] \in Seq(Nat)
    BY DEF Sound, Tells, Timed, Entries
  <1>2. attempts' \in [Keys -> Entries]
    BY <1>1 DEF IsTable
  <1>3. tries' \in [Keys -> Seq(Nat)]
    BY <1>1
  <1>. QED
    BY <1>2, <1>3 DEF TableTyped, AllSound, FitsIn

LEMMA InitInv == VerifyInit => VerifyInv
  <1>. SUFFICES ASSUME VerifyInit PROVE VerifyInv
    OBVIOUS
  <1>1. \A k \in Keys : attempts[k] = None /\ tries[k] = <<>>
    BY DEF VerifyInit
  <1>2. AllSound
    BY <1>1, EmptySound DEF AllSound
  <1>3. Places(attempts) = {}
    BY <1>1 DEF Places
  <1>4. TableTyped
    BY <1>3, FS_EmptySet, Parameters DEF VerifyInit, TableTyped, Entries
  <1>5. ClocksKnown
    BY DEF VerifyInit, ClocksKnown
  <1>. QED
    BY <1>2, <1>4, <1>5 DEF VerifyInv

\* A request that comes to the table: the clock it read is a recent one.
LEMMA Entering ==
  ASSUME VerifyInv, NEW r \in requests, Enter(r)
  PROVE  /\ ClocksKnown'
         /\ r.now \in Nat /\ r.now <= time /\ time <= r.now + Lag
         /\ time' = time /\ time \in Nat
         /\ lastPruned' = IF PruneDue(r.now) THEN r.now ELSE lastPruned
         /\ lastPruned' \in Nat /\ lastPruned' <= time
  <1>1. r.now \in Nat /\ r.now <= time /\ time <= r.now + Lag
    BY DEF VerifyInv, ClocksKnown, Requests
  <1>2. time' = time /\ requests' = requests \ {r}
    BY DEF Enter
  <1>3. lastPruned' = IF PruneDue(r.now) THEN r.now ELSE lastPruned
    BY DEF Enter
  <1>4. lastPruned' \in Nat /\ lastPruned' <= time
    BY <1>1, <1>3 DEF VerifyInv, ClocksKnown
  <1>5. ClocksKnown'
    BY <1>2, <1>4 DEF VerifyInv, ClocksKnown
  <1>. QED
    BY <1>1, <1>2, <1>3, <1>4, <1>5 DEF VerifyInv, ClocksKnown

LEMMA ArriveInv ==
  ASSUME VerifyInv, NEW ip \in Ips, NEW device \in Devices, NEW right \in BOOLEAN,
         Arrive(ip, device, right)
  PROVE  VerifyInv'
  <1>. DEFINE new == [ip |-> ip, device |-> device, right |-> right, now |-> time]
  <1>1. /\ requests' = requests \cup {new}
        /\ UNCHANGED <<time, attempts, lastPruned, tries>>
    BY DEF Arrive
  <1>2. time \in Nat /\ new \in Requests /\ new.now = time
    BY DEF VerifyInv, ClocksKnown, Requests
  <1>. HIDE DEF new
  <1>3. time <= new.now + Lag
    BY <1>2, Parameters
  <1>4. ClocksKnown'
    BY <1>1, <1>2, <1>3 DEF VerifyInv, ClocksKnown
  <1>5. TableTyped' /\ AllSound'
    BY <1>1 DEF VerifyInv, TableTyped, AllSound, Places
  <1>. QED
    BY <1>4, <1>5 DEF VerifyInv

LEMMA TickInv ==
  ASSUME VerifyInv, Tick
  PROVE  VerifyInv'
  <1>1. /\ \A r \in requests : time - r.now < Lag
        /\ time' = time + 1
        /\ UNCHANGED <<attempts, lastPruned, requests, tries>>
    BY DEF Tick
  <1>2. time \in Nat /\ time' \in Nat /\ time <= time'
    BY <1>1 DEF VerifyInv, ClocksKnown
  <1>3. ClocksKnown'
    <2>1. ASSUME NEW r \in requests
          PROVE  r.now <= time' /\ time' <= r.now + Lag
      <3>1. r.now \in Nat /\ r.now <= time
        BY DEF VerifyInv, ClocksKnown, Requests
      <3>. QED
        BY <1>1, <1>2, <3>1, Parameters
    <2>2. lastPruned <= time'
      BY <1>1, <1>2 DEF VerifyInv, ClocksKnown
    <2>. QED
      BY <1>1, <1>2, <2>1, <2>2 DEF VerifyInv, ClocksKnown
  <1>4. AllSound'
    <2>1. ASSUME NEW k \in Keys
          PROVE  Sound(attempts[k], tries[k], time', lastPruned)
      <3>1. Sound(attempts[k], tries[k], time, lastPruned) /\ lastPruned \in Nat
        BY DEF VerifyInv, AllSound, ClocksKnown
      <3>. QED
        BY <1>2, <3>1, LaterSound
    <2>. QED
      BY <1>1, <2>1 DEF AllSound
  <1>5. TableTyped'
    BY <1>1 DEF VerifyInv, TableTyped, Places
  <1>. QED
    BY <1>3, <1>4, <1>5 DEF VerifyInv

LEMMA RefuseInv ==
  ASSUME VerifyInv, NEW r \in requests, Refuse(r)
  PROVE  VerifyInv'
  <1>1. Enter(r) /\ attempts' = Pruned(r.now) /\ tries' = tries
    BY DEF Refuse
  <1>2. /\ ClocksKnown' /\ r.now \in Nat /\ r.now <= time /\ time' = time /\ time \in Nat
        /\ lastPruned' = (IF PruneDue(r.now) THEN r.now ELSE lastPruned) /\ lastPruned' \in Nat
    BY <1>1, Entering
  <1>3. \A k \in Keys : Sound(attempts'[k], tries'[k], time', lastPruned')
    BY <1>1, <1>2, PrunedSound
  <1>4. IsTable(attempts') /\ FitsIn(Places(attempts'))
    BY <1>1, PrunedTable
  <1>5. tries' = [k \in Keys |-> tries'[k]]
    BY <1>1 DEF VerifyInv, TableTyped
  <1>6. TableTyped' /\ AllSound'
    BY <1>2, <1>3, <1>4, <1>5, TableOfSound
  <1>. QED
    BY <1>2, <1>6 DEF VerifyInv

LEMMA RightKeyInv ==
  ASSUME VerifyInv, NEW r \in requests, RightKey(r)
  PROVE  VerifyInv'
  <1>1. /\ Enter(r)
        /\ attempts' = [k \in Keys |-> IF k \in {r.ip, r.device} THEN None ELSE Pruned(r.now)[k]]
        /\ tries' = [k \in Keys |-> IF k \in {r.ip, r.device} THEN <<>> ELSE tries[k]]
    BY DEF RightKey
  <1>2. /\ ClocksKnown' /\ r.now \in Nat /\ r.now <= time /\ time' = time /\ time \in Nat
        /\ lastPruned' = (IF PruneDue(r.now) THEN r.now ELSE lastPruned) /\ lastPruned' \in Nat
    BY <1>1, Entering
  <1>3. ASSUME NEW k \in Keys
        PROVE  Sound(attempts'[k], tries'[k], time', lastPruned')
    <2>1. CASE k \in {r.ip, r.device}
      BY <1>1, <2>1, EmptySound
    <2>2. CASE k \notin {r.ip, r.device}
      BY <1>1, <1>2, <2>2, PrunedSound
    <2>. QED
      BY <2>1, <2>2
  <1>4. IsTable(attempts') /\ tries' = [k \in Keys |-> tries'[k]]
    BY <1>1 DEF IsTable
  <1>5. FitsIn(Places(attempts'))
    <2>1. FitsIn(Places(Pruned(r.now)))
      BY PrunedTable
    <2>2. \A k \in Keys : attempts'[k] \in {Pruned(r.now)[k], None}
      BY <1>1
    <2>3. Places(attempts') \in SUBSET Places(Pruned(r.now))
      BY <2>2 DEF Places
    <2>4. IsFiniteSet(Places(attempts')) /\ Cardinality(Places(attempts')) <= Cardinality(Places(Pruned(r.now)))
      BY <2>1, <2>3, FS_Subset DEF FitsIn
    <2>5. Cardinality(Places(attempts')) \in Nat /\ Cardinality(Places(Pruned(r.now))) \in Nat
      BY <2>1, <2>4, FS_CardinalityType DEF FitsIn
    <2>. QED
      BY <2>1, <2>4, <2>5, Parameters DEF FitsIn
  <1>6. TableTyped' /\ AllSound'
    BY <1>2, <1>3, <1>4, <1>5, TableOfSound
  <1>. QED
    BY <1>2, <1>6 DEF VerifyInv

LEMMA WrongKeyInv ==
  ASSUME VerifyInv, NEW r \in requests, WrongKey(r)
  PROVE  VerifyInv'
  <1>1. Enter(r)
    BY DEF WrongKey
  <1>2. /\ ClocksKnown' /\ r.now \in Nat /\ r.now <= time /\ time <= r.now + Lag
        /\ time' = time /\ time \in Nat
        /\ lastPruned' = (IF PruneDue(r.now) THEN r.now ELSE lastPruned)
        /\ lastPruned' \in Nat /\ lastPruned' <= time
    BY <1>1, Entering
  <1>. DEFINE table == Pruned(r.now)
              counted(entry) == Counted(IF entry = None THEN Fresh ELSE entry, r.now)
  <1>3. ASSUME NEW k \in Keys
        PROVE  Sound(attempts'[k], tries'[k], time, lastPruned')
    <2>1. /\ Sound(table[k], tries[k], time, lastPruned')
          /\ table[k] # None => table[k].expiresAt > r.now - PruneInterval
      BY <1>2, PrunedSound
    <2>2. \/ attempts'[k] = None /\ tries'[k] = <<>>
          \/ attempts'[k] = table[k] /\ tries'[k] = LastOnes(tries[k])
          \/ /\ ~ Locked(table, k, r.now)
             /\ attempts'[k] = counted(table[k])
             /\ tries'[k] = LastOnes(tries[k] \o <<time>>)
          \/ /\ attempts'[k] = counted(None)
             /\ tries'[k] = LastOnes(<<>> \o <<time>>)
      BY WrongKeyEntries
    <2>3. ASSUME ~ Locked(table, k, r.now)
          PROVE  Sound(counted(table[k]), tries[k] \o <<time>>, time, lastPruned')
      <3>1. table[k] # None => table[k].expiresAt > r.now - PruneInterval /\ ~ (table[k].lockedUntil > r.now)
        BY <2>1, <2>3 DEF Locked
      <3>. HIDE DEF table
      <3>. QED
        BY <1>2, <2>1, <3>1, CountedSound
    <2>4. Sound(counted(None), <<>> \o <<time>>, time, lastPruned')
      BY <1>2, EmptySound, CountedSound
    <2>. HIDE DEF table, counted
    <2>5. CASE attempts'[k] = None /\ tries'[k] = <<>>
      BY <2>5, EmptySound
    <2>6. CASE attempts'[k] = table[k] /\ tries'[k] = LastOnes(tries[k])
      BY <1>2, <2>1, <2>6, LastOnesSound
    <2>7. CASE /\ ~ Locked(table, k, r.now)
               /\ attempts'[k] = counted(table[k])
               /\ tries'[k] = LastOnes(tries[k] \o <<time>>)
      BY <1>2, <2>3, <2>7, LastOnesSound
    <2>8. CASE attempts'[k] = counted(None) /\ tries'[k] = LastOnes(<<>> \o <<time>>)
      BY <1>2, <2>4, <2>8, LastOnesSound
    <2>. QED
      BY <2>2, <2>5, <2>6, <2>7, <2>8
  <1>4. IsTable(attempts') /\ FitsIn(Places(attempts'))
    <2>1. r.ip \in Keys
      BY DEF VerifyInv, ClocksKnown, Requests, Keys
    <2>. QED
      BY <2>1, WrongKeyEntries
  <1>5. tries' = [k \in Keys |-> tries'[k]]
    BY DEF WrongKey
  <1>6. TableTyped' /\ AllSound'
    BY <1>2, <1>3, <1>4, <1>5, TableOfSound
  <1>. QED
    BY <1>2, <1>6 DEF VerifyInv

LEMMA StepInv == VerifyInv /\ [VerifyNext]_verifyVars => VerifyInv'
  <1>. SUFFICES ASSUME VerifyInv, [VerifyNext]_verifyVars PROVE VerifyInv'
    OBVIOUS
  <1>1. CASE \E ip \in Ips, device \in Devices, right \in BOOLEAN : Arrive(ip, device, right)
    BY <1>1, ArriveInv
  <1>2. CASE \E r \in requests : Refuse(r)
    BY <1>2, RefuseInv
  <1>3. CASE \E r \in requests : WrongKey(r)
    BY <1>3, WrongKeyInv
  <1>4. CASE \E r \in requests : RightKey(r)
    BY <1>4, RightKeyInv
  <1>5. CASE Tick
    BY <1>5, TickInv
  <1>6. CASE UNCHANGED verifyVars
    BY <1>6 DEF verifyVars, VerifyInv, ClocksKnown, TableTyped, AllSound, Places
  <1>. QED
    BY <1>1, <1>2, <1>3, <1>4, <1>5, <1>6 DEF VerifyNext

\* The invariant the limits rest on: what each entry tells of the wrong keys of
\* its identity is true.
THEOREM EntriesTell == VerifySpec => []VerifyInv
  <1>. QED
    BY InitInv, StepInv, PTL DEF VerifySpec

LEMMA TypesFollow == VerifyInv => VerifyTypeOK
  BY DEF VerifyInv, ClocksKnown, TableTyped, Entries, Places, VerifyTypeOK

\* Every variable keeps its type, and the table its capacity.
THEOREM VerifyTypeCorrectness == VerifySpec => []VerifyTypeOK
  <1>. QED
    BY EntriesTell, TypesFollow, PTL

LEMMA LimitFollows == VerifyInv => TriesLimited
  <1>. SUFFICES ASSUME VerifyInv, NEW k \in Keys
                PROVE  Cardinality({i \in DOMAIN tries[k] : tries[k][i] > time - (Lockout - Lag)}) <= Limit
    BY DEF TriesLimited
  <1>. DEFINE s == tries[k]
              a == attempts[k]
              recent == {i \in DOMAIN s : s[i] > time - (Lockout - Lag)}
  <1>1. Sound(a, s, time, lastPruned) /\ time \in Nat
    BY DEF VerifyInv, AllSound, ClocksKnown
  <1>2. s \in Seq(Nat) /\ Len(s) \in Nat /\ DOMAIN s = 1 .. Len(s)
    BY <1>1 DEF Sound, Timed
  <1>3. ASSUME NEW n \in Nat, Old(s, n, time), NEW i \in recent
        PROVE  i \in 1 .. Len(s) /\ i > n
    <2>1. i \in 1 .. Len(s) /\ s[i] \in Nat /\ s[i] > time - (Lockout - Lag)
      BY <1>2
    <2>2. ~ (i \in 1 .. n)
      BY <1>1, <1>3, <2>1, Parameters DEF Old
    <2>. QED
      BY <2>1, <2>2
  <1>4. CASE a = None
    <2>1. recent = {}
      BY <1>1, <1>2, <1>3, <1>4 DEF Sound
    <2>. QED
      BY <2>1, FS_EmptySet, Parameters
  <1>5. CASE a # None
    <2>1. /\ a.failures \in Nat /\ a.failures <= Limit /\ a.failures <= Len(s) /\ a.failures > 0
          /\ Old(s, Len(s) - a.failures, time)
      BY <1>1, <1>5, AttemptTypes DEF Sound, Tells
    <2>. DEFINE f == a.failures
                last == Len(s) - f + 1 .. Len(s)
    <2>2. Len(s) - f \in Nat
      BY <1>2, <2>1
    <2>3. recent \in SUBSET last
      <3>1. ASSUME NEW i \in recent
            PROVE  i \in last
        <4>1. i \in 1 .. Len(s) /\ i > Len(s) - f
          BY <1>3, <2>1, <2>2
        <4>. QED
          BY <1>2, <2>1, <4>1
      <3>. QED
        BY <3>1
    <2>4. IsFiniteSet(last) /\ Cardinality(last) = f
      <3>1. Len(s) - f + 1 \in Int /\ Len(s) \in Int /\ ~ (Len(s) - f + 1 > Len(s))
        BY <1>2, <2>1
      <3>2. Len(s) - (Len(s) - f + 1) + 1 = f
        BY <1>2, <2>1
      <3>. QED
        BY <3>1, <3>2, FS_Interval
    <2>. HIDE DEF last, recent, f
    <2>5. Cardinality(recent) <= Cardinality(last) /\ IsFiniteSet(recent)
      BY <2>3, <2>4, FS_Subset
    <2>6. Cardinality(recent) \in Nat
      BY <2>5, FS_CardinalityType
    <2>7. Cardinality(recent) <= Limit
      BY <2>1, <2>4, <2>5, <2>6, Parameters DEF f
    <2>. QED
      BY <2>7 DEF recent
  <1>. QED
    BY <1>4, <1>5

\* However addresses and devices come and go in a full table, an identity that
\* keeps its entry has no more than Limit wrong keys compared in a lockout.
THEOREM WrongKeysLimited == VerifySpec => []TriesLimited
  <1>. QED
    BY EntriesTell, LimitFollows, PTL

LEMMA CauseFollows == VerifyInv => LockedForCause
  <1>. SUFFICES ASSUME VerifyInv, NEW k \in Keys, Locked(attempts, k, time)
                PROVE  /\ Len(tries[k]) >= Limit
                       /\ Close(tries[k], Limit)
    BY DEF LockedForCause, Close
  <1>1. attempts[k] # None /\ attempts[k].lockedUntil > time /\ time \in Nat
    BY DEF Locked, VerifyInv, ClocksKnown
  <1>2. Tells(attempts[k], tries[k], lastPruned)
    BY <1>1 DEF VerifyInv, AllSound, Sound
  <1>3. attempts[k].failures \in Nat /\ attempts[k].failures <= Limit /\ attempts[k].lockedUntil # Never
    BY <1>1, <1>2, AttemptTypes DEF Tells, Never
  <1>4. attempts[k].failures = Limit
    BY <1>2, <1>3, Parameters DEF Tells
  <1>. QED
    BY <1>2, <1>4 DEF Tells

\* Nobody is locked out by the wrong keys of another, nor by old ones.
THEOREM LocksHaveCause == VerifySpec => []LockedForCause
  <1>. QED
    BY EntriesTell, CauseFollows, PTL

LEMMA LockStep ==
  ASSUME VerifyInv, [VerifyNext]_verifyVars, NEW k \in Keys, Locked(attempts, k, time)
  PROVE  attempts'[k] # None /\ attempts'[k].lockedUntil = attempts[k].lockedUntil
  <1>1. attempts[k] # None
    BY DEF Locked
  <1>2. SUFFICES attempts'[k] = attempts[k]
    BY <1>1
  <1>3. ASSUME NEW r \in requests
        PROVE  /\ r.now \in Nat
               /\ Pruned(r.now)[k] = attempts[k] /\ Locked(Pruned(r.now), k, r.now)
    <2>1. r.now \in Nat /\ r.now <= time
      BY DEF VerifyInv, ClocksKnown, Requests
    <2>. QED
      BY <2>1, LockKept
  <1>4. CASE \E ip \in Ips, device \in Devices, right \in BOOLEAN : Arrive(ip, device, right)
    BY <1>4 DEF Arrive
  <1>5. ASSUME NEW r \in requests, Refuse(r)
        PROVE  attempts'[k] = attempts[k]
    BY <1>3, <1>5 DEF Refuse
  <1>6. ASSUME NEW r \in requests, WrongKey(r)
        PROVE  attempts'[k] = attempts[k]
    <2>1. attempts'[k] = Pruned(r.now)[k]
      BY <1>3, <1>6, WrongKeyEntries
    <2>. QED
      BY <1>3, <2>1
  <1>7. ASSUME NEW r \in requests, RightKey(r)
        PROVE  attempts'[k] = attempts[k]
    <2>1. k \notin {r.ip, r.device}
      BY <1>3, <1>7 DEF RightKey, IsLocked
    <2>. QED
      BY <1>3, <1>7, <2>1 DEF RightKey
  <1>8. CASE Tick \/ UNCHANGED verifyVars
    BY <1>8 DEF Tick, verifyVars
  <1>. QED
    BY <1>4, <1>5, <1>6, <1>7, <1>8 DEF VerifyNext

\* A lock lasts to its end, whatever requests come.
THEOREM LocksLast == VerifySpec => LockHolds
  <1>1. VerifyInv /\ [VerifyNext]_verifyVars
          => [\A k \in Keys :
                Locked(attempts, k, time) /\ Locked(attempts, k, time')
                  => attempts'[k] # None /\ attempts'[k].lockedUntil = attempts[k].lockedUntil]_verifyVars
    BY LockStep
  <1>. QED
    BY <1>1, EntriesTell, PTL DEF VerifySpec, LockHolds

=============================================================================
