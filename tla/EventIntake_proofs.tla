------------------------- MODULE EventIntake_proofs -------------------------
(***************************************************************************)
(* EventIntake, for every set of fingerprints, TTL and capacity, with any  *)
(* number of crashes, with and without the state file.                     *)
(***************************************************************************)
EXTENDS EventIntake, SequenceTheorems, WellFoundedInduction, TLAPS

-----------------------------------------------------------------------------
(* EventDeduplicator: what the operators on the entries keep, drop and     *)
(* preserve.                                                               *)
-----------------------------------------------------------------------------
(* Every set of natural numbers that is not empty has a least element.     *)
LEMMA LeastNat ==
    ASSUME NEW T \in SUBSET Nat, T # {}
    PROVE  \E x \in T : \A y \in T : x <= y
<1>1. \E x \in T : \A y \in T : ~ (<<y, x>> \in OpToRel(<, Nat))
  BY NatLessThanWellFounded, WFMin
<1>2. \A x, y \in Nat : (<<y, x>> \in OpToRel(<, Nat)) <=> y < x
  BY DEF OpToRel
<1>3. PICK x \in T : \A y \in T : ~ (<<y, x>> \in OpToRel(<, Nat))
  BY <1>1
<1>4. \A y \in T : ~ (y < x)
  BY <1>2, <1>3, Zenon
<1>. QED  BY <1>4

(* The two tests of an entry's age agree: what persisted_event_keys lets   *)
(* through is what the deduper calls fresh, the boundary instant included. *)
LEMMA TestsAgree ==
    ASSUME NEW e, e.at \in Nat, NEW now \in Nat
    PROVE  IsPersisted(e, now) <=> Fresh(e, now)
BY DedupeAssumption DEF IsPersisted, Fresh

(* The loop of _evict_expired always stops: at the first fresh entry, or   *)
(* at the end.                                                             *)
LEMMA FirstKeptExists ==
    ASSUME NEW d \in Seq(Entry), NEW now \in Nat
    PROVE  IsFirstKept(d, now, FirstKept(d, now))
<1>. DEFINE T == {n \in 1 .. Len(d) + 1 : n <= Len(d) => Fresh(d[n], now)}
<1>1. T \in SUBSET Nat /\ Len(d) + 1 \in T
  OBVIOUS
<1>2. PICK x \in T : \A y \in T : x <= y
  BY <1>1, LeastNat
<1>3. IsFirstKept(d, now, x)
  BY <1>2 DEF IsFirstKept
<1>. QED  BY <1>2, <1>3 DEF FirstKept

(* _evict_expired keeps a suffix that holds every fresh entry.             *)
LEMMA EvictExpiredKeepsFresh ==
    ASSUME NEW d \in Seq(Entry), NEW now \in Nat
    PROVE  /\ EvictExpired(d, now) \in Seq(Entry)
           /\ Len(EvictExpired(d, now)) <= Len(d)
           /\ IsOrderedDict(d) => IsOrderedDict(EvictExpired(d, now))
           /\ \A i \in DOMAIN d : Fresh(d[i], now) =>
                 \E m \in DOMAIN EvictExpired(d, now) : EvictExpired(d, now)[m] = d[i]
           /\ \A m \in DOMAIN EvictExpired(d, now) :
                 \E i \in DOMAIN d : EvictExpired(d, now)[m] = d[i]
<1>. DEFINE n == FirstKept(d, now)
            e == EvictExpired(d, now)
<1>1. /\ n \in 1 .. Len(d) + 1
      /\ \A i \in 1 .. n - 1 : ~ Fresh(d[i], now)
  BY FirstKeptExists DEF IsFirstKept
<1>. HIDE DEF n
<1>2. e = SubSeq(d, n, Len(d))
  BY DEF EvictExpired, n
<1>3. /\ e \in Seq(Entry)
      /\ Len(e) = Len(d) - n + 1
      /\ \A i \in 1 .. Len(d) - n + 1 : e[i] = d[n + i - 1]
  BY <1>1, <1>2, SubSeqProperties
<1>. HIDE DEF e
<1>4. DOMAIN e = 1 .. Len(d) - n + 1 /\ DOMAIN d = 1 .. Len(d)
  BY <1>3
<1>5. ASSUME IsOrderedDict(d)
      PROVE  IsOrderedDict(e)
  <2>1. ASSUME NEW i \in DOMAIN e, NEW j \in DOMAIN e, e[i].key = e[j].key
        PROVE  i = j
    <3>1. /\ n + i - 1 \in DOMAIN d /\ n + j - 1 \in DOMAIN d
          /\ e[i] = d[n + i - 1] /\ e[j] = d[n + j - 1]
      BY SMTT(30), <1>1, <1>3, <1>4
    <3>. QED  BY SMTT(30), <1>1, <1>4, <1>5, <2>1, <3>1 DEF IsOrderedDict
  <2>. QED  BY <1>3, <2>1 DEF IsOrderedDict
<1>6. ASSUME NEW i \in DOMAIN d, Fresh(d[i], now)
      PROVE  \E m \in DOMAIN e : e[m] = d[i]
  <2>1. i >= n
    BY <1>1, <1>4, <1>6
  <2>. DEFINE m == i - n + 1
  <2>2. m \in 1 .. Len(d) - n + 1 /\ n + m - 1 = i
    BY <1>1, <1>4, <2>1
  <2>. HIDE DEF m
  <2>3. m \in DOMAIN e /\ e[m] = d[i]
    BY <1>3, <1>4, <2>2
  <2>. QED  BY <2>3
<1>7. ASSUME NEW m \in DOMAIN e
      PROVE  \E i \in DOMAIN d : e[m] = d[i]
  <2>1. n + m - 1 \in DOMAIN d /\ e[m] = d[n + m - 1]
    BY <1>1, <1>3, <1>4
  <2>. QED  BY <2>1
<1>. QED  BY <1>1, <1>3, <1>5, <1>6, <1>7 DEF e

(* The capacity bound keeps a suffix of at most MaxItems entries.          *)
LEMMA KeepNewestIsSuffix ==
    ASSUME NEW d \in Seq(Entry)
    PROVE  /\ KeepNewest(d) \in Seq(Entry)
           /\ Len(KeepNewest(d)) <= MaxItems
           /\ IsOrderedDict(d) => IsOrderedDict(KeepNewest(d))
           /\ \E n \in Nat : /\ Len(KeepNewest(d)) = Len(d) - n
                             /\ n = 0 \/ Len(d) = MaxItems + n
                             /\ \A m \in DOMAIN KeepNewest(d) :
                                   m + n \in DOMAIN d /\ KeepNewest(d)[m] = d[m + n]
<1>. DEFINE e == KeepNewest(d)
<1>. USE DedupeAssumption
<1>1. PICK n \in Nat : /\ Len(e) = Len(d) - n
                       /\ n = 0 \/ Len(d) = MaxItems + n
                       /\ Len(e) <= MaxItems
                       /\ e \in Seq(Entry)
                       /\ \A m \in 1 .. Len(e) : e[m] = d[m + n]
  <2>1. CASE Len(d) > MaxItems
    <3>1. e = SubSeq(d, Len(d) - MaxItems + 1, Len(d))
      BY <2>1 DEF KeepNewest
    <3>. HIDE DEF e
    <3>. DEFINE n == Len(d) - MaxItems
    <3>2. n \in Nat /\ Len(d) = MaxItems + n
      BY <2>1
    <3>. HIDE DEF n
    <3>3. e = SubSeq(d, n + 1, Len(d))
      BY <3>1 DEF n
    <3>4. /\ e \in Seq(Entry)
          /\ Len(e) = MaxItems
          /\ \A i \in 1 .. MaxItems : e[i] = d[(n + 1) + i - 1]
      BY <3>2, <3>3, SubSeqProperties
    <3>5. \A i \in 1 .. MaxItems : e[i] = d[i + n]
      BY <3>2, <3>4
    <3>. QED  BY SMTT(30), <3>2, <3>4, <3>5
  <2>2. CASE ~ (Len(d) > MaxItems)
    <3>1. e = d
      BY <2>2 DEF KeepNewest
    <3>. QED  BY SMTT(30), <2>2, <3>1
  <2>. QED  BY <2>1, <2>2
<1>. HIDE DEF e
<1>2. DOMAIN e = 1 .. Len(e) /\ DOMAIN d = 1 .. Len(d)
  BY <1>1
<1>3. \A m \in DOMAIN e : m + n \in DOMAIN d /\ e[m] = d[m + n]
  BY <1>1, <1>2
<1>4. ASSUME IsOrderedDict(d)
      PROVE  IsOrderedDict(e)
  BY <1>1, <1>2, <1>3, <1>4 DEF IsOrderedDict
<1>. QED  BY <1>1, <1>3, <1>4 DEF e

(* An entry that the capacity bound dropped while it was fresh is in       *)
(* FreshKeysLost, whatever the rest of the list.                           *)
LEMMA FreshKeysLostOrKept ==
    ASSUME NEW d, NEW e, NEW now,
           NEW i \in DOMAIN d, Fresh(d[i], now),
           d[i].key \notin FreshKeysLost(d, e, now)
    PROVE  \E m \in DOMAIN e : e[m] = d[i]
BY DEF FreshKeysLost

(* What an eviction gives up are keys.                                     *)
LEMMA FreshKeysLostAreKeys ==
    ASSUME NEW d \in Seq(Entry), NEW e, NEW now
    PROVE  FreshKeysLost(d, e, now) \subseteq Keys
<1>1. SUFFICES ASSUME NEW k \in FreshKeysLost(d, e, now) PROVE k \in Keys
  OBVIOUS
<1>2. PICK i \in DOMAIN d : k = d[i].key
  BY <1>1, Zenon DEF FreshKeysLost
<1>3. d[i] \in Entry
  BY <1>2
<1>. QED  BY <1>2, <1>3 DEF Entry

(* A key of the dict is where PositionOf says it is.                       *)
LEMMA PositionOfKey ==
    ASSUME NEW d, NEW k \in KeysOf(d)
    PROVE  PositionOf(d, k) \in DOMAIN d /\ d[PositionOf(d, k)].key = k
<1>1. \E i \in DOMAIN d : d[i].key = k
  BY DEF KeysOf
<1>. QED  BY <1>1 DEF PositionOf

(* move_to_end permutes the entries.                                       *)
LEMMA MoveToEndPermutes ==
    ASSUME NEW d \in Seq(Entry), NEW k \in KeysOf(d)
    PROVE  /\ MoveToEnd(d, k) \in Seq(Entry)
           /\ Len(MoveToEnd(d, k)) = Len(d)
           /\ IsOrderedDict(d) => IsOrderedDict(MoveToEnd(d, k))
           /\ \A j \in DOMAIN d :
                 \E m \in DOMAIN MoveToEnd(d, k) : MoveToEnd(d, k)[m] = d[j]
           /\ \A m \in DOMAIN MoveToEnd(d, k) :
                 \E j \in DOMAIN d : MoveToEnd(d, k)[m] = d[j]
<1>. DEFINE i == PositionOf(d, k)
            e == MoveToEnd(d, k)
            s == SubSeq(d, 1, i - 1)
            t == SubSeq(d, i + 1, Len(d))
<1>1. i \in 1 .. Len(d)
  BY PositionOfKey
<1>. HIDE DEF i
<1>2. e = Append(s \o t, d[i])
  BY DEF MoveToEnd, RemoveAt, i
<1>3. /\ s \in Seq(Entry) /\ Len(s) = i - 1
      /\ \A m \in 1 .. i - 1 : s[m] = d[m]
  <2>1. \A m \in 1 .. i - 1 : d[m] \in Entry
    BY <1>1
  <2>. HIDE DEF s
  <2>2. s = SubSeq(d, 1, i - 1)
    BY DEF s
  <2>3. /\ s \in Seq(Entry)
        /\ Len(s) = IF 1 <= i - 1 THEN i - 1 - 1 + 1 ELSE 0
        /\ \A m \in 1 .. i - 1 - 1 + 1 : s[m] = d[1 + m - 1]
    BY <1>1, <2>1, <2>2, SubSeqProperties
  <2>. QED  BY <1>1, <2>3
<1>4. /\ t \in Seq(Entry) /\ Len(t) = Len(d) - i
      /\ \A m \in 1 .. Len(d) - i : t[m] = d[i + m]
  <2>1. \A m \in i + 1 .. Len(d) : d[m] \in Entry
    BY <1>1
  <2>. HIDE DEF t
  <2>2. t = SubSeq(d, i + 1, Len(d))
    BY DEF t
  <2>3. /\ t \in Seq(Entry)
        /\ Len(t) = IF i + 1 <= Len(d) THEN Len(d) - (i + 1) + 1 ELSE 0
        /\ \A m \in 1 .. Len(d) - (i + 1) + 1 : t[m] = d[(i + 1) + m - 1]
    BY <1>1, <2>1, <2>2, SubSeqProperties
  <2>. QED  BY <1>1, <2>3
<1>. HIDE DEF s, t
<1>5. /\ s \o t \in Seq(Entry) /\ Len(s \o t) = Len(d) - 1
      /\ \A m \in 1 .. Len(d) - 1 : (s \o t)[m] = IF m < i THEN d[m] ELSE d[m + 1]
  <2>1. /\ s \o t \in Seq(Entry) /\ Len(s \o t) = Len(s) + Len(t)
        /\ \A m \in 1 .. Len(s) + Len(t) :
              (s \o t)[m] = IF m <= Len(s) THEN s[m] ELSE t[m - Len(s)]
    BY <1>3, <1>4, ConcatProperties
  <2>2. Len(s) + Len(t) = Len(d) - 1
    BY <1>1, <1>3, <1>4
  <2>3. ASSUME NEW m \in 1 .. Len(d) - 1
        PROVE  (s \o t)[m] = IF m < i THEN d[m] ELSE d[m + 1]
    <3>1. CASE m < i
      BY <1>1, <1>3, <2>1, <2>2, <3>1
    <3>2. CASE ~ (m < i)
      <4>1. (s \o t)[m] = t[m - Len(s)] /\ m - Len(s) = m - i + 1
        BY <1>1, <1>3, <2>1, <2>2, <3>2
      <4>2. m - i + 1 \in 1 .. Len(d) - i /\ i + (m - i + 1) = m + 1
        BY <1>1, <3>2
      <4>3. t[m - i + 1] = d[i + (m - i + 1)]
        BY <1>4, <4>2
      <4>. QED  BY <3>2, <4>1, <4>2, <4>3
    <3>. QED  BY <3>1, <3>2
  <2>. QED  BY <2>1, <2>2, <2>3
<1>. DEFINE u == s \o t
<1>. HIDE DEF u
<1>6. /\ e \in Seq(Entry) /\ Len(e) = Len(d)
      /\ DOMAIN e = 1 .. Len(d)
      /\ \A m \in 1 .. Len(d) :
            e[m] = IF m = Len(d) THEN d[i] ELSE IF m < i THEN d[m] ELSE d[m + 1]
  <2>1. /\ u \in Seq(Entry) /\ Len(u) = Len(d) - 1 /\ e = Append(u, d[i])
        /\ \A m \in 1 .. Len(d) - 1 : u[m] = IF m < i THEN d[m] ELSE d[m + 1]
    BY <1>2, <1>5 DEF u
  <2>2. d[i] \in Entry
    BY <1>1
  <2>. HIDE DEF e
  <2>. QED  BY <1>1, <2>1, <2>2
<1>. HIDE DEF e
<1>. DEFINE old == [m \in 1 .. Len(d) |-> IF m = Len(d) THEN i ELSE IF m < i THEN m ELSE m + 1]
            new == [j \in 1 .. Len(d) |-> IF j = i THEN Len(d) ELSE IF j < i THEN j ELSE j - 1]
<1>10. \A m \in DOMAIN e : old[m] \in DOMAIN d /\ e[m] = d[old[m]]
  <2>1. DOMAIN d = 1 .. Len(d)
    OBVIOUS
  <2>2. \A m \in 1 .. Len(d) : old[m] \in 1 .. Len(d)
    BY <1>1
  <2>. QED  BY <1>6, <2>1, <2>2
<1>11. \A m, n \in 1 .. Len(d) : old[m] = old[n] => m = n
  BY <1>1
<1>12. \A j \in 1 .. Len(d) : new[j] \in 1 .. Len(d) /\ old[new[j]] = j
  BY <1>1
<1>. HIDE DEF old, new
<1>7. ASSUME IsOrderedDict(d)
      PROVE  IsOrderedDict(e)
  <2>1. ASSUME NEW m \in DOMAIN e, NEW n \in DOMAIN e, e[m].key = e[n].key
        PROVE  m = n
    <3>1. /\ old[m] \in DOMAIN d /\ e[m] = d[old[m]]
          /\ old[n] \in DOMAIN d /\ e[n] = d[old[n]]
      BY <1>10
    <3>2. old[m] = old[n]
      BY <1>7, <2>1, <3>1 DEF IsOrderedDict
    <3>. QED  BY <1>6, <1>11, <3>2
  <2>. QED  BY <1>6, <2>1 DEF IsOrderedDict
<1>8. ASSUME NEW j \in DOMAIN d
      PROVE  \E m \in DOMAIN e : e[m] = d[j]
  <2>1. j \in 1 .. Len(d)
    OBVIOUS
  <2>2. new[j] \in DOMAIN e /\ old[new[j]] = j
    BY <1>6, <1>12, <2>1
  <2>. QED  BY <1>10, <2>2
<1>9. ASSUME NEW m \in DOMAIN e
      PROVE  \E j \in DOMAIN d : e[m] = d[j]
  BY <1>10
<1>. QED  BY <1>6, <1>7, <1>8, <1>9 DEF e

(* Dict assignment leaves the entries of other keys alone.                 *)
LEMMA PutAssigns ==
    ASSUME NEW d, IsOrderedDict(d), NEW x \in Entry
    PROVE  /\ IsOrderedDict(Put(d, x))
           /\ \E m \in DOMAIN Put(d, x) : Put(d, x)[m] = x
           /\ \A i \in DOMAIN d : d[i].key # x.key =>
                 \E m \in DOMAIN Put(d, x) : Put(d, x)[m] = d[i]
           /\ \A m \in DOMAIN Put(d, x) :
                 Put(d, x)[m] = x \/ \E i \in DOMAIN d : Put(d, x)[m] = d[i]
<1>1. d \in Seq(Entry)
  BY DEF IsOrderedDict
<1>2. CASE x.key \in KeysOf(d)
  <2>. DEFINE p == PositionOf(d, x.key)
  <2>1. p \in DOMAIN d /\ d[p].key = x.key
    BY <1>2, PositionOfKey
  <2>. HIDE DEF p
  <2>2. Put(d, x) = [d EXCEPT ![p] = x]
    BY <1>2 DEF Put, p
  <2>. QED  BY <1>1, <2>1, <2>2 DEF IsOrderedDict
<1>3. CASE x.key \notin KeysOf(d)
  <2>1. Put(d, x) = Append(d, x)
    BY <1>3 DEF Put
  <2>2. \A i \in DOMAIN d : d[i].key # x.key
    BY <1>3 DEF KeysOf
  <2>. QED  BY <1>1, <2>1, <2>2 DEF IsOrderedDict
<1>. QED  BY <1>2, <1>3

-----------------------------------------------------------------------------
(* EventIntake.                                                            *)
-----------------------------------------------------------------------------
(* A fresh entry survives the eviction of expired ones.                    *)
LEMMA CoversAfterEviction ==
    ASSUME NEW d \in Seq(Entry), NEW now \in Nat, NEW k, NEW t \in Nat,
           Covers(d, k, t), now <= t + TTL
    PROVE  Covers(EvictExpired(d, now), k, t)
<1>1. PICK i \in DOMAIN d : d[i].key = k /\ d[i].at >= t
  BY DEF Covers
<1>2. d[i] \in Entry
  BY <1>1
<1>3. Fresh(d[i], now)
  BY <1>1, <1>2, DedupeAssumption DEF Fresh, Entry
<1>. QED  BY <1>1, <1>3, EvictExpiredKeepsFresh DEF Covers

(* It survives the capacity bound unless the key is reported as lost.      *)
LEMMA CoversAfterTruncation ==
    ASSUME NEW d \in Seq(Entry), NEW now \in Nat, NEW k, NEW t \in Nat,
           Covers(d, k, t), now <= t + TTL,
           k \notin FreshKeysLost(d, KeepNewest(d), now)
    PROVE  Covers(KeepNewest(d), k, t)
<1>1. PICK i \in DOMAIN d : d[i].key = k /\ d[i].at >= t
  BY DEF Covers
<1>2. d[i] \in Entry
  BY <1>1
<1>3. Fresh(d[i], now)
  BY <1>1, <1>2, DedupeAssumption DEF Fresh, Entry
<1>4. \E m \in DOMAIN KeepNewest(d) : KeepNewest(d)[m] = d[i]
  BY <1>1, <1>3, FreshKeysLostOrKept
<1>. QED  BY <1>1, <1>4 DEF Covers

(* Moving an entry to the end keeps it.                                    *)
LEMMA CoversAfterMove ==
    ASSUME NEW d \in Seq(Entry), NEW j \in KeysOf(d), NEW k, NEW t,
           Covers(d, k, t)
    PROVE  Covers(MoveToEnd(d, j), k, t)
<1>1. PICK i \in DOMAIN d : d[i].key = k /\ d[i].at >= t
  BY DEF Covers
<1>2. \E m \in DOMAIN MoveToEnd(d, j) : MoveToEnd(d, j)[m] = d[i]
  BY <1>1, MoveToEndPermutes
<1>. QED  BY <1>1, <1>2 DEF Covers

(* Appending keeps what was there.                                         *)
LEMMA CoversAfterAppend ==
    ASSUME NEW d \in Seq(Entry), NEW x \in Entry
    PROVE  /\ Append(d, x) \in Seq(Entry)
           /\ Covers(Append(d, x), x.key, x.at)
           /\ \A k, t : Covers(d, k, t) => Covers(Append(d, x), k, t)
           /\ \A m \in DOMAIN Append(d, x) :
                 Append(d, x)[m] = x \/ \E i \in DOMAIN d : Append(d, x)[m] = d[i]
<1>. DEFINE e == Append(d, x)
<1>1. /\ e \in Seq(Entry) /\ Len(e) = Len(d) + 1
      /\ DOMAIN d = 1 .. Len(d) /\ DOMAIN e = 1 .. Len(d) + 1
      /\ e[Len(d) + 1] = x
      /\ \A i \in 1 .. Len(d) : e[i] = d[i]
  OBVIOUS
<1>. HIDE DEF e
<1>2. x.at \in Nat
  BY DEF Entry
<1>3. Len(d) + 1 \in DOMAIN e /\ \A i \in DOMAIN d : i \in DOMAIN e
  BY <1>1
<1>4. Covers(e, x.key, x.at)
  BY <1>1, <1>2, <1>3 DEF Covers
<1>5. \A k, t : Covers(d, k, t) => Covers(e, k, t)
  BY <1>1, <1>3 DEF Covers
<1>6. \A m \in DOMAIN e : e[m] = x \/ \E i \in DOMAIN d : e[m] = d[i]
  BY <1>1
<1>. QED  BY <1>1, <1>4, <1>5, <1>6 DEF e

-----------------------------------------------------------------------------
(* The sequences keep their type; seen stays an ordered dict and, while    *)
(* messages are handled, within MaxItems.                                  *)
LEMMA InitTypeOK == Init => TypeOK
<1>. SUFFICES ASSUME Init PROVE TypeOK
  OBVIOUS
<1>1. disk \in [status : {"ok", "missing", "unreadable", "unused"}, keys : Seq(Entry)]
  <2>1. CASE disk = NoFile
    BY <2>1 DEF NoFile
  <2>2. CASE disk = Unused
    BY <2>2 DEF Unused
  <2>. QED  BY <2>1, <2>2 DEF Init
<1>. QED  BY <1>1 DEF Init, TypeOK, IsOrderedDict, Locations, Serving

(* The entry of a marked event is an entry.                                *)
LEMMA MarkedEntry ==
    ASSUME TypeOK, batch # << >>
    PROVE  /\ Event \in Keys
           /\ [key |-> Event, at |-> clock] \in Entry
BY DEF TypeOK, Event, Entry

(* Every step keeps the types, one case per action.                        *)
LEMMA NextTypeOK == TypeOK /\ [Next]_vars => TypeOK'
<1>. SUFFICES ASSUME TypeOK, [Next]_vars PROVE TypeOK'
  OBVIOUS
<1>. USE DEF TypeOK, Locations, Serving, history
<1>1. CASE LoadDisabled
  BY <1>1 DEF LoadDisabled
<1>2. CASE LoadMissing
  BY <1>2 DEF LoadMissing, File
<1>3. CASE LoadOk
  BY <1>3 DEF LoadOk
<1>4. CASE LoadUnreadable
  BY <1>4 DEF LoadUnreadable
<1>5. CASE InitializeFollowers
  BY <1>5 DEF InitializeFollowers, File
<1>6. CASE InitializeFails
  BY <1>6 DEF InitializeFails, File
<1>7. CASE StartDedupe
  BY <1>7 DEF StartDedupe, IsOrderedDict
<1>8. CASE HydrateEntry
  <2>1. memKeys[cursor] \in Entry
    BY <1>8 DEF HydrateEntry
  <2>2. IsOrderedDict(seen')
    BY <1>8, <2>1, PutAssigns DEF HydrateEntry
  <2>. QED  BY <1>8, <2>2 DEF HydrateEntry
<1>9. CASE HydrationDone
  <2>1. IsOrderedDict(seen') /\ Len(seen') <= MaxItems
    BY <1>9, KeepNewestIsSuffix DEF HydrationDone, IsOrderedDict
  <2>2. FreshKeysLost(seen, KeepNewest(seen), clock) \subseteq Keys
    BY FreshKeysLostAreKeys DEF IsOrderedDict
  <2>. QED  BY <1>9, <2>1, <2>2 DEF HydrationDone
<1>10. CASE Receive
  <2>1. batch' \in Seq(Keys)
    <3>1. PICK n \in 0 .. MaxBatch : batch' \in [1 .. n -> Keys]
      BY <1>10 DEF Receive, Batches
    <3>. QED  BY <3>1, IntakeAssumption
  <2>. QED  BY <1>10, <2>1 DEF Receive
<1>11. CASE SuppressDuplicate
  <2>1. /\ IsOrderedDict(EvictExpired(seen, clock))
        /\ Len(EvictExpired(seen, clock)) <= Len(seen)
    BY EvictExpiredKeepsFresh DEF IsOrderedDict
  <2>2. /\ IsOrderedDict(seen')
        /\ Len(seen') = Len(EvictExpired(seen, clock))
    BY <1>11, <2>1, MoveToEndPermutes DEF SuppressDuplicate, IsOrderedDict
  <2>3. Len(seen') <= MaxItems
    BY <1>11, <2>1, <2>2, DedupeAssumption DEF SuppressDuplicate, IsOrderedDict
  <2>4. Tail(batch) \in Seq(Keys)
    BY <1>11 DEF SuppressDuplicate
  <2>. QED  BY <1>11, <2>2, <2>3, <2>4 DEF SuppressDuplicate
<1>12. CASE AcceptNew
  <2>. DEFINE kept == EvictExpired(seen, clock)
              marked == Mark(kept)
  <2>1. kept \in Seq(Entry) /\ IsOrderedDict(kept)
    BY EvictExpiredKeepsFresh DEF IsOrderedDict
  <2>2. [key |-> Event, at |-> clock] \in Entry
    BY <1>12, MarkedEntry DEF AcceptNew
  <2>3. \A i \in DOMAIN kept : kept[i].key # Event
    BY <1>12 DEF AcceptNew, KeysOf
  <2>. HIDE DEF kept
  <2>4. marked \in Seq(Entry) /\ IsOrderedDict(marked)
    BY <2>1, <2>2, <2>3 DEF Mark, IsOrderedDict
  <2>5. seen' = KeepNewest(marked)
    BY <1>12 DEF AcceptNew, kept
  <2>6. forgotten' = forgotten \cup FreshKeysLost(marked, KeepNewest(marked), clock)
    BY <1>12 DEF AcceptNew, kept
  <2>. HIDE DEF marked
  <2>7. IsOrderedDict(seen') /\ Len(seen') <= MaxItems
    BY <2>4, <2>5, KeepNewestIsSuffix
  <2>8. FreshKeysLost(marked, KeepNewest(marked), clock) \subseteq Keys
    BY <2>4, FreshKeysLostAreKeys
  <2>. QED  BY <1>12, <2>6, <2>7, <2>8 DEF AcceptNew
<1>13. ASSUME batch # << >>
       PROVE  /\ Recorded \in Seq(Entry)
              /\ KeepNewest(Recorded) \in Seq(Entry)
              /\ FreshKeysLost(Recorded, KeepNewest(Recorded), clock) \subseteq Keys
  <2>1. Recorded \in Seq(Entry)
    BY <1>13, MarkedEntry DEF Recorded
  <2>. QED  BY <2>1, KeepNewestIsSuffix, FreshKeysLostAreKeys
<1>14. CASE Record
  BY <1>13, <1>14 DEF Record, File
<1>15. CASE RecordFails
  BY <1>13, <1>15, MarkedEntry DEF RecordFails
<1>16. CASE RecordDisabled
  BY <1>16 DEF RecordDisabled
<1>17. CASE Publish
  BY <1>17, MarkedEntry DEF Publish
<1>18. CASE FlushHealth
  BY <1>18 DEF FlushHealth, File
<1>19. CASE PublishReturns
  BY <1>19 DEF PublishReturns
<1>20. CASE MessageDone
  BY <1>20 DEF MessageDone
<1>21. CASE Tick
  BY <1>21 DEF Tick
<1>22. ASSUME NEW file, NEW lost, ProcessEnds(file, lost),
              file \in [status : {"ok", "missing", "unreadable", "unused"}, keys : Seq(Entry)],
              lost \subseteq Keys
       PROVE  TypeOK'
  BY <1>22, MarkedEntry DEF ProcessEnds, IsOrderedDict
<1>23. CASE Crash
  <2>. DEFINE lost == IF PersistEnabled THEN {} ELSE Keys
  <2>1. lost \subseteq Keys
    OBVIOUS
  <2>2. ProcessEnds(disk, lost)
    BY <1>23 DEF Crash
  <2>3. disk \in [status : {"ok", "missing", "unreadable", "unused"}, keys : Seq(Entry)]
    OBVIOUS
  <2>. HIDE DEF lost, TypeOK
  <2>. QED  BY ONLY <1>22, <2>1, <2>2, <2>3
<1>24. CASE PowerLoss
  <2>1. Unreadable \in [status : {"ok", "missing", "unreadable", "unused"}, keys : Seq(Entry)]
    BY DEF Unreadable
  <2>2. ProcessEnds(Unreadable, Keys)
    BY <1>24 DEF PowerLoss
  <2>. HIDE DEF TypeOK
  <2>. QED  BY <1>22, <2>1, <2>2
<1>25. CASE UNCHANGED vars
  BY <1>25 DEF vars
<1>. QED
  BY <1>1, <1>2, <1>3, <1>4, <1>5, <1>6, <1>7, <1>8, <1>9, <1>10, <1>11, <1>12,
     <1>14, <1>15, <1>16, <1>17, <1>18, <1>19, <1>20, <1>21, <1>23, <1>24, <1>25
  DEF Next, Startup, Handle

(* The deduper is an ordered dict within its capacity, and the file always *)
(* holds entries, in every reachable state of the intake.                  *)
THEOREM IntakeTypeCorrect == Spec => []TypeOK
BY InitTypeOK, NextTypeOK, PTL DEF Spec

-----------------------------------------------------------------------------
(* The dates in the three lists.                                           *)
LEMMA InThePastKept ==
    ASSUME NEW d, NEW e, NEW now \in Nat, NEW later \in Nat, now <= later,
           d \in Seq(Entry),
           \A i \in DOMAIN d : d[i].at <= now,
           \A m \in DOMAIN e : \E i \in DOMAIN d : e[m] = d[i]
    PROVE  \A m \in DOMAIN e : e[m].at <= later
<1>0. \A i \in DOMAIN d : d[i] \in Entry
  OBVIOUS
<1>1. \A i \in DOMAIN d : d[i].at \in Nat
  BY <1>0 DEF Entry
<1>. QED  BY <1>1

(* Appending an entry of now keeps a list of the past sorted.              *)
LEMMA SortedAfterRecord ==
    ASSUME NEW d \in Seq(Entry), NEW x \in Entry, Sorted(d),
           \A i \in DOMAIN d : d[i].at <= x.at
    PROVE  Sorted(KeepNewest(Append(d, x)))
<1>. DEFINE u == Append(d, x)
            e == KeepNewest(u)
<1>1. /\ u \in Seq(Entry) /\ DOMAIN u = 1 .. Len(d) + 1 /\ DOMAIN d = 1 .. Len(d)
      /\ u[Len(d) + 1] = x
      /\ \A i \in 1 .. Len(d) : u[i] = d[i]
  OBVIOUS
<1>. HIDE DEF u
<1>0. \A i \in 1 .. Len(d) : d[i] \in Entry
  OBVIOUS
<1>2. \A i \in 1 .. Len(d) : d[i].at \in Nat /\ d[i].at <= x.at
  BY <1>0, <1>1 DEF Entry
<1>3. x.at \in Nat
  BY DEF Entry
<1>4. ASSUME NEW i \in DOMAIN u, NEW j \in DOMAIN u, i <= j
      PROVE  u[i].at <= u[j].at
  <2>1. CASE j = Len(d) + 1
    BY <1>1, <1>2, <1>3, <1>4, <2>1
  <2>2. CASE j # Len(d) + 1
    <3>1. i \in DOMAIN d /\ j \in DOMAIN d
      BY <1>1, <1>4, <2>2
    <3>. QED  BY <1>1, <1>4, <3>1 DEF Sorted
  <2>. QED  BY <2>1, <2>2
<1>5. PICK n \in Nat :
         \A m \in DOMAIN e : m + n \in DOMAIN u /\ e[m] = u[m + n]
  BY <1>1, KeepNewestIsSuffix
<1>6. e \in Seq(Entry)
  BY <1>1, KeepNewestIsSuffix
<1>. HIDE DEF e
<1>7. ASSUME NEW i \in DOMAIN e, NEW j \in DOMAIN e, i <= j
      PROVE  e[i].at <= e[j].at
  <2>1. i \in Nat /\ j \in Nat
    BY <1>6
  <2>2. i + n <= j + n
    BY <1>7, <2>1
  <2>. QED  BY <1>4, <1>5, <2>2
<1>. QED  BY <1>7 DEF Sorted, e, u

(* Every entry of the truncated list is an entry of the list.              *)
LEMMA KeepNewestSubset ==
    ASSUME NEW d \in Seq(Entry)
    PROVE  \A m \in DOMAIN KeepNewest(d) : \E i \in DOMAIN d : KeepNewest(d)[m] = d[i]
<1>1. PICK n \in Nat : \A m \in DOMAIN KeepNewest(d) :
                            m + n \in DOMAIN d /\ KeepNewest(d)[m] = d[m + n]
  BY KeepNewestIsSuffix
<1>. QED  BY <1>1

(* The invariants of times and file hold initially.                        *)
LEMMA InitTimes == Init => TimesInv /\ FileInv
BY DEF Init, TimesInv, FileInv, InThePast, Sorted, NoFile, Unused

(* Every step keeps them.                                                  *)
LEMMA NextTimes ==
    TypeOK /\ TypeOK' /\ TimesInv /\ FileInv /\ [Next]_vars => TimesInv' /\ FileInv'
<1>. SUFFICES ASSUME TypeOK, TypeOK', TimesInv, FileInv, [Next]_vars
              PROVE  TimesInv' /\ FileInv'
  OBVIOUS
<1>. USE DEF TimesInv, FileInv, File
<1>1. /\ clock \in Nat \ {0} /\ markedAt \in Nat
      /\ seen \in Seq(Entry) /\ memKeys \in Seq(Entry) /\ disk.keys \in Seq(Entry)
  BY DEF TypeOK, IsOrderedDict
<1>2. Sorted(<< >>) /\ InThePast(<< >>) /\ InThePast(<< >>)'
  BY DEF Sorted, InThePast
<1>3. ASSUME clock' = clock, UNCHANGED seen
      PROVE  InThePast(seen)'
  BY <1>3 DEF InThePast
<1>4. ASSUME clock' = clock, UNCHANGED memKeys
      PROVE  InThePast(memKeys)' /\ Sorted(memKeys)'
  BY <1>4 DEF InThePast, Sorted
<1>5. ASSUME clock' = clock, disk' = disk
      PROVE  InThePast(disk.keys)' /\ Sorted(disk.keys)'
  BY <1>5 DEF InThePast, Sorted
<1>6. ASSUME clock' = clock, disk' = File(memKeys)
      PROVE  InThePast(disk.keys)' /\ Sorted(disk.keys)' /\ FileInv'
  BY <1>6 DEF InThePast, Sorted
<1>7. CASE LoadDisabled
  BY <1>2, <1>3, <1>5, <1>7 DEF LoadDisabled
<1>8. CASE LoadMissing
  BY <1>2, <1>3, <1>8 DEF LoadMissing
<1>9. CASE LoadOk
  <2>1. InThePast(memKeys)' /\ Sorted(memKeys)'
    BY <1>9 DEF LoadOk, InThePast, Sorted
  <2>. QED  BY <1>3, <1>5, <1>9, <2>1 DEF LoadOk
<1>10. CASE LoadUnreadable
  BY <1>2, <1>3, <1>5, <1>10 DEF LoadUnreadable
<1>11. CASE InitializeFollowers
  BY <1>3, <1>4, <1>5, <1>6, <1>11 DEF InitializeFollowers, history
<1>12. CASE InitializeFails
  BY <1>2, <1>3, <1>5, <1>6, <1>12 DEF InitializeFails
<1>13. CASE StartDedupe
  BY <1>2, <1>4, <1>5, <1>13 DEF StartDedupe
<1>14. CASE HydrateEntry
  <2>1. CASE seen' = seen
    BY <1>3, <1>4, <1>5, <1>14, <2>1 DEF HydrateEntry
  <2>2. CASE seen' = Put(seen, memKeys[cursor])
    <3>1. memKeys[cursor] \in Entry /\ memKeys[cursor].at <= clock
      BY <1>1, <1>14 DEF HydrateEntry, TypeOK, InThePast
    <3>2. \A m \in DOMAIN seen' :
             seen'[m] = memKeys[cursor] \/ \E i \in DOMAIN seen : seen'[m] = seen[i]
      BY <2>2, <3>1, PutAssigns DEF TypeOK
    <3>3. InThePast(seen)'
      BY <1>14, <3>1, <3>2 DEF InThePast, HydrateEntry
    <3>. QED  BY <1>4, <1>5, <1>14, <3>3 DEF HydrateEntry
  <2>. QED  BY <1>14, <2>1, <2>2 DEF HydrateEntry
<1>15. CASE HydrationDone
  <2>1. InThePast(seen)'
    BY <1>1, <1>15, KeepNewestSubset, InThePastKept DEF HydrationDone, InThePast
  <2>. QED  BY <1>4, <1>5, <1>15, <2>1 DEF HydrationDone
<1>16. CASE Receive
  BY <1>3, <1>4, <1>5, <1>16 DEF Receive
<1>17. CASE SuppressDuplicate
  <2>. DEFINE kept == EvictExpired(seen, clock)
  <2>1. /\ kept \in Seq(Entry)
        /\ \A m \in DOMAIN kept : \E i \in DOMAIN seen : kept[m] = seen[i]
    BY <1>1, EvictExpiredKeepsFresh
  <2>2. \A m \in DOMAIN kept : kept[m].at <= clock
    BY <1>1, <2>1 DEF InThePast
  <2>3. Event \in KeysOf(kept) /\ seen' = MoveToEnd(kept, Event) /\ clock' = clock
    BY <1>17 DEF SuppressDuplicate
  <2>. HIDE DEF kept
  <2>4. \A m \in DOMAIN seen' : \E i \in DOMAIN kept : seen'[m] = kept[i]
    BY <2>1, <2>3, MoveToEndPermutes
  <2>5. InThePast(seen)'
    BY <2>2, <2>3, <2>4 DEF InThePast
  <2>. QED  BY <1>4, <1>5, <1>17, <2>5 DEF SuppressDuplicate
<1>18. CASE AcceptNew
  <2>. DEFINE kept == EvictExpired(seen, clock)
              x == [key |-> Event, at |-> clock]
              marked == Append(kept, x)
  <2>1. /\ kept \in Seq(Entry)
        /\ \A m \in DOMAIN kept : \E i \in DOMAIN seen : kept[m] = seen[i]
    BY <1>1, EvictExpiredKeepsFresh
  <2>2. \A m \in DOMAIN kept : kept[m].at <= clock
    BY <1>1, <2>1 DEF InThePast
  <2>3. x \in Entry /\ x.at = clock
    BY <1>18, MarkedEntry DEF AcceptNew
  <2>4. seen' = KeepNewest(marked) /\ clock' = clock /\ markedAt' = clock
    BY <1>18 DEF AcceptNew, Mark
  <2>. HIDE DEF kept, x
  <2>5. /\ marked \in Seq(Entry)
        /\ \A m \in DOMAIN marked :
              marked[m] = x \/ \E i \in DOMAIN kept : marked[m] = kept[i]
    BY <2>1, <2>3, CoversAfterAppend
  <2>6. \A m \in DOMAIN marked : marked[m].at <= clock
    BY <1>1, <2>2, <2>3, <2>5
  <2>. HIDE DEF marked
  <2>7. InThePast(seen)'
    BY <1>1, <2>4, <2>5, <2>6, KeepNewestSubset DEF InThePast
  <2>. QED  BY <1>1, <1>4, <1>5, <1>18, <2>4, <2>7 DEF AcceptNew
<1>19. ASSUME batch # << >>
       PROVE  /\ Sorted(KeepNewest(Recorded))
              /\ \A m \in DOMAIN KeepNewest(Recorded) : KeepNewest(Recorded)[m].at <= clock
  <2>. DEFINE x == [key |-> Event, at |-> clock]
  <2>1. x \in Entry /\ x.at = clock
    BY <1>19, MarkedEntry
  <2>. HIDE DEF x
  <2>2. Recorded = Append(memKeys, x)
    BY DEF Recorded, x
  <2>3. /\ Recorded \in Seq(Entry)
        /\ \A m \in DOMAIN Recorded :
              Recorded[m] = x \/ \E i \in DOMAIN memKeys : Recorded[m] = memKeys[i]
    BY <1>1, <2>1, <2>2, CoversAfterAppend
  <2>4. \A m \in DOMAIN Recorded : Recorded[m].at <= clock
    BY <1>1, <2>1, <2>3 DEF InThePast
  <2>5. \A m \in DOMAIN KeepNewest(Recorded) : KeepNewest(Recorded)[m].at <= clock
    BY <2>3, <2>4, KeepNewestSubset
  <2>6. Sorted(KeepNewest(Recorded))
    BY <1>1, <2>1, <2>2, SortedAfterRecord DEF InThePast
  <2>. QED  BY <2>5, <2>6
<1>20. CASE Record
  <2>1. /\ batch # << >> /\ clock' = clock
        /\ memKeys' = KeepNewest(Recorded) /\ disk'.keys = KeepNewest(Recorded)
    BY <1>20 DEF Record, TypeOK
  <2>2. InThePast(memKeys)' /\ Sorted(memKeys)' /\ InThePast(disk.keys)' /\ Sorted(disk.keys)'
    BY <1>19, <2>1 DEF InThePast, Sorted
  <2>. QED  BY <1>3, <1>20, <2>1, <2>2 DEF Record
<1>21. CASE RecordFails
  <2>1. batch # << >> /\ clock' = clock /\ memKeys' = KeepNewest(Recorded)
    BY <1>21 DEF RecordFails, TypeOK
  <2>2. InThePast(memKeys)' /\ Sorted(memKeys)'
    BY <1>19, <2>1 DEF InThePast, Sorted
  <2>. QED  BY <1>1, <1>3, <1>5, <1>21, <2>1, <2>2 DEF RecordFails
<1>22. CASE RecordDisabled
  BY <1>3, <1>4, <1>5, <1>22 DEF RecordDisabled
<1>23. CASE Publish
  BY <1>3, <1>4, <1>5, <1>23 DEF Publish
<1>24. CASE FlushHealth
  BY <1>3, <1>4, <1>6, <1>24 DEF FlushHealth
<1>25. CASE PublishReturns
  BY <1>1, <1>3, <1>4, <1>5, <1>25 DEF PublishReturns
<1>26. CASE MessageDone
  BY <1>3, <1>4, <1>5, <1>26 DEF MessageDone
<1>27. CASE Tick
  <2>1. clock' \in Nat /\ clock <= clock'
    BY <1>1, <1>27 DEF Tick
  <2>2. ASSUME NEW d \in Seq(Entry), InThePast(d)
        PROVE  \A i \in DOMAIN d : d[i].at <= clock'
    BY <1>1, <2>1, <2>2, InThePastKept DEF InThePast
  <2>3. InThePast(seen)' /\ InThePast(memKeys)' /\ InThePast(disk.keys)'
    BY <1>1, <1>27, <2>2 DEF InThePast, Tick
  <2>4. Sorted(memKeys)' /\ Sorted(disk.keys)'
    BY <1>27 DEF Sorted, Tick
  <2>. QED  BY <1>1, <1>27, <2>1, <2>3, <2>4 DEF Tick
<1>28. CASE Crash
  BY <1>1, <1>2, <1>5, <1>28 DEF Crash, ProcessEnds
<1>29. CASE PowerLoss
  BY <1>1, <1>2, <1>29 DEF PowerLoss, ProcessEnds, Unreadable
<1>30. CASE UNCHANGED vars
  BY <1>3, <1>4, <1>5, <1>30 DEF vars
<1>. QED
  BY <1>7, <1>8, <1>9, <1>10, <1>11, <1>12, <1>13, <1>14, <1>15, <1>16, <1>17,
     <1>18, <1>20, <1>21, <1>22, <1>23, <1>24, <1>25, <1>26, <1>27, <1>28, <1>29,
     <1>30
  DEF Next, Startup, Handle

-----------------------------------------------------------------------------
(* Every recently dispatched key is covered by whatever the deduper would  *)
(* be rebuilt from.                                                        *)
LEMMA InitCover == Init => CoverInv
BY DEF Init, CoverInv, VolatileInv, MemoryInv, HydrationInv, ServingInv, EventInv,
       DispatchIsDurable, NoReplayWithinTTL, Recent, Serving

(* No step turns persistence on or off.                                    *)
LEMMA PersistenceKept ==
    ASSUME [Next]_vars
    PROVE  PersistEnabled' <=> PersistEnabled
<1>. USE DEF PersistEnabled, File, history
<1>1. CASE Startup
  BY <1>1 DEF Startup, LoadDisabled, LoadMissing, LoadOk, LoadUnreadable,
              InitializeFollowers, InitializeFails, StartDedupe, HydrateEntry, HydrationDone
<1>2. CASE Handle
  BY <1>2 DEF Handle, SuppressDuplicate, AcceptNew, Record, RecordFails, RecordDisabled,
              Publish, PublishReturns, MessageDone
<1>3. CASE Receive \/ FlushHealth \/ Tick
  BY <1>3 DEF Receive, FlushHealth, Tick
<1>4. CASE Crash \/ PowerLoss
  BY <1>4 DEF Crash, PowerLoss, ProcessEnds, Unreadable
<1>5. CASE UNCHANGED vars
  BY <1>5 DEF vars
<1>. QED  BY <1>1, <1>2, <1>3, <1>4, <1>5 DEF Next

(* Every step keeps recent keys covered, wherever the memory is.           *)
LEMMA NextCover ==
    TypeOK /\ TypeOK' /\ IntakeInv /\ [Next]_vars => CoverInv'
<1>. SUFFICES ASSUME TypeOK, TypeOK', TimesInv, FileInv, CoverInv, [Next]_vars
              PROVE  CoverInv'
  BY DEF IntakeInv
<1>. DEFINE Cov(d) == \A k \in Keys : Recent(k) => Covers(d, k, handledAt[k])
<1>. USE DEF CoverInv, VolatileInv, MemoryInv, HydrationInv, ServingInv, EventInv,
             DispatchIsDurable, NoReplayWithinTTL, Serving
<1>0. PersistEnabled' <=> PersistEnabled
  BY PersistenceKept
<1>. USE <1>0
<1>1. /\ clock \in Nat \ {0} /\ markedAt \in Nat
      /\ seen \in Seq(Entry) /\ memKeys \in Seq(Entry) /\ disk.keys \in Seq(Entry)
      /\ \A k \in Keys : handledAt[k] \in Nat
  BY DEF TypeOK, IsOrderedDict
<1>2. ASSUME UNCHANGED <<handledAt, forgotten>>, clock' = clock
      PROVE  \A k \in Keys : Recent(k)' <=> Recent(k)
  BY <1>2 DEF Recent
<1>3. ASSUME handledAt' = handledAt, forgotten \subseteq forgotten', clock' = clock
      PROVE  \A k \in Keys : Recent(k)' => Recent(k) /\ k \notin forgotten'
  BY <1>3 DEF Recent
<1>4. \A k, t : ~ Covers(<< >>, k, t)
  BY DEF Covers
<1>5. \A k \in Keys : Recent(k) => clock <= handledAt[k] + TTL
  BY DEF Recent
<1>6. CASE LoadDisabled
  BY <1>2, <1>6 DEF LoadDisabled, history
<1>7. CASE LoadMissing
  BY <1>2, <1>4, <1>7 DEF LoadMissing, history, FileInv, File
<1>8. CASE LoadOk
  BY <1>2, <1>8 DEF LoadOk, history
<1>9. CASE LoadUnreadable
  BY <1>2, <1>4, <1>9 DEF LoadUnreadable, history, FileInv
<1>10. CASE InitializeFollowers
  BY <1>2, <1>10 DEF InitializeFollowers, history, File
<1>11. CASE InitializeFails
  BY <1>2, <1>11 DEF InitializeFails, history, File
<1>12. CASE StartDedupe
  <2>1. \A k \in Keys : Recent(k) =>
           \E j \in DOMAIN memKeys :
              j >= 1 /\ memKeys[j].key = k /\ memKeys[j].at >= handledAt[k]
    <3>1. CASE PersistEnabled
      BY <1>1, <1>12, <3>1 DEF StartDedupe, Covers
    <3>2. CASE ~ PersistEnabled
      BY <1>12, <3>2 DEF StartDedupe
    <3>. QED  BY <3>1, <3>2
  <2>. QED  BY <1>2, <1>12, <2>1 DEF StartDedupe, history
<1>13. CASE HydrateEntry
  <2>. DEFINE x == memKeys[cursor]
  <2>0. IsOrderedDict(seen)
    BY DEF TypeOK
  <2>1. /\ cursor \in DOMAIN memKeys /\ x \in Entry /\ x.at \in Nat /\ cursor \in Nat
    <3>1. cursor \in DOMAIN memKeys /\ x \in Entry /\ cursor \in Nat
      BY <1>1, <1>13 DEF HydrateEntry, TypeOK
    <3>. QED  BY <3>1 DEF Entry
  <2>2. \A i \in DOMAIN seen : seen[i] \in Entry /\ seen[i].at \in Nat
    <3>1. \A i \in DOMAIN seen : seen[i] \in Entry
      BY <1>1
    <3>. QED  BY <3>1 DEF Entry
  <2>3. \A j \in DOMAIN memKeys : j \in Nat /\ memKeys[j].at \in Nat
    <3>1. \A j \in DOMAIN memKeys : j \in Nat /\ memKeys[j] \in Entry
      BY <1>1
    <3>. QED  BY <3>1 DEF Entry
  <2>4. /\ pc = "hydrating" /\ pc' = "hydrating" /\ cursor' = cursor + 1
        /\ UNCHANGED <<clock, memKeys, disk, batch, markedAt, handledAt, forgotten>>
        /\ seen' = IF Fresh(x, clock) THEN Put(seen, x) ELSE seen
    <3>1. IsPersisted(x, clock) <=> Fresh(x, clock)
      BY <1>1, <2>1, TestsAgree
    <3>. QED  BY <1>13, <3>1 DEF HydrateEntry, history
  <2>. HIDE DEF x
  <2>5. \A j \in DOMAIN memKeys : j >= cursor => x.at <= memKeys[j].at
    BY <2>1 DEF TimesInv, Sorted, x
  <2>6. \A m \in DOMAIN seen' :
           seen'[m] = x \/ \E i \in DOMAIN seen : seen'[m] = seen[i]
    <3>1. CASE Fresh(x, clock)
      BY <2>0, <2>1, <2>4, <3>1, PutAssigns
    <3>2. CASE ~ Fresh(x, clock)
      BY <2>4, <3>2
    <3>. QED  BY <3>1, <3>2
  <2>7. \A m \in DOMAIN seen' : \A j \in DOMAIN memKeys :
           j >= cursor + 1 => seen'[m].at <= memKeys[j].at
    BY <2>1, <2>3, <2>4, <2>5, <2>6
  <2>8. ASSUME NEW k \in Keys, Recent(k)
        PROVE  \/ Covers(seen', k, handledAt[k])
               \/ \E j \in DOMAIN memKeys :
                     j >= cursor + 1 /\ memKeys[j].key = k /\ memKeys[j].at >= handledAt[k]
    <3>1. CASE \E j \in DOMAIN memKeys :
                  j >= cursor + 1 /\ memKeys[j].key = k /\ memKeys[j].at >= handledAt[k]
      BY <3>1
    <3>2. CASE x.key = k /\ x.at >= handledAt[k]
      <4>1. Fresh(x, clock)
        BY <1>1, <1>5, <2>1, <2>8, <3>2, DedupeAssumption DEF Fresh
      <4>2. \E m \in DOMAIN seen' : seen'[m] = x
        BY <2>0, <2>1, <2>4, <4>1, PutAssigns
      <4>. QED  BY <3>2, <4>2 DEF Covers
    <3>3. CASE Covers(seen, k, handledAt[k])
      <4>1. PICK i \in DOMAIN seen : seen[i].key = k /\ seen[i].at >= handledAt[k]
        BY <3>3 DEF Covers
      <4>2. CASE x.key = k
        <5>1. seen[i].at <= x.at
          BY <2>1, <2>4, <4>1 DEF x
        <5>2. x.at >= handledAt[k]
          BY <1>1, <2>1, <2>2, <4>1, <5>1
        <5>. QED  BY <3>2, <4>2, <5>2
      <4>3. CASE x.key # k
        <5>1. \E m \in DOMAIN seen' : seen'[m] = seen[i]
          <6>1. CASE Fresh(x, clock)
            BY <2>0, <2>1, <2>4, <4>1, <4>3, <6>1, PutAssigns
          <6>2. CASE ~ Fresh(x, clock)
            BY <2>4, <4>1, <6>2
          <6>. QED  BY <6>1, <6>2
        <5>. QED  BY <4>1, <5>1 DEF Covers
      <4>. QED  BY <4>2, <4>3
    <3>4. \/ Covers(seen, k, handledAt[k])
          \/ \E j \in DOMAIN memKeys :
                j >= cursor /\ memKeys[j].key = k /\ memKeys[j].at >= handledAt[k]
      BY <2>4, <2>8
    <3>5. \A j \in DOMAIN memKeys : j >= cursor => j = cursor \/ j >= cursor + 1
      BY <2>1, <2>3
    <3>. QED  BY <3>1, <3>2, <3>3, <3>4, <3>5 DEF x
  <2>. QED  BY <1>2, <2>4, <2>7, <2>8
<1>14. CASE HydrationDone
  <2>1. /\ pc = "hydrating" /\ pc' = "idle" /\ seen' = KeepNewest(seen)
        /\ forgotten' = forgotten \cup FreshKeysLost(seen, KeepNewest(seen), clock)
        /\ UNCHANGED <<clock, memKeys, disk, batch, markedAt, handledAt>>
    BY <1>14 DEF HydrationDone
  <2>2. \A j \in DOMAIN memKeys : ~ (j >= cursor)
    BY <1>1, <1>14 DEF HydrationDone, TypeOK
  <2>3. Cov(seen)
    BY <2>1, <2>2
  <2>4. ASSUME NEW k \in Keys, Recent(k)'
        PROVE  Recent(k) /\ Covers(seen', k, handledAt[k])
    <3>1. Recent(k) /\ k \notin FreshKeysLost(seen, KeepNewest(seen), clock)
      BY <1>3, <2>1, <2>4
    <3>. QED  BY <1>1, <1>5, <2>1, <2>3, <3>1, CoversAfterTruncation
  <2>. QED  BY <2>1, <2>4
<1>15. CASE Receive
  BY <1>2, <1>15 DEF Receive, history
<1>16. CASE SuppressDuplicate
  <2>. DEFINE kept == EvictExpired(seen, clock)
  <2>1. kept \in Seq(Entry) /\ Cov(kept)
    BY <1>1, <1>5, <1>16, EvictExpiredKeepsFresh, CoversAfterEviction
    DEF SuppressDuplicate
  <2>2. /\ Event \in KeysOf(kept) /\ seen' = MoveToEnd(kept, Event)
        /\ UNCHANGED <<clock, memKeys, disk, pc, markedAt, handledAt, forgotten>>
        /\ pc = "checking"
    BY <1>16 DEF SuppressDuplicate, history
  <2>. HIDE DEF kept
  <2>3. \A k \in Keys : Recent(k) => Covers(seen', k, handledAt[k])
    BY <2>1, <2>2, CoversAfterMove
  <2>. QED  BY <1>2, <2>2, <2>3
<1>17. CASE AcceptNew
  <2>. DEFINE kept == EvictExpired(seen, clock)
              x == [key |-> Event, at |-> clock]
              marked == Append(kept, x)
  <2>1. kept \in Seq(Entry) /\ Cov(kept)
    BY <1>1, <1>5, <1>17, EvictExpiredKeepsFresh, CoversAfterEviction DEF AcceptNew
  <2>2. x \in Entry /\ x.key = Event /\ x.at = clock /\ Event \in Keys
    BY <1>17, MarkedEntry DEF AcceptNew
  <2>3. /\ pc = "checking" /\ pc' = "marked" /\ markedAt' = clock
        /\ Event \notin KeysOf(kept) /\ seen' = KeepNewest(marked)
        /\ forgotten' = forgotten \cup FreshKeysLost(marked, KeepNewest(marked), clock)
        /\ UNCHANGED <<clock, memKeys, disk, batch, handledAt>>
    BY <1>17 DEF AcceptNew, Mark
  <2>. HIDE DEF kept, x
  <2>4. /\ marked \in Seq(Entry) /\ Covers(marked, Event, clock)
        /\ Cov(marked)
    BY <2>1, <2>2, CoversAfterAppend
  <2>5. Event' = Event
    BY <2>3 DEF Event
  <2>6. ~ Recent(Event)
    BY <2>1, <2>2, <2>3 DEF Covers, KeysOf
  <2>7. NoReplayWithinTTL'
    BY <1>1, <2>2, <2>3, <2>5, <2>6, DedupeAssumption DEF Recent
  <2>8. Covers(seen', Event, clock)
    <3>1. \E m \in DOMAIN marked : m = Len(marked) /\ marked[m] = x
      BY <2>1, <2>2, <2>4
    <3>2. PICK n \in Nat : /\ Len(KeepNewest(marked)) = Len(marked) - n
                           /\ n = 0 \/ Len(marked) = MaxItems + n
                           /\ \A m \in DOMAIN KeepNewest(marked) :
                                 KeepNewest(marked)[m] = marked[m + n]
      BY <2>4, KeepNewestIsSuffix
    <3>3. KeepNewest(marked) \in Seq(Entry)
      BY <2>4, KeepNewestIsSuffix
    <3>. HIDE DEF marked
    <3>4. Len(marked) - n \in DOMAIN KeepNewest(marked)
      BY <2>4, <3>1, <3>2, <3>3, DedupeAssumption
    <3>5. KeepNewest(marked)[Len(marked) - n] = x
      <4>1. (Len(marked) - n) + n = Len(marked)
        BY <2>4
      <4>. QED  BY <3>1, <3>2, <3>4, <4>1
    <3>. QED  BY <1>1, <2>2, <2>3, <3>4, <3>5 DEF Covers
  <2>. HIDE DEF marked
  <2>9. ASSUME NEW k \in Keys, Recent(k)'
        PROVE  Recent(k) /\ Covers(seen', k, handledAt[k])
    <3>1. Recent(k) /\ k \notin FreshKeysLost(marked, KeepNewest(marked), clock)
      BY <1>3, <2>3, <2>9
    <3>. QED  BY <1>1, <1>5, <2>3, <2>4, <3>1, CoversAfterTruncation
  <2>. QED  BY <2>3, <2>5, <2>7, <2>8, <2>9
<1>18. ASSUME pc = "marked", PersistEnabled
       PROVE  /\ KeepNewest(Recorded) \in Seq(Entry)
              /\ Covers(KeepNewest(Recorded), Event, markedAt)
              /\ \A k \in Keys :
                    Recent(k) /\ k \notin FreshKeysLost(Recorded, KeepNewest(Recorded), clock)
                       => Covers(KeepNewest(Recorded), k, handledAt[k])
  <2>. DEFINE x == [key |-> Event, at |-> clock]
  <2>1. x \in Entry /\ x.key = Event /\ x.at = clock
    BY <1>18, MarkedEntry DEF TypeOK
  <2>. HIDE DEF x
  <2>2. Recorded = Append(memKeys, x)
    BY DEF Recorded, x
  <2>3. /\ Recorded \in Seq(Entry)
        /\ Cov(Recorded)
    BY <1>1, <1>18, <2>1, <2>2, CoversAfterAppend
  <2>4. \A k \in Keys :
           Recent(k) /\ k \notin FreshKeysLost(Recorded, KeepNewest(Recorded), clock)
              => Covers(KeepNewest(Recorded), k, handledAt[k])
    BY <1>1, <1>5, <2>3, CoversAfterTruncation
  <2>5. Covers(KeepNewest(Recorded), Event, markedAt)
    <3>1. Len(Recorded) = Len(memKeys) + 1 /\ Recorded[Len(Recorded)] = x
      BY <1>1, <2>1, <2>2
    <3>2. PICK n \in Nat : /\ Len(KeepNewest(Recorded)) = Len(Recorded) - n
                           /\ n = 0 \/ Len(Recorded) = MaxItems + n
                           /\ \A m \in DOMAIN KeepNewest(Recorded) :
                                 KeepNewest(Recorded)[m] = Recorded[m + n]
      BY <2>3, KeepNewestIsSuffix
    <3>3. KeepNewest(Recorded) \in Seq(Entry) /\ Len(memKeys) \in Nat
      BY <1>1, <2>3, KeepNewestIsSuffix
    <3>4. Len(Recorded) - n \in DOMAIN KeepNewest(Recorded)
      BY <3>1, <3>2, <3>3, DedupeAssumption
    <3>5. (Len(Recorded) - n) + n = Len(Recorded)
      BY <3>1, <3>2, <3>3
    <3>6. KeepNewest(Recorded)[Len(Recorded) - n] = x
      BY <3>1, <3>2, <3>4, <3>5
    <3>7. clock >= markedAt
      BY <1>1 DEF TimesInv
    <3>. QED  BY <2>1, <3>4, <3>6, <3>7 DEF Covers
  <2>6. KeepNewest(Recorded) \in Seq(Entry)
    BY <2>3, KeepNewestIsSuffix
  <2>. QED  BY <2>4, <2>5, <2>6
<1>19. CASE Record
  <2>1. /\ pc = "marked" /\ pc' = "recorded" /\ PersistEnabled
        /\ memKeys' = KeepNewest(Recorded) /\ disk'.keys = KeepNewest(Recorded)
        /\ forgotten' = forgotten \cup FreshKeysLost(Recorded, KeepNewest(Recorded), clock)
        /\ UNCHANGED <<clock, seen, batch, markedAt, handledAt>>
    BY <1>19 DEF Record, File
  <2>2. Event' = Event
    BY <2>1 DEF Event
  <2>3. \A k \in Keys : Recent(k)' =>
           Recent(k) /\ Covers(KeepNewest(Recorded), k, handledAt[k])
    BY <1>3, <1>18, <2>1
  <2>. QED  BY <1>18, <2>1, <2>2, <2>3
<1>20. CASE RecordFails
  <2>1. /\ pc = "marked" /\ pc' = "idle" /\ PersistEnabled
        /\ memKeys' = KeepNewest(Recorded)
        /\ forgotten' = forgotten \cup FreshKeysLost(Recorded, KeepNewest(Recorded), clock)
        /\ UNCHANGED <<clock, seen, disk, handledAt>>
    BY <1>20 DEF RecordFails
  <2>2. \A k \in Keys : Recent(k)' =>
           Recent(k) /\ Covers(KeepNewest(Recorded), k, handledAt[k])
    BY <1>3, <1>18, <2>1
  <2>. QED  BY <2>1, <2>2
<1>21. CASE RecordDisabled
  <2>1. Event' = Event
    BY <1>21 DEF RecordDisabled, Event
  <2>. QED  BY <1>2, <1>21, <2>1 DEF RecordDisabled, history
<1>22. CASE Publish
  <2>1. /\ pc = "recorded" /\ pc' = "publishing" /\ Event \in Keys
        /\ handledAt' = [handledAt EXCEPT ![Event] = markedAt]
        /\ forgotten' = forgotten \ {Event}
        /\ UNCHANGED <<clock, seen, memKeys, disk>>
    BY <1>22, MarkedEntry DEF Publish, TypeOK
  <2>2. /\ handledAt'[Event] = markedAt
        /\ \A k \in Keys \ {Event} : handledAt'[k] = handledAt[k] /\ (Recent(k)' <=> Recent(k))
    BY <2>1 DEF Recent, TypeOK
  <2>3. \A k \in Keys : Recent(k)' => Covers(seen, k, handledAt'[k])
    BY <2>1, <2>2
  <2>4. PersistEnabled => \A k \in Keys : Recent(k)' =>
           Covers(memKeys, k, handledAt'[k]) /\ Covers(disk.keys, k, handledAt'[k])
    BY <2>1, <2>2
  <2>. QED  BY <2>1, <2>3, <2>4
<1>23. CASE FlushHealth
  <2>1. Event' = Event
    BY <1>23 DEF FlushHealth, Event
  <2>. QED  BY <1>2, <1>23, <2>1 DEF FlushHealth, history, File
<1>24. CASE PublishReturns
  BY <1>2, <1>24 DEF PublishReturns, history
<1>25. CASE MessageDone
  BY <1>2, <1>25 DEF MessageDone, history
<1>26. CASE Tick
  <2>1. /\ clock' = clock + 1 /\ pc # "hydrating"
        /\ UNCHANGED <<pc, seen, memKeys, disk, batch, markedAt, handledAt, forgotten>>
    BY <1>26 DEF Tick, history
  <2>2. \A k \in Keys : Recent(k)' => Recent(k)
    BY <1>1, <2>1, DedupeAssumption DEF Recent
  <2>3. Event' = Event
    BY <2>1 DEF Event
  <2>. QED  BY <2>1, <2>2, <2>3
<1>27. CASE Crash
  <2>1. /\ pc' = "down" /\ disk' = disk
        /\ forgotten' = forgotten \cup (IF PersistEnabled THEN {} ELSE Keys)
        /\ UNCHANGED <<clock, handledAt>>
    BY <1>27 DEF Crash, ProcessEnds
  <2>2. \A k \in Keys : Recent(k)' => Recent(k) /\ PersistEnabled
    BY <1>3, <2>1
  <2>. QED  BY <2>1, <2>2
<1>28. CASE PowerLoss
  <2>1. /\ pc' = "down" /\ Keys \subseteq forgotten'
    BY <1>28 DEF PowerLoss, ProcessEnds
  <2>2. \A k \in Keys : ~ Recent(k)'
    BY <2>1 DEF Recent
  <2>. QED  BY <2>1, <2>2
<1>29. CASE UNCHANGED vars
  <2>1. Event' = Event
    BY <1>29 DEF vars, Event
  <2>. QED  BY <1>2, <1>29, <2>1 DEF vars
<1>. QED
  BY <1>6, <1>7, <1>8, <1>9, <1>10, <1>11, <1>12, <1>13, <1>14, <1>15, <1>16, <1>17,
     <1>19, <1>20, <1>21, <1>22, <1>23, <1>24, <1>25, <1>26, <1>27, <1>28, <1>29
  DEF Next, Startup, Handle

(* The inductive invariant holds in every reachable state.                 *)
LEMMA IntakeInvariant == Spec => [](TypeOK /\ IntakeInv)
<1>1. Init => TypeOK /\ IntakeInv
  BY InitTypeOK, InitTimes, InitCover DEF IntakeInv
<1>2. TypeOK /\ IntakeInv /\ [Next]_vars => (TypeOK /\ IntakeInv)'
  BY NextTypeOK, NextTimes, NextCover DEF IntakeInv
<1>. QED  BY <1>1, <1>2, PTL DEF Spec

(* No event that the deduper still accounts for is dispatched twice within *)
(* the TTL, whatever the exchange repeats and however often the process    *)
(* ends and starts: execution_listener.py marks and records before it      *)
(* publishes.                                                              *)
THEOREM NoReplay == Spec => []NoReplayWithinTTL
<1>1. IntakeInv => NoReplayWithinTTL
  BY DEF IntakeInv, CoverInv
<1>. QED  BY <1>1, IntakeInvariant, PTL

(* What was dispatched within the TTL is in the state file.                *)
THEOREM CheckpointBeforeDispatch == Spec => []DispatchIsDurable
<1>1. IntakeInv => DispatchIsDurable
  BY DEF IntakeInv, CoverInv
<1>. QED  BY <1>1, IntakeInvariant, PTL

-----------------------------------------------------------------------------
(* Keys of derived lists.                                                  *)
LEMMA KeysOfSubset ==
    ASSUME NEW d, NEW e,
           \A m \in DOMAIN e : \E i \in DOMAIN d : e[m] = d[i]
    PROVE  KeysOf(e) \subseteq KeysOf(d)
BY DEF KeysOf

(* Appending an entry adds its key and no other.                           *)
LEMMA KeysOfAppend ==
    ASSUME NEW d \in Seq(Entry), NEW x \in Entry
    PROVE  KeysOf(Append(d, x)) \subseteq KeysOf(d) \cup {x.key}
BY CoversAfterAppend DEF KeysOf

(* Initially nothing is suppressed.                                        *)
LEMMA InitAccounted == Init => SuppressedWasAccounted
BY DEF Init, SuppressedWasAccounted, KeysOf, NoFile, Unused

(* Every step keeps what would be suppressed accounted for.                *)
LEMMA NextAccounted ==
    TypeOK /\ TimesInv /\ SuppressedWasAccounted /\ [Next]_vars => SuppressedWasAccounted'
<1>. SUFFICES ASSUME TypeOK, TimesInv, SuppressedWasAccounted, [Next]_vars
              PROVE  SuppressedWasAccounted'
  OBVIOUS
<1>. DEFINE Keep == \A k : Accounted(k) => Accounted(k)'
<1>. USE DEF SuppressedWasAccounted
<1>1. /\ clock \in Nat \ {0} /\ markedAt \in Nat /\ IsOrderedDict(seen)
      /\ seen \in Seq(Entry) /\ memKeys \in Seq(Entry) /\ disk.keys \in Seq(Entry)
  BY DEF TypeOK, IsOrderedDict
<1>2. ASSUME handledAt' = handledAt, abandoned \subseteq abandoned',
             \/ pc \notin {"marked", "recorded"}
             \/ pc' \in {"marked", "recorded"} /\ batch' = batch
             \/ Event \in abandoned'
      PROVE  Keep
  BY <1>2 DEF Accounted, Event
<1>3. KeysOf(<< >>) = {}
  BY DEF KeysOf
<1>4. CASE LoadDisabled
  <2>1. Keep  BY <1>2, <1>4 DEF LoadDisabled, history
  <2>. QED  BY <1>3, <1>4, <2>1 DEF LoadDisabled
<1>5. CASE LoadMissing
  <2>1. Keep  BY <1>2, <1>5 DEF LoadMissing, history
  <2>. QED  BY <1>3, <1>5, <2>1 DEF LoadMissing, File
<1>6. CASE LoadOk
  <2>1. Keep  BY <1>2, <1>6 DEF LoadOk, history
  <2>. QED  BY <1>6, <2>1 DEF LoadOk
<1>7. CASE LoadUnreadable
  <2>1. Keep  BY <1>2, <1>7 DEF LoadUnreadable, history
  <2>. QED  BY <1>3, <1>7, <2>1 DEF LoadUnreadable
<1>8. CASE InitializeFollowers
  <2>1. Keep  BY <1>2, <1>8 DEF InitializeFollowers, history
  <2>. QED  BY <1>8, <2>1 DEF InitializeFollowers, File
<1>9. CASE InitializeFails
  <2>1. Keep  BY <1>2, <1>9 DEF InitializeFails, history
  <2>. QED  BY <1>3, <1>9, <2>1 DEF InitializeFails, File
<1>10. CASE StartDedupe
  <2>1. Keep  BY <1>2, <1>10 DEF StartDedupe, history
  <2>. QED  BY <1>3, <1>10, <2>1 DEF StartDedupe
<1>11. CASE HydrateEntry
  <2>1. Keep  BY <1>2, <1>11 DEF HydrateEntry, history
  <2>2. cursor \in DOMAIN memKeys /\ memKeys[cursor] \in Entry
    BY <1>1, <1>11 DEF HydrateEntry, TypeOK
  <2>3. KeysOf(Put(seen, memKeys[cursor])) \subseteq KeysOf(seen) \cup KeysOf(memKeys)
    <3>1. \A m \in DOMAIN Put(seen, memKeys[cursor]) :
             \/ Put(seen, memKeys[cursor])[m] = memKeys[cursor]
             \/ \E i \in DOMAIN seen : Put(seen, memKeys[cursor])[m] = seen[i]
      BY <1>1, <2>2, PutAssigns
    <3>. QED  BY <2>2, <3>1 DEF KeysOf
  <2>. QED  BY <1>11, <2>1, <2>3 DEF HydrateEntry
<1>12. CASE HydrationDone
  <2>1. Keep  BY <1>2, <1>12 DEF HydrationDone
  <2>2. KeysOf(KeepNewest(seen)) \subseteq KeysOf(seen)
    BY <1>1, KeepNewestSubset, KeysOfSubset
  <2>. QED  BY <1>12, <2>1, <2>2 DEF HydrationDone
<1>13. CASE Receive
  <2>1. Keep  BY <1>2, <1>13 DEF Receive, history
  <2>. QED  BY <1>13, <2>1 DEF Receive
<1>14. KeysOf(EvictExpired(seen, clock)) \subseteq KeysOf(seen)
  BY <1>1, EvictExpiredKeepsFresh, KeysOfSubset
<1>15. CASE SuppressDuplicate
  <2>1. Keep  BY <1>2, <1>15 DEF SuppressDuplicate, history
  <2>2. EvictExpired(seen, clock) \in Seq(Entry)
    BY <1>1, EvictExpiredKeepsFresh
  <2>3. KeysOf(seen') \subseteq KeysOf(EvictExpired(seen, clock))
    BY <1>15, <2>2, MoveToEndPermutes, KeysOfSubset DEF SuppressDuplicate
  <2>. QED  BY <1>14, <1>15, <2>1, <2>3 DEF SuppressDuplicate
<1>16. ASSUME batch # << >>
       PROVE  [key |-> Event, at |-> clock] \in Entry
  BY <1>16, MarkedEntry
<1>17. CASE AcceptNew
  <2>1. Keep  BY <1>2, <1>17 DEF AcceptNew
  <2>. DEFINE kept == EvictExpired(seen, clock)
              marked == Append(kept, [key |-> Event, at |-> clock])
  <2>2. kept \in Seq(Entry)
    BY <1>1, EvictExpiredKeepsFresh
  <2>3. seen' = KeepNewest(marked) /\ UNCHANGED <<memKeys, disk>>
    BY <1>17 DEF AcceptNew, Mark
  <2>4. Accounted(Event)'
    BY <1>17 DEF AcceptNew, Accounted, Event
  <2>5. Event' = Event
    BY <1>17 DEF AcceptNew, Event
  <2>. HIDE DEF kept
  <2>6. marked \in Seq(Entry) /\ KeysOf(marked) \subseteq KeysOf(kept) \cup {Event}
    BY <1>16, <1>17, <2>2, CoversAfterAppend, KeysOfAppend DEF AcceptNew
  <2>. HIDE DEF marked
  <2>7. KeysOf(seen') \subseteq KeysOf(seen) \cup {Event}
    BY <1>14, <2>3, <2>6, KeepNewestSubset, KeysOfSubset DEF kept
  <2>. QED  BY <2>1, <2>3, <2>4, <2>5, <2>7
<1>18. ASSUME pc = "marked"
       PROVE  KeysOf(KeepNewest(Recorded)) \subseteq KeysOf(memKeys) \cup {Event}
  <2>1. /\ Recorded \in Seq(Entry)
        /\ KeysOf(Recorded) \subseteq KeysOf(memKeys) \cup {Event}
    BY <1>1, <1>16, <1>18, CoversAfterAppend, KeysOfAppend DEF Recorded, TypeOK
  <2>. QED  BY <2>1, KeepNewestSubset, KeysOfSubset
<1>19. pc \in {"marked", "recorded"} => Accounted(Event)
  BY DEF Accounted
<1>20. CASE Record
  <2>1. Keep  BY <1>2, <1>20 DEF Record
  <2>. QED  BY <1>18, <1>19, <1>20, <2>1 DEF Record, File
<1>21. CASE RecordFails
  <2>1. Keep  BY <1>2, <1>21 DEF RecordFails
  <2>. QED  BY <1>18, <1>19, <1>21, <2>1 DEF RecordFails
<1>22. CASE RecordDisabled
  <2>1. Keep  BY <1>2, <1>22 DEF RecordDisabled, history
  <2>. QED  BY <1>22, <2>1 DEF RecordDisabled
<1>23. CASE Publish
  <2>1. markedAt # 0 /\ Event \in Keys
    BY <1>23, MarkedEntry DEF Publish, TimesInv, TypeOK
  <2>2. Keep
    BY <1>23, <2>1 DEF Publish, Accounted, TypeOK
  <2>. QED  BY <1>23, <2>2 DEF Publish
<1>24. CASE FlushHealth
  <2>1. Keep  BY <1>2, <1>24 DEF FlushHealth, history
  <2>. QED  BY <1>24, <2>1 DEF FlushHealth, File
<1>25. CASE PublishReturns
  <2>1. Keep  BY <1>2, <1>25 DEF PublishReturns, history
  <2>. QED  BY <1>25, <2>1 DEF PublishReturns
<1>26. CASE MessageDone
  <2>1. Keep  BY <1>2, <1>26 DEF MessageDone, history
  <2>. QED  BY <1>26, <2>1 DEF MessageDone
<1>27. CASE Tick
  <2>1. Keep  BY <1>2, <1>27 DEF Tick, history
  <2>. QED  BY <1>27, <2>1 DEF Tick
<1>28. ASSUME NEW file, NEW lost, ProcessEnds(file, lost)
       PROVE  Keep /\ seen' = << >> /\ memKeys' = << >> /\ disk' = file
  BY <1>2, <1>28 DEF ProcessEnds
<1>29. CASE Crash
  BY <1>3, <1>28, <1>29 DEF Crash
<1>30. CASE PowerLoss
  BY <1>3, <1>28, <1>30 DEF PowerLoss, Unreadable
<1>31. CASE UNCHANGED vars
  <2>1. Keep  BY <1>2, <1>31 DEF vars
  <2>. QED  BY <1>31, <2>1 DEF vars
<1>. QED
  BY <1>4, <1>5, <1>6, <1>7, <1>8, <1>9, <1>10, <1>11, <1>12, <1>13, <1>15, <1>17,
     <1>20, <1>21, <1>22, <1>23, <1>24, <1>25, <1>26, <1>27, <1>29, <1>30, <1>31
  DEF Next, Startup, Handle

(* Whatever the deduper or the file suppresses was dispatched, is being    *)
(* dispatched, or was abandoned by a failing write or the end of the       *)
(* process: no other event is ever lost to suppression.                    *)
THEOREM SuppressionIsAccounted == Spec => []SuppressedWasAccounted
<1>1. Init => SuppressedWasAccounted
  BY InitAccounted
<1>2. IntakeInv => TimesInv
  BY DEF IntakeInv
<1>. QED  BY <1>1, <1>2, NextAccounted, IntakeInvariant, PTL DEF Spec
=============================================================================
