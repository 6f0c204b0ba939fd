-------------------------- MODULE EventDeduplicator --------------------------
(***************************************************************************)
(* The data structure of app/core/dedupe.py: an OrderedDict from event     *)
(* fingerprints to the time they were accepted.  It is a sequence of       *)
(* entries, oldest position first, in which no key occurs twice.  The      *)
(* fingerprints themselves (event_models.py) are opaque keys.  The same    *)
(* entries, but with possibly repeated keys, are the seen_event_keys list  *)
(* of app/core/state_manager.py.                                           *)
(***************************************************************************)
EXTENDS Integers, Sequences, SequencesExt

CONSTANTS Keys,      \* event fingerprints
          TTL,       \* dedupe_ttl_seconds
          MaxItems   \* dedupe_max_items, also RuntimeStateManager's max_event_keys

ASSUME DedupeAssumption == /\ TTL \in Nat \ {0}
                           /\ MaxItems \in Nat \ {0}

Entry == [key : Keys, at : Nat]

(* now - inserted_at <= ttl: the boundary instant still counts as fresh.   *)
Fresh(e, now) == now <= e.at + TTL

(* Mutant of IsPersisted: the boundary instant is cut off.                 *)
PersistedStrict(e, now) == e.at > now - TTL

(* inserted_at_epoch >= cutoff, the test persisted_event_keys makes of the *)
(* same age: it must let through whatever the deduper calls fresh.         *)
IsPersisted(e, now) == e.at >= now - TTL

KeysOf(d) == {d[i].key : i \in DOMAIN d}

IsOrderedDict(d) ==
    /\ d \in Seq(Entry)
    /\ \A i, j \in DOMAIN d : d[i].key = d[j].key => i = j

PositionOf(d, k) == CHOOSE i \in DOMAIN d : d[i].key = k

(* The loop of _evict_expired pops entries off the front and stops at the  *)
(* first fresh one: an expired entry behind a fresh one stays.             *)
IsFirstKept(d, now, n) ==
    /\ n \in 1 .. Len(d) + 1
    /\ n <= Len(d) => Fresh(d[n], now)
    /\ \A i \in 1 .. n - 1 : ~ Fresh(d[i], now)

FirstKept(d, now) == CHOOSE n \in 1 .. Len(d) + 1 : IsFirstKept(d, now, n)

EvictExpired(d, now) == SubSeq(d, FirstKept(d, now), Len(d))

(* The last MaxItems elements: _evict_overflow, and the slice that bounds  *)
(* seen_event_keys.                                                        *)
KeepNewest(d) ==
    IF Len(d) > MaxItems THEN SubSeq(d, Len(d) - MaxItems + 1, Len(d)) ELSE d

(* OrderedDict.move_to_end: the entry keeps the time it was inserted.      *)
MoveToEnd(d, k) ==
    LET i == PositionOf(d, k) IN Append(RemoveAt(d, i), d[i])

(* Mutant of Put: the entries are kept in a list instead of a dict.        *)
PutInList(d, e) == Append(d, e)

(* dict assignment: an existing key keeps its position.                    *)
Put(d, e) ==
    IF e.key \in KeysOf(d) THEN [d EXCEPT ![PositionOf(d, e.key)] = e]
                           ELSE Append(d, e)

(* Keys of which a fresh entry of before is no longer in after.            *)
FreshKeysLost(before, after, now) ==
    {before[i].key : i \in {j \in DOMAIN before :
        /\ Fresh(before[j], now)
        /\ \A m \in DOMAIN after : after[m] # before[j]}}

(* k has an entry in d that was made at t or later.                        *)
Covers(d, k, t) == \E i \in DOMAIN d : d[i].key = k /\ d[i].at >= t
=============================================================================
