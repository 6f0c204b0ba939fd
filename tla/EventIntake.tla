----------------------------- MODULE EventIntake -----------------------------
(***************************************************************************)
(* How a master event gets from the websocket to the event bus: the start  *)
(* of the process (main.py), MasterExecutionListener.handle_message, the   *)
(* deduper it consults and the runtime state file that makes the deduper   *)
(* survive a restart.                                                      *)
(*                                                                         *)
(* The engine is one asyncio task here: the read loop awaits each handler, *)
(* so the steps of one message never interleave with those of another.     *)
(* What does interleave is the clock, the health snapshots the followers   *)
(* flush, failing writes, and the end of the process at any await.         *)
(***************************************************************************)
EXTENDS EventDeduplicator

CONSTANTS MaxBatch,        \* rows of one websocket message, bound
          MaxTime,         \* bound on the clock
          MaxCrashes,      \* bound on the number of process ends
          FileCorruptible  \* whether the end of the process may be a power
                           \* loss that leaves the state file unreadable

ASSUME IntakeAssumption == /\ MaxBatch \in Nat
                           /\ MaxTime \in Nat
                           /\ MaxCrashes \in Nat
                           /\ FileCorruptible \in BOOLEAN

VARIABLES
    clock,      \* time.time()
    pc,         \* where the process is
    seen,       \* EventDeduplicator._seen
    memKeys,    \* RuntimeStateManager._state.seen_event_keys
    disk,       \* the state file; unused when persistence is off
    cursor,     \* position in memKeys of the hydration loop
    batch,      \* events of the current message still to be handled
    markedAt,   \* time the head of batch was marked as seen
    crashes,
    (* History, read by no action of the engine. *)
    handledAt,  \* per key, the mark time of its last published event; 0: none
    abandoned,  \* keys marked as seen whose publication never happened
    forgotten   \* keys of which the engine dropped a fresh entry

history == <<handledAt, abandoned, forgotten>>
vars == <<clock, pc, seen, memKeys, disk, cursor, batch, markedAt, crashes,
          handledAt, abandoned, forgotten>>

Locations == {"down", "loaded", "initialized", "hydrating",
              "idle", "checking", "marked", "recorded", "publishing"}
Serving == {"idle", "checking", "marked", "recorded", "publishing"}

(* The events of a message: none when a row of it is malformed, for then   *)
(* its normalization raises as a whole.                                    *)
Batches == UNION {[1 .. n -> Keys] : n \in 0 .. MaxBatch}

File(keys) == [status |-> "ok", keys |-> keys]
NoFile     == [status |-> "missing", keys |-> << >>]
Unreadable == [status |-> "unreadable", keys |-> << >>]
Unused     == [status |-> "unused", keys |-> << >>]

(* settings.persist_runtime_state, the same in every process.              *)
PersistEnabled == disk.status # "unused"

Event == Head(batch)

TypeOK ==
    /\ clock \in Nat \ {0}
    /\ pc \in Locations
    /\ IsOrderedDict(seen)
    /\ pc \in Serving => Len(seen) <= MaxItems
    /\ memKeys \in Seq(Entry)
    /\ disk \in [status : {"ok", "missing", "unreadable", "unused"}, keys : Seq(Entry)]
    /\ cursor \in Nat \ {0}
    /\ batch \in Seq(Keys)
    /\ pc \in {"marked", "recorded", "publishing"} => batch # << >>
    /\ markedAt \in Nat
    /\ crashes \in Nat
    /\ handledAt \in [Keys -> Nat]
    /\ abandoned \subseteq Keys
    /\ forgotten \subseteq Keys

Init ==
    /\ clock = 1
    /\ pc = "down"
    /\ seen = << >>
    /\ memKeys = << >>
    /\ disk \in {NoFile, Unused}
    /\ cursor = 1
    /\ batch = << >>
    /\ markedAt = 0
    /\ crashes = 0
    /\ handledAt = [k \in Keys |-> 0]
    /\ abandoned = {}
    /\ forgotten = {}

(***************************************************************************)
(* Start of the process.                                                   *)
(***************************************************************************)

(* RuntimeStateManager.load, in its four cases.                            *)
LoadDisabled ==
    /\ pc = "down" /\ ~ PersistEnabled
    /\ memKeys' = << >>
    /\ pc' = "loaded"
    /\ UNCHANGED <<clock, seen, disk, cursor, batch, markedAt, crashes, history>>

LoadMissing ==
    /\ pc = "down" /\ PersistEnabled
    /\ disk.status = "missing"
    /\ memKeys' = << >>
    /\ disk' = File(<< >>)
    /\ pc' = "loaded"
    /\ UNCHANGED <<clock, seen, cursor, batch, markedAt, crashes, history>>

LoadOk ==
    /\ pc = "down" /\ PersistEnabled
    /\ disk.status = "ok"
    /\ memKeys' = disk.keys
    /\ pc' = "loaded"
    /\ UNCHANGED <<clock, seen, disk, cursor, batch, markedAt, crashes, history>>

LoadUnreadable ==
    /\ pc = "down" /\ PersistEnabled
    /\ disk.status = "unreadable"
    /\ memKeys' = << >>
    /\ pc' = "loaded"
    /\ UNCHANGED <<clock, seen, disk, cursor, batch, markedAt, crashes, history>>

(* record_follower_startup flushes the whole state for every follower that *)
(* was validated.                                                          *)
InitializeFollowers ==
    /\ pc = "loaded"
    /\ disk' = IF PersistEnabled THEN File(memKeys) ELSE disk
    /\ pc' = "initialized"
    /\ UNCHANGED <<clock, seen, memKeys, cursor, batch, markedAt, crashes, history>>

(* The master's credentials are refused, or those of every follower, the   *)
(* latter after a flush for each: the process ends.                        *)
InitializeFails ==
    /\ pc = "loaded"
    /\ disk' \in IF PersistEnabled THEN {disk, File(memKeys)} ELSE {disk}
    /\ memKeys' = << >>
    /\ pc' = "down"
    /\ UNCHANGED <<clock, seen, cursor, batch, markedAt, crashes, history>>

(* EventDeduplicator.__init__ over persisted_event_keys(ttl): an entry has *)
(* to pass the tests of both.  The code between them has no await, so the  *)
(* clock stands still while pc = "hydrating".                              *)
StartDedupe ==
    /\ pc = "initialized"
    /\ seen' = << >>
    /\ cursor' = 1
    /\ pc' = "hydrating"
    /\ UNCHANGED <<clock, memKeys, disk, batch, markedAt, crashes, history>>

HydrateEntry ==
    /\ pc = "hydrating"
    /\ cursor <= Len(memKeys)
    /\ LET entry == memKeys[cursor]
       IN  seen' = IF IsPersisted(entry, clock) /\ Fresh(entry, clock)
                   THEN Put(seen, entry) ELSE seen
    /\ cursor' = cursor + 1
    /\ UNCHANGED <<clock, pc, memKeys, disk, batch, markedAt, crashes, history>>

HydrationDone ==
    /\ pc = "hydrating"
    /\ cursor > Len(memKeys)
    /\ seen' = KeepNewest(seen)
    /\ forgotten' = forgotten \cup FreshKeysLost(seen, KeepNewest(seen), clock)
    /\ cursor' = 1
    /\ pc' = "idle"
    /\ UNCHANGED <<clock, memKeys, disk, batch, markedAt, crashes,
                   handledAt, abandoned>>

(***************************************************************************)
(* handle_message.                                                         *)
(***************************************************************************)

(* A message arrives.  The exchange may repeat any event it sent before.   *)
Receive ==
    /\ pc = "idle"
    /\ batch' \in Batches
    /\ pc' = "checking"
    /\ UNCHANGED <<clock, seen, memKeys, disk, cursor, markedAt, crashes, history>>

(* check_and_mark returns False.                                           *)
SuppressDuplicate ==
    /\ pc = "checking" /\ batch # << >>
    /\ Event \in KeysOf(EvictExpired(seen, clock))
    /\ seen' = MoveToEnd(EvictExpired(seen, clock), Event)
    /\ batch' = Tail(batch)
    /\ UNCHANGED <<clock, pc, memKeys, disk, cursor, markedAt, crashes, history>>

(* Mutant of Mark: the next event of the message is marked with this one.  *)
MarkWholeBatch(kept) ==
    LET next == IF Len(batch) > 1 /\ batch[2] \notin KeysOf(kept) \cup {Event}
                THEN <<[key |-> batch[2], at |-> clock]>> ELSE << >>
    IN  Append(kept, [key |-> Event, at |-> clock]) \o next

(* check_and_mark returns True.                                            *)
Mark(kept) == Append(kept, [key |-> Event, at |-> clock])

AcceptNew ==
    /\ pc = "checking" /\ batch # << >>
    /\ LET kept   == EvictExpired(seen, clock)
           marked == Mark(kept)
       IN  /\ Event \notin KeysOf(kept)
           /\ seen' = KeepNewest(marked)
           /\ forgotten' = forgotten \cup FreshKeysLost(marked, KeepNewest(marked), clock)
    /\ markedAt' = clock
    /\ pc' = "marked"
    /\ UNCHANGED <<clock, memKeys, disk, cursor, batch, crashes, handledAt, abandoned>>

(* record_master_event appends to the list in memory, truncates it, and    *)
(* replaces the file.                                                      *)
Recorded == Append(memKeys, [key |-> Event, at |-> clock])

(* Mutant of Record: the file is left to the next flush of anyone.         *)
RecordInMemory ==
    /\ pc = "marked" /\ PersistEnabled
    /\ memKeys' = KeepNewest(Recorded)
    /\ forgotten' = forgotten \cup FreshKeysLost(Recorded, KeepNewest(Recorded), clock)
    /\ pc' = "recorded"
    /\ UNCHANGED <<clock, seen, disk, cursor, batch, markedAt, crashes, handledAt, abandoned>>

Record ==
    /\ pc = "marked" /\ PersistEnabled
    /\ memKeys' = KeepNewest(Recorded)
    /\ disk' = File(KeepNewest(Recorded))
    /\ forgotten' = forgotten \cup FreshKeysLost(Recorded, KeepNewest(Recorded), clock)
    /\ pc' = "recorded"
    /\ UNCHANGED <<clock, seen, cursor, batch, markedAt, crashes, handledAt, abandoned>>

(* The write raises: the exception leaves handle_message and the read      *)
(* loop, the connection is dropped and the rest of the message with it.    *)
(* Neither the mark nor the entry in memory is taken back.                 *)
RecordFails ==
    /\ pc = "marked" /\ PersistEnabled
    /\ memKeys' = KeepNewest(Recorded)
    /\ forgotten' = forgotten \cup FreshKeysLost(Recorded, KeepNewest(Recorded), clock)
    /\ abandoned' = abandoned \cup {Event}
    /\ batch' = << >>
    /\ markedAt' = 0
    /\ pc' = "idle"
    /\ UNCHANGED <<clock, seen, disk, cursor, crashes, handledAt>>

RecordDisabled ==
    /\ pc = "marked" /\ ~ PersistEnabled
    /\ pc' = "recorded"
    /\ UNCHANGED <<clock, seen, memKeys, disk, cursor, batch, markedAt, crashes, history>>

(* Mutant of Publish: the seen check is made once more before dispatch.    *)
PublishUnlessSeen ==
    /\ pc = "recorded"
    /\ Event \notin KeysOf(seen)
    /\ handledAt' = [handledAt EXCEPT ![Event] = markedAt]
    /\ forgotten' = forgotten \ {Event}
    /\ abandoned' = abandoned \ {Event}
    /\ pc' = "publishing"
    /\ UNCHANGED <<clock, seen, memKeys, disk, cursor, batch, markedAt, crashes>>

(* event_bus.publish: from here on the handlers run.                       *)
Publish ==
    /\ pc = "recorded"
    /\ handledAt' = [handledAt EXCEPT ![Event] = markedAt]
    /\ forgotten' = forgotten \ {Event}
    /\ abandoned' = abandoned \ {Event}
    /\ pc' = "publishing"
    /\ UNCHANGED <<clock, seen, memKeys, disk, cursor, batch, markedAt, crashes>>

(* record_follower_result, called by the handlers, flushes the whole state *)
(* and with it any key whose own write had failed.                         *)
FlushHealth ==
    /\ pc = "publishing" /\ PersistEnabled
    /\ disk' = File(memKeys)
    /\ UNCHANGED <<clock, pc, seen, memKeys, cursor, batch, markedAt, crashes, history>>

(* publish never raises: the bus gathers the handlers' exceptions.         *)
PublishReturns ==
    /\ pc = "publishing"
    /\ batch' = Tail(batch)
    /\ markedAt' = 0
    /\ pc' = "checking"
    /\ UNCHANGED <<clock, seen, memKeys, disk, cursor, crashes, history>>

MessageDone ==
    /\ pc = "checking" /\ batch = << >>
    /\ pc' = "idle"
    /\ UNCHANGED <<clock, seen, memKeys, disk, cursor, batch, markedAt, crashes, history>>

(***************************************************************************)
(* The environment.                                                        *)
(***************************************************************************)
Tick ==
    /\ pc # "hydrating"
    /\ clock < MaxTime
    /\ clock' = clock + 1
    /\ UNCHANGED <<pc, seen, memKeys, disk, cursor, batch, markedAt, crashes, history>>

(* The process ends, by a signal, an exit or a kill, between two steps.    *)
(* The state file is replaced by a rename, so a process that dies leaves   *)
(* the old file or the new one; it is not fsynced, so a power loss can     *)
(* leave one that does not parse.                                          *)
ProcessEnds(file, lost) ==
    /\ pc # "down"
    /\ crashes < MaxCrashes
    /\ crashes' = crashes + 1
    /\ pc' = "down"
    /\ disk' = file
    /\ seen' = << >>
    /\ memKeys' = << >>
    /\ batch' = << >>
    /\ cursor' = 1
    /\ markedAt' = 0
    /\ forgotten' = forgotten \cup lost
    /\ abandoned' = IF pc \in {"marked", "recorded"} THEN abandoned \cup {Event}
                                                     ELSE abandoned
    /\ UNCHANGED <<clock, handledAt>>

Crash == ProcessEnds(disk, IF PersistEnabled THEN {} ELSE Keys)

PowerLoss == /\ FileCorruptible /\ PersistEnabled
             /\ ProcessEnds(Unreadable, Keys)

Startup == \/ LoadDisabled \/ LoadMissing \/ LoadOk \/ LoadUnreadable
           \/ InitializeFollowers \/ InitializeFails
           \/ StartDedupe \/ HydrateEntry \/ HydrationDone

Handle == \/ SuppressDuplicate \/ AcceptNew
          \/ Record \/ RecordFails \/ RecordDisabled
          \/ Publish \/ PublishReturns \/ MessageDone

Next == Startup \/ Receive \/ Handle \/ FlushHealth \/ Tick \/ Crash \/ PowerLoss

Spec == Init /\ [][Next]_vars

(***************************************************************************)
(* Properties.                                                             *)
(***************************************************************************)

(* k was dispatched less than TTL seconds ago and its entry was not given  *)
(* up: dropped by the capacity bound while fresh, lost with an unreadable  *)
(* file, or never persisted.                                               *)
Recent(k) ==
    handledAt[k] # 0 /\ k \notin forgotten /\ clock <= handledAt[k] + TTL

(* An event the engine is about to dispatch was not dispatched within the  *)
(* last TTL seconds, over replays, reconnects and restarts, unless its     *)
(* entry was given up.                                                     *)
NoReplayWithinTTL ==
    pc \in {"marked", "recorded"} /\ Event \notin forgotten /\ handledAt[Event] # 0
        => markedAt > handledAt[Event] + TTL

(* README, Event Deduplication: durable checkpoints are written before     *)
(* follower dispatch.  Whatever was dispatched within the last TTL seconds *)
(* is in the file, so a restart at this very moment would suppress it.     *)
DispatchIsDurable ==
    PersistEnabled =>
        \A k \in Keys : Recent(k) => Covers(disk.keys, k, handledAt[k])

(* The deduper holds no key that was neither dispatched nor abandoned, so  *)
(* suppression never hides an event for another reason than those two.     *)
Accounted(k) ==
    \/ handledAt[k] # 0
    \/ k \in abandoned
    \/ pc \in {"marked", "recorded"} /\ k = Event

SuppressedWasAccounted ==
    /\ \A k \in KeysOf(seen) : Accounted(k)
    /\ \A k \in KeysOf(memKeys) : Accounted(k)
    /\ \A k \in KeysOf(disk.keys) : Accounted(k)

(* Every event that is marked as seen is dispatched, or abandoned by a     *)
(* failing write or by the end of the process.                             *)
MarkedIsSettled ==
    \A k \in Keys : (pc = "marked" /\ Event = k)
                        ~> (handledAt[k] # 0 \/ k \in abandoned)

(* dedupe.py calls itself a TTL deduper whose check returns True when the  *)
(* key is new: a key whose entry is older than the TTL is new again.       *)
ExpiredKeyIsNew ==
    [][\A i \in DOMAIN seen :
          pc = "checking" /\ pc' = "checking" /\ batch # << >> /\ batch' = Tail(batch)
              /\ seen[i].key = Event
            => Fresh(seen[i], clock)]_vars

(***************************************************************************)
(* The inductive invariant behind NoReplayWithinTTL: every place the       *)
(* deduper's memory can be rebuilt from holds an entry, at least as late   *)
(* as the last dispatch, of every key that was dispatched recently.        *)
(***************************************************************************)

(* No entry is later than now, and the two lists are sorted by time, so    *)
(* that of two entries of a key the later one wins when they are hydrated. *)
InThePast(d) == \A i \in DOMAIN d : d[i].at <= clock
Sorted(d)    == \A i, j \in DOMAIN d : i <= j => d[i].at <= d[j].at

TimesInv ==
    /\ InThePast(seen) /\ InThePast(memKeys) /\ InThePast(disk.keys)
    /\ Sorted(memKeys) /\ Sorted(disk.keys)
    /\ markedAt <= clock
    /\ pc \in {"marked", "recorded", "publishing"} => markedAt # 0

FileInv == disk.status # "ok" => disk.keys = << >>

VolatileInv ==
    ~ PersistEnabled /\ pc \notin Serving => \A k \in Keys : ~ Recent(k)

MemoryInv ==
    PersistEnabled /\ pc # "down" =>
        \A k \in Keys : Recent(k) => Covers(memKeys, k, handledAt[k])

HydrationInv ==
    pc = "hydrating" =>
        /\ \A i \in DOMAIN seen : \A j \in DOMAIN memKeys :
              j >= cursor => seen[i].at <= memKeys[j].at
        /\ \A k \in Keys : Recent(k) =>
              \/ Covers(seen, k, handledAt[k])
              \/ \E j \in DOMAIN memKeys :
                    j >= cursor /\ memKeys[j].key = k /\ memKeys[j].at >= handledAt[k]

ServingInv ==
    pc \in Serving => \A k \in Keys : Recent(k) => Covers(seen, k, handledAt[k])

(* The event under way is already where its dispatch will need it.         *)
EventInv ==
    /\ pc \in {"marked", "recorded"} => Covers(seen, Event, markedAt)
    /\ pc = "recorded" /\ PersistEnabled =>
          Covers(memKeys, Event, markedAt) /\ Covers(disk.keys, Event, markedAt)

CoverInv ==
    /\ VolatileInv /\ MemoryInv /\ HydrationInv /\ ServingInv /\ EventInv
    /\ DispatchIsDurable /\ NoReplayWithinTTL

IntakeInv == TimesInv /\ FileInv /\ CoverInv
=============================================================================
