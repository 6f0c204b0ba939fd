----------------------------- MODULE PositionSync -----------------------------
(***************************************************************************)
(* The copy of leverage and full-position stops: SyncEngine takes the      *)
(* master's order, execution and position events off the websocket one at  *)
(* a time, those it has not seen before; Phase3PositionSyncPolicy turns a  *)
(* position event into a request, PositionSyncStateManager suppresses it   *)
(* when the desired state has not changed, and every follower's task sets  *)
(* the leverage, waits for a matching position and sets the stop.          *)
(*                                                                         *)
(* One symbol.  Take profit and stop loss are one value, 0 when the master *)
(* has none, and their trigger types one type.  How an execution moves the *)
(* followers is the subject of MirrorExecution; here it is one step.  The  *)
(* master reaches the other side by way of a flat position.                *)
(***************************************************************************)
EXTENDS Integers, Sequences, FiniteSets, SequencesExt

CONSTANTS Followers,
          Leverages,       \* leverages an account may have
          Stops,           \* stop prices
          Triggers,        \* trigger types
          MasterSettings,  \* what of these the master's position goes through
          DefaultTrigger,  \* default_tp_trigger_by, default_sl_trigger_by
          SyncLeverage, SyncTpsl, CancelEmpty,  \* sync_leverage, sync_tpsl,
                           \* sync_empty_tpsl_to_cancel
          Concurrency,     \* follower_replication_concurrency
          SyncAttempts,    \* follower_position_sync_attempts
          MayClose,        \* whether the master closes its position
          Reordered,       \* whether topics overtake each other
          Losses,          \* whether events are repeated or lost, with a
                           \* connection or for a failing checkpoint
          Faults,          \* whether calls fail and positions differ; with
                           \* either the process restarts
          MaxMoves,        \* bound on the changes of the master
          None

ASSUME SyncAssumption == /\ Leverages \subseteq Nat \ {0}
                         /\ Stops \subseteq Nat \ {0}
                         /\ DefaultTrigger \in Triggers
                         /\ None \notin Triggers
                         /\ {SyncLeverage, SyncTpsl, CancelEmpty} \subseteq BOOLEAN
                         /\ {MayClose, Reordered, Losses, Faults} \subseteq BOOLEAN
                         /\ Concurrency \in Nat \ {0}
                         /\ SyncAttempts \in Nat \ {0}
                         /\ MaxMoves \in Nat

VARIABLES
    master,   \* side, leverage, stop and trigger type of the master's position
    moves,    \* how often they were changed
    stream,   \* events on their way to the engine
    last,     \* an event taken or lost that the exchange may repeat
    seen,     \* fingerprints the deduper holds, and the state file unless
    unsaved,  \* they are of these, whose checkpoint failed
    lost,     \* fingerprints of the position events that were lost (history)
    heard,    \* the one of the position event handled last (history)
    trigger,  \* _trigger_by of the symbol
    desired,  \* _last_desired of the symbol
    request,  \* the request being synced
    task, tries, levered, failed, result,  \* per follower, its _sync_one
    health,   \* the status in the follower's health snapshot
    pos, lev, stop, trig  \* the follower's account at the exchange

engine  == <<trigger, desired, request>>
tasks   == <<task, tries, levered, failed, result>>
account == <<pos, lev, stop, trig>>
source  == <<master, moves>>
missing == <<lost, heard>>
intake  == <<stream, last, seen, unsaved, missing>>
vars == <<source, intake, engine, tasks, health, account>>

Sides == {"none", "Buy", "Sell"}

Settings == [side : Sides, lev : Leverages, stop : Stops \cup {0},
             trigger : Triggers]

(* A value of -1 is one the request does not carry.                        *)
Request == [side : {"Buy", "Sell"}, lev : Leverages \cup {-1},
            stop : Stops \cup {0, -1}, trigger : Triggers]

Event == [kind : {"execution", "order", "position"}, of : Settings, seq : Nat,
          copy : {0, 1}]

ASSUME MasterAssumption == MasterSettings \subseteq Settings

ASSUME NoneAssumption == None \notin Request /\ None \notin Event

Phases  == {"idle", "waiting", "leverage", "finding", "stopping", "done"}
Running == {"leverage", "finding", "stopping"}
Results == {"none", "synced", "partial_error", "skipped_no_matching_position",
            "unexpected_follower_error"}

TypeOK ==
    /\ master \in Settings
    /\ moves \in Nat
    /\ stream \in Seq(Event)
    /\ last \in Event \cup {None}
    /\ trigger \in Triggers \cup {None}
    /\ desired \in Request \cup {None}
    /\ request \in Request \cup {None}
    /\ task \in [Followers -> Phases]
    /\ tries \in [Followers -> 1 .. SyncAttempts]
    /\ levered \in [Followers -> BOOLEAN]
    /\ failed \in [Followers -> BOOLEAN]
    /\ result \in [Followers -> [name : Results, skipped : BOOLEAN]]
    /\ health \in [Followers -> {"healthy", "degraded"}]
    /\ pos \in [Followers -> Sides]
    /\ lev \in [Followers -> Leverages]
    /\ stop \in [Followers -> Stops \cup {0}]
    /\ trig \in [Followers -> Triggers]

NoResult == [name |-> "none", skipped |-> FALSE]

Init ==
    /\ master \in {s \in MasterSettings : /\ s.side = "none" /\ s.stop = 0
                                           /\ s.trigger = DefaultTrigger}
    /\ moves = 0
    /\ stream = << >> /\ last = None
    /\ seen = {} /\ unsaved = {}
    /\ lost = {} /\ heard = None
    /\ trigger = None /\ desired = None /\ request = None
    /\ task    = [f \in Followers |-> "idle"]
    /\ tries   = [f \in Followers |-> 1]
    /\ levered = [f \in Followers |-> FALSE]
    /\ failed  = [f \in Followers |-> FALSE]
    /\ result  = [f \in Followers |-> NoResult]
    /\ health  = [f \in Followers |-> "healthy"]
    /\ pos     = [f \in Followers |-> "none"]
    /\ lev \in [Followers -> Leverages]
    /\ stop    = [f \in Followers |-> 0]
    /\ trig    = [f \in Followers |-> DefaultTrigger]

(***************************************************************************)
(* The master changes its position or the settings of it.  Every change,   *)
(* and any order activity that changes nothing, is reported as a position  *)
(* event; a change of side as an execution; a new stop as an order that    *)
(* carries its trigger type.                                               *)
(***************************************************************************)
PositionReport(p, n) == [kind |-> "position", of |-> p, seq |-> n, copy |-> 0]

Reports(new) ==
    LET Of(kind, happened) ==
            IF happened THEN {[PositionReport(new, moves + 1) EXCEPT !.kind = kind]}
                        ELSE {}
    IN  Of("execution", new.side # master.side)
        \cup Of("order", /\ new.stop # 0
                         /\ <<new.stop, new.trigger>> # <<master.stop, master.trigger>>)
        \cup Of("position", TRUE)

InOrder(s) == \A i, j \in DOMAIN s :
    i < j => <<s[i].kind, s[j].kind>> \in
        {<<"execution", "order">>, <<"execution", "position">>, <<"order", "position">>}

MasterMoves(new) ==
    /\ moves < MaxMoves
    /\ moves' = moves + 1
    /\ new.side # master.side => "none" \in {new.side, master.side}
    /\ new.side = "none" => new.stop = 0 /\ (MayClose \/ master.side = "none")
    /\ master' = new
    /\ \E s \in SetToSeqs(Reports(new)) :
          /\ Reordered \/ InOrder(s)
          /\ stream' = stream \o s
    /\ UNCHANGED <<last, seen, unsaved, missing, engine, tasks, health, account>>

(* After a reconnect, or of its own accord, the exchange repeats an event, *)
(* in a message of another id, and however late.                           *)
Repeat ==
    /\ Losses /\ last # None
    /\ stream' = Append(stream, [last EXCEPT !.copy = 1])
    /\ last' = None
    /\ UNCHANGED <<source, seen, unsaved, missing, engine, tasks, health, account>>

(***************************************************************************)
(* The listener takes the events in turn and drops those it has seen.      *)
(***************************************************************************)

(* event_models.py: an execution is known by its id.                       *)
ExecutionFingerprint(e) == <<e.kind, e.seq>>

(* An order by its id, status, update time and the id of the message.      *)
OrderFingerprint(e) == <<e.kind, e.seq, e.copy>>

(* Mutant of PositionFingerprint: the message id counts.                   *)
FingerprintWithMessage(e) == <<e.kind, e.seq, e.copy, e.of.side, e.of.stop, e.of.lev>>

(* A position by its sequence, size and settings.                          *)
PositionFingerprint(e) == <<e.kind, e.seq, e.of.side, e.of.stop, e.of.lev>>

EventFingerprint(e) ==
    CASE e.kind = "execution" -> ExecutionFingerprint(e)
      [] e.kind = "order"     -> OrderFingerprint(e)
      [] e.kind = "position"  -> PositionFingerprint(e)

NextEvent   == Head(stream)
NextIsKnown == EventFingerprint(NextEvent) \in seen

(* The reader is free and the next event is new.                           *)
IsOffered == request = None /\ stream # << >> /\ ~ NextIsKnown

(* It is of this kind, marked as seen, and the state file written.         *)
Accept(kind) ==
    /\ IsOffered /\ NextEvent.kind = kind
    /\ seen' = seen \cup {EventFingerprint(NextEvent)}
    /\ unsaved' = {}

(* It has been handled.                                                    *)
Taken ==
    /\ stream' = Tail(stream)
    /\ last' = IF NextEvent.copy = 0 THEN NextEvent ELSE None

SuppressDuplicate ==
    /\ request = None /\ stream # << >> /\ NextIsKnown
    /\ stream' = Tail(stream)
    /\ UNCHANGED <<source, last, seen, unsaved, missing, engine, tasks, health, account>>

(* The connection ends, and with it all events but the first n; the        *)
(* exchange may repeat one of them.                                        *)
IsNew(e, known) == e.kind = "position" /\ EventFingerprint(e) \notin known

Disconnect(n) ==
    LET gone == n + 1 .. Len(stream)
    IN  /\ stream' = SubSeq(stream, 1, n)
        /\ lost' = lost \cup {EventFingerprint(stream[i]) :
                               i \in {j \in gone : IsNew(stream[j], seen)}}
        /\ last' \in {last} \cup {stream[i] : i \in {j \in gone : stream[j].copy = 0}}

(* It breaks while events are on their way, or buffered behind the one     *)
(* that is being handled.                                                  *)
LoseConnection ==
    /\ Losses
    /\ \E n \in (IF request = None THEN 0 ELSE 1) .. Len(stream) - 1 : Disconnect(n)
    /\ UNCHANGED <<source, seen, unsaved, heard, engine, tasks, health, account>>

(* record_master_event raises: the event is marked, and never handled, and *)
(* the exception ends the connection.                                      *)
RecordFails ==
    /\ Losses /\ IsOffered
    /\ seen' = seen \cup {EventFingerprint(NextEvent)}
    /\ unsaved' = unsaved \cup {EventFingerprint(NextEvent)}
    /\ Disconnect(0)
    /\ UNCHANGED <<source, heard, engine, tasks, health, account>>

(***************************************************************************)
(* SyncEngine.handle_event.                                                *)
(***************************************************************************)

(* observe_order.                                                          *)
HandleOrder ==
    /\ Accept("order") /\ Taken
    /\ trigger' = NextEvent.of.trigger
    /\ UNCHANGED <<source, missing, desired, request, tasks, health, account>>

(* A new position starts without a stop.                                   *)
Move(f, side) ==
    /\ pos'  = [pos EXCEPT ![f] = side]
    /\ stop' = [stop EXCEPT ![f] = 0]
    /\ UNCHANGED <<lev, trig>>

(* The mirrored execution moves the followers, with faults only some.      *)
HandleExecution ==
    /\ Accept("execution") /\ Taken
    /\ \E moved \in SUBSET Followers :
          /\ Faults \/ moved = Followers
          /\ pos'  = [f \in Followers |-> IF f \in moved THEN NextEvent.of.side ELSE pos[f]]
          /\ stop' = [f \in Followers |-> IF f \in moved THEN 0 ELSE stop[f]]
    /\ UNCHANGED <<source, missing, engine, tasks, health, lev, trig>>

(* evaluate_position.                                                      *)
RequestFor(p) ==
    [side    |-> p.side,
     lev     |-> IF SyncLeverage THEN p.lev ELSE -1,
     stop    |-> IF SyncTpsl /\ (p.stop # 0 \/ CancelEmpty) THEN p.stop ELSE -1,
     trigger |-> IF trigger # None THEN trigger ELSE DefaultTrigger]

ShouldSync(p) ==
    p.side # "none" /\ (RequestFor(p).lev # -1 \/ RequestFor(p).stop # -1)

(* Mutant of Fingerprint: the trigger type does not count.                 *)
FingerprintOfPrices(r) == <<r.side, r.lev, r.stop>>

(* desired_state_fingerprint.                                              *)
Fingerprint(r) == <<r.side, r.lev, r.stop, r.trigger>>

IsUnchanged(r) == desired # None /\ Fingerprint(desired) = Fingerprint(r)

(* History: the position event is handled, and was not lost for good if it *)
(* is newer than all that were seen.                                       *)
IsNewest(e) == \A k \in seen : k[1] = "position" => k[2] < e.seq

Hear ==
    /\ heard' = EventFingerprint(NextEvent)
    /\ lost' = IF IsNewest(NextEvent) THEN lost \ {EventFingerprint(NextEvent)} ELSE lost

IgnorePosition ==
    /\ Accept("position") /\ Taken /\ Hear
    /\ ShouldSync(NextEvent.of) => IsUnchanged(RequestFor(NextEvent.of))
    /\ UNCHANGED <<source, engine, tasks, health, account>>

(* should_dispatch remembers the request before anything was done for it.  *)
DispatchSync ==
    /\ Accept("position") /\ Hear
    /\ ShouldSync(NextEvent.of)
    /\ ~ IsUnchanged(RequestFor(NextEvent.of))
    /\ desired' = RequestFor(NextEvent.of)
    /\ request' = RequestFor(NextEvent.of)
    /\ task' = [f \in Followers |-> "waiting"]
    /\ UNCHANGED <<source, stream, last, trigger, tries, levered, failed, result,
                   health, account>>

(* gather returns; record_follower_result, until a state write fails.      *)
FinishSync ==
    /\ request # None
    /\ \A f \in Followers : task[f] = "done"
    /\ \E recorded \in SUBSET Followers :
          /\ recorded = Followers \/ (Faults /\ recorded # {})
          /\ health' = [f \in Followers |->
                          IF f \notin recorded THEN health[f]
                          ELSE IF result[f].name = "synced" \/ result[f].skipped
                               THEN "healthy" ELSE "degraded"]
    /\ request' = None
    /\ Taken
    /\ task'    = [f \in Followers |-> "idle"]
    /\ tries'   = [f \in Followers |-> 1]
    /\ levered' = [f \in Followers |-> FALSE]
    /\ failed'  = [f \in Followers |-> FALSE]
    /\ result'  = [f \in Followers |-> NoResult]
    /\ UNCHANGED <<source, seen, unsaved, missing, trigger, desired, account>>

(***************************************************************************)
(* sync_position_settings of one follower.                                 *)
(***************************************************************************)
HasLeverage == request.lev # -1
HasTpsl     == request.stop # -1

Return(f, name, skipped) ==
    /\ task' = [task EXCEPT ![f] = "done"]
    /\ result' = [result EXCEPT ![f] = [name |-> name, skipped |-> skipped]]

(* Mutant of Complete: an error does not count when any setting was made.  *)
CompleteOnAny(f, error, success) ==
    Return(f, IF success \/ levered[f] THEN "synced" ELSE "partial_error", FALSE)

(* The end of the method: failure is any error so far, success any setting.*)
Complete(f, error, success) ==
    Return(f, IF ~ error /\ success THEN "synced" ELSE "partial_error", FALSE)

StartSync(f) ==
    /\ task[f] = "waiting"
    /\ Cardinality({g \in Followers : task[g] \in Running}) < Concurrency
    /\ task' = [task EXCEPT ![f] = IF HasLeverage THEN "leverage" ELSE "finding"]
    /\ UNCHANGED <<source, intake, engine, tries, levered, failed, result,
                   health, account>>

(* set_leverage; a call that raises may still have been carried out.       *)
SetLeverage(f) ==
    /\ task[f] = "leverage"
    /\ \E ok \in IF Faults THEN BOOLEAN ELSE {TRUE} :
          /\ lev' \in {[lev EXCEPT ![f] = request.lev]} \cup (IF ok THEN {} ELSE {lev})
          /\ levered' = [levered EXCEPT ![f] = ok]
          /\ failed' = [failed EXCEPT ![f] = ~ ok]
          /\ \/ HasTpsl /\ task' = [task EXCEPT ![f] = "finding"] /\ UNCHANGED result
             \/ ~ HasTpsl /\ Complete(f, ~ ok, ok)
    /\ UNCHANGED <<source, intake, engine, tries, health, pos, stop, trig>>

Matches(f) == pos[f] = request.side

(* Mutant of Again: the attempts are not counted.                          *)
AgainForever(f) == task[f] = "finding" /\ pos[f] = "none" /\ UNCHANGED tasks

(* Mutant of Again: one attempt too many.                                  *)
AgainOnceMore(f) ==
    /\ task[f] = "finding" /\ pos[f] = "none"
    /\ tries[f] <= SyncAttempts
    /\ tries' = [tries EXCEPT ![f] = @ + 1]
    /\ UNCHANGED <<task, levered, failed, result>>

(* No position yet: sleep and read once more.                              *)
Again(f) ==
    /\ task[f] = "finding" /\ pos[f] = "none"
    /\ tries[f] < SyncAttempts
    /\ tries' = [tries EXCEPT ![f] = @ + 1]
    /\ UNCHANGED <<task, levered, failed, result>>

(* _wait_for_matching_position.                                            *)
FindPosition(f) ==
    /\ \/ /\ task[f] = "finding" /\ Matches(f)
          /\ task' = [task EXCEPT ![f] = "stopping"]
          /\ UNCHANGED <<tries, levered, failed, result>>
       \/ Again(f)
       \/ /\ task[f] = "finding" /\ ~ Matches(f)
          /\ pos[f] = "none" => tries[f] >= SyncAttempts
          /\ Return(f, IF failed[f] \/ levered[f] THEN "partial_error"
                                                  ELSE "skipped_no_matching_position",
                    ~ failed[f])
          /\ UNCHANGED <<tries, levered, failed>>
    /\ UNCHANGED <<source, intake, engine, health, account>>

(* The read raises: nothing in the method catches it.                      *)
FindFails(f) ==
    /\ Faults /\ task[f] = "finding"
    /\ Return(f, "unexpected_follower_error", FALSE)
    /\ UNCHANGED <<source, intake, engine, tries, levered, failed, health, account>>

(* set_trading_stop, on whatever position there is by now.                 *)
SetStop(f) ==
    /\ task[f] = "stopping"
    /\ LET applied == /\ stop' = [stop EXCEPT ![f] = request.stop]
                      /\ trig' = [trig EXCEPT ![f] = request.trigger]
       IN  \/ /\ pos[f] # "none" /\ applied
              /\ Complete(f, failed[f], TRUE)
           \/ /\ pos[f] = "none" \/ Faults
              /\ (pos[f] # "none" /\ applied) \/ UNCHANGED <<stop, trig>>
              /\ Complete(f, TRUE, FALSE)
    /\ UNCHANGED <<source, intake, engine, tries, levered, failed, health, pos, lev>>

(***************************************************************************)
(* The environment.                                                        *)
(***************************************************************************)

(* The follower's position changes by itself: a stop is hit, a manual      *)
(* trade, a late execution.                                                *)
FollowerMoves(f, side) ==
    /\ Faults /\ side # pos[f]
    /\ Move(f, side)
    /\ UNCHANGED <<source, intake, engine, tasks, health>>

(* The process restarts, perhaps between a checkpoint and the handler; the *)
(* caches are in memory, and what the engine did not take is lost.  The    *)
(* fingerprints come back from the state file: persistence is on and the   *)
(* file readable, and none has expired; EventIntake is about the others.   *)
RestartSync ==
    /\ Losses \/ Faults
    /\ trigger' = None /\ desired' = None /\ request' = None
    /\ \/ seen' = seen \ unsaved
       \/ IsOffered /\ seen' = seen \cup {EventFingerprint(NextEvent)}
    /\ unsaved' = {}
    /\ Disconnect(0)
    /\ task'    = [f \in Followers |-> "idle"]
    /\ tries'   = [f \in Followers |-> 1]
    /\ levered' = [f \in Followers |-> FALSE]
    /\ failed'  = [f \in Followers |-> FALSE]
    /\ result'  = [f \in Followers |-> NoResult]
    /\ health'  = [f \in Followers |-> "healthy"]
    /\ UNCHANGED <<source, heard, account>>

SyncStep(f) == StartSync(f) \/ SetLeverage(f) \/ FindPosition(f) \/ SetStop(f)

Handle == \/ SuppressDuplicate \/ HandleOrder \/ HandleExecution
          \/ IgnorePosition \/ DispatchSync \/ FinishSync

Next == \/ \E new \in MasterSettings : MasterMoves(new)
        \/ Handle \/ \E f \in Followers : SyncStep(f) \/ FindFails(f)
        \/ \E f \in Followers, side \in Sides : FollowerMoves(f, side)
        \/ Repeat \/ LoseConnection \/ RecordFails \/ RestartSync

(* The event loop runs what can run and every HTTP call ends; nothing      *)
(* makes a read fail.                                                      *)
Spec == /\ Init /\ [][Next]_vars
        /\ WF_vars(Handle)
        /\ \A f \in Followers : WF_vars(SyncStep(f))

(***************************************************************************)
(* Properties.                                                             *)
(***************************************************************************)
Settled == stream = << >> /\ request = None

(* README, Phase 3: keep follower position settings aligned.  When nothing *)
(* the master did is left to handle, a follower that holds the master's    *)
(* side has its leverage, stop and trigger type.                           *)
SettingsAligned ==
    Settled /\ master.side # "none" =>
        \A f \in Followers : pos[f] = master.side =>
            /\ lev[f] = master.lev
            /\ stop[f] = master.stop
            /\ master.stop # 0 => trig[f] = master.trigger

(* Suppression hides no change that reaches the engine.  Once everything   *)
(* is handled, and whatever failed, ended, was lost, repeated or reordered *)
(* before, the desired state the engine remembers is the one the master's  *)
(* position asks for, except where an event went missing: the one of this  *)
(* position was lost (with its connection, with a process, or because its  *)
(* checkpoint failed after it was marked) and not repeated in time, or the *)
(* one handled last had been, and was repeated after newer ones.           *)
IsDesired(p) ==
    /\ desired.side = p.side
    /\ desired.lev = RequestFor(p).lev
    /\ desired.stop = RequestFor(p).stop

Latest == PositionFingerprint(PositionReport(master, moves))

DesiredIsCurrent ==
    Settled /\ desired # None /\ ShouldSync(master) =>
        IsDesired(master) \/ Latest \in lost \/ heard \in lost

(* Nor does it go back: a sync is dispatched only for a position that is   *)
(* newer than every one the listener has seen before, in whichever         *)
(* process, though events are repeated after newer ones were taken; unless *)
(* it is one that had been lost.                                           *)
DesiredGoesForward ==
    [][request = None /\ request' # None =>
          IsNewest(NextEvent) \/ EventFingerprint(NextEvent) \in lost]_vars

(* A sync that is reported as synced is: at that moment the follower has   *)
(* the leverage and the stop of the request, though calls may fail, or     *)
(* raise and still be carried out, at once (not during a later sync), and  *)
(* its position comes and goes.                                            *)
SyncedIsSet ==
    [][\A f \in Followers :
          task[f] # "done" /\ task'[f] = "done" /\ result'[f].name = "synced" =>
              /\ HasLeverage => lev'[f] = request.lev
              /\ HasTpsl => /\ pos[f] # "none"
                            /\ <<stop'[f], trig'[f]>> = <<request.stop, request.trigger>>]_vars

(* Every dispatched sync comes to an end, whatever the followers' exchange *)
(* answers and whether or not a matching position ever appears.            *)
SyncReturns == []<>(request = None)

(***************************************************************************)
(* The inductive invariants: behind TypeOK, that a task only sets what the *)
(* request carries; behind DesiredIsCurrent, that the newest position is   *)
(* still to come, was seen or was lost, and what DesiredGoesForward needs  *)
(* too: a new event of the stream that had not been lost is newer than     *)
(* all that were seen, and all before it.                                  *)
(***************************************************************************)
RequestInv ==
    /\ request # None => stream # << >> /\ (HasLeverage \/ HasTpsl)
    /\ \A f \in Followers :
          /\ task[f] # "idle" => request # None
          /\ task[f] = "leverage" => HasLeverage
          /\ task[f] \in {"finding", "stopping"} => HasTpsl

(* The newest position is as the master has it.                            *)
IsOfMaster(e) ==
    /\ e.seq <= moves
    /\ e.kind = "position" /\ e.seq = moves => e.of = master

StreamInv ==
    /\ \A i \in DOMAIN stream : IsOfMaster(stream[i])
    /\ last # None => /\ IsOfMaster(last)
                     /\ ~ IsNew(last, seen \cup lost)
    /\ \A k \in seen \cup lost : k[2] \in 0 .. moves
    /\ unsaved \subseteq seen
    /\ \A k \in unsaved : k[1] = "position" => k \in lost
    /\ request # None => NextIsKnown /\ unsaved = {}

ForwardInv ==
    \A i \in DOMAIN stream :
        IsNew(stream[i], seen \cup lost) =>
            /\ IsNewest(stream[i])
            /\ \A j \in 1 .. i - 1 : IsNew(stream[j], seen) => stream[j].seq < stream[i].seq

IsToCome == \E i \in DOMAIN stream : IsNew(stream[i], seen) /\ stream[i].seq = moves

IsCurrent == desired # None /\ ShouldSync(master) => IsDesired(master)

DesiredInv ==
    /\ IsToCome \/ Latest \in lost \/ Latest \in seen \/ moves = 0
    /\ IsToCome \/ Latest \in lost \/ heard \in lost \/ IsCurrent

(* Behind SyncedIsSet: without an error so far the leverage is set.        *)
LeveredInv ==
    \A f \in Followers :
        task[f] \in {"finding", "stopping"} /\ HasLeverage /\ ~ failed[f]
            => lev[f] = request.lev

(***************************************************************************)
(* The inductive invariant behind SettingsAligned, as long as nothing      *)
(* fails, topics do not overtake each other and the master does not close  *)
(* its position: then the master opens once, and every change arrives as   *)
(* an execution, an order and a position event, in this order.             *)
(***************************************************************************)

(* The event b may follow a: only an execution changes the side, and a     *)
(* position with a stop comes right after the order that carries its       *)
(* trigger type, or after a position with the same stop.                   *)
Leads(a, b) ==
    /\ a.of.side = IF b.kind = "execution" THEN "none" ELSE b.of.side
    /\ b.kind = "position" /\ b.of.stop # 0 =>
          \/ a.kind = "order" /\ a.of = b.of
          \/ a.kind = "position" /\ <<a.of.stop, a.of.trigger>> = <<b.of.stop, b.of.trigger>>

ChainInv ==
    /\ master.side = "none" => master.stop = 0
    /\ \A i \in DOMAIN stream : i + 1 \in DOMAIN stream => Leads(stream[i], stream[i + 1])
    /\ stream # << >> => LET e == stream[Len(stream)]
                         IN  e.kind = "position" /\ e.of = master

(* No event is suppressed: only the one being handled has been seen.       *)
FreshInv ==
    /\ \A i, j \in DOMAIN stream :
          stream[i].kind = stream[j].kind /\ stream[i].seq = stream[j].seq => i = j
    /\ \A i \in DOMAIN stream :
          EventFingerprint(stream[i]) \in seen => i = 1 /\ request # None

(* What the engine comes to next; with nothing left, the master's position *)
(* as it is.                                                               *)
Upcoming ==
    IF stream # << >> THEN NextEvent
    ELSE PositionReport(master, moves)

(* The engine has dealt with everything before it.                         *)
CaughtUpInv ==
    LET side == IF Upcoming.kind = "execution" THEN "none" ELSE Upcoming.of.side
    IN  /\ \A f \in Followers : pos[f] = side
        /\ desired # None => desired.side = side
        /\ Upcoming.kind = "position" /\ Upcoming.of.stop # 0 => trigger = Upcoming.of.trigger

(* Without a request under way every follower has what was last desired;   *)
(* with one, what its task has come to.                                    *)
HasDesired(f) == lev[f] = desired.lev /\ stop[f] = desired.stop /\ trig[f] = desired.trigger

SyncedInv ==
    /\ desired # None /\ request = None => \A f \in Followers : HasDesired(f)
    /\ request # None =>
          /\ NextEvent.kind = "position"
          /\ request = RequestFor(NextEvent.of) /\ desired = request
          /\ \A f \in Followers :
                /\ task[f] \in {"finding", "stopping"} => lev[f] = request.lev
                /\ task[f] = "done" => HasDesired(f)

(* Once everything is handled, what was last desired is what the master    *)
(* has.                                                                    *)
LastDesiredInv ==
    Settled /\ master.side # "none" =>
        /\ desired # None /\ IsDesired(master)
        /\ master.stop # 0 => desired.trigger = master.trigger

AlignedInv == ChainInv /\ FreshInv /\ CaughtUpInv /\ SyncedInv /\ LastDesiredInv
=============================================================================
