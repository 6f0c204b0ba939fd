----------------------------- MODULE CopyPipeline -----------------------------
(***************************************************************************)
(* The engine as main.py assembles it: what the listener publishes         *)
(* (EventIntake) is what SyncEngine hands to the followers                 *)
(* (MirrorExecution), and record_follower_result goes to the state file    *)
(* that holds the seen keys.  One task reads the websocket and awaits the  *)
(* handlers, so an event is mirrored while it is being published; the end  *)
(* of the process ends both at once and leaves the state file and the      *)
(* exchange.                                                               *)
(*                                                                         *)
(* The events are executions, and the fingerprint of one is its number.    *)
(***************************************************************************)
EXTENDS EventIntake, MirrorPolicy, OrderQuantity, FiniteSets

CONSTANTS Followers, Lot, Concurrency, Attempts, BlockIfOpen, ClipClose,
          PromptFills, MaxTrades, MaxMishaps,  \* as in MirrorExecution
          MasterSides  \* sides of the master's executions

ASSUME PipelineAssumption == /\ MaxTrades \in Nat
                             /\ Keys = 1 .. MaxTrades
                             /\ MasterSides \subseteq Sides
                             /\ Lot \in Specs
                             /\ Concurrency \in Nat \ {0}
                             /\ Attempts \in Nat \ {0}
                             /\ {BlockIfOpen, ClipClose, PromptFills} \subseteq BOOLEAN
                             /\ MaxMishaps \in Nat

VARIABLES
    trades, masterPath, delivered, cur, round, active, health, task, attempt,
    plan, result, wire, book, used, pos, copied, mishaps

Mirror == INSTANCE MirrorExecution WITH Faults <- TRUE

mirror == <<trades, masterPath, delivered, cur, round, active, health, task,
            attempt, plan, result, wire, book, used, pos, copied, mishaps>>

PipelineInit == Init /\ Mirror!Init

(***************************************************************************)
(* Steps of one of the two.                                                *)
(***************************************************************************)
IntakeOnly(A) == A /\ UNCHANGED mirror
MirrorOnly(A) == A /\ UNCHANGED vars

(* A message reports executions that happened.                             *)
ReceiveTrades ==
    /\ IntakeOnly(Receive)
    /\ \A i \in DOMAIN batch' : batch'[i] \in DOMAIN trades

IntakeStep ==
    \/ IntakeOnly(SuppressDuplicate) \/ IntakeOnly(AcceptNew)
    \/ IntakeOnly(Record) \/ IntakeOnly(RecordFails)
    \/ IntakeOnly(RecordDisabled) \/ IntakeOnly(MessageDone)

TaskStep(f) == MirrorOnly(Mirror!TaskStep(f))

Exchange ==
    \/ \E f \in Followers : \E r \in wire[f] : MirrorOnly(Mirror!Handles(f, r))
    \/ \E f \in Followers : \E r \in book[f] : MirrorOnly(Mirror!Fill(f, r))

MasterTrades ==
    \E type \in ExecTypes, s \in MasterSides, q \in 1 .. MaxQty :
        MirrorOnly(Mirror!MasterTrade(type, s, q))

(***************************************************************************)
(* Steps of both.                                                          *)
(***************************************************************************)

(* The bus calls SyncEngine.handle_event.                                  *)
PublishTrade ==
    /\ Publish
    /\ Mirror!Deliver(Event) \/ Mirror!Redeliver(Event)

(* The health snapshots are flushed with the keys; a write may fail, and   *)
(* none is made when persistence is off.                                   *)
RecordResults ==
    /\ Mirror!Finish
    /\ FlushHealth \/ UNCHANGED vars

(* gather in EventBus.publish returns when the handler has.                *)
HandlersReturn ==
    /\ cur = 0
    /\ IntakeOnly(PublishReturns)

EngineEnds == (Crash \/ PowerLoss) /\ Mirror!Restart

EngineStep == IntakeStep \/ PublishTrade \/ HandlersReturn \/ RecordResults

PipelineNext ==
    \/ MasterTrades \/ ReceiveTrades \/ EngineStep
    \/ \E f \in Followers : TaskStep(f)
    \/ Exchange \/ EngineEnds
    \/ IntakeOnly(Startup) \/ IntakeOnly(Tick)

(* The event loop runs what can run, and every HTTP call ends, for the     *)
(* client has a timeout; nothing is assumed of the exchange or the master, *)
(* and nothing restarts the process.                                       *)
PipelineSpec == /\ PipelineInit /\ [][PipelineNext]_<<vars, mirror>>
                /\ WF_<<vars, mirror>>(EngineStep)
                /\ \A f \in Followers : WF_<<vars, mirror>>(TaskStep(f))

(***************************************************************************)
(* Properties.                                                             *)
(***************************************************************************)

(* f was sent an order for execution e.                                    *)
Ordered(f, e) == e \in used[f] \/ \E r \in wire[f] \cup book[f] : r.exec = e

(* README, Event Deduplication: durable dedupe checkpoints are written     *)
(* before follower dispatch.  An execution any follower has an order for   *)
(* is in the state file, as late as its last dispatch, so that a process   *)
(* started now would not mirror it again: until the TTL is over, and       *)
(* unless the entry was given up.                                          *)
CopyIsRemembered ==
    \A f \in Followers : \A e \in Keys :
        Ordered(f, e) =>
            /\ handledAt[e] # 0
            /\ PersistEnabled /\ Recent(e) => Covers(disk.keys, e, handledAt[e])

(* README, Follower Failure Isolation: whatever the exchange answers to a  *)
(* follower, or if it never does, and whatever happens to the state file,  *)
(* the engine gets through a message and reads on, unless the process      *)
(* ends.                                                                   *)
EngineReadsOn == pc = "checking" ~> pc \in {"idle", "down"}

(***************************************************************************)
(* The invariant that adds to those of the two parts: what is sent to a    *)
(* follower is for an execution that was published.                        *)
(***************************************************************************)
Published(e) == e \in Keys /\ handledAt[e] # 0

PublishedInv ==
    /\ cur # 0 => Published(cur)
    /\ \A f \in Followers :
          /\ task[f] # "idle" => cur # 0
          /\ \A e \in used[f] : Published(e)
          /\ \A r \in wire[f] \cup book[f] : Published(r.exec)

(* wire, book, used and task are kept per follower.                        *)
PerFollower ==
    /\ DOMAIN wire = Followers /\ DOMAIN book = Followers
    /\ DOMAIN used = Followers /\ DOMAIN task = Followers
=============================================================================
