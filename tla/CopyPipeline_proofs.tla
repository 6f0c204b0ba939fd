-------------------------- MODULE CopyPipeline_proofs --------------------------
(* Whatever the bounds, the followers and the faults: the engine as a whole*)
(* implements EventIntake and MirrorExecution and inherits what is proved  *)
(* of them; and an execution a follower has an order for is remembered.    *)
EXTENDS CopyPipeline, EventIntake_proofs

-----------------------------------------------------------------------------
(* Every step of the whole is a step of the listener or none of it.        *)
LEMMA StepsOfIntake == [PipelineNext]_<<vars, mirror>> => [Next]_vars
<1>. SUFFICES ASSUME [PipelineNext]_<<vars, mirror>> PROVE [Next]_vars
  OBVIOUS
<1>1. CASE MasterTrades \/ Exchange
  BY <1>1 DEF MasterTrades, Exchange, MirrorOnly
<1>2. CASE ReceiveTrades
  BY <1>2 DEF ReceiveTrades, IntakeOnly, Next
<1>3. CASE IntakeStep
  BY <1>3 DEF IntakeStep, IntakeOnly, Next, Handle
<1>4. CASE PublishTrade
  BY <1>4 DEF PublishTrade, Next, Handle
<1>5. CASE HandlersReturn
  BY <1>5 DEF HandlersReturn, IntakeOnly, Next, Handle
<1>6. CASE RecordResults
  BY <1>6 DEF RecordResults, Next
<1>7. CASE \E f \in Followers : TaskStep(f)
  BY <1>7 DEF TaskStep, MirrorOnly
<1>8. CASE EngineEnds
  BY <1>8 DEF EngineEnds, Next
<1>9. CASE IntakeOnly(Startup) \/ IntakeOnly(Tick)
  BY <1>9 DEF IntakeOnly, Next
<1>10. CASE UNCHANGED <<vars, mirror>>
  BY <1>10
<1>. QED
  BY <1>1, <1>2, <1>3, <1>4, <1>5, <1>6, <1>7, <1>8, <1>9, <1>10 DEF PipelineNext, EngineStep

(* What the listener does among the followers' tasks is what it does alone.*)
THEOREM ImplementsIntake == PipelineSpec => Spec
<1>1. PipelineInit => Init
  BY DEF PipelineInit
<1>. QED  BY <1>1, StepsOfIntake, PTL DEF PipelineSpec, Spec

(* Its inductive invariant.                                                *)
LEMMA PipelineIntakeInv == PipelineSpec => [](TypeOK /\ IntakeInv)
BY ImplementsIntake, IntakeInvariant

-----------------------------------------------------------------------------
(* Every step of the whole is a step of the mirroring or none of it; an    *)
(* event that is delivered is an execution that happened.                  *)
Delivered ==
    /\ masterPath \in Seq(Int) /\ Len(masterPath) = Len(trades) + 1
    /\ trades \in Seq(Mirror!Executions) /\ delivered \in 0 .. Len(trades)

LEMMA StepsOfMirror ==
    Delivered /\ [PipelineNext]_<<vars, mirror>> => [Mirror!Next]_Mirror!vars
<1>. SUFFICES ASSUME Delivered, [PipelineNext]_<<vars, mirror>>
              PROVE  [Mirror!Next]_Mirror!vars
  OBVIOUS
<1>1. CASE MasterTrades
  BY <1>1, PipelineAssumption DEF MasterTrades, MirrorOnly, Mirror!Next, Mirror!Sides, Sides
<1>2. CASE UNCHANGED mirror
  BY <1>2 DEF mirror, Mirror!vars, Mirror!master, Mirror!engine, Mirror!tasks, Mirror!exchange
<1>3. CASE PublishTrade
  <2>1. Event \in DOMAIN trades
    BY <1>3 DEF PublishTrade, Mirror!Deliver, Mirror!Redeliver, Delivered
  <2>. QED  BY <1>3, <2>1 DEF PublishTrade, Mirror!Next
<1>4. CASE RecordResults \/ EngineEnds
  BY <1>4 DEF RecordResults, EngineEnds, Mirror!Next
<1>5. CASE \E f \in Followers : TaskStep(f)
  BY <1>5 DEF TaskStep, MirrorOnly, Mirror!Next
<1>6. CASE Exchange
  BY <1>6 DEF Exchange, MirrorOnly, Mirror!Next
<1>. QED
  BY <1>1, <1>2, <1>3, <1>4, <1>5, <1>6
     DEF PipelineNext, EngineStep, ReceiveTrades, IntakeStep, HandlersReturn, IntakeOnly

LEMMA StepDelivered ==
    Delivered /\ [PipelineNext]_<<vars, mirror>> => Delivered'
<1>. SUFFICES ASSUME Delivered, [PipelineNext]_<<vars, mirror>>
              PROVE  Delivered'
  OBVIOUS
<1>1. ASSUME NEW type \in ExecTypes, NEW s \in MasterSides, NEW q \in 1 .. MaxQty,
             Mirror!MasterTrade(type, s, q)
      PROVE  Delivered'
  <2>. DEFINE x == [type |-> type, side |-> s, qty |-> q,
                    closed |-> Mirror!Least(q, Mirror!Reducible(Mirror!masterPos, s))]
  <2>1. q \in Nat /\ s \in Mirror!Sides /\ Mirror!masterPos \in Int
    BY PolicyAssumption, PipelineAssumption DEF Mirror!Sides, Sides, Delivered, Mirror!masterPos
  <2>2. Mirror!Reducible(Mirror!masterPos, s) \in Nat
    BY <2>1 DEF Mirror!Reducible, Mirror!Size
  <2>3. Mirror!Least(q, Mirror!Reducible(Mirror!masterPos, s)) \in 0 .. MaxQty
    BY <2>1, <2>2, PolicyAssumption DEF Mirror!Least
  <2>4. x \in Mirror!Executions
    BY <2>1, <2>3 DEF Mirror!Executions
  <2>5. trades' = Append(trades, x) /\ delivered' = delivered
    BY <1>1 DEF Mirror!MasterTrade, Mirror!engine
  <2>6. masterPath' \in Seq(Int) /\ Len(masterPath') = Len(masterPath) + 1
    BY <1>1, <2>1 DEF Mirror!MasterTrade, Mirror!Moved, Delivered
  <2>. HIDE DEF x
  <2>7. trades' \in Seq(Mirror!Executions) /\ Len(trades') = Len(trades) + 1
    BY <2>4, <2>5 DEF Delivered
  <2>. QED  BY <2>5, <2>6, <2>7 DEF Delivered
<1>2. CASE PublishTrade
  <2>1. UNCHANGED <<trades, masterPath>>
    BY <1>2 DEF PublishTrade, Mirror!Deliver, Mirror!Redeliver, Mirror!master
  <2>2. delivered' \in 0 .. Len(trades)
    BY <1>2 DEF PublishTrade, Mirror!Deliver, Mirror!Redeliver, Delivered
  <2>. QED  BY <2>1, <2>2 DEF Delivered
<1>3. CASE RecordResults \/ EngineEnds \/ UNCHANGED mirror
  BY <1>3 DEF RecordResults, EngineEnds, Mirror!Finish, Mirror!Restart, Mirror!master,
              mirror, Delivered
<1>4. CASE (\E f \in Followers : TaskStep(f)) \/ Exchange
  <2>1. UNCHANGED <<trades, masterPath, delivered>>
    BY <1>4 DEF TaskStep, MirrorOnly, Mirror!TaskStep, Mirror!Start,
       Mirror!PositionCheckFails, Mirror!CheckOpen, Mirror!CheckClose,
       Mirror!SizeOrder, Mirror!SizingFails, Mirror!Send, Mirror!Timeout,
       Exchange, Mirror!Handles, Mirror!Accept, Mirror!Reject, Mirror!Busy, Mirror!Drop,
       Mirror!Fill, Mirror!master, Mirror!engine
  <2>. QED  BY <2>1 DEF Delivered
<1>. QED
  BY <1>1, <1>2, <1>3, <1>4
     DEF PipelineNext, EngineStep, ReceiveTrades, IntakeStep, HandlersReturn, IntakeOnly,
         MasterTrades, MirrorOnly

(* What the followers' tasks do for the listener is what they do in        *)
(* MirrorExecution, so that what is proved there, at most one copy of an   *)
(* execution and no close that opens, is true of the engine as a whole.    *)
THEOREM ImplementsMirror == PipelineSpec => Mirror!Spec
<1>1. PipelineInit => Mirror!Init /\ Delivered
  BY DEF PipelineInit, Mirror!Init, Delivered
<1>. QED  BY <1>1, StepsOfMirror, StepDelivered, PTL DEF PipelineSpec, Mirror!Spec

-----------------------------------------------------------------------------
(* Steps of a task and of the exchange, and what they leave alone.         *)
LEMMA TaskFrame ==
    ASSUME NEW f \in Followers, TaskStep(f)
    PROVE  UNCHANGED <<vars, cur, used, book>>
BY DEF TaskStep, MirrorOnly, Mirror!TaskStep, Mirror!Start,
       Mirror!PositionCheckFails, Mirror!CheckOpen, Mirror!CheckClose,
       Mirror!SizeOrder, Mirror!SizingFails, Mirror!Send, Mirror!Timeout,
       Mirror!engine, Mirror!exchange

LEMMA ExchangeFrame ==
    ASSUME Exchange
    PROVE  UNCHANGED <<vars, cur>>
BY DEF Exchange, MirrorOnly, Mirror!Handles, Mirror!Accept, Mirror!Reject,
       Mirror!Busy, Mirror!Drop, Mirror!Fill, Mirror!engine

(* An execution that was published stays so, and one that is being         *)
(* published is: its mark is not 0.                                        *)
LEMMA PublishedStays ==
    ASSUME TypeOK, TimesInv, [Next]_vars
    PROVE  \A e : Published(e) => Published(e)'
<1>1. CASE Publish
  <2>1. markedAt # 0
    BY <1>1 DEF Publish, TimesInv
  <2>. QED  BY <1>1, <2>1 DEF Publish, Published, TypeOK
<1>2. CASE ~ Publish
  <2>1. handledAt' = handledAt
    BY <1>2 DEF Next, vars, Startup, LoadDisabled, LoadMissing, LoadOk, LoadUnreadable,
                InitializeFollowers, InitializeFails, StartDedupe, HydrateEntry,
                HydrationDone, Receive, Handle, SuppressDuplicate, AcceptNew, Record,
                RecordFails, RecordDisabled, PublishReturns, MessageDone, FlushHealth,
                Tick, Crash, PowerLoss, ProcessEnds, history
  <2>. QED  BY <2>1 DEF Published
<1>. QED  BY <1>1, <1>2

LEMMA PublishPublishes ==
    ASSUME TypeOK, TimesInv, Publish
    PROVE  Published(Event)'
<1>1. markedAt # 0 /\ batch # << >> /\ batch' = batch
  BY DEF Publish, TimesInv, TypeOK
<1>2. Event \in Keys
  BY <1>1 DEF TypeOK, Event
<1>3. handledAt' = [handledAt EXCEPT ![Event] = markedAt]
  BY DEF Publish
<1>. QED  BY <1>1, <1>2, <1>3 DEF Published, TypeOK, Event

(* What is on the wire and at the exchange is for published executions if  *)
(* it was before, and nothing but the execution under way is added to it.  *)
OrderStep ==
    /\ cur' = cur
    /\ \A f \in Followers :
          /\ task'[f] # "idle" => cur # 0
          /\ \A e \in used'[f] : e \in used[f] \/ \E r \in wire[f] : e = r.exec
          /\ \A r \in wire'[f] \cup book'[f] :
                r \in wire[f] \cup book[f] \/ (r.exec = cur /\ cur # 0)

LEMMA TaskOrders ==
    ASSUME PerFollower, PublishedInv, NEW f \in Followers, TaskStep(f)
    PROVE  PerFollower' /\ OrderStep
<1>. USE DEF PerFollower, PublishedInv, OrderStep
<1>1. task[f] # "idle"
  BY DEF TaskStep, MirrorOnly, Mirror!TaskStep, Mirror!Start, Mirror!Checking,
         Mirror!PositionCheckFails, Mirror!CheckOpen, Mirror!CheckClose,
         Mirror!SizeOrder, Mirror!SizingFails, Mirror!Send, Mirror!Timeout
<1>2. cur # 0 /\ UNCHANGED <<cur, used, book>>
  BY <1>1, TaskFrame
<1>3. /\ DOMAIN task' = Followers
      /\ \A g \in Followers \ {f} : task'[g] = task[g]
  BY DEF TaskStep, MirrorOnly, Mirror!TaskStep, Mirror!Start,
         Mirror!PositionCheckFails, Mirror!CheckOpen, Mirror!CheckClose,
         Mirror!SizeOrder, Mirror!SizingFails, Mirror!Send, Mirror!Timeout,
         Mirror!Return, Mirror!Proceed, Mirror!Retry
<1>4. CASE Mirror!Send(f)
  <2>1. wire' = [wire EXCEPT ![f] = @ \cup {Mirror!OrderOf(f)}]
    BY <1>4 DEF Mirror!Send
  <2>2. Mirror!OrderOf(f).exec = cur
    BY DEF Mirror!OrderOf
  <2>. QED  BY <1>2, <1>3, <2>1, <2>2
<1>5. CASE UNCHANGED wire
  BY <1>2, <1>3, <1>5
<1>. QED
  BY <1>4, <1>5 DEF TaskStep, MirrorOnly, Mirror!TaskStep, Mirror!Start,
       Mirror!PositionCheckFails, Mirror!CheckOpen, Mirror!CheckClose,
       Mirror!SizeOrder, Mirror!SizingFails, Mirror!Timeout, Mirror!exchange

LEMMA ExchangeOrders ==
    ASSUME PerFollower, PublishedInv, Exchange
    PROVE  PerFollower' /\ OrderStep
<1>. USE DEF PerFollower, PublishedInv, OrderStep
<1>1. UNCHANGED cur
  BY ExchangeFrame
<1>2. ASSUME NEW f \in Followers, NEW r \in wire[f], Mirror!Handles(f, r)
      PROVE  PerFollower' /\ OrderStep
  <2>1. wire' = [wire EXCEPT ![f] = @ \ {r}]
    BY <1>2 DEF Mirror!Handles, Mirror!Accept, Mirror!Reject, Mirror!Busy, Mirror!Drop,
                Mirror!Consume
  <2>2. /\ DOMAIN task' = Followers
        /\ \A g \in Followers : task'[g] = task[g] \/ task[g] = "awaiting"
    BY <1>2 DEF Mirror!Handles, Mirror!Accept, Mirror!Reject, Mirror!Busy, Mirror!Drop,
                Mirror!Awaits, Mirror!Return, Mirror!Retry, Mirror!Refused, Mirror!tasks
  <2>3. \/ UNCHANGED <<book, used>>
        \/ /\ book' = [book EXCEPT ![f] = @ \cup {r}]
           /\ used' = [used EXCEPT ![f] = @ \cup {r.exec}]
    BY <1>2 DEF Mirror!Handles, Mirror!Accept, Mirror!Reject, Mirror!Busy, Mirror!Drop,
                Mirror!LinkId
  <2>. QED  BY <1>1, <2>1, <2>2, <2>3
<1>3. ASSUME NEW f \in Followers, NEW r \in book[f], Mirror!Fill(f, r)
      PROVE  PerFollower' /\ OrderStep
  BY <1>1, <1>3 DEF Mirror!Fill, Mirror!tasks
<1>. QED  BY <1>2, <1>3 DEF Exchange, MirrorOnly

(* A step of orders keeps the invariant.                                   *)
LEMMA OrderSteps ==
    ASSUME TypeOK, TimesInv, [Next]_vars, PublishedInv, OrderStep
    PROVE  PublishedInv'
BY PublishedStays DEF PublishedInv, OrderStep

(* Every step keeps it.                                                    *)
LEMMA StepPublished ==
    TypeOK /\ TimesInv /\ PerFollower /\ PublishedInv /\ [PipelineNext]_<<vars, mirror>>
        => PerFollower' /\ PublishedInv'
<1>. SUFFICES ASSUME TypeOK, TimesInv, PerFollower, PublishedInv,
                     [PipelineNext]_<<vars, mirror>>
              PROVE  PerFollower' /\ PublishedInv'
  OBVIOUS
<1>1. [Next]_vars
  BY StepsOfIntake
<1>2. CASE MasterTrades \/ UNCHANGED mirror
  <2>1. UNCHANGED <<cur, task, wire, book, used>>
    BY <1>2 DEF MasterTrades, MirrorOnly, Mirror!MasterTrade, Mirror!engine,
                Mirror!tasks, Mirror!exchange, mirror
  <2>2. PerFollower' /\ OrderStep
    BY <2>1 DEF PerFollower, PublishedInv, OrderStep
  <2>. QED  BY <1>1, <2>2, OrderSteps
<1>3. CASE PublishTrade
  <2>1. UNCHANGED <<batch, wire, book, used>>
    BY <1>3 DEF PublishTrade, Publish, Mirror!Deliver, Mirror!Redeliver, Mirror!exchange
  <2>2. Event' = Event
    BY <2>1 DEF Event
  <2>3. \/ cur' = cur /\ task' = task
        \/ cur' = Event /\ Event # 0 /\ DOMAIN task' = Followers
    <3>1. Event \in Keys
      BY <1>3 DEF PublishTrade, Publish, TypeOK, Event
    <3>2. Event # 0
      BY <3>1, PipelineAssumption
    <3>. QED  BY <1>3, <3>2 DEF PublishTrade, Mirror!Deliver, Mirror!Redeliver, Mirror!Dispatch
  <2>4. Published(Event)'
    BY <1>3, PublishPublishes DEF PublishTrade
  <2>. QED  BY <1>1, <2>1, <2>2, <2>3, <2>4, PublishedStays DEF PerFollower, PublishedInv, Published
<1>4. CASE RecordResults \/ EngineEnds
  <2>1. /\ UNCHANGED <<wire, book, used>> /\ cur' = 0
        /\ task' = [f \in Followers |-> "idle"]
    BY <1>4 DEF RecordResults, EngineEnds, Mirror!Finish, Mirror!Restart, Mirror!exchange
  <2>. QED  BY <1>1, <2>1, PublishedStays DEF PerFollower, PublishedInv
<1>5. CASE \E f \in Followers : TaskStep(f)
  BY <1>1, <1>5, TaskOrders, OrderSteps
<1>6. CASE Exchange
  BY <1>1, <1>6, ExchangeOrders, OrderSteps
<1>. QED
  BY <1>2, <1>3, <1>4, <1>5, <1>6
     DEF PipelineNext, EngineStep, ReceiveTrades, IntakeStep, HandlersReturn, IntakeOnly

(* An execution a follower has an order for is in the state file, so that  *)
(* a restart does not mirror it again within the TTL: execution_           *)
(* listener.py writes the key before the bus hands the event on.           *)
THEOREM CopiesAreRemembered == PipelineSpec => []CopyIsRemembered
<1>1. PipelineInit => PerFollower /\ PublishedInv
  BY DEF PipelineInit, Mirror!Init, PerFollower, PublishedInv
<1>2. TypeOK /\ IntakeInv /\ PerFollower /\ PublishedInv /\ [PipelineNext]_<<vars, mirror>>
        => (PerFollower /\ PublishedInv)'
  BY StepPublished DEF IntakeInv
<1>3. IntakeInv /\ PublishedInv => CopyIsRemembered
  BY DEF IntakeInv, CoverInv, DispatchIsDurable, PublishedInv, Published, Ordered,
         CopyIsRemembered
<1>. QED  BY <1>1, <1>2, <1>3, PipelineIntakeInv, PTL DEF PipelineSpec
=============================================================================
