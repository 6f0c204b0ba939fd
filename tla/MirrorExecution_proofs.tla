------------------------ MODULE MirrorExecution_proofs ------------------------
(* Whatever the number of followers, executions, attempts and mishaps: the *)
(* mirroring implements ExecutionCopies, a close never opens a position,   *)
(* and a result reported as submitted belongs to an accepted order.        *)
EXTENDS MirrorExecution, OrderQuantity_proofs

(* What an execution asks for is a quantity.                               *)
LEMMA WantedType ==
    ASSUME NEW x \in Executions
    PROVE  Wanted(x) \in Nat /\ IsClose(x) \in BOOLEAN
<1>1. x.closed \in Nat /\ x.qty \in Nat
  BY PolicyAssumption DEF Executions
<1>. QED  BY <1>1 DEF Wanted, IsClose

(* What there is to reduce is a quantity.                                  *)
LEMMA ReducibleType ==
    ASSUME NEW p \in Int, NEW s
    PROVE  Reducible(p, s) \in Nat
BY DEF Reducible, Size

(* A position moves to a position.                                         *)
LEMMA MovedType ==
    ASSUME NEW p \in Int, NEW s, NEW q \in Nat
    PROVE  Moved(p, s, q) \in Int
BY DEF Moved

(* Reducing by no more than there is to reduce leads towards zero.         *)
LEMMA ReducingIsTowardsZero ==
    ASSUME NEW p \in Int, NEW s, NEW q \in Nat, q <= Reducible(p, s), s \in Sides
    PROVE  TowardsZero(p, Moved(p, s, q))
BY DEF TowardsZero, Moved, Reducible, Size, Sides

(* Normalization never asks for more.                                      *)
LEMMA SizedType ==
    ASSUME NEW q \in Nat
    PROVE  /\ NormalizeOrderQuantity(q, Lot).qty \in Nat
           /\ NormalizeOrderQuantity(q, Lot).qty <= q
BY MirrorAssumption, NormalizedIsLargest

(* The execution being mirrored is one of the master's.                    *)
LEMMA CurrentType ==
    ASSUME TypeOK, cur # 0
    PROVE  /\ cur \in DOMAIN trades /\ cur \in Execs
           /\ Current \in Executions
           /\ Wanted(Current) \in Nat
<1>1. cur \in 1 .. Len(trades) /\ trades \in Seq(Executions) /\ Len(trades) <= MaxTrades
  BY DEF TypeOK
<1>2. cur \in DOMAIN trades /\ cur \in Execs
  BY <1>1, MirrorAssumption DEF Execs
<1>3. Current \in Executions
  BY <1>1, <1>2 DEF Current
<1>. QED  BY <1>2, <1>3, WantedType

-----------------------------------------------------------------------------
(* The master's position is a number.                                      *)
LEMMA MasterPosType == TypeOK => masterPos \in Int
BY DEF TypeOK, masterPos

(* The executions the master appends are executions.                       *)
LEMMA ExecutionType ==
    ASSUME TypeOK, NEW type \in ExecTypes, NEW s \in Sides, NEW q \in 1 .. MaxQty
    PROVE  [type |-> type, side |-> s, qty |-> q,
            closed |-> Least(q, Reducible(masterPos, s))] \in Executions
<1>1. Reducible(masterPos, s) \in Nat
  BY ReducibleType, MasterPosType
<1>2. Least(q, Reducible(masterPos, s)) \in 0 .. MaxQty
  BY <1>1, PolicyAssumption DEF Least
<1>. QED  BY <1>2 DEF Executions

(* What a task sends is a request.                                         *)
LEMMA OrderType ==
    ASSUME TypeOK, cur # 0, NEW f \in Followers
    PROVE  OrderOf(f) \in Requests
<1>1. cur \in Execs /\ Current \in Executions
  BY CurrentType
<1>2. Current.side \in Sides /\ IsClose(Current) \in BOOLEAN
  BY <1>1, WantedType DEF Executions
<1>3. round \in Nat /\ attempt[f] \in Nat /\ plan[f] \in Nat
  BY MirrorAssumption DEF TypeOK
<1>. QED  BY <1>1, <1>2, <1>3 DEF OrderOf, Requests

-----------------------------------------------------------------------------
(* A task ends, or tries once more.                                        *)
LEMMA ReturnType ==
    ASSUME TypeOK, NEW f \in Followers, NEW r \in Results, Return(f, r)
    PROVE  task' \in [Followers -> Phases] /\ result' \in [Followers -> Results]
BY DEF TypeOK, Return, Phases

(* A task goes on with a quantity.                                         *)
LEMMA ProceedType ==
    ASSUME TypeOK, NEW f \in Followers, NEW q \in Nat, Proceed(f, q)
    PROVE  task' \in [Followers -> Phases] /\ plan' \in [Followers -> Nat]
BY DEF TypeOK, Proceed, Phases

(* A task tries again or ends with an error.                               *)
LEMMA RetryType ==
    ASSUME TypeOK, NEW f \in Followers, Retry(f)
    PROVE  /\ task' \in [Followers -> Phases]
           /\ attempt' \in [Followers -> 1 .. Attempts]
           /\ result' \in [Followers -> Results]
<1>1. CASE attempt[f] < Attempts /\ attempt' = [attempt EXCEPT ![f] = @ + 1]
           /\ task' = [task EXCEPT ![f] = "sending"] /\ UNCHANGED result
  <2>1. attempt[f] + 1 \in 1 .. Attempts
    BY <1>1, MirrorAssumption DEF TypeOK
  <2>. QED  BY <1>1, <2>1 DEF TypeOK, Phases
<1>2. CASE Return(f, "error") /\ UNCHANGED attempt
  BY <1>2, ReturnType DEF TypeOK, Results
<1>. QED  BY <1>1, <1>2 DEF Retry

(* The check of an open skips it or goes on.                               *)
LEMMA CheckOpenType ==
    ASSUME TypeOK, TasksInv, NEW f \in Followers, CheckOpen(f)
    PROVE  /\ task' \in [Followers -> Phases]
           /\ plan' \in [Followers -> Nat]
           /\ result' \in [Followers -> Results]
<1>1. Wanted(Current) \in Nat
  BY CurrentType DEF TasksInv, TaskInv, CheckOpen, Checking
<1>2. CASE Return(f, "skipped") /\ UNCHANGED plan
  BY <1>2, ReturnType DEF TypeOK, Results
<1>3. CASE Proceed(f, Wanted(Current)) /\ UNCHANGED result
  BY <1>1, <1>3, ProceedType DEF TypeOK
<1>. QED  BY <1>2, <1>3 DEF CheckOpen

(* The check of a close skips it or goes on.                               *)
LEMMA CheckCloseType ==
    ASSUME TypeOK, TasksInv, NEW f \in Followers, CheckClose(f)
    PROVE  /\ task' \in [Followers -> Phases]
           /\ plan' \in [Followers -> Nat]
           /\ result' \in [Followers -> Results]
<1>. DEFINE q == CloseQty(Reducible(pos[f], Current.side), Wanted(Current))
<1>1. Wanted(Current) \in Nat
  BY CurrentType DEF TasksInv, TaskInv, CheckClose, Checking
<1>2. Reducible(pos[f], Current.side) \in Nat
  BY ReducibleType DEF TypeOK
<1>3. q \in Nat
  BY <1>1, <1>2 DEF CloseQty, Least
<1>4. CASE Return(f, "skipped") /\ UNCHANGED plan
  BY <1>4, ReturnType DEF TypeOK, Results
<1>5. CASE Proceed(f, q) /\ UNCHANGED result
  BY <1>3, <1>5, ProceedType DEF TypeOK
<1>. QED  BY <1>4, <1>5 DEF CheckClose

(* Sizing skips the order or gives its quantity.                           *)
LEMMA SizeOrderType ==
    ASSUME TypeOK, NEW f \in Followers, SizeOrder(f)
    PROVE  /\ task' \in [Followers -> Phases]
           /\ attempt' \in [Followers -> 1 .. Attempts]
           /\ plan' \in [Followers -> Nat]
           /\ result' \in [Followers -> Results]
<1>1. NormalizeOrderQuantity(plan[f], Lot).qty \in Nat
  BY SizedType DEF TypeOK
<1>2. CASE Return(f, "skipped") /\ UNCHANGED <<plan, attempt>>
  BY <1>2, ReturnType DEF TypeOK, Results
<1>3. CASE /\ task' = [task EXCEPT ![f] = "sending"]
           /\ plan' = [plan EXCEPT ![f] = NormalizeOrderQuantity(plan[f], Lot).qty]
           /\ attempt' = [attempt EXCEPT ![f] = 1]
           /\ UNCHANGED result
  BY <1>1, <1>3, MirrorAssumption DEF TypeOK, Phases
<1>. QED  BY <1>2, <1>3 DEF SizeOrder

(* A dispatch is of an execution that exists.                              *)
LEMMA DispatchType ==
    ASSUME TypeOK, NEW e \in 1 .. Len(trades), Dispatch(e)
    PROVE  cur' \in 0 .. Len(trades) /\ round' \in Nat /\ task' \in [Followers -> Phases]
<1>1. cur \in 0 .. Len(trades) /\ round \in Nat /\ task \in [Followers -> Phases]
  BY DEF TypeOK
<1>2. e \in 0 .. Len(trades)
  BY DEF TypeOK
<1>3. CASE IsMirrored(trades[e])
  BY <1>1, <1>2, <1>3 DEF Dispatch, Phases
<1>4. CASE ~ IsMirrored(trades[e])
  BY <1>1, <1>4 DEF Dispatch
<1>. QED  BY <1>3, <1>4

(* An accepted order executes no more than it asks for.                    *)
LEMMA FillQtyType ==
    ASSUME TypeOK, NEW f \in Followers, NEW r \in book[f]
    PROVE  /\ r \in Requests
           /\ FillQty(f, r) \in Nat /\ FillQty(f, r) <= r.qty
           /\ r.reduceOnly => FillQty(f, r) <= Reducible(pos[f], r.side)
<1>1. r \in Requests
  BY DEF TypeOK
<1>2. r.qty \in Nat /\ r.reduceOnly \in BOOLEAN
  BY <1>1 DEF Requests
<1>3. Reducible(pos[f], r.side) \in Nat
  BY ReducibleType DEF TypeOK
<1>. QED  BY <1>1, <1>2, <1>3 DEF FillQty, Least

-----------------------------------------------------------------------------
(* Startup accepts followers.                                              *)
LEMMA ValidationType ==
    ASSUME NEW valid \in Validations
    PROVE  /\ valid \subseteq Followers
           /\ StartupHealth(valid) \in [Followers -> {"healthy", "degraded", "unavailable"}]
BY DEF Validations, StartupHealth

(* Type correctness: one step per action.                                  *)
LEMMA InitType == Init => TypeOK
<1>. SUFFICES ASSUME Init PROVE TypeOK
  OBVIOUS
<1>1. trades \in Seq(Executions) /\ Len(trades) = 0 /\ Len(trades) <= MaxTrades
  BY MirrorAssumption DEF Init
<1>2. 1 \in 1 .. Attempts
  BY MirrorAssumption
<1>3. /\ active \subseteq Followers
      /\ health \in [Followers -> {"healthy", "degraded", "unavailable"}]
  BY ValidationType DEF Init
<1>. QED  BY <1>1, <1>2, <1>3 DEF Init, TypeOK, Phases, Results

(* Every step keeps the types, one case per action.                        *)
LEMMA StepType == TypeOK /\ TasksInv /\ [Next]_vars => TypeOK'
<1>. SUFFICES ASSUME TypeOK, TasksInv, [Next]_vars
              PROVE  TypeOK'
  OBVIOUS
<1>1. ASSUME NEW type \in ExecTypes, NEW s \in Sides, NEW q \in 1 .. MaxQty,
             MasterTrade(type, s, q)
      PROVE  TypeOK'
  <2>. DEFINE x == [type |-> type, side |-> s, qty |-> q,
                    closed |-> Least(q, Reducible(masterPos, s))]
  <2>1. x \in Executions
    BY ExecutionType
  <2>2. trades' = Append(trades, x) /\ Len(trades) < MaxTrades
    BY <1>1 DEF MasterTrade
  <2>. HIDE DEF x
  <2>3. trades' \in Seq(Executions) /\ Len(trades') = Len(trades) + 1 /\ Len(trades) \in Nat
    BY <2>1, <2>2 DEF TypeOK
  <2>4. Len(trades') <= MaxTrades /\ delivered \in 0 .. Len(trades') /\ cur \in 0 .. Len(trades')
    BY <2>2, <2>3, MirrorAssumption DEF TypeOK
  <2>5. masterPath' \in Seq(Int) /\ Len(masterPath') = Len(trades') + 1
    <3>1. Moved(masterPos, s, q) \in Int
      BY MasterPosType, MovedType, PolicyAssumption
    <3>. QED  BY <1>1, <2>3, <3>1 DEF TypeOK, MasterTrade
  <2>. QED  BY <1>1, <2>3, <2>4, <2>5 DEF TypeOK, MasterTrade, engine, tasks, exchange
<1>2. ASSUME NEW e \in DOMAIN trades, Deliver(e)
      PROVE  TypeOK'
  <2>1. e \in 1 .. Len(trades)
    BY DEF TypeOK
  <2>2. cur' \in 0 .. Len(trades) /\ round' \in Nat /\ task' \in [Followers -> Phases]
    BY <1>2, <2>1, DispatchType DEF Deliver
  <2>. QED  BY <1>2, <2>1, <2>2 DEF TypeOK, Deliver, master, exchange
<1>3. ASSUME NEW e \in DOMAIN trades, Redeliver(e)
      PROVE  TypeOK'
  <2>1. e \in 1 .. Len(trades)
    BY DEF TypeOK
  <2>2. cur' \in 0 .. Len(trades) /\ round' \in Nat /\ task' \in [Followers -> Phases]
    BY <1>3, <2>1, DispatchType DEF Redeliver
  <2>. QED  BY <1>3, <2>2 DEF TypeOK, Redeliver, Mishap, master, exchange
<1>4. ASSUME NEW f \in Followers, Start(f)
      PROVE  TypeOK'
  BY <1>4 DEF TypeOK, Start, Phases, master, engine, exchange
<1>5. ASSUME NEW f \in Followers, PositionCheckFails(f)
      PROVE  TypeOK'
  BY <1>5, ReturnType DEF TypeOK, PositionCheckFails, Results, master, engine, exchange
<1>6. ASSUME NEW f \in Followers, CheckOpen(f)
      PROVE  TypeOK'
  BY <1>6, CheckOpenType DEF TypeOK, CheckOpen, master, engine, exchange
<1>7. ASSUME NEW f \in Followers, CheckClose(f)
      PROVE  TypeOK'
  BY <1>7, CheckCloseType DEF TypeOK, CheckClose, master, engine, exchange
<1>8. ASSUME NEW f \in Followers, SizeOrder(f)
      PROVE  TypeOK'
  BY <1>8, SizeOrderType DEF TypeOK, SizeOrder, master, engine, exchange
<1>9. ASSUME NEW f \in Followers, SizingFails(f)
      PROVE  TypeOK'
  BY <1>9, ReturnType DEF TypeOK, SizingFails, Results, master, engine, exchange
<1>10. ASSUME NEW f \in Followers, Send(f)
       PROVE  TypeOK'
  <2>1. OrderOf(f) \in Requests
    BY <1>10, OrderType DEF Send, TasksInv, TaskInv
  <2>2. wire' \in [Followers -> SUBSET Requests]
    BY <1>10, <2>1 DEF Send, TypeOK
  <2>. QED  BY <1>10, <2>2 DEF TypeOK, Send, Phases, master, engine
<1>11. ASSUME NEW f \in Followers, Timeout(f)
       PROVE  TypeOK'
  BY <1>11, RetryType DEF TypeOK, Timeout, master, engine, exchange
<1>12. ASSUME NEW f \in Followers, NEW r \in wire[f], Accept(f, r)
       PROVE  TypeOK'
  <2>1. r \in Requests /\ LinkId(r) \in Nat
    BY DEF TypeOK, LinkId, Requests, Execs
  <2>2. /\ wire' \in [Followers -> SUBSET Requests]
        /\ book' \in [Followers -> SUBSET Requests]
        /\ used' \in [Followers -> SUBSET Nat]
    BY <1>12, <2>1 DEF TypeOK, Accept, Consume
  <2>3. task' \in [Followers -> Phases] /\ result' \in [Followers -> Results]
    <3>1. "submitted" \in Results
      BY DEF Results
    <3>. QED  BY <1>12, <3>1, ReturnType DEF Accept, TypeOK
  <2>. QED  BY <1>12, <2>2, <2>3 DEF TypeOK, Accept, master, engine
<1>13. ASSUME NEW f \in Followers, NEW r \in wire[f], Reject(f, r)
       PROVE  TypeOK'
  <2>1. wire' \in [Followers -> SUBSET Requests]
    BY <1>13 DEF TypeOK, Reject, Consume
  <2>2. task' \in [Followers -> Phases] /\ result' \in [Followers -> Results]
    <3>1. "error" \in Results
      BY DEF Results
    <3>. QED  BY <1>13, <3>1, ReturnType DEF Reject, Refused, TypeOK
  <2>. QED  BY <1>13, <2>1, <2>2 DEF TypeOK, Reject, master, engine
<1>14. ASSUME NEW f \in Followers, NEW r \in wire[f], Busy(f, r)
       PROVE  TypeOK'
  <2>1. wire' \in [Followers -> SUBSET Requests]
    BY <1>14 DEF TypeOK, Busy, Consume
  <2>2. /\ task' \in [Followers -> Phases]
        /\ attempt' \in [Followers -> 1 .. Attempts]
        /\ result' \in [Followers -> Results]
    BY <1>14, RetryType DEF Busy, TypeOK
  <2>. QED  BY <1>14, <2>1, <2>2 DEF TypeOK, Busy, master, engine
<1>15. ASSUME NEW f \in Followers, NEW r \in wire[f], Drop(f, r)
       PROVE  TypeOK'
  BY <1>15 DEF TypeOK, Drop, Consume, master, engine, tasks
<1>16. ASSUME NEW f \in Followers, NEW r \in book[f], Fill(f, r)
       PROVE  TypeOK'
  <2>1. r \in Requests /\ FillQty(f, r) \in Nat
    BY FillQtyType
  <2>2. r.exec \in Execs
    BY <2>1 DEF Requests
  <2>3. pos' \in [Followers -> Int]
    BY <1>16, <2>1, MovedType DEF TypeOK, Fill
  <2>4. copied[f][r.exec] + FillQty(f, r) \in Nat
    BY <2>1, <2>2 DEF TypeOK
  <2>5. copied' \in [Followers -> [Execs -> Nat]]
    BY <1>16, <2>2, <2>4 DEF TypeOK, Fill
  <2>6. book' \in [Followers -> SUBSET Requests]
    BY <1>16 DEF TypeOK, Fill
  <2>. QED  BY <1>16, <2>3, <2>5, <2>6 DEF TypeOK, Fill, master, engine, tasks
<1>17. ASSUME NEW f \in Followers, NEW s \in Sides, NEW q \in 1 .. MaxQty,
              ManualTrade(f, s, q)
       PROVE  TypeOK'
  <2>1. pos' \in [Followers -> Int]
    BY <1>17, MovedType, PolicyAssumption DEF TypeOK, ManualTrade
  <2>. QED  BY <1>17, <2>1 DEF TypeOK, ManualTrade, Mishap, master, engine, tasks
<1>18. CASE Finish
  <2>1. PICK recorded \in SUBSET active :
           health' = [f \in Followers |->
                        IF f \notin recorded THEN health[f]
                        ELSE IF result[f] = "error" THEN "degraded" ELSE "healthy"]
    BY <1>18 DEF Finish
  <2>2. health' \in [Followers -> {"healthy", "degraded", "unavailable"}]
    BY <2>1 DEF TypeOK
  <2>. QED  BY <1>18, <2>2, MirrorAssumption DEF TypeOK, Finish, Phases, Results, master, exchange
<1>19. CASE Restart
  <2>1. /\ active' \subseteq Followers
        /\ health' \in [Followers -> {"healthy", "degraded", "unavailable"}]
    BY <1>19, ValidationType DEF Restart
  <2>. QED  BY <1>19, <2>1, MirrorAssumption DEF TypeOK, Restart, Mishap, Phases, Results, master, exchange
<1>20. CASE UNCHANGED vars
  BY <1>20 DEF TypeOK, vars, master, engine, tasks, exchange
<1>. QED
  BY <1>1, <1>2, <1>3, <1>4, <1>5, <1>6, <1>7, <1>8, <1>9, <1>10, <1>11, <1>12,
     <1>13, <1>14, <1>15, <1>16, <1>17, <1>18, <1>19, <1>20
     DEF Next, TaskStep, Handles

-----------------------------------------------------------------------------
(* The master's executions are only ever appended to.                      *)
LEMMA AppendKeeps ==
    ASSUME TypeOK, NEW type \in ExecTypes, NEW s \in Sides, NEW q \in 1 .. MaxQty,
           MasterTrade(type, s, q)
    PROVE  \A e \in DOMAIN trades : e \in DOMAIN trades' /\ trades'[e] = trades[e]
<1>. DEFINE x == [type |-> type, side |-> s, qty |-> q,
                  closed |-> Least(q, Reducible(masterPos, s))]
<1>1. x \in Executions
  BY ExecutionType
<1>2. trades' = Append(trades, x)
  BY DEF MasterTrade
<1>. HIDE DEF x
<1>. QED  BY <1>1, <1>2 DEF TypeOK

(* Elsewhere they do not change, and neither does what is derived of them. *)
LEMMA MasterFrame ==
    ASSUME UNCHANGED master
    PROVE  trades' = trades
BY DEF master

-----------------------------------------------------------------------------
(* A step of the task of f, or of the exchange towards f, disturbs only f. *)
LEMMA TaskStepTasks ==
    ASSUME TypeOK, TasksInv, NEW f \in Followers,
           UNCHANGED <<master, engine>>,
           \A g \in Followers \ {f} :
              task'[g] = task[g] /\ plan'[g] = plan[g] /\ result'[g] = result[g],
           TaskInv(f)'
    PROVE  TasksInv'
<1>1. cur' = cur /\ trades' = trades
  BY DEF master, engine
<1>2. Current' = Current
  BY <1>1 DEF Current
<1>3. \A g \in Followers \ {f} : TaskInv(g)'
  BY <1>1, <1>2 DEF TasksInv, TaskInv
<1>4. cur' # 0 => IsMirrored(Current')
  BY <1>1, <1>2 DEF TasksInv, TaskInv
<1>. QED  BY <1>3, <1>4 DEF TasksInv, TaskInv

(* f returns its result.                                                   *)
LEMMA ReturnTasks ==
    ASSUME TypeOK, TasksInv, NEW f \in Followers, NEW r,
           UNCHANGED <<master, engine, plan>>, task[f] # "idle", Return(f, r)
    PROVE  TasksInv'
<1>1. cur' = cur /\ cur # 0
  BY DEF engine, TasksInv, TaskInv
<1>2. \A g \in Followers \ {f} :
         task'[g] = task[g] /\ plan'[g] = plan[g] /\ result'[g] = result[g]
  BY DEF Return, TypeOK
<1>3. task'[f] = "done"
  BY DEF Return, TypeOK
<1>4. TaskInv(f)'
  BY <1>1, <1>3 DEF TaskInv
<1>. QED  BY <1>2, <1>4, TaskStepTasks

(* f goes on, with a quantity that is no larger than it may be.            *)
LEMMA ContinueTasks ==
    ASSUME TypeOK, TasksInv, NEW f \in Followers, NEW p, NEW q \in Nat,
           UNCHANGED <<master, engine, result>>, task[f] \notin {"idle", "done"},
           task' = [task EXCEPT ![f] = p],
           plan' = [plan EXCEPT ![f] = q] \/ (UNCHANGED plan /\ plan[f] = q),
           p \in {"sizing", "sending", "awaiting"} => q <= Wanted(Current)
    PROVE  TasksInv'
<1>1. cur' = cur /\ cur # 0 /\ trades' = trades /\ result' = result
  BY DEF engine, master, TasksInv, TaskInv
<1>2. \A g \in Followers \ {f} :
         task'[g] = task[g] /\ plan'[g] = plan[g] /\ result'[g] = result[g]
  BY DEF TypeOK
<1>3. task'[f] = p /\ plan'[f] = q
  BY DEF TypeOK
<1>4. result'[f] = "none"
  BY <1>1 DEF TasksInv, TaskInv
<1>5. Wanted(Current)' = Wanted(Current)
  BY <1>1 DEF Current
<1>6. TaskInv(f)'
  BY <1>1, <1>3, <1>4, <1>5 DEF TaskInv
<1>. QED  BY <1>2, <1>6, TaskStepTasks

(* f tries again, or gives up.                                             *)
LEMMA RetryTasks ==
    ASSUME TypeOK, TasksInv, NEW f \in Followers, task[f] = "awaiting",
           UNCHANGED <<master, engine, plan>>, Retry(f)
    PROVE  TasksInv'
<1>1. CASE Return(f, "error")
  BY <1>1, ReturnTasks
<1>2. CASE task' = [task EXCEPT ![f] = "sending"] /\ UNCHANGED result
  <2>1. plan[f] \in Nat /\ plan[f] <= Wanted(Current)
    BY DEF TypeOK, TasksInv, TaskInv
  <2>. QED  BY <1>2, <2>1, ContinueTasks
<1>. QED  BY <1>1, <1>2 DEF Retry

(* All followers start on an execution that is mirrored.                   *)
LEMMA DispatchTasks ==
    ASSUME TypeOK, TasksInv, NEW e \in DOMAIN trades, cur = 0, Dispatch(e),
           UNCHANGED <<master, plan, result>>
    PROVE  TasksInv'
<1>1. \A f \in Followers : task[f] = "idle" /\ result[f] = "none"
  BY DEF TasksInv, TaskInv
<1>2. trades' = trades /\ result' = result
  BY DEF master
<1>3. CASE IsMirrored(trades[e])
  <2>1. cur' = e /\ e # 0 /\ \A f \in Followers : task'[f] \in {"waiting", "idle"}
    BY <1>3 DEF Dispatch, TypeOK
  <2>2. IsMirrored(Current')
    BY <1>2, <1>3, <2>1 DEF Current
  <2>. QED  BY <1>1, <1>2, <2>1, <2>2 DEF TasksInv, TaskInv
<1>4. CASE ~ IsMirrored(trades[e])
  BY <1>1, <1>2, <1>4 DEF Dispatch, TasksInv, TaskInv
<1>. QED  BY <1>3, <1>4

(* Every step keeps the invariant of the tasks.                            *)
LEMMA StepTasks == TypeOK /\ TasksInv /\ [Next]_vars => TasksInv'
<1>. SUFFICES ASSUME TypeOK, TasksInv, [Next]_vars
              PROVE  TasksInv'
  OBVIOUS
<1>1. ASSUME NEW type \in ExecTypes, NEW s \in Sides, NEW q \in 1 .. MaxQty,
             MasterTrade(type, s, q)
      PROVE  TasksInv'
  <2>1. cur' = cur /\ task' = task /\ plan' = plan /\ result' = result
    BY <1>1 DEF MasterTrade, engine, tasks
  <2>2. cur # 0 => Current' = Current
    BY <1>1, <2>1, AppendKeeps, CurrentType DEF Current
  <2>. QED  BY <2>1, <2>2 DEF TasksInv, TaskInv
<1>2. ASSUME NEW e \in DOMAIN trades, Deliver(e)
      PROVE  TasksInv'
  BY <1>2, DispatchTasks DEF Deliver
<1>3. ASSUME NEW e \in DOMAIN trades, Redeliver(e)
      PROVE  TasksInv'
  BY <1>3, DispatchTasks DEF Redeliver
<1>4. ASSUME NEW f \in Followers, Start(f)
      PROVE  TasksInv'
  <2>1. plan[f] \in Nat
    BY DEF TypeOK
  <2>. QED  BY <1>4, <2>1, ContinueTasks DEF Start
<1>5. ASSUME NEW f \in Followers, PositionCheckFails(f)
      PROVE  TasksInv'
  BY <1>5, ReturnTasks DEF PositionCheckFails, Checking
<1>6. ASSUME NEW f \in Followers, CheckOpen(f)
      PROVE  TasksInv'
  <2>. DEFINE q == Wanted(Current)
  <2>1. task[f] = "checking" /\ UNCHANGED <<master, engine>>
    BY <1>6 DEF CheckOpen, Checking
  <2>2. q \in Nat /\ q <= Wanted(Current)
    BY <2>1, CurrentType DEF TasksInv, TaskInv
  <2>. HIDE DEF q
  <2>3. CASE Return(f, "skipped") /\ UNCHANGED plan
    BY <2>1, <2>3, ReturnTasks
  <2>4. CASE Proceed(f, q) /\ UNCHANGED result
    BY <2>1, <2>2, <2>4, ContinueTasks DEF Proceed
  <2>. QED  BY <1>6, <2>3, <2>4 DEF CheckOpen, q
<1>7. ASSUME NEW f \in Followers, CheckClose(f)
      PROVE  TasksInv'
  <2>. DEFINE q == CloseQty(Reducible(pos[f], Current.side), Wanted(Current))
  <2>1. task[f] = "checking" /\ UNCHANGED <<master, engine>>
    BY <1>7 DEF CheckClose, Checking
  <2>2. Wanted(Current) \in Nat /\ Reducible(pos[f], Current.side) \in Nat
    BY <2>1, CurrentType, ReducibleType DEF TasksInv, TaskInv, TypeOK
  <2>3. q \in Nat /\ q <= Wanted(Current)
    BY <2>2 DEF CloseQty, Least
  <2>4. CASE Return(f, "skipped") /\ UNCHANGED plan
    BY <2>1, <2>4, ReturnTasks
  <2>5. CASE Proceed(f, q) /\ UNCHANGED result
    BY <2>1, <2>3, <2>5, ContinueTasks DEF Proceed
  <2>. QED  BY <1>7, <2>4, <2>5 DEF CheckClose
<1>8. ASSUME NEW f \in Followers, SizeOrder(f)
      PROVE  TasksInv'
  <2>. DEFINE q == NormalizeOrderQuantity(plan[f], Lot).qty
  <2>1. task[f] = "sizing" /\ UNCHANGED <<master, engine>>
    BY <1>8 DEF SizeOrder
  <2>2. plan[f] \in Nat /\ plan[f] <= Wanted(Current) /\ Wanted(Current) \in Nat
    BY <2>1, CurrentType DEF TypeOK, TasksInv, TaskInv
  <2>3. q \in Nat /\ q <= Wanted(Current)
    BY <2>2, SizedType
  <2>. HIDE DEF q
  <2>4. CASE Return(f, "skipped") /\ UNCHANGED plan
    BY <2>1, <2>4, ReturnTasks
  <2>5. CASE /\ task' = [task EXCEPT ![f] = "sending"]
             /\ plan' = [plan EXCEPT ![f] = q]
             /\ UNCHANGED result
    BY <2>1, <2>3, <2>5, ContinueTasks
  <2>. QED  BY <1>8, <2>4, <2>5 DEF SizeOrder, q
<1>9. ASSUME NEW f \in Followers, SizingFails(f)
      PROVE  TasksInv'
  BY <1>9, ReturnTasks DEF SizingFails
<1>10. ASSUME NEW f \in Followers, Send(f)
       PROVE  TasksInv'
  <2>1. plan[f] \in Nat /\ plan[f] <= Wanted(Current)
    BY <1>10 DEF TypeOK, TasksInv, TaskInv, Send
  <2>. QED  BY <1>10, <2>1, ContinueTasks DEF Send
<1>11. ASSUME NEW f \in Followers, Timeout(f)
       PROVE  TasksInv'
  BY <1>11, RetryTasks DEF Timeout
<1>12. ASSUME NEW f \in Followers, NEW r \in wire[f], Accept(f, r)
       PROVE  TasksInv'
  <2>1. CASE Awaits(f, r) /\ Return(f, "submitted")
    BY <1>12, <2>1, ReturnTasks DEF Accept, Awaits
  <2>2. CASE UNCHANGED <<task, result>>
    BY <1>12, <2>2 DEF Accept, TasksInv, TaskInv, Current, master, engine
  <2>. QED  BY <1>12, <2>1, <2>2 DEF Accept
<1>13. ASSUME NEW f \in Followers, NEW r \in wire[f], Reject(f, r)
       PROVE  TasksInv'
  <2>1. CASE Awaits(f, r) /\ Return(f, "error")
    BY <1>13, <2>1, ReturnTasks DEF Reject, Awaits
  <2>2. CASE UNCHANGED <<task, result>>
    BY <1>13, <2>2 DEF Reject, TasksInv, TaskInv, Current, master, engine
  <2>. QED  BY <1>13, <2>1, <2>2 DEF Reject, Refused
<1>14. ASSUME NEW f \in Followers, NEW r \in wire[f], Busy(f, r)
       PROVE  TasksInv'
  <2>1. CASE Awaits(f, r) /\ Retry(f)
    BY <1>14, <2>1, RetryTasks DEF Busy, Awaits
  <2>2. CASE UNCHANGED <<task, attempt, result>>
    BY <1>14, <2>2 DEF Busy, TasksInv, TaskInv, Current, master, engine
  <2>. QED  BY <1>14, <2>1, <2>2 DEF Busy
<1>15. ASSUME NEW f \in Followers, NEW r \in wire[f], Drop(f, r)
       PROVE  TasksInv'
  BY <1>15 DEF Drop, TasksInv, TaskInv, Current, master, engine, tasks
<1>16. ASSUME NEW f \in Followers, NEW r \in book[f], Fill(f, r)
       PROVE  TasksInv'
  BY <1>16 DEF Fill, TasksInv, TaskInv, Current, master, engine, tasks
<1>17. ASSUME NEW f \in Followers, NEW s \in Sides, NEW q \in 1 .. MaxQty,
              ManualTrade(f, s, q)
       PROVE  TasksInv'
  BY <1>17 DEF ManualTrade, TasksInv, TaskInv, Current, master, engine, tasks
<1>18. CASE Finish
  BY <1>18 DEF Finish, TasksInv, TaskInv
<1>19. CASE Restart
  BY <1>19 DEF Restart, TasksInv, TaskInv
<1>20. CASE UNCHANGED vars
  BY <1>20 DEF vars, TasksInv, TaskInv, Current, master, engine, tasks
<1>. QED
  BY <1>1, <1>2, <1>3, <1>4, <1>5, <1>6, <1>7, <1>8, <1>9, <1>10, <1>11, <1>12,
     <1>13, <1>14, <1>15, <1>16, <1>17, <1>18, <1>19, <1>20
     DEF Next, TaskStep, Handles

-----------------------------------------------------------------------------
(* Which steps touch what.                                                 *)
LEMMA TradesSteps ==
    ASSUME TypeOK, [Next]_vars
    PROVE  \A e \in DOMAIN trades : e \in DOMAIN trades' /\ trades'[e] = trades[e]
<1>1. CASE \E type \in ExecTypes, s \in Sides, q \in 1 .. MaxQty : MasterTrade(type, s, q)
  BY <1>1, AppendKeeps
<1>2. CASE ~ \E type \in ExecTypes, s \in Sides, q \in 1 .. MaxQty : MasterTrade(type, s, q)
  <2>1. trades' = trades
    BY <1>2 DEF Next, vars, master, TaskStep, Handles, Deliver, Redeliver, Start,
       PositionCheckFails, CheckOpen, CheckClose, SizeOrder, SizingFails, Send, Timeout,
       Accept, Reject, Busy, Drop, Fill, ManualTrade, Finish, Restart
  <2>. QED  BY <2>1
<1>. QED  BY <1>1, <1>2

(* Only acceptance and execution touch book, link ids and copies.          *)
LEMMA BookSteps ==
    ASSUME [Next]_vars
    PROVE  \/ \E f \in Followers : \E r \in wire[f] : Accept(f, r)
           \/ \E f \in Followers : \E r \in book[f] : Fill(f, r)
           \/ UNCHANGED <<book, used, copied>>
BY DEF Next, vars, exchange, TaskStep, Handles, MasterTrade, Deliver, Redeliver, Start,
   PositionCheckFails, CheckOpen, CheckClose, SizeOrder, SizingFails, Send, Timeout,
   Reject, Busy, Drop, ManualTrade, Finish, Restart

(* Only Send adds a request; the exchange takes one away.                  *)
LEMMA WireSteps ==
    ASSUME TypeOK, [Next]_vars
    PROVE  \/ \E f \in Followers : Send(f)
           \/ \A g \in Followers : wire'[g] \subseteq wire[g]
<1>1. ASSUME NEW f \in Followers, NEW r \in wire[f], Handles(f, r)
      PROVE  \A g \in Followers : wire'[g] \subseteq wire[g]
  BY <1>1 DEF TypeOK, Handles, Accept, Reject, Busy, Drop, Consume
<1>2. CASE ~ \E f \in Followers : \E r \in wire[f] : Handles(f, r)
  <2>1. (\E f \in Followers : Send(f)) \/ UNCHANGED wire
    BY <1>2 DEF Next, vars, exchange, TaskStep, MasterTrade, Deliver, Redeliver, Start,
       PositionCheckFails, CheckOpen, CheckClose, SizeOrder, SizingFails, Timeout,
       Fill, ManualTrade, Finish, Restart
  <2>. QED  BY <2>1
<1>. QED  BY <1>1, <1>2

(* The dispatch under way stays, ends, or is followed by one of a later    *)
(* round, before which nothing was under way.                              *)
LEMMA DispatchSteps ==
    ASSUME TypeOK, TasksInv, [Next]_vars
    PROVE  \/ cur' = cur /\ round' = round
           \/ cur' = 0 /\ round' = round /\ \A f \in Followers : result'[f] = "none"
           \/ cur = 0 /\ round' = round + 1 /\ UNCHANGED <<wire, result>>
<1>1. CASE \E e \in DOMAIN trades : Deliver(e) \/ Redeliver(e)
  BY <1>1 DEF Deliver, Redeliver, Dispatch, exchange
<1>2. CASE Finish \/ Restart
  BY <1>2 DEF Finish, Restart
<1>3. CASE ~ (Finish \/ Restart \/ \E e \in DOMAIN trades : Deliver(e) \/ Redeliver(e))
  BY <1>3 DEF Next, vars, engine, TaskStep, Handles, MasterTrade, Start,
     PositionCheckFails, CheckOpen, CheckClose, SizeOrder, SizingFails, Send, Timeout,
     Accept, Reject, Busy, Drop, Fill, ManualTrade
<1>. QED  BY <1>1, <1>2, <1>3

-----------------------------------------------------------------------------
(* What is on its way to a follower stays what its execution asks for.     *)
LEMMA FaithfulStays ==
    ASSUME TypeOK, [Next]_vars, NEW r, Faithful(r)
    PROVE  Faithful(r)'
BY TradesSteps DEF Faithful

(* What a task sends is what its execution asks for.                       *)
LEMMA OrderFaithful ==
    ASSUME TypeOK, TasksInv, NEW f \in Followers, Send(f)
    PROVE  Faithful(OrderOf(f))
<1>1. cur # 0 /\ IsMirrored(Current) /\ plan[f] <= Wanted(Current)
  BY DEF Send, TasksInv, TaskInv
<1>. QED  BY <1>1, CurrentType DEF OrderOf, Faithful, Current

(* Every step keeps what is on its way faithful.                           *)
LEMMA StepOrders == TypeOK /\ TasksInv /\ OrdersInv /\ [Next]_vars => OrdersInv'
<1>. SUFFICES ASSUME TypeOK, TasksInv, OrdersInv, [Next]_vars,
                     NEW g \in Followers, NEW r \in wire'[g] \cup book'[g]
              PROVE  Faithful(r)'
  BY DEF OrdersInv
<1>1. CASE \E f \in Followers : Send(f)
  <2>1. PICK f \in Followers : Send(f)
    BY <1>1
  <2>2. Faithful(OrderOf(f))
    BY <2>1, OrderFaithful
  <2>3. r \in wire[g] \cup book[g] \cup {OrderOf(f)}
    BY <2>1 DEF Send, TypeOK
  <2>. QED  BY <2>2, <2>3, FaithfulStays DEF OrdersInv
<1>2. CASE ~ \E f \in Followers : Send(f)
  <2>1. wire'[g] \subseteq wire[g]
    BY <1>2, WireSteps
  <2>2. book \in [Followers -> SUBSET Requests]
    BY DEF TypeOK
  <2>3. book'[g] \subseteq wire[g] \cup book[g]
    <3>1. ASSUME NEW f \in Followers, NEW s \in wire[f], Accept(f, s)
          PROVE  book'[g] \subseteq wire[g] \cup book[g]
      BY <2>2, <3>1 DEF Accept
    <3>2. ASSUME NEW f \in Followers, NEW s \in book[f], Fill(f, s)
          PROVE  book'[g] \subseteq wire[g] \cup book[g]
      BY <2>2, <3>2 DEF Fill
    <3>. QED  BY <3>1, <3>2, BookSteps
  <2>. QED  BY <2>1, <2>3, FaithfulStays DEF OrdersInv
<1>. QED  BY <1>1, <1>2

(* Every step keeps requests with their dispatch.                          *)
LEMMA StepRounds == TypeOK /\ TasksInv /\ RoundsInv /\ [Next]_vars => RoundsInv'
<1>. SUFFICES ASSUME TypeOK, TasksInv, RoundsInv, [Next]_vars,
                     NEW g \in Followers, NEW r \in wire'[g]
              PROVE  r.round <= round' /\ (cur' # 0 /\ r.round = round' => r.exec = cur')
  BY DEF RoundsInv
<1>. round \in Nat
  BY DEF TypeOK
<1>1. CASE \E f \in Followers : Send(f)
  <2>1. PICK f \in Followers : Send(f)
    BY <1>1
  <2>2. r \in wire[g] \cup {OrderOf(f)} /\ cur' = cur /\ round' = round
    BY <2>1 DEF Send, TypeOK, engine
  <2>3. CASE r = OrderOf(f)
    BY <2>2, <2>3 DEF OrderOf
  <2>. QED  BY <2>2, <2>3 DEF RoundsInv
<1>2. CASE ~ \E f \in Followers : Send(f)
  <2>1. r \in wire[g]
    BY <1>2, WireSteps
  <2>2. r.round \in Nat
    BY <2>1 DEF TypeOK, Requests
  <2>. QED  BY <2>1, <2>2, DispatchSteps DEF RoundsInv
<1>. QED  BY <1>1, <1>2

-----------------------------------------------------------------------------
(* One link id, one order, at most one quantity per execution.             *)
LEMMA StepLinks == TypeOK /\ LinksInv /\ [Next]_vars => LinksInv'
<1>. SUFFICES ASSUME TypeOK, LinksInv, [Next]_vars
              PROVE  LinksInv'
  OBVIOUS
<1>1. ASSUME NEW f \in Followers, NEW r \in wire[f], Accept(f, r)
      PROVE  LinksInv'
  <2>1. r \in Requests /\ r.exec \in Execs
    BY DEF TypeOK, Requests
  <2>2. /\ r.exec \notin used[f]
        /\ copied' = copied
        /\ book' = [book EXCEPT ![f] = @ \cup {r}]
        /\ used' = [used EXCEPT ![f] = @ \cup {r.exec}]
    BY <1>1 DEF Accept, LinkId
  <2>3. copied[f][r.exec] = 0
    BY <2>1, <2>2 DEF LinksInv
  <2>4. \A s \in book[f] : s.exec # r.exec
    BY <2>2 DEF LinksInv, LinkId
  <2>. QED  BY <2>2, <2>3, <2>4 DEF LinksInv, LinkId, TypeOK
<1>2. ASSUME NEW f \in Followers, NEW r \in book[f], Fill(f, r)
      PROVE  LinksInv'
  <2>1. r \in Requests /\ r.exec \in Execs
    BY DEF TypeOK, Requests
  <2>2. /\ used' = used
        /\ book' = [book EXCEPT ![f] = @ \ {r}]
        /\ copied' = [copied EXCEPT ![f][r.exec] = @ + FillQty(f, r)]
    BY <1>2 DEF Fill
  <2>3. r.exec \in used[f] /\ \A s \in book[f] \ {r} : s.exec # r.exec
    BY DEF LinksInv, LinkId
  <2>4. \A g \in Followers, e \in Execs :
           copied'[g][e] # copied[g][e] => g = f /\ e = r.exec
    BY <2>1, <2>2 DEF TypeOK
  <2>5. \A g \in Followers : \A s \in book'[g] :
           /\ s \in book[g] /\ s \in Requests /\ s.exec \in Execs
           /\ g = f => s # r
    BY <2>2 DEF TypeOK, Requests
  <2>6. \A g \in Followers : \A s \in book'[g] :
           LinkId(s) \in used'[g] /\ copied'[g][s.exec] = 0
    BY <2>2, <2>3, <2>4, <2>5 DEF LinksInv
  <2>7. \A g \in Followers : \A e \in Execs : copied'[g][e] # 0 => e \in used'[g]
    BY <2>2, <2>3, <2>4 DEF LinksInv
  <2>8. \A g \in Followers : \A s, t \in book'[g] : s.exec = t.exec => s = t
    BY <2>5 DEF LinksInv
  <2>. QED  BY <2>6, <2>7, <2>8 DEF LinksInv, LinkId
<1>3. CASE UNCHANGED <<book, used, copied>>
  BY <1>3 DEF LinksInv, LinkId
<1>. QED  BY <1>1, <1>2, <1>3, BookSteps

-----------------------------------------------------------------------------
(* A result becomes submitted only with the reply to an accepted order.    *)
LEMMA ReturnResults ==
    ASSUME TypeOK, NEW f \in Followers, NEW r, Return(f, r), r # "submitted"
    PROVE  \A g \in Followers : result'[g] = "submitted" => result[g] = "submitted"
BY DEF TypeOK, Return

(* Only a reply to an accepted order makes a result submitted.             *)
LEMMA ResultSteps ==
    ASSUME TypeOK, [Next]_vars
    PROVE  \/ \E f \in Followers : \E r \in wire[f] :
                 Accept(f, r) /\ Awaits(f, r) /\ Return(f, "submitted")
           \/ \A g \in Followers : result'[g] = "submitted" => result[g] = "submitted"
<1>1. CASE \E f \in Followers : TaskStep(f)
  <2>1. PICK f \in Followers : TaskStep(f)
    BY <1>1
  <2>2. Return(f, "error") \/ Return(f, "skipped") \/ UNCHANGED result
    BY <2>1 DEF TaskStep, Start, PositionCheckFails, CheckOpen, CheckClose, SizeOrder,
       SizingFails, Send, Timeout, Retry
  <2>. QED  BY <2>2, ReturnResults
<1>2. CASE \E f \in Followers : \E r \in wire[f] : Handles(f, r)
  <2>1. PICK f \in Followers : \E r \in wire[f] : Handles(f, r)
    BY <1>2
  <2>2. \/ \E r \in wire[f] : Accept(f, r) /\ Awaits(f, r) /\ Return(f, "submitted")
        \/ Return(f, "error") \/ UNCHANGED result
    BY <2>1 DEF Handles, Accept, Reject, Refused, Busy, Retry, Drop, tasks
  <2>. QED  BY <2>2, ReturnResults
<1>3. CASE Finish \/ Restart
  BY <1>3 DEF Finish, Restart
<1>4. CASE ~ (Finish \/ Restart) /\ ~ (\E f \in Followers : TaskStep(f))
           /\ ~ (\E f \in Followers : \E r \in wire[f] : Handles(f, r))
  BY <1>4 DEF Next, vars, tasks, MasterTrade, Deliver, Redeliver, Fill, ManualTrade
<1>. QED  BY <1>1, <1>2, <1>3, <1>4

(* A link id once taken stays taken.                                       *)
LEMMA UsedGrows ==
    ASSUME TypeOK, [Next]_vars
    PROVE  \A g \in Followers : used[g] \subseteq used'[g]
<1>1. used \in [Followers -> SUBSET Nat]
  BY DEF TypeOK
<1>. QED  BY <1>1, BookSteps DEF Accept, Fill

(* Every step keeps submitted results truthful.                            *)
LEMMA StepSubmitted ==
    TypeOK /\ TasksInv /\ RoundsInv /\ SubmittedIsTaken /\ [Next]_vars => SubmittedIsTaken'
<1>. SUFFICES ASSUME TypeOK, TasksInv, RoundsInv, SubmittedIsTaken, [Next]_vars,
                     NEW g \in Followers, result'[g] = "submitted"
              PROVE  cur' \in used'[g]
  BY DEF SubmittedIsTaken
<1>1. CASE result[g] = "submitted"
  <2>1. cur # 0 /\ cur \in used[g]
    BY <1>1 DEF SubmittedIsTaken, TasksInv, TaskInv
  <2>2. cur' = cur
    BY <2>1, DispatchSteps
  <2>. QED  BY <2>1, <2>2, UsedGrows
<1>2. CASE result[g] # "submitted"
  <2>1. PICK f \in Followers : \E r \in wire[f] :
           Accept(f, r) /\ Awaits(f, r) /\ Return(f, "submitted")
    BY <1>2, ResultSteps
  <2>2. PICK r \in wire[f] : Accept(f, r) /\ Awaits(f, r) /\ Return(f, "submitted")
    BY <2>1
  <2>3. g = f
    BY <1>2, <2>2 DEF Return, TypeOK
  <2>4. r.exec = cur
    BY <2>2 DEF Awaits, RoundsInv, TasksInv, TaskInv
  <2>. QED  BY <2>2, <2>3, <2>4 DEF Accept, LinkId, TypeOK, engine
<1>. QED  BY <1>1, <1>2

-----------------------------------------------------------------------------
(* The inductive invariant holds initially.                                *)
LEMMA InitMirror == Init => MirrorInv
BY DEF Init, MirrorInv, OrdersInv, TasksInv, TaskInv, LinksInv, RoundsInv, SubmittedIsTaken

(* Every step keeps it.                                                    *)
LEMMA StepMirror == TypeOK /\ MirrorInv /\ [Next]_vars => TypeOK' /\ MirrorInv'
BY StepType, StepTasks, StepOrders, StepLinks, StepRounds, StepSubmitted DEF MirrorInv

(* It holds of every behaviour.                                            *)
LEMMA MirrorInvariant == Spec => [](TypeOK /\ MirrorInv)
<1>1. Init => TypeOK /\ MirrorInv
  BY InitType, InitMirror
<1>2. TypeOK /\ MirrorInv /\ [Next]_vars => TypeOK' /\ MirrorInv'
  BY StepMirror
<1>. QED  BY <1>1, <1>2, PTL DEF Spec

(* Every variable of the mirroring has its type.                           *)
THEOREM MirrorTypeCorrect == Spec => []TypeOK
BY MirrorInvariant, PTL

(* A result recorded as submitted belongs to an order the exchange took.   *)
THEOREM SubmittedOrdersAreTaken == Spec => []SubmittedIsTaken
<1>1. TypeOK /\ MirrorInv => SubmittedIsTaken
  BY DEF MirrorInv
<1>. QED  BY <1>1, MirrorInvariant, PTL

-----------------------------------------------------------------------------
(* The order for a master close can only reduce the position it finds when *)
(* it is executed, however stale the check before it has become.           *)
LEMMA FillOfCloseReduces ==
    ASSUME TypeOK, MirrorInv, NEW f \in Followers, NEW r \in book[f],
           Fill(f, r), IsClose(trades[r.exec])
    PROVE  TowardsZero(pos[f], pos'[f])
<1>1. r.reduceOnly
  BY DEF MirrorInv, OrdersInv, Faithful
<1>2. r \in Requests /\ FillQty(f, r) \in Nat /\ FillQty(f, r) <= Reducible(pos[f], r.side)
  BY <1>1, FillQtyType
<1>3. r.side \in Sides /\ pos[f] \in Int
  BY <1>2 DEF Requests, TypeOK
<1>4. pos'[f] = Moved(pos[f], r.side, FillQty(f, r))
  BY DEF Fill, TypeOK
<1>. QED  BY <1>2, <1>3, <1>4, ReducingIsTowardsZero

(* An order leaves the book only by its execution.                         *)
LEMMA StepClose ==
    ASSUME TypeOK, MirrorInv, [Next]_vars, NEW f \in Followers,
           NEW r \in book[f] \ book'[f], IsClose(trades[r.exec])
    PROVE  TowardsZero(pos[f], pos'[f])
<1>1. PICK g \in Followers : \E s \in book[g] : Fill(g, s)
  BY BookSteps DEF Accept, TypeOK
<1>2. PICK s \in book[g] : Fill(g, s)
  BY <1>1
<1>3. g = f /\ s = r
  BY <1>2 DEF Fill, TypeOK
<1>. QED  BY <1>2, <1>3, FillOfCloseReduces

(* Whatever changed since the check, an order for a close only reduces.    *)
THEOREM ClosesNeverOpen == Spec => CloseNeverOpens
<1>1. TypeOK /\ MirrorInv /\ [Next]_vars
        => [\A f \in Followers : \A r \in book[f] \ book'[f] :
               IsClose(trades[r.exec]) => TowardsZero(pos[f], pos'[f])]_vars
  BY StepClose
<1>. QED  BY <1>1, MirrorInvariant, PTL DEF Spec, CloseNeverOpens

-----------------------------------------------------------------------------
(* The mirroring implements ExecutionCopies: a step of the master is a     *)
(* Trade, the execution of an order that trades something is a Copy, and   *)
(* everything else is a stutter.                                           *)
LEMMA SamePolicy ==
    /\ Copies!Executions = Executions
    /\ \A x : (Copies!IsMirrored(x) <=> IsMirrored(x)) /\ Copies!Wanted(x) = Wanted(x)
BY DEF Copies!Executions, Executions, Copies!Sides, Sides, Copies!IsMirrored, IsMirrored,
   Copies!Wanted, Wanted, Copies!IsClose, IsClose

(* The initial state is one of the abstract specification.                 *)
LEMMA InitCopies == Init => Copies!Init
BY DEF Init, Copies!Init, Execs

(* The execution of an order is a copy, or trades nothing.                 *)
LEMMA FillIsCopy ==
    ASSUME TypeOK, MirrorInv, NEW f \in Followers, NEW r \in book[f], Fill(f, r)
    PROVE  Copies!Copy(f, r.exec) \/ UNCHANGED <<trades, copied>>
<1>. DEFINE q == FillQty(f, r)
<1>1. r \in Requests /\ q \in Nat /\ q <= r.qty
  BY FillQtyType
<1>2. r.exec \in Execs /\ r.qty \in Nat
  BY <1>1 DEF Requests
<1>3. /\ r.exec \in DOMAIN trades /\ IsMirrored(trades[r.exec])
      /\ r.qty <= Wanted(trades[r.exec])
      /\ copied[f][r.exec] = 0
  BY DEF MirrorInv, OrdersInv, Faithful, LinksInv
<1>4. trades' = trades /\ copied' = [copied EXCEPT ![f][r.exec] = @ + q]
  BY DEF Fill, master
<1>5. trades[r.exec] \in Executions
  BY <1>3 DEF TypeOK
<1>6. Wanted(trades[r.exec]) \in Nat
  BY <1>5, WantedType
<1>. HIDE DEF q
<1>7. copied \in [Followers -> [Execs -> Nat]]
  BY DEF TypeOK
<1>8. copied' = [copied EXCEPT ![f][r.exec] = q]
  <2>1. copied[f][r.exec] + q = q
    BY <1>1, <1>3
  <2>. QED  BY <1>2, <1>4, <1>7, <2>1
<1>9. CASE q = 0
  BY <1>2, <1>3, <1>4, <1>7, <1>8, <1>9
<1>10. CASE q # 0
  <2>1. q \in 1 .. Wanted(trades[r.exec])
    BY <1>1, <1>2, <1>3, <1>6, <1>10
  <2>. QED  BY <1>3, <1>4, <1>8, <2>1, SamePolicy DEF Copies!Copy
<1>. QED  BY <1>9, <1>10

(* Every step is a step or a stutter of the abstract specification.        *)
LEMMA StepCopies ==
    TypeOK /\ MirrorInv /\ [Next]_vars => [Copies!Next]_(Copies!vars)
<1>. SUFFICES ASSUME TypeOK, MirrorInv, [Next]_vars
              PROVE  Copies!Next \/ UNCHANGED <<trades, copied>>
  BY DEF Copies!vars
<1>1. ASSUME NEW type \in ExecTypes, NEW s \in Sides, NEW q \in 1 .. MaxQty,
             MasterTrade(type, s, q)
      PROVE  Copies!Next
  BY <1>1, ExecutionType, SamePolicy DEF MasterTrade, exchange, Copies!Next, Copies!Trade
<1>2. ASSUME NEW f \in Followers, NEW r \in book[f], Fill(f, r)
      PROVE  Copies!Next \/ UNCHANGED <<trades, copied>>
  <2>1. r.exec \in 1 .. MaxTrades
    BY DEF TypeOK, Requests, Execs
  <2>. QED  BY <1>2, <2>1, FillIsCopy DEF Copies!Next
<1>3. CASE /\ ~ \E type \in ExecTypes, s \in Sides, q \in 1 .. MaxQty : MasterTrade(type, s, q)
           /\ ~ \E f \in Followers : \E r \in book[f] : Fill(f, r)
  BY <1>3 DEF Next, vars, master, exchange, TaskStep, Handles, Deliver, Redeliver, Start,
     PositionCheckFails, CheckOpen, CheckClose, SizeOrder, SizingFails, Send, Timeout,
     Accept, Reject, Busy, Drop, ManualTrade, Finish, Restart
<1>. QED  BY <1>1, <1>2, <1>3

(* At most one copy per follower and execution, of at most its quantity,   *)
(* over every retry, replay, restart and lost reply.                       *)
THEOREM AtMostOnce == Spec => AtMostOneCopy
<1>1. Init => Copies!Init
  BY InitCopies
<1>2. TypeOK /\ MirrorInv /\ [Next]_vars => [Copies!Next]_(Copies!vars)
  BY StepCopies
<1>. QED  BY <1>1, <1>2, MirrorInvariant, PTL DEF Spec, AtMostOneCopy, Copies!Spec
=============================================================================
