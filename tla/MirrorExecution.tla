---------------------------- MODULE MirrorExecution ----------------------------
(***************************************************************************)
(* The copy of master executions to the followers: SyncEngine hands one    *)
(* execution at a time to FollowerManager, which runs one task per         *)
(* follower under a semaphore; each task (order_executor.py) checks the    *)
(* follower's position, sizes the order and places it through the retrying *)
(* client (bybit_client.py, retry.py).  Between any two awaits of a task   *)
(* the exchange, the master and the other tasks take steps.                *)
(*                                                                         *)
(* The exchange keeps, per follower, the requests still under way, the     *)
(* orders it accepted but has not executed yet, the link ids it has seen   *)
(* and the position.  Its acknowledgement of an order is not its           *)
(* execution.                                                              *)
(***************************************************************************)
EXTENDS MirrorPolicy, OrderQuantity, Sequences, FiniteSets

CONSTANTS Followers,
          Lot,            \* the InstrumentSpec of the symbol; with step 1 and
                          \* min 0, normalize_order_quantities is off
          Concurrency,    \* follower_replication_concurrency
          Attempts,       \* api_call_attempts
          BlockIfOpen,    \* block_if_follower_position_exists
          ClipClose,      \* clip_close_qty_to_follower_position
          PromptFills,    \* orders are executed before the position is read
          Faults,         \* whether anything may go wrong at all
          MaxTrades,      \* bound on the number of executions
          MaxMishaps      \* bound on redeliveries, restarts and manual trades

ASSUME MirrorAssumption == /\ Lot \in Specs
                           /\ Concurrency \in Nat \ {0}
                           /\ Attempts \in Nat \ {0}
                           /\ {BlockIfOpen, ClipClose, PromptFills, Faults} \subseteq BOOLEAN
                           /\ MaxTrades \in Nat
                           /\ MaxMishaps \in Nat

VARIABLES
    trades,             \* the master's executions
    masterPath,         \* its position before each of them, and after the last
    delivered,          \* the last execution handed to the engine
    cur,                \* the execution being mirrored; 0: none
    round,              \* how many were dispatched
    active,             \* followers whose credentials startup accepted
    health,             \* the status in the follower's health snapshot
    task,               \* per follower, where its task is
    attempt,            \* of its place_order call
    plan,               \* the quantity it has come to
    result,             \* its FollowerOrderResult
    wire,               \* requests sent to the exchange and not yet processed
    book,               \* orders accepted and not yet executed
    used,               \* link ids of the orders ever accepted
    pos,                \* the follower's position
    copied,             \* quantity traded per execution (history)
    mishaps

master   == <<trades, masterPath>>
engine   == <<delivered, cur, round, active, health>>
tasks    == <<task, attempt, plan, result>>
exchange == <<wire, book, used, pos, copied>>
vars == <<master, engine, tasks, exchange, mishaps>>

Execs == 1 .. MaxTrades

Phases  == {"idle", "waiting", "checking", "sizing", "sending", "awaiting", "done"}
Running == {"checking", "sizing", "sending", "awaiting"}
Results == {"none", "submitted", "skipped", "error"}

Requests == [exec : Execs, round : Nat, try : Nat, side : Sides, qty : Nat,
             reduceOnly : BOOLEAN]

TypeOK ==
    /\ trades \in Seq(Executions) /\ Len(trades) <= MaxTrades
    /\ masterPath \in Seq(Int) /\ Len(masterPath) = Len(trades) + 1
    /\ delivered \in 0 .. Len(trades)
    /\ cur \in 0 .. Len(trades)
    /\ round \in Nat
    /\ active \subseteq Followers
    /\ health \in [Followers -> {"healthy", "degraded", "unavailable"}]
    /\ task \in [Followers -> Phases]
    /\ attempt \in [Followers -> 1 .. Attempts]
    /\ plan \in [Followers -> Nat]
    /\ result \in [Followers -> Results]
    /\ wire \in [Followers -> SUBSET Requests]
    /\ book \in [Followers -> SUBSET Requests]
    /\ used \in [Followers -> SUBSET Nat]
    /\ pos \in [Followers -> Int]
    /\ copied \in [Followers -> [Execs -> Nat]]
    /\ mishaps \in Nat

(* FollowerManager.initialize: a follower whose validation fails is left   *)
(* out for as long as the process lives; without any it does not start.    *)
Validations == IF Faults THEN SUBSET Followers \ {{}} ELSE {Followers}

StartupHealth(valid) ==
    [f \in Followers |-> IF f \in valid THEN "healthy" ELSE "unavailable"]

Init ==
    /\ trades = << >> /\ masterPath = <<0>>
    /\ delivered = 0 /\ cur = 0 /\ round = 0
    /\ active \in Validations
    /\ health  = StartupHealth(active)
    /\ task    = [f \in Followers |-> "idle"]
    /\ attempt = [f \in Followers |-> 1]
    /\ plan    = [f \in Followers |-> 0]
    /\ result  = [f \in Followers |-> "none"]
    /\ wire    = [f \in Followers |-> {}]
    /\ book    = [f \in Followers |-> {}]
    /\ used    = [f \in Followers |-> {}]
    /\ pos     = [f \in Followers |-> 0]
    /\ copied  = [f \in Followers |-> [e \in Execs |-> 0]]
    /\ mishaps = 0

Mishap == Faults /\ mishaps < MaxMishaps /\ mishaps' = mishaps + 1

(***************************************************************************)
(* The master trades; closedSize is what the execution took off its        *)
(* position.                                                               *)
(***************************************************************************)
masterPos == masterPath[Len(trades) + 1]

MasterTrade(type, s, q) ==
    /\ Len(trades) < MaxTrades
    /\ trades' = Append(trades, [type |-> type, side |-> s, qty |-> q,
                                 closed |-> Least(q, Reducible(masterPos, s))])
    /\ masterPath' = Append(masterPath, Moved(masterPos, s, q))
    /\ UNCHANGED <<engine, tasks, exchange, mishaps>>

(***************************************************************************)
(* SyncEngine._handle_execution and FollowerManager.                       *)
(***************************************************************************)
Current == trades[cur]

Dispatch(e) ==
    IF IsMirrored(trades[e])
    THEN /\ cur' = e
         /\ round' = round + 1
         /\ task' = [f \in Followers |-> IF f \in active THEN "waiting" ELSE "idle"]
    ELSE UNCHANGED <<cur, round, task>>

(* The next execution reaches the engine; with faults the ones before it   *)
(* may have been lost with a connection, a failing checkpoint or a process.*)
Deliver(e) ==
    /\ cur = 0
    /\ e \in delivered + 1 .. Len(trades)
    /\ e > delivered + 1 => Faults
    /\ delivered' = e
    /\ Dispatch(e)
    /\ UNCHANGED <<master, active, health, attempt, plan, result, exchange, mishaps>>

(* A replay the deduper lets through.                                      *)
Redeliver(e) ==
    /\ Mishap
    /\ cur = 0
    /\ e \in 1 .. delivered
    /\ Dispatch(e)
    /\ UNCHANGED <<master, delivered, active, health, attempt, plan, result, exchange>>

(* async with self._semaphore.                                             *)
Start(f) ==
    /\ task[f] = "waiting"
    /\ Cardinality({g \in Followers : task[g] \in Running}) < Concurrency
    /\ task' = [task EXCEPT ![f] = "checking"]
    /\ UNCHANGED <<master, engine, attempt, plan, result, exchange, mishaps>>

(* gather returns when every task has.  record_follower_result takes the   *)
(* followers in turn; a state write that fails ends the loop, and with it  *)
(* the handler, after at least one.                                        *)
Finish ==
    /\ cur # 0
    /\ \A f \in active : task[f] = "done"
    /\ cur' = 0
    /\ \E recorded \in IF Faults THEN SUBSET active \ {{}} ELSE {active} :
          health' = [f \in Followers |->
                       IF f \notin recorded THEN health[f]
                       ELSE IF result[f] = "error" THEN "degraded" ELSE "healthy"]
    /\ task' = [f \in Followers |-> "idle"]
    /\ attempt' = [f \in Followers |-> 1]
    /\ plan' = [f \in Followers |-> 0]
    /\ result' = [f \in Followers |-> "none"]
    /\ UNCHANGED <<master, delivered, round, active, exchange, mishaps>>

(***************************************************************************)
(* One follower's task: mirror_market_open and mirror_market_close.        *)
(***************************************************************************)
Return(f, r) ==
    /\ task' = [task EXCEPT ![f] = "done"]
    /\ result' = [result EXCEPT ![f] = r]

(* Mutant of Proceed: the quantity is not normalized.                      *)
ProceedToSend(f, q) ==
    /\ task' = [task EXCEPT ![f] = "sending"]
    /\ plan' = [plan EXCEPT ![f] = q]

Proceed(f, q) ==
    /\ task' = [task EXCEPT ![f] = "sizing"]
    /\ plan' = [plan EXCEPT ![f] = q]

(* get_one_way_position; an open does not read when it need not.           *)
ReadsPosition == IsClose(Current) \/ BlockIfOpen

Checking(f) ==
    /\ task[f] = "checking"
    /\ PromptFills => book[f] = {}

PositionCheckFails(f) ==
    /\ Faults /\ Checking(f) /\ ReadsPosition
    /\ Return(f, "error")
    /\ UNCHANGED <<master, engine, attempt, plan, exchange, mishaps>>

(* _check_existing_position.                                               *)
CheckOpen(f) ==
    /\ Checking(f) /\ ~ IsClose(Current)
    /\ \/ /\ BlockIfOpen /\ pos[f] # 0
          /\ Return(f, "skipped")
          /\ UNCHANGED plan
       \/ /\ BlockIfOpen => pos[f] = 0
          /\ Proceed(f, Wanted(Current))
          /\ UNCHANGED result
    /\ UNCHANGED <<master, engine, attempt, exchange, mishaps>>

(* Mutant of CloseQty: every close closes the follower's whole position.   *)
CloseAll(open, wanted) == open

CloseQty(open, wanted) == Least(open, wanted)

(* _resolve_close_quantity: no position and the wrong side are skipped, a  *)
(* position that is too small is skipped or clips the close.               *)
CheckClose(f) ==
    /\ Checking(f) /\ IsClose(Current)
    /\ LET open   == Reducible(pos[f], Current.side)
           enough == open > 0 /\ (open >= Wanted(Current) \/ ClipClose)
       IN  \/ /\ ~ enough
              /\ Return(f, "skipped")
              /\ UNCHANGED plan
           \/ /\ enough
              /\ Proceed(f, CloseQty(open, Wanted(Current)))
              /\ UNCHANGED result
    /\ UNCHANGED <<master, engine, attempt, exchange, mishaps>>

(* _normalize_quantity_for_order.                                          *)
SizeOrder(f) ==
    /\ task[f] = "sizing"
    /\ LET n == NormalizeOrderQuantity(plan[f], Lot)
       IN  \/ /\ ~ n.valid
              /\ Return(f, "skipped")
              /\ UNCHANGED <<plan, attempt>>
           \/ /\ n.valid
              /\ task' = [task EXCEPT ![f] = "sending"]
              /\ plan' = [plan EXCEPT ![f] = n.qty]
              /\ attempt' = [attempt EXCEPT ![f] = 1]
              /\ UNCHANGED result
    /\ UNCHANGED <<master, engine, exchange, mishaps>>

SizingFails(f) ==
    /\ Faults /\ task[f] = "sizing"
    /\ Return(f, "error")
    /\ UNCHANGED <<master, engine, attempt, plan, exchange, mishaps>>

(* Mutant of OrderOf: the close is sent as an ordinary order.              *)
PlainOrderOf(f) == [exec |-> cur, round |-> round, try |-> attempt[f],
                    side |-> Current.side, qty |-> plan[f], reduceOnly |-> FALSE]

OrderOf(f) == [exec |-> cur, round |-> round, try |-> attempt[f],
               side |-> Current.side, qty |-> plan[f],
               reduceOnly |-> IsClose(Current)]

(* One attempt of place_order, in a thread of its own.                     *)
Send(f) ==
    /\ task[f] = "sending"
    /\ wire' = [wire EXCEPT ![f] = @ \cup {OrderOf(f)}]
    /\ task' = [task EXCEPT ![f] = "awaiting"]
    /\ UNCHANGED <<master, engine, attempt, plan, result, book, used, pos, copied, mishaps>>

(* Mutant of Retry: one attempt too many.                                  *)
RetryOnceMore(f) ==
    \/ /\ attempt[f] <= Attempts
       /\ attempt' = [attempt EXCEPT ![f] = @ + 1]
       /\ task' = [task EXCEPT ![f] = "sending"]
       /\ UNCHANGED result
    \/ /\ attempt[f] > Attempts
       /\ Return(f, "error")
       /\ UNCHANGED attempt

(* Mutant of Retry: the attempts are not counted.                          *)
RetryForever(f) ==
    /\ task' = [task EXCEPT ![f] = "sending"]
    /\ UNCHANGED <<result, attempt>>

(* with_retry after a retryable exception.                                 *)
Retry(f) ==
    \/ /\ attempt[f] < Attempts
       /\ attempt' = [attempt EXCEPT ![f] = @ + 1]
       /\ task' = [task EXCEPT ![f] = "sending"]
       /\ UNCHANGED result
    \/ /\ attempt[f] >= Attempts
       /\ Return(f, "error")
       /\ UNCHANGED attempt

(* The attempt raises TimeoutError, ConnectionError or OSError; what it    *)
(* sent may still arrive, or have arrived.                                 *)
Timeout(f) ==
    /\ Faults /\ task[f] = "awaiting"
    /\ Retry(f)
    /\ UNCHANGED <<master, engine, plan, exchange, mishaps>>

(***************************************************************************)
(* The exchange.                                                           *)
(***************************************************************************)
Awaits(f, r) == task[f] = "awaiting" /\ r.round = round /\ r.try = attempt[f]

(* Mutant of LinkId: every attempt has an id of its own.                   *)
LinkPerAttempt(r) == r.exec + MaxTrades * (r.try - 1)

(* _build_order_link_id, a hash of the follower's name and the execution.  *)
LinkId(r) == r.exec

Consume(f, r) ==
    /\ r \in wire[f]
    /\ wire' = [wire EXCEPT ![f] = @ \ {r}]

(* The order is taken; its reply arrives, or not.                          *)
Accept(f, r) ==
    /\ Consume(f, r)
    /\ LinkId(r) \notin used[f]
    /\ book' = [book EXCEPT ![f] = @ \cup {r}]
    /\ used' = [used EXCEPT ![f] = @ \cup {LinkId(r)}]
    /\ \/ Awaits(f, r) /\ Return(f, "submitted")
       \/ (Awaits(f, r) => Faults) /\ UNCHANGED <<task, result>>
    /\ UNCHANGED <<master, engine, attempt, plan, pos, copied, mishaps>>

(* Mutant of Refused: a reply with an error code is taken for a success.   *)
TakenForSubmitted(f) == Return(f, "submitted")

(* _raise_if_bybit_error with a code that is not retryable.                *)
Refused(f) == Return(f, "error")

(* A link id seen before, or any other reason to refuse the order.         *)
Reject(f, r) ==
    /\ Consume(f, r)
    /\ LinkId(r) \in used[f] \/ Faults
    /\ IF Awaits(f, r) THEN Refused(f) ELSE UNCHANGED <<task, result>>
    /\ UNCHANGED <<master, engine, attempt, plan, book, used, pos, copied, mishaps>>

(* A retryable error code: rate limit, internal error.                     *)
Busy(f, r) ==
    /\ Faults /\ Consume(f, r)
    /\ IF Awaits(f, r) THEN Retry(f) ELSE UNCHANGED <<task, attempt, result>>
    /\ UNCHANGED <<master, engine, plan, book, used, pos, copied, mishaps>>

Drop(f, r) ==
    /\ Faults /\ Consume(f, r)
    /\ UNCHANGED <<master, engine, tasks, book, used, pos, copied, mishaps>>

(* A market order executes in full; one that may only reduce executes at   *)
(* most what there is to reduce.                                           *)
FillQty(f, r) ==
    IF r.reduceOnly THEN Least(r.qty, Reducible(pos[f], r.side)) ELSE r.qty

Fill(f, r) ==
    /\ r \in book[f]
    /\ book' = [book EXCEPT ![f] = @ \ {r}]
    /\ pos' = [pos EXCEPT ![f] = Moved(@, r.side, FillQty(f, r))]
    /\ copied' = [copied EXCEPT ![f][r.exec] = @ + FillQty(f, r)]
    /\ UNCHANGED <<master, engine, tasks, wire, used, mishaps>>

(* The follower trades on its own account.                                 *)
ManualTrade(f, s, q) ==
    /\ Mishap
    /\ pos' = [pos EXCEPT ![f] = Moved(@, s, q)]
    /\ UNCHANGED <<master, engine, tasks, wire, book, used, copied>>

(* The process ends and starts again; what it sent stays sent.  Startup    *)
(* validation overwrites the health snapshots.                             *)
Restart ==
    /\ Mishap
    /\ cur' = 0
    /\ active' \in Validations
    /\ health' = StartupHealth(active')
    /\ task' = [f \in Followers |-> "idle"]
    /\ attempt' = [f \in Followers |-> 1]
    /\ plan' = [f \in Followers |-> 0]
    /\ result' = [f \in Followers |-> "none"]
    /\ UNCHANGED <<master, delivered, round, exchange>>

TaskStep(f) == \/ Start(f) \/ PositionCheckFails(f) \/ CheckOpen(f) \/ CheckClose(f)
               \/ SizeOrder(f) \/ SizingFails(f) \/ Send(f) \/ Timeout(f)

Handles(f, r) == Accept(f, r) \/ Reject(f, r) \/ Busy(f, r) \/ Drop(f, r)

Next ==
    \/ \E type \in ExecTypes, s \in Sides, q \in 1 .. MaxQty : MasterTrade(type, s, q)
    \/ \E e \in DOMAIN trades : Deliver(e) \/ Redeliver(e)
    \/ \E f \in Followers : TaskStep(f)
    \/ \E f \in Followers : \E r \in wire[f] : Handles(f, r)
    \/ \E f \in Followers : \E r \in book[f] : Fill(f, r)
    \/ \E f \in Followers, s \in Sides, q \in 1 .. MaxQty : ManualTrade(f, s, q)
    \/ Finish \/ Restart

Spec == Init /\ [][Next]_vars

(***************************************************************************)
(* Properties.                                                             *)
(***************************************************************************)

(* README, Deterministic Follower Order IDs and Duplicate Prevention: over *)
(* retries of an order that was taken but not acknowledged, over replays   *)
(* and restarts, a follower trades at most once for a master execution,    *)
(* and at most its quantity.                                               *)
Copies == INSTANCE ExecutionCopies WITH trades <- trades, copied <- copied
AtMostOneCopy == Copies!Spec

(* README, Close Safety: whatever happened to the position between the     *)
(* check and the execution, the order for a master close takes the         *)
(* follower's position towards zero and never opens or turns one.          *)
TowardsZero(before, after) ==
    /\ before >= 0 => after \in 0 .. before
    /\ before <= 0 => after \in before .. 0

CloseNeverOpens ==
    [][\A f \in Followers : \A r \in book[f] \ book'[f] :
          IsClose(trades[r.exec]) => TowardsZero(pos[f], pos'[f])]_vars

(* A result recorded as submitted (and with it the follower's success      *)
(* count) means the exchange holds or held the order of this execution.    *)
SubmittedIsTaken ==
    \A f \in Followers : result[f] = "submitted" => cur \in used[f]

(* Nothing is on its way from the master to a follower's position.         *)
Quiet ==
    /\ cur = 0 /\ delivered = Len(trades)
    /\ \A f \in Followers : wire[f] = {} /\ book[f] = {}

(* What a follower is through with, and its position once the order on the *)
(* book is executed.                                                       *)
Through ==
    [f \in Followers |-> IF cur # 0 /\ task[f] # "done" THEN delivered - 1 ELSE delivered]

PosToBe ==
    [f \in Followers |->
        IF book[f] = {} THEN pos[f]
        ELSE LET r == CHOOSE r \in book[f] : TRUE
             IN  Moved(pos[f], r.side, FillQty(f, r))]

(* Without faults, and with prompt executions, the awaits of the tasks do  *)
(* not show: whatever order the tasks, the exchange and the master take    *)
(* their steps in, a follower takes every execution as a whole and once.   *)
Ideal == INSTANCE PositionCopies WITH through <- Through, pos <- PosToBe
CopiesInSteps == Ideal!Spec

(* The master account is the source of truth (README, Goal): once all that *)
(* the master did is mirrored, a follower that only the engine trades for  *)
(* is exposed in the master's direction, and no more than the master.      *)
FollowerWithinMaster ==
    Quiet => \A f \in Followers : TowardsZero(masterPos, pos[f])

(* README, Current Status: opens, closes and partial closes are mirrored.  *)
(* As long as the master only opens from flat and closes without turning   *)
(* its position, in quantities an order can have, the position of the      *)
(* follower is the master's.                                               *)
CopiedExactly ==
    Quiet /\ (\A e \in DOMAIN trades : Ideal!Plain(e))
        => \A f \in Followers : pos[f] = masterPos

(* A follower is flat when the master is: what the two properties above    *)
(* come to at the end of a trade.                                          *)
FlatWhenMasterFlat ==
    Quiet /\ masterPos = 0 => \A f \in Followers : pos[f] = 0

(***************************************************************************)
(* The inductive invariant behind AtMostOneCopy and CloseNeverOpens.       *)
(***************************************************************************)

(* What is sent, and accepted, for an execution is what that execution     *)
(* asks for; the executions themselves are never rewritten.                *)
Faithful(r) ==
    /\ r.exec \in DOMAIN trades
    /\ IsMirrored(trades[r.exec])
    /\ r.qty <= Wanted(trades[r.exec])
    /\ r.reduceOnly = IsClose(trades[r.exec])

OrdersInv == \A f \in Followers : \A r \in wire[f] \cup book[f] : Faithful(r)

(* A task only runs while an execution is being mirrored, and has come to  *)
(* no larger a quantity than that execution asks for.                      *)
TaskInv(f) ==
    /\ task[f] # "idle" => cur # 0
    /\ task[f] \in {"sizing", "sending", "awaiting"} => plan[f] <= Wanted(Current)
    /\ result[f] # "none" => task[f] = "done"

TasksInv == /\ cur # 0 => IsMirrored(Current)
            /\ \A f \in Followers : TaskInv(f)

(* An accepted order has taken the one link id of its execution, and no    *)
(* quantity is traded for an execution before that.                        *)
LinksInv ==
    \A f \in Followers :
        /\ \A r \in book[f] : LinkId(r) \in used[f] /\ copied[f][r.exec] = 0
        /\ \A r, s \in book[f] : r.exec = s.exec => r = s
        /\ \A e \in Execs : copied[f][e] # 0 => e \in used[f]

(* A request of the present dispatch is for the present execution, so an   *)
(* answer a task takes is an answer to its own request.                    *)
RoundsInv ==
    \A f \in Followers : \A r \in wire[f] :
        r.round <= round /\ (cur # 0 /\ r.round = round => r.exec = cur)

(* Without faults there is one order per follower and execution, it is for *)
(* what the follower asked from the position it has, and nothing of one    *)
(* execution is left when the next is checked.                             *)
OrderInv(f) ==
    /\ wire[f] = IF task[f] = "awaiting" THEN {OrderOf(f)} ELSE {}
    /\ task[f] \in {"sizing", "sending", "awaiting"} => book[f] = {}
    /\ \A r, s \in book[f] : r = s
    /\ \A e \in used[f] : e <= delivered
    /\ cur # 0 /\ task[f] # "done" => cur \notin used[f]

PlanInv(f) ==
    LET asked == Ideal!Asked(pos[f], Current)
        n     == NormalizeOrderQuantity(asked, Lot)
    IN  /\ task[f] = "sizing" => plan[f] = asked
        /\ task[f] \in {"sending", "awaiting"} => n.valid /\ plan[f] = n.qty

PromptInv ==
    /\ active = Followers
    /\ cur # 0 => cur = delivered
    /\ \A f \in Followers : OrderInv(f) /\ PlanInv(f)

MirrorInv == OrdersInv /\ TasksInv /\ LinksInv /\ RoundsInv /\ SubmittedIsTaken
=============================================================================
