------------------------ MODULE MirrorPositions_proofs ------------------------
(***************************************************************************)
(* MirrorExecution without faults and with prompt executions, for every    *)
(* set of followers, instrument, policy and number of executions: it       *)
(* implements PositionCopies, and so a follower that only the engine       *)
(* trades for stays within the master's position, or is at it.             *)
(***************************************************************************)
EXTENDS MirrorExecution_proofs

(* The policy is the same one in both specifications.                      *)
LEMMA IdealTerms ==
    /\ Ideal!Sides = Sides /\ Ideal!Executions = Executions
    /\ \A a, b : Ideal!Least(a, b) = Least(a, b)
    /\ \A p : Ideal!Size(p) = Size(p)
    /\ \A p, s : Ideal!Reducible(p, s) = Reducible(p, s)
    /\ \A p, s, q : Ideal!Moved(p, s, q) = Moved(p, s, q)
    /\ \A x : /\ Ideal!IsMirrored(x) <=> IsMirrored(x)
              /\ Ideal!IsClose(x) <=> IsClose(x)
              /\ Ideal!Wanted(x) = Wanted(x)
    /\ \A q, l : Ideal!NormalizeOrderQuantity(q, l) = NormalizeOrderQuantity(q, l)
    /\ \A p, q : Ideal!TowardsZero(p, q) <=> TowardsZero(p, q)
BY DEF Ideal!Sides, Sides, Ideal!Executions, Executions, Ideal!Least, Least, Ideal!Size, Size,
   Ideal!Reducible, Reducible, Ideal!Moved, Moved, Ideal!IsMirrored, IsMirrored,
   Ideal!IsClose, IsClose, Ideal!Wanted, Wanted, Ideal!TowardsZero, TowardsZero,
   Ideal!NormalizeOrderQuantity, NormalizeOrderQuantity, Ideal!Clip, Clip,
   Ideal!RoundDownToStep, RoundDownToStep

(* What a follower asks for, by the kind of execution.                     *)
LEMMA AskedCases ==
    ASSUME NEW p, NEW x
    PROVE  /\ IsClose(x) => Ideal!Asked(p, x) =
                IF Reducible(p, x.side) >= Wanted(x) \/ ClipClose
                THEN Least(Reducible(p, x.side), Wanted(x)) ELSE 0
           /\ ~ IsClose(x) => Ideal!Asked(p, x) =
                IF BlockIfOpen /\ p # 0 THEN 0 ELSE Wanted(x)
BY IdealTerms DEF Ideal!Asked

(* It is a quantity, and for a close no more than there is to close.       *)
LEMMA AskedType ==
    ASSUME NEW p \in Int, NEW x \in Executions
    PROVE  /\ Ideal!Asked(p, x) \in Nat
           /\ Ideal!Asked(p, x) <= Wanted(x)
           /\ IsClose(x) => Ideal!Asked(p, x) <= Reducible(p, x.side)
<1>1. Wanted(x) \in Nat /\ Reducible(p, x.side) \in Nat
  BY WantedType, ReducibleType
<1>. QED  BY <1>1, AskedCases DEF Least

(* What the follower's position becomes.                                   *)
LEMMA OutcomeCases ==
    ASSUME NEW p, NEW x
    PROVE  LET n == NormalizeOrderQuantity(Ideal!Asked(p, x), Lot)
           IN  Ideal!Outcome(p, x) = IF IsMirrored(x) /\ n.valid
                                     THEN Moved(p, x.side, n.qty) ELSE p
BY IdealTerms DEF Ideal!Outcome

(* An order for nothing is not sent.                                       *)
LEMMA NothingIsInvalid == ~ NormalizeOrderQuantity(0, Lot).valid
<1>1. NormalizeOrderQuantity(0, Lot).qty \in Nat /\ NormalizeOrderQuantity(0, Lot).qty <= 0
  BY SizedType
<1>2. NormalizeOrderQuantity(0, Lot).valid => NormalizeOrderQuantity(0, Lot).qty > 0
  BY DEF NormalizeOrderQuantity
<1>. QED  BY <1>1, <1>2

(* A valid order is for something, and for no more than the maximum.       *)
LEMMA ValidQuantity ==
    ASSUME NEW q \in Nat
    PROVE  LET n == NormalizeOrderQuantity(q, Lot)
           IN  /\ n.qty \in 0 .. q /\ n.valid \in BOOLEAN
               /\ n.valid => n.qty > 0
               /\ Lot.capped => n.qty <= Lot.max
<1>. DEFINE v == Clip(q, Lot)
<1>1. Lot.step \in Nat \ {0} /\ Lot.min \in Nat /\ Lot.max \in Nat /\ Lot.capped \in BOOLEAN
  BY MirrorAssumption DEF Specs
<1>2. v \in Nat /\ v <= q /\ (Lot.capped => v <= Lot.max)
  BY <1>1 DEF Clip
<1>. HIDE DEF v
<1>3. RoundDownToStep(v, Lot.step) \in Nat /\ RoundDownToStep(v, Lot.step) <= v
  BY <1>1, <1>2, RoundDownIsLargest
<1>4. /\ NormalizeOrderQuantity(q, Lot).qty = RoundDownToStep(v, Lot.step)
      /\ NormalizeOrderQuantity(q, Lot).valid <=>
            RoundDownToStep(v, Lot.step) > 0 /\ RoundDownToStep(v, Lot.step) >= Lot.min
      /\ NormalizeOrderQuantity(q, Lot).valid \in BOOLEAN
  BY DEF v, NormalizeOrderQuantity
<1>. QED  BY <1>1, <1>2, <1>3, <1>4

(* A position stays a position.                                            *)
LEMMA OutcomeType ==
    ASSUME NEW p \in Int, NEW x \in Executions
    PROVE  Ideal!Outcome(p, x) \in Int
<1>1. NormalizeOrderQuantity(Ideal!Asked(p, x), Lot).qty \in Nat
  BY AskedType, SizedType
<1>. QED  BY <1>1, OutcomeCases, MovedType

-----------------------------------------------------------------------------
(* A step that leaves what belongs to g alone keeps what is known of g.    *)
LEMMA OthersStay ==
    ASSUME TypeOK, TasksInv, NEW g \in Followers, OrderInv(g), PlanInv(g),
           cur' = cur, round' = round, delivered' = delivered,
           cur # 0 => Current' = Current,
           task'[g] = task[g], attempt'[g] = attempt[g], plan'[g] = plan[g],
           wire'[g] = wire[g], book'[g] = book[g], used'[g] = used[g], pos'[g] = pos[g]
    PROVE  OrderInv(g)' /\ PlanInv(g)'
<1>1. task[g] # "idle" => Current' = Current
  BY DEF TasksInv, TaskInv
<1>2. task[g] = "awaiting" => OrderOf(g)' = OrderOf(g)
  BY <1>1 DEF OrderOf
<1>3. OrderInv(g)'
  BY <1>2 DEF OrderInv
<1>4. PlanInv(g)'
  BY <1>1 DEF PlanInv
<1>. QED  BY <1>3, <1>4

(* Without faults a task ends with an empty wire: it skips, or its order   *)
(* has been taken.                                                         *)
LEMMA ReturnKeepsOrder ==
    ASSUME TypeOK, NEW f \in Followers, NEW r, OrderInv(f), Return(f, r),
           UNCHANGED <<delivered, used>>,
           wire'[f] = {}, \A a, b \in book'[f] : a = b
    PROVE  OrderInv(f)' /\ PlanInv(f)'
<1>1. task'[f] = "done"
  BY DEF Return, TypeOK
<1>. QED  BY <1>1 DEF OrderInv, PlanInv

(* A step of the task of f, or of the exchange towards f, disturbs only f. *)
LEMMA OneFollowerMoves ==
    ASSUME TypeOK, TasksInv, PromptInv, NEW f \in Followers,
           UNCHANGED <<master, engine>>,
           \A g \in Followers \ {f} :
              /\ task'[g] = task[g] /\ attempt'[g] = attempt[g] /\ plan'[g] = plan[g]
              /\ wire'[g] = wire[g] /\ book'[g] = book[g] /\ used'[g] = used[g]
              /\ pos'[g] = pos[g],
           OrderInv(f)' /\ PlanInv(f)'
    PROVE  PromptInv'
<1>1. /\ cur' = cur /\ round' = round /\ delivered' = delivered /\ active' = active
      /\ trades' = trades
  BY DEF master, engine
<1>2. Current' = Current
  BY <1>1 DEF Current
<1>3. \A g \in Followers \ {f} : OrderInv(g)' /\ PlanInv(g)'
  BY <1>1, <1>2, OthersStay DEF PromptInv
<1>. QED  BY <1>1, <1>3 DEF PromptInv

(* Nothing is under way for a task that has nothing sent.                  *)
LEMMA ReturnPrompt ==
    ASSUME TypeOK, TasksInv, PromptInv, NEW f \in Followers, NEW r, Return(f, r),
           UNCHANGED <<master, engine, attempt, plan, exchange>>, task[f] # "awaiting"
    PROVE  PromptInv'
<1>1. \A g \in Followers \ {f} : task'[g] = task[g]
  BY DEF Return, TypeOK
<1>2. OrderInv(f)
  BY DEF PromptInv
<1>3. OrderInv(f)' /\ PlanInv(f)'
  BY <1>2, ReturnKeepsOrder DEF OrderInv, exchange, engine
<1>. QED  BY <1>1, <1>3, OneFollowerMoves DEF exchange

(* A task goes on to its next phase, with the quantity of that phase.      *)
LEMMA ContinuePrompt ==
    ASSUME TypeOK, TasksInv, PromptInv, NEW f \in Followers, NEW p, NEW q, NEW n,
           UNCHANGED <<master, engine, exchange>>,
           task[f] \notin {"idle", "done", "awaiting"},
           task' = [task EXCEPT ![f] = p], p \in {"checking", "sizing", "sending"},
           plan' = [plan EXCEPT ![f] = q], attempt' = [attempt EXCEPT ![f] = n],
           p # "checking" => book[f] = {},
           p = "sizing" => q = Ideal!Asked(pos[f], Current),
           p = "sending" =>
              LET a == NormalizeOrderQuantity(Ideal!Asked(pos[f], Current), Lot)
              IN  a.valid /\ q = a.qty
    PROVE  PromptInv'
<1>1. \A g \in Followers \ {f} :
         task'[g] = task[g] /\ plan'[g] = plan[g] /\ attempt'[g] = attempt[g]
  BY DEF TypeOK
<1>2. task'[f] = p /\ plan'[f] = q
  BY DEF TypeOK
<1>3. cur' = cur /\ trades' = trades /\ delivered' = delivered
  BY DEF master, engine
<1>4. Current' = Current /\ pos' = pos /\ book' = book /\ wire' = wire /\ used' = used
  BY <1>3 DEF Current, exchange
<1>5. OrderInv(f)'
  BY <1>2, <1>3, <1>4 DEF PromptInv, OrderInv
<1>6. PlanInv(f)'
  BY <1>2, <1>4 DEF PlanInv
<1>. QED  BY <1>1, <1>4, <1>5, <1>6, OneFollowerMoves DEF exchange

(* The check of an open gives what PositionCopies asks for.                *)
LEMMA CheckOpenPrompt ==
    ASSUME TypeOK, TasksInv, PromptInv, PromptFills, NEW f \in Followers, CheckOpen(f)
    PROVE  /\ PromptInv'
           /\ Return(f, "skipped") => Ideal!Asked(pos[f], Current) = 0
<1>1. /\ task[f] = "checking" /\ book[f] = {} /\ ~ IsClose(Current)
      /\ UNCHANGED <<master, engine, attempt, exchange>>
  BY DEF CheckOpen, Checking
<1>2. CASE BlockIfOpen /\ pos[f] # 0 /\ Return(f, "skipped") /\ UNCHANGED plan
  BY <1>1, <1>2, ReturnPrompt, AskedCases
<1>3. CASE (BlockIfOpen => pos[f] = 0) /\ Proceed(f, Wanted(Current))
  <2>1. Ideal!Asked(pos[f], Current) = Wanted(Current)
    BY <1>1, <1>3, AskedCases
  <2>2. task'[f] = "sizing"
    BY <1>3 DEF Proceed, TypeOK
  <2>3. ~ Return(f, "skipped")
    BY <2>2 DEF Return, TypeOK
  <2>4. attempt' = [attempt EXCEPT ![f] = attempt[f]]
    BY <1>1 DEF TypeOK
  <2>. QED  BY <1>1, <1>3, <2>1, <2>3, <2>4, ContinuePrompt DEF Proceed
<1>. QED  BY <1>2, <1>3 DEF CheckOpen

(* So does the check of a close.                                           *)
LEMMA CheckClosePrompt ==
    ASSUME TypeOK, TasksInv, PromptInv, PromptFills, NEW f \in Followers, CheckClose(f)
    PROVE  /\ PromptInv'
           /\ Return(f, "skipped") => Ideal!Asked(pos[f], Current) = 0
<1>. DEFINE open == Reducible(pos[f], Current.side)
<1>1. /\ task[f] = "checking" /\ book[f] = {} /\ IsClose(Current)
      /\ UNCHANGED <<master, engine, attempt, exchange>>
  BY DEF CheckClose, Checking
<1>2. open \in Nat /\ Wanted(Current) \in Nat
  BY <1>1, CurrentType, ReducibleType DEF TasksInv, TaskInv, TypeOK
<1>3. CASE /\ ~ (open > 0 /\ (open >= Wanted(Current) \/ ClipClose))
           /\ Return(f, "skipped") /\ UNCHANGED plan
  <2>1. Ideal!Asked(pos[f], Current) = 0
    BY <1>1, <1>2, <1>3, AskedCases DEF Least
  <2>. QED  BY <1>1, <1>3, <2>1, ReturnPrompt
<1>4. CASE /\ open > 0 /\ (open >= Wanted(Current) \/ ClipClose)
           /\ Proceed(f, CloseQty(open, Wanted(Current)))
  <2>1. Ideal!Asked(pos[f], Current) = CloseQty(open, Wanted(Current))
    BY <1>1, <1>4, AskedCases DEF CloseQty
  <2>2. task'[f] = "sizing"
    BY <1>4 DEF Proceed, TypeOK
  <2>3. ~ Return(f, "skipped")
    BY <2>2 DEF Return, TypeOK
  <2>4. attempt' = [attempt EXCEPT ![f] = attempt[f]]
    BY <1>1 DEF TypeOK
  <2>. QED  BY <1>1, <1>4, <2>1, <2>3, <2>4, ContinuePrompt DEF Proceed
<1>. QED  BY <1>3, <1>4 DEF CheckClose

(* Sizing skips what cannot be an order.                                   *)
LEMMA SizeOrderPrompt ==
    ASSUME TypeOK, TasksInv, PromptInv, NEW f \in Followers, SizeOrder(f)
    PROVE  /\ PromptInv'
           /\ Return(f, "skipped") =>
                 ~ NormalizeOrderQuantity(Ideal!Asked(pos[f], Current), Lot).valid
<1>. DEFINE n == NormalizeOrderQuantity(plan[f], Lot)
<1>1. /\ task[f] = "sizing" /\ UNCHANGED <<master, engine, exchange>>
      /\ plan[f] = Ideal!Asked(pos[f], Current) /\ book[f] = {}
  BY DEF SizeOrder, PromptInv, PlanInv, OrderInv
<1>. HIDE DEF n
<1>2. CASE ~ n.valid /\ Return(f, "skipped") /\ UNCHANGED <<plan, attempt>>
  BY <1>1, <1>2, ReturnPrompt DEF n
<1>3. CASE /\ n.valid
           /\ task' = [task EXCEPT ![f] = "sending"]
           /\ plan' = [plan EXCEPT ![f] = n.qty]
           /\ attempt' = [attempt EXCEPT ![f] = 1]
  <2>1. task'[f] = "sending"
    BY <1>3 DEF TypeOK
  <2>2. ~ Return(f, "skipped")
    BY <2>1 DEF Return, TypeOK
  <2>3. n.qty = NormalizeOrderQuantity(Ideal!Asked(pos[f], Current), Lot).qty /\ n.valid
        /\ NormalizeOrderQuantity(Ideal!Asked(pos[f], Current), Lot).valid
    BY <1>1, <1>3 DEF n
  <2>. QED  BY <1>1, <1>3, <2>2, <2>3, ContinuePrompt
<1>. QED  BY <1>2, <1>3 DEF SizeOrder, n

(* What is sent is what was sized.                                         *)
LEMMA SendPrompt ==
    ASSUME TypeOK, TasksInv, PromptInv, NEW f \in Followers, Send(f)
    PROVE  PromptInv'
<1>1. /\ task[f] = "sending" /\ task' = [task EXCEPT ![f] = "awaiting"]
      /\ wire' = [wire EXCEPT ![f] = @ \cup {OrderOf(f)}]
      /\ UNCHANGED <<master, engine, attempt, plan, book, used, pos>>
  BY DEF Send
<1>2. \A g \in Followers \ {f} : task'[g] = task[g] /\ wire'[g] = wire[g]
  BY <1>1 DEF TypeOK
<1>3. task'[f] = "awaiting" /\ wire'[f] = {OrderOf(f)}
  BY <1>1 DEF TypeOK, PromptInv, OrderInv
<1>4. cur' = cur /\ round' = round /\ trades' = trades /\ delivered' = delivered
  BY <1>1 DEF master, engine
<1>5. Current' = Current /\ OrderOf(f)' = OrderOf(f)
  BY <1>1, <1>4 DEF Current, OrderOf
<1>6. OrderInv(f)'
  BY <1>1, <1>3, <1>4, <1>5 DEF PromptInv, OrderInv
<1>7. PlanInv(f)'
  BY <1>1, <1>3, <1>5 DEF PromptInv, PlanInv
<1>. QED  BY <1>1, <1>2, <1>6, <1>7, OneFollowerMoves

(* What the exchange handles is the request a task is waiting for.         *)
LEMMA RequestIsAwaited ==
    ASSUME TypeOK, TasksInv, PromptInv, NEW f \in Followers, NEW r \in wire[f]
    PROVE  /\ r = OrderOf(f) /\ wire[f] = {r} /\ task[f] = "awaiting" /\ Awaits(f, r)
           /\ cur # 0 /\ LinkId(r) = cur /\ cur \notin used[f] /\ book[f] = {}
           /\ LET n == NormalizeOrderQuantity(Ideal!Asked(pos[f], Current), Lot)
              IN  n.valid /\ r.qty = n.qty
<1>1. OrderInv(f) /\ PlanInv(f)
  BY DEF PromptInv
<1>2. task[f] = "awaiting" /\ wire[f] = {OrderOf(f)} /\ r = OrderOf(f)
  BY <1>1 DEF OrderInv
<1>3. cur # 0 /\ cur \notin used[f] /\ book[f] = {}
  BY <1>1, <1>2 DEF OrderInv, TasksInv, TaskInv
<1>. QED  BY <1>1, <1>2, <1>3 DEF Awaits, LinkId, OrderOf, PlanInv

(* It is accepted, and the task ends with the acknowledgement.             *)
LEMMA AcceptPrompt ==
    ASSUME TypeOK, TasksInv, PromptInv, ~ Faults,
           NEW f \in Followers, NEW r \in wire[f], Accept(f, r)
    PROVE  PromptInv' /\ book'[f] = {r} /\ Return(f, "submitted")
<1>1. /\ wire[f] = {r} /\ Awaits(f, r) /\ LinkId(r) = cur /\ book[f] = {}
      /\ task[f] = "awaiting" /\ cur # 0
  BY RequestIsAwaited
<1>2. /\ Return(f, "submitted")
      /\ wire' = [wire EXCEPT ![f] = @ \ {r}]
      /\ book' = [book EXCEPT ![f] = @ \cup {r}]
      /\ used' = [used EXCEPT ![f] = @ \cup {cur}]
      /\ UNCHANGED <<master, engine, attempt, plan, pos>>
  BY <1>1 DEF Accept, Consume
<1>3. \A g \in Followers \ {f} :
         /\ task'[g] = task[g] /\ wire'[g] = wire[g]
         /\ book'[g] = book[g] /\ used'[g] = used[g]
  BY <1>2 DEF Return, TypeOK
<1>4. /\ task'[f] = "done" /\ wire'[f] = {} /\ book'[f] = {r}
      /\ used'[f] = used[f] \cup {cur}
  BY <1>1, <1>2 DEF Return, TypeOK
<1>5. delivered' = delivered /\ cur' = cur /\ cur <= delivered
  <2>1. delivered \in Nat
    BY DEF TypeOK
  <2>. QED  BY <1>1, <1>2, <2>1 DEF engine, PromptInv
<1>6. OrderInv(f)' /\ PlanInv(f)'
  BY <1>4, <1>5 DEF PromptInv, OrderInv, PlanInv
<1>. QED  BY <1>2, <1>3, <1>4, <1>6, OneFollowerMoves

(* Nothing is refused.                                                     *)
LEMMA NothingRefused ==
    ASSUME TypeOK, TasksInv, PromptInv, ~ Faults,
           NEW f \in Followers, NEW r \in wire[f]
    PROVE  ~ Reject(f, r) /\ ~ Busy(f, r) /\ ~ Drop(f, r)
BY RequestIsAwaited DEF Reject, Busy, Drop

(* An order is executed when its task is through.                          *)
LEMMA FillPrompt ==
    ASSUME TypeOK, TasksInv, PromptInv, NEW f \in Followers, NEW r \in book[f], Fill(f, r)
    PROVE  PromptInv' /\ book[f] = {r} /\ book'[f] = {}
<1>1. /\ book' = [book EXCEPT ![f] = @ \ {r}]
      /\ pos' = [pos EXCEPT ![f] = Moved(@, r.side, FillQty(f, r))]
      /\ UNCHANGED <<master, engine, tasks, wire, used>>
  BY DEF Fill
<1>2. OrderInv(f)
  BY DEF PromptInv
<1>3. book[f] = {r} /\ book'[f] = {}
  BY <1>1, <1>2 DEF OrderInv, TypeOK
<1>4. task[f] \notin {"sizing", "sending", "awaiting"} /\ wire[f] = {}
  BY <1>2 DEF OrderInv
<1>5. cur' = cur /\ delivered' = delivered /\ task' = task
  BY <1>1 DEF engine, tasks
<1>6. OrderInv(f)' /\ PlanInv(f)'
  BY <1>1, <1>2, <1>3, <1>4, <1>5 DEF OrderInv, PlanInv
<1>7. \A g \in Followers \ {f} : book'[g] = book[g] /\ pos'[g] = pos[g]
  BY <1>1 DEF TypeOK
<1>. QED  BY <1>1, <1>3, <1>6, <1>7, OneFollowerMoves DEF tasks

(* Between two executions every task is idle and nothing is sent.          *)
LEMMA IdleBetween ==
    ASSUME TasksInv, PromptInv, cur = 0
    PROVE  \A f \in Followers : task[f] = "idle" /\ wire[f] = {}
BY DEF TasksInv, TaskInv, PromptInv, OrderInv

(* The next execution is new to every follower.                            *)
LEMMA DeliverPrompt ==
    ASSUME TypeOK, TasksInv, PromptInv, ~ Faults, NEW e \in DOMAIN trades, Deliver(e)
    PROVE  PromptInv' /\ e = delivered + 1
<1>1. /\ cur = 0 /\ e = delivered + 1 /\ delivered' = e /\ delivered \in Nat
      /\ active' = active /\ active = Followers
      /\ UNCHANGED <<wire, book, used, pos>>
  BY DEF Deliver, exchange, TypeOK, PromptInv
<1>2. \A f \in Followers : /\ task[f] = "idle" /\ wire[f] = {}
                           /\ \A r, s \in book[f] : r = s
                           /\ \A k \in used[f] : k \in Nat /\ k <= delivered
  BY <1>1, IdleBetween DEF PromptInv, OrderInv, TypeOK
<1>3. CASE IsMirrored(trades[e])
  <2>1. cur' = e /\ \A f \in Followers : task'[f] = "waiting"
    BY <1>1, <1>3 DEF Deliver, Dispatch
  <2>2. ASSUME NEW f \in Followers
        PROVE  OrderInv(f)' /\ PlanInv(f)'
    <3>1. \A k \in used'[f] : k <= delivered' /\ k # cur'
      BY <1>1, <1>2, <2>1
    <3>2. task'[f] = "waiting" /\ wire'[f] = {} /\ \A r, s \in book'[f] : r = s
      BY <1>1, <1>2, <2>1
    <3>. QED  BY <3>1, <3>2 DEF OrderInv, PlanInv
  <2>. QED  BY <1>1, <2>1, <2>2 DEF PromptInv
<1>4. CASE ~ IsMirrored(trades[e])
  <2>1. cur' = 0 /\ task' = task
    BY <1>1, <1>4 DEF Deliver, Dispatch
  <2>2. ASSUME NEW f \in Followers
        PROVE  OrderInv(f)' /\ PlanInv(f)'
    <3>1. \A k \in used'[f] : k <= delivered'
      BY <1>1, <1>2
    <3>2. task'[f] = "idle" /\ wire'[f] = {} /\ \A r, s \in book'[f] : r = s
      BY <1>1, <1>2, <2>1
    <3>. QED  BY <2>1, <3>1, <3>2 DEF OrderInv, PlanInv
  <2>. QED  BY <1>1, <2>1, <2>2 DEF PromptInv
<1>. QED  BY <1>3, <1>4

(* Every task has ended.                                                   *)
LEMMA FinishPrompt ==
    ASSUME TypeOK, PromptInv, Finish
    PROVE  PromptInv'
<1>1. /\ cur' = 0 /\ delivered' = delivered /\ active' = active
      /\ UNCHANGED <<wire, book, used, pos>>
  BY DEF Finish, exchange
<1>2. \A f \in Followers : task[f] = "done" /\ task'[f] = "idle"
  BY DEF Finish, PromptInv
<1>3. \A f \in Followers : OrderInv(f)' /\ PlanInv(f)'
  BY <1>1, <1>2 DEF PromptInv, OrderInv, PlanInv
<1>. QED  BY <1>1, <1>3 DEF PromptInv

(* The master's trades do not touch the executions under way.              *)
LEMMA TradePrompt ==
    ASSUME TypeOK, TasksInv, PromptInv,
           NEW type \in ExecTypes, NEW s \in Sides, NEW q \in 1 .. MaxQty,
           MasterTrade(type, s, q)
    PROVE  PromptInv'
<1>1. UNCHANGED <<engine, tasks, exchange>>
  BY DEF MasterTrade
<1>2. cur # 0 => Current' = Current
  BY <1>1, AppendKeeps, CurrentType DEF Current, engine
<1>3. \A g \in Followers : OrderInv(g)' /\ PlanInv(g)'
  BY <1>1, <1>2, OthersStay DEF PromptInv, engine, tasks, exchange
<1>. QED  BY <1>1, <1>3 DEF PromptInv, engine

(* It holds initially: startup accepts every follower.                     *)
LEMMA InitPrompt == ~ Faults /\ Init => PromptInv
<1>. SUFFICES ASSUME ~ Faults, Init PROVE PromptInv
  OBVIOUS
<1>1. active = Followers /\ cur = 0
  BY DEF Init, Validations
<1>2. \A f \in Followers :
         task[f] = "idle" /\ wire[f] = {} /\ book[f] = {} /\ used[f] = {}
  BY DEF Init
<1>. QED  BY <1>1, <1>2 DEF PromptInv, OrderInv, PlanInv

(* Every step keeps it: one case per action.                               *)
LEMMA StepPrompt ==
    ASSUME ~ Faults, PromptFills, TypeOK, TasksInv, PromptInv, [Next]_vars
    PROVE  PromptInv'
<1>1. ASSUME NEW type \in ExecTypes, NEW s \in Sides, NEW q \in 1 .. MaxQty,
             MasterTrade(type, s, q)
      PROVE  PromptInv'
  BY <1>1, TradePrompt
<1>2. ASSUME NEW e \in DOMAIN trades, Deliver(e)
      PROVE  PromptInv'
  BY <1>2, DeliverPrompt
<1>3. ASSUME NEW f \in Followers, Start(f)
      PROVE  PromptInv'
  <2>1. plan' = [plan EXCEPT ![f] = plan[f]] /\ attempt' = [attempt EXCEPT ![f] = attempt[f]]
    BY <1>3 DEF Start, TypeOK
  <2>2. /\ task[f] = "waiting" /\ task' = [task EXCEPT ![f] = "checking"]
        /\ UNCHANGED <<master, engine, exchange>>
    BY <1>3 DEF Start
  <2>. QED  BY <2>1, <2>2, ContinuePrompt
<1>4. ASSUME NEW f \in Followers, CheckOpen(f)
      PROVE  PromptInv'
  BY <1>4, CheckOpenPrompt
<1>5. ASSUME NEW f \in Followers, CheckClose(f)
      PROVE  PromptInv'
  BY <1>5, CheckClosePrompt
<1>6. ASSUME NEW f \in Followers, SizeOrder(f)
      PROVE  PromptInv'
  BY <1>6, SizeOrderPrompt
<1>7. ASSUME NEW f \in Followers, Send(f)
      PROVE  PromptInv'
  BY <1>7, SendPrompt
<1>8. ASSUME NEW f \in Followers, NEW r \in wire[f], Handles(f, r)
      PROVE  PromptInv'
  BY <1>8, AcceptPrompt, NothingRefused DEF Handles
<1>9. ASSUME NEW f \in Followers, NEW r \in book[f], Fill(f, r)
      PROVE  PromptInv'
  BY <1>9, FillPrompt
<1>10. CASE Finish
  BY <1>10, FinishPrompt
<1>11. CASE UNCHANGED vars
  <2>1. UNCHANGED <<master, engine, tasks, exchange>>
    BY <1>11 DEF vars
  <2>2. UNCHANGED <<trades, cur, round, delivered, active>>
    BY <2>1 DEF master, engine
  <2>3. \A g \in Followers : OrderInv(g)' /\ PlanInv(g)'
    BY <2>1, <2>2, OthersStay DEF PromptInv, Current, tasks, exchange
  <2>. QED  BY <2>2, <2>3 DEF PromptInv
<1>12. /\ \A e \in DOMAIN trades : ~ Redeliver(e)
       /\ \A f \in Followers : ~ PositionCheckFails(f) /\ ~ SizingFails(f) /\ ~ Timeout(f)
       /\ \A f \in Followers, s \in Sides, q \in 1 .. MaxQty : ~ ManualTrade(f, s, q)
       /\ ~ Restart
  BY DEF Redeliver, ManualTrade, Restart, Mishap, PositionCheckFails, SizingFails, Timeout
<1>. QED
  BY <1>1, <1>2, <1>3, <1>4, <1>5, <1>6, <1>7, <1>8, <1>9, <1>10, <1>11, <1>12
     DEF Next, TaskStep

(* It holds of every behaviour.                                            *)
LEMMA PromptInvariant ==
    ASSUME ~ Faults, PromptFills
    PROVE  Spec => [](TypeOK /\ MirrorInv /\ PromptInv)
<1>1. Init => PromptInv
  BY InitPrompt
<1>2. TypeOK /\ MirrorInv /\ PromptInv /\ [Next]_vars => PromptInv'
  BY StepPrompt DEF MirrorInv
<1>. QED  BY <1>1, <1>2, MirrorInvariant, PTL DEF Spec

-----------------------------------------------------------------------------
(* The refinement.  Who does not move, and whose position does not, stays  *)
(* where it is in the abstract state.                                      *)
LEMMA ThroughStays == UNCHANGED <<delivered, cur, task>> => Through' = Through
BY DEF Through

(* The same for the position to be.                                        *)
LEMMA PosToBeStays == UNCHANGED <<book, pos>> => PosToBe' = PosToBe
BY DEF PosToBe, FillQty

(* The same for a single follower.                                         *)
LEMMA OtherPosToBe ==
    ASSUME NEW g \in Followers, book'[g] = book[g], pos'[g] = pos[g]
    PROVE  PosToBe'[g] = PosToBe[g]
<1>. DEFINE Only(b)   == CHOOSE r \in b : TRUE
            ToBe(b, p) == IF b = {} THEN p
                          ELSE Moved(p, Only(b).side,
                                     IF Only(b).reduceOnly
                                     THEN Least(Only(b).qty, Reducible(p, Only(b).side))
                                     ELSE Only(b).qty)
<1>1. PosToBe[g] = ToBe(book[g], pos[g])
  BY DEF PosToBe, FillQty
<1>2. PosToBe'[g] = ToBe(book'[g], pos'[g])
  BY DEF PosToBe, FillQty
<1>. HIDE DEF ToBe
<1>. QED  BY <1>1, <1>2

(* The only member of a set is the one CHOOSE takes.                       *)
LEMMA ChooseOnly ==
    ASSUME NEW r
    PROVE  (CHOOSE x \in {r} : TRUE) = r
OBVIOUS

(* With one order on the book, or none, the position to be is known.       *)
LEMMA PosToBeIs ==
    ASSUME NEW f \in Followers
    PROVE  /\ book[f] = {} => PosToBe[f] = pos[f]
           /\ \A r : book[f] = {r} => PosToBe[f] = Moved(pos[f], r.side, FillQty(f, r))
<1>1. ASSUME NEW r, book[f] = {r}
      PROVE  PosToBe[f] = Moved(pos[f], r.side, FillQty(f, r))
  BY <1>1, ChooseOnly DEF PosToBe
<1>. QED  BY <1>1 DEF PosToBe

(* The same after a step.                                                  *)
LEMMA NextPosToBeIs ==
    ASSUME NEW f \in Followers
    PROVE  /\ book'[f] = {} => PosToBe'[f] = pos'[f]
           /\ \A r : book'[f] = {r} => PosToBe'[f] = Moved(pos'[f], r.side, FillQty(f, r)')
<1>1. ASSUME NEW r, book'[f] = {r}
      PROVE  PosToBe'[f] = Moved(pos'[f], r.side, FillQty(f, r)')
  BY <1>1, ChooseOnly DEF PosToBe
<1>. QED  BY <1>1 DEF PosToBe

(* The master's step.                                                      *)
LEMMA TradeIsTrade ==
    ASSUME NEW type \in ExecTypes, NEW s \in Sides, NEW q \in 1 .. MaxQty,
           MasterTrade(type, s, q)
    PROVE  Ideal!Trade(type, s, q)
<1>1. UNCHANGED <<delivered, cur, task, book, pos>>
  BY DEF MasterTrade, engine, tasks, exchange
<1>2. Through' = Through /\ PosToBe' = PosToBe
  BY <1>1, ThroughStays, PosToBeStays
<1>. QED  BY <1>2, IdealTerms DEF MasterTrade, masterPos, Ideal!Trade

(* The end of a task is the copy of its execution.                         *)
LEMMA EndIsCopy ==
    ASSUME TypeOK, TasksInv, PromptInv, NEW f \in Followers, NEW r,
           UNCHANGED <<master, engine>>, Return(f, r), task[f] \notin {"idle", "done"},
           PosToBe' = [g \in Followers |-> IF g = f THEN Ideal!Outcome(PosToBe[f], Current)
                                                    ELSE PosToBe[g]]
    PROVE  Ideal!Copy({f})
<1>1. cur # 0 /\ cur = delivered /\ delivered \in 1 .. Len(trades)
  BY DEF TasksInv, TaskInv, PromptInv, TypeOK
<1>2. cur' = cur /\ delivered' = delivered
  BY DEF engine
<1>3. Through[f] = delivered - 1
  BY <1>1 DEF Through
<1>4. Through' = [g \in Followers |-> IF g \in {f} THEN Through[g] + 1 ELSE Through[g]]
  <2>1. \A g \in Followers : task'[g] = IF g = f THEN "done" ELSE task[g]
    BY DEF Return, TypeOK
  <2>2. \A g \in Followers :
           Through'[g] = IF g = f THEN delivered ELSE Through[g]
    BY <1>1, <1>2, <2>1 DEF Through
  <2>3. delivered = (delivered - 1) + 1
    BY <1>1
  <2>4. /\ Through = [g \in Followers |-> Through[g]]
        /\ Through' = [g \in Followers |-> Through'[g]]
    BY DEF Through
  <2>. QED  BY <1>3, <2>2, <2>3, <2>4
<1>5. Ideal!Upcoming(f) = Current
  BY <1>1, <1>3 DEF Ideal!Upcoming, Current
<1>6. Through[f] < Len(trades)
  BY <1>1, <1>3 DEF TypeOK
<1>7. PosToBe' = [g \in Followers |-> IF g \in {f} THEN Ideal!Outcome(PosToBe[g], Ideal!Upcoming(g))
                                      ELSE PosToBe[g]]
  BY <1>5
<1>. QED  BY <1>4, <1>6, <1>7 DEF Ideal!Copy, master

(* A task that skips does so where PositionCopies trades nothing.          *)
LEMMA SkipIsCopy ==
    ASSUME TypeOK, TasksInv, PromptInv, NEW f \in Followers, NEW r,
           UNCHANGED <<master, engine, exchange>>, Return(f, r),
           task[f] \notin {"idle", "done"}, book[f] = {},
           ~ NormalizeOrderQuantity(Ideal!Asked(pos[f], Current), Lot).valid
    PROVE  Ideal!Copy({f})
<1>1. PosToBe' = PosToBe
  BY PosToBeStays DEF exchange
<1>2. PosToBe[f] = pos[f] /\ Ideal!Outcome(pos[f], Current) = pos[f]
  BY PosToBeIs, OutcomeCases
<1>3. PosToBe = [g \in Followers |-> PosToBe[g]]
  BY DEF PosToBe
<1>. QED  BY <1>1, <1>2, <1>3, EndIsCopy

(* The order taken is the one PositionCopies trades.                       *)
LEMMA AcceptIsCopy ==
    ASSUME TypeOK, TasksInv, PromptInv, ~ Faults,
           NEW f \in Followers, NEW r \in wire[f], Accept(f, r)
    PROVE  Ideal!Copy({f})
<1>. DEFINE asked == Ideal!Asked(pos[f], Current)
            n == NormalizeOrderQuantity(asked, Lot)
<1>1. /\ r = OrderOf(f) /\ task[f] = "awaiting" /\ cur # 0 /\ book[f] = {}
      /\ n.valid /\ r.qty = n.qty
  BY RequestIsAwaited
<1>2. book'[f] = {r} /\ Return(f, "submitted")
  BY AcceptPrompt
<1>3. pos' = pos /\ UNCHANGED <<master, engine>> /\ book' = [book EXCEPT ![f] = @ \cup {r}]
  BY DEF Accept
<1>4. Current \in Executions /\ IsMirrored(Current) /\ pos[f] \in Int
  BY <1>1, CurrentType DEF TasksInv, TypeOK
<1>5. /\ r.side = Current.side /\ r.reduceOnly = IsClose(Current)
  BY <1>1 DEF OrderOf
<1>6. asked \in Nat /\ (IsClose(Current) => asked <= Reducible(pos[f], Current.side))
  BY <1>4, AskedType
<1>7. n.qty \in Nat /\ n.qty <= asked
  BY <1>6, SizedType
<1>8. Reducible(pos[f], Current.side) \in Nat
  BY <1>4, ReducibleType
<1>. HIDE DEF asked, n
<1>9. FillQty(f, r)' = n.qty
  BY <1>1, <1>3, <1>5, <1>6, <1>7, <1>8 DEF FillQty, Least
<1>10. PosToBe'[f] = Moved(pos[f], Current.side, n.qty)
  BY <1>2, <1>3, <1>5, <1>9, NextPosToBeIs
<1>11. PosToBe'[f] = Ideal!Outcome(PosToBe[f], Current)
  BY <1>1, <1>4, <1>10, PosToBeIs, OutcomeCases DEF n, asked
<1>12. \A g \in Followers \ {f} : PosToBe'[g] = PosToBe[g]
  <2>1. \A g \in Followers \ {f} : book'[g] = book[g] /\ pos'[g] = pos[g]
    BY <1>3 DEF TypeOK
  <2>. QED  BY <2>1, OtherPosToBe
<1>13. PosToBe' = [g \in Followers |-> IF g = f THEN Ideal!Outcome(PosToBe[f], Current)
                                                ELSE PosToBe[g]]
  <2>1. PosToBe' = [g \in Followers |-> PosToBe'[g]]
    BY DEF PosToBe
  <2>. QED  BY <1>11, <1>12, <2>1
<1>. QED  BY <1>1, <1>2, <1>3, <1>13, EndIsCopy

(* A delivery hands the next execution to all followers, or ignores it for *)
(* all of them.                                                            *)
LEMMA DeliverIsCopy ==
    ASSUME TypeOK, TasksInv, PromptInv, ~ Faults, NEW e \in DOMAIN trades, Deliver(e)
    PROVE  Ideal!Copy(Followers) \/ UNCHANGED <<Through, PosToBe>>
<1>1. /\ cur = 0 /\ e = delivered + 1 /\ delivered' = e /\ e \in 1 .. Len(trades)
      /\ delivered \in Nat /\ active = Followers /\ UNCHANGED <<master, exchange>>
  BY DeliverPrompt DEF Deliver, TypeOK, PromptInv
<1>2. PosToBe' = PosToBe
  BY <1>1, PosToBeStays DEF exchange
<1>3. \A f \in Followers : Through[f] = delivered
  BY <1>1 DEF Through
<1>4. CASE IsMirrored(trades[e])
  <2>1. cur' = e /\ \A f \in Followers : task'[f] = "waiting"
    BY <1>1, <1>4 DEF Deliver, Dispatch
  <2>2. \A f \in Followers : Through'[f] = delivered
    BY <1>1, <2>1 DEF Through
  <2>3. Through' = Through
    BY <1>3, <2>2 DEF Through
  <2>. QED  BY <1>2, <2>3
<1>5. CASE ~ IsMirrored(trades[e])
  <2>1. cur' = 0
    BY <1>1, <1>5 DEF Deliver, Dispatch
  <2>2. Through' = [f \in Followers |-> Through[f] + 1]
    BY <1>1, <1>3, <2>1 DEF Through
  <2>3. \A f \in Followers : Ideal!Outcome(PosToBe[f], Ideal!Upcoming(f)) = PosToBe[f]
    BY <1>1, <1>3, <1>5, OutcomeCases DEF Ideal!Upcoming
  <2>4. PosToBe' = [f \in Followers |-> Ideal!Outcome(PosToBe[f], Ideal!Upcoming(f))]
    BY <1>2, <2>3 DEF PosToBe
  <2>5. \A f \in Followers : Through[f] < Len(trades)
    BY <1>1, <1>3
  <2>. QED  BY <1>1, <2>2, <2>4, <2>5 DEF Ideal!Copy, master
<1>. QED  BY <1>4, <1>5

(* The execution of an order was counted when the order was taken.         *)
LEMMA FillIsStutter ==
    ASSUME TypeOK, TasksInv, PromptInv, NEW f \in Followers, NEW r \in book[f], Fill(f, r)
    PROVE  UNCHANGED <<trades, masterPath, Through, PosToBe>>
<1>1. /\ book[f] = {r} /\ book'[f] = {}
      /\ pos' = [pos EXCEPT ![f] = Moved(@, r.side, FillQty(f, r))]
      /\ book' = [book EXCEPT ![f] = @ \ {r}]
      /\ UNCHANGED <<master, engine, tasks>>
  BY FillPrompt DEF Fill
<1>2. Through' = Through
  BY <1>1, ThroughStays DEF engine, tasks
<1>3. PosToBe'[f] = PosToBe[f]
  <2>1. pos'[f] = Moved(pos[f], r.side, FillQty(f, r))
    BY <1>1 DEF TypeOK
  <2>. QED  BY <1>1, <2>1, PosToBeIs, NextPosToBeIs
<1>4. \A g \in Followers \ {f} : PosToBe'[g] = PosToBe[g]
  <2>1. \A g \in Followers \ {f} : book'[g] = book[g] /\ pos'[g] = pos[g]
    BY <1>1 DEF TypeOK
  <2>. QED  BY <2>1, OtherPosToBe
<1>5. PosToBe' = PosToBe
  <2>1. /\ PosToBe = [g \in Followers |-> PosToBe[g]]
        /\ PosToBe' = [g \in Followers |-> PosToBe'[g]]
    BY DEF PosToBe
  <2>. QED  BY <1>3, <1>4, <2>1
<1>. QED  BY <1>1, <1>2, <1>5 DEF master

(* When all tasks have ended, all are through with the same executions.    *)
LEMMA FinishIsStutter ==
    ASSUME PromptInv, Finish
    PROVE  UNCHANGED <<trades, masterPath, Through, PosToBe>>
<1>1. /\ cur' = 0 /\ delivered' = delivered /\ \A f \in Followers : task[f] = "done"
      /\ UNCHANGED <<master, exchange>>
  BY DEF Finish, PromptInv
<1>2. Through' = Through
  BY <1>1 DEF Through
<1>3. PosToBe' = PosToBe
  BY <1>1, PosToBeStays DEF exchange
<1>. QED  BY <1>1, <1>2, <1>3 DEF master

(* The steps of a task before its end are not seen.                        *)
LEMMA TaskIsStutter ==
    ASSUME TypeOK, TasksInv, NEW f \in Followers, NEW p,
           UNCHANGED <<master, engine, book, pos>>,
           task[f] # "done", task' = [task EXCEPT ![f] = p], p # "done"
    PROVE  UNCHANGED <<trades, masterPath, Through, PosToBe>>
<1>1. cur' = cur /\ delivered' = delivered
  BY DEF engine
<1>2. \A g \in Followers : task'[g] = "done" <=> task[g] = "done"
  BY DEF TypeOK
<1>3. Through' = Through
  BY <1>1, <1>2 DEF Through
<1>. QED  BY <1>3, PosToBeStays DEF master

(* The step of a task is the copy of its execution, or is not seen.        *)
LEMMA TaskSteps ==
    ASSUME TypeOK, TasksInv, PromptInv, PromptFills, ~ Faults,
           NEW f \in Followers, TaskStep(f)
    PROVE  Ideal!Copy({f}) \/ UNCHANGED <<trades, masterPath, Through, PosToBe>>
<1>1. CASE Start(f) \/ Send(f)
  BY <1>1, TaskIsStutter DEF Start, Send, exchange
<1>2. CASE CheckOpen(f)
  <2>1. /\ task[f] = "checking" /\ book[f] = {} /\ UNCHANGED <<master, engine, exchange>>
        /\ Return(f, "skipped") \/ Proceed(f, Wanted(Current))
    BY <1>2 DEF CheckOpen, Checking
  <2>2. CASE Return(f, "skipped")
    BY <1>2, <2>1, <2>2, CheckOpenPrompt, NothingIsInvalid, SkipIsCopy
  <2>3. CASE Proceed(f, Wanted(Current))
    BY <2>1, <2>3, TaskIsStutter DEF Proceed, exchange
  <2>. QED  BY <2>1, <2>2, <2>3
<1>3. CASE CheckClose(f)
  <2>. DEFINE q == CloseQty(Reducible(pos[f], Current.side), Wanted(Current))
  <2>1. /\ task[f] = "checking" /\ book[f] = {} /\ UNCHANGED <<master, engine, exchange>>
        /\ Return(f, "skipped") \/ Proceed(f, q)
    BY <1>3 DEF CheckClose, Checking
  <2>2. CASE Return(f, "skipped")
    BY <1>3, <2>1, <2>2, CheckClosePrompt, NothingIsInvalid, SkipIsCopy
  <2>. HIDE DEF q
  <2>3. CASE Proceed(f, q)
    BY <2>1, <2>3, TaskIsStutter DEF Proceed, exchange
  <2>. QED  BY <2>1, <2>2, <2>3
<1>4. CASE SizeOrder(f)
  <2>1. /\ task[f] = "sizing" /\ book[f] = {} /\ UNCHANGED <<master, engine, exchange>>
        /\ Return(f, "skipped") \/ task' = [task EXCEPT ![f] = "sending"]
    BY <1>4 DEF SizeOrder, PromptInv, OrderInv
  <2>2. CASE Return(f, "skipped")
    BY <1>4, <2>1, <2>2, SizeOrderPrompt, SkipIsCopy
  <2>3. CASE task' = [task EXCEPT ![f] = "sending"]
    BY <2>1, <2>3, TaskIsStutter DEF exchange
  <2>. QED  BY <2>1, <2>2, <2>3
<1>5. ~ PositionCheckFails(f) /\ ~ SizingFails(f) /\ ~ Timeout(f)
  BY DEF PositionCheckFails, SizingFails, Timeout
<1>. QED  BY <1>1, <1>2, <1>3, <1>4, <1>5 DEF TaskStep

(* Every step is a step or a stutter of PositionCopies.                    *)
LEMMA StepIdeal ==
    ASSUME TypeOK, TasksInv, PromptInv, PromptFills, ~ Faults, [Next]_vars
    PROVE  [Ideal!Next]_(Ideal!vars)
<1>. SUFFICES Ideal!Next \/ UNCHANGED <<trades, masterPath, Through, PosToBe>>
  BY DEF Ideal!vars
<1>1. ASSUME NEW type \in ExecTypes, NEW s \in Sides, NEW q \in 1 .. MaxQty,
             MasterTrade(type, s, q)
      PROVE  Ideal!Next
  BY <1>1, TradeIsTrade, IdealTerms DEF Ideal!Next
<1>2. ASSUME NEW e \in DOMAIN trades, Deliver(e)
      PROVE  Ideal!Next \/ UNCHANGED <<trades, masterPath, Through, PosToBe>>
  BY <1>2, DeliverIsCopy DEF Ideal!Next, Deliver, master
<1>3. ASSUME NEW f \in Followers, TaskStep(f)
      PROVE  Ideal!Next \/ UNCHANGED <<trades, masterPath, Through, PosToBe>>
  BY <1>3, TaskSteps DEF Ideal!Next
<1>4. ASSUME NEW f \in Followers, NEW r \in wire[f], Handles(f, r)
      PROVE  Ideal!Next
  BY <1>4, AcceptIsCopy, NothingRefused DEF Handles, Ideal!Next
<1>5. ASSUME NEW f \in Followers, NEW r \in book[f], Fill(f, r)
      PROVE  UNCHANGED <<trades, masterPath, Through, PosToBe>>
  BY <1>5, FillIsStutter
<1>6. CASE Finish
  BY <1>6, FinishIsStutter
<1>7. CASE UNCHANGED vars
  BY <1>7, ThroughStays, PosToBeStays DEF vars, master, engine, tasks, exchange
<1>8. /\ \A e \in DOMAIN trades : ~ Redeliver(e)
      /\ \A f \in Followers, s \in Sides, q \in 1 .. MaxQty : ~ ManualTrade(f, s, q)
      /\ ~ Restart
  BY DEF Redeliver, ManualTrade, Restart, Mishap
<1>. QED  BY <1>1, <1>2, <1>3, <1>4, <1>5, <1>6, <1>7, <1>8 DEF Next

(* Without faults and with prompt executions, the mirroring implements     *)
(* PositionCopies: the interleaving of the tasks, the exchange and the     *)
(* master does not show in the followers' positions.                       *)
THEOREM CopiesAreSteps ==
    ASSUME ~ Faults, PromptFills
    PROVE  Spec => CopiesInSteps
<1>1. Init => Ideal!Init
  <2>1. Init => Through = [f \in Followers |-> 0] /\ PosToBe = [f \in Followers |-> 0]
    BY DEF Init, Through, PosToBe
  <2>. QED  BY <2>1 DEF Init, Ideal!Init
<1>2. TypeOK /\ MirrorInv /\ PromptInv /\ [Next]_vars => [Ideal!Next]_(Ideal!vars)
  BY StepIdeal DEF MirrorInv
<1>. QED  BY <1>1, <1>2, PromptInvariant, PTL DEF Spec, CopiesInSteps, Ideal!Spec

-----------------------------------------------------------------------------
(* What follows from PositionCopies.  The execution a trade adds.          *)
LEMMA IdealTradeIs ==
    ASSUME Ideal!TypeOK,
           NEW type \in ExecTypes, NEW s \in Sides, NEW q \in 1 .. MaxQty,
           Ideal!Trade(type, s, q)
    PROVE  \E x \in Executions :
              LET before == masterPath[Len(trades) + 1]
              IN  /\ trades' = Append(trades, x)
                  /\ masterPath' = Append(masterPath, Moved(before, s, q))
                  /\ x.side = s /\ x.qty = q /\ x.closed = Least(q, Reducible(before, s))
                  /\ before \in Int /\ Moved(before, s, q) \in Int
<1>. DEFINE before == masterPath[Len(trades) + 1]
            x == [type |-> type, side |-> s, qty |-> q,
                  closed |-> Least(q, Reducible(before, s))]
<1>1. before \in Int
  BY DEF Ideal!TypeOK
<1>2. Reducible(before, s) \in Nat /\ Moved(before, s, q) \in Int
  BY <1>1, ReducibleType, MovedType, PolicyAssumption
<1>3. x \in Executions
  BY <1>2, PolicyAssumption DEF Executions, Least
<1>4. trades' = Append(trades, x) /\ masterPath' = Append(masterPath, Moved(before, s, q))
  BY IdealTerms DEF Ideal!Trade
<1>. QED  BY <1>1, <1>2, <1>3, <1>4

(* What was there before a trade stays.                                    *)
LEMMA IdealTradeKeeps ==
    ASSUME Ideal!TypeOK,
           NEW type \in ExecTypes, NEW s \in Sides, NEW q \in 1 .. MaxQty,
           Ideal!Trade(type, s, q)
    PROVE  /\ Len(trades') = Len(trades) + 1 /\ Len(masterPath') = Len(masterPath) + 1
           /\ \A e \in DOMAIN trades : e \in DOMAIN trades' /\ trades'[e] = trades[e]
           /\ \A e \in DOMAIN masterPath : masterPath'[e] = masterPath[e]
           /\ Through' = Through /\ PosToBe' = PosToBe
<1>1. PICK x \in Executions :
         LET before == masterPath[Len(trades) + 1]
         IN  /\ trades' = Append(trades, x)
             /\ masterPath' = Append(masterPath, Moved(before, s, q))
             /\ Moved(before, s, q) \in Int
  BY IdealTradeIs
<1>2. trades \in Seq(Executions) /\ masterPath \in Seq(Int)
  BY IdealTerms DEF Ideal!TypeOK
<1>3. Through' = Through /\ PosToBe' = PosToBe
  BY DEF Ideal!Trade
<1>. HIDE DEF Ideal!TypeOK
<1>. QED  BY <1>1, <1>2, <1>3

(* Where a copy leads a follower.                                          *)
LEMMA IdealCopyIs ==
    ASSUME Ideal!TypeOK, NEW S \in SUBSET Followers, Ideal!Copy(S), NEW f \in Followers
    PROVE  /\ trades' = trades /\ masterPath' = masterPath
           /\ f \notin S => Through'[f] = Through[f] /\ PosToBe'[f] = PosToBe[f]
           /\ f \in S => /\ Through[f] \in Nat /\ Through[f] < Len(trades)
                         /\ Through[f] + 1 \in DOMAIN trades
                         /\ Ideal!Upcoming(f) = trades[Through[f] + 1]
                         /\ Ideal!Upcoming(f) \in Executions
                         /\ Through'[f] = Through[f] + 1
                         /\ PosToBe'[f] = Ideal!Outcome(PosToBe[f], Ideal!Upcoming(f))
<1>1. /\ trades \in Seq(Executions) /\ Through \in [Followers -> 0 .. Len(trades)]
      /\ PosToBe \in [Followers -> Int]
  BY IdealTerms DEF Ideal!TypeOK
<1>2. f \in S => Through[f] \in Nat /\ Through[f] < Len(trades)
  BY <1>1 DEF Ideal!Copy
<1>3. f \in S => /\ Through[f] + 1 \in DOMAIN trades
                 /\ Ideal!Upcoming(f) = trades[Through[f] + 1]
                 /\ Ideal!Upcoming(f) \in Executions
  BY <1>1, <1>2 DEF Ideal!Upcoming
<1>4. /\ Through' = [g \in Followers |-> IF g \in S THEN Through[g] + 1 ELSE Through[g]]
      /\ PosToBe' = [g \in Followers |-> IF g \in S
                                         THEN Ideal!Outcome(PosToBe[g], Ideal!Upcoming(g))
                                         ELSE PosToBe[g]]
      /\ trades' = trades /\ masterPath' = masterPath
  BY DEF Ideal!Copy
<1>. QED  BY <1>2, <1>3, <1>4

(* The types of PositionCopies.                                            *)
LEMMA IdealType ==
    ASSUME Ideal!TypeOK, [Ideal!Next]_(Ideal!vars)
    PROVE  Ideal!TypeOK'
<1>1. /\ trades \in Seq(Executions) /\ masterPath \in Seq(Int)
      /\ Len(masterPath) = Len(trades) + 1
      /\ Through \in [Followers -> 0 .. Len(trades)] /\ PosToBe \in [Followers -> Int]
  BY IdealTerms DEF Ideal!TypeOK
<1>2. ASSUME NEW type \in ExecTypes, NEW s \in Sides, NEW q \in 1 .. MaxQty,
             Ideal!Trade(type, s, q)
      PROVE  Ideal!TypeOK'
  <2>1. PICK x \in Executions :
           LET before == masterPath[Len(trades) + 1]
           IN  /\ trades' = Append(trades, x)
               /\ masterPath' = Append(masterPath, Moved(before, s, q))
               /\ Moved(before, s, q) \in Int
    BY <1>2, IdealTradeIs
  <2>2. trades' \in Seq(Executions) /\ masterPath' \in Seq(Int)
    BY <1>1, <2>1
  <2>3. /\ Len(trades') = Len(trades) + 1 /\ Len(masterPath') = Len(masterPath) + 1
        /\ Through' = Through /\ PosToBe' = PosToBe
    BY <1>2, IdealTradeKeeps
  <2>4. Len(trades) \in Nat
    BY <1>1
  <2>. QED  BY <1>1, <2>2, <2>3, <2>4, IdealTerms DEF Ideal!TypeOK
<1>3. ASSUME NEW S \in SUBSET Followers, Ideal!Copy(S)
      PROVE  Ideal!TypeOK'
  <2>1. trades' = trades /\ masterPath' = masterPath
    BY <1>3 DEF Ideal!Copy
  <2>2. \A f \in Followers : Through'[f] \in 0 .. Len(trades) /\ PosToBe'[f] \in Int
    BY <1>1, <1>3, IdealCopyIs, OutcomeType
  <2>3. Through' \in [Followers -> 0 .. Len(trades)] /\ PosToBe' \in [Followers -> Int]
    BY <1>3, <2>2 DEF Ideal!Copy
  <2>. QED  BY <1>1, <2>1, <2>3, IdealTerms DEF Ideal!TypeOK
<1>4. CASE UNCHANGED Ideal!vars
  BY <1>4 DEF Ideal!vars, Ideal!TypeOK
<1>. QED  BY <1>2, <1>3, <1>4, IdealTerms DEF Ideal!Next

(* A follower stays where it is, or takes the execution that is next; what *)
(* the master did stays.                                                   *)
LEMMA IdealSteps ==
    ASSUME Ideal!TypeOK, [Ideal!Next]_(Ideal!vars), NEW f \in Followers
    PROVE  /\ \A e \in DOMAIN trades : e \in DOMAIN trades' /\ trades'[e] = trades[e]
           /\ \A e \in DOMAIN masterPath : masterPath'[e] = masterPath[e]
           /\ \/ Through'[f] = Through[f] /\ PosToBe'[f] = PosToBe[f]
              \/ LET x == trades[Through[f] + 1]
                 IN  /\ Through[f] + 1 \in DOMAIN trades /\ x \in Executions
                     /\ Through'[f] = Through[f] + 1
                     /\ PosToBe'[f] = Ideal!Outcome(PosToBe[f], x)
<1>1. ASSUME NEW type \in ExecTypes, NEW s \in Sides, NEW q \in 1 .. MaxQty,
             Ideal!Trade(type, s, q)
      PROVE  /\ \A e \in DOMAIN trades : e \in DOMAIN trades' /\ trades'[e] = trades[e]
             /\ \A e \in DOMAIN masterPath : masterPath'[e] = masterPath[e]
             /\ Through'[f] = Through[f] /\ PosToBe'[f] = PosToBe[f]
  BY <1>1, IdealTradeKeeps
<1>2. ASSUME NEW S \in SUBSET Followers, Ideal!Copy(S)
      PROVE  /\ trades' = trades /\ masterPath' = masterPath
             /\ \/ Through'[f] = Through[f] /\ PosToBe'[f] = PosToBe[f]
                \/ LET x == trades[Through[f] + 1]
                   IN  /\ Through[f] + 1 \in DOMAIN trades /\ x \in Executions
                       /\ Through'[f] = Through[f] + 1
                       /\ PosToBe'[f] = Ideal!Outcome(PosToBe[f], x)
  <2>1. CASE f \in S
    BY <1>2, <2>1, IdealCopyIs
  <2>2. CASE f \notin S
    BY <1>2, <2>2, IdealCopyIs
  <2>. QED  BY <2>1, <2>2
<1>3. CASE UNCHANGED Ideal!vars
  BY <1>3 DEF Ideal!vars
<1>. QED  BY <1>1, <1>2, <1>3, IdealTerms DEF Ideal!Next

(* Every execution leads from one position of the master to the next.      *)
LEMMA IdealPath ==
    ASSUME Ideal!TypeOK, Ideal!PathInv, [Ideal!Next]_(Ideal!vars)
    PROVE  Ideal!PathInv'
<1>1. /\ trades \in Seq(Executions) /\ masterPath \in Seq(Int)
      /\ Len(masterPath) = Len(trades) + 1
  BY IdealTerms DEF Ideal!TypeOK
<1>2. ASSUME NEW type \in ExecTypes, NEW s \in Sides, NEW q \in 1 .. MaxQty,
             Ideal!Trade(type, s, q)
      PROVE  Ideal!PathInv'
  <2>. DEFINE last == Len(trades) + 1
  <2>1. PICK x \in Executions :
           /\ trades' = Append(trades, x)
           /\ masterPath' = Append(masterPath, Moved(masterPath[last], s, q))
           /\ x.side = s /\ x.qty = q /\ x.closed = Least(q, Reducible(masterPath[last], s))
           /\ Moved(masterPath[last], s, q) \in Int
    BY <1>2, IdealTradeIs
  <2>2. /\ \A e \in DOMAIN trades : trades'[e] = trades[e]
        /\ \A e \in DOMAIN masterPath : masterPath'[e] = masterPath[e]
    BY <1>2, IdealTradeKeeps
  <2>3. /\ Len(trades) \in Nat /\ DOMAIN trades = 1 .. Len(trades)
        /\ DOMAIN trades' = 1 .. last /\ DOMAIN masterPath = 1 .. last
        /\ trades'[last] = x /\ masterPath'[last + 1] = Moved(masterPath[last], s, q)
    BY <1>1, <2>1
  <2>. SUFFICES ASSUME NEW e \in 1 .. last
                PROVE  /\ masterPath'[e + 1] = Moved(masterPath'[e], trades'[e].side, trades'[e].qty)
                       /\ trades'[e].closed
                             = Least(trades'[e].qty, Reducible(masterPath'[e], trades'[e].side))
    BY <2>3, IdealTerms DEF Ideal!PathInv
  <2>4. CASE e = last
    BY <2>1, <2>2, <2>3, <2>4
  <2>5. CASE e # last
    <3>1. e \in DOMAIN trades /\ e \in DOMAIN masterPath /\ e + 1 \in DOMAIN masterPath
      BY <2>3, <2>5
    <3>. QED  BY <2>2, <3>1, IdealTerms DEF Ideal!PathInv
  <2>. QED  BY <2>4, <2>5
<1>3. ASSUME NEW S \in SUBSET Followers, Ideal!Copy(S)
      PROVE  Ideal!PathInv'
  BY <1>3 DEF Ideal!Copy, Ideal!PathInv
<1>4. CASE UNCHANGED Ideal!vars
  BY <1>4 DEF Ideal!vars, Ideal!PathInv
<1>. QED  BY <1>2, <1>3, <1>4, IdealTerms DEF Ideal!Next

(* An order that only opens from flat leaves no more than its quantity.    *)
LEMMA OutcomeIsOneOrder ==
    ASSUME NEW p \in Int, NEW x \in Executions, Size(p) <= Lot.max,
           BlockIfOpen, Lot.capped
    PROVE  Size(Ideal!Outcome(p, x)) <= Lot.max
<1>. DEFINE asked == Ideal!Asked(p, x)
            n == NormalizeOrderQuantity(asked, Lot)
<1>1. /\ asked \in Nat
      /\ IsClose(x) => asked <= Reducible(p, x.side)
      /\ ~ IsClose(x) /\ p # 0 => asked = 0
  BY AskedType, AskedCases
<1>2. n.qty \in 0 .. asked /\ n.qty <= Lot.max /\ (n.valid => n.qty > 0)
  BY <1>1, ValidQuantity
<1>3. Ideal!Outcome(p, x) = p \/ (n.valid /\ Ideal!Outcome(p, x) = Moved(p, x.side, n.qty))
  BY OutcomeCases
<1>4. Lot.max \in Nat /\ x.side \in Sides
  BY MirrorAssumption DEF Specs, Executions
<1>. HIDE DEF asked, n
<1>5. CASE IsClose(x) /\ n.valid
  BY <1>1, <1>2, <1>3, <1>4, <1>5 DEF Moved, Reducible, Size, Sides
<1>6. CASE ~ IsClose(x) /\ n.valid
  BY <1>1, <1>2, <1>3, <1>4, <1>6 DEF Moved, Size, Sides
<1>. QED  BY <1>3, <1>5, <1>6

(* With a cap and opens only from flat, no position exceeds one order.     *)
LEMMA IdealOneOrder ==
    ASSUME Ideal!TypeOK, Ideal!OneOrderInv, [Ideal!Next]_(Ideal!vars)
    PROVE  Ideal!OneOrderInv'
<1>. SUFFICES ASSUME BlockIfOpen, Lot.capped, NEW f \in Followers
              PROVE  Size(PosToBe'[f]) <= Lot.max
  BY IdealTerms DEF Ideal!OneOrderInv
<1>1. Size(PosToBe[f]) <= Lot.max /\ PosToBe[f] \in Int
  BY IdealTerms DEF Ideal!OneOrderInv, Ideal!TypeOK
<1>. QED  BY <1>1, IdealSteps, OutcomeIsOneOrder

(* Every whole quantity up to the maximum is an order of that quantity.    *)
LEMMA FinestLot ==
    ASSUME Lot.step = 1, Lot.min <= 1, NEW q \in Nat, Lot.capped => q <= Lot.max
    PROVE  LET n == NormalizeOrderQuantity(q, Lot)
           IN  n.qty = q /\ (n.valid <=> q > 0)
<1>1. Lot.min \in Nat /\ Lot.max \in Nat
  BY MirrorAssumption DEF Specs
<1>2. Clip(q, Lot) = q
  BY <1>1 DEF Clip
<1>3. RoundDownToStep(Clip(q, Lot), Lot.step) = q
  BY <1>2 DEF RoundDownToStep
<1>4. /\ NormalizeOrderQuantity(q, Lot).qty = q
      /\ NormalizeOrderQuantity(q, Lot).valid <=> q > 0 /\ q >= Lot.min
  BY <1>3 DEF NormalizeOrderQuantity
<1>5. q > 0 => q >= Lot.min
  BY <1>1
<1>. QED  BY <1>4, <1>5

(* What a follower within the master's position makes of an execution      *)
(* leaves it within the master's new position.                             *)
LEMMA OutcomeStaysWithin ==
    ASSUME ClipClose, BlockIfOpen \/ ~ Lot.capped, Lot.step = 1, Lot.min <= 1,
           NEW m \in Int, NEW p \in Int, TowardsZero(m, p),
           BlockIfOpen /\ Lot.capped => Size(p) <= Lot.max,
           NEW x \in Executions, IsMirrored(x),
           x.closed = Least(x.qty, Reducible(m, x.side))
    PROVE  TowardsZero(Moved(m, x.side, x.qty), Ideal!Outcome(p, x))
<1>. DEFINE asked == Ideal!Asked(p, x)
            n == NormalizeOrderQuantity(asked, Lot)
            after == Moved(m, x.side, x.qty)
<1>1. x.side \in Sides /\ x.qty \in Nat /\ x.qty > 0 /\ x.closed \in Nat
  BY PolicyAssumption DEF Executions
<1>2. asked \in Nat /\ n.qty \in 0 .. asked /\ (n.valid => n.qty > 0)
  BY AskedType, ValidQuantity
<1>3. Ideal!Outcome(p, x) = IF n.valid THEN Moved(p, x.side, n.qty) ELSE p
  BY OutcomeCases
<1>4. CASE ~ IsClose(x)
  <2>1. x.closed = 0 /\ Reducible(m, x.side) = 0 /\ Wanted(x) = x.qty
    BY <1>1, <1>4, ReducibleType DEF IsClose, Least, Wanted
  <2>2. asked <= x.qty
    BY <1>1, <1>4, <2>1, AskedCases
  <2>. HIDE DEF asked, n
  <2>3. \/ x.side = "Buy" /\ m >= 0 /\ after = m + x.qty
        \/ x.side = "Sell" /\ m <= 0 /\ after = m - x.qty
    BY <1>1, <2>1 DEF Reducible, Size, Moved, Sides
  <2>4. \/ x.side = "Buy" /\ Ideal!Outcome(p, x) \in p .. p + x.qty
        \/ x.side = "Sell" /\ Ideal!Outcome(p, x) \in p - x.qty .. p
    BY <1>1, <1>2, <1>3, <2>2 DEF Moved, Sides
  <2>. QED  BY <1>1, <2>3, <2>4 DEF TowardsZero
<1>5. CASE IsClose(x)
  <2>1. /\ x.closed > 0 /\ Wanted(x) = x.closed /\ x.closed <= x.qty
        /\ asked = Least(Reducible(p, x.side), x.closed)
    BY <1>1, <1>5, ReducibleType, AskedCases DEF IsClose, Wanted, Least
  <2>2. Reducible(p, x.side) <= Size(p) /\ Size(p) \in Nat
    BY DEF Reducible, Size
  <2>3. Lot.capped => asked <= Lot.max
    <3>1. Lot.max \in Nat
      BY MirrorAssumption DEF Specs
    <3>. QED  BY <1>2, <2>1, <2>2, <3>1, ReducibleType DEF Least
  <2>4. n.qty = asked /\ (n.valid <=> asked > 0)
    BY <1>2, <2>3, FinestLot
  <2>. HIDE DEF asked, n
  <2>5. Ideal!Outcome(p, x) = Moved(p, x.side, asked)
    BY <1>2, <1>3, <2>4 DEF Moved
  <2>6. \/ x.side = "Sell" /\ m > 0 /\ x.closed = Least(x.qty, m) /\ p \in 0 .. m
        \/ x.side = "Buy" /\ m < 0 /\ x.closed = Least(x.qty, -m) /\ p \in m .. 0
    BY <1>1, <2>1 DEF Reducible, Size, Sides, Least, TowardsZero
  <2>7. CASE x.side = "Sell" /\ m > 0 /\ x.closed = Least(x.qty, m) /\ p \in 0 .. m
    <3>1. asked = Least(p, x.closed)
      BY <2>1, <2>7 DEF Reducible, Size
    <3>2. Ideal!Outcome(p, x) = p - asked /\ after = m - x.qty
      BY <2>5, <2>7 DEF Moved
    <3>. QED  BY <1>1, <2>1, <2>7, <3>1, <3>2 DEF TowardsZero, Least
  <2>8. CASE x.side = "Buy" /\ m < 0 /\ x.closed = Least(x.qty, -m) /\ p \in m .. 0
    <3>1. asked = Least(-p, x.closed)
      BY <2>1, <2>8 DEF Reducible, Size
    <3>2. Ideal!Outcome(p, x) = p + asked /\ after = m + x.qty
      BY <2>5, <2>8 DEF Moved
    <3>. QED  BY <1>1, <2>1, <2>8, <3>1, <3>2 DEF TowardsZero, Least
  <2>. QED  BY <2>6, <2>7, <2>8
<1>. QED  BY <1>4, <1>5

(* A follower at the master's position that meets a plain execution is at  *)
(* the master's new position.                                              *)
LEMMA OutcomeIsExact ==
    ASSUME NEW m \in Int, NEW x \in Executions, IsMirrored(x),
           x.closed = Least(x.qty, Reducible(m, x.side)),
           x.closed = x.qty \/ m = 0,
           NormalizeOrderQuantity(x.qty, Lot).valid,
           NormalizeOrderQuantity(x.qty, Lot).qty = x.qty
    PROVE  Ideal!Outcome(m, x) = Moved(m, x.side, x.qty)
<1>1. x.qty \in Nat /\ x.qty > 0 /\ x.closed \in Nat /\ Reducible(m, x.side) \in Nat
  BY ReducibleType, PolicyAssumption DEF Executions
<1>2. CASE x.closed = x.qty
  <2>1. IsClose(x) /\ Wanted(x) = x.qty /\ Reducible(m, x.side) >= x.qty
    BY <1>1, <1>2 DEF IsClose, Wanted, Least
  <2>2. Ideal!Asked(m, x) = x.qty
    BY <1>1, <2>1, AskedCases DEF Least
  <2>. QED  BY <2>2, OutcomeCases
<1>3. CASE m = 0
  <2>1. x.closed = 0
    BY <1>1, <1>3 DEF Reducible, Least
  <2>2. Ideal!Asked(m, x) = x.qty
    BY <1>3, <2>1, AskedCases DEF IsClose, Wanted
  <2>. QED  BY <2>2, OutcomeCases
<1>. QED  BY <1>2, <1>3

(* The master's position at the execution a follower takes, and after it.  *)
LEMMA IdealMasterAt ==
    ASSUME Ideal!TypeOK, Ideal!PathInv, [Ideal!Next]_(Ideal!vars), NEW f \in Followers
    PROVE  /\ Ideal!MasterAt(f) \in Int
           /\ Through'[f] = Through[f] => Ideal!MasterAt(f)' = Ideal!MasterAt(f)
           /\ Through'[f] = Through[f] + 1 /\ Through[f] + 1 \in DOMAIN trades =>
                 LET x == trades[Through[f] + 1]
                 IN  /\ Ideal!MasterAt(f)' = Moved(Ideal!MasterAt(f), x.side, x.qty)
                     /\ x.closed = Least(x.qty, Reducible(Ideal!MasterAt(f), x.side))
<1>1. /\ masterPath \in Seq(Int) /\ Len(masterPath) = Len(trades) + 1
      /\ Through[f] \in 0 .. Len(trades) /\ Len(trades) \in Nat
      /\ DOMAIN trades = 1 .. Len(trades)
  BY IdealTerms DEF Ideal!TypeOK
<1>2. /\ Through[f] + 1 \in DOMAIN masterPath
      /\ Through[f] + 1 \in DOMAIN trades => Through[f] + 2 \in DOMAIN masterPath
  BY <1>1
<1>3. \A e \in DOMAIN masterPath : masterPath'[e] = masterPath[e]
  BY IdealSteps
<1>4. ASSUME Through'[f] = Through[f] + 1, Through[f] + 1 \in DOMAIN trades
      PROVE  LET x == trades[Through[f] + 1]
             IN  /\ Ideal!MasterAt(f)' = Moved(Ideal!MasterAt(f), x.side, x.qty)
                 /\ x.closed = Least(x.qty, Reducible(Ideal!MasterAt(f), x.side))
  <2>1. (Through[f] + 1) + 1 = Through[f] + 2
    BY <1>1
  <2>2. Ideal!MasterAt(f)' = masterPath[Through[f] + 2]
    BY <1>2, <1>3, <1>4, <2>1 DEF Ideal!MasterAt
  <2>3. \A e \in DOMAIN trades :
           /\ masterPath[e + 1] = Moved(masterPath[e], trades[e].side, trades[e].qty)
           /\ trades[e].closed = Least(trades[e].qty, Reducible(masterPath[e], trades[e].side))
    BY IdealTerms DEF Ideal!PathInv
  <2>. QED  BY <1>4, <2>1, <2>2, <2>3 DEF Ideal!MasterAt
<1>. QED  BY <1>1, <1>2, <1>3, <1>4 DEF Ideal!MasterAt

(* Every step keeps the followers within the master's position.            *)
LEMMA IdealWithin ==
    ASSUME ClipClose, BlockIfOpen \/ ~ Lot.capped, Lot.step = 1, Lot.min <= 1,
           ExecTypes \subseteq {"Trade"},
           Ideal!TypeOK, Ideal!PathInv, Ideal!OneOrderInv, Ideal!WithinMaster,
           [Ideal!Next]_(Ideal!vars)
    PROVE  Ideal!WithinMaster'
<1>. SUFFICES ASSUME NEW f \in Followers
              PROVE  TowardsZero(Ideal!MasterAt(f)', PosToBe'[f])
  BY IdealTerms DEF Ideal!WithinMaster
<1>. DEFINE x == trades[Through[f] + 1]
            m == Ideal!MasterAt(f)
<1>1. /\ m \in Int /\ PosToBe[f] \in Int /\ TowardsZero(m, PosToBe[f])
      /\ BlockIfOpen /\ Lot.capped => Size(PosToBe[f]) <= Lot.max
  BY IdealMasterAt, IdealTerms DEF Ideal!WithinMaster, Ideal!OneOrderInv, Ideal!TypeOK
<1>2. CASE Through'[f] = Through[f] /\ PosToBe'[f] = PosToBe[f]
  BY <1>1, <1>2, IdealMasterAt
<1>3. CASE /\ Through[f] + 1 \in DOMAIN trades /\ x \in Executions
           /\ Through'[f] = Through[f] + 1 /\ PosToBe'[f] = Ideal!Outcome(PosToBe[f], x)
  <2>1. IsMirrored(x)
    BY <1>3 DEF Executions, IsMirrored
  <2>2. /\ Ideal!MasterAt(f)' = Moved(m, x.side, x.qty)
        /\ x.closed = Least(x.qty, Reducible(m, x.side))
    BY <1>3, IdealMasterAt
  <2>. HIDE DEF x, m
  <2>. QED  BY <1>1, <1>3, <2>1, <2>2, OutcomeStaysWithin
<1>. QED  BY <1>2, <1>3, IdealSteps

(* Every step keeps a follower that only met plain executions exact.       *)
LEMMA IdealPlain ==
    ASSUME Ideal!TypeOK, Ideal!PathInv, Ideal!CopiesPlain, [Ideal!Next]_(Ideal!vars)
    PROVE  Ideal!CopiesPlain'
<1>. SUFFICES ASSUME NEW f \in Followers, \A e \in 1 .. Through'[f] : Ideal!Plain(e)'
              PROVE  PosToBe'[f] = Ideal!MasterAt(f)'
  BY DEF Ideal!CopiesPlain
<1>. DEFINE next == Through[f] + 1
            x == trades[next]
            m == Ideal!MasterAt(f)
<1>1. /\ Through[f] \in 0 .. Len(trades) /\ Len(trades) \in Nat
      /\ DOMAIN trades = 1 .. Len(trades) /\ DOMAIN masterPath = 1 .. Len(trades) + 1
  BY IdealTerms DEF Ideal!TypeOK
<1>2. \A e \in DOMAIN trades : Ideal!Plain(e)' => Ideal!Plain(e)
  <2>1. \A e \in DOMAIN trades : trades'[e] = trades[e]
    BY IdealSteps
  <2>2. \A e \in DOMAIN trades : masterPath'[e] = masterPath[e]
    BY <1>1, IdealSteps
  <2>. QED  BY <2>1, <2>2 DEF Ideal!Plain
<1>3. CASE Through'[f] = Through[f] /\ PosToBe'[f] = PosToBe[f]
  <2>1. \A e \in 1 .. Through[f] : Ideal!Plain(e)
    BY <1>1, <1>2, <1>3
  <2>. QED  BY <1>3, <2>1, IdealMasterAt DEF Ideal!CopiesPlain
<1>4. CASE /\ next \in DOMAIN trades /\ x \in Executions
           /\ Through'[f] = next /\ PosToBe'[f] = Ideal!Outcome(PosToBe[f], x)
  <2>1. (\A e \in 1 .. Through[f] : Ideal!Plain(e)) /\ Ideal!Plain(next)
    BY <1>1, <1>2, <1>4
  <2>2. PosToBe[f] = m
    BY <2>1 DEF Ideal!CopiesPlain
  <2>3. /\ IsMirrored(x) /\ NormalizeOrderQuantity(x.qty, Lot).valid
        /\ NormalizeOrderQuantity(x.qty, Lot).qty = x.qty
        /\ x.closed = x.qty \/ m = 0
    BY <2>1, IdealTerms DEF Ideal!Plain, Ideal!MasterAt
  <2>4. /\ m \in Int /\ Ideal!MasterAt(f)' = Moved(m, x.side, x.qty)
        /\ x.closed = Least(x.qty, Reducible(m, x.side))
    BY <1>4, IdealMasterAt
  <2>. HIDE DEF x, m
  <2>5. Ideal!Outcome(m, x) = Moved(m, x.side, x.qty)
    BY <1>4, <2>3, <2>4, OutcomeIsExact
  <2>. QED  BY <1>4, <2>2, <2>4, <2>5
<1>. QED  BY <1>3, <1>4, IdealSteps

(* The invariants hold initially.                                          *)
LEMMA IdealInit ==
    ASSUME Ideal!Init
    PROVE  /\ Ideal!TypeOK /\ Ideal!PathInv /\ Ideal!OneOrderInv
           /\ Ideal!WithinMaster /\ Ideal!CopiesPlain
<1>1. /\ trades = << >> /\ masterPath = <<0>>
      /\ Through = [f \in Followers |-> 0] /\ PosToBe = [f \in Followers |-> 0]
  BY DEF Ideal!Init
<1>2. Ideal!TypeOK
  BY <1>1, IdealTerms DEF Ideal!TypeOK
<1>3. Ideal!PathInv
  BY <1>1 DEF Ideal!PathInv
<1>4. \A f \in Followers : Ideal!MasterAt(f) = 0 /\ PosToBe[f] = 0
  BY <1>1 DEF Ideal!MasterAt
<1>5. Ideal!WithinMaster /\ Ideal!CopiesPlain
  BY <1>4 DEF Ideal!WithinMaster, Ideal!CopiesPlain, Ideal!TowardsZero
<1>6. Ideal!OneOrderInv
  <2>1. Lot.max \in Nat
    BY MirrorAssumption DEF Specs
  <2>. QED  BY <1>4, <2>1 DEF Ideal!OneOrderInv, Ideal!Size
<1>. QED  BY <1>2, <1>3, <1>5, <1>6

(* Once nothing is under way, every follower is through with all there is. *)
LEMMA QuietIsThrough ==
    ASSUME Quiet, NEW f \in Followers
    PROVE  /\ PosToBe[f] = pos[f] /\ Through[f] = Len(trades)
           /\ Ideal!MasterAt(f) = masterPos
<1>1. PosToBe[f] = pos[f]
  BY PosToBeIs DEF Quiet
<1>2. Through[f] = Len(trades)
  BY DEF Quiet, Through
<1>. QED  BY <1>1, <1>2 DEF Ideal!MasterAt, masterPos

-----------------------------------------------------------------------------
(* Once all is mirrored, a follower is exposed in the master's direction   *)
(* and no further than the master.  Each hypothesis is needed: an          *)
(* execution of another type is not copied; a close that is not clipped is *)
(* skipped when the follower has less; so is one below the minimum or the  *)
(* step; and a position built of several orders, each within the cap, can  *)
(* be more than a single close within the cap takes off.                   *)
THEOREM FollowersStayWithinMaster ==
    ASSUME ~ Faults, PromptFills, ExecTypes \subseteq {"Trade"}, ClipClose,
           BlockIfOpen \/ ~ Lot.capped, Lot.step = 1, Lot.min <= 1
    PROVE  Spec => []FollowerWithinMaster
<1>. DEFINE Inv == Ideal!TypeOK /\ Ideal!PathInv /\ Ideal!OneOrderInv /\ Ideal!WithinMaster
<1>1. Ideal!Init => Inv
  BY IdealInit
<1>2. Inv /\ [Ideal!Next]_(Ideal!vars) => Inv'
  BY IdealType, IdealPath, IdealOneOrder, IdealWithin
<1>3. Inv => FollowerWithinMaster
  BY QuietIsThrough, IdealTerms DEF FollowerWithinMaster, Ideal!WithinMaster
<1>. HIDE DEF Inv
<1>. QED  BY <1>1, <1>2, <1>3, CopiesAreSteps, PTL DEF CopiesInSteps, Ideal!Spec

(* So it is flat when the master is; the prompt executions are what the    *)
(* counterexample to FlatWhenMasterFlat without them lacks.                *)
THEOREM FollowersAreFlatWithMaster ==
    ASSUME ~ Faults, PromptFills, ExecTypes \subseteq {"Trade"}, ClipClose,
           BlockIfOpen \/ ~ Lot.capped, Lot.step = 1, Lot.min <= 1
    PROVE  Spec => []FlatWhenMasterFlat
<1>1. TypeOK /\ FollowerWithinMaster => FlatWhenMasterFlat
  BY DEF TypeOK, FollowerWithinMaster, FlatWhenMasterFlat, TowardsZero
<1>. QED  BY <1>1, FollowersStayWithinMaster, MirrorTypeCorrect, PTL

(* Opens from flat and closes that do not turn the master's position, in   *)
(* quantities an order can have, leave every follower exactly at it,       *)
(* whatever the instrument and the policy.                                 *)
THEOREM PlainTradesAreCopiedExactly ==
    ASSUME ~ Faults, PromptFills
    PROVE  Spec => []CopiedExactly
<1>. DEFINE Inv == Ideal!TypeOK /\ Ideal!PathInv /\ Ideal!CopiesPlain
<1>1. Ideal!Init => Inv
  BY IdealInit
<1>2. Inv /\ [Ideal!Next]_(Ideal!vars) => Inv'
  BY IdealType, IdealPath, IdealPlain
<1>3. Inv => CopiedExactly
  <2>. SUFFICES ASSUME Inv, Quiet, \A e \in DOMAIN trades : Ideal!Plain(e),
                       NEW f \in Followers
                PROVE  pos[f] = masterPos
    BY DEF CopiedExactly
  <2>1. DOMAIN trades = 1 .. Len(trades)
    BY IdealTerms DEF Ideal!TypeOK
  <2>. QED  BY <2>1, QuietIsThrough DEF Ideal!CopiesPlain
<1>. HIDE DEF Inv
<1>. QED  BY <1>1, <1>2, <1>3, CopiesAreSteps, PTL DEF CopiesInSteps, Ideal!Spec
=============================================================================
