---------------------------- MODULE PositionCopies ----------------------------
(***************************************************************************)
(* What the mirroring makes of a follower's position as long as nothing    *)
(* goes wrong and an acknowledged order is executed at once: each follower *)
(* goes through the master's executions one by one, at its own pace, and   *)
(* takes every one of them in a single step.                               *)
(***************************************************************************)
EXTENDS MirrorPolicy, OrderQuantity, Sequences

CONSTANTS Followers, Lot, BlockIfOpen, ClipClose  \* as in MirrorExecution

VARIABLES trades,      \* the master's executions, in order
          masterPath,  \* its position before each of them, and after the last
          through,     \* per follower, how many executions it is through
          pos          \* the follower's position

vars == <<trades, masterPath, through, pos>>

Init ==
    /\ trades = << >> /\ masterPath = <<0>>
    /\ through = [f \in Followers |-> 0]
    /\ pos = [f \in Followers |-> 0]

Trade(type, s, q) ==
    LET before == masterPath[Len(trades) + 1]
    IN  /\ trades' = Append(trades, [type |-> type, side |-> s, qty |-> q,
                                     closed |-> Least(q, Reducible(before, s))])
        /\ masterPath' = Append(masterPath, Moved(before, s, q))
        /\ UNCHANGED <<through, pos>>

(* What a follower at p has to trade for x; 0: nothing.                    *)
Asked(p, x) ==
    LET open == Reducible(p, x.side)
    IN  IF IsClose(x)
        THEN IF open >= Wanted(x) \/ ClipClose THEN Least(open, Wanted(x)) ELSE 0
        ELSE IF BlockIfOpen /\ p # 0 THEN 0 ELSE Wanted(x)

Outcome(p, x) ==
    LET n == NormalizeOrderQuantity(Asked(p, x), Lot)
    IN  IF IsMirrored(x) /\ n.valid THEN Moved(p, x.side, n.qty) ELSE p

Upcoming(f) == trades[through[f] + 1]

(* The followers in S take the execution that is next for each.            *)
Copy(S) ==
    /\ \A f \in S : through[f] < Len(trades)
    /\ through' = [f \in Followers |-> IF f \in S THEN through[f] + 1 ELSE through[f]]
    /\ pos' = [f \in Followers |-> IF f \in S THEN Outcome(pos[f], Upcoming(f)) ELSE pos[f]]
    /\ UNCHANGED <<trades, masterPath>>

Next ==
    \/ \E type \in ExecTypes, s \in Sides, q \in 1 .. MaxQty : Trade(type, s, q)
    \/ \E S \in SUBSET Followers : Copy(S)

Spec == Init /\ [][Next]_vars

(***************************************************************************)
(* What follows from it.                                                   *)
(***************************************************************************)
TowardsZero(before, after) ==
    /\ before >= 0 => after \in 0 .. before
    /\ before <= 0 => after \in before .. 0

(* The master's position when f was through with as many executions.       *)
MasterAt(f) == masterPath[through[f] + 1]

(* A follower is exposed in the master's direction, and no more than the   *)
(* master was then.                                                        *)
WithinMaster == \A f \in Followers : TowardsZero(MasterAt(f), pos[f])

(* An execution of a quantity an order can have that opens from flat, or   *)
(* closes without turning.                                                 *)
Plain(e) ==
    /\ IsMirrored(trades[e])
    /\ NormalizeOrderQuantity(trades[e].qty, Lot).valid
    /\ NormalizeOrderQuantity(trades[e].qty, Lot).qty = trades[e].qty
    /\ trades[e].closed = trades[e].qty \/ masterPath[e] = 0

(* A follower that only met such executions is where the master was.       *)
CopiesPlain ==
    \A f \in Followers : (\A e \in 1 .. through[f] : Plain(e)) => pos[f] = MasterAt(f)

(***************************************************************************)
(* The inductive invariant behind both.                                    *)
(***************************************************************************)
TypeOK ==
    /\ trades \in Seq(Executions)
    /\ masterPath \in Seq(Int) /\ Len(masterPath) = Len(trades) + 1
    /\ through \in [Followers -> 0 .. Len(trades)]
    /\ pos \in [Followers -> Int]

(* Every execution leads from one of the master's positions to the next.   *)
PathInv ==
    \A e \in DOMAIN trades :
        /\ masterPath[e + 1] = Moved(masterPath[e], trades[e].side, trades[e].qty)
        /\ trades[e].closed = Least(trades[e].qty, Reducible(masterPath[e], trades[e].side))

(* A position that only opens from flat is never larger than one order.    *)
OneOrderInv ==
    BlockIfOpen /\ Lot.capped => \A f \in Followers : Size(pos[f]) <= Lot.max
=============================================================================
