----------------------------- MODULE MirrorPolicy -----------------------------
(***************************************************************************)
(* What the master does and what the Phase 4 policy (risk_engine.py) makes *)
(* of it.  One symbol in one-way mode: a position is an integer, positive  *)
(* when long.  The exchange reports for every execution how much of it     *)
(* reduced a position (closedSize).                                        *)
(***************************************************************************)
EXTENDS Integers

CONSTANTS MaxQty,    \* bound on the quantity of one execution
          ExecTypes  \* execType values of the master's executions

ASSUME PolicyAssumption == /\ MaxQty \in Nat
                           /\ ExecTypes \subseteq STRING

Sides == {"Buy", "Sell"}

Executions == [type : ExecTypes, side : Sides, qty : 1 .. MaxQty, closed : 0 .. MaxQty]

Least(a, b) == IF a <= b THEN a ELSE b
Size(p)     == IF p >= 0 THEN p ELSE -p

(* The position after an order for q has been executed on side s.          *)
Moved(p, s, q) == IF s = "Buy" THEN p + q ELSE p - q

(* How much of position p an order on side s can reduce: nothing unless p  *)
(* is of the side _position_side_reduced_by_order_side names.              *)
Reducible(p, s) ==
    IF (s = "Sell" /\ p > 0) \/ (s = "Buy" /\ p < 0) THEN Size(p) ELSE 0

(* Only executions of type Trade are mirrored.                             *)
IsMirrored(x) == x.type = "Trade"

(* Mutant of IsClose: an execution that also reverses is taken for an open.*)
IsPureClose(x) == x.closed = x.qty

(* Any closed part makes the execution a close.                            *)
IsClose(x) == x.closed > 0

(* MirrorOrderRequest.qty.                                                 *)
Wanted(x) == IF IsClose(x) THEN x.closed ELSE x.qty
=============================================================================
