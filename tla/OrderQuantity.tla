---------------------------- MODULE OrderQuantity ----------------------------
(***************************************************************************)
(* app/utils/precision.py: the quantity of a follower order.  Decimals are *)
(* natural numbers of the smallest quantum, in which they are exact; no    *)
(* caller passes a negative one.                                           *)
(***************************************************************************)
EXTENDS Integers

(* InstrumentSpec; max_market_order_qty may be absent.                     *)
Specs == [step : Nat \ {0}, min : Nat, capped : BOOLEAN, max : Nat]

(* Mutant of RoundDownToStep: to the nearest step.                         *)
RoundToStep(value, step) == ((value + step \div 2) \div step) * step

RoundDownToStep(value, step) == (value \div step) * step

(* Mutant of Clip: the maximum is a bound that must not be reached.        *)
ClipBelowMax(qty, spec) == IF spec.capped /\ qty >= spec.max THEN spec.max - 1 ELSE qty

Clip(qty, spec) == IF spec.capped /\ qty > spec.max THEN spec.max ELSE qty

(* Mutant of NormalizeOrderQuantity: clipping is reported as a reason.     *)
NormalizeReportingClip(qty, spec) ==
    LET n == RoundDownToStep(Clip(qty, spec), spec.step)
    IN  [qty    |-> n,
         valid  |-> n > 0 /\ n >= spec.min,
         reason |-> IF Clip(qty, spec) < qty THEN "clipped_to_max" ELSE "ok"]

(* normalize_order_quantity: the quantity, and whether and why an order of *)
(* that quantity must not be sent.                                         *)
NormalizeOrderQuantity(qty, spec) ==
    LET n == RoundDownToStep(Clip(qty, spec), spec.step)
    IN  [qty    |-> n,
         valid  |-> n > 0 /\ n >= spec.min,
         reason |-> IF n <= 0 THEN "rounded_to_zero"
                    ELSE IF n < spec.min THEN "below_min_order_qty"
                    ELSE "ok"]

(* The reference: the largest multiple of the step that exceeds neither    *)
(* the requested quantity nor the maximum.                                 *)
IsLargestOrderable(n, qty, spec) ==
    LET Orderable(k) == k * spec.step <= qty /\ (spec.capped => k * spec.step <= spec.max)
    IN  /\ \E k \in 0 .. qty : Orderable(k) /\ n = k * spec.step
        /\ \A k \in 0 .. qty : Orderable(k) => k * spec.step <= n
=============================================================================
