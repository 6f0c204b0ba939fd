------------------------- MODULE OrderQuantity_proofs -------------------------
(* What precision.py computes, for every quantity and every instrument.    *)
EXTENDS OrderQuantity, TLAPS

(* Division with remainder.                                                *)
LEMMA DivProperties ==
    ASSUME NEW v \in Nat, NEW s \in Nat \ {0}
    PROVE  /\ v \div s \in Nat
           /\ (v \div s) * s <= v
           /\ v < (v \div s) * s + s
OBVIOUS

(* No multiple of s lies strictly between m * s and (m + 1) * s.           *)
LEMMA MultiplesAreApart ==
    ASSUME NEW m \in Nat, NEW k \in Nat, NEW s \in Nat \ {0}, k * s < m * s + s
    PROVE  k * s <= m * s
<1>1. CASE k <= m
  <2>1. PICK d \in Nat : m = k + d
    <3>1. m = k + (m - k) /\ m - k \in Nat
      BY <1>1
    <3>. QED  BY <3>1
  <2>2. m * s = k * s + d * s /\ d * s \in Nat
    BY <2>1
  <2>. QED  BY <2>2
<1>2. CASE k > m
  <2>1. PICK d \in Nat : k = m + 1 + d
    <3>1. k = m + 1 + (k - m - 1) /\ k - m - 1 \in Nat
      BY <1>2
    <3>. QED  BY <3>1
  <2>2. k * s = m * s + s + d * s /\ d * s \in Nat /\ m * s \in Nat
    BY <2>1
  <2>. QED  BY <2>2
<1>. QED  BY <1>1, <1>2

(* Rounding down loses less than a step, and nothing larger fits.          *)
LEMMA RoundDownIsLargest ==
    ASSUME NEW v \in Nat, NEW s \in Nat \ {0}
    PROVE  /\ RoundDownToStep(v, s) \in Nat
           /\ RoundDownToStep(v, s) <= v
           /\ \E k \in 0 .. v : RoundDownToStep(v, s) = k * s
           /\ \A k \in Nat : k * s <= v => k * s <= RoundDownToStep(v, s)
<1>. DEFINE m == v \div s
<1>1. m \in Nat /\ m * s <= v /\ v < m * s + s
  BY DivProperties
<1>. HIDE DEF m
<1>2. RoundDownToStep(v, s) = m * s
  BY DEF RoundDownToStep, m
<1>3. m * s \in Nat /\ m <= m * s
  <2>1. PICK t \in Nat : s = 1 + t
    <3>1. s = 1 + (s - 1) /\ s - 1 \in Nat
      OBVIOUS
    <3>. QED  BY <3>1
  <2>2. m * s = m + m * t /\ m * t \in Nat
    BY <1>1, <2>1
  <2>. QED  BY <1>1, <2>2
<1>4. m \in 0 .. v
  BY <1>1, <1>3
<1>5. ASSUME NEW k \in Nat, k * s <= v
      PROVE  k * s <= m * s
  <2>1. k * s \in Nat /\ k * s < m * s + s
    BY <1>1, <1>3, <1>5
  <2>. QED  BY <1>1, <2>1, MultiplesAreApart
<1>. QED  BY <1>1, <1>2, <1>3, <1>4, <1>5

(* precision.py returns the largest quantity that can be ordered, and      *)
(* calls it valid exactly when it is positive and not below the minimum.   *)
THEOREM NormalizedIsLargest ==
    ASSUME NEW q \in Nat, NEW s \in Specs
    PROVE  /\ NormalizeOrderQuantity(q, s).qty \in Nat
           /\ NormalizeOrderQuantity(q, s).qty <= q
           /\ IsLargestOrderable(NormalizeOrderQuantity(q, s).qty, q, s)
           /\ NormalizeOrderQuantity(q, s).valid
                 <=> /\ NormalizeOrderQuantity(q, s).qty >= s.min
                     /\ NormalizeOrderQuantity(q, s).qty > 0
<1>. DEFINE c == Clip(q, s)
            n == RoundDownToStep(c, s.step)
<1>1. s.step \in Nat \ {0} /\ s.max \in Nat /\ s.min \in Nat
  BY DEF Specs
<1>2. c \in Nat /\ c <= q /\ (s.capped => c <= s.max)
      /\ \A x \in Nat : x <= q /\ (s.capped => x <= s.max) => x <= c
  BY <1>1 DEF Clip
<1>. HIDE DEF c
<1>3. /\ n \in Nat /\ n <= c
      /\ \A k \in Nat : k * s.step <= c => k * s.step <= n
  BY <1>1, <1>2, RoundDownIsLargest
<1>4. PICK m \in 0 .. c : n = m * s.step
  BY <1>1, <1>2, RoundDownIsLargest
<1>. HIDE DEF n
<1>5. m \in 0 .. q /\ n <= q /\ (s.capped => n <= s.max)
  BY <1>1, <1>2, <1>3, <1>4
<1>6. \A k \in 0 .. q : k * s.step <= q /\ (s.capped => k * s.step <= s.max)
                           => k * s.step <= n
  <2>1. \A k \in 0 .. q : k \in Nat /\ k * s.step \in Nat
    BY <1>1
  <2>. QED  BY <1>2, <1>3, <2>1
<1>7. IsLargestOrderable(n, q, s)
  BY <1>4, <1>5, <1>6 DEF IsLargestOrderable
<1>8. /\ NormalizeOrderQuantity(q, s).qty = n
      /\ NormalizeOrderQuantity(q, s).valid <=> n > 0 /\ n >= s.min
  BY DEF NormalizeOrderQuantity, n, c
<1>. QED  BY <1>3, <1>5, <1>7, <1>8
=============================================================================
