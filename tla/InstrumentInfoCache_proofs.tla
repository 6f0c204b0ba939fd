---------------------- MODULE InstrumentInfoCache_proofs ----------------------
(* How old the metadata behind an order can be, for every TTL, and that    *)
(* the order is the largest it allows.                                     *)
EXTENDS InstrumentInfoCache, OrderQuantity_proofs

(* A sized order has its type.                                             *)
LEMMA SizedWithType ==
    ASSUME NEW q \in Nat, NEW s \in InstrumentSpecs
    PROVE  SizedWith(q, s) \in [spec : InstrumentSpecs \cup {NoSpec}, qty : Nat,
                               valid : BOOLEAN, reason : Reasons]
<1>1. s \in Specs
  BY CacheAssumption
<1>2. NormalizeOrderQuantity(q, s).qty \in Nat
  BY <1>1, NormalizedIsLargest
<1>3. /\ NormalizeOrderQuantity(q, s).valid \in BOOLEAN
      /\ NormalizeOrderQuantity(q, s).reason \in Reasons
  BY DEF NormalizeOrderQuantity, Reasons
<1>. QED  BY <1>2, <1>3 DEF SizedWith

(* Types and dates are kept together: an answer that arrives is metadata.  *)
LEMMA CacheStep == TypeOK /\ CacheInv /\ [Next]_vars => TypeOK' /\ CacheInv'
<1>. SUFFICES ASSUME TypeOK, CacheInv, [Next]_vars PROVE TypeOK' /\ CacheInv'
  OBVIOUS
<1>. USE CacheAssumption DEF TypeOK, CacheInv, InForceSince, SpecIsRecent
<1>0. \A q, s : SizedWith(q, s).spec = s
  BY DEF SizedWith
<1>1. ASSUME NEW q \in Quantities, SizeFromCache(q)
      PROVE  TypeOK' /\ CacheInv'
  <2>1. cached.spec \in InstrumentSpecs /\ clock <= cached.at + CacheTTL
    BY <1>1 DEF SizeFromCache, Hit
  <2>2. TypeOK'
    BY <1>1, <2>1, SizedWithType DEF SizeFromCache
  <2>3. CacheInv'
    BY <1>0, <1>1, <2>1 DEF SizeFromCache
  <2>. QED  BY <2>2, <2>3
<1>2. ASSUME NEW q \in Quantities, RequestSpec(q)
      PROVE  TypeOK' /\ CacheInv'
  BY <1>2 DEF RequestSpec
<1>3. CASE ExchangeAnswers
  BY <1>3 DEF ExchangeAnswers
<1>4. CASE SpecArrives
  <2>1. answer \in InstrumentSpecs
    BY <1>4 DEF SpecArrives
  <2>2. TypeOK'
    BY <1>4, <2>1, SizedWithType DEF SpecArrives, StampOf
  <2>3. CacheInv'
    BY <1>0, <1>4, <2>1 DEF SpecArrives, StampOf
  <2>. QED  BY <2>2, <2>3
<1>5. CASE SpecFails
  BY <1>5 DEF SpecFails, NoOrder, Reasons
<1>6. CASE OrderTaken
  BY <1>6 DEF OrderTaken, NoOrder, Reasons
<1>7. CASE InstrumentChanges
  <2>1. PICK s \in InstrumentSpecs \ {live} :
           live' = s /\ goneAt' = [goneAt EXCEPT ![live] = clock, ![s] = 0]
    BY <1>7 DEF InstrumentChanges
  <2>2. UNCHANGED <<clock, pc, qty, calledAt, answer, cached, order>>
    BY <1>7 DEF InstrumentChanges
  <2>3. \A r \in InstrumentSpecs :
           goneAt'[r] = IF r = s THEN 0 ELSE IF r = live THEN clock ELSE goneAt[r]
    BY <2>1
  <2>4. TypeOK'
    BY <2>1, <2>2
  <2>5. ASSUME NEW r \in InstrumentSpecs, NEW t \in Nat, t <= clock, InForceSince(r, t)
        PROVE  InForceSince(r, t)'
    BY <2>1, <2>3, <2>5
  <2>6. order.spec # NoSpec =>
           order.spec = live' \/ goneAt'[order.spec] + CacheTTL >= calledAt
    BY <2>1, <2>3
  <2>7. order' = order /\ order.spec # NoSpec => order = SizedWith(qty, order.spec)
    BY <2>2
  <2>8. CacheInv'
    BY <2>1, <2>2, <2>3, <2>5, <2>6, <2>7 DEF SizedWith
  <2>. QED  BY <2>4, <2>8
<1>8. CASE Tick
  BY <1>8 DEF Tick
<1>9. CASE UNCHANGED vars
  BY <1>9 DEF vars
<1>. QED
  BY <1>1, <1>2, <1>3, <1>4, <1>5, <1>6, <1>7, <1>8, <1>9 DEF Next

(* The type and cache invariants hold of every behaviour.                  *)
LEMMA CacheInvariant == Spec => [](TypeOK /\ CacheInv)
<1>1. Init => TypeOK /\ CacheInv
  BY CacheAssumption
  DEF Init, TypeOK, CacheInv, InForceSince, SpecIsRecent, NoOrder, Empty, Reasons
<1>. QED  BY <1>1, CacheStep, PTL DEF Spec

(* Every reachable state of the cache and of the call is well typed.       *)
THEOREM CacheTypeCorrect == Spec => []TypeOK
BY CacheInvariant, PTL

(* The metadata of every order was in force within the TTL.                *)
THEOREM SpecNeverStale == Spec => []SpecIsRecent
<1>1. CacheInv => SpecIsRecent
  BY DEF CacheInv
<1>. QED  BY <1>1, CacheInvariant, PTL

(* Every order has the largest quantity its metadata allows.               *)
THEOREM OrdersAreLargest == Spec => []OrderQtyIsLargest
<1>1. TypeOK /\ CacheInv => OrderQtyIsLargest
  <2>. SUFFICES ASSUME TypeOK, CacheInv, order.spec # NoSpec
                PROVE  /\ IsLargestOrderable(order.qty, qty, order.spec)
                       /\ order.valid <=> order.qty >= order.spec.min /\ order.qty > 0
    BY DEF OrderQtyIsLargest
  <2>1. order.spec \in Specs /\ qty \in Nat
    BY CacheAssumption DEF TypeOK
  <2>2. order = SizedWith(qty, order.spec)
    BY DEF CacheInv
  <2>3. /\ order.qty = NormalizeOrderQuantity(qty, order.spec).qty
        /\ order.valid = NormalizeOrderQuantity(qty, order.spec).valid
    BY <2>2 DEF SizedWith
  <2>. QED  BY <2>1, <2>3, NormalizedIsLargest
<1>. QED  BY <1>1, CacheInvariant, PTL
=============================================================================
