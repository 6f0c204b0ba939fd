------------------------- MODULE InstrumentInfoCache -------------------------
(***************************************************************************)
(* One follower's sizing of an order: the instrument metadata it reads     *)
(* through app/exchanges/instrument_cache.py and the normalization of      *)
(* order_executor.py.  The exchange may change the metadata of the symbol  *)
(* at any time, also while a request for it is under way.  A follower      *)
(* sizes one order at a time, so calls for its cache do not overlap.       *)
(***************************************************************************)
EXTENDS OrderQuantity

CONSTANTS InstrumentSpecs,  \* the metadata the symbol can have
          Quantities,       \* requested quantities
          CacheTTL,         \* instrument_cache_ttl_seconds
          MaxTime,          \* bound on the clock
          NoSpec

ASSUME CacheAssumption == /\ InstrumentSpecs \subseteq Specs
                          /\ Quantities \subseteq Nat
                          /\ CacheTTL \in Nat
                          /\ MaxTime \in Nat
                          /\ NoSpec \notin InstrumentSpecs

VARIABLES
    clock,
    pc,       \* of the call that sizes an order
    qty,      \* its requested quantity
    calledAt, \* time.time() at the start of get_spec
    answer,   \* metadata the exchange has answered with, still to arrive
    cached,   \* InstrumentInfoCache._cache of the symbol
    order,    \* what the call computed
    live,     \* the metadata in force at the exchange
    goneAt    \* per metadata, when it was last in force, 0 if it never was
              \* or still is (history)

vars == <<clock, pc, qty, calledAt, answer, cached, order, live, goneAt>>

NoOrder == [spec |-> NoSpec, qty |-> 0, valid |-> FALSE, reason |-> "none"]
Empty   == [at |-> 0, spec |-> NoSpec]
Reasons == {"none", "ok", "rounded_to_zero", "below_min_order_qty", "error"}

TypeOK ==
    /\ clock \in Nat
    /\ pc \in {"idle", "requested", "answered", "sized"}
    /\ qty \in Nat
    /\ calledAt \in Nat
    /\ answer \in InstrumentSpecs \cup {NoSpec}
    /\ cached \in [at : Nat, spec : InstrumentSpecs \cup {NoSpec}]
    /\ order \in [spec : InstrumentSpecs \cup {NoSpec}, qty : Nat,
                  valid : BOOLEAN, reason : Reasons]
    /\ live \in InstrumentSpecs
    /\ goneAt \in [InstrumentSpecs -> Nat]

Init ==
    /\ clock = 1
    /\ pc = "idle"
    /\ qty = 0
    /\ calledAt = 0
    /\ answer = NoSpec
    /\ cached = Empty
    /\ order = NoOrder
    /\ live \in InstrumentSpecs
    /\ goneAt = [s \in InstrumentSpecs |-> 0]

Hit(now) == cached.spec # NoSpec /\ now <= cached.at + CacheTTL

SizedWith(q, spec) ==
    LET n == NormalizeOrderQuantity(q, spec)
    IN  [spec |-> spec, qty |-> n.qty, valid |-> n.valid, reason |-> n.reason]

(* get_spec answers from the cache.                                        *)
SizeFromCache(q) ==
    /\ pc = "idle" /\ Hit(clock)
    /\ qty' = q
    /\ calledAt' = clock
    /\ order' = SizedWith(q, cached.spec)
    /\ pc' = "sized"
    /\ UNCHANGED <<clock, answer, cached, live, goneAt>>

(* get_spec has to ask; its idea of now is taken before the request.       *)
RequestSpec(q) ==
    /\ pc = "idle" /\ ~ Hit(clock)
    /\ qty' = q
    /\ calledAt' = clock
    /\ pc' = "requested"
    /\ UNCHANGED <<clock, answer, cached, order, live, goneAt>>

ExchangeAnswers ==
    /\ pc = "requested"
    /\ answer' = live
    /\ pc' = "answered"
    /\ UNCHANGED <<clock, qty, calledAt, cached, order, live, goneAt>>

(* Mutant of StampOf: the entry is dated when the answer arrives.          *)
StampOnArrival == clock

StampOf == calledAt

SpecArrives ==
    /\ pc = "answered"
    /\ cached' = [at |-> StampOf, spec |-> answer]
    /\ order' = SizedWith(qty, answer)
    /\ answer' = NoSpec
    /\ pc' = "sized"
    /\ UNCHANGED <<clock, qty, calledAt, live, goneAt>>

(* The request raises, or its answer lacks the lot size filter: the order  *)
(* becomes quantity_normalization_error and the old entry stays.           *)
SpecFails ==
    /\ pc \in {"requested", "answered"}
    /\ order' = [NoOrder EXCEPT !.reason = "error"]
    /\ answer' = NoSpec
    /\ pc' = "sized"
    /\ UNCHANGED <<clock, qty, calledAt, cached, live, goneAt>>

(* The caller takes the sized order.                                       *)
OrderTaken ==
    /\ pc = "sized"
    /\ pc' = "idle"
    /\ order' = NoOrder
    /\ qty' = 0
    /\ UNCHANGED <<clock, calledAt, answer, cached, live, goneAt>>

InstrumentChanges ==
    /\ \E s \in InstrumentSpecs \ {live} :
          /\ live' = s
          /\ goneAt' = [goneAt EXCEPT ![live] = clock, ![s] = 0]
    /\ UNCHANGED <<clock, pc, qty, calledAt, answer, cached, order>>

Tick ==
    /\ clock < MaxTime
    /\ clock' = clock + 1
    /\ UNCHANGED <<pc, qty, calledAt, answer, cached, order, live, goneAt>>

Next ==
    \/ \E q \in Quantities : SizeFromCache(q) \/ RequestSpec(q)
    \/ ExchangeAnswers \/ SpecArrives \/ SpecFails \/ OrderTaken
    \/ InstrumentChanges \/ Tick

Spec == Init /\ [][Next]_vars

(* An order carries the largest quantity the metadata it was sized with    *)
(* allows, and is only sent (valid) from the instrument's minimum on.      *)
OrderQtyIsLargest ==
    order.spec # NoSpec =>
        /\ IsLargestOrderable(order.qty, qty, order.spec)
        /\ order.valid <=> order.qty >= order.spec.min /\ order.qty > 0

(* The metadata an order is sized with was in force at some moment of the  *)
(* CacheTTL seconds before get_spec was called, or later: a slow answer    *)
(* does not prolong the life of its entry.                                 *)
SpecIsRecent ==
    order.spec # NoSpec =>
        order.spec = live \/ goneAt[order.spec] + CacheTTL >= calledAt

(* The inductive invariant behind SpecIsRecent: a cached entry, and an     *)
(* answer on its way, was in force at the entry's date or later.           *)
InForceSince(s, t) == s = live \/ goneAt[s] >= t

CacheInv ==
    /\ calledAt <= clock
    /\ \A s \in InstrumentSpecs : goneAt[s] <= clock
    /\ cached.at <= clock
    /\ cached.spec # NoSpec => InForceSince(cached.spec, cached.at)
    /\ pc = "answered" => answer # NoSpec /\ InForceSince(answer, calledAt)
    /\ order.spec # NoSpec => pc = "sized" /\ order = SizedWith(qty, order.spec)
    /\ SpecIsRecent
=============================================================================
