------------------------- MODULE WebSocketManager_proofs -------------------------
(***************************************************************************)
(* Proofs about WebSocketManager: type correctness, and that run_forever   *)
(* ends only when it is told to, as long as no outage takes more failures  *)
(* than the backoff can count.                                             *)
(***************************************************************************)
EXTENDS WebSocketManager, TLAPS

(* The initial states.                                                     *)
LEMMA InitKeeps == Init => TypeOK /\ BackoffInv
<1> SUFFICES ASSUME Init PROVE TypeOK /\ BackoffInv
  OBVIOUS
<1>1. inbox \in Seq(Messages) /\ Len(inbox) <= MaxQueue
  BY ConnectionAssumption DEF Init, ConnectionAssumption
<1>2. 0 \in 0 .. MaxExponent + 1 /\ 0 \in 0 .. MaxOutage
  BY ConnectionAssumption DEF ConnectionAssumption
<1>3. TypeOK
  BY <1>1, <1>2 DEF Init, TypeOK, Locations, Handshake, Connected
<1>4. BackoffInv
  BY DEF Init, BackoffInv, Connected
<1> QED  BY <1>3, <1>4

(* What an exception out of _connect_once preserves, wherever it is thrown *)
(* while there is room for one more failure.                               *)
LEMMA DisconnectedKeeps ==
    ASSUME TypeOK, BackoffInv, outage < MaxOutage, Disconnected
    PROVE  TypeOK' /\ BackoffInv'
<1>1. /\ attempt \in 0 .. MaxExponent + 1 /\ outage \in Nat
      /\ MaxExponent \in Nat /\ MaxOutage \in Nat
  BY ConnectionAssumption DEF TypeOK
<1>2. /\ link' = "none" /\ heart' = "none" /\ inbox' = << >>
      /\ unacked' = FALSE /\ outage' = outage + 1 /\ stop' = stop
  BY DEF Disconnected, LeaveConnection
<1>3. /\ pc' \in {"backingoff", "ended"}
      /\ attempt' \in 0 .. MaxExponent + 1
      /\ attempt' <= attempt + 1
  BY <1>1 DEF Disconnected, NextDelay
<1>4. inbox' \in Seq(Messages) /\ Len(inbox') <= MaxQueue
  BY <1>2, ConnectionAssumption
<1>5. outage' \in 0 .. MaxOutage
  BY <1>1, <1>2
<1>6. TypeOK'
  BY <1>2, <1>3, <1>4, <1>5 DEF TypeOK, Locations, Handshake, Connected
<1>7. BackoffInv'
  BY <1>1, <1>2, <1>3 DEF BackoffInv, Connected
<1> QED  BY <1>6, <1>7

(* The steps that leave the backoff alone.                                 *)
LEMMA QuietKeeps ==
    ASSUME TypeOK, BackoffInv, UNCHANGED <<attempt, outage>>,
           pc' \in Connected => pc \in Connected
    PROVE  BackoffInv'
BY DEF BackoffInv

(* The inductive step, one case per action.                                *)
LEMMA StepKeeps ==
    ASSUME TypeOK, BackoffInv, [Next]_vars
    PROVE  TypeOK' /\ BackoffInv'
<1> USE ConnectionAssumption
<1>0. /\ attempt \in Nat /\ outage \in Nat /\ MaxOutage > 0
      /\ inbox \in Seq(Messages) /\ Len(inbox) \in Nat
      /\ pc \in Connected => outage = 0
  BY DEF TypeOK, BackoffInv
<1>1. CASE BackoffEnds
  <2>1. TypeOK'
    BY <1>1 DEF TypeOK, BackoffEnds, LoopHead, Locations, Handshake, Connected
  <2>2. BackoffInv'
    BY <1>1, QuietKeeps DEF BackoffEnds, LoopHead, Connected
  <2> QED  BY <2>1, <2>2
<1>2. CASE Connects
  <2>1. TypeOK'
    BY <1>2 DEF TypeOK, Connects, Locations, Handshake, Connected
  <2>2. BackoffInv'
    BY <1>2, QuietKeeps DEF Connects, Connected
  <2> QED  BY <2>1, <2>2
<1>3. CASE Authenticates
  <2>1. TypeOK'
    BY <1>3 DEF TypeOK, Authenticates, Locations, Handshake, Connected
  <2>2. BackoffInv'
    BY <1>3, QuietKeeps DEF Authenticates, Connected
  <2> QED  BY <2>1, <2>2
<1>4. CASE Subscribes
  <2>1. TypeOK'
    BY <1>4 DEF TypeOK, Subscribes, BackoffReset, Locations, Handshake, Connected
  <2>2. BackoffInv'
    BY <1>4 DEF BackoffInv, Subscribes, BackoffReset
  <2> QED  BY <2>1, <2>2
<1>5. CASE HandshakeFails
  BY <1>5, DisconnectedKeeps DEF HandshakeFails
<1>6. CASE ReadEvent
  <2>1. inbox' \in Seq(Messages) /\ Len(inbox') <= MaxQueue
    BY <1>0, <1>6 DEF ReadEvent, TypeOK
  <2>2. TypeOK'
    BY <1>6, <2>1 DEF TypeOK, ReadEvent, Locations, Handshake, Connected
  <2>3. BackoffInv'
    BY <1>6, QuietKeeps DEF ReadEvent, Connected
  <2> QED  BY <2>2, <2>3
<1>7. CASE SkipMessage
  <2>1. inbox' \in Seq(Messages) /\ Len(inbox') <= MaxQueue
    BY <1>0, <1>7 DEF SkipMessage, TypeOK
  <2>2. TypeOK'
    BY <1>7, <2>1 DEF TypeOK, SkipMessage
  <2>3. BackoffInv'
    BY <1>7, QuietKeeps DEF SkipMessage
  <2> QED  BY <2>2, <2>3
<1>8. CASE ReadMalformed
  BY <1>0, <1>8, DisconnectedKeeps DEF ReadMalformed, Connected
<1>9. CASE ReadClosed
  <2>1. TypeOK'
    BY <1>9 DEF TypeOK, ReadClosed, LeaveConnection, LoopHead, Locations, Handshake, Connected
  <2>2. BackoffInv'
    BY <1>9, QuietKeeps DEF ReadClosed, LoopHead, Connected
  <2> QED  BY <2>1, <2>2
<1>10. CASE ReadBroken
  BY <1>0, <1>10, DisconnectedKeeps DEF ReadBroken, Connected
<1>11. CASE HandlerReturns
  <2>1. TypeOK'
    BY <1>11 DEF TypeOK, HandlerReturns, Locations, Handshake, Connected
  <2>2. BackoffInv'
    BY <1>11, QuietKeeps DEF HandlerReturns, Connected
  <2> QED  BY <2>1, <2>2
<1>12. CASE HandlerRaises
  BY <1>0, <1>12, DisconnectedKeeps DEF HandlerRaises, Connected
<1>13. CASE Ping
  <2>1. TypeOK'
    BY <1>13 DEF TypeOK, Ping, AfterPing
  <2>2. BackoffInv'
    BY <1>13, QuietKeeps DEF Ping
  <2> QED  BY <2>1, <2>2
<1>14. CASE PingFails
  <2>1. TypeOK'
    BY <1>14 DEF TypeOK, PingFails
  <2>2. BackoffInv'
    BY <1>14, QuietKeeps DEF PingFails
  <2> QED  BY <2>1, <2>2
<1>15. CASE Stop
  <2>1. TypeOK'
    BY <1>15 DEF TypeOK, Stop
  <2>2. BackoffInv'
    BY <1>15, QuietKeeps DEF Stop
  <2> QED  BY <2>1, <2>2
<1>16. ASSUME NEW m \in Messages, Arrive(m)
       PROVE  TypeOK' /\ BackoffInv'
  <2>1. inbox' \in Seq(Messages) /\ Len(inbox') <= MaxQueue
    BY <1>0, <1>16 DEF Arrive
  <2>2. TypeOK'
    BY <1>16, <2>1 DEF TypeOK, Arrive
  <2>3. BackoffInv'
    BY <1>16, QuietKeeps DEF Arrive
  <2> QED  BY <2>2, <2>3
<1>17. CASE Closing
  <2>1. TypeOK'
    BY <1>17 DEF TypeOK, Closing
  <2>2. BackoffInv'
    BY <1>17, QuietKeeps DEF Closing
  <2> QED  BY <2>1, <2>2
<1>18. CASE LoseLink
  <2>1. TypeOK'
    BY <1>18 DEF TypeOK, LoseLink
  <2>2. BackoffInv'
    BY <1>18, QuietKeeps DEF LoseLink
  <2> QED  BY <2>1, <2>2
<1>19. CASE NoticeLoss
  <2>1. TypeOK'
    BY <1>19 DEF TypeOK, NoticeLoss
  <2>2. BackoffInv'
    BY <1>19, QuietKeeps DEF NoticeLoss
  <2> QED  BY <2>1, <2>2
<1>20. CASE UNCHANGED vars
  <2>1. TypeOK'
    BY <1>20 DEF TypeOK, vars
  <2>2. BackoffInv'
    BY <1>20, QuietKeeps DEF vars
  <2> QED  BY <2>1, <2>2
<1> QED
  BY <1>1, <1>2, <1>3, <1>4, <1>5, <1>6, <1>7, <1>8, <1>9, <1>10, <1>11, <1>12,
     <1>13, <1>14, <1>15, <1>16, <1>17, <1>18, <1>19, <1>20
     DEF Next, Handshaking, Reading, Handling, Heartbeat, CloseIdle

(* Every reachable state of the connection is well typed; in particular a  *)
(* heartbeat task exists exactly while a connection does, whichever of its *)
(* many ends the connection came to.                                       *)
THEOREM ConnectionTypeCorrect == Spec => []TypeOK
<1>1. Init => TypeOK /\ BackoffInv
  BY InitKeeps
<1>2. TypeOK /\ BackoffInv /\ [Next]_vars => TypeOK' /\ BackoffInv'
  BY StepKeeps
<1> QED  BY <1>1, <1>2, PTL DEF Spec

(* The failure of an outage that the backoff can still count never ends    *)
(* run_forever.                                                            *)
LEMMA StepStaysUp ==
    ASSUME MaxOutage <= MaxExponent + 1,
           TypeOK, BackoffInv, EndsOnlyWhenStopped, [Next]_vars
    PROVE  EndsOnlyWhenStopped'
<1>1. attempt \in Nat /\ outage \in Nat /\ MaxExponent \in Nat /\ MaxOutage \in Nat \ {0}
  BY ConnectionAssumption DEF TypeOK
<1>2. ASSUME Disconnected, outage < MaxOutage
      PROVE  EndsOnlyWhenStopped'
  <2>1. attempt <= MaxExponent
    BY <1>1, <1>2 DEF BackoffInv
  <2> QED  BY <1>2, <2>1 DEF Disconnected, NextDelay, EndsOnlyWhenStopped
<1>3. pc \in Connected => outage < MaxOutage
  BY <1>1 DEF BackoffInv
<1>4. CASE HandshakeFails
  BY <1>2, <1>4 DEF HandshakeFails
<1>5. CASE ReadMalformed \/ ReadBroken \/ HandlerRaises
  BY <1>2, <1>3, <1>5 DEF ReadMalformed, ReadBroken, HandlerRaises, Connected
<1>6. CASE BackoffEnds \/ ReadClosed
  BY <1>6 DEF BackoffEnds, ReadClosed, LoopHead, EndsOnlyWhenStopped
<1>7. CASE Connects \/ Authenticates \/ Subscribes \/ ReadEvent \/ HandlerReturns
  BY <1>7 DEF Connects, Authenticates, Subscribes, ReadEvent, HandlerReturns,
              EndsOnlyWhenStopped
<1>8. ASSUME pc' = pc, stop' = stop
      PROVE  EndsOnlyWhenStopped'
  BY <1>8 DEF EndsOnlyWhenStopped
<1>9. CASE SkipMessage \/ Ping \/ PingFails \/ Closing \/ LoseLink \/ NoticeLoss
  BY <1>8, <1>9 DEF SkipMessage, Ping, PingFails, Closing, LoseLink, NoticeLoss
<1>10. CASE Stop
  BY <1>10 DEF Stop, EndsOnlyWhenStopped
<1>11. CASE \E m \in Messages : Arrive(m)
  BY <1>8, <1>11 DEF Arrive
<1>12. CASE UNCHANGED vars
  BY <1>8, <1>12 DEF vars
<1> QED
  BY <1>4, <1>5, <1>6, <1>7, <1>9, <1>10, <1>11, <1>12
     DEF Next, Handshaking, Reading, Handling, Heartbeat, CloseIdle

(* For any number of outages of any kind: as long as none of them takes    *)
(* more failures than the backoff has exponents, run_forever ends only     *)
(* when it is told to.                                                     *)
THEOREM EndsOnlyByStop ==
    MaxOutage <= MaxExponent + 1 => (Spec => []EndsOnlyWhenStopped)
<1> SUFFICES ASSUME MaxOutage <= MaxExponent + 1
             PROVE  Spec => []EndsOnlyWhenStopped
  OBVIOUS
<1>1. Init => TypeOK /\ BackoffInv /\ EndsOnlyWhenStopped
  BY InitKeeps DEF Init, EndsOnlyWhenStopped
<1>2. TypeOK /\ BackoffInv /\ EndsOnlyWhenStopped /\ [Next]_vars
        => TypeOK' /\ BackoffInv' /\ EndsOnlyWhenStopped'
  BY StepKeeps, StepStaysUp
<1> QED  BY <1>1, <1>2, PTL DEF Spec
=============================================================================
