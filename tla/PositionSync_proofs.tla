-------------------------- MODULE PositionSync_proofs --------------------------
(* Type correctness of the position sync, that suppression hides no change *)
(* that reaches the engine, that the desired state does not go back, that  *)
(* what is reported as synced is, and that settings stay aligned, for any  *)
(* settings, followers and number of changes.                              *)
EXTENDS PositionSync, FiniteSetTheorems, SequenceTheorems, TLAPS

(***************************************************************************)
(* The events one change of the master is reported by.                     *)
(***************************************************************************)

(* All of them are of this change, in some order, a position among them.   *)
LEMMA ReportsType ==
    ASSUME moves \in Nat, NEW new \in Settings, NEW s \in SetToSeqs(Reports(new))
    PROVE  /\ s \in Seq(Event)
           /\ \A i \in DOMAIN s : s[i].seq = moves + 1 /\ s[i].of = new /\ s[i].copy = 0
           /\ \A i, j \in DOMAIN s : i # j => s[i].kind # s[j].kind
           /\ \E i \in DOMAIN s : s[i].kind = "position"
           /\ \A r \in Reports(new) : \E i \in DOMAIN s : s[i] = r
           /\ \A i \in DOMAIN s : s[i] \in Reports(new)
<1>. DEFINE S == Reports(new)
            Rep(kind) == [kind |-> kind, of |-> new, seq |-> moves + 1, copy |-> 0]
<1>1. /\ S \subseteq {Rep("execution"), Rep("order"), Rep("position")}
      /\ Rep("position") \in S
  BY DEF Reports, PositionReport
<1>2. IsFiniteSet(S)
  <2>1. IsFiniteSet({Rep("execution"), Rep("order"), Rep("position")})
    <3>1. IsFiniteSet({Rep("execution")})
      BY FS_Singleton
    <3>2. IsFiniteSet({Rep("execution")} \cup {Rep("order")})
      BY <3>1, FS_AddElement
    <3>3. IsFiniteSet(({Rep("execution")} \cup {Rep("order")}) \cup {Rep("position")})
      BY <3>2, FS_AddElement
    <3>4. {Rep("execution"), Rep("order"), Rep("position")}
            = ({Rep("execution")} \cup {Rep("order")}) \cup {Rep("position")}
      OBVIOUS
    <3>. QED  BY <3>3, <3>4
  <2>. QED  BY <1>1, <2>1, FS_Subset
<1>3. Cardinality(S) \in Nat
  BY <1>2, FS_CardinalityType
<1>4. /\ s \in [1 .. Cardinality(S) -> S]
      /\ \A i, j \in 1 .. Cardinality(S) : i # j => s[i] # s[j]
  BY DEF SetToSeqs
<1>5. s \in Injection(1 .. Cardinality(S), S)
  BY <1>4 DEF Injection, IsInjective
<1>6. IsFiniteSet(1 .. Cardinality(S)) /\ Cardinality(1 .. Cardinality(S)) = Cardinality(S)
  BY <1>3, FS_Interval
<1>7. s \in Surjection(1 .. Cardinality(S), S)
  BY <1>2, <1>5, <1>6, FS_Injection
<1>8. \E i \in 1 .. Cardinality(S) : s[i] = Rep("position")
  BY <1>1, <1>7 DEF Surjection
<1>9. \A r \in S : /\ r \in Event /\ r.seq = moves + 1 /\ r.of = new /\ r.copy = 0
                   /\ \A t \in S : r # t => r.kind # t.kind
  BY <1>1 DEF Event
<1>10. DOMAIN s = 1 .. Cardinality(S) /\ \A i \in DOMAIN s : s[i] \in S
  BY <1>4
<1>11. s \in Seq(Event)
  <2>1. s \in [1 .. Cardinality(S) -> Event]
    BY <1>4, <1>9
  <2>. QED  BY <1>3, <2>1
<1>12. \A i, j \in DOMAIN s : i # j => s[i].kind # s[j].kind
  BY <1>4, <1>9, <1>10
<1>13. \E i \in DOMAIN s : s[i].kind = "position"
  BY <1>8, <1>10
<1>14. \A i \in DOMAIN s : s[i].seq = moves + 1 /\ s[i].of = new /\ s[i].copy = 0
  BY <1>9, <1>10
<1>15. \A r \in S : \E i \in DOMAIN s : s[i] = r
  BY <1>7, <1>10 DEF Surjection
<1>. QED  BY <1>10, <1>11, <1>12, <1>13, <1>14, <1>15

(***************************************************************************)
(* Types, and that a task only sets what the request carries.              *)
(***************************************************************************)

(* A request is made of what the position carries.                         *)
LEMMA RequestForType ==
    ASSUME TypeOK, NEW p \in Settings, ShouldSync(p)
    PROVE  /\ RequestFor(p) \in Request
           /\ RequestFor(p).lev # -1 \/ RequestFor(p).stop # -1
BY SyncAssumption DEF TypeOK, Settings, Request, RequestFor, ShouldSync, Sides

LEMMA NextEventType ==
    ASSUME TypeOK, stream # << >>
    PROVE  NextEvent \in Event /\ Tail(stream) \in Seq(Event)
BY DEF TypeOK, NextEvent

LEMMA TakenType ==
    ASSUME TypeOK, stream # << >>, Taken
    PROVE  stream' \in Seq(Event) /\ last' \in Event \cup {None}
BY NextEventType DEF Taken

(* What is left when a connection has ended.                               *)
LEMMA DisconnectType ==
    ASSUME TypeOK, NEW n \in Int, n = 0 \/ n \in 0 .. Len(stream), Disconnect(n)
    PROVE  /\ stream' \in Seq(Event) /\ last' \in Event \cup {None}
           /\ n > 0 => stream' # << >>
<1>1. stream \in Seq(Event) /\ Len(stream) \in Nat /\ last \in Event \cup {None}
  BY DEF TypeOK
<1>2. n \in 0 .. Len(stream) /\ stream' = SubSeq(stream, 1, n)
  BY <1>1 DEF Disconnect
<1>3. stream' \in Seq(Event) /\ Len(stream') = n
  BY <1>1, <1>2
<1>4. last' = last \/ \E i \in DOMAIN stream : last' = stream[i]
  BY <1>1, <1>2 DEF Disconnect
<1>. QED  BY <1>1, <1>3, <1>4

LEMMA ReturnType ==
    ASSUME TypeOK, NEW f \in Followers, NEW name \in Results, NEW skipped \in BOOLEAN,
           Return(f, name, skipped)
    PROVE  /\ task' \in [Followers -> Phases]
           /\ result' \in [Followers -> [name : Results, skipped : BOOLEAN]]
           /\ task' = [task EXCEPT ![f] = "done"]
<1>1. [name |-> name, skipped |-> skipped] \in [name : Results, skipped : BOOLEAN]
  OBVIOUS
<1>. QED  BY <1>1 DEF TypeOK, Return, Phases

LEMMA InitType == Init => TypeOK /\ RequestInv
<1>. SUFFICES ASSUME Init PROVE TypeOK /\ RequestInv
  OBVIOUS
<1>1. TypeOK
  BY SyncAssumption, MasterAssumption DEF Init, TypeOK, Settings, Sides, Phases, Results, NoResult
<1>2. RequestInv
  BY DEF Init, RequestInv
<1>. QED  BY <1>1, <1>2

(* The steps of one follower's sync.                                       *)
LEMMA SyncType ==
    ASSUME TypeOK, RequestInv, NEW f \in Followers, SyncStep(f) \/ FindFails(f)
    PROVE  TypeOK' /\ RequestInv'
<1>. USE SyncAssumption DEF TypeOK, RequestInv, source, intake, engine, Phases, HasLeverage, HasTpsl
<1>1. CASE StartSync(f)
  BY <1>1 DEF StartSync, account
<1>2. CASE SetLeverage(f)
  <2>1. task[f] = "leverage" /\ request \in Request /\ HasLeverage
    BY <1>2 DEF SetLeverage
  <2>2. request.lev \in Leverages
    BY <2>1 DEF Request
  <2>3. PICK ok \in BOOLEAN :
          /\ lev' \in {[lev EXCEPT ![f] = request.lev]} \cup (IF ok THEN {} ELSE {lev})
          /\ levered' = [levered EXCEPT ![f] = ok]
          /\ failed' = [failed EXCEPT ![f] = ~ ok]
          /\ \/ HasTpsl /\ task' = [task EXCEPT ![f] = "finding"] /\ UNCHANGED result
             \/ ~ HasTpsl /\ Complete(f, ~ ok, ok)
    BY <1>2 DEF SetLeverage
  <2>4. lev' \in [Followers -> Leverages]
    BY <2>2, <2>3
  <2>5. levered' \in [Followers -> BOOLEAN] /\ failed' \in [Followers -> BOOLEAN]
    BY <2>3
  <2>6. UNCHANGED <<source, intake, engine, tries, health, pos, stop, trig>>
    BY <1>2 DEF SetLeverage
  <2>7. CASE HasTpsl /\ task' = [task EXCEPT ![f] = "finding"] /\ UNCHANGED result
    BY <2>1, <2>4, <2>5, <2>6, <2>7
  <2>8. CASE ~ HasTpsl /\ Complete(f, ~ ok, ok)
    <3>1. /\ task' \in [Followers -> Phases]
          /\ result' \in [Followers -> [name : Results, skipped : BOOLEAN]]
          /\ task' = [task EXCEPT ![f] = "done"]
      BY <2>8, ReturnType DEF Complete, Results
    <3>. QED  BY <2>1, <2>4, <2>5, <2>6, <3>1
  <2>. QED  BY <2>3, <2>7, <2>8
<1>3. CASE FindPosition(f)
  <2>0. UNCHANGED <<source, intake, engine, health, account>>
    BY <1>3 DEF FindPosition
  <2>1. CASE /\ task[f] = "finding" /\ Matches(f)
             /\ task' = [task EXCEPT ![f] = "stopping"]
             /\ UNCHANGED <<tries, levered, failed, result>>
    BY <2>0, <2>1 DEF account
  <2>2. CASE Again(f)
    BY <2>0, <2>2 DEF account, Again
  <2>3. CASE /\ task[f] = "finding" /\ ~ Matches(f)
             /\ Return(f, IF failed[f] \/ levered[f] THEN "partial_error"
                          ELSE "skipped_no_matching_position", ~ failed[f])
             /\ UNCHANGED <<tries, levered, failed>>
    <3>1. /\ task' \in [Followers -> Phases]
          /\ result' \in [Followers -> [name : Results, skipped : BOOLEAN]]
          /\ task' = [task EXCEPT ![f] = "done"]
      BY <2>3, ReturnType DEF Results
    <3>. QED  BY <2>0, <2>3, <3>1 DEF account
  <2>. QED  BY <1>3, <2>1, <2>2, <2>3 DEF FindPosition
<1>4. CASE FindFails(f)
  <2>1. /\ task' \in [Followers -> Phases]
        /\ result' \in [Followers -> [name : Results, skipped : BOOLEAN]]
        /\ task' = [task EXCEPT ![f] = "done"]
    BY <1>4, ReturnType DEF FindFails, Results
  <2>. QED  BY <1>4, <2>1 DEF FindFails, account
<1>5. CASE SetStop(f)
  <2>1. request \in Request /\ HasTpsl
    BY <1>5 DEF SetStop
  <2>2. request.stop \in Stops \cup {0} /\ request.trigger \in Triggers
    BY <2>1 DEF Request
  <2>3. stop' \in [Followers -> Stops \cup {0}] /\ trig' \in [Followers -> Triggers]
    BY <1>5, <2>2 DEF SetStop
  <2>4. /\ task' \in [Followers -> Phases]
        /\ result' \in [Followers -> [name : Results, skipped : BOOLEAN]]
        /\ task' = [task EXCEPT ![f] = "done"]
    <3>1. PICK error \in BOOLEAN, success \in BOOLEAN : Complete(f, error, success)
      BY <1>5 DEF SetStop
    <3>. QED  BY <3>1, ReturnType DEF Complete, Results
  <2>. QED  BY <1>5, <2>3, <2>4 DEF SetStop
<1>. QED  BY <1>1, <1>2, <1>3, <1>4, <1>5 DEF SyncStep

(* What the tasks are reset to.                                            *)
LEMMA NoTasks ==
    ASSUME task' = [f \in Followers |-> "idle"],
           tries' = [f \in Followers |-> 1],
           levered' = [f \in Followers |-> FALSE],
           failed' = [f \in Followers |-> FALSE],
           result' = [f \in Followers |-> NoResult]
    PROVE  /\ task' \in [Followers -> Phases]
           /\ tries' \in [Followers -> 1 .. SyncAttempts]
           /\ levered' \in [Followers -> BOOLEAN]
           /\ failed' \in [Followers -> BOOLEAN]
           /\ result' \in [Followers -> [name : Results, skipped : BOOLEAN]]
           /\ \A f \in Followers : task'[f] = "idle"
BY SyncAssumption DEF Phases, Results, NoResult

LEMMA StepType == TypeOK /\ RequestInv /\ [Next]_vars => TypeOK' /\ RequestInv'
<1>. SUFFICES ASSUME TypeOK, RequestInv, [Next]_vars PROVE TypeOK' /\ RequestInv'
  OBVIOUS
<1>. USE SyncAssumption DEF HasLeverage, HasTpsl
<1>1. ASSUME NEW new \in Settings, MasterMoves(new)
      PROVE  TypeOK' /\ RequestInv'
  <2>1. PICK s \in SetToSeqs(Reports(new)) : stream' = stream \o s
    BY <1>1 DEF MasterMoves
  <2>2. s \in Seq(Event)
    BY <2>1, ReportsType DEF TypeOK
  <2>3. stream' \in Seq(Event)
    BY <2>1, <2>2 DEF TypeOK
  <2>. QED  BY <1>1, <2>3 DEF MasterMoves, TypeOK, RequestInv, engine, tasks, account
<1>2. CASE SuppressDuplicate
  BY <1>2, NextEventType DEF SuppressDuplicate, TypeOK, RequestInv, source, engine, tasks, account
<1>3. CASE HandleOrder
  <2>1. NextEvent \in Event
    BY <1>3, NextEventType DEF HandleOrder, Accept, IsOffered
  <2>2. NextEvent.of.trigger \in Triggers
    BY <2>1 DEF Event, Settings
  <2>3. stream' \in Seq(Event) /\ last' \in Event \cup {None}
    BY <1>3, TakenType DEF HandleOrder, Accept, IsOffered
  <2>. QED  BY <1>3, <2>2, <2>3 DEF HandleOrder, Accept, IsOffered, TypeOK, RequestInv, source, tasks, account
<1>4. CASE HandleExecution
  <2>1. NextEvent \in Event
    BY <1>4, NextEventType DEF HandleExecution, Accept, IsOffered
  <2>2. NextEvent.of.side \in Sides
    BY <2>1 DEF Event, Settings
  <2>3. stream' \in Seq(Event) /\ last' \in Event \cup {None}
    BY <1>4, TakenType DEF HandleExecution, Accept, IsOffered
  <2>4. pos' \in [Followers -> Sides] /\ stop' \in [Followers -> Stops \cup {0}]
    BY <1>4, <2>2 DEF HandleExecution, TypeOK
  <2>. QED  BY <1>4, <2>3, <2>4 DEF HandleExecution, Accept, IsOffered, TypeOK, RequestInv, source, engine, tasks
<1>5. CASE IgnorePosition
  <2>1. stream' \in Seq(Event) /\ last' \in Event \cup {None}
    BY <1>5, TakenType DEF IgnorePosition, Accept, IsOffered
  <2>. QED  BY <1>5, <2>1 DEF IgnorePosition, Accept, IsOffered, TypeOK, RequestInv, source, engine, tasks, account
<1>6. CASE DispatchSync
  <2>1. NextEvent \in Event
    BY <1>6, NextEventType DEF DispatchSync, Accept, IsOffered
  <2>2. NextEvent.of \in Settings /\ ShouldSync(NextEvent.of)
    BY <1>6, <2>1 DEF DispatchSync, Event
  <2>3. /\ RequestFor(NextEvent.of) \in Request
        /\ RequestFor(NextEvent.of).lev # -1 \/ RequestFor(NextEvent.of).stop # -1
    BY <2>2, RequestForType
  <2>4. /\ desired' = RequestFor(NextEvent.of) /\ request' = RequestFor(NextEvent.of)
        /\ task' = [f \in Followers |-> "waiting"]
        /\ UNCHANGED <<source, stream, last, trigger, tries, levered, failed, result,
                       health, account>>
    BY <1>6 DEF DispatchSync
  <2>5. RequestFor(NextEvent.of) # None
    BY <2>3, NoneAssumption
  <2>6. TypeOK'
    BY <2>3, <2>4 DEF TypeOK, source, account, Phases
  <2>7. RequestInv'
    BY <1>6, <2>3, <2>4, <2>5 DEF RequestInv, DispatchSync, Accept, IsOffered
  <2>. QED  BY <2>6, <2>7
<1>7. CASE FinishSync
  <2>1. stream # << >>
    BY <1>7 DEF FinishSync, RequestInv
  <2>2. stream' \in Seq(Event) /\ last' \in Event \cup {None}
    BY <1>7, <2>1, TakenType DEF FinishSync
  <2>3. health' \in [Followers -> {"healthy", "degraded"}]
    BY <1>7 DEF FinishSync, TypeOK
  <2>. QED
    BY <1>7, <2>2, <2>3, NoTasks DEF FinishSync, TypeOK, RequestInv, source, account
<1>8. ASSUME NEW f \in Followers, SyncStep(f) \/ FindFails(f)
      PROVE  TypeOK' /\ RequestInv'
  BY <1>8, SyncType
<1>9. ASSUME NEW f \in Followers, NEW side \in Sides, FollowerMoves(f, side)
      PROVE  TypeOK' /\ RequestInv'
  BY <1>9 DEF FollowerMoves, Move, TypeOK, RequestInv, source, intake, engine, tasks
<1>10. CASE Repeat
  <2>1. [last EXCEPT !.copy = 1] \in Event
    BY <1>10, NoneAssumption DEF Repeat, TypeOK, Event
  <2>. QED  BY <1>10, <2>1 DEF Repeat, TypeOK, RequestInv, source, engine, tasks, account
<1>11. CASE RestartSync
  <2>1. stream' \in Seq(Event) /\ last' \in Event \cup {None}
    BY <1>11, DisconnectType DEF RestartSync
  <2>. QED  BY <1>11, <2>1, NoTasks DEF RestartSync, TypeOK, RequestInv, source, account
<1>12. CASE LoseConnection
  <2>1. PICK n \in (IF request = None THEN 0 ELSE 1) .. Len(stream) - 1 : Disconnect(n)
    BY <1>12 DEF LoseConnection
  <2>2. n \in 0 .. Len(stream) /\ (request # None => n > 0)
    BY <2>1 DEF TypeOK
  <2>3. /\ stream' \in Seq(Event) /\ last' \in Event \cup {None}
        /\ n > 0 => stream' # << >>
    BY <2>1, <2>2, DisconnectType
  <2>. QED  BY <1>12, <2>2, <2>3 DEF LoseConnection, TypeOK, RequestInv, source, engine, tasks,
                                    account
<1>13. CASE RecordFails
  <2>1. stream' \in Seq(Event) /\ last' \in Event \cup {None}
    BY <1>13, DisconnectType DEF RecordFails
  <2>. QED  BY <1>13, <2>1 DEF RecordFails, IsOffered, TypeOK, RequestInv, source, engine,
                              tasks, account
<1>14. CASE UNCHANGED vars
  BY <1>14 DEF vars, TypeOK, RequestInv, source, intake, engine, tasks, account
<1>. QED
  BY MasterAssumption, <1>1, <1>2, <1>3, <1>4, <1>5, <1>6, <1>7, <1>8, <1>9, <1>10, <1>11,
     <1>12, <1>13, <1>14
  DEF Next, Handle

(* Every reachable state of the sync is well typed; in particular no more  *)
(* than SyncAttempts reads are made for a position.                        *)
THEOREM SyncTypeCorrect == Spec => []TypeOK
BY InitType, StepType, PTL DEF Spec

(***************************************************************************)
(* Fingerprints.                                                           *)
(***************************************************************************)

(* Events of different changes or kinds differ.                            *)
LEMMA FingerprintSeparates ==
    ASSUME NEW e \in Event, NEW g \in Event,
           EventFingerprint(e) = EventFingerprint(g)
    PROVE  e.kind = g.kind /\ e.seq = g.seq
<1>1. CASE e.kind = "execution"
  BY <1>1 DEF EventFingerprint, ExecutionFingerprint,
              OrderFingerprint, PositionFingerprint, Event
<1>2. CASE e.kind = "order"
  BY <1>2 DEF EventFingerprint, ExecutionFingerprint,
              OrderFingerprint, PositionFingerprint, Event
<1>3. CASE e.kind = "position"
  BY <1>3 DEF EventFingerprint, ExecutionFingerprint,
              OrderFingerprint, PositionFingerprint, Event
<1>. QED  BY <1>1, <1>2, <1>3 DEF Event

(* A repeated position has the fingerprint of the first.                   *)
LEMMA RepeatIsKnown ==
    ASSUME NEW e \in Event, e.kind = "position"
    PROVE  EventFingerprint([e EXCEPT !.copy = 1]) = EventFingerprint(e)
<1>1. /\ [e EXCEPT !.copy = 1].kind = "position"
      /\ [e EXCEPT !.copy = 1].seq = e.seq
      /\ [e EXCEPT !.copy = 1].of = e.of
  BY DEF Event
<1>. QED  BY <1>1 DEF EventFingerprint, PositionFingerprint

(***************************************************************************)
(* What taking, marking and adding events does to a stream.                *)
(***************************************************************************)

(* The first event of a stream, and what is left without it.               *)
LEMMA StreamTail ==
    ASSUME TypeOK, stream # << >>
    PROVE  /\ DOMAIN stream = 1 .. Len(stream) /\ Len(stream) \in Nat /\ 1 \in DOMAIN stream
           /\ NextEvent = stream[1]
           /\ DOMAIN Tail(stream) = 1 .. Len(stream) - 1
           /\ Len(Tail(stream)) = Len(stream) - 1
           /\ \A i \in DOMAIN Tail(stream) : i + 1 \in DOMAIN stream /\ Tail(stream)[i] = stream[i + 1]
           /\ Tail(stream) = << >> <=> Len(stream) = 1
           /\ Tail(stream) # << >> => Head(Tail(stream)) = stream[2]
<1>1. stream \in Seq(Event)
  BY DEF TypeOK
<1>2. /\ DOMAIN stream = 1 .. Len(stream) /\ Len(stream) \in Nat /\ 1 \in DOMAIN stream
      /\ NextEvent = stream[1]
  BY <1>1 DEF NextEvent
<1>3. /\ Tail(stream) \in Seq(Event) /\ Len(Tail(stream)) = Len(stream) - 1
      /\ \A i \in 1 .. Len(Tail(stream)) : Tail(stream)[i] = stream[i + 1]
  BY <1>1, HeadTailProperties
<1>4. DOMAIN Tail(stream) = 1 .. Len(stream) - 1
  BY <1>3
<1>5. \A i \in DOMAIN Tail(stream) : i + 1 \in DOMAIN stream /\ Tail(stream)[i] = stream[i + 1]
  BY <1>2, <1>3, <1>4
<1>6. Tail(stream) = << >> <=> Len(stream) = 1
  <2>1. Tail(stream) = << >> => Len(Tail(stream)) = 0
    BY EmptySeq
  <2>2. Tail(stream) # << >> => Len(Tail(stream)) # 0
    BY <1>3, EmptySeq
  <2>. QED  BY <1>2, <1>3, <2>1, <2>2
<1>7. Tail(stream) # << >> => Head(Tail(stream)) = stream[2]
  <2>. SUFFICES ASSUME Tail(stream) # << >>
                PROVE  Head(Tail(stream)) = stream[2]
    OBVIOUS
  <2>1. 1 \in DOMAIN Tail(stream) /\ Head(Tail(stream)) = Tail(stream)[1]
    BY <1>3
  <2>2. 1 + 1 = 2
    OBVIOUS
  <2>. QED  BY <1>5, <2>1, <2>2
<1>. QED  BY <1>2, <1>3, <1>4, <1>5, <1>6, <1>7

(* The parts of a fingerprint that order it.                               *)
LEMMA FingerprintParts ==
    ASSUME NEW e \in Event
    PROVE  /\ EventFingerprint(e)[1] = e.kind
           /\ EventFingerprint(e)[2] = e.seq
<1>1. e.kind = "execution" => EventFingerprint(e) = <<e.kind, e.seq>>
  BY DEF EventFingerprint, ExecutionFingerprint
<1>2. e.kind = "order" => EventFingerprint(e) = <<e.kind, e.seq, e.copy>>
  BY DEF EventFingerprint, OrderFingerprint
<1>3. e.kind = "position" =>
         EventFingerprint(e) = <<e.kind, e.seq, e.of.side, e.of.stop, e.of.lev>>
  BY DEF EventFingerprint, PositionFingerprint
<1>. QED  BY <1>1, <1>2, <1>3 DEF Event

(* The newest position has the fingerprint of the master's.                *)
LEMMA LatestIs ==
    ASSUME NEW e \in Event, e.kind = "position", e.seq = moves, e.of = master
    PROVE  EventFingerprint(e) = Latest
BY DEF EventFingerprint, PositionFingerprint, Latest, PositionReport

LEMMA LatestParts == Latest[1] = "position" /\ Latest[2] = moves
BY DEF PositionFingerprint, Latest, PositionReport

(* The events of the stream.                                               *)
LEMMA StreamEvents ==
    ASSUME TypeOK
    PROVE  /\ stream \in Seq(Event) /\ moves \in Nat
           /\ Len(stream) \in Nat /\ DOMAIN stream = 1 .. Len(stream)
           /\ \A i \in DOMAIN stream : stream[i] \in Event /\ stream[i].seq \in Nat
           /\ last # None => last \in Event /\ last.seq \in Nat
<1>1. stream \in Seq(Event) /\ moves \in Nat /\ last \in Event \cup {None}
  BY DEF TypeOK
<1>2. \A i \in DOMAIN stream : stream[i] \in Event
  BY <1>1
<1>3. \A e \in Event : e.seq \in Nat
  BY DEF Event
<1>. QED  BY <1>1, <1>2, <1>3

(***************************************************************************)
(* The invariants of what was seen, lost and remembered.                   *)
(***************************************************************************)
KnownInv == StreamInv /\ ForwardInv /\ DesiredInv

(* What the position asks for does not depend on the state.                *)
LEMMA DesiredFrame ==
    ASSUME NEW p, UNCHANGED desired
    PROVE  ShouldSync(p)' = ShouldSync(p) /\ IsDesired(p)' = IsDesired(p)
BY DEF ShouldSync, IsDesired, RequestFor

(* New events that were new before, behind no others than before, are      *)
(* still newer than all that were seen.                                    *)
LEMMA ForwardKept ==
    ASSUME ForwardInv, NEW m \in {0, 1},
           \A i \in DOMAIN stream' : IsNew(stream'[i], seen' \cup lost') =>
              /\ i \in Nat \ {0} /\ i + m \in DOMAIN stream
              /\ \A j \in 1 .. i : stream'[j] = stream[j + m],
           \A e : IsNew(e, seen' \cup lost') => IsNew(e, seen \cup lost),
           \A e : IsNew(e, seen') => IsNew(e, seen),
           \A i \in DOMAIN stream, k \in seen' :
              IsNew(stream[i], seen' \cup lost') /\ k \notin seen /\ k[1] = "position"
                  => k[2] < stream[i].seq
    PROVE  ForwardInv'
<1>. SUFFICES ASSUME NEW i \in DOMAIN stream', IsNew(stream'[i], seen' \cup lost')
              PROVE  /\ \A k \in seen' : k[1] = "position" => k[2] < stream'[i].seq
                     /\ \A j \in 1 .. i - 1 :
                           IsNew(stream'[j], seen') => stream'[j].seq < stream'[i].seq
  BY DEF ForwardInv, IsNewest, IsNew
<1>1. /\ i \in Nat \ {0} /\ i + m \in DOMAIN stream /\ stream'[i] = stream[i + m]
      /\ \A j \in 1 .. i - 1 : stream'[j] = stream[j + m]
  OBVIOUS
<1>2. /\ IsNew(stream[i + m], seen \cup lost)
      /\ \A k \in seen : k[1] = "position" => k[2] < stream[i + m].seq
      /\ \A j \in 1 .. (i + m) - 1 :
            IsNew(stream[j], seen) => stream[j].seq < stream[i + m].seq
  BY <1>1 DEF ForwardInv, IsNewest
<1>3. \A j \in 1 .. i - 1 : j + m \in 1 .. (i + m) - 1
  BY <1>1
<1>. QED  BY <1>1, <1>2, <1>3

(* Nothing the invariants speak of changes.                                *)
LEMMA KnownFrame ==
    ASSUME KnownInv, UNCHANGED <<source, intake, desired, request>>
    PROVE  KnownInv'
<1>1. /\ UNCHANGED <<master, moves, stream, last, seen, unsaved, lost, heard, desired, request>>
      /\ ShouldSync(master)' = ShouldSync(master) /\ IsDesired(master)' = IsDesired(master)
  BY DEF source, intake, missing, ShouldSync, IsDesired, RequestFor
<1>2. StreamInv'
  BY <1>1 DEF KnownInv, StreamInv, IsOfMaster, NextIsKnown, NextEvent
<1>3. ForwardInv'
  BY <1>1 DEF KnownInv, ForwardInv, IsNewest
<1>4. DesiredInv'
  BY <1>1 DEF KnownInv, DesiredInv, IsToCome, IsCurrent, Latest
<1>. QED  BY <1>2, <1>3, <1>4 DEF KnownInv

(* The master changes its position: the new one is still to come.          *)
LEMMA KnownMoves ==
    ASSUME TypeOK, RequestInv, KnownInv, NEW new \in Settings, MasterMoves(new)
    PROVE  KnownInv'
<1>1. PICK s \in SetToSeqs(Reports(new)) : stream' = stream \o s
  BY DEF MasterMoves
<1>2. /\ moves' = moves + 1 /\ master' = new
      /\ UNCHANGED <<last, seen, unsaved, lost, heard, desired, request>>
  BY DEF MasterMoves, engine, missing
<1>3. /\ s \in Seq(Event)
      /\ \A i \in DOMAIN s : s[i].seq = moves + 1 /\ s[i].of = new
      /\ \A i, j \in DOMAIN s : i # j => s[i].kind # s[j].kind
      /\ \E i \in DOMAIN s : s[i].kind = "position"
  BY StreamEvents, ReportsType
<1>. DEFINE n == Len(stream)
<1>4. /\ n \in Nat /\ DOMAIN stream = 1 .. n /\ DOMAIN s = 1 .. Len(s) /\ Len(s) \in Nat
      /\ DOMAIN stream' = 1 .. n + Len(s)
      /\ \A i \in DOMAIN stream : i \in DOMAIN stream' /\ stream'[i] = stream[i]
      /\ \A i \in DOMAIN s : n + i \in DOMAIN stream' /\ stream'[n + i] = s[i]
      /\ \A i \in DOMAIN stream' :
            i \in DOMAIN stream \/ (i - n \in DOMAIN s /\ stream'[i] = s[i - n])
  BY <1>1, <1>3, StreamEvents
<1>. HIDE DEF n
<1>5. /\ StreamInv /\ ForwardInv /\ moves \in Nat
      /\ \A i \in DOMAIN stream : stream[i].seq \in Nat /\ stream[i].seq <= moves
  BY StreamEvents DEF KnownInv, StreamInv, IsOfMaster
<1>6. \A k \in seen \cup lost : k[2] \in 0 .. moves
  BY <1>5 DEF StreamInv
<1>7. \A i \in DOMAIN stream' : i \notin DOMAIN stream =>
         /\ i - n \in DOMAIN s /\ stream'[i] = s[i - n]
         /\ stream'[i].seq = moves + 1 /\ stream'[i].of = new
  BY <1>3, <1>4
<1>8. StreamInv'
  <2>1. \A i \in DOMAIN stream' : IsOfMaster(stream[i])'
    BY <1>2, <1>4, <1>5, <1>7 DEF IsOfMaster
  <2>2. last' # None => IsOfMaster(last)' /\ ~ IsNew(last, seen \cup lost)'
    <3>1. last # None => last.seq \in Nat /\ last.seq <= moves /\ ~ IsNew(last, seen \cup lost)
      BY <1>5, StreamEvents DEF StreamInv, IsOfMaster
    <3>. QED  BY <1>2, <1>5, <3>1 DEF IsOfMaster
  <2>3. \A k \in seen' \cup lost' : k[2] \in 0 .. moves'
    BY <1>2, <1>5, <1>6
  <2>4. request' # None => NextIsKnown' /\ unsaved' = {}
    <3>1. request # None => stream # << >> /\ NextEvent' = NextEvent
      BY <1>1, <1>3, StreamEvents DEF RequestInv, NextEvent
    <3>. QED  BY <1>2, <1>5, <3>1 DEF StreamInv, NextIsKnown
  <2>. QED  BY <1>2, <1>5, <2>1, <2>2, <2>3, <2>4 DEF StreamInv
<1>9. ForwardInv'
  <2>. SUFFICES ASSUME NEW i \in DOMAIN stream', IsNew(stream'[i], seen \cup lost)
                PROVE  /\ \A k \in seen : k[1] = "position" => k[2] < stream'[i].seq
                       /\ \A j \in 1 .. i - 1 :
                             IsNew(stream'[j], seen) => stream'[j].seq < stream'[i].seq
    BY <1>2 DEF ForwardInv, IsNewest, IsNew
  <2>1. CASE i \in DOMAIN stream
    <3>1. \A j \in 1 .. i - 1 : stream'[j] = stream[j]
      BY <1>4, <2>1
    <3>. QED  BY <1>4, <1>5, <2>1, <3>1 DEF ForwardInv, IsNewest
  <2>2. CASE i \notin DOMAIN stream
    <3>1. stream'[i].seq = moves + 1 /\ stream'[i].kind = "position"
      BY <1>7, <2>2 DEF IsNew
    <3>2. \A k \in seen : k[2] < stream'[i].seq
      BY <1>5, <1>6, <3>1
    <3>3. ASSUME NEW j \in 1 .. i - 1, IsNew(stream'[j], seen)
          PROVE  stream'[j].seq < stream'[i].seq
      <4>1. j \in DOMAIN stream
        <5>. SUFFICES ASSUME j \notin DOMAIN stream PROVE FALSE
          OBVIOUS
        <5>1. j \in DOMAIN stream' /\ j # i
          BY <1>4
        <5>2. j - n \in DOMAIN s /\ i - n \in DOMAIN s /\ j - n # i - n
          BY <1>4, <1>7, <2>2, <5>1
        <5>3. stream'[j].kind # stream'[i].kind
          BY <1>3, <1>7, <2>2, <5>1, <5>2
        <5>. QED  BY <3>1, <3>3, <5>3 DEF IsNew
      <4>. QED  BY <1>4, <1>5, <3>1, <4>1
    <3>. QED  BY <3>2, <3>3
  <2>. QED  BY <2>1, <2>2
<1>10. IsToCome'
  <2>1. PICK k \in DOMAIN s : s[k].kind = "position"
    BY <1>3
  <2>2. n + k \in DOMAIN stream' /\ stream'[n + k] = s[k] /\ s[k].seq = moves + 1
    BY <1>3, <1>4, <2>1
  <2>3. IsNew(s[k], seen)
    <3>1. s[k] \in Event
      BY <1>3
    <3>2. EventFingerprint(s[k])[2] = moves + 1
      BY <2>2, <3>1, FingerprintParts
    <3>. QED  BY <1>5, <1>6, <2>1, <3>2 DEF IsNew
  <2>. QED  BY <1>2, <2>2, <2>3 DEF IsToCome
<1>. QED  BY <1>8, <1>9, <1>10 DEF KnownInv, DesiredInv

(* An event is repeated that was taken or lost.                            *)
LEMMA KnownRepeat ==
    ASSUME TypeOK, RequestInv, KnownInv, Repeat
    PROVE  KnownInv'
<1>. DEFINE again == [last EXCEPT !.copy = 1]
<1>1. /\ last # None /\ stream' = Append(stream, again) /\ last' = None
      /\ UNCHANGED <<master, moves, seen, unsaved, lost, heard, desired, request>>
  BY DEF Repeat, engine, missing, source
<1>2. /\ last \in Event /\ again \in Event /\ again.seq = last.seq /\ again.kind = last.kind
      /\ again.of = last.of
  BY <1>1, StreamEvents DEF Event
<1>3. ~ IsNew(again, seen \cup lost) /\ IsOfMaster(again)
  BY <1>1, <1>2, RepeatIsKnown DEF KnownInv, StreamInv, IsNew, IsOfMaster
<1>. HIDE DEF again
<1>4. /\ DOMAIN stream \subseteq DOMAIN stream' /\ DOMAIN stream = 1 .. Len(stream)
      /\ Len(stream) \in Nat
      /\ \A i \in DOMAIN stream : stream'[i] = stream[i]
      /\ \A i \in DOMAIN stream' : i \in DOMAIN stream \/ stream'[i] = again
  BY <1>1, <1>2, StreamEvents
<1>5. StreamInv'
  <2>1. request # None => NextEvent' = NextEvent
    BY <1>1, <1>2, StreamEvents DEF RequestInv, NextEvent
  <2>2. \A i \in DOMAIN stream' : IsOfMaster(stream'[i])
    BY <1>3, <1>4 DEF KnownInv, StreamInv
  <2>3. \A i \in DOMAIN stream' : IsOfMaster(stream[i])'
    BY <1>1, <2>2 DEF IsOfMaster
  <2>. QED  BY <1>1, <2>1, <2>3 DEF KnownInv, StreamInv, NextIsKnown
<1>6. ForwardInv'
  <2>1. \A i \in DOMAIN stream' : IsNew(stream'[i], seen' \cup lost') =>
           /\ i \in Nat \ {0} /\ i + 0 \in DOMAIN stream
           /\ \A j \in 1 .. i : stream'[j] = stream[j + 0]
    BY <1>1, <1>3, <1>4
  <2>. QED  BY <1>1, <2>1, ForwardKept DEF KnownInv
<1>7. DesiredInv'
  <2>1. IsToCome => IsToCome'
    BY <1>1, <1>4 DEF IsToCome
  <2>. QED  BY <1>1, <2>1, DesiredFrame DEF KnownInv, DesiredInv, IsCurrent, Latest
<1>. QED  BY <1>5, <1>6, <1>7 DEF KnownInv

(* The next event is taken, one that is known, or no position.             *)
LEMMA KnownPassed ==
    ASSUME TypeOK, KnownInv, stream # << >>, stream' = Tail(stream),
           NextIsKnown \/ NextEvent.kind # "position",
           seen' \in {seen, seen \cup {EventFingerprint(NextEvent)}},
           unsaved' \in {unsaved, {}}, request' = None,
           last' \in {last, None} \/ (last' = NextEvent /\ EventFingerprint(NextEvent) \in seen'),
           UNCHANGED <<source, missing, desired>>
    PROVE  KnownInv'
<1>1. UNCHANGED <<master, moves, lost, heard, desired>>
  BY DEF source, missing
<1>2. /\ NextEvent = stream[1] /\ NextEvent \in Event
      /\ DOMAIN stream = 1 .. Len(stream) /\ Len(stream) \in Nat /\ 1 \in DOMAIN stream
      /\ DOMAIN stream' = 1 .. Len(stream) - 1
      /\ \A i \in DOMAIN stream' : i + 1 \in DOMAIN stream /\ stream'[i] = stream[i + 1]
  BY StreamTail, NextEventType
<1>3. NextEvent.kind = "position" => seen' = seen
  BY DEF NextIsKnown
<1>4. \A i \in DOMAIN stream :
         /\ IsNew(stream[i], seen') <=> IsNew(stream[i], seen)
         /\ IsNew(stream[i], seen) => i # 1
  <2>1. ~ IsNew(NextEvent, seen)
    BY DEF IsNew, NextIsKnown
  <2>2. \A e \in Event : IsNew(e, seen') <=> IsNew(e, seen)
    BY <1>2, <1>3, FingerprintSeparates DEF IsNew
  <2>. QED  BY <1>2, <2>1, <2>2, StreamEvents
<1>5. \A k \in seen' : k \in seen \/ k[1] # "position"
  BY <1>2, <1>3, FingerprintParts
<1>6. StreamInv'
  <2>1. IsOfMaster(NextEvent) /\ \A i \in DOMAIN stream' : IsOfMaster(stream'[i])
    BY <1>2 DEF KnownInv, StreamInv
  <2>2. \A i \in DOMAIN stream' : IsOfMaster(stream[i])'
    BY <1>1, <2>1 DEF IsOfMaster
  <2>3. last' # None => IsOfMaster(last)' /\ ~ IsNew(last, seen \cup lost)'
    <3>1. last' # None => IsOfMaster(last') /\ ~ IsNew(last', seen' \cup lost')
      BY <1>1, <2>1 DEF KnownInv, StreamInv, IsNew
    <3>. QED  BY <1>1, <3>1 DEF IsOfMaster, IsNew
  <2>4. \A k \in seen' \cup lost' : k[2] \in 0 .. moves'
    <3>1. EventFingerprint(NextEvent)[2] \in 0 .. moves
      BY <1>2, <2>1, FingerprintParts DEF IsOfMaster, Event, TypeOK
    <3>. QED  BY <1>1, <3>1 DEF KnownInv, StreamInv
  <2>5. /\ unsaved' \subseteq seen'
        /\ \A k \in unsaved' : k[1] = "position" => k \in lost'
    BY <1>1 DEF KnownInv, StreamInv
  <2>. QED  BY <2>2, <2>3, <2>4, <2>5 DEF StreamInv
<1>7. ForwardInv'
  <2>1. \A i \in DOMAIN stream' :
           /\ i \in Nat \ {0} /\ i + 1 \in DOMAIN stream
           /\ \A j \in 1 .. i : stream'[j] = stream[j + 1]
    BY <1>2
  <2>2. \A e : /\ IsNew(e, seen' \cup lost') => IsNew(e, seen \cup lost)
               /\ IsNew(e, seen') => IsNew(e, seen)
    BY <1>1 DEF IsNew
  <2>. QED  BY <1>5, <2>1, <2>2, ForwardKept DEF KnownInv
<1>8. DesiredInv'
  <2>1. IsToCome => IsToCome'
    <3>. SUFFICES ASSUME IsToCome PROVE IsToCome'
      OBVIOUS
    <3>1. PICK i \in DOMAIN stream : IsNew(stream[i], seen) /\ stream[i].seq = moves
      BY DEF IsToCome
    <3>2. i - 1 \in DOMAIN stream' /\ stream'[i - 1] = stream[i]
      BY <1>2, <1>4, <3>1
    <3>. QED  BY <1>1, <1>4, <3>1, <3>2 DEF IsToCome
  <2>. QED  BY <1>1, <2>1, DesiredFrame DEF KnownInv, DesiredInv, IsCurrent, Latest
<1>. QED  BY <1>6, <1>7, <1>8 DEF KnownInv

(* What a connection takes with it when it ends.                           *)
LEMMA Disconnected ==
    ASSUME TypeOK, KnownInv, NEW n \in 0 .. Len(stream), Disconnect(n), UNCHANGED source
    PROVE  /\ DOMAIN stream' = 1 .. n /\ \A i \in DOMAIN stream' : stream'[i] = stream[i]
           /\ lost \subseteq lost' /\ \A k \in lost' : k[2] \in 0 .. moves
           /\ \A i \in DOMAIN stream : i > n /\ IsNew(stream[i], seen)
                 => EventFingerprint(stream[i]) \in lost'
           /\ last' # None => /\ IsOfMaster(last')
                              /\ last'.kind = "position" =>
                                    EventFingerprint(last') \in seen \cup lost'
           /\ IsToCome => Latest \in lost' \/ \E i \in DOMAIN stream' :
                 IsNew(stream'[i], seen) /\ stream'[i].seq = moves
<1>. DEFINE gone == n + 1 .. Len(stream)
<1>1. /\ stream' = SubSeq(stream, 1, n)
      /\ lost' = lost \cup {EventFingerprint(stream[i]) :
                               i \in {j \in gone : IsNew(stream[j], seen)}}
      /\ last' = last \/ \E i \in gone : last' = stream[i]
  BY DEF Disconnect
<1>2. DOMAIN stream' = 1 .. n /\ \A i \in DOMAIN stream' : stream'[i] = stream[i]
  BY <1>1, StreamEvents
<1>3. \A i \in gone : /\ i \in DOMAIN stream /\ stream[i] \in Event
                      /\ IsOfMaster(stream[i]) /\ stream[i].seq \in 0 .. moves
  BY StreamEvents DEF KnownInv, StreamInv, IsOfMaster
<1>4. \A k \in lost' : k[2] \in 0 .. moves
  BY <1>1, <1>3, FingerprintParts DEF KnownInv, StreamInv
<1>5. \A i \in DOMAIN stream : i > n /\ IsNew(stream[i], seen)
         => EventFingerprint(stream[i]) \in lost'
  <2>1. \A i \in DOMAIN stream : i > n => i \in gone
    BY StreamEvents
  <2>. QED  BY <1>1, <2>1
<1>6. last' # None => /\ IsOfMaster(last')
                      /\ last'.kind = "position" => EventFingerprint(last') \in seen \cup lost'
  <2>1. CASE last' = last
    BY <1>1, <2>1 DEF KnownInv, StreamInv, IsNew
  <2>2. CASE \E i \in gone : last' = stream[i]
    <3>1. PICK i \in gone : last' = stream[i]
      BY <2>2
    <3>. QED  BY <1>3, <1>5, <3>1 DEF IsNew
  <2>. QED  BY <1>1, <2>1, <2>2
<1>7. ASSUME IsToCome
      PROVE  Latest \in lost' \/ \E i \in DOMAIN stream' :
                IsNew(stream'[i], seen) /\ stream'[i].seq = moves
  <2>1. PICK i \in DOMAIN stream : IsNew(stream[i], seen) /\ stream[i].seq = moves
    BY <1>7 DEF IsToCome
  <2>2. CASE i > n
    <3>1. stream[i].kind = "position" /\ stream[i].of = master /\ stream[i] \in Event
      BY <2>1, StreamEvents DEF KnownInv, StreamInv, IsOfMaster, IsNew
    <3>. QED  BY <1>5, <2>1, <2>2, <3>1, LatestIs
  <2>3. CASE ~ i > n
    <3>1. i \in DOMAIN stream'
      BY <1>2, <2>3, StreamEvents
    <3>. QED  BY <1>2, <2>1, <3>1
  <2>. QED  BY <2>2, <2>3
<1>. QED  BY <1>1, <1>2, <1>4, <1>5, <1>6, <1>7

(* The connection ends.                                                    *)
LEMMA KnownLoses ==
    ASSUME TypeOK, RequestInv, KnownInv, LoseConnection
    PROVE  KnownInv'
<1>1. PICK n \in (IF request = None THEN 0 ELSE 1) .. Len(stream) - 1 : Disconnect(n)
  BY DEF LoseConnection
<1>2. UNCHANGED <<source, master, moves, seen, unsaved, heard, desired, request>>
  BY DEF LoseConnection, source, engine
<1>3. n \in 0 .. Len(stream) /\ n < Len(stream)
  BY <1>1, StreamEvents
<1>4. /\ DOMAIN stream' = 1 .. n /\ \A i \in DOMAIN stream' : stream'[i] = stream[i]
      /\ lost \subseteq lost' /\ \A k \in lost' : k[2] \in 0 .. moves
      /\ last' # None => /\ IsOfMaster(last')
                         /\ last'.kind = "position" =>
                               EventFingerprint(last') \in seen \cup lost'
      /\ IsToCome => Latest \in lost' \/ \E i \in DOMAIN stream' :
            IsNew(stream'[i], seen) /\ stream'[i].seq = moves
  BY <1>1, <1>2, <1>3, Disconnected
<1>5. DOMAIN stream' \subseteq DOMAIN stream /\ DOMAIN stream' \subseteq Nat \ {0}
  BY <1>3, <1>4, StreamEvents
<1>6. StreamInv'
  <2>1. \A i \in DOMAIN stream' : IsOfMaster(stream[i])'
    BY <1>2, <1>4, <1>5 DEF KnownInv, StreamInv, IsOfMaster
  <2>2. last' # None => IsOfMaster(last)' /\ ~ IsNew(last, seen \cup lost)'
    BY <1>2, <1>4 DEF IsOfMaster, IsNew
  <2>3. request # None => NextEvent' = NextEvent
    <3>. SUFFICES ASSUME request # None PROVE NextEvent' = NextEvent
      OBVIOUS
    <3>1. 1 \in DOMAIN stream' /\ stream'[1] = stream[1] /\ stream # << >>
      BY <1>1, <1>3, <1>4 DEF RequestInv
    <3>2. stream' = SubSeq(stream, 1, n) /\ n \in Nat \ {0}
      BY <1>1, <1>3, <1>4, <3>1 DEF Disconnect
    <3>3. stream' \in Seq(Event) /\ stream' # << >>
      BY <1>3, <3>2, StreamEvents
    <3>. QED  BY <3>1, <3>3, StreamEvents DEF NextEvent
  <2>. QED  BY <1>2, <1>4, <2>1, <2>2, <2>3 DEF KnownInv, StreamInv, NextIsKnown
<1>7. ForwardInv'
  <2>1. \A i \in DOMAIN stream' :
           /\ i \in Nat \ {0} /\ i + 0 \in DOMAIN stream
           /\ \A j \in 1 .. i : stream'[j] = stream[j + 0]
    BY <1>3, <1>4, <1>5
  <2>2. \A e : IsNew(e, seen' \cup lost') => IsNew(e, seen \cup lost)
    BY <1>2, <1>4 DEF IsNew
  <2>. QED  BY <1>2, <2>1, <2>2, ForwardKept DEF KnownInv
<1>8. DesiredInv'
  <2>1. IsToCome => IsToCome' \/ Latest \in lost'
    BY <1>2, <1>4 DEF IsToCome
  <2>. QED  BY <1>2, <1>4, <2>1, DesiredFrame DEF KnownInv, DesiredInv, IsCurrent, Latest
<1>. QED  BY <1>6, <1>7, <1>8 DEF KnownInv

(* Nothing is left to come, and what is forgotten was lost.                *)
LEMMA KnownEmptied ==
    ASSUME TypeOK, KnownInv, Disconnect(0), request' = None, UNCHANGED <<source, heard>>,
           desired' \in {desired, None},
           \/ seen' = seen \ unsaved /\ unsaved' = {}
           \/ /\ stream # << >> /\ ~ NextIsKnown
              /\ seen' = seen \cup {EventFingerprint(NextEvent)}
              /\ unsaved' \in {{}, unsaved \cup {EventFingerprint(NextEvent)}}
    PROVE  KnownInv'
<1>1. UNCHANGED <<master, moves, heard>> /\ 0 \in 0 .. Len(stream)
  BY StreamEvents DEF source
<1>2. /\ DOMAIN stream' = {} /\ lost \subseteq lost' /\ \A k \in lost' : k[2] \in 0 .. moves
      /\ \A i \in DOMAIN stream : i > 0 /\ IsNew(stream[i], seen)
            => EventFingerprint(stream[i]) \in lost'
      /\ last' # None => /\ IsOfMaster(last')
                         /\ last'.kind = "position" =>
                               EventFingerprint(last') \in seen \cup lost'
      /\ IsToCome => Latest \in lost'
  <2>1. 1 .. 0 = {}
    OBVIOUS
  <2>. QED  BY <1>1, <2>1, Disconnected
<1>3. \A k \in seen : k[1] = "position" => k \in seen' \cup lost'
  BY <1>2 DEF KnownInv, StreamInv
<1>4. stream # << >> => /\ NextEvent \in Event
                        /\ EventFingerprint(NextEvent)[1] = NextEvent.kind
                        /\ EventFingerprint(NextEvent)[2] \in 0 .. moves
                        /\ IsNew(NextEvent, seen) => EventFingerprint(NextEvent) \in lost'
  <2>. SUFFICES ASSUME stream # << >>
                PROVE  /\ NextEvent \in Event
                       /\ EventFingerprint(NextEvent)[1] = NextEvent.kind
                       /\ EventFingerprint(NextEvent)[2] \in 0 .. moves
                       /\ IsNew(NextEvent, seen) => EventFingerprint(NextEvent) \in lost'
    OBVIOUS
  <2>1. 1 \in DOMAIN stream /\ NextEvent = stream[1] /\ NextEvent \in Event
    BY StreamTail, NextEventType
  <2>2. NextEvent.seq \in 0 .. moves
    BY <2>1, StreamEvents DEF KnownInv, StreamInv, IsOfMaster
  <2>. QED  BY <1>2, <2>1, <2>2, FingerprintParts
<1>5. StreamInv'
  <2>1. last' # None => IsOfMaster(last)' /\ ~ IsNew(last, seen \cup lost)'
    <3>1. last' # None => last' \in Event
      <4>1. last' = last \/ \E i \in DOMAIN stream : last' = stream[i]
        BY StreamEvents DEF Disconnect
      <4>. QED  BY <4>1, StreamEvents
    <3>2. last' # None /\ last'.kind = "position" =>
             EventFingerprint(last') \in seen' \cup lost'
      BY <1>2, <1>3, <3>1, FingerprintParts
    <3>. QED  BY <1>1, <1>2, <3>2 DEF IsOfMaster, IsNew
  <2>2. \A k \in seen' \cup lost' : k[2] \in 0 .. moves'
    BY <1>1, <1>2, <1>4 DEF KnownInv, StreamInv
  <2>3. /\ unsaved' \subseteq seen'
        /\ \A k \in unsaved' : k[1] = "position" => k \in lost'
    BY <1>2, <1>4 DEF KnownInv, StreamInv, NextIsKnown, IsNew
  <2>. QED  BY <1>2, <2>1, <2>2, <2>3 DEF StreamInv
<1>6. ForwardInv'
  BY <1>2 DEF ForwardInv
<1>7. DesiredInv'
  <2>1. Latest' = Latest
    BY <1>1 DEF Latest
  <2>2. IsCurrent => IsCurrent'
    BY <1>1, DesiredFrame DEF IsCurrent
  <2>3. Latest \in seen => Latest \in seen' \cup lost'
    BY <1>3, LatestParts
  <2>. QED  BY <1>1, <1>2, <2>1, <2>2, <2>3 DEF KnownInv, DesiredInv
<1>. QED  BY <1>5, <1>6, <1>7 DEF KnownInv

(* A position is handled.  Either it is the newest one, and what it asks   *)
(* for is remembered, or the newest one is still to come or was lost, or   *)
(* it was seen before, and then this one, older, had been lost.            *)
LEMMA KnownHeard ==
    ASSUME TypeOK, KnownInv, Accept("position"), Hear, UNCHANGED source,
           \/ Taken /\ request' = None
           \/ UNCHANGED <<stream, last>>,
           NextEvent.of = master => IsCurrent'
    PROVE  KnownInv'
<1>1. /\ stream # << >> /\ NextEvent.kind = "position" /\ ~ NextIsKnown
      /\ seen' = seen \cup {EventFingerprint(NextEvent)} /\ unsaved' = {}
      /\ UNCHANGED <<master, moves>> /\ heard' = EventFingerprint(NextEvent)
      /\ lost' \in {lost, lost \ {EventFingerprint(NextEvent)}}
      /\ ~ IsNewest(NextEvent) => lost' = lost
  BY DEF Accept, IsOffered, Hear, source
<1>2. /\ NextEvent = stream[1] /\ NextEvent \in Event /\ 1 \in DOMAIN stream
      /\ DOMAIN stream = 1 .. Len(stream) /\ Len(stream) \in Nat
      /\ IsOfMaster(NextEvent) /\ NextEvent.seq \in 0 .. moves /\ moves \in Nat
      /\ EventFingerprint(NextEvent)[1] = "position"
      /\ EventFingerprint(NextEvent)[2] = NextEvent.seq
  BY <1>1, StreamTail, NextEventType, StreamEvents, FingerprintParts
  DEF KnownInv, StreamInv, IsOfMaster
<1>3. PICK m \in {0, 1} :
         /\ m = 0 => stream' = stream /\ last' = last
         /\ m = 1 => /\ stream' = Tail(stream) /\ request' = None
                     /\ last' \in {NextEvent, None}
  BY DEF Taken
<1>4. /\ \A i \in DOMAIN stream' : i \in Nat \ {0} /\ i + m \in DOMAIN stream
      /\ \A i \in DOMAIN stream' : stream'[i] = stream[i + m]
      /\ \A i \in DOMAIN stream : i # 1 => i - m \in DOMAIN stream'
      /\ \A i \in DOMAIN stream' : 1 .. i \subseteq DOMAIN stream'
  <2>1. CASE m = 0
    BY <1>2, <1>3, <2>1
  <2>2. CASE m = 1
    <3>1. /\ DOMAIN Tail(stream) = 1 .. Len(stream) - 1
          /\ \A i \in DOMAIN Tail(stream) : /\ i + 1 \in DOMAIN stream
                                            /\ Tail(stream)[i] = stream[i + 1]
      BY <1>1, StreamTail
    <3>. QED  BY <1>2, <1>3, <2>2, <3>1
  <2>. QED  BY <1>3, <2>1, <2>2
<1>5. \A i \in DOMAIN stream : i # 1 => i - m \in DOMAIN stream' /\ stream'[i - m] = stream[i]
  <2>1. \A i \in DOMAIN stream : (i - m) + m = i
    BY <1>2
  <2>. QED  BY <1>4, <2>1
<1>6. \A e : /\ IsNew(e, seen' \cup lost') => IsNew(e, seen \cup lost)
             /\ IsNew(e, seen') => IsNew(e, seen)
  BY <1>1 DEF IsNew
<1>7. StreamInv'
  <2>1. \A i \in DOMAIN stream' : IsOfMaster(stream[i])'
    <3>1. \A i \in DOMAIN stream' : IsOfMaster(stream'[i])
      BY <1>4 DEF KnownInv, StreamInv
    <3>. QED  BY <1>1, <3>1 DEF IsOfMaster
  <2>2. last' # None => IsOfMaster(last)' /\ ~ IsNew(last, seen \cup lost)'
    <3>1. last' # None => IsOfMaster(last') /\ ~ IsNew(last', seen' \cup lost')
      BY <1>1, <1>2, <1>3 DEF KnownInv, StreamInv, IsNew
    <3>. QED  BY <1>1, <3>1 DEF IsOfMaster, IsNew
  <2>3. \A k \in seen' \cup lost' : k[2] \in 0 .. moves'
    BY <1>1, <1>2 DEF KnownInv, StreamInv
  <2>4. request' # None => NextIsKnown'
    BY <1>1, <1>3 DEF NextIsKnown, NextEvent
  <2>. QED  BY <1>1, <2>1, <2>2, <2>3, <2>4 DEF StreamInv
<1>8. ForwardInv'
  <2>1. \A i \in DOMAIN stream' :
           /\ i \in Nat \ {0} /\ i + m \in DOMAIN stream
           /\ \A j \in 1 .. i : stream'[j] = stream[j + m]
    BY <1>4
  <2>2. ASSUME NEW i \in DOMAIN stream, NEW k \in seen', IsNew(stream[i], seen' \cup lost'),
               k \notin seen
        PROVE  k[2] < stream[i].seq
    <3>1. k[2] = NextEvent.seq
      BY <1>1, <1>2, <2>2
    <3>2. i # 1
      BY <1>1, <1>2, <2>2 DEF IsNew
    <3>3. IsNew(stream[1], seen) /\ 1 \in 1 .. i - 1 /\ IsNew(stream[i], seen \cup lost)
      BY <1>1, <1>2, <1>6, <2>2, <3>2 DEF IsNew, NextIsKnown
    <3>. QED  BY <1>2, <3>1, <3>3 DEF KnownInv, ForwardInv
  <2>. QED  BY <1>6, <2>1, <2>2, ForwardKept DEF KnownInv
<1>9. DesiredInv'
  <2>0. Latest' = Latest
    BY <1>1 DEF Latest
  <2>1. CASE NextEvent.seq = moves
    <3>1. NextEvent.of = master
      BY <1>1, <1>2, <2>1 DEF IsOfMaster
    <3>2. EventFingerprint(NextEvent) = Latest
      BY <1>1, <1>2, <2>1, <3>1, LatestIs
    <3>. QED  BY <1>1, <2>0, <3>1, <3>2 DEF DesiredInv
  <2>2. CASE NextEvent.seq # moves
    <3>0. EventFingerprint(NextEvent) # Latest /\ moves # 0 /\ NextEvent.seq < moves
      BY <1>2, <2>2, LatestParts
    <3>1. CASE IsToCome
      <4>1. PICK i \in DOMAIN stream : IsNew(stream[i], seen) /\ stream[i].seq = moves
        BY <3>1 DEF IsToCome
      <4>2. i # 1
        BY <1>2, <2>2, <4>1
      <4>3. IsNew(stream[i], seen')
        BY <1>1, <1>2, <2>2, <4>1, FingerprintSeparates, StreamEvents DEF IsNew
      <4>4. i - m \in DOMAIN stream' /\ stream'[i - m] = stream[i]
        BY <1>5, <4>2
      <4>5. IsToCome'
        BY <1>1, <4>1, <4>3, <4>4 DEF IsToCome
      <4>. QED  BY <4>5 DEF DesiredInv
    <3>2. CASE Latest \in lost
      BY <1>1, <2>0, <3>0, <3>2 DEF DesiredInv
    <3>3. CASE Latest \in seen
      <4>1. ~ IsNewest(NextEvent)
        BY <3>0, <3>3, <1>2, LatestParts DEF IsNewest
      <4>2. EventFingerprint(NextEvent) \in lost
        <5>1. IsNew(NextEvent, seen \cup lost) => IsNewest(NextEvent)
          BY <1>2 DEF KnownInv, ForwardInv
        <5>. QED  BY <1>1, <4>1, <5>1 DEF IsNew, NextIsKnown
      <4>. QED  BY <1>1, <2>0, <3>3, <4>1, <4>2 DEF DesiredInv
    <3>. QED  BY <3>0, <3>1, <3>2, <3>3 DEF KnownInv, DesiredInv
  <2>. QED  BY <2>1, <2>2
<1>. QED  BY <1>7, <1>8, <1>9 DEF KnownInv

LEMMA StepKnown == TypeOK /\ RequestInv /\ KnownInv /\ [Next]_vars => KnownInv'
<1>. SUFFICES ASSUME TypeOK, RequestInv, KnownInv, [Next]_vars PROVE KnownInv'
  OBVIOUS
<1>1. ASSUME NEW new \in Settings, MasterMoves(new) PROVE KnownInv'
  BY <1>1, KnownMoves
<1>2. CASE SuppressDuplicate
  <2>1. /\ stream # << >> /\ stream' = Tail(stream) /\ NextIsKnown /\ request' = None
        /\ UNCHANGED <<source, missing, last, seen, unsaved, desired>>
    BY <1>2 DEF SuppressDuplicate, engine
  <2>. QED  BY <2>1, KnownPassed
<1>3. CASE HandleOrder \/ HandleExecution
  <2>1. /\ stream # << >> /\ stream' = Tail(stream) /\ NextEvent.kind # "position"
        /\ seen' = seen \cup {EventFingerprint(NextEvent)} /\ unsaved' = {}
        /\ last' \in {NextEvent, None} /\ request' = None
        /\ UNCHANGED <<source, missing, desired>>
    BY <1>3 DEF HandleOrder, HandleExecution, Accept, IsOffered, Taken, engine
  <2>. QED  BY <2>1, KnownPassed
<1>4. CASE IgnorePosition
  <2>1. /\ Accept("position") /\ Taken /\ Hear /\ UNCHANGED <<source, engine>>
        /\ request' = None /\ UNCHANGED desired
    BY <1>4 DEF IgnorePosition, Accept, IsOffered, IsOffered, engine
  <2>2. NextEvent.of = master => IsCurrent'
    <3>. SUFFICES ASSUME NextEvent.of = master PROVE IsCurrent'
      OBVIOUS
    <3>1. IsCurrent
      BY <1>4 DEF IgnorePosition, IsUnchanged, Fingerprint, IsCurrent, IsDesired, RequestFor
    <3>. QED  BY <2>1, <3>1, DesiredFrame DEF IsCurrent, source
  <2>. QED  BY <2>1, <2>2, KnownHeard
<1>5. CASE DispatchSync
  <2>1. /\ Accept("position") /\ Hear /\ UNCHANGED <<source, stream, last, trigger>>
        /\ desired' = RequestFor(NextEvent.of)
    BY <1>5 DEF DispatchSync
  <2>2. NextEvent.of = master => IsCurrent'
    BY <2>1 DEF IsCurrent, IsDesired, RequestFor, source
  <2>. QED  BY <2>1, <2>2, KnownHeard
<1>6. CASE FinishSync
  <2>1. /\ stream # << >> /\ stream' = Tail(stream) /\ NextIsKnown /\ request' = None
        /\ last' \in {NextEvent, None}
        /\ UNCHANGED <<source, missing, seen, unsaved, desired>>
    BY <1>6 DEF FinishSync, Taken, RequestInv, KnownInv, StreamInv
  <2>2. EventFingerprint(NextEvent) \in seen'
    BY <2>1 DEF NextIsKnown
  <2>. QED  BY <2>1, <2>2, KnownPassed
<1>7. ASSUME NEW f \in Followers, SyncStep(f) \/ FindFails(f) PROVE KnownInv'
  BY <1>7, KnownFrame DEF SyncStep, StartSync, SetLeverage, FindPosition, SetStop, FindFails,
                          engine
<1>8. ASSUME NEW f \in Followers, NEW side \in Sides, FollowerMoves(f, side) PROVE KnownInv'
  BY <1>8, KnownFrame DEF FollowerMoves, engine
<1>9. CASE Repeat
  BY <1>9, KnownRepeat
<1>10. CASE LoseConnection
  BY <1>10, KnownLoses
<1>11. CASE RecordFails
  BY <1>11, KnownEmptied DEF RecordFails, IsOffered, engine
<1>12. CASE RestartSync
  BY <1>12, KnownEmptied DEF RestartSync, IsOffered
<1>13. CASE UNCHANGED vars
  BY <1>13, KnownFrame DEF vars, engine
<1>. QED
  BY MasterAssumption, <1>1, <1>2, <1>3, <1>4, <1>5, <1>6, <1>7, <1>8, <1>9, <1>10, <1>11,
     <1>12, <1>13
  DEF Next, Handle

LEMMA InitKnown == Init => KnownInv
<1>. SUFFICES ASSUME Init PROVE KnownInv
  OBVIOUS
<1>1. stream = << >> /\ last = None /\ seen = {} /\ unsaved = {} /\ lost = {}
      /\ moves = 0 /\ desired = None /\ request = None
  BY DEF Init
<1>2. StreamInv /\ ForwardInv
  BY <1>1 DEF StreamInv, ForwardInv
<1>3. DesiredInv
  BY <1>1 DEF DesiredInv, IsCurrent
<1>. QED  BY <1>2, <1>3 DEF KnownInv

(* execution_listener.py, position_sync_state.py: over repeated and        *)
(* reordered events, failing calls, ended connections and processes and    *)
(* checkpoints that raise, once everything is handled the desired state    *)
(* that suppresses further syncs is what the master's position asks for,   *)
(* unless the event of this position was lost and not repeated in time, or *)
(* the one handled last had been, and was repeated after newer ones.       *)
THEOREM DesiredStateIsCurrent == Spec => []DesiredIsCurrent
<1>1. KnownInv => DesiredIsCurrent
  BY DEF KnownInv, DesiredInv, DesiredIsCurrent, IsToCome, IsCurrent, Settled
<1>. QED  BY <1>1, InitKnown, InitType, StepType, StepKnown, PTL DEF Spec

(***************************************************************************)
(* The desired state goes forward.                                         *)
(***************************************************************************)

(* A request is only made where a new position is dispatched.              *)
LEMMA OnlyDispatchRequests ==
    ASSUME [Next]_vars, request = None, request' # None
    PROVE  DispatchSync
BY DEF Next, Handle, MasterMoves, SuppressDuplicate, HandleOrder, HandleExecution,
       IgnorePosition, FinishSync, SyncStep, StartSync, SetLeverage, FindPosition, SetStop,
       FindFails, FollowerMoves, Repeat, LoseConnection, RecordFails, RestartSync, vars, engine

(* event_models.py and dedupe.py: though events are repeated after newer   *)
(* ones, and over ended connections and processes, no sync is dispatched   *)
(* for a position older than one that was seen, unless it had been lost:   *)
(* no follower is set back to an earlier state by a position event that    *)
(* was handled before.                                                     *)
THEOREM DesiredNeverGoesBack == Spec => DesiredGoesForward
<1>1. KnownInv /\ TypeOK /\ [Next]_vars =>
         [request = None /\ request' # None =>
             IsNewest(NextEvent) \/ EventFingerprint(NextEvent) \in lost]_vars
  <2>. SUFFICES ASSUME ForwardInv, TypeOK, [Next]_vars, request = None, request' # None,
                       EventFingerprint(NextEvent) \notin lost
                PROVE  IsNewest(NextEvent)
    BY DEF KnownInv
  <2>1. Accept("position")
    BY OnlyDispatchRequests DEF DispatchSync
  <2>2. 1 \in DOMAIN stream /\ stream[1] = NextEvent /\ IsNew(NextEvent, seen \cup lost)
    BY <2>1, StreamTail DEF Accept, IsOffered, NextIsKnown, IsNew
  <2>. QED  BY <2>2 DEF ForwardInv
<1>. QED  BY <1>1, InitKnown, InitType, StepType, StepKnown, PTL DEF Spec, DesiredGoesForward

(***************************************************************************)
(* What is reported as synced is.                                          *)
(***************************************************************************)

(* The steps that touch what the invariant speaks of, and those that end   *)
(* a task.                                                                 *)
LEMMA StepLevered ==
    TypeOK /\ RequestInv /\ LeveredInv /\ [Next]_vars => LeveredInv'
<1>. SUFFICES ASSUME TypeOK, RequestInv, LeveredInv, [Next]_vars PROVE LeveredInv'
  OBVIOUS
<1>1. ASSUME UNCHANGED <<task, failed, lev, request>> PROVE LeveredInv'
  BY <1>1 DEF LeveredInv, HasLeverage
<1>2. ASSUME \A f \in Followers : task'[f] \notin {"finding", "stopping"} PROVE LeveredInv'
  BY <1>2 DEF LeveredInv
<1>3. ASSUME NEW f \in Followers, SyncStep(f) \/ FindFails(f) PROVE LeveredInv'
  <2>. USE DEF LeveredInv, HasLeverage
  <2>0. /\ task \in [Followers -> Phases] /\ lev \in [Followers -> Leverages]
        /\ failed \in [Followers -> BOOLEAN]
    BY DEF TypeOK
  <2>1. CASE StartSync(f)
    BY <2>0, <2>1 DEF StartSync, account, engine
  <2>2. CASE SetLeverage(f)
    <3>1. PICK ok \in BOOLEAN :
             /\ lev' \in {[lev EXCEPT ![f] = request.lev]} \cup (IF ok THEN {} ELSE {lev})
             /\ failed' = [failed EXCEPT ![f] = ~ ok]
      BY <2>2 DEF SetLeverage
    <3>2. \A g \in Followers : g # f => /\ task'[g] = task[g] /\ lev'[g] = lev[g]
                                        /\ failed'[g] = failed[g]
      BY <2>0, <2>2, <3>1 DEF SetLeverage, Complete, Return
    <3>3. ~ failed'[f] => lev'[f] = request.lev
      BY <2>0, <3>1
    <3>4. request' = request
      BY <2>2 DEF SetLeverage, engine
    <3>. QED  BY <3>2, <3>3, <3>4
  <2>3. CASE FindPosition(f)
    <3>1. /\ UNCHANGED <<lev, failed, request>>
          /\ \A g \in Followers : task'[g] \in {"finding", "stopping"} =>
                task[g] \in {"finding", "stopping"}
      BY <2>0, <2>3 DEF FindPosition, Again, Return, account, engine
    <3>. QED  BY <3>1
  <2>4. CASE SetStop(f) \/ FindFails(f)
    <3>1. /\ UNCHANGED <<lev, failed, request>>
          /\ \A g \in Followers : task'[g] \in {"finding", "stopping"} =>
                task[g] \in {"finding", "stopping"}
      BY <2>0, <2>4 DEF SetStop, FindFails, Complete, Return, account, engine
    <3>. QED  BY <3>1
  <2>. QED  BY <1>3, <2>1, <2>2, <2>3, <2>4 DEF SyncStep
<1>4. ASSUME NEW new \in Settings, MasterMoves(new) PROVE LeveredInv'
  BY <1>1, <1>4 DEF MasterMoves, engine, tasks, account
<1>5. CASE SuppressDuplicate \/ HandleOrder \/ HandleExecution \/ IgnorePosition
  BY <1>1, <1>5 DEF SuppressDuplicate, HandleOrder, HandleExecution, IgnorePosition,
                    engine, tasks, account
<1>6. CASE DispatchSync \/ FinishSync \/ RestartSync
  BY <1>2, <1>6 DEF DispatchSync, FinishSync, RestartSync
<1>7. ASSUME NEW f \in Followers, NEW side \in Sides, FollowerMoves(f, side) PROVE LeveredInv'
  BY <1>1, <1>7 DEF FollowerMoves, Move, engine, tasks
<1>8. CASE Repeat \/ LoseConnection \/ RecordFails
  BY <1>1, <1>8 DEF Repeat, LoseConnection, RecordFails, engine, tasks, account
<1>9. CASE UNCHANGED vars
  BY <1>1, <1>9 DEF vars, engine, tasks, account
<1>. QED  BY MasterAssumption, <1>3, <1>4, <1>5, <1>6, <1>7, <1>8, <1>9 DEF Next, Handle

(* What one follower's step reports.                                       *)
LEMMA ReportedIsSet ==
    ASSUME TypeOK, RequestInv, LeveredInv, NEW g \in Followers, SyncStep(g) \/ FindFails(g),
           NEW f \in Followers, task[f] # "done", task'[f] = "done",
           result'[f].name = "synced"
    PROVE  /\ HasLeverage => lev'[f] = request.lev
           /\ HasTpsl => /\ pos[f] # "none"
                         /\ <<stop'[f], trig'[f]>> = <<request.stop, request.trigger>>
<1>0. /\ task \in [Followers -> Phases] /\ lev \in [Followers -> Leverages]
      /\ failed \in [Followers -> BOOLEAN]
      /\ result \in [Followers -> [name : Results, skipped : BOOLEAN]]
      /\ stop \in [Followers -> Stops \cup {0}] /\ trig \in [Followers -> Triggers]
  BY DEF TypeOK
<1>1. CASE StartSync(g)
  BY <1>0, <1>1 DEF StartSync
<1>2. CASE SetLeverage(g)
  <2>1. f = g /\ ~ HasTpsl
    BY <1>0, <1>2 DEF SetLeverage, Complete, Return
  <2>2. PICK ok \in BOOLEAN :
           /\ lev' \in {[lev EXCEPT ![f] = request.lev]} \cup (IF ok THEN {} ELSE {lev})
           /\ Complete(f, ~ ok, ok)
    BY <1>2, <2>1 DEF SetLeverage
  <2>3. result'[f].name = IF ok THEN "synced" ELSE "partial_error"
    BY <1>0, <2>2 DEF Complete, Return
  <2>4. lev'[f] = request.lev
    BY <1>0, <2>2, <2>3
  <2>. QED  BY <2>1, <2>4
<1>3. CASE FindPosition(g)
  BY <1>0, <1>3 DEF FindPosition, Again, Return
<1>4. CASE FindFails(g)
  BY <1>0, <1>4 DEF FindFails, Return
<1>5. CASE SetStop(g)
  <2>1. f = g /\ task[f] = "stopping" /\ UNCHANGED lev
    BY <1>0, <1>5 DEF SetStop, Complete, Return
  <2>2. ~ Complete(f, TRUE, FALSE)
    BY <1>0 DEF Complete, Return
  <2>3. /\ pos[f] # "none" /\ Complete(f, failed[f], TRUE)
        /\ stop' = [stop EXCEPT ![f] = request.stop]
        /\ trig' = [trig EXCEPT ![f] = request.trigger]
    BY <1>5, <2>1, <2>2 DEF SetStop
  <2>4. ~ failed[f]
    BY <1>0, <2>3 DEF Complete, Return
  <2>5. HasLeverage => lev[f] = request.lev
    BY <2>1, <2>4 DEF LeveredInv
  <2>. QED  BY <1>0, <2>1, <2>3, <2>5
<1>. QED  BY <1>1, <1>2, <1>3, <1>4, <1>5 DEF SyncStep

(* order_executor.py: though calls fail, or raise and are carried out all  *)
(* the same, and positions come and go, a follower whose sync is reported  *)
(* as synced has the leverage and the stop of the request at that moment.  *)
THEOREM SyncedMeansSet == Spec => SyncedIsSet
<1>1. Init => LeveredInv
  BY DEF Init, LeveredInv
<1>. DEFINE Reported ==
       \A f \in Followers :
          task[f] # "done" /\ task'[f] = "done" /\ result'[f].name = "synced" =>
              /\ HasLeverage => lev'[f] = request.lev
              /\ HasTpsl => /\ pos[f] # "none"
                            /\ <<stop'[f], trig'[f]>> = <<request.stop, request.trigger>>
<1>2. TypeOK /\ RequestInv /\ LeveredInv /\ [Next]_vars => [Reported]_vars
  <2>. SUFFICES ASSUME TypeOK, RequestInv, LeveredInv, Next PROVE Reported
    OBVIOUS
  <2>1. CASE \E g \in Followers : SyncStep(g) \/ FindFails(g)
    BY <2>1, ReportedIsSet
  <2>2. ASSUME UNCHANGED task PROVE Reported
    BY <2>2
  <2>3. ASSUME NEW t, t # "done", task' = [f \in Followers |-> t] PROVE Reported
    BY <2>3
  <2>4. CASE DispatchSync \/ FinishSync \/ RestartSync
    BY <2>3, <2>4 DEF DispatchSync, FinishSync, RestartSync
  <2>5. CASE \/ \E new \in MasterSettings : MasterMoves(new)
             \/ SuppressDuplicate \/ HandleOrder \/ HandleExecution \/ IgnorePosition
             \/ \E f \in Followers, side \in Sides : FollowerMoves(f, side)
             \/ Repeat \/ LoseConnection \/ RecordFails
    BY <2>2, <2>5 DEF MasterMoves, SuppressDuplicate, HandleOrder, HandleExecution,
                      IgnorePosition, FollowerMoves, Repeat, LoseConnection, RecordFails,
                      tasks
  <2>. QED  BY <2>1, <2>4, <2>5 DEF Next, Handle
<1>3. SyncedIsSet <=> [][Reported]_vars
  BY PTL DEF SyncedIsSet
<1>. HIDE DEF Reported
<1>. QED  BY <1>1, <1>2, <1>3, InitType, StepType, StepLevered, PTL DEF Spec

(***************************************************************************)
(* Alignment: without faults, with topics in order, and a master that does *)
(* not close its position.  First, the events of one change.               *)
(***************************************************************************)

(* Which events a change is reported by.                                   *)
LEMMA ReportedKinds ==
    ASSUME NEW new \in Settings
    PROVE  /\ (\E r \in Reports(new) : r.kind = "execution") <=> new.side # master.side
           /\ (\E r \in Reports(new) : r.kind = "order") <=>
                 new.stop # 0 /\ <<new.stop, new.trigger>> # <<master.stop, master.trigger>>
           /\ \A r \in Reports(new) : /\ r.kind \in {"execution", "order", "position"}
                                      /\ r.of = new
<1>. DEFINE execution == [kind |-> "execution", of |-> new, seq |-> moves + 1, copy |-> 0]
            order     == [kind |-> "order", of |-> new, seq |-> moves + 1, copy |-> 0]
            position  == [kind |-> "position", of |-> new, seq |-> moves + 1, copy |-> 0]
            newSide   == new.side # master.side
            newStop   == /\ new.stop # 0
                         /\ <<new.stop, new.trigger>> # <<master.stop, master.trigger>>
<1>1. Reports(new) = (IF newSide THEN {execution} ELSE {})
                     \cup (IF newStop THEN {order} ELSE {})
                     \cup (IF TRUE THEN {position} ELSE {})
  BY DEF Reports, PositionReport
<1>2. /\ execution.kind = "execution" /\ execution.of = new
      /\ order.kind = "order" /\ order.of = new
      /\ position.kind = "position" /\ position.of = new
  OBVIOUS
<1>. HIDE DEF execution, order, position, newSide, newStop
<1>3. /\ newSide => execution \in Reports(new)
      /\ newStop => order \in Reports(new)
      /\ \A r \in Reports(new) :
            (newSide /\ r = execution) \/ (newStop /\ r = order) \/ r = position
  <2>. DEFINE E == IF newSide THEN {execution} ELSE {}
              O == IF newStop THEN {order} ELSE {}
              P == IF TRUE THEN {position} ELSE {}
  <2>1. \A r : r \in E <=> newSide /\ r = execution
    OBVIOUS
  <2>2. \A r : r \in O <=> newStop /\ r = order
    OBVIOUS
  <2>3. \A r : r \in P <=> r = position
    OBVIOUS
  <2>4. Reports(new) = E \cup O \cup P
    BY <1>1
  <2>. HIDE DEF E, O, P
  <2>. QED  BY <2>1, <2>2, <2>3, <2>4
<1>4. (\E r \in Reports(new) : r.kind = "execution") <=> newSide
  BY <1>2, <1>3
<1>5. (\E r \in Reports(new) : r.kind = "order") <=> newStop
  BY <1>2, <1>3
<1>6. \A r \in Reports(new) : r.kind \in {"execution", "order", "position"} /\ r.of = new
  BY <1>2, <1>3
<1>. QED  BY <1>4, <1>5, <1>6 DEF newSide, newStop

(* They follow the master's position before the change, and one another,   *)
(* and end with the new position.                                          *)
LEMMA BatchLeads ==
    ASSUME moves \in Nat, master \in Settings, master.side = "none" => master.stop = 0,
           ~ MayClose, NEW new \in Settings, NEW s \in SetToSeqs(Reports(new)), InOrder(s),
           new.side # master.side => "none" \in {new.side, master.side},
           new.side = "none" => MayClose \/ master.side = "none"
    PROVE  /\ s # << >> /\ \A i \in DOMAIN s : s[i].of = new
           /\ \A a : a.kind = "position" /\ a.of = master => Leads(a, s[1])
           /\ \A i \in DOMAIN s : i + 1 \in DOMAIN s => Leads(s[i], s[i + 1])
           /\ s[Len(s)].kind = "position"
<1>1. /\ s \in Seq(Event) /\ \A i \in DOMAIN s : s[i] \in Reports(new) /\ s[i].of = new
      /\ \A r \in Reports(new) : \E i \in DOMAIN s : s[i] = r
      /\ \E i \in DOMAIN s : s[i].kind = "position"
      /\ \A i, j \in DOMAIN s : i # j => s[i].kind # s[j].kind
  BY ReportsType
<1>2. DOMAIN s = 1 .. Len(s) /\ Len(s) \in Nat /\ Len(s) > 0
  BY <1>1
<1>3. /\ (\E i \in DOMAIN s : s[i].kind = "execution") <=> new.side # master.side
      /\ (\E i \in DOMAIN s : s[i].kind = "order") <=>
            new.stop # 0 /\ <<new.stop, new.trigger>> # <<master.stop, master.trigger>>
      /\ \A i \in DOMAIN s : s[i].kind \in {"execution", "order", "position"}
  BY <1>1, ReportedKinds
<1>4. new.side # master.side => master.side = "none" /\ master.stop = 0
  OBVIOUS
<1>5. \A i, j \in DOMAIN s : i < j => s[i].kind # "position" /\ s[j].kind # "execution"
  BY DEF InOrder
<1>6. s[Len(s)].kind = "position"
  <2>1. PICK i \in DOMAIN s : s[i].kind = "position"
    BY <1>1
  <2>2. Len(s) \in DOMAIN s /\ ~ (i < Len(s))
    BY <1>2, <1>5, <2>1
  <2>3. i = Len(s)
    BY <1>2, <2>2
  <2>. QED  BY <2>1, <2>3
<1>7. \A j \in DOMAIN s : j # 1 => s[j].kind # "execution"
  BY <1>2, <1>5
<1>8. ASSUME NEW a, a.kind = "position", a.of = master
      PROVE  Leads(a, s[1])
  <2>1. 1 \in DOMAIN s /\ s[1].of = new
    BY <1>1, <1>2
  <2>2. s[1].kind = "execution" => new.side # master.side
    BY <1>3, <2>1
  <2>3. s[1].kind # "execution" => new.side = master.side
    BY <1>3, <1>7
  <2>4. s[1].kind = "position" => \A j \in DOMAIN s : s[j].kind # "order"
    <3>1. s[1].kind = "position" => \A j \in DOMAIN s : j = 1
      BY <1>2, <1>5, <2>1
    <3>. QED  BY <3>1
  <2>. QED  BY <1>3, <1>4, <1>8, <2>1, <2>2, <2>3, <2>4 DEF Leads
<1>9. ASSUME NEW i \in DOMAIN s, i + 1 \in DOMAIN s
      PROVE  Leads(s[i], s[i + 1])
  <2>1. i < i + 1 /\ s[i].of = new /\ s[i + 1].of = new
    BY <1>1, <1>2, <1>9
  <2>2. s[i].kind # "position" /\ s[i + 1].kind # "execution"
    BY <1>5, <1>9, <2>1
  <2>3. s[i + 1].kind = "position" /\ new.stop # 0 => s[i].kind = "order"
    <3>. SUFFICES ASSUME s[i + 1].kind = "position", new.stop # 0, s[i].kind = "execution"
                  PROVE  FALSE
      BY <1>3, <2>2
    <3>1. new.side # master.side
      BY <1>3
    <3>2. PICK k \in DOMAIN s : s[k].kind = "order"
      BY <1>3, <1>4, <3>1
    <3>3. k # i /\ k # i + 1
      BY <3>2
    <3>4. k < i \/ i + 1 < k
      BY <1>2, <3>3
    <3>. QED  BY <1>5, <1>9, <3>4
  <2>. QED  BY <2>1, <2>2, <2>3 DEF Leads
<1>. QED  BY <1>1, <1>2, <1>6, <1>8, <1>9

(* Taking an event leaves a chain that follows it.                         *)
LEMMA TakenLeads ==
    ASSUME TypeOK, ChainInv, stream # << >>, stream' = Tail(stream), UNCHANGED source
    PROVE  /\ ChainInv' /\ Leads(NextEvent, Upcoming')
           /\ stream' = << >> => NextEvent.kind = "position" /\ NextEvent.of = master
<1>1. master' = master
  BY DEF source
<1>2. CASE Len(stream) = 1
  <2>1. stream' = << >> /\ NextEvent.kind = "position" /\ NextEvent.of = master
    BY <1>2, StreamTail DEF ChainInv
  <2>2. Leads(NextEvent, Upcoming')
    BY <1>1, <2>1 DEF Upcoming, PositionReport, Leads
  <2>3. ChainInv'
    BY <1>1, <2>1 DEF ChainInv
  <2>. QED  BY <2>1, <2>2, <2>3
<1>3. CASE Len(stream) # 1
  <2>1. /\ stream' # << >> /\ 2 \in DOMAIN stream /\ NextEvent' = stream[2]
        /\ Len(stream') = Len(stream) - 1 /\ Len(stream') \in DOMAIN stream'
        /\ stream'[Len(stream')] = stream[Len(stream)]
        /\ \A i \in DOMAIN stream' : i + 1 \in DOMAIN stream' =>
              /\ i + 1 \in DOMAIN stream /\ (i + 1) + 1 \in DOMAIN stream
              /\ stream'[i] = stream[i + 1] /\ stream'[i + 1] = stream[(i + 1) + 1]
    BY <1>3, StreamTail DEF NextEvent
  <2>2. Leads(NextEvent, Upcoming')
    <3>1. Leads(stream[1], stream[1 + 1])
      BY <2>1, StreamTail DEF ChainInv
    <3>. QED  BY <2>1, <3>1, StreamTail DEF Upcoming
  <2>3. ChainInv'
    BY <1>1, <2>1 DEF ChainInv
  <2>. QED  BY <2>1, <2>2, <2>3
<1>. QED  BY <1>2, <1>3

(* The engine is caught up with b when it has dealt with a, which b        *)
(* follows.                                                                *)
LEMMA CaughtUpNext ==
    ASSUME NEW a, Leads(a, Upcoming'),
           \A f \in Followers : pos'[f] = a.of.side,
           desired' # None => desired'.side = a.of.side,
           a.kind = "order" => trigger' = a.of.trigger,
           a.kind = "position" /\ a.of.stop # 0 => trigger' = a.of.trigger
    PROVE  CaughtUpInv'
<1>. DEFINE b == Upcoming'
<1>1. a.of.side = IF b.kind = "execution" THEN "none" ELSE b.of.side
  BY DEF Leads
<1>2. b.kind = "position" /\ b.of.stop # 0 => trigger' = b.of.trigger
  BY DEF Leads
<1>. HIDE DEF b
<1>. QED  BY <1>1, <1>2 DEF CaughtUpInv, b

(***************************************************************************)
(* What the alignment depends on.                                          *)
(***************************************************************************)

(* Leverage and stops are copied, an empty stop too; nothing fails, no     *)
(* event is lost or repeated, topics do not overtake each other, and the   *)
(* master does not close its position.                                     *)
Undisturbed == /\ SyncLeverage /\ SyncTpsl /\ CancelEmpty
               /\ ~ Faults /\ ~ Losses /\ ~ Reordered /\ ~ MayClose

(* Then a position asks for all of its settings.                           *)
LEMMA AllIsRequested ==
    ASSUME Undisturbed, NEW p \in Settings
    PROVE  /\ RequestFor(p).side = p.side /\ RequestFor(p).lev = p.lev
           /\ RequestFor(p).stop = p.stop
           /\ RequestFor(p).trigger = IF trigger # None THEN trigger ELSE DefaultTrigger
           /\ p.lev # -1 /\ p.stop # -1
           /\ ShouldSync(p) <=> p.side # "none"
<1>1. p.lev \in Nat /\ p.stop \in Nat
  <2>1. p.lev \in Leverages /\ p.stop \in Stops \cup {0}
    BY DEF Settings
  <2>2. Leverages \subseteq Nat \ {0} /\ Stops \subseteq Nat \ {0}
    BY SyncAssumption, Zenon
  <2>3. Leverages \subseteq Nat /\ Stops \cup {0} \subseteq Nat
    BY <2>2
  <2>. QED  BY <2>1, <2>3, Zenon
<1>2. p.lev # -1 /\ p.stop # -1
  BY <1>1
<1>. QED  BY <1>2 DEF Undisturbed, RequestFor, ShouldSync

(* The next event, and what follows from its type.                         *)
LEMMA NextSettings ==
    ASSUME TypeOK, stream # << >>
    PROVE  NextEvent \in Event /\ NextEvent.of \in Settings
BY NextEventType DEF Event

(***************************************************************************)
(* FreshInv.                                                               *)
(***************************************************************************)

(* Nothing is suppressed.                                                  *)
LEMMA NothingSuppressed ==
    ASSUME TypeOK, FreshInv PROVE ~ SuppressDuplicate
BY StreamTail DEF SuppressDuplicate, FreshInv, NextIsKnown

(* Another event of the stream has another fingerprint than the next.      *)
LEMMA OnlyNext ==
    ASSUME TypeOK, FreshInv, NEW i \in DOMAIN stream,
           EventFingerprint(stream[i]) = EventFingerprint(NextEvent)
    PROVE  i = 1
<1>1. stream \in Seq(Event) /\ stream # << >>
  BY DEF TypeOK
<1>2. 1 \in DOMAIN stream /\ NextEvent = stream[1]
  BY <1>1, StreamTail
<1>3. stream[i] \in Event /\ stream[1] \in Event
  BY <1>1, <1>2
<1>4. stream[i].kind = stream[1].kind /\ stream[i].seq = stream[1].seq
  BY <1>2, <1>3, FingerprintSeparates
<1>. QED  BY <1>2, <1>4 DEF FreshInv

(* The next event is taken.                                                *)
LEMMA FreshTaken ==
    ASSUME TypeOK, FreshInv, stream # << >>, stream' = Tail(stream), request' = None,
           seen' \subseteq seen \cup {EventFingerprint(NextEvent)}
    PROVE  FreshInv'
<1>1. \A i \in DOMAIN stream' :
         i \in Nat \ {0} /\ i + 1 \in DOMAIN stream /\ stream'[i] = stream[i + 1]
  BY StreamTail
<1>2. ASSUME NEW i \in DOMAIN stream', NEW j \in DOMAIN stream',
             stream'[i].kind = stream'[j].kind, stream'[i].seq = stream'[j].seq
      PROVE  i = j
  <2>1. i + 1 = j + 1
    BY <1>1, <1>2 DEF FreshInv
  <2>. QED  BY <1>1, <2>1
<1>3. ASSUME NEW i \in DOMAIN stream', EventFingerprint(stream'[i]) \in seen'
      PROVE  FALSE
  <2>1. i + 1 # 1
    BY <1>1
  <2>2. EventFingerprint(stream[i + 1]) \notin seen
    BY <1>1, <2>1 DEF FreshInv
  <2>3. EventFingerprint(stream[i + 1]) = EventFingerprint(NextEvent)
    BY <1>1, <1>3, <2>2
  <2>. QED  BY <1>1, <2>1, <2>3, OnlyNext
<1>4. \A e : EventFingerprint(e)' = EventFingerprint(e)
  BY DEF EventFingerprint, ExecutionFingerprint, OrderFingerprint, PositionFingerprint
<1>. QED  BY <1>2, <1>3 DEF FreshInv

(* The next event is marked, and handled from now on.                      *)
LEMMA FreshMarked ==
    ASSUME TypeOK, FreshInv, stream # << >>, UNCHANGED stream, request' # None,
           seen' = seen \cup {EventFingerprint(NextEvent)}
    PROVE  FreshInv'
<1>1. \A i \in DOMAIN stream : EventFingerprint(stream[i]) \in seen' => i = 1
  BY OnlyNext DEF FreshInv
<1>. QED  BY <1>1 DEF FreshInv

(* Both ends of a stream with events of the next change added to it.       *)
LEMMA StreamAdded ==
    ASSUME TypeOK, NEW s \in Seq(Event), s # << >>, stream' = stream \o s
    PROVE  /\ DOMAIN stream = 1 .. Len(stream) /\ DOMAIN s = 1 .. Len(s)
           /\ Len(stream) \in Nat /\ Len(s) \in Nat \ {0}
           /\ DOMAIN stream' = 1 .. Len(stream) + Len(s)
           /\ Len(stream') = Len(stream) + Len(s)
           /\ stream' # << >> /\ stream' \in Seq(Event)
           /\ \A i \in DOMAIN stream : stream'[i] = stream[i]
           /\ \A i \in DOMAIN stream' :
                 i \in DOMAIN stream \/ (i - Len(stream) \in DOMAIN s
                                         /\ stream'[i] = s[i - Len(stream)])
           /\ stream'[Len(stream')] = s[Len(s)]
           /\ NextEvent' = IF stream = << >> THEN s[1] ELSE NextEvent
<1>1. stream \in Seq(Event)
  BY DEF TypeOK
<1>2. /\ DOMAIN stream = 1 .. Len(stream) /\ DOMAIN s = 1 .. Len(s)
      /\ Len(stream) \in Nat /\ Len(s) \in Nat \ {0}
      /\ stream' \in Seq(Event) /\ Len(stream') = Len(stream) + Len(s)
      /\ DOMAIN stream' = 1 .. Len(stream) + Len(s)
  BY <1>1
<1>3. /\ \A i \in DOMAIN stream : stream'[i] = stream[i]
      /\ \A i \in DOMAIN stream' :
            i \in DOMAIN stream \/ (i - Len(stream) \in DOMAIN s
                                    /\ stream'[i] = s[i - Len(stream)])
  BY <1>1, <1>2
<1>4. stream' # << >>
  BY <1>2
<1>5. stream'[Len(stream')] = s[Len(s)]
  <2>1. /\ Len(stream') \in DOMAIN stream' /\ Len(stream') \notin DOMAIN stream
        /\ Len(stream') - Len(stream) = Len(s)
    BY <1>2
  <2>. QED  BY <1>3, <2>1
<1>6. NextEvent' = IF stream = << >> THEN s[1] ELSE NextEvent
  <2>1. NextEvent' = stream'[1]
    BY <1>2, <1>4 DEF NextEvent
  <2>2. CASE stream = << >>
    <3>1. 1 \in DOMAIN stream' /\ Len(stream) = 0 /\ 1 \notin DOMAIN stream /\ 1 - 0 = 1
      BY <1>2, <2>2
    <3>2. stream'[1] = s[1 - 0]
      BY <1>3, <3>1
    <3>. QED  BY <2>1, <2>2, <3>1, <3>2
  <2>3. CASE stream # << >>
    BY <1>1, <1>3, <2>1, <2>3, StreamTail
  <2>. QED  BY <2>2, <2>3
<1>. QED  BY <1>2, <1>3, <1>4, <1>5, <1>6

(* The events of a change are new.                                         *)
LEMMA FreshAdded ==
    ASSUME TypeOK, StreamInv, FreshInv, NEW s \in Seq(Event), s # << >>,
           \A i \in DOMAIN s : s[i].seq = moves + 1,
           \A i, j \in DOMAIN s : i # j => s[i].kind # s[j].kind,
           stream' = stream \o s, UNCHANGED <<seen, request>>
    PROVE  FreshInv'
<1>. DEFINE n == Len(stream)
<1>1. /\ n \in Nat /\ DOMAIN stream \subseteq Nat /\ DOMAIN stream' \subseteq Nat
      /\ \A i \in DOMAIN stream : stream'[i] = stream[i]
      /\ \A i \in DOMAIN stream' :
            i \in DOMAIN stream \/ (i - n \in DOMAIN s /\ stream'[i] = s[i - n])
  BY StreamAdded
<1>2. \A i \in DOMAIN stream : stream[i].seq <= moves /\ stream[i].seq \in Nat
  <2>1. \A i \in DOMAIN stream : stream[i] \in Event
    BY DEF TypeOK
  <2>. QED  BY <2>1 DEF StreamInv, IsOfMaster, Event
<1>3. moves \in Nat
  BY DEF TypeOK
<1>4. \A i \in DOMAIN s : EventFingerprint(s[i]) \notin seen
  <2>1. \A i \in DOMAIN s : EventFingerprint(s[i])[2] = moves + 1
    BY FingerprintParts
  <2>. QED  BY <1>3, <2>1 DEF StreamInv
<1>. HIDE DEF n
<1>5. ASSUME NEW i \in DOMAIN stream', NEW j \in DOMAIN stream',
             stream'[i].kind = stream'[j].kind, stream'[i].seq = stream'[j].seq
      PROVE  i = j
  <2>1. CASE i \in DOMAIN stream /\ j \in DOMAIN stream
    BY <1>1, <1>5, <2>1 DEF FreshInv
  <2>2. CASE i \notin DOMAIN stream /\ j \notin DOMAIN stream
    <3>1. i - n = j - n
      BY <1>1, <1>5, <2>2
    <3>. QED  BY <1>1, <3>1
  <2>3. CASE i \in DOMAIN stream /\ j \notin DOMAIN stream
    BY <1>1, <1>2, <1>3, <1>5, <2>3
  <2>4. CASE i \notin DOMAIN stream /\ j \in DOMAIN stream
    BY <1>1, <1>2, <1>3, <1>5, <2>4
  <2>. QED  BY <2>1, <2>2, <2>3, <2>4
<1>6. ASSUME NEW i \in DOMAIN stream', EventFingerprint(stream'[i]) \in seen
      PROVE  i = 1 /\ request # None
  BY <1>1, <1>4, <1>6 DEF FreshInv
<1>. QED  BY <1>5, <1>6 DEF FreshInv

(***************************************************************************)
(* The steps, one kind at a time.                                          *)
(***************************************************************************)

(* Everything AlignedInv rests on.                                         *)
SyncInv == TypeOK /\ RequestInv /\ KnownInv /\ AlignedInv

(* What is handled next is as the engine stands: without a request.        *)
LEMMA StandsAtNext ==
    ASSUME AlignedInv, stream # << >>
    PROVE  /\ Upcoming = NextEvent
           /\ NextEvent.kind # "execution" =>
                 /\ \A f \in Followers : pos[f] = NextEvent.of.side
                 /\ desired # None => desired.side = NextEvent.of.side
           /\ NextEvent.kind = "execution" =>
                 /\ \A f \in Followers : pos[f] = "none"
                 /\ desired # None => desired.side = "none"
           /\ NextEvent.kind = "position" /\ NextEvent.of.stop # 0 =>
                 trigger = NextEvent.of.trigger
BY DEF AlignedInv, CaughtUpInv, Upcoming

(* The master changes its position.                                        *)
LEMMA MovesAligned ==
    ASSUME Undisturbed, SyncInv, NEW new \in Settings, MasterMoves(new)
    PROVE  AlignedInv'
<1>1. PICK s \in SetToSeqs(Reports(new)) : InOrder(s) /\ stream' = stream \o s
  BY DEF MasterMoves, Undisturbed
<1>2. /\ master' = new /\ moves' = moves + 1
      /\ UNCHANGED <<seen, trigger, desired, request, task, pos, lev, stop, trig>>
  BY DEF MasterMoves, engine, tasks, account
<1>3. TypeOK /\ StreamInv /\ RequestInv /\ moves \in Nat /\ master \in Settings
  BY DEF SyncInv, KnownInv, TypeOK
<1>4. ChainInv /\ FreshInv /\ CaughtUpInv /\ SyncedInv
  BY DEF SyncInv, AlignedInv
<1>5. /\ s \in Seq(Event)
      /\ \A i \in DOMAIN s : s[i].seq = moves + 1
      /\ \A i, j \in DOMAIN s : i # j => s[i].kind # s[j].kind
  BY <1>3, ReportsType
<1>6. /\ s # << >> /\ \A i \in DOMAIN s : s[i].of = new
      /\ \A a : a.kind = "position" /\ a.of = master => Leads(a, s[1])
      /\ \A i \in DOMAIN s : i + 1 \in DOMAIN s => Leads(s[i], s[i + 1])
      /\ s[Len(s)].kind = "position"
  <2>1. master.side = "none" => master.stop = 0
    BY <1>4 DEF ChainInv
  <2>2. /\ new.side # master.side => "none" \in {new.side, master.side}
        /\ new.side = "none" => MayClose \/ master.side = "none"
        /\ ~ MayClose
    BY DEF MasterMoves, Undisturbed
  <2>. QED  BY <1>1, <1>3, <2>1, <2>2, BatchLeads
<1>7. FreshInv'
  BY <1>1, <1>2, <1>3, <1>4, <1>5, <1>6, FreshAdded
<1>. DEFINE n == Len(stream)
<1>8. /\ n \in Nat /\ DOMAIN s = 1 .. Len(s) /\ Len(s) \in Nat \ {0}
      /\ DOMAIN stream = 1 .. n /\ DOMAIN stream' = 1 .. n + Len(s)
      /\ \A i \in DOMAIN stream : stream'[i] = stream[i]
      /\ \A i \in DOMAIN stream' :
            i \in DOMAIN stream \/ (i - n \in DOMAIN s /\ stream'[i] = s[i - n])
      /\ stream' # << >> /\ stream'[Len(stream')] = s[Len(s)]
      /\ NextEvent' = IF stream = << >> THEN s[1] ELSE NextEvent
  BY <1>1, <1>3, <1>5, <1>6, StreamAdded
<1>9. stream # << >> => n \in DOMAIN stream /\ n > 0
  BY <1>3, StreamTail
<1>10. stream = << >> <=> n = 0
  BY <1>8, <1>9
<1>. HIDE DEF n
<1>11. ChainInv'
  <2>1. new.side = "none" => new.stop = 0
    BY DEF MasterMoves
  <2>2. stream'[Len(stream')].kind = "position" /\ stream'[Len(stream')].of = new
    BY <1>6, <1>8
  <2>3. ASSUME NEW i \in DOMAIN stream', i + 1 \in DOMAIN stream'
        PROVE  Leads(stream'[i], stream'[i + 1])
    <3>1. CASE i + 1 \in DOMAIN stream
      <4>1. i \in DOMAIN stream
        BY <1>8, <3>1
      <4>. QED  BY <1>4, <1>8, <3>1, <4>1 DEF ChainInv
    <3>2. CASE i = n
      <4>1. i \in DOMAIN stream /\ stream # << >>
        BY <1>8, <3>2
      <4>2. stream[i].kind = "position" /\ stream[i].of = master
        BY <1>4, <3>2, <4>1 DEF ChainInv, n
      <4>3. stream'[i + 1] = s[1]
        <5>1. i + 1 \notin DOMAIN stream /\ (i + 1) - n = 1
          BY <1>8, <3>2
        <5>. QED  BY <1>8, <2>3, <5>1
      <4>. QED  BY <1>6, <1>8, <4>1, <4>2, <4>3
    <3>3. CASE i + 1 \notin DOMAIN stream /\ i # n
      <4>1. i \notin DOMAIN stream /\ (i + 1) - n = (i - n) + 1
        BY <1>8, <3>3
      <4>2. /\ i - n \in DOMAIN s /\ (i - n) + 1 \in DOMAIN s
            /\ stream'[i] = s[i - n] /\ stream'[i + 1] = s[(i - n) + 1]
        BY <1>8, <2>3, <3>3, <4>1
      <4>. QED  BY <1>6, <4>2
    <3>. QED  BY <3>1, <3>2, <3>3
  <2>. QED  BY <1>2, <1>8, <2>1, <2>2, <2>3 DEF ChainInv
<1>12. CaughtUpInv'
  <2>1. CASE stream # << >>
    <3>1. Upcoming' = Upcoming
      BY <1>8, <2>1 DEF Upcoming
    <3>. QED  BY <1>2, <1>4, <3>1 DEF CaughtUpInv
  <2>2. CASE stream = << >>
    <3>. DEFINE a == PositionReport(master, moves)
    <3>1. Upcoming = a /\ a.kind = "position" /\ a.of = master
      BY <2>2 DEF Upcoming, PositionReport
    <3>2. Upcoming' = s[1] /\ Leads(a, s[1])
      BY <1>6, <1>8, <2>2, <3>1 DEF Upcoming
    <3>3. /\ \A f \in Followers : pos[f] = a.of.side
          /\ desired # None => desired.side = a.of.side
          /\ a.of.stop # 0 => trigger = a.of.trigger
      BY <1>4, <3>1 DEF CaughtUpInv
    <3>. HIDE DEF a
    <3>. QED  BY <1>2, <3>1, <3>2, <3>3, CaughtUpNext
  <2>. QED  BY <2>1, <2>2
<1>13. SyncedInv'
  <2>1. request # None => NextEvent' = NextEvent
    BY <1>3, <1>8 DEF RequestInv
  <2>2. \A p : RequestFor(p)' = RequestFor(p)
    BY <1>2 DEF RequestFor
  <2>. QED  BY <1>2, <1>4, <2>1, <2>2 DEF SyncedInv, HasDesired, RequestFor
<1>14. LastDesiredInv'
  BY <1>8 DEF LastDesiredInv, Settled
<1>. QED  BY <1>7, <1>11, <1>12, <1>13, <1>14 DEF AlignedInv

(* An order is taken: its trigger type is remembered.                      *)
LEMMA OrderAligned ==
    ASSUME SyncInv, HandleOrder
    PROVE  AlignedInv'
<1>1. /\ stream # << >> /\ request = None /\ NextEvent.kind = "order"
      /\ stream' = Tail(stream) /\ trigger' = NextEvent.of.trigger
      /\ seen' = seen \cup {EventFingerprint(NextEvent)}
      /\ UNCHANGED <<source, desired, request, task, pos, lev, stop, trig>>
  BY DEF HandleOrder, Accept, IsOffered, Taken, tasks, account
<1>2. TypeOK /\ AlignedInv /\ ChainInv /\ FreshInv /\ SyncedInv
  BY DEF SyncInv, AlignedInv
<1>3. /\ ChainInv' /\ Leads(NextEvent, Upcoming')
      /\ stream' # << >>
  BY <1>1, <1>2, TakenLeads
<1>4. FreshInv'
  BY <1>1, <1>2, FreshTaken
<1>5. CaughtUpInv'
  BY <1>1, <1>2, <1>3, StandsAtNext, CaughtUpNext
<1>6. SyncedInv'
  BY <1>1, <1>2 DEF SyncedInv, HasDesired
<1>7. LastDesiredInv'
  BY <1>3 DEF LastDesiredInv, Settled
<1>. QED  BY <1>3, <1>4, <1>5, <1>6, <1>7 DEF AlignedInv

(* An execution is taken: it opened the master's position, and opens that  *)
(* of every follower; nothing was desired yet.                             *)
LEMMA ExecutionAligned ==
    ASSUME Undisturbed, SyncInv, HandleExecution
    PROVE  AlignedInv'
<1>1. /\ stream # << >> /\ request = None /\ NextEvent.kind = "execution"
      /\ stream' = Tail(stream)
      /\ seen' = seen \cup {EventFingerprint(NextEvent)}
      /\ UNCHANGED <<source, desired, request>>
  BY DEF HandleExecution, Accept, IsOffered, Taken, engine
<1>2. \A f \in Followers : pos'[f] = NextEvent.of.side
  BY DEF HandleExecution, Undisturbed
<1>3. TypeOK /\ AlignedInv /\ ChainInv /\ FreshInv
  BY DEF SyncInv, AlignedInv
<1>4. /\ ChainInv' /\ Leads(NextEvent, Upcoming')
      /\ stream' # << >>
  BY <1>1, <1>3, TakenLeads
<1>5. desired = None
  <2>1. desired # None => desired.side \in {"Buy", "Sell"}
    BY <1>3 DEF TypeOK, Request
  <2>. QED  BY <1>1, <1>3, <2>1, StandsAtNext
<1>6. FreshInv'
  BY <1>1, <1>3, FreshTaken
<1>7. CaughtUpInv'
  BY <1>1, <1>2, <1>4, <1>5, CaughtUpNext
<1>8. SyncedInv'
  BY <1>1, <1>5 DEF SyncedInv
<1>9. LastDesiredInv'
  BY <1>4 DEF LastDesiredInv, Settled
<1>. QED  BY <1>4, <1>6, <1>7, <1>8, <1>9 DEF AlignedInv

(* The next position is taken: if it is the last event, what is desired    *)
(* is what it asks for.                                                    *)
LEMMA PositionAligned ==
    ASSUME Undisturbed, SyncInv, stream # << >>, stream' = Tail(stream),
           NextEvent.kind = "position", request' = None,
           seen' \subseteq seen \cup {EventFingerprint(NextEvent)},
           UNCHANGED <<source, trigger, desired, pos, lev, stop, trig>>,
           NextEvent.of.side # "none" =>
              /\ desired # None
              /\ Fingerprint(desired) = Fingerprint(RequestFor(NextEvent.of)),
           desired # None => \A f \in Followers : HasDesired(f)
    PROVE  AlignedInv'
<1>1. TypeOK /\ AlignedInv /\ ChainInv /\ FreshInv
  BY DEF SyncInv, AlignedInv
<1>2. /\ ChainInv' /\ Leads(NextEvent, Upcoming')
      /\ stream' = << >> => NextEvent.of = master
  BY <1>1, TakenLeads
<1>3. FreshInv'
  BY <1>1, FreshTaken
<1>4. CaughtUpInv'
  BY <1>1, <1>2, StandsAtNext, CaughtUpNext
<1>5. SyncedInv'
  BY DEF SyncedInv, HasDesired
<1>6. LastDesiredInv'
  <2>. SUFFICES ASSUME stream' = << >>, master.side # "none"
                PROVE  /\ desired # None /\ IsDesired(master)
                       /\ master.stop # 0 => desired.trigger = master.trigger
    <3>1. master' = master /\ desired' = desired /\ IsDesired(master)' = IsDesired(master)
      BY DEF source, IsDesired, RequestFor
    <3>. QED  BY <3>1 DEF LastDesiredInv, Settled
  <2>1. NextEvent.of = master /\ master \in Settings
    BY <1>1, <1>2 DEF TypeOK
  <2>2. /\ desired # None
        /\ desired.side = RequestFor(master).side /\ desired.lev = RequestFor(master).lev
        /\ desired.stop = RequestFor(master).stop
        /\ desired.trigger = RequestFor(master).trigger
    BY <2>1 DEF Fingerprint
  <2>3. IsDesired(master)
    BY <2>1, <2>2, AllIsRequested DEF IsDesired
  <2>4. master.stop # 0 => trigger = master.trigger
    BY <1>1, <2>1, StandsAtNext
  <2>5. master.trigger \in Triggers /\ master.trigger # None
    BY <2>1, SyncAssumption DEF Settings
  <2>6. master.stop # 0 => desired.trigger = master.trigger
    BY <2>1, <2>2, <2>4, <2>5, AllIsRequested
  <2>. QED  BY <2>2, <2>3, <2>6
<1>. QED  BY <1>2, <1>3, <1>4, <1>5, <1>6 DEF AlignedInv

(* A position that needs no sync is taken.                                 *)
LEMMA IgnoredAligned ==
    ASSUME Undisturbed, SyncInv, IgnorePosition
    PROVE  AlignedInv'
<1>1. /\ stream # << >> /\ request = None /\ request' = None
      /\ NextEvent.kind = "position" /\ stream' = Tail(stream)
      /\ seen' = seen \cup {EventFingerprint(NextEvent)}
      /\ UNCHANGED <<source, trigger, desired, pos, lev, stop, trig>>
      /\ ShouldSync(NextEvent.of) => IsUnchanged(RequestFor(NextEvent.of))
  BY DEF IgnorePosition, Accept, IsOffered, Taken, engine, account
<1>2. TypeOK /\ SyncedInv
  BY DEF SyncInv, AlignedInv
<1>3. NextEvent.of.side # "none" =>
         /\ desired # None
         /\ Fingerprint(desired) = Fingerprint(RequestFor(NextEvent.of))
  BY <1>1, <1>2, NextSettings, AllIsRequested DEF IsUnchanged
<1>4. desired # None => \A f \in Followers : HasDesired(f)
  BY <1>1, <1>2 DEF SyncedInv
<1>. QED  BY <1>1, <1>3, <1>4, PositionAligned

(* A position becomes a request.                                           *)
LEMMA DispatchAligned ==
    ASSUME Undisturbed, SyncInv, DispatchSync
    PROVE  AlignedInv'
<1>1. /\ stream # << >> /\ NextEvent.kind = "position"
      /\ seen' = seen \cup {EventFingerprint(NextEvent)}
      /\ desired' = RequestFor(NextEvent.of) /\ request' = RequestFor(NextEvent.of)
      /\ task' = [f \in Followers |-> "waiting"]
      /\ UNCHANGED <<master, moves, stream, trigger, pos, lev, stop, trig>>
      /\ ShouldSync(NextEvent.of)
  BY DEF DispatchSync, Accept, IsOffered, source, account
<1>2. TypeOK /\ AlignedInv /\ ChainInv /\ FreshInv
  BY DEF SyncInv, AlignedInv
<1>3. NextEvent.of \in Settings
  BY <1>1, <1>2, NextSettings
<1>4. request' # None
  BY <1>1, <1>2, <1>3, RequestForType, NoneAssumption
<1>5. ChainInv'
  BY <1>1, <1>2 DEF ChainInv
<1>6. FreshInv'
  BY <1>1, <1>2, <1>4, FreshMarked
<1>7. CaughtUpInv'
  <2>1. Upcoming' = NextEvent
    BY <1>1 DEF Upcoming, NextEvent
  <2>2. desired'.side = NextEvent.of.side
    BY <1>1, <1>3, AllIsRequested
  <2>. QED  BY <1>1, <1>2, <2>1, <2>2, StandsAtNext DEF CaughtUpInv
<1>8. SyncedInv'
  <2>1. NextEvent' = NextEvent /\ RequestFor(NextEvent.of)' = RequestFor(NextEvent.of)
    BY <1>1 DEF NextEvent, RequestFor
  <2>2. \A f \in Followers : task'[f] = "waiting"
    BY <1>1
  <2>. QED  BY <1>1, <1>4, <2>1, <2>2 DEF SyncedInv
<1>9. LastDesiredInv'
  BY <1>4 DEF LastDesiredInv, Settled
<1>. QED  BY <1>5, <1>6, <1>7, <1>8, <1>9 DEF AlignedInv

(* The sync of all followers has ended.                                    *)
LEMMA FinishAligned ==
    ASSUME Undisturbed, SyncInv, FinishSync
    PROVE  AlignedInv'
<1>1. /\ request # None /\ \A f \in Followers : task[f] = "done"
      /\ request' = None /\ stream' = Tail(stream)
      /\ UNCHANGED <<source, seen, trigger, desired, pos, lev, stop, trig>>
  BY DEF FinishSync, Taken, account
<1>2. TypeOK /\ RequestInv /\ SyncedInv
  BY DEF SyncInv, AlignedInv
<1>3. stream # << >>
  BY <1>1, <1>2 DEF RequestInv
<1>4. /\ NextEvent.kind = "position"
      /\ desired = RequestFor(NextEvent.of) /\ desired # None
      /\ \A f \in Followers : HasDesired(f)
  BY <1>1, <1>2 DEF SyncedInv
<1>5. seen' \subseteq seen \cup {EventFingerprint(NextEvent)}
  BY <1>1
<1>. QED  BY <1>1, <1>3, <1>4, <1>5, PositionAligned

(* What a step of the sync leaves as it is, and what is left to show.      *)
LEMMA SyncFrame ==
    ASSUME SyncInv, request # None,
           UNCHANGED <<source, intake, engine, pos>>,
           \A f \in Followers :
              /\ task'[f] \in {"finding", "stopping"} => lev'[f] = request.lev
              /\ task'[f] = "done" => HasDesired(f)'
    PROVE  AlignedInv'
<1>1. /\ UNCHANGED <<master, moves, stream, seen, trigger, desired, request>>
      /\ Upcoming' = Upcoming /\ NextEvent' = NextEvent
      /\ \A p : RequestFor(p)' = RequestFor(p)
  BY DEF source, intake, engine, Upcoming, NextEvent, RequestFor
<1>2. ChainInv /\ FreshInv /\ CaughtUpInv /\ SyncedInv
  BY DEF SyncInv, AlignedInv
<1>3. ChainInv'
  BY <1>1, <1>2 DEF ChainInv
<1>4. FreshInv'
  BY <1>1, <1>2 DEF FreshInv
<1>5. CaughtUpInv'
  BY <1>1, <1>2 DEF CaughtUpInv
<1>6. SyncedInv'
  <2>1. /\ NextEvent.kind = "position"
        /\ request = RequestFor(NextEvent.of) /\ desired = request
    BY <1>2 DEF SyncedInv
  <2>2. request' = RequestFor(NextEvent.of)'
    BY <1>1, <2>1 DEF RequestFor
  <2>. QED  BY <1>1, <2>1, <2>2 DEF SyncedInv
<1>7. LastDesiredInv'
  BY <1>1 DEF LastDesiredInv, Settled
<1>. QED  BY <1>3, <1>4, <1>5, <1>6, <1>7 DEF AlignedInv

(* One follower's sync: no call fails, and its position matches.           *)
LEMMA SyncAligned ==
    ASSUME Undisturbed, SyncInv, NEW f \in Followers, SyncStep(f)
    PROVE  AlignedInv'
<1>1. TypeOK /\ RequestInv /\ AlignedInv /\ SyncedInv
  BY DEF SyncInv, AlignedInv
<1>2. request # None /\ task[f] # "idle"
  <2>1. task[f] # "idle"
    BY DEF SyncStep, StartSync, SetLeverage, FindPosition, Again, SetStop
  <2>. QED  BY <1>1, <2>1 DEF RequestInv
<1>3. /\ stream # << >> /\ NextEvent.kind = "position" /\ NextEvent.of \in Settings
      /\ request = RequestFor(NextEvent.of) /\ desired = request
  BY <1>1, <1>2, NextSettings DEF RequestInv, SyncedInv
<1>4. HasLeverage /\ HasTpsl /\ request.side # "none" /\ Matches(f)
  <2>1. /\ request.side = NextEvent.of.side /\ request.lev = NextEvent.of.lev
        /\ request.stop = NextEvent.of.stop
        /\ NextEvent.of.lev # -1 /\ NextEvent.of.stop # -1
    BY <1>3, AllIsRequested
  <2>2. request.side \in {"Buy", "Sell"}
    BY <1>1, <1>2 DEF TypeOK, Request
  <2>. QED  BY <1>1, <1>3, <2>1, <2>2, StandsAtNext DEF HasLeverage, HasTpsl, Matches
<1>5. \A g \in Followers :
         /\ task[g] \in {"finding", "stopping"} => lev[g] = request.lev
         /\ task[g] = "done" => HasDesired(g)
  BY <1>1, <1>2 DEF SyncedInv
<1>6. task \in [Followers -> Phases] /\ lev \in [Followers -> Leverages]
      /\ stop \in [Followers -> Stops \cup {0}] /\ trig \in [Followers -> Triggers]
  BY <1>1 DEF TypeOK
<1>7. CASE StartSync(f)
  <2>1. /\ UNCHANGED <<source, intake, engine, pos, lev, stop, trig>>
        /\ task' = [task EXCEPT ![f] = "leverage"]
    BY <1>4, <1>7 DEF StartSync, account
  <2>. QED  BY <1>2, <1>5, <1>6, <2>1, SyncFrame DEF HasDesired, engine
<1>8. CASE SetLeverage(f)
  <2>1. /\ UNCHANGED <<source, intake, engine, pos, stop, trig>>
        /\ lev' = [lev EXCEPT ![f] = request.lev]
        /\ task' = [task EXCEPT ![f] = "finding"] /\ task[f] = "leverage"
    BY <1>4, <1>8 DEF SetLeverage, Undisturbed
  <2>2. \A g \in Followers : g # f => lev'[g] = lev[g] /\ task'[g] = task[g]
    BY <1>6, <2>1
  <2>3. lev'[f] = request.lev /\ task'[f] = "finding"
    BY <1>6, <2>1
  <2>. QED  BY <1>2, <1>5, <2>1, <2>2, <2>3, SyncFrame DEF HasDesired, engine
<1>9. CASE FindPosition(f)
  <2>1. pos[f] # "none"
    BY <1>4 DEF Matches
  <2>2. /\ UNCHANGED <<source, intake, engine, pos, lev, stop, trig>>
        /\ task' = [task EXCEPT ![f] = "stopping"] /\ task[f] = "finding"
    BY <1>4, <1>9, <2>1 DEF FindPosition, Again, account
  <2>. QED  BY <1>2, <1>5, <1>6, <2>2, SyncFrame DEF HasDesired, engine
<1>10. CASE SetStop(f)
  <2>1. pos[f] # "none" /\ ~ Faults
    BY <1>4 DEF Matches, Undisturbed
  <2>2. /\ UNCHANGED <<source, intake, engine, pos, lev>>
        /\ stop' = [stop EXCEPT ![f] = request.stop]
        /\ trig' = [trig EXCEPT ![f] = request.trigger]
        /\ task' = [task EXCEPT ![f] = "done"] /\ task[f] = "stopping"
    BY <1>10, <2>1 DEF SetStop, Complete, Return
  <2>3. \A g \in Followers : g # f =>
           stop'[g] = stop[g] /\ trig'[g] = trig[g] /\ task'[g] = task[g]
    BY <1>6, <2>2
  <2>4. stop'[f] = request.stop /\ trig'[f] = request.trigger /\ task'[f] = "done"
    BY <1>6, <2>2
  <2>. QED
    BY <1>2, <1>3, <1>5, <2>2, <2>3, <2>4, SyncFrame DEF HasDesired, engine
<1>. QED  BY <1>7, <1>8, <1>9, <1>10 DEF SyncStep

LEMMA StepAligned ==
    ASSUME Undisturbed
    PROVE  SyncInv /\ [Next]_vars => AlignedInv'
<1>. SUFFICES ASSUME SyncInv, [Next]_vars PROVE AlignedInv'
  OBVIOUS
<1>1. TypeOK /\ FreshInv /\ ~ Faults /\ ~ Losses
  BY DEF SyncInv, AlignedInv, Undisturbed
<1>2. CASE UNCHANGED vars
  <2>1. /\ UNCHANGED <<master, moves, stream, seen, trigger, desired, request, task,
                       pos, lev, stop, trig>>
        /\ Upcoming' = Upcoming /\ NextEvent' = NextEvent
    BY <1>2 DEF vars, source, intake, engine, tasks, account, Upcoming, NextEvent
  <2>2. ChainInv' /\ FreshInv'
    BY <2>1 DEF SyncInv, AlignedInv, ChainInv, FreshInv
  <2>3. CaughtUpInv'
    BY <2>1 DEF SyncInv, AlignedInv, CaughtUpInv
  <2>4. SyncedInv' /\ LastDesiredInv'
    BY <2>1 DEF SyncInv, AlignedInv, SyncedInv, HasDesired, RequestFor,
                LastDesiredInv, Settled, IsDesired
  <2>. QED  BY <2>2, <2>3, <2>4 DEF AlignedInv
<1>3. CASE Handle
  BY <1>1, <1>3, NothingSuppressed, OrderAligned, ExecutionAligned, IgnoredAligned,
     DispatchAligned, FinishAligned DEF Handle
<1>4. ASSUME NEW f \in Followers, FindFails(f) PROVE FALSE
  BY <1>1, <1>4 DEF FindFails
<1>5. ASSUME NEW f \in Followers, NEW side \in Sides, FollowerMoves(f, side) PROVE FALSE
  BY <1>1, <1>5 DEF FollowerMoves
<1>6. ~ Repeat /\ ~ LoseConnection /\ ~ RecordFails /\ ~ RestartSync
  BY <1>1 DEF Repeat, LoseConnection, RecordFails, RestartSync
<1>. QED  BY MasterAssumption, <1>2, <1>3, <1>4, <1>5, <1>6, MovesAligned, SyncAligned DEF Next

(* README, Phase 3: keep follower position settings aligned.  As long as   *)
(* leverage, stops and empty stops are copied, nothing fails, no event is  *)
(* lost or repeated, topics keep their order and the master does not close *)
(* its position, whenever everything the master did is handled, a follower *)
(* on the master's side has its leverage, stop and trigger type: for any   *)
(* number of followers, changes and settings, however many syncs run at    *)
(* once and however the master's changes, the engine and the followers'    *)
(* syncs interleave.  Each of the seven conditions is needed.              *)
THEOREM SettingsStayAligned ==
    ASSUME Undisturbed
    PROVE  Spec => []SettingsAligned
<1>1. Init => AlignedInv
  <2>. SUFFICES ASSUME Init PROVE AlignedInv
    OBVIOUS
  <2>2. stream = << >> /\ desired = None /\ request = None /\ master.side = "none"
        /\ master.stop = 0 /\ \A f \in Followers : pos[f] = "none"
    BY DEF Init
  <2>3. ChainInv /\ FreshInv
    BY <2>2 DEF ChainInv, FreshInv
  <2>4. CaughtUpInv
    BY <2>2 DEF CaughtUpInv, Upcoming, PositionReport
  <2>5. SyncedInv /\ LastDesiredInv
    BY <2>2 DEF SyncedInv, LastDesiredInv
  <2>. QED  BY <2>3, <2>4, <2>5 DEF AlignedInv
<1>2. AlignedInv /\ TypeOK => SettingsAligned
  <2>. SUFFICES ASSUME AlignedInv, TypeOK, Settled, master.side # "none",
                       NEW f \in Followers
                PROVE  /\ lev[f] = master.lev /\ stop[f] = master.stop
                       /\ master.stop # 0 => trig[f] = master.trigger
    BY DEF SettingsAligned
  <2>1. /\ desired # None /\ IsDesired(master)
        /\ master.stop # 0 => desired.trigger = master.trigger
    BY DEF AlignedInv, LastDesiredInv
  <2>2. HasDesired(f)
    BY <2>1 DEF AlignedInv, SyncedInv, Settled
  <2>3. RequestFor(master).lev = master.lev /\ RequestFor(master).stop = master.stop
    BY AllIsRequested DEF TypeOK
  <2>. QED  BY <2>1, <2>2, <2>3 DEF IsDesired, HasDesired
<1>3. SyncInv /\ [Next]_vars => SyncInv'
  <2>1. SyncInv /\ [Next]_vars => TypeOK' /\ RequestInv'
    BY StepType DEF SyncInv
  <2>2. SyncInv /\ [Next]_vars => KnownInv'
    BY StepKnown DEF SyncInv
  <2>. QED  BY <2>1, <2>2, StepAligned DEF SyncInv
<1>4. Init => SyncInv
  BY <1>1, InitType, InitKnown DEF SyncInv
<1>5. SyncInv => SettingsAligned
  BY <1>2 DEF SyncInv
<1>. QED  BY <1>3, <1>4, <1>5, PTL DEF Spec
=============================================================================
