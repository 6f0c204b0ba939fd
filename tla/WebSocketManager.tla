---------------------------- MODULE WebSocketManager ----------------------------
(***************************************************************************)
(* The private connection to the exchange (websocket_manager.py) with its  *)
(* reconnect backoff (retry.py): run_forever, its heartbeat task, the      *)
(* signal that asks it to stop, and the exchange at the other end.         *)
(*                                                                         *)
(* What EventIntake does with a message is one step here, from the call of *)
(* the handler to its return.  The socket exists from the subscription on; *)
(* before that, anything that goes wrong is an exception of the attempt.   *)
(***************************************************************************)
EXTENDS Naturals, Sequences

CONSTANTS MaxQueue,     \* messages the socket buffers (max_queue)
          MaxExponent,  \* the largest exponent whose power of two is a float
          MaxOutage     \* bound on the failures between two subscriptions

ASSUME ConnectionAssumption == /\ MaxQueue \in Nat \ {0}
                               /\ MaxExponent \in Nat
                               /\ MaxOutage \in Nat \ {0}

VARIABLES
    pc,       \* where run_forever is
    stop,     \* _stop_event
    attempt,  \* ExponentialBackoff._attempt
    link,     \* the socket: open, lost without a sign, closed, broken
    inbox,    \* messages received and not yet read
    heart,    \* the heartbeat task of this connection
    unacked,  \* whether a ping was sent that no one can acknowledge
    outage    \* failures since the last subscription (history)

vars == <<pc, stop, attempt, link, inbox, heart, unacked, outage>>

Handshake == {"connecting", "authenticating", "subscribing"}
Connected == {"reading", "handling"}
Locations == Handshake \cup Connected \cup {"backingoff", "ended"}

(* A topic message, a control message or one without topic, and one that   *)
(* is not a JSON object.                                                   *)
Messages == {"event", "other", "malformed"}

TypeOK ==
    /\ pc \in Locations
    /\ stop \in BOOLEAN
    /\ attempt \in 0 .. MaxExponent + 1
    /\ link \in {"none", "open", "lost", "closed", "broken"}
    /\ inbox \in Seq(Messages) /\ Len(inbox) <= MaxQueue
    /\ heart \in {"none", "asleep", "done"}
    /\ unacked \in BOOLEAN
    /\ outage \in 0 .. MaxOutage
    /\ pc \in Connected <=> link # "none"
    /\ pc \in Connected <=> heart # "none"

Init ==
    /\ pc = "connecting"
    /\ stop = FALSE
    /\ attempt = 0
    /\ link = "none"
    /\ inbox = << >>
    /\ heart = "none"
    /\ unacked = FALSE
    /\ outage = 0

(***************************************************************************)
(* run_forever.                                                            *)
(***************************************************************************)

(* while not self._stop_event.is_set()                                     *)
LoopHead == IF stop THEN "ended" ELSE "connecting"

(* Mutant of LeaveConnection: the heartbeat task is not cancelled.         *)
LeaveWithHeartbeat ==
    /\ link' = "none"
    /\ inbox' = << >>
    /\ unacked' = FALSE
    /\ UNCHANGED heart

(* The heartbeat is cancelled, the socket closed, what it had buffered is  *)
(* gone.                                                                   *)
LeaveConnection ==
    /\ link' = "none"
    /\ inbox' = << >>
    /\ unacked' = FALSE
    /\ heart' = "none"

(* next_delay: 2 ** attempt times a float raises OverflowError when the    *)
(* power is too large for one, and the exception leaves run_forever.       *)
NextDelay ==
    IF attempt <= MaxExponent
    THEN pc' = "backingoff" /\ attempt' = attempt + 1
    ELSE pc' = "ended" /\ UNCHANGED attempt

(* An exception leaves _connect_once.                                      *)
Disconnected ==
    /\ LeaveConnection
    /\ outage' = outage + 1
    /\ IF stop THEN pc' = "ended" /\ UNCHANGED attempt ELSE NextDelay
    /\ UNCHANGED stop

(* Mutant of BackoffEnds: the wait for stop has no timeout.                *)
BackoffUntilStop ==
    /\ pc = "backingoff" /\ stop
    /\ pc' = LoopHead
    /\ UNCHANGED <<stop, attempt, link, inbox, heart, unacked, outage>>

(* wait_for returns: the delay is over or stop is set.                     *)
BackoffEnds ==
    /\ pc = "backingoff"
    /\ pc' = LoopHead
    /\ UNCHANGED <<stop, attempt, link, inbox, heart, unacked, outage>>

(***************************************************************************)
(* _connect_once up to the read loop.                                      *)
(***************************************************************************)
Connects ==
    /\ pc = "connecting"
    /\ pc' = "authenticating"
    /\ UNCHANGED <<stop, attempt, link, inbox, heart, unacked, outage>>

Authenticates ==
    /\ pc = "authenticating"
    /\ pc' = "subscribing"
    /\ UNCHANGED <<stop, attempt, link, inbox, heart, unacked, outage>>

(* Mutant of BackoffReset: the attempts of earlier outages are kept.       *)
KeepAttempts == attempt

BackoffReset == 0

(* The heartbeat task starts by looking at the stop event.                 *)
Subscribes ==
    /\ pc = "subscribing"
    /\ pc' = "reading"
    /\ attempt' = BackoffReset
    /\ outage' = 0
    /\ link' = "open"
    /\ heart' = IF stop THEN "done" ELSE "asleep"
    /\ UNCHANGED <<stop, inbox, unacked>>

(* No connection within the timeout, or a bad or missing reply.            *)
HandshakeFails ==
    /\ pc \in Handshake
    /\ outage < MaxOutage
    /\ Disconnected

(***************************************************************************)
(* _read_loop.  It looks at the messages and the socket, never at stop.    *)
(***************************************************************************)
ReadEvent ==
    /\ pc = "reading" /\ inbox # << >> /\ Head(inbox) = "event"
    /\ inbox' = Tail(inbox)
    /\ pc' = "handling"
    /\ UNCHANGED <<stop, attempt, link, heart, unacked, outage>>

SkipMessage ==
    /\ pc = "reading" /\ inbox # << >> /\ Head(inbox) = "other"
    /\ inbox' = Tail(inbox)
    /\ UNCHANGED <<pc, stop, attempt, link, heart, unacked, outage>>

(* json.loads or the object check raises.                                  *)
ReadMalformed ==
    /\ pc = "reading" /\ inbox # << >> /\ Head(inbox) = "malformed"
    /\ Disconnected

(* ConnectionClosedOK ends the loop, and run_forever goes on at once.      *)
ReadClosed ==
    /\ pc = "reading" /\ inbox = << >> /\ link = "closed"
    /\ LeaveConnection
    /\ pc' = LoopHead
    /\ UNCHANGED <<stop, attempt, outage>>

ReadBroken ==
    /\ pc = "reading" /\ inbox = << >> /\ link = "broken"
    /\ Disconnected

HandlerReturns ==
    /\ pc = "handling"
    /\ pc' = "reading"
    /\ UNCHANGED <<stop, attempt, link, inbox, heart, unacked, outage>>

(* A failing checkpoint leaves the handler and the read loop.              *)
HandlerRaises ==
    /\ pc = "handling"
    /\ Disconnected

(***************************************************************************)
(* _heartbeat, and the signal handler's stop.                              *)
(***************************************************************************)

(* Mutant of AfterPing: the task does not look at the stop event.          *)
KeepBeating == "asleep"

AfterPing == IF stop THEN "done" ELSE "asleep"

Ping ==
    /\ heart = "asleep" /\ link \in {"open", "lost"}
    /\ unacked' = (link = "lost")
    /\ heart' = AfterPing
    /\ UNCHANGED <<pc, stop, attempt, link, inbox, outage>>

(* send raises, and nobody looks at the task before it is cancelled.       *)
PingFails ==
    /\ heart = "asleep" /\ link \in {"closed", "broken"}
    /\ heart' = "done"
    /\ UNCHANGED <<pc, stop, attempt, link, inbox, unacked, outage>>

Stop ==
    /\ pc # "ended" /\ ~ stop
    /\ stop' = TRUE
    /\ UNCHANGED <<pc, attempt, link, inbox, heart, unacked, outage>>

(***************************************************************************)
(* The exchange and the network.                                           *)
(***************************************************************************)
Arrive(m) ==
    /\ link = "open" /\ Len(inbox) < MaxQueue
    /\ inbox' = Append(inbox, m)
    /\ UNCHANGED <<pc, stop, attempt, link, heart, unacked, outage>>

Closing ==
    /\ link = "open"
    /\ link' \in {"closed", "broken"}
    /\ UNCHANGED <<pc, stop, attempt, inbox, heart, unacked, outage>>

(* The exchange closes a connection without pings (max_active_time).       *)
CloseIdle == heart = "done" /\ Closing

(* The other end disappears without a word while the heartbeat runs.       *)
LoseLink ==
    /\ link = "open" /\ heart = "asleep"
    /\ link' = "lost"
    /\ UNCHANGED <<pc, stop, attempt, inbox, heart, unacked, outage>>

(* The network layer gives up on a ping.                                   *)
NoticeLoss ==
    /\ link = "lost" /\ unacked
    /\ link' = "broken"
    /\ unacked' = FALSE
    /\ UNCHANGED <<pc, stop, attempt, inbox, heart, outage>>

Handshaking == Connects \/ Authenticates \/ Subscribes \/ HandshakeFails
Reading == ReadEvent \/ SkipMessage \/ ReadMalformed \/ ReadClosed \/ ReadBroken
Handling == HandlerReturns \/ HandlerRaises
Heartbeat == Ping \/ PingFails

Next ==
    \/ BackoffEnds \/ Handshaking \/ Reading \/ Handling \/ Heartbeat \/ Stop
    \/ \E m \in Messages : Arrive(m)
    \/ Closing \/ CloseIdle \/ LoseLink \/ NoticeLoss

(* Every wait of run_forever has a timeout, a handler returns or raises,   *)
(* the heartbeat wakes up.  Of the exchange and the network this assumes   *)
(* that a connection without pings is closed, and that a ping into a dead  *)
(* link is given up in the end.                                            *)
Spec == /\ Init /\ [][Next]_vars
        /\ WF_vars(BackoffEnds) /\ WF_vars(Handshaking)
        /\ WF_vars(Reading) /\ WF_vars(Handling) /\ WF_vars(Heartbeat)
        /\ WF_vars(CloseIdle) /\ WF_vars(NoticeLoss)

(***************************************************************************)
(* Properties.                                                             *)
(***************************************************************************)

(* run_forever, "explicit reconnect control": over any number of outages   *)
(* the engine gives up its connection only because it was told to.         *)
EndsOnlyWhenStopped == pc = "ended" => stop

(* After a signal the process ends, although a reader that waits for a     *)
(* message never looks at the stop event: the heartbeat does, and without  *)
(* pings the exchange closes the connection.                               *)
StopEnds == stop ~> pc = "ended"

(* README, reconnect handling: whatever happened to the connection, even   *)
(* when it died without a sign, the engine reads a live one again unless   *)
(* it is stopped.                                                          *)
Live == pc = "reading" /\ link = "open"

Reconnects == ~ Live ~> (Live \/ stop)

(***************************************************************************)
(* The inductive invariant behind EndsOnlyWhenStopped: the backoff counts  *)
(* the failures of this outage and of no other.                            *)
(***************************************************************************)
BackoffInv == attempt <= outage /\ (pc \in Connected => outage = 0)
=============================================================================
