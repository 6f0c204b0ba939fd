---------------------------- MODULE ExecutionCopies ----------------------------
(***************************************************************************)
(* What the mirroring of executions promises, whatever is lost, repeated,  *)
(* retried or restarted: every follower trades at most once for a master   *)
(* execution, only for one that happened and is of a kind that is          *)
(* mirrored, and never more than its quantity.                             *)
(***************************************************************************)
EXTENDS MirrorPolicy, Sequences

CONSTANTS Followers,
          MaxTrades  \* bound on the number of executions

VARIABLES trades,  \* the master's executions, in order
          copied   \* per follower and execution, the quantity traded for it

vars == <<trades, copied>>

Init ==
    /\ trades = << >>
    /\ copied = [f \in Followers |-> [e \in 1 .. MaxTrades |-> 0]]

Trade == \E x \in Executions :
    /\ trades' = Append(trades, x)
    /\ UNCHANGED copied

Copy(f, e) ==
    /\ e \in DOMAIN trades
    /\ IsMirrored(trades[e])
    /\ copied[f][e] = 0
    /\ \E q \in 1 .. Wanted(trades[e]) : copied' = [copied EXCEPT ![f][e] = q]
    /\ UNCHANGED trades

Next == Trade \/ \E f \in Followers, e \in 1 .. MaxTrades : Copy(f, e)

Spec == Init /\ [][Next]_vars
=============================================================================
