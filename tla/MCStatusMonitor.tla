-------------------------- MODULE MCStatusMonitor --------------------------
(* StatusMonitor with a few conversations.                                 *)
EXTENDS StatusMonitor, TLC

CONSTANTS c1, c2, c3, r1, r2

OfWhich == (c1 :> r1) @@ (c2 :> r1) @@ (c3 :> r2)

MCResourceOf == [c \in Conv |-> OfWhich[c]]

Working == [exec |-> "running", sandbox |-> "RUNNING"]
Finished == [exec |-> "finished", sandbox |-> "RUNNING"]
PausedUnreported == [exec |-> None, sandbox |-> "PAUSED"]

TwoReports == [c \in Conv |-> {Working, PausedUnreported}]

\* c2 is the conversation that has ended.
OneEnded ==
    [c \in Conv |-> IF c = c2 THEN {Finished} ELSE {Working, PausedUnreported}]
=============================================================================
