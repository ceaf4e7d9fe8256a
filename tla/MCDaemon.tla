------------------------------- MODULE MCDaemon -------------------------------
(***************************************************************************)
(* Instances of Daemon for TLC.  Pids are numbers, so that a fork takes the *)
(* next one; two valid configurations, one of them not for a daemon.        *)
(***************************************************************************)
EXTENDS Daemon

CONSTANTS Init1, Shell, Subreaper

Pids4 == 1..4
Pids8 == 1..8

AsDaemon(n) == [daemonized |-> TRUE, rest |-> n]
InFront     == [daemonized |-> FALSE, rest |-> 1]

OneDaemon  == {AsDaemon(1)}
TwoDaemons == {AsDaemon(1), AsDaemon(2)}
Mixed      == {AsDaemon(1), AsDaemon(2), InFront}
=============================================================================
