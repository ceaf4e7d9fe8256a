-------------------------------- MODULE Rerun --------------------------------
(***************************************************************************)
(* What flota promises to its clusters about their reruns, whatever way it  *)
(* stores what it knows: one cluster is dealt with at a time, a run answers *)
(* for everything it has looked at, a change for which a run was started    *)
(* stays owed until a run finishes, and a cluster is left alone only when   *)
(* nothing it is shown is news.                                             *)
(*                                                                          *)
(* Module Manager implements this for the clusters that watch alone.        *)
(***************************************************************************)
CONSTANTS Clusters, WatchPoints, Values, None

VARIABLES
    phase,      \* "idle", "looking" at watchpoints, or "running" tests
    cluster,    \* of this cluster
    watched,    \* the watchpoints in question
    seen,       \* what has been perceived of each
    tested,     \* what the last finished run of a cluster had perceived
    owed        \* the changes a run was started for, and none finished

vars == <<phase, cluster, watched, seen, tested, owed>>

Nothing == [w \in WatchPoints |-> None]

Idle == phase = "idle" /\ cluster = None /\ watched = {} /\ seen = Nothing

Init ==
    /\ Idle
    /\ tested = [c \in Clusters |-> Nothing]
    /\ owed = [c \in Clusters |-> {}]

Begin(c, W) ==
    /\ phase = "idle"
    /\ phase' = "looking" /\ cluster' = c /\ watched' = W
    /\ UNCHANGED <<seen, tested, owed>>

Look(w, v) ==
    /\ phase = "looking" /\ w \in watched
    /\ seen' = [seen EXCEPT ![w] = v]
    /\ UNCHANGED <<phase, cluster, watched, tested, owed>>

AllLookedAt == \A w \in watched : seen[w] # None

NoNewsBut(W) ==
    \A w \in watched : tested[cluster][w] = seen[w] \/ w \in owed[cluster] \cup W

\* Nothing is news: it has been tested, or an earlier run owes it.
LeaveAlone ==
    /\ phase = "looking" /\ AllLookedAt /\ NoNewsBut({})
    /\ Idle'
    /\ UNCHANGED <<tested, owed>>

\* A run is started; what is news is among W, and owed from now on.
Start(W) ==
    /\ phase = "looking" /\ AllLookedAt /\ NoNewsBut(W)
    /\ W \subseteq watched
    /\ phase' = "running"
    /\ owed' = [owed EXCEPT ![cluster] = @ \cup W]
    /\ UNCHANGED <<cluster, watched, seen, tested>>

Finish ==
    /\ phase = "running"
    /\ tested' = [tested EXCEPT ![cluster] =
                     [w \in WatchPoints |-> IF w \in watched THEN seen[w] ELSE @[w]]]
    /\ owed' = [owed EXCEPT ![cluster] = @ \ watched]
    /\ Idle'

\* The evaluation or the run is cut short: it has settled nothing.
CutShort ==
    /\ phase # "idle"
    /\ Idle'
    /\ UNCHANGED <<tested, owed>>

Next ==
    \/ LeaveAlone \/ Finish \/ CutShort
    \/ \E c \in Clusters, W \in SUBSET WatchPoints : Begin(c, W)
    \/ \E W \in SUBSET WatchPoints : Start(W)
    \/ \E w \in WatchPoints, v \in Values : Look(w, v)

Spec == Init /\ [][Next]_vars
=============================================================================
