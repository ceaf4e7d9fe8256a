--------------------------------- MODULE Turn ---------------------------------
(***************************************************************************)
(* A cluster's turn at its machines, whatever a machine is made of and      *)
(* whatever is done with it: hosts are booted, those that come up are held, *)
(* and the ones held are shut down in the order in which they came.  A turn *)
(* that comes to its end leaves none of its machines running, whatever went *)
(* wrong before it; one that is cut short may leave all of them.  So until  *)
(* something fails nothing is left running at all.                          *)
(*                                                                          *)
(* Modules Manager and Provision both implement this.  It is what the one   *)
(* takes for granted of the other.                                          *)
(***************************************************************************)
EXTENDS Sequences

CONSTANT Hosts

VARIABLES
    phase,      \* "idle", "booting" hosts, or "closing"
    usable,     \* the hosts there is a template for in this turn
    up,         \* the hosts whose domain is running
    held,       \* the hosts to shut down, in that order
    mine,       \* the hosts that this turn has booted and not shut down
    clean       \* nothing has failed yet

vars == <<phase, usable, up, held, mine, clean>>

Idle == phase = "idle" /\ usable = {} /\ held = <<>> /\ mine = {}

Init == Idle /\ up = {} /\ clean = TRUE

Begin(H) ==
    /\ phase = "idle"
    /\ phase' = "booting" /\ usable' = H
    /\ UNCHANGED <<up, held, mine, clean>>

\* Also of a host that is running already.
Boot(h) ==
    /\ phase = "booting" /\ h \in usable
    /\ up' = up \cup {h} /\ mine' = mine \cup {h}
    /\ UNCHANGED <<phase, usable, held, clean>>

HandOver(h) ==
    /\ phase = "booting" /\ h \in mine
    /\ held' = Append(held, h)
    /\ UNCHANGED <<phase, usable, up, mine, clean>>

Close ==
    /\ phase = "booting"
    /\ phase' = "closing"
    /\ UNCHANGED <<usable, up, held, mine, clean>>

Shutdown ==
    /\ phase = "closing" /\ held # <<>>
    /\ up' = up \ {Head(held)} /\ mine' = mine \ {Head(held)}
    /\ held' = Tail(held)
    /\ UNCHANGED <<phase, usable, clean>>

End ==
    /\ phase = "closing" /\ held = <<>> /\ mine = {}
    /\ clean => up = {}
    /\ Idle'
    /\ UNCHANGED <<up, clean>>

\* A failure, maybe of a host that has come up before it failed.
CutShort ==
    /\ phase # "idle"
    /\ \/ UNCHANGED up
       \/ phase = "booting" /\ \E h \in usable : up' = up \cup {h}
    /\ clean' = FALSE
    /\ Idle'

\* A failure that is lived with, or one between two turns.
Fail == clean' = FALSE /\ UNCHANGED <<phase, usable, up, held, mine>>

Next ==
    \/ Close \/ Shutdown \/ End \/ CutShort \/ Fail
    \/ \E H \in SUBSET Hosts : Begin(H)
    \/ \E h \in Hosts : Boot(h) \/ HandOver(h)

Spec == Init /\ [][Next]_vars
=============================================================================
