------------------------------ MODULE MCProvision ------------------------------
(***************************************************************************)
(* Instances of Provision for TLC: templates of one distribution, and two   *)
(* hosts whose addresses may begin alike.                                   *)
(***************************************************************************)
EXTENDS Provision, TLC

CONSTANTS d1, d2, t1, t2, h1, h2, ip1, ip10

OneDistro  == [t \in Templates |-> d1]
OfFirst    == [h \in Hosts |-> t1]

\* 10.0.0.1 and 10.0.0.10
Addresses == (h1 :> <<ip10>>) @@ (h2 :> <<ip1>>)
Alike     == {<<ip1, ip1>>, <<ip10, ip10>>, <<ip10, ip1>>}
Unlike    == {<<ip1, ip1>>, <<ip10, ip10>>}
=============================================================================
