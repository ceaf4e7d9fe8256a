------------------------------- MODULE MCNetwork -------------------------------
(***************************************************************************)
(* An instance of Network for TLC: two hosts whose configuration is edited, *)
(* with a /24, a /26 within another one, an address in the management       *)
(* network, the last /25 of its last octet, and a /32.                      *)
(***************************************************************************)
EXTENDS Network, TLC

CONSTANTS h1, h2

Wide   == FromCidr(<<10, 0, 0, 5>>, 24)
Narrow == FromCidr(<<10, 0, 0, 70>>, 26)
InMgmt == FromCidr(<<203, 0, 113, 9>>, 24)
Last   == FromCidr(<<10, 0, 0, 200>>, 25)
Single == FromCidr(<<10, 0, 0, 7>>, 32)

Addresses == {Wide, Narrow, InMgmt, Last, Single}
Default   == FromCidr(<<203, 0, 113, 0>>, 24)

Edits ==
    {(h1 :> <<Wide, InMgmt>>) @@ (h2 :> <<Narrow>>),
     (h1 :> <<Last, Wide>>) @@ (h2 :> <<Narrow, Single>>)}

\* A host in the second half of a /24.
InLastHalf == {(h1 :> <<Last>>) @@ (h2 :> <<>>)}

\* An edit gives a host another address.
Readdressed == {(h1 :> <<Wide>>) @@ (h2 :> <<>>), (h1 :> <<Narrow>>) @@ (h2 :> <<>>)}
=============================================================================
