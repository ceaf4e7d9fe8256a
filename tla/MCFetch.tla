-------------------------------- MODULE MCFetch --------------------------------
(***************************************************************************)
(* An instance of Fetch for TLC: an image of three chunks, a kernel of one, *)
(* and a channel that holds two.                                            *)
(***************************************************************************)
EXTENDS Fetch, TLC

CONSTANTS iso, kernel, a, b

Order  == <<iso, kernel>>
Mirror == (iso :> <<a, b, a>>) @@ (kernel :> <<b>>)
=============================================================================
