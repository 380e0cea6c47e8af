--------------------------- MODULE MCFragments ---------------------------
(***************************************************************************)
(* Instance of Fragments: two messages, that fit into two or three         *)
(* fragments, or into more than a number counts (MaxFragments is 3 for     *)
(* 255), and one that is larger than max_packet.                           *)
(***************************************************************************)
EXTENDS Fragments, TLC

MCLength == (2 :> 5) @@ (3 :> 4) @@ (4 :> 6)

===========================================================================
