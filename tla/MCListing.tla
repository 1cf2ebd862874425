------------------------------ MODULE MCListing ------------------------------
(* An instance of Listing for TLC: integers of four bits, so that pages and offsets wrap. *)
EXTENDS Listing, TLC

CONSTANTS u1, u2, u3

RankOf == (u1 :> 1) @@ (u2 :> 2) @@ (u3 :> 3)

QueryPages == {0, 3, 7}

QueryPerPages == {None, 1, 3}

==============================================================================
