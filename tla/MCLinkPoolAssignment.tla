------------------------ MODULE MCLinkPoolAssignment -------------------------
(* Small instances of LinkPoolAssignment for TLC. *)
EXTENDS LinkPoolAssignment, TLC

CONSTANTS r1, r2, u1, u2, h1, h2, s1, s2, k1

\* betano and betano-diario: a sheet each, one lock for both; a request for each house.
TwoHouses == {h1, h2}
RequestUser == (r1 :> u1) @@ (r2 :> u2)
RequestHouse == (r1 :> h1) @@ (r2 :> h2)

OwnSheet == (h1 :> s1) @@ (h2 :> s2)
OneLock == (h1 :> k1) @@ (h2 :> k1)
==============================================================================
