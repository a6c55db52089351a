------------------------------ MODULE MCSearch ------------------------------
(* Search on a small instance: two peers and a tracker, with keys of three   *)
(* bits, the peers' own keys near the tracker's and the content far from it. *)
EXTENDS Search, TLC
CONSTANTS a, b, t

MCPeers == {a, b}
MCPid == (t :> 0) @@ (a :> 1) @@ (b :> 2)
MCContents == {4}
\* b adds the content some time.
MCLoaded == (a :> <<4>>) @@ (b :> <<>>)
=============================================================================
