----------------------------- MODULE MCPeerUse -----------------------------
(* PeerUse on a small instance: the model values are set in the .cfg files. *)
EXTENDS PeerUse, TLC
CONSTANTS a1, a2, a3, noaddr

MCAddrs == {a1, a2, a3}
MCSymmetry == Permutations(MCAddrs)
\* One id more than the table holds, so that a fresh one is always left, and
\* one of them the 0 that rand() may return.
MCPeerIds == 0..2
=============================================================================
