-------------------------- MODULE MCSessionManager --------------------------
(* SessionManager with two addresses, two workers and the timer thread.      *)
EXTENDS SessionManager, TLC
CONSTANTS o1, o2, o3

MCInitialPool == <<o1>>
MCPeerIds == 1..2
\* Bound: timers are refused until two threads meet; after that nothing is said
\* of ids any more, and a refusal only takes steps away.
MCRefusals == met => ~timersFull
MCSymmetry == Permutations(Addrs) \cup Permutations(Workers)
=============================================================================
