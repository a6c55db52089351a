---------------------------- MODULE MCTimerWheel ----------------------------
(* TimerWheel on wheels of a few slots; the .cfg files give their sizes.     *)
(* As 2^32 is no multiple of a second, WordSize is none there either.        *)
EXTENDS TimerWheel, TLC

MCSymmetry == Permutations(Timers)
=============================================================================
