------------------------------ MODULE MCStream ------------------------------
(* Stream on a small instance: a sends to b, whose pool has three workers.     *)
EXTENDS Stream
CONSTANTS v, w1, w2, w3

MCWorkers == (a :> {v}) @@ (b :> {w1, w2, w3})
MCMessageLens == (a :> <<1, 0>>) @@ (b :> <<>>)
MCMaxInFlight == (a :> 1) @@ (b :> 2)
MCSymmetry == Permutations({w1, w2, w3})
=============================================================================
