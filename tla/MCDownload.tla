----------------------------- MODULE MCDownload -----------------------------
(* Download of three files, and of a single file of several segments.        *)
EXTENDS Download
CONSTANTS p1, p2, p3, a, b, c, w1

ThreeFiles == p1 :> a @@ p2 :> b @@ p3 :> c
OneFile == p1 :> a

\* A path may change places with another when its content does.
Renamed(f) == f @@ [x \in Contents |->
    CHOOSE y \in Contents : \E p \in Paths : ContentOf[p] = x /\ ContentOf[f[p]] = y]
MCSymmetry == {Renamed(f) : f \in Permutations(Paths)}
=============================================================================
