----------------------- MODULE MCGracefulTermination -----------------------
(* Instances of GracefulTermination for TLC.                               *)
EXTENDS GracefulTermination, TLC

CONSTANTS a, b, c, d, e

Two      == {a, b}
TwoTwo   == {a, b, c, d}
TwoThree == {a, b, c, d, e}
One      == {a}
OneOne   == {a, b}

(* Old nodes are interchangeable, and so are the new ones.                 *)
SymmetryTwoTwo   == Permutations({a, b}) \cup Permutations({c, d})
SymmetryTwoThree == Permutations({a, b}) \cup Permutations({c, d, e})
=============================================================================
