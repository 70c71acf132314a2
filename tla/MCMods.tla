------------------------------- MODULE MCMods ---------------------------------
(* Instances of Mods for TLC. *)
EXTENDS Mods, TLC

CONSTANTS m1, m2, v1, v2, w1, f1, f2

\* A mod of two files, its next version, which has lost the first file, and
\* another mod that has that file too.
MCModOf == (v1 :> m1) @@ (v2 :> m1) @@ (w1 :> m2)
MCFilesOf == (v1 :> {f1, f2}) @@ (v2 :> {f2}) @@ (w1 :> {f1})

\* At most one file of the library is cut short at a time.
OneCutShort ==
    Cardinality({x \in Mods \X Files :
                     staged[x[1]][x[2]] # None /\ staged[x[1]][x[2]][2] = "torn"}) <= 1
===============================================================================
