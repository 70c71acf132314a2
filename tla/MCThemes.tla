------------------------------ MODULE MCThemes --------------------------------
(* Instances of Themes for TLC. *)
EXTENDS Themes, TLC

CONSTANTS a, b, c, p1, p2

\* Two themes over the same two targets, one the engine drops parts of and
\* whose second part has no background, one whose second file is no theme; and
\* one over a single target that the engine refuses but for its background.
MCPartsOf == (a :> {p1, p2}) @@ (b :> {p1, p2}) @@ (c :> {p1})
MCVerdict == (a :> ((p1 :> "fits") @@ (p2 :> "drops")))
             @@ (b :> ((p1 :> "plain") @@ (p2 :> "invalid")))
             @@ (c :> ((p1 :> "breaks") @@ (p2 :> "plain")))
MCBackgrounds == {<<a, p1>>, <<b, p1>>, <<b, p2>>, <<c, p1>>}
===============================================================================
