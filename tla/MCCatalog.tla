------------------------------ MODULE MCCatalog -------------------------------
(* Instances of Catalog for TLC. *)
EXTENDS Catalog, TLC

CONSTANTS r, p, q, s, x, y, t, u

SomePages == {r, p, q, s, x, y}
SomeTitles == {t, u}

NoDirs == [n \in SomePages |-> <<>>]
NoFiles == [n \in SomePages |-> {}]

\* Cycles through the root and through a page that is linked twice.
Cycle == [dirs |-> r :> <<p, q, p>> @@ p :> <<q, r>> @@ q :> <<p>> @@ NoDirs,
          files |-> r :> {t} @@ q :> {u} @@ NoFiles,
          broken |-> {}]
\* A chain longer than maxRequests and deeper than maxDepth.
Chain == [dirs |-> r :> <<p>> @@ p :> <<q>> @@ q :> <<s>> @@ s :> <<x>> @@ x :> <<y>> @@ NoDirs,
          files |-> p :> {t} @@ x :> {t} @@ y :> {u} @@ NoFiles,
          broken |-> {}]
\* A page that does not parse hides the one behind it.
Star == [dirs |-> r :> <<p, s>> @@ p :> <<q>> @@ s :> <<r>> @@ NoDirs,
         files |-> r :> {t} @@ q :> {u} @@ s :> {t} @@ NoFiles,
         broken |-> {p}]
\* maxEntries are found before the last page.
Full == [dirs |-> r :> <<p, q>> @@ NoDirs,
         files |-> r :> {t} @@ p :> {t, u} @@ q :> {u} @@ NoFiles,
         broken |-> {}]
\* More links on a page than maxRequests.
Wide == [dirs |-> r :> <<p, q, s, x, y>> @@ NoDirs,
         files |-> q :> {t} @@ y :> {u} @@ NoFiles,
         broken |-> {s}]
Broken == [Star EXCEPT !.broken = {r}]

SomeSites == {Cycle, Chain, Star, Full, Wide, Broken}
===============================================================================
