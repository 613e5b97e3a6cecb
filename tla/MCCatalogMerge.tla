--------------------------- MODULE MCCatalogMerge ---------------------------
(* Instances of CatalogMerge for TLC.                                      *)
EXTENDS CatalogMerge, TLC

(* The cache rows are resolved through one alias, the other keys are       *)
(* identifiers.                                                            *)
ReleaseAlias == [c \in Caches |-> CHOOSE k \in Keys : TRUE]

(* Sessions are interchangeable.                                           *)
Interchangeable == Permutations(Txns)

KindOf == [i \in Items |-> IF i = 5 THEN "artist" ELSE "release"]
=============================================================================
