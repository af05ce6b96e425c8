--------------------------- MODULE MCNodeListing ---------------------------
(* Model-checking instance of NodeListing.  Words are at most three atoms  *)
(* long and queries at most two words: enough for bare keys, "k=any",     *)
(* values holding "=" and a word that is only "=".                        *)
EXTENDS NodeListing

MCZones == {<<"v">>, <<"any">>}
MCZoneRank == [z \in MCZones |-> IF z = <<"any">> THEN 1 ELSE 2]

\* Non-empty words over the atoms, at most MaxWordLen long.
Words(atoms, maxLen) == BoundedSeq(atoms, maxLen) \ {<<>>}
SearchQueries == BoundedSeq(Words({"k", "v", "any", "="}, 3), 2)
SearchQueriesWithAmp == BoundedSeq(Words({"k", "any", "=", "&"}, 4), 1)

NoMacsByAge == <<>>
MCMacsByAge == <<"m1", "m2">>
NoQuery == {<<>>}
\* No search, or one whose words hold a "+" and are separated by a space.
SortQueries == {<<>>, <<<<"k">>, <<"+">>>>}
NoMacAddrRank == [m \in {} |-> 0]
ZoneKeyName == <<"k">>
\* m1 was created first but has the higher address.
MCMacAddrRank == [m \in {"m1", "m2"} |-> IF m = "m1" THEN 2 ELSE 1]
=============================================================================
