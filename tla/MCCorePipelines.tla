--------------------------- MODULE MCCorePipelines ---------------------------
EXTENDS CorePipelines

MCChunks == {1, 2}

MCFlatParts == {<<1, 3>>, <<3, 1>>, <<2, 2>>, <<0, 3>>, <<3, 0>>}

Kinds(coded, tiled) ==
    IF coded THEN {<<3, 3, 4, 4>>, <<2, 1, 2, 5>>, <<3, 0, 0, 0>>, <<2, 2, 0, 0>>, <<2, 3, 0, 0>>}
    ELSE {<<3, 3, 4, 4>>, <<2, 2, 0, 0>>} \cup
         IF tiled THEN {<<2, 3, 1, 1>>, <<3, 2, 2, 2>>, <<3, 0, 0, 0>>} ELSE {}

\* The pipeline takes the chunks in any order, so that of two parts that differ in
\* the order of their chunks one is enough.
Rank(k) == k[1] * 1000 + k[2] * 100 + k[3] * 10 + k[4]

MCDeepParts(coded, tiled) ==
    IF coded /\ tiled THEN {}
    ELSE {f \in [MCChunks -> Kinds(coded, tiled)] : Rank(f[1]) <= Rank(f[2])}
=============================================================================
