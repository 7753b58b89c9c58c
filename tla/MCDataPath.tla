----------------------------- MODULE MCDataPath -----------------------------
(* Three octets of coils for DataPath: every range in and around them,   *)
(* on empty, full and mixed memory, under an open mask, one that ends      *)
(* early and one with a hole.                                              *)
EXTENDS DataPath

Three(x, y, z) == [i \in 0 .. 2 |-> <<x, y, z>>[i + 1]]

MCMemories == {Three({}, {}, {}), Three(Bits, Bits, Bits), Three({0, 3, 5, 7}, {1, 3, 4, 7}, {1, 2})}
MCAccesses == {Three(Bits, Bits, Bits), Three(Bits, Bits, {0, 1, 2}), Three(Bits, Bits \ {5}, Bits)}
MCPatterns == {{}, Bits, {0, 3, 5, 7}}
MCGarbage == {{}, Bits, {1, 4}}
=============================================================================
