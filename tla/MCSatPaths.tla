----------------------------- MODULE MCSatPaths -----------------------------
EXTENDS SatPaths

\* Every pair of instructions; the id of an opaque one is its position.
Menu(i) == {<<"const", 0>>, <<"get", 0>>, <<"set", 0>>, <<"tee", 0>>, <<"drop">>,
            <<"mul">>, <<"shr">>, <<"gget", i, 0>>, <<"gset", i, 0>>,
            <<"load", i, 0>>, <<"store", i, 0>>, <<"call", i, 1, 1>>}

Pairs == {<<a, b>> : a \in Menu(1), b \in Menu(2)}

\* Longer segments, one for each thing the encoding may do with them.
Fold0  == <<<<"get", 0>>, <<"const", 0>>, <<"mul">>>>
Fold1  == <<<<"get", 0>>, <<"const", 1>>, <<"mul">>, <<"set", 0>>>>
Fold2  == <<<<"get", 0>>, <<"const", 0>>, <<"shr">>, <<"set", 0>>>>
Fuse   == <<<<"gget", 1, 0>>, <<"set", 0>>, <<"get", 0>>, <<"gset", 4, 0>>>>
Spill  == <<<<"call", 1, 0, 2>>, <<"set", 0>>, <<"gset", 3, 0>>>>
Calls  == <<<<"call", 1, 0, 0>>, <<"gget", 2, 0>>, <<"call", 3, 0, 0>>>>
Memory == <<<<"load", 1, 0>>, <<"get", 0>>, <<"store", 3, 0>>>>
Pure2  == <<<<"opaque", 1, 0, 2, FALSE>>, <<"shr">>, <<"gset", 3, 0>>>>
ReadWrite == <<<<"get", 0>>, <<"load", 2, 0>>, <<"get", 0>>, <<"const", 1>>, <<"store", 5, 0>>>>
TwoStores == <<<<"const", 0>>, <<"get", 0>>, <<"store", 3, 0>>,
               <<"const", 0>>, <<"get", 0>>, <<"store", 6, 4>>>>

Longer == {Fold0, Fold1, Fold2, Fuse, Spill, Calls, Memory, Pure2, ReadWrite,
           TwoStores}

AllSegments == Pairs \union Longer

\* Two calls with an access between them whose value comes to nothing.
DeadAccess == {<<<<"call", 1, 0, 0>>, <<"gget", 2, 0>>, <<"const", 0>>, <<"mul">>,
                 <<"call", 5, 0, 0>>>>}

=============================================================================
