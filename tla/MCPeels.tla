------------------------------ MODULE MCPeels -------------------------------
EXTENDS Peels

\* The id of an opaque instruction is its position in the segment.
Fold0  == <<<<"get", 0>>, <<"const", 0>>, <<"mul">>>>
Fold1  == <<<<"get", 0>>, <<"const", 1>>, <<"mul">>, <<"set", 0>>>>
Square == <<<<"get", 0>>, <<"get", 0>>, <<"mul">>, <<"set", 0>>>>
Cube   == <<<<"get", 0>>, <<"get", 0>>, <<"mul">>, <<"get", 0>>, <<"mul">>>>
Shift  == <<<<"get", 0>>, <<"shr">>, <<"tee", 0>>>>
Fuse   == <<<<"gget", 1, 0>>, <<"set", 0>>, <<"get", 0>>, <<"gset", 4, 0>>>>
Spill  == <<<<"call", 1, 0, 1>>, <<"set", 0>>, <<"get", 0>>>>
Pass   == <<<<"get", 0>>, <<"call", 2, 1, 1>>, <<"set", 0>>>>
Store  == <<<<"get", 0>>, <<"const", 1>>, <<"store", 3, 0>>>>
Update == <<<<"get", 0>>, <<"get", 0>>, <<"load", 3, 0>>, <<"store", 4, 0>>>>
Shared == <<<<"load", 1, 0>>, <<"tee", 0>>, <<"call", 3, 1, 0>>, <<"get", 0>>,
            <<"call", 5, 1, 0>>>>
Dead   == <<<<"get", 0>>, <<"load", 2, 0>>, <<"drop">>, <<"const", 1>>, <<"set", 0>>>>

AllSegments == {Fold0, Fold1, Square, Cube, Shift, Fuse, Spill, Pass, Store, Update,
                Shared, Dead}

=============================================================================
