------------------------------ MODULE MCDriver ------------------------------
EXTENDS Driver

It(len, stores, work, best, early, proven, cost) ==
    [func |-> 0, len |-> len, stores |-> stores, work |-> work, best |-> best,
     early |-> early, proven |-> proven, fit |-> TRUE, cost |-> cost]

Quick   == It(4, 0, 1, 3, None, TRUE, 1)
Slow    == It(5, 0, 2, 2, 4, TRUE, 1)
Storing == It(3, 1, 2, 3, 3, FALSE, 1)
Stuck   == It(4, 0, 3, 2, None, TRUE, 2)
Unfit   == [It(2, 0, 1, 1, None, TRUE, 0) EXCEPT !.fit = FALSE]
Longer  == It(2, 0, 1, 3, None, TRUE, 1)     \* A* only
Hopeless == It(2, 0, 1, None, None, FALSE, 0)

Read(segs, whole) == [ok |-> TRUE, segs |-> segs, whole |-> whole]

MCModules ==
    {[imports |-> 1, code |-> <<Read(<<Slow, Quick>>, Quick), Read(<<>>, Unfit),
                                Read(<<Storing>>, Slow)>>],
     [imports |-> 0, code |-> <<Read(<<Unfit>>, Stuck), Read(<<Stuck, Slow>>, Storing)>>],
     [imports |-> 0, code |-> <<Read(<<Hopeless, Slow>>, Hopeless),
                                [Read(<<Quick>>, Quick) EXCEPT !.ok = FALSE],
                                Read(<<Storing>>, Slow)>>],
     [imports |-> 0, code |-> <<Read(<<Quick, Hopeless, Longer>>, Quick)>>],
     [imports |-> 0, code |-> <<>>]}

\* No time given, a time that has passed at the start, and one of a second.
MCFixed == {None, 0, 1}

=============================================================================
