---------------------------- MODULE MCDirectRead ----------------------------
EXTENDS DirectRead, TLC

ThreadSymmetry == Permutations(Thread)

const_Osd == {1, 2}
const_Infos == {<<"asd", "other">>}
const_Blobs == {<<1, "k">>, <<2, "k">>}
Part(from, length) == [key |-> "k", offset |-> from, len |-> length]
const_Plans ==
    {<<[osd |-> 1, slices |-> <<Part(0, 1), Part(1, 1)>>]>>,
     <<[osd |-> 1, slices |-> <<Part(0, 2)>>], [osd |-> 2, slices |-> <<Part(0, 1)>>]>>}
=============================================================================
