------------------------------- MODULE MCRora -------------------------------
EXTENDS Rora, TLC

Frag(o, c) == [osd |-> o, ctr |-> c]
const_Layouts ==
    <<[sizes |-> <<2, 2>>, k |-> 1,
       fragments |-> <<<<Frag(1, <<>>)>>, <<Frag(1, <<>>)>>>>,
       compressed |-> FALSE, encryption |-> "none"],
      [sizes |-> <<4>>, k |-> 2,
       fragments |-> <<<<Frag(1, <<1, 1>>), Frag(2, <<0, 1>>)>>>>,
       compressed |-> FALSE, encryption |-> "ctr"]>>
const_CacheLayout(length) ==
    [sizes |-> <<length>>, k |-> 1, fragments |-> <<<<Frag(1, <<>>)>>>>,
     compressed |-> FALSE, encryption |-> "none"]
const_AlbaLevels == {<<"a">>, <<"a", "b">>}
Slice(from, n) == [offset |-> from, size |-> n]
const_Requests ==
    <<{<<[object |-> "o", slices |-> <<Slice(3, 1), Slice(1, 2)>>],
         [object |-> "o", slices |-> <<Slice(0, 1)>>]>>},
      {<<[object |-> "o", slices |-> <<Slice(2, 2)>>]>>}>>
const_LocalCache == <<BOOLEAN, {FALSE}>>
ClientSymmetry == Permutations(Client)
=============================================================================
