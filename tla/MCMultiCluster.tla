--------------------------- MODULE MCMultiCluster ---------------------------
(* Names for MultiCluster, two pairs of which have the same concatenation,  *)
(* and the calls on them; an argument a call does not use is fixed.         *)
EXTENDS MultiCluster

MCNames == {<<"a">>, <<"a", "b">>}
MCBucketNames == {<<"b", "c">>, <<"c">>}

MCRequests ==
  [op : {"GetBucket", "CloseOne"}, name : MCNames, bucket : MCBucketNames]
  \cup [op : {"AddCluster", "Inline"}, name : MCNames, bucket : {<<"c">>}]
  \cup [op : {"Configure", "Section", "Manual", "CloseAll", "Unknown"},
        name : {<<"a">>}, bucket : {<<"c">>}]
=============================================================================
