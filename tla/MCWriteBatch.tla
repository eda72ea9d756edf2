---------------------------- MODULE MCWriteBatch ----------------------------
(* Model-checking instances of WriteBatch.  With a PDU of 240 bytes two     *)
(* items fit when their data, padding included, is at most 196 bytes, and a *)
(* single item when its data is at most 212.                                *)
EXTENDS WriteBatch

MCBatches ==
    {<<98, 98, 1>>, <<97, 98, 4>>, <<97, 99, 4>>, <<97, 100>>, <<212, 1, 212>>,
     <<1, 213>>, <<213, 1>>, <<60, 61, 61>>, <<1, 1, 1, 1>>}
MCAreas == {1, 212, 213, 424, 500, 900}
=============================================================================
