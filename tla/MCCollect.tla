------------------------------- MODULE MCCollect -------------------------------
(* Three states and three rows: two of one key, one of them SQL NULL, and one   *)
(* without a key.                                                               *)
EXTENDS Collect
CONSTANTS s1, s2, s3, nullKey, sqlNull, jsonNull, ka, kb, v1

MCState == {s1, s2, s3}
MCRow == {[key |-> ka, value |-> v1, bytes |-> 3],
          [key |-> ka, value |-> sqlNull, bytes |-> 1],
          [key |-> kb, value |-> v1, bytes |-> 2],
          [key |-> nullKey, value |-> v1, bytes |-> 2]}
MCElement == 1 .. 2
StateSymmetry == Permutations(MCState)
=============================================================================
