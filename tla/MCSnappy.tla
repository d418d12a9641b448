------------------------------ MODULE MCSnappy ------------------------------
(***************************************************************************)
(* Instances of Snappy: inputs that begin with bytes in no order and go on *)
(* with a period, at two places in a page, in blocks of several sizes, with*)
(* hash functions that tell many words apart, few of them or none.         *)
(***************************************************************************)
EXTENDS Snappy

CONSTANTS Lengths, Starts, Periods, Buffers, BlockSizes

MCByte == 0 .. 4

MCHash ==
  [kind \in {"many", "few", "one"} |->
    [w \in [1 .. 4 -> MCByte] |->
      CASE kind = "many" -> (w[1] + 5 * w[2] + 3 * w[3] + 7 * w[4]) % NumTableEntries
        [] kind = "few"  -> w[1] % 2
        [] kind = "one"  -> 0]]

Input(length, start, period) ==
  [i \in 1 .. length |-> IF i <= start THEN ((i * i * i) + (i \div 3)) % 5
                         ELSE (i - start) % period]

MCCalls ==
  [data : {Input(length, start, period) :
             length \in Lengths, start \in Starts, period \in Periods},
   buffer : Buffers,
   block_size : BlockSizes,
   hash : {"many", "few", "one"}]
=============================================================================
