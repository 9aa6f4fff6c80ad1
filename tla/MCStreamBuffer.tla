--------------------------- MODULE MCStreamBuffer ---------------------------
(* Instances of StreamBuffer: a stream of three bytes in two packets and a  *)
(* buffer one byte too small for them, read one or two bytes at a time.     *)
EXTENDS StreamBuffer, TLC

MCPackets == {[off |-> 0, len |-> 2], [off |-> 2, len |-> 1]}
MCReadSizes == {1, 2}

SymmetricWriters == Permutations(Writers)

(* Bound: two of the writes, the cleanups and Close are under way at a      *)
(* time, next to the reader.                                                *)
TwoUnderWay ==
  Cardinality({w \in Writers : writer[w].pc # "idle"})
    + Cardinality({c \in Cleaners : cleaner[c].pc # "idle"})
    + (IF closer \in {"open", "done"} THEN 0 ELSE 1) <= 2
=============================================================================
