------------------------- MODULE MCStreamBufferLive -------------------------
(* The instance of StreamBuffer small enough for liveness: two one-byte     *)
(* packets fill the buffer.                                                 *)
EXTENDS StreamBuffer

MCPackets == {[off |-> 0, len |-> 1], [off |-> 1, len |-> 1]}
MCReadSizes == {1}
=============================================================================
