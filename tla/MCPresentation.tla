--------------------------- MODULE MCPresentation ---------------------------
(* Two goroutines and two streams: a window of three units that is resized  *)
(* between two and three, and buffers of two, or of the one unit that a     *)
(* reservation leaves.                                                      *)
EXTENDS Presentation, TLC

MCSymmetry == Permutations(Threads) \cup Permutations(Streams) \cup Permutations(ReservationIds)
=============================================================================
