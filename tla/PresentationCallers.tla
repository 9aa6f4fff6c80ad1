------------------------ MODULE PresentationCallers -------------------------
(* What the managers of the presentation layer share: the goroutines that   *)
(* call them, the streams they are called for, and the sum of the bytes     *)
(* that a table holds.                                                      *)
EXTENDS Integers, FiniteSets

CONSTANTS Threads,
          Streams,
          MaxStreams     \* the limit each manager is configured with

(* The bytes of a table f, one by one, and how many they are.               *)
Units(f) == UNION {{x} \X (1 .. f[x]) : x \in DOMAIN f}
Total(f) == Cardinality(Units(f))
=============================================================================
