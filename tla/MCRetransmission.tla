-------------------------- MODULE MCRetransmission --------------------------
(* Every segment under the same id, as when a gap is tracked at each check. *)
EXTENDS Retransmission

CONSTANTS Id, Path
MCIds == {Id}
MCPaths == {Path}
MCIdOf == [s \in Segments |-> Id]
MCPathOf == [s \in Segments |-> Path]
=============================================================================
