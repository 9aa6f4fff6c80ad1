----------------------------- MODULE MCSession -----------------------------
(* Two calls of AddPath for one address. *)
EXTENDS Session, TLC

CONSTANT Address
MCAddressOf == [c \in Calls |-> Address]
MCAddresses == {Address}
MCSymmetry  == Permutations(Calls)
=============================================================================
