---------------------------- MODULE MCUnreliableSig ----------------------------
(* Bounds for TLC: bytes of BITS bits, all of them.                        *)
EXTENDS UnreliableSig

MCBytes == [1 .. BITS -> 0 .. 1]
=============================================================================
