---------------------------- MODULE MCMemoryMap ----------------------------
(* A space of 6 addresses and every insert, the empty and the overflowing  *)
(* ones among them.                                                        *)
EXTENDS MemoryMap

MCAllInserts == {[base |-> b, size |-> s, prot |-> 0] : b \in 0 .. 5, s \in 0 .. 5}
=============================================================================
