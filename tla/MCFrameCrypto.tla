----------------------------- MODULE MCFrameCrypto -----------------------------
(* FrameCrypto on small instances: one key per version, versions 0 ..      *)
(* MaxVersion, and keystreams that start with both values of the bit.      *)
EXTENDS FrameCrypto

MCKeyOf == [v \in Versions |-> v]
MCKeys == Versions
MCKeyStreamBit == [k \in Versions |-> k % 2]
================================================================================
