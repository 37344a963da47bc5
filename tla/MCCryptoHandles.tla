--------------------------- MODULE MCCryptoHandles ---------------------------
(* One object of each class, two threads, one sender and one receiver.      *)
EXTENDS CryptoHandles

CONSTANTS main, socket

MCOwner ==
  [o \in Objects |-> IF o \in Encryptors \cup SM4Encryptors THEN main ELSE socket]
=============================================================================
