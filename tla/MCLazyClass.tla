----------------------------- MODULE MCLazyClass -----------------------------
(* Two methods of one class and one of another, as in Producer_jni.h.        *)
EXTENDS LazyClass

CONSTANTS producer, listener, init, onTransportClose, onOther

MCClassOf ==
  [m \in Methods |-> IF m = init THEN producer ELSE listener]
=============================================================================
