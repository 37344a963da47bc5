-------------------------- MODULE PeerConnectionRefs --------------------------
(***************************************************************************)
(* The methods of peerconnection_jni.cpp that return a Java object made by *)
(* WebRTC's own JNI layer.  They build the wrapper they return from        *)
(* j_result.obj() while j_result goes on owning the reference, where       *)
(* transport_jni.cpp and java_types.cpp write j_result.Release().          *)
(***************************************************************************)
EXTENDS ScopedJavaRef

\* The wrapper to return is built around the reference of the local wrapper.
ReturnObj(s, o) ==
  /\ Idle /\ {s, o} \subseteq LocalScopes
  /\ ~built[s] /\ built[o] /\ obj[o] # Null
  /\ built' = [built EXCEPT ![s] = TRUE]
  /\ obj'   = [obj EXCEPT ![s] = obj[o]]
  /\ UNCHANGED <<table, bare, params, setting, given, fresh>>

GetSenders(s, o)              == ReturnObj(s, o)
GetTransceivers(s, o)         == ReturnObj(s, o)
AddTransceiverWithTrack(s, o) == ReturnObj(s, o)
AddTransceiverOfType(s, o)    == ReturnObj(s, o)

PeerConnectionNext ==
  \/ Next
  \/ \E s, o \in Scopes :
       \/ GetSenders(s, o) \/ GetTransceivers(s, o)
       \/ AddTransceiverWithTrack(s, o) \/ AddTransceiverOfType(s, o)

PeerConnectionSpec == Init /\ [][PeerConnectionNext]_vars
=============================================================================
