----------------------------- MODULE FrameChannel -----------------------------
(***************************************************************************)
(* What frame encryption promises the two ends of a call, without keys and *)
(* ciphers: frames go from the encryptor to the decryptor, may be lost or  *)
(* overtake each other, and come out readable, untouched ("opaque") or     *)
(* garbled.  Each end changes its version at its own time.  Only a frame   *)
(* one of whose two calls a key change overlapped may be garbled, and if   *)
(* the versions agreed the decryptor returns the others readable.          *)
(***************************************************************************)
EXTENDS Naturals

CONSTANTS Media, Versions

Ends == {"enc", "dec"}

VARIABLES
  version,   \* per end: the version it is on
  changing,  \* per end: whether a key change is going on
  full,      \* whether the decryptor decrypts every frame, not only key frames
  sending,   \* the frame in the encryptor, if any: a set of at most one
  path,      \* the frames on the way, as far as the ends tell them apart
  taken,     \* the frame in the decryptor, if any, and the version it met
  returned   \* what the decryptor returned last, if anything since

vars == <<version, changing, full, sending, path, taken, returned>>

Init ==
  /\ version  = [x \in Ends |-> 0]
  /\ changing = [x \in Ends |-> FALSE]
  /\ full \in BOOLEAN
  /\ sending  = {}
  /\ path     = {}
  /\ taken    = {}
  /\ returned = {}

\* A key change begins: it disturbs the frame that is in this end.
BeginChange(x) ==
  /\ ~changing[x]
  /\ changing' = [changing EXCEPT ![x] = TRUE]
  /\ sending'  = {[media |-> f.media, lead |-> f.lead,
                   calm |-> f.calm /\ x # "enc"] : f \in sending}
  /\ taken'    = {[media |-> f.media, lead |-> f.lead, ver |-> f.ver,
                   seen |-> f.seen, calm |-> f.calm /\ x # "dec"] : f \in taken}
  /\ UNCHANGED <<version, full, path, returned>>

\* It ends: the end is on a later version.
EndChange(x, v) ==
  /\ changing[x] /\ v > version[x]
  /\ changing' = [changing EXCEPT ![x] = FALSE]
  /\ version'  = [version EXCEPT ![x] = v]
  /\ UNCHANGED <<full, sending, path, taken, returned>>

\* A frame enters the encryptor.
BeginSend(media, lead) ==
  /\ sending = {}
  /\ sending' = {[media |-> media, lead |-> lead, calm |-> ~changing["enc"]]}
  /\ UNCHANGED <<version, changing, full, path, taken, returned>>

\* It leaves for the path, with the version the encryptor is on.
EndSend ==
  /\ sending' = {}
  /\ \E f \in sending :
       path' = path \cup {[media |-> f.media, lead |-> f.lead, calm |-> f.calm,
                           ver |-> version["enc"]]}
  /\ UNCHANGED <<version, changing, full, taken, returned>>

\* One frame f leaves the path; another that looks the same may stay.
Leaves(f) == path' = path \/ path' = path \ {f}

Lose(f) ==
  /\ UNCHANGED <<version, changing, full, sending, taken, returned>>
  /\ Leaves(f)

\* A frame enters the decryptor.
Take(f) ==
  /\ taken = {}
  /\ Leaves(f)
  /\ taken' = {[media |-> f.media, lead |-> f.lead, ver |-> f.ver,
                seen |-> version["dec"], calm |-> f.calm /\ ~changing["dec"]]}
  /\ returned' = {}
  /\ UNCHANGED <<version, changing, full, sending>>

\* How a frame may come out of the decryptor.
Looks(f) ==
  {"readable"} \cup (IF f.calm /\ full /\ f.seen = f.ver THEN {} ELSE {"opaque"})
               \cup (IF f.calm THEN {} ELSE {"garbled"})

Return ==
  /\ taken' = {}
  /\ \E f \in taken : \E look \in Looks(f) :
       returned' = {[media |-> f.media, lead |-> f.lead, look |-> look]}
  /\ UNCHANGED <<version, changing, full, sending, path>>

Next ==
  \/ EndSend
  \/ Return
  \/ \E f \in path : Lose(f) \/ Take(f)
  \/ \E media \in Media, lead \in {0, 1} : BeginSend(media, lead)
  \/ \E x \in Ends : BeginChange(x) \/ \E v \in Versions : EndChange(x, v)

Spec == Init /\ [][Next]_vars
=============================================================================
