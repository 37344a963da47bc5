------------------------------ MODULE FrameCrypto ------------------------------
(***************************************************************************)
(* The frame encryptor HCCrypto of a sender and the frame decryptor        *)
(* HCCryptoDecryptor of one receiver, joined by the RTP path through the   *)
(* SFU.  Each object is used by two threads: a media thread that runs      *)
(* Encrypt or Decrypt on every frame, and a Java thread that calls         *)
(* SetSM4KeyWithVersion when the room key rotates.  Neither object has a   *)
(* lock, so the memory accesses of the two threads interleave.             *)
(*                                                                         *)
(* A frame is the bit 0 of its first byte (VP8: 0 is a key frame) and the  *)
(* set of keystreams XORed over it: SM4-CTR always starts from the same    *)
(* counter, so applying one key twice cancels, and a frame is readable     *)
(* exactly when no keystream is left on it.                                *)
(***************************************************************************)
EXTENDS Naturals, FiniteSets

CONSTANTS
  Keys,          \* the SM4 keys of the room
  Torn,          \* a key schedule read while another thread rewrites it
  KeyStreamBit,  \* bit 0 of the first keystream byte, per key
  KeyOf,         \* the key that version v of the room key stands for
  MaxVersion,    \* bound: the highest version the installs reach
  VersionMod,    \* 128: the postfix byte has 7 bits for the version
  Media,         \* the media types this encryptor is attached to
  EncModes,      \* values of use_sm4_encryption_ (TRUE: every frame)
  DecModes,      \* values of use_sm4_decryption_
  MaxInFlight    \* bound: frames on the way at once

Versions == 0 .. MaxVersion
Ends == {"enc", "dec"}
Bit == {0, 1}
Schedules == Keys \cup {Torn}

ASSUME KeysAssumption == Torn \notin Keys /\ KeyStreamBit \in [Keys -> Bit]
ASSUME VersionAssumption ==
  /\ MaxVersion \in Nat
  /\ VersionMod \in Nat \ {0}
  /\ KeyOf \in [Versions -> Keys]
ASSUME ModeAssumption == EncModes \subseteq BOOLEAN /\ DecModes \subseteq BOOLEAN
ASSUME MediaAssumption == Media \subseteq {"video", "audio"}

VARIABLES
  node,        \* per end: sm4_key_, key_version_ and the mode flag
  install,     \* per end: the SetSM4KeyWithVersion call in progress
  encJob,      \* the Encrypt call in progress
  net,         \* encrypted frames on the way
  decJob,      \* the Decrypt call in progress
  out,         \* the frame the last Decrypt call returned
  mismatching  \* version_mismatch_count_ > 0

vars == <<node, install, encJob, net, decJob, out, mismatching>>

--------------------------------------------------------------------------------
(* Payloads and the keystream.                                             *)

Payload == [lead : Bit, mask : SUBSET Schedules]

Plain(lead) == [lead |-> lead, mask |-> {}]

\* XOR with one keystream.  A torn schedule yields a keystream nobody has, so
\* it never cancels.
Toggle(mask, k) == IF k \in mask /\ k # Torn THEN mask \ {k} ELSE mask \cup {k}

\* The values the first keystream bit may have under schedule k.
StreamBits(k) == IF k = Torn THEN Bit ELSE {KeyStreamBit[k]}

\* sm4_ctr_encrypt with a local copy of the fixed counter: encryption and
\* decryption are the same operation.
Sm4Ctr(p, k, b) == [lead |-> (p.lead + b) % 2, mask |-> Toggle(p.mask, k)]

\* The schedules an operation may have read that started under one schedule
\* and ends under another: a rewrite in between is a data race.
SeenSchedules(start, now) == IF start = now THEN {now} ELSE {start, now, Torn}

\* The VP8 key frame test, on whatever byte is in front of the caller.
IsKeyFrame(media, lead) == media = "video" /\ lead = 0

--------------------------------------------------------------------------------
(* Jobs, packets and results.                                              *)

EncIdle == [stage |-> "idle", calm |-> FALSE]
DecIdle == [stage |-> "idle", calm |-> FALSE]
NoFrame == [delivered |-> FALSE, calm |-> FALSE]
NoInstall == [stage |-> "idle", version |-> 0]

\* ver and calm are history: the full version the encryptor held when it wrote
\* the postfix, and whether no key install overlapped the Encrypt call.
Packet == [media : Media, lead : Bit, body : Payload, encrypted : BOOLEAN,
           version : 0 .. VersionMod - 1, ver : Versions, calm : BOOLEAN]

EncBody == [stage : {"body"}, media : Media, lead : Bit, crypto : BOOLEAN,
            start : Schedules, calm : BOOLEAN]
EncPostfix == [stage : {"postfix"}, media : Media, lead : Bit,
               crypto : BOOLEAN, body : Payload, calm : BOOLEAN]
DecBody == [stage : {"body"}, pkt : Packet, crypto : BOOLEAN,
            start : Schedules, seen : Versions, calm : BOOLEAN]

\* seen and calm are history: the decryptor's version when it compared, and
\* whether no key install overlapped the Encrypt or the Decrypt call.
Frame == [delivered : {TRUE}, pkt : Packet, body : Payload,
          seen : Versions, calm : BOOLEAN]

TypeOK ==
  /\ node \in [Ends -> [key : Schedules, version : Versions, full : BOOLEAN]]
  /\ install \in [Ends -> [stage : {"idle", "key", "version"},
                           version : Versions]]
  /\ encJob \in {EncIdle} \cup EncBody \cup EncPostfix
  /\ net \subseteq Packet
  /\ decJob \in {DecIdle} \cup DecBody
  /\ out \in {NoFrame} \cup Frame
  /\ mismatching \in BOOLEAN

Init ==
  /\ \E e \in EncModes, d \in DecModes :
       node = [x \in Ends |-> [key |-> KeyOf[0], version |-> 0,
                               full |-> IF x = "enc" THEN e ELSE d]]
  /\ install = [x \in Ends |-> NoInstall]
  /\ encJob = EncIdle
  /\ net = {}
  /\ decJob = DecIdle
  /\ out = NoFrame
  /\ mismatching = FALSE

--------------------------------------------------------------------------------
(* SetSM4KeyWithVersion: the key schedule is rewritten in place, then the  *)
(* version is assigned.  Versions only grow: the caller counts recoveries. *)

InstallBegin(x, v) ==
  /\ install[x].stage = "idle"
  /\ v > node[x].version
  /\ install' = [install EXCEPT ![x] = [stage |-> "key", version |-> v]]
  /\ node' = [node EXCEPT ![x].key = Torn]
  /\ encJob' = [encJob EXCEPT !.calm = @ /\ x # "enc"]
  /\ decJob' = [decJob EXCEPT !.calm = @ /\ x # "dec"]
  /\ UNCHANGED <<net, out, mismatching>>

InstallKey(x) ==
  /\ install[x].stage = "key"
  /\ install' = [install EXCEPT ![x].stage = "version"]
  /\ node' = [node EXCEPT ![x].key = KeyOf[install[x].version]]
  /\ UNCHANGED <<encJob, net, decJob, out, mismatching>>

\* Mutated form: the new key keeps the old version.
InstallVersion_unassigned(x) ==
  /\ install[x].stage = "version"
  /\ install' = [install EXCEPT ![x] = NoInstall]
  /\ UNCHANGED <<node, encJob, net, decJob, out, mismatching>>

InstallVersion(x) ==
  /\ install[x].stage = "version"
  /\ install' = [install EXCEPT ![x] = NoInstall]
  /\ node' = [node EXCEPT ![x].version = install[x].version]
  /\ UNCHANGED <<encJob, net, decJob, out, mismatching>>

--------------------------------------------------------------------------------
(* Encrypt: decide, run the cipher, then read the version for the postfix. *)

EncryptBegin(media, lead) ==
  /\ encJob.stage = "idle"
  /\ encJob' = [stage |-> "body", media |-> media, lead |-> lead,
                crypto |-> node["enc"].full \/ IsKeyFrame(media, lead),
                start |-> node["enc"].key,
                calm |-> install["enc"].stage = "idle"]
  /\ UNCHANGED <<node, install, net, decJob, out, mismatching>>

EncryptBody(k, b) ==
  /\ encJob.stage = "body"
  /\ k \in SeenSchedules(encJob.start, node["enc"].key)
  /\ b \in StreamBits(k)
  /\ encJob' = [stage |-> "postfix", media |-> encJob.media,
                lead |-> encJob.lead, crypto |-> encJob.crypto,
                body |-> IF encJob.crypto
                           THEN Sm4Ctr(Plain(encJob.lead), k, b)
                           ELSE Plain(encJob.lead),
                calm |-> encJob.calm]
  /\ UNCHANGED <<node, install, net, decJob, out, mismatching>>

\* Mutated form: the flag bit is taken for a part of the version.
EncryptPostfix_flagged ==
  /\ encJob.stage = "postfix"
  /\ Cardinality(net) < MaxInFlight
  /\ net' = net \cup
       {[media |-> encJob.media, lead |-> encJob.lead, body |-> encJob.body,
         encrypted |-> encJob.crypto,
         version |-> IF encJob.crypto
                       THEN VersionMod + node["enc"].version ELSE 0,
         ver |-> node["enc"].version, calm |-> encJob.calm]}
  /\ encJob' = EncIdle
  /\ UNCHANGED <<node, install, decJob, out, mismatching>>

\* 0x80 | (key_version_ & 0x7F) on an encrypted frame, 0x00 on a plain one.
EncryptPostfix ==
  /\ encJob.stage = "postfix"
  /\ Cardinality(net) < MaxInFlight
  /\ net' = net \cup
       {[media |-> encJob.media, lead |-> encJob.lead, body |-> encJob.body,
         encrypted |-> encJob.crypto,
         version |-> IF encJob.crypto
                       THEN node["enc"].version % VersionMod ELSE 0,
         ver |-> node["enc"].version, calm |-> encJob.calm]}
  /\ encJob' = EncIdle
  /\ UNCHANGED <<node, install, decJob, out, mismatching>>

\* The network may lose a frame; a set of frames also reorders them.
LoseFrame(p) ==
  /\ net' = net \ {p}
  /\ UNCHANGED <<node, install, encJob, decJob, out, mismatching>>

--------------------------------------------------------------------------------
(* Decrypt: decide and compare the version, then run the cipher.           *)

VersionMismatch(p) == p.encrypted /\ p.version # node["dec"].version

\* Mutated forms: the version is not compared; the mode flag is ignored.
PerformCrypto_anyVersion(p) ==
  (node["dec"].full \/ IsKeyFrame(p.media, p.body.lead)) /\ p.encrypted
PerformCrypto_keyFrames(p) ==
  IsKeyFrame(p.media, p.body.lead) /\ ~VersionMismatch(p) /\ p.encrypted

\* The key frame test reads the first byte of the encrypted frame.
PerformCrypto(p) ==
  /\ node["dec"].full \/ IsKeyFrame(p.media, p.body.lead)
  /\ ~VersionMismatch(p)
  /\ p.encrypted

\* Mutated form: the mismatch counter is never reset.
DecryptBegin_noReset(p) ==
  /\ decJob.stage = "idle"
  /\ net' = net \ {p}
  /\ mismatching' = (mismatching \/ VersionMismatch(p))
  /\ decJob' = [stage |-> "body", pkt |-> p, crypto |-> PerformCrypto(p),
                start |-> node["dec"].key, seen |-> node["dec"].version,
                calm |-> p.calm /\ install["dec"].stage = "idle"]
  /\ out' = NoFrame
  /\ UNCHANGED <<node, install, encJob>>

DecryptBegin(p) ==
  /\ decJob.stage = "idle"
  /\ net' = net \ {p}
  /\ mismatching' = VersionMismatch(p)
  /\ decJob' = [stage |-> "body", pkt |-> p, crypto |-> PerformCrypto(p),
                start |-> node["dec"].key, seen |-> node["dec"].version,
                calm |-> p.calm /\ install["dec"].stage = "idle"]
  /\ out' = NoFrame
  /\ UNCHANGED <<node, install, encJob>>

\* Every frame is returned with kOk, whatever happened to it.
DecryptBody(k, b) ==
  /\ decJob.stage = "body"
  /\ k \in SeenSchedules(decJob.start, node["dec"].key)
  /\ b \in StreamBits(k)
  /\ out' = [delivered |-> TRUE, pkt |-> decJob.pkt,
             body |-> IF decJob.crypto THEN Sm4Ctr(decJob.pkt.body, k, b)
                                       ELSE decJob.pkt.body,
             seen |-> decJob.seen, calm |-> decJob.calm]
  /\ decJob' = DecIdle
  /\ UNCHANGED <<node, install, encJob, net, mismatching>>

--------------------------------------------------------------------------------
Installing ==
  \E x \in Ends :
    \/ \E v \in Versions : InstallBegin(x, v)
    \/ InstallKey(x)
    \/ InstallVersion(x)

Encrypting ==
  \/ \E media \in Media, lead \in Bit : EncryptBegin(media, lead)
  \/ \E k \in Schedules, b \in Bit : EncryptBody(k, b)
  \/ EncryptPostfix

Decrypting ==
  \/ \E p \in net : DecryptBegin(p)
  \/ \E k \in Schedules, b \in Bit : DecryptBody(k, b)

Next ==
  \/ Installing
  \/ Encrypting
  \/ Decrypting
  \/ \E p \in net : LoseFrame(p)

Spec == Init /\ [][Next]_vars

\* The camera keeps the encoder busy, a SetSM4KeyWithVersion call that started
\* returns, and the network delivers again and again.
Fairness ==
  /\ WF_vars(Encrypting)
  /\ SF_vars(\E p \in net : DecryptBegin(p))
  /\ WF_vars(\E k \in Schedules, b \in Bit : DecryptBody(k, b))
  /\ \A x \in Ends : WF_vars(InstallKey(x) \/ InstallVersion(x))

FairSpec == Spec /\ Fairness

--------------------------------------------------------------------------------
(* Properties.                                                             *)

\* A frame whose encryption no key install overlapped carries the version of
\* the key it was encrypted with, however long it has been on the way and
\* however many installs came since (HCCrypto::Encrypt and
\* SetSM4KeyWithVersion), as long as versions fit in 7 bits.
LabelBindsKey ==
  \A p \in net : p.calm /\ p.encrypted => p.body.mask = {KeyOf[p.version]}

\* A frame that no key install overlapped at either end is returned readable,
\* or exactly as it was received, and the latter only if the two versions
\* differed or the decryptor is in key-frame mode: no wrong key is ever
\* applied to it (HCCryptoDecryptor::Decrypt).
NoGarbledFrame ==
  out.calm =>
    \/ out.body = Plain(out.pkt.lead)
    \/ /\ out.body = out.pkt.body
       /\ out.seen # out.pkt.version \/ ~node["dec"].full

\* When both ends hold the same version, a decryptor in full mode returns the
\* frame readable, whatever the encryptor's mode is.
SameVersionReadable ==
  /\ out.calm
  /\ node["dec"].full
  /\ out.pkt.ver = out.seen
  => out.body = Plain(out.pkt.lead)

--------------------------------------------------------------------------------
(* The inductive invariant behind the three safety properties.             *)

\* What Encrypt makes of a frame with first bit l under key k.
Cipher(l, k) == Sm4Ctr(Plain(l), k, KeyStreamBit[k])

\* Outside an install, a node's key is the one its version stands for.
NodeInv ==
  \A x \in Ends :
    /\ install[x].stage = "idle" => node[x].key = KeyOf[node[x].version]
    /\ install[x].stage = "version" => node[x].key = KeyOf[install[x].version]

\* An undisturbed Encrypt call works with the encryptor's present key.
EncInv ==
  encJob.calm =>
    /\ install["enc"].stage = "idle"
    /\ encJob.stage = "body" => encJob.start = node["enc"].key
    /\ encJob.stage = "postfix" =>
         encJob.body = IF encJob.crypto THEN Cipher(encJob.lead, node["enc"].key)
                                        ELSE Plain(encJob.lead)

\* An undisturbed packet is what the key of its version makes of its frame.
Undisturbed(p) ==
  p.calm =>
    /\ p.encrypted => p.version = p.ver
    /\ p.body = IF p.encrypted THEN Cipher(p.lead, KeyOf[p.ver])
                               ELSE Plain(p.lead)

NetInv == \A p \in net : Undisturbed(p)

\* An undisturbed Decrypt call works with the key and version it compared.
DecInv ==
  decJob.calm =>
    /\ install["dec"].stage = "idle"
    /\ decJob.start = node["dec"].key
    /\ decJob.seen = node["dec"].version
    /\ decJob.pkt.calm
    /\ Undisturbed(decJob.pkt)
    /\ decJob.crypto = PerformCrypto(decJob.pkt)

OutInv ==
  out.calm => out.pkt.calm /\ Undisturbed(out.pkt)

IInv ==
  /\ TypeOK /\ NodeInv /\ EncInv /\ NetInv /\ DecInv /\ OutInv
  /\ NoGarbledFrame

--------------------------------------------------------------------------------
(* Recovery from a version mismatch: what no step may do, and liveness.     *)

\* The frames on the way that the decryptor would not decrypt as it is now.
Stragglers == {p \in net : VersionMismatch(p)}

\* While both ends hold one version no frame of another version sets out, even
\* if its Encrypt call began before the last install, and the decryptor enters
\* the mismatch state only by taking such a frame from those already on the
\* way: the mismatched frames of a rotation are bounded by those that were on
\* the way when it ended (the postfix of HCCrypto::Encrypt, the comparison in
\* HCCryptoDecryptor::Decrypt), as long as versions fit in 7 bits.
StragglersRunOut ==
  [][ /\ node["enc"].version = node["dec"].version
      /\ node'["enc"].version = node'["dec"].version
      => /\ Stragglers' \subseteq Stragglers
         /\ mismatching' /\ ~mismatching => Stragglers' # Stragglers ]_vars

\* Once both ends stay on one version, the decryptor stops reporting a version
\* mismatch for good: the counter of mismatched frames is reset and stays so.
VersionRecovered ==
  (<>[](node["enc"].version = node["dec"].version))
    => <>[](~mismatching)

--------------------------------------------------------------------------------
(* Refinement: HCCrypto and HCCryptoDecryptor implement FrameChannel.       *)

\* What the channel knows of a packet.
Sight(p) == [media |-> p.media, lead |-> p.lead, calm |-> p.calm, ver |-> p.ver]

\* How a returned frame looks beside the one that was sent and the one received.
Look(f) == IF f.body = Plain(f.pkt.lead) THEN "readable"
           ELSE IF f.body = f.pkt.body THEN "opaque" ELSE "garbled"

Channel == INSTANCE FrameChannel WITH
  version  <- [x \in Ends |-> node[x].version],
  changing <- [x \in Ends |-> install[x].stage # "idle"],
  full     <- node["dec"].full,
  sending  <- IF encJob.stage = "idle" THEN {}
              ELSE {[media |-> encJob.media, lead |-> encJob.lead,
                     calm |-> encJob.calm]},
  path     <- {Sight(p) : p \in net},
  taken    <- IF decJob.stage = "idle" THEN {}
              ELSE {[media |-> decJob.pkt.media, lead |-> decJob.pkt.lead,
                     ver |-> decJob.pkt.ver, seen |-> decJob.seen,
                     calm |-> decJob.calm]},
  returned <- IF ~out.delivered THEN {}
              ELSE {[media |-> out.pkt.media, lead |-> out.pkt.lead,
                     look |-> Look(out)]}

\* The two classes, with their keys, ciphers, labels and data races, keep the
\* promise of the channel: each returned frame is one that was sent, and it is
\* garbled only if a key install overlapped its Encrypt or Decrypt call, and
\* otherwise readable if the versions agreed (full mode), as long as versions
\* fit in 7 bits.
KeepsChannel == Channel!Spec

================================================================================
