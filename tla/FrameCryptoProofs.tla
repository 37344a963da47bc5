--------------------------- MODULE FrameCryptoProofs ---------------------------
(***************************************************************************)
(* Proofs about FrameCrypto for any keys, any versions and any number of   *)
(* frames on the way: type correctness, and, as long as versions fit in    *)
(* the postfix byte, that an undisturbed frame is labelled with the        *)
(* version of its key and never decrypted with another one, that the       *)
(* mismatched frames of a rotation run out, and that the two classes       *)
(* implement FrameChannel.                                                 *)
(***************************************************************************)
EXTENDS FrameCrypto, TLAPS

--------------------------------------------------------------------------------
(* Type correctness.                                                       *)

\* XOR with a keystream maps payloads to payloads (sm4_ctr_encrypt).
LEMMA Sm4CtrType ==
  ASSUME NEW p \in Payload, NEW k \in Schedules, NEW b \in Bit
  PROVE  Sm4Ctr(p, k, b) \in Payload
<1>1. (p.lead + b) % 2 \in Bit
  BY DEF Payload, Bit
<1>2. Toggle(p.mask, k) \in SUBSET Schedules
  BY DEF Payload, Toggle
<1> QED  BY <1>1, <1>2 DEF Sm4Ctr, Payload

\* An unencrypted frame is a payload.
LEMMA PlainType == ASSUME NEW l \in Bit PROVE Plain(l) \in Payload
BY DEF Plain, Payload

\* The states HCCrypto and HCCryptoDecryptor can be in are well typed.
LEMMA TypeInit == Init => TypeOK
<1> SUFFICES ASSUME Init PROVE TypeOK
  OBVIOUS
<1>1. PICK e \in EncModes, d \in DecModes :
        node = [x \in Ends |-> [key |-> KeyOf[0], version |-> 0,
                                full |-> IF x = "enc" THEN e ELSE d]]
  BY DEF Init
<1>2. 0 \in Versions /\ KeyOf[0] \in Schedules
  BY VersionAssumption DEF Versions, Schedules
<1>3. e \in BOOLEAN /\ d \in BOOLEAN
  BY ModeAssumption
<1>4. node \in [Ends -> [key : Schedules, version : Versions, full : BOOLEAN]]
  BY <1>1, <1>2, <1>3
<1>5. install \in [Ends -> [stage : {"idle", "key", "version"},
                            version : Versions]]
  BY <1>2 DEF Init, NoInstall
<1> QED  BY <1>4, <1>5 DEF Init, TypeOK

\* A SetSM4KeyWithVersion step keeps the state well typed.
LEMMA TypeInstall ==
  ASSUME TypeOK, Installing
  PROVE  TypeOK'
<1>1. PICK x \in Ends : \/ \E v \in Versions : InstallBegin(x, v)
                        \/ InstallKey(x)
                        \/ InstallVersion(x)
  BY DEF Installing
<1>2. ASSUME NEW v \in Versions, InstallBegin(x, v) PROVE TypeOK'
  <2>1. node' \in [Ends -> [key : Schedules, version : Versions, full : BOOLEAN]]
    BY <1>2 DEF InstallBegin, TypeOK, Schedules
  <2>2. install' \in [Ends -> [stage : {"idle", "key", "version"},
                               version : Versions]]
    BY <1>2 DEF InstallBegin, TypeOK
  <2>3. encJob' \in {EncIdle} \cup EncBody \cup EncPostfix
    <3>1. CASE encJob = EncIdle
      BY <1>2, <3>1 DEF InstallBegin, EncIdle
    <3>2. CASE encJob \in EncBody
      BY <1>2, <3>2 DEF InstallBegin, EncBody
    <3>3. CASE encJob \in EncPostfix
      BY <1>2, <3>3 DEF InstallBegin, EncPostfix
    <3> QED  BY <3>1, <3>2, <3>3 DEF TypeOK
  <2>4. decJob' \in {DecIdle} \cup DecBody
    <3>1. CASE decJob = DecIdle
      BY <1>2, <3>1 DEF InstallBegin, DecIdle
    <3>2. CASE decJob \in DecBody
      BY <1>2, <3>2 DEF InstallBegin, DecBody
    <3> QED  BY <3>1, <3>2 DEF TypeOK
  <2> QED  BY <1>2, <2>1, <2>2, <2>3, <2>4 DEF InstallBegin, TypeOK
<1>3. CASE InstallKey(x)
  <2>1. KeyOf[install[x].version] \in Schedules
    BY VersionAssumption DEF TypeOK, Schedules
  <2> QED  BY <1>3, <2>1 DEF InstallKey, TypeOK
<1>4. CASE InstallVersion(x)
  <2>1. NoInstall \in [stage : {"idle", "key", "version"}, version : Versions]
    BY VersionAssumption DEF NoInstall, Versions
  <2> QED  BY <1>4, <2>1 DEF InstallVersion, TypeOK
<1> QED  BY <1>1, <1>2, <1>3, <1>4

\* A step of Encrypt keeps the state well typed.
LEMMA TypeEncrypt ==
  ASSUME TypeOK, Encrypting
  PROVE  TypeOK'
<1>1. ASSUME NEW media \in Media, NEW lead \in Bit, EncryptBegin(media, lead)
      PROVE  TypeOK'
  <2>1. node["enc"].key \in Schedules /\ node["enc"].full \in BOOLEAN
    BY DEF TypeOK, Ends
  <2>2. encJob' \in EncBody
    BY <1>1, <2>1 DEF EncryptBegin, EncBody, IsKeyFrame
  <2> QED  BY <1>1, <2>2 DEF EncryptBegin, TypeOK
<1>2. ASSUME NEW k \in Schedules, NEW b \in Bit, EncryptBody(k, b)
      PROVE  TypeOK'
  <2>1. encJob \in EncBody
    BY <1>2 DEF EncryptBody, TypeOK, EncIdle, EncPostfix
  <2>2. Plain(encJob.lead) \in Payload
    BY <2>1, PlainType DEF EncBody
  <2>3. Sm4Ctr(Plain(encJob.lead), k, b) \in Payload
    BY <1>2, <2>2, Sm4CtrType
  <2>4. encJob' \in EncPostfix
    BY <1>2, <2>1, <2>2, <2>3 DEF EncryptBody, EncBody, EncPostfix
  <2> QED  BY <1>2, <2>4 DEF EncryptBody, TypeOK
<1>3. CASE EncryptPostfix
  <2>1. encJob \in EncPostfix
    BY <1>3 DEF EncryptPostfix, TypeOK, EncIdle, EncBody
  <2>2. node["enc"].version \in Versions
    BY DEF TypeOK, Ends
  <2>3. /\ node["enc"].version % VersionMod \in 0 .. VersionMod - 1
        /\ 0 \in 0 .. VersionMod - 1
    BY <2>2, VersionAssumption DEF Versions
  <2>4. net' \subseteq Packet
    BY <1>3, <2>1, <2>2, <2>3 DEF EncryptPostfix, EncPostfix, Packet, TypeOK
  <2> QED  BY <1>3, <2>4 DEF EncryptPostfix, TypeOK
<1> QED  BY <1>1, <1>2, <1>3 DEF Encrypting

\* A step of Decrypt keeps the state well typed.
LEMMA TypeDecrypt ==
  ASSUME TypeOK, Decrypting
  PROVE  TypeOK'
<1>1. ASSUME NEW p \in net, DecryptBegin(p) PROVE TypeOK'
  <2>1. p \in Packet
    BY DEF TypeOK
  <2>2. /\ node["dec"].key \in Schedules
        /\ node["dec"].version \in Versions
        /\ node["dec"].full \in BOOLEAN
    BY DEF TypeOK, Ends
  <2>3. PerformCrypto(p) \in BOOLEAN /\ VersionMismatch(p) \in BOOLEAN
    BY DEF PerformCrypto, VersionMismatch
  <2>4. (p.calm /\ install["dec"].stage = "idle") \in BOOLEAN
    OBVIOUS
  <2>5. decJob' \in DecBody
    BY <1>1, <2>1, <2>2, <2>3, <2>4 DEF DecryptBegin, DecBody
  <2> QED  BY <1>1, <2>3, <2>5 DEF DecryptBegin, TypeOK
<1>2. ASSUME NEW k \in Schedules, NEW b \in Bit, DecryptBody(k, b)
      PROVE  TypeOK'
  <2>1. decJob \in DecBody
    BY <1>2 DEF DecryptBody, TypeOK, DecIdle
  <2>2. decJob.pkt \in Packet /\ decJob.pkt.body \in Payload
    BY <2>1 DEF DecBody, Packet
  <2>3. Sm4Ctr(decJob.pkt.body, k, b) \in Payload
    BY <1>2, <2>2, Sm4CtrType
  <2>4. out' \in Frame
    BY <1>2, <2>1, <2>2, <2>3 DEF DecryptBody, DecBody, Frame
  <2> QED  BY <1>2, <2>4 DEF DecryptBody, TypeOK
<1> QED  BY <1>1, <1>2 DEF Decrypting

\* Every reachable state of the encryptor, the decryptor and the frames on
\* the way is well typed, whatever the interleaving of installs and frames.
THEOREM TypeCorrect == Spec => []TypeOK
<1>1. TypeOK /\ [Next]_vars => TypeOK'
  <2> SUFFICES ASSUME TypeOK, [Next]_vars PROVE TypeOK'
    OBVIOUS
  <2>1. CASE UNCHANGED vars
    BY <2>1 DEF vars, TypeOK
  <2>2. CASE \E p \in net : LoseFrame(p)
    BY <2>2 DEF LoseFrame, TypeOK
  <2> QED  BY <2>1, <2>2, TypeInstall, TypeEncrypt, TypeDecrypt DEF Next
<1> QED  BY <1>1, TypeInit, PTL DEF Spec

--------------------------------------------------------------------------------
(* Undisturbed frames.                                                     *)

\* Applying one key twice restores the frame (SM4-CTR with a fixed counter).
LEMMA CipherCancels ==
  ASSUME NEW l \in Bit, NEW k \in Keys
  PROVE  Sm4Ctr(Cipher(l, k), k, KeyStreamBit[k]) = Plain(l)
<1>1. k # Torn /\ KeyStreamBit[k] \in Bit
  BY KeysAssumption
<1>2. Toggle(Toggle({}, k), k) = {}
  BY <1>1 DEF Toggle
<1>3. (((l + KeyStreamBit[k]) % 2) + KeyStreamBit[k]) % 2 = l
  BY <1>1 DEF Bit
<1> QED  BY <1>2, <1>3 DEF Cipher, Sm4Ctr, Plain

\* An undisturbed packet that is returned undecrypted although it is encrypted
\* met another version or a decryptor in key-frame mode; one that is decrypted
\* is readable.
LEMMA DecryptUndisturbed ==
  ASSUME NEW p \in Packet, p.calm, Undisturbed(p), TypeOK,
         node["dec"].key = KeyOf[node["dec"].version]
  PROVE  /\ PerformCrypto(p) =>
               Sm4Ctr(p.body, node["dec"].key, KeyStreamBit[node["dec"].key])
                 = Plain(p.lead)
         /\ ~PerformCrypto(p) =>
               \/ p.body = Plain(p.lead)
               \/ p.version # node["dec"].version
               \/ ~node["dec"].full
<1>1. ASSUME PerformCrypto(p)
      PROVE  Sm4Ctr(p.body, node["dec"].key, KeyStreamBit[node["dec"].key])
               = Plain(p.lead)
  <2>1. p.encrypted /\ p.version = node["dec"].version
    BY <1>1 DEF PerformCrypto, VersionMismatch
  <2>2. p.body = Cipher(p.lead, KeyOf[p.ver]) /\ p.version = p.ver
    BY <2>1 DEF Undisturbed
  <2>3. p.ver \in Versions /\ p.lead \in Bit
    BY DEF Packet
  <2>4. KeyOf[p.ver] \in Keys
    BY <2>3, VersionAssumption
  <2> QED  BY <2>1, <2>2, <2>3, <2>4, CipherCancels
<1>2. ASSUME ~PerformCrypto(p)
      PROVE  \/ p.body = Plain(p.lead)
             \/ p.version # node["dec"].version
             \/ ~node["dec"].full
  BY <1>2 DEF PerformCrypto, VersionMismatch, Undisturbed
<1> QED  BY <1>1, <1>2

\* Initially nothing is on the way.
LEMMA IInvInit == Init => IInv
<1> SUFFICES ASSUME Init PROVE IInv
  OBVIOUS
<1>1. TypeOK
  BY TypeInit
<1>2. NodeInv
  BY DEF Init, NodeInv, NoInstall, Ends
<1> QED  BY <1>1, <1>2
         DEF Init, IInv, EncInv, NetInv, DecInv, OutInv, NoGarbledFrame,
             EncIdle, DecIdle, NoFrame

\* An install step disturbs the call of its own end and nothing else.
LEMMA IInvInstall ==
  ASSUME IInv, Installing
  PROVE  IInv'
<1>1. TypeOK'
  BY TypeInstall DEF IInv
<1>2. PICK x \in Ends : \/ \E v \in Versions : InstallBegin(x, v)
                        \/ InstallKey(x)
                        \/ InstallVersion(x)
  BY DEF Installing
<1>3. ASSUME NEW v \in Versions, InstallBegin(x, v) PROVE IInv'
  <2>1. NodeInv'
    BY <1>3 DEF IInv, TypeOK, NodeInv, InstallBegin
  <2>2. EncInv'
    <3>1. CASE encJob = EncIdle
      BY <1>3, <3>1 DEF EncInv, EncIdle, InstallBegin
    <3>2. CASE encJob \in EncBody
      BY <1>3, <3>2 DEF IInv, TypeOK, EncInv, EncBody, InstallBegin, Ends
    <3>3. CASE encJob \in EncPostfix
      BY <1>3, <3>3 DEF IInv, TypeOK, EncInv, EncPostfix, InstallBegin, Ends
    <3> QED  BY <3>1, <3>2, <3>3 DEF IInv, TypeOK
  <2>3. DecInv'
    <3>1. CASE decJob = DecIdle
      BY <1>3, <3>1 DEF DecInv, DecIdle, InstallBegin
    <3>2. CASE decJob \in DecBody
      BY <1>3, <3>2 DEF IInv, TypeOK, DecInv, DecBody, InstallBegin, Ends,
                        Undisturbed, PerformCrypto, VersionMismatch
    <3> QED  BY <3>1, <3>2 DEF IInv, TypeOK
  <2>4. NetInv' /\ OutInv' /\ NoGarbledFrame'
    BY <1>3 DEF IInv, TypeOK, InstallBegin, NetInv, OutInv, NoGarbledFrame,
                Undisturbed, Ends
  <2> QED  BY <1>1, <2>1, <2>2, <2>3, <2>4 DEF IInv
<1>4. ASSUME InstallKey(x) \/ InstallVersion(x) PROVE IInv'
  <2>1. NodeInv'
    <3>1. CASE InstallKey(x)
      BY <3>1 DEF IInv, TypeOK, NodeInv, InstallKey
    <3>2. CASE InstallVersion(x)
      BY <3>2 DEF IInv, TypeOK, NodeInv, InstallVersion, NoInstall
    <3> QED  BY <1>4, <3>1, <3>2
  <2>2. /\ encJob.calm => x # "enc"
        /\ decJob.calm => x # "dec"
    BY <1>4 DEF IInv, EncInv, DecInv, InstallKey, InstallVersion
  <2>3. \A y \in Ends : y # x => node'[y] = node[y] /\ install'[y] = install[y]
    BY <1>4 DEF IInv, TypeOK, InstallKey, InstallVersion
  <2>4. /\ UNCHANGED <<encJob, net, decJob, out>>
        /\ \A y \in Ends : node'[y].full = node[y].full
    BY <1>4 DEF IInv, TypeOK, InstallKey, InstallVersion
  <2>5. EncInv'
    BY <2>2, <2>3, <2>4 DEF IInv, EncInv, Ends
  <2>6. DecInv'
    BY <2>2, <2>3, <2>4 DEF IInv, DecInv, Ends, Undisturbed, PerformCrypto,
                            VersionMismatch
  <2>7. NetInv' /\ OutInv' /\ NoGarbledFrame'
    BY <2>4 DEF IInv, NetInv, OutInv, NoGarbledFrame, Undisturbed, Ends
  <2> QED  BY <1>1, <2>1, <2>5, <2>6, <2>7 DEF IInv
<1> QED  BY <1>2, <1>3, <1>4

\* A step of Encrypt puts on the way what the key of its label makes of the
\* frame, unless an install overlapped it.
LEMMA IInvEncrypt ==
  ASSUME MaxVersion < VersionMod, IInv, Encrypting
  PROVE  IInv'
<1>1. TypeOK /\ TypeOK'
  BY TypeEncrypt DEF IInv
<1>2. UNCHANGED <<node, install, decJob, out, mismatching>>
  BY DEF Encrypting, EncryptBegin, EncryptBody, EncryptPostfix
<1>3. NodeInv' /\ DecInv' /\ OutInv' /\ NoGarbledFrame'
  BY <1>2 DEF IInv, NodeInv, DecInv, OutInv, NoGarbledFrame, Undisturbed,
              PerformCrypto, VersionMismatch
<1>4. ASSUME NEW media \in Media, NEW lead \in Bit, EncryptBegin(media, lead)
      PROVE  EncInv' /\ NetInv'
  BY <1>4 DEF IInv, EncryptBegin, EncInv, NetInv, Undisturbed
<1>5. ASSUME NEW k \in Schedules, NEW b \in Bit, EncryptBody(k, b)
      PROVE  EncInv' /\ NetInv'
  <2>1. encJob \in EncBody
    BY <1>1, <1>5 DEF EncryptBody, TypeOK, EncIdle, EncPostfix
  <2>2. NetInv'
    BY <1>5 DEF IInv, EncryptBody, NetInv, Undisturbed
  <2>3. ASSUME encJob'.calm
        PROVE  /\ install["enc"].stage = "idle"
               /\ encJob'.body = IF encJob'.crypto
                                   THEN Cipher(encJob'.lead, node["enc"].key)
                                   ELSE Plain(encJob'.lead)
    <3>1. encJob.calm
      BY <1>5, <2>3 DEF EncryptBody
    <3>2. install["enc"].stage = "idle" /\ encJob.start = node["enc"].key
      BY <3>1, <1>5 DEF IInv, EncInv, EncryptBody
    <3>3. k = node["enc"].key
      BY <3>2, <1>5 DEF EncryptBody, SeenSchedules
    <3>4. k \in Keys
      <4>1. node["enc"].version \in Versions
        BY <1>1 DEF TypeOK, Ends
      <4> QED  BY <3>2, <3>3, <4>1, VersionAssumption DEF IInv, NodeInv, Ends
    <3>5. b = KeyStreamBit[k]
      BY <3>4, <1>5, KeysAssumption DEF EncryptBody, StreamBits
    <3> QED  BY <3>2, <3>3, <3>5, <1>5 DEF EncryptBody, Cipher
  <2>4. encJob'.stage = "postfix"
    BY <1>5 DEF EncryptBody
  <2>5. EncInv'
    BY <2>3, <2>4, <1>2 DEF EncInv
  <2> QED  BY <2>2, <2>5
<1>6. ASSUME EncryptPostfix PROVE EncInv' /\ NetInv'
  <2>1. encJob \in EncPostfix
    BY <1>1, <1>6 DEF EncryptPostfix, TypeOK, EncIdle, EncBody
  <2>2. EncInv'
    BY <1>6 DEF EncryptPostfix, EncInv, EncIdle
  <2>3. ASSUME NEW p \in net', p \notin net PROVE Undisturbed(p)
    <3>1. p = [media |-> encJob.media, lead |-> encJob.lead,
               body |-> encJob.body, encrypted |-> encJob.crypto,
               version |-> IF encJob.crypto
                             THEN node["enc"].version % VersionMod ELSE 0,
               ver |-> node["enc"].version, calm |-> encJob.calm]
      BY <1>6, <2>3 DEF EncryptPostfix
    <3>2. node["enc"].version \in 0 .. MaxVersion
      BY <1>1 DEF TypeOK, Ends, Versions
    <3>3. node["enc"].version % VersionMod = node["enc"].version
      BY <3>2, VersionAssumption
    <3>4. encJob.calm =>
            /\ node["enc"].key = KeyOf[node["enc"].version]
            /\ encJob.body = IF encJob.crypto
                               THEN Cipher(encJob.lead, node["enc"].key)
                               ELSE Plain(encJob.lead)
      BY <1>6 DEF IInv, NodeInv, EncInv, EncryptPostfix, Ends
    <3> QED  BY <3>1, <3>3, <3>4 DEF Undisturbed
  <2>4. \A p \in net : Undisturbed(p)
    BY DEF IInv, NetInv
  <2>5. NetInv'
    BY <2>3, <2>4 DEF NetInv, Undisturbed
  <2> QED  BY <2>2, <2>5
<1>7. EncInv' /\ NetInv'
  BY <1>4, <1>5, <1>6 DEF Encrypting
<1> QED  BY <1>1, <1>3, <1>7 DEF IInv

\* A step of Decrypt returns an undisturbed frame readable or untouched.
LEMMA IInvDecrypt ==
  ASSUME IInv, Decrypting
  PROVE  IInv'
<1>1. TypeOK /\ TypeOK'
  BY TypeDecrypt DEF IInv
<1>2. UNCHANGED <<node, install, encJob>>
  BY DEF Decrypting, DecryptBegin, DecryptBody
<1>3. NodeInv' /\ EncInv'
  BY <1>2 DEF IInv, NodeInv, EncInv
<1>4. NetInv'
  BY DEF IInv, Decrypting, DecryptBegin, DecryptBody, NetInv, Undisturbed
<1>5. ASSUME NEW p \in net, DecryptBegin(p)
      PROVE  DecInv' /\ OutInv' /\ NoGarbledFrame'
  <2>1. Undisturbed(p)
    BY DEF IInv, NetInv
  <2>2. DecInv'
    BY <1>2, <1>5, <2>1 DEF DecryptBegin, DecInv, Undisturbed, PerformCrypto,
                            VersionMismatch
  <2>3. ~out'.calm
    BY <1>5 DEF DecryptBegin, NoFrame
  <2> QED  BY <2>2, <2>3 DEF OutInv, NoGarbledFrame
<1>6. ASSUME NEW k \in Schedules, NEW b \in Bit, DecryptBody(k, b)
      PROVE  DecInv' /\ OutInv' /\ NoGarbledFrame'
  <2>1. decJob \in DecBody
    BY <1>1, <1>6 DEF DecryptBody, TypeOK, DecIdle
  <2>2. DecInv'
    BY <1>6 DEF DecryptBody, DecInv, DecIdle
  <2>3. ASSUME out'.calm
        PROVE  /\ out'.pkt.calm /\ Undisturbed(out'.pkt)
               /\ \/ out'.body = Plain(out'.pkt.lead)
                  \/ /\ out'.body = out'.pkt.body
                     /\ out'.seen # out'.pkt.version \/ ~node["dec"].full
    <3> DEFINE p == decJob.pkt
    <3>1. decJob.calm /\ out'.pkt = p /\ out'.seen = decJob.seen
      BY <1>6, <2>3 DEF DecryptBody
    <3>2. /\ install["dec"].stage = "idle"
          /\ decJob.start = node["dec"].key
          /\ decJob.seen = node["dec"].version
          /\ p.calm
          /\ Undisturbed(p)
          /\ decJob.crypto = PerformCrypto(p)
      BY <3>1 DEF IInv, DecInv
    <3>3. node["dec"].key = KeyOf[node["dec"].version]
      BY <3>2 DEF IInv, NodeInv, Ends
    <3>4. k = node["dec"].key
      BY <3>2, <1>6 DEF DecryptBody, SeenSchedules
    <3>5. k \in Keys
      <4>1. node["dec"].version \in Versions
        BY <1>1 DEF TypeOK, Ends
      <4> QED  BY <3>3, <3>4, <4>1, VersionAssumption
    <3>6. b = KeyStreamBit[k]
      BY <3>5, <1>6, KeysAssumption DEF DecryptBody, StreamBits
    <3>7. p \in Packet
      BY <2>1 DEF DecBody
    <3>8. out'.body = IF PerformCrypto(p) THEN Sm4Ctr(p.body, k, b) ELSE p.body
      BY <1>6, <3>2 DEF DecryptBody
    <3>9. /\ PerformCrypto(p) => Sm4Ctr(p.body, k, b) = Plain(p.lead)
          /\ ~PerformCrypto(p) => \/ p.body = Plain(p.lead)
                                  \/ p.version # node["dec"].version
                                  \/ ~node["dec"].full
      BY <1>1, <3>2, <3>3, <3>4, <3>6, <3>7, DecryptUndisturbed
    <3> QED  BY <3>1, <3>2, <3>8, <3>9
  <2>4. OutInv'
    BY <2>3 DEF OutInv, Undisturbed
  <2>5. NoGarbledFrame'
    BY <1>2, <2>3 DEF NoGarbledFrame
  <2> QED  BY <2>2, <2>4, <2>5
<1>7. DecInv' /\ OutInv' /\ NoGarbledFrame'
  BY <1>5, <1>6 DEF Decrypting
<1> QED  BY <1>1, <1>3, <1>4, <1>7 DEF IInv

\* The invariant is inductive as long as versions fit in the postfix byte.
LEMMA IInvAlways ==
  ASSUME MaxVersion < VersionMod
  PROVE  Spec => []IInv
<1>1. IInv /\ [Next]_vars => IInv'
  <2> SUFFICES ASSUME IInv, [Next]_vars PROVE IInv'
    OBVIOUS
  <2>1. CASE UNCHANGED vars
    <3>1. NodeInv' /\ EncInv'
      BY <2>1 DEF vars, IInv, NodeInv, EncInv
    <3>2. NetInv' /\ OutInv'
      BY <2>1 DEF vars, IInv, NetInv, OutInv, Undisturbed
    <3>3. DecInv'
      BY <2>1 DEF vars, IInv, DecInv, Undisturbed, PerformCrypto,
                  VersionMismatch
    <3>4. TypeOK' /\ NoGarbledFrame'
      BY <2>1 DEF vars, IInv, TypeOK, NoGarbledFrame
    <3> QED  BY <3>1, <3>2, <3>3, <3>4 DEF IInv
  <2>2. CASE \E p \in net : LoseFrame(p)
    <3>1. net' \subseteq net /\ UNCHANGED <<node, install, encJob, decJob, out>>
      BY <2>2 DEF LoseFrame
    <3>2. NodeInv' /\ EncInv'
      BY <3>1 DEF IInv, NodeInv, EncInv
    <3>3. NetInv' /\ OutInv'
      BY <3>1 DEF IInv, NetInv, OutInv, Undisturbed
    <3>4. DecInv'
      BY <3>1 DEF IInv, DecInv, Undisturbed, PerformCrypto, VersionMismatch
    <3>5. TypeOK' /\ NoGarbledFrame'
      BY <2>2 DEF LoseFrame, IInv, TypeOK, NoGarbledFrame
    <3> QED  BY <3>2, <3>3, <3>4, <3>5 DEF IInv
  <2> QED  BY <2>1, <2>2, IInvInstall, IInvEncrypt, IInvDecrypt DEF Next
<1> QED  BY <1>1, IInvInit, PTL DEF Spec

\* For every set of keys and any number of key rotations below the 7-bit limit:
\* an undisturbed encrypted frame always carries the version of its key.
THEOREM LabelsBindKeys ==
  ASSUME MaxVersion < VersionMod
  PROVE  Spec => []LabelBindsKey
<1>1. IInv => LabelBindsKey
  <2> SUFFICES ASSUME IInv, NEW p \in net, p.calm, p.encrypted
               PROVE  p.body.mask = {KeyOf[p.version]}
    BY DEF LabelBindsKey
  <2>1. p.body = Cipher(p.lead, KeyOf[p.version])
    BY DEF IInv, NetInv, Undisturbed
  <2> QED  BY <2>1 DEF Cipher, Sm4Ctr, Plain, Toggle
<1> QED  BY <1>1, IInvAlways, PTL

\* For every set of keys and any number of key rotations below the 7-bit limit:
\* no frame that no install overlapped is ever decrypted with a wrong key.
THEOREM FramesNeverGarbled ==
  ASSUME MaxVersion < VersionMod
  PROVE  Spec => []NoGarbledFrame
<1>1. IInv => NoGarbledFrame
  BY DEF IInv
<1> QED  BY <1>1, IInvAlways, PTL

\* For every set of keys and any number of key rotations below the 7-bit limit:
\* a decryptor in full mode on the sender's version returns readable frames.
THEOREM SameVersionAlwaysReadable ==
  ASSUME MaxVersion < VersionMod
  PROVE  Spec => []SameVersionReadable
<1>1. IInv => SameVersionReadable
  <2> SUFFICES ASSUME IInv, out.calm, node["dec"].full, out.pkt.ver = out.seen,
                      out.body # Plain(out.pkt.lead)
               PROVE  FALSE
    BY DEF SameVersionReadable
  <2>1. /\ out.body = out.pkt.body
        /\ out.seen # out.pkt.version
    BY DEF IInv, NoGarbledFrame
  <2> QED  BY <2>1 DEF IInv, OutInv, Undisturbed
<1> QED  BY <1>1, IInvAlways, PTL

--------------------------------------------------------------------------------
(* Recovery from a version mismatch.                                       *)

\* A step that leaves both ends on one version has not changed the decryptor's:
\* one SetSM4KeyWithVersion step writes the version of one end only.
LEMMA VersionStays ==
  ASSUME TypeOK, Next,
         node["enc"].version = node["dec"].version,
         node'["enc"].version = node'["dec"].version
  PROVE  /\ node'["dec"].version = node["dec"].version
         /\ node'["enc"].version = node["enc"].version
<1>1. ASSUME Installing
      PROVE  /\ node'["dec"].version = node["dec"].version
             /\ node'["enc"].version = node["enc"].version
  <2>1. PICK x \in Ends : \/ \E v \in Versions : InstallBegin(x, v)
                          \/ InstallKey(x)
                          \/ InstallVersion(x)
    BY <1>1 DEF Installing
  <2>2. \A y \in Ends : y # x => node'[y].version = node[y].version
    BY <2>1 DEF InstallBegin, InstallKey, InstallVersion, TypeOK
  <2>3. x = "enc" \/ x = "dec"
    BY DEF Ends
  <2> QED  BY <2>2, <2>3 DEF Ends
<1>2. ASSUME ~Installing PROVE UNCHANGED node
  BY <1>2 DEF Next, Encrypting, Decrypting, EncryptBegin, EncryptBody,
              EncryptPostfix, DecryptBegin, DecryptBody, LoseFrame
<1> QED  BY <1>1, <1>2

\* While the ends agree, an Encrypt call labels its frame with a version the
\* decryptor accepts; no other step adds a frame.
LEMMA NoNewStraggler ==
  ASSUME MaxVersion < VersionMod, TypeOK, Next,
         node["enc"].version = node["dec"].version,
         node'["enc"].version = node'["dec"].version
  PROVE  Stragglers' \subseteq Stragglers
<1>1. node'["dec"].version = node["dec"].version
  BY VersionStays
<1>2. SUFFICES ASSUME NEW p \in net', VersionMismatch(p)' PROVE p \in net
  BY <1>1 DEF Stragglers, VersionMismatch
<1>3. p.encrypted /\ p.version # node["dec"].version
  BY <1>1, <1>2 DEF VersionMismatch
<1>4. CASE EncryptPostfix
  <2>1. node["enc"].version % VersionMod = node["enc"].version
    <3>1. node["enc"].version \in 0 .. MaxVersion
      BY DEF TypeOK, Versions, Ends
    <3> QED  BY <3>1, VersionAssumption
  <2> QED  BY <1>3, <1>4, <2>1 DEF EncryptPostfix
<1>5. CASE ~EncryptPostfix
  BY <1>5 DEF Next, Installing, InstallBegin, InstallKey, InstallVersion,
              Encrypting, EncryptBegin, EncryptBody, Decrypting, DecryptBegin,
              DecryptBody, LoseFrame
<1> QED  BY <1>4, <1>5

\* StragglersRunOut, for every number of frames on the way: once the two ends
\* hold one version, the frames of other versions only become fewer, and the
\* mismatch state is entered only by taking one of them.
THEOREM StragglersAlwaysRunOut ==
  ASSUME MaxVersion < VersionMod
  PROVE  Spec => StragglersRunOut
<1>1. TypeOK /\ [Next]_vars =>
        [ /\ node["enc"].version = node["dec"].version
          /\ node'["enc"].version = node'["dec"].version
          => /\ Stragglers' \subseteq Stragglers
             /\ mismatching' /\ ~mismatching => Stragglers' # Stragglers ]_vars
  <2> SUFFICES ASSUME TypeOK, Next,
                      node["enc"].version = node["dec"].version,
                      node'["enc"].version = node'["dec"].version
               PROVE  /\ Stragglers' \subseteq Stragglers
                      /\ mismatching' /\ ~mismatching => Stragglers' # Stragglers
    OBVIOUS
  <2>1. Stragglers' \subseteq Stragglers
    BY NoNewStraggler
  <2>2. ASSUME mismatching', ~mismatching PROVE Stragglers' # Stragglers
    <3>1. PICK p \in net : DecryptBegin(p)
      BY <2>2 DEF Next, Installing, InstallBegin, InstallKey, InstallVersion,
                  Encrypting, EncryptBegin, EncryptBody, EncryptPostfix,
                  Decrypting, DecryptBody, LoseFrame
    <3>2. VersionMismatch(p) /\ p \notin net'
      BY <2>2, <3>1 DEF DecryptBegin
    <3> QED  BY <3>2 DEF Stragglers
  <2> QED  BY <2>1, <2>2
<1> QED  BY <1>1, TypeCorrect, PTL DEF Spec, StragglersRunOut

--------------------------------------------------------------------------------
(* Refinement: HCCrypto and HCCryptoDecryptor implement FrameChannel.       *)

\* A SetSM4KeyWithVersion call under way brings a later version.
ChangeInv ==
  \A x \in Ends : install[x].stage # "idle" => install[x].version > node[x].version

\* Every step keeps the versions of the installs ahead.
LEMMA ChangeInvAlways == Spec => []ChangeInv
<1>1. Init => ChangeInv
  BY DEF Init, ChangeInv, NoInstall
<1>2. TypeOK /\ ChangeInv /\ [Next]_vars => ChangeInv'
  <2> SUFFICES ASSUME TypeOK, ChangeInv, [Next]_vars PROVE ChangeInv'
    OBVIOUS
  <2>1. CASE Installing
    <3>1. PICK x \in Ends : \/ \E v \in Versions : InstallBegin(x, v)
                            \/ InstallKey(x)
                            \/ InstallVersion(x)
      BY <2>1 DEF Installing
    <3>2. CASE \E v \in Versions : InstallBegin(x, v)
      BY <3>2 DEF InstallBegin, ChangeInv, TypeOK
    <3>3. CASE InstallKey(x)
      BY <3>3 DEF InstallKey, ChangeInv, TypeOK
    <3>4. CASE InstallVersion(x)
      BY <3>4 DEF InstallVersion, ChangeInv, TypeOK, NoInstall
    <3> QED  BY <3>1, <3>2, <3>3, <3>4
  <2>2. CASE ~Installing
    <3>1. UNCHANGED <<node, install>>
      BY <2>2 DEF Next, vars, Encrypting, Decrypting, EncryptBegin, EncryptBody,
                  EncryptPostfix, DecryptBegin, DecryptBody, LoseFrame
    <3> QED  BY <3>1 DEF ChangeInv
  <2> QED  BY <2>1, <2>2
<1> QED  BY <1>1, <1>2, TypeCorrect, PTL DEF Spec

\* The first state of the two objects is a first state of the channel.
LEMMA InitRefines == Init => Channel!Init
<1> SUFFICES ASSUME Init PROVE Channel!Init
  OBVIOUS
<1>1. node["dec"].full \in BOOLEAN
  BY TypeInit DEF TypeOK, Ends
<1>2. \A x \in Ends : node[x].version = 0 /\ install[x].stage = "idle"
  BY DEF Init, NoInstall
<1> QED  BY <1>1, <1>2 DEF Init, EncIdle, DecIdle, NoFrame, Channel!Init,
                           Channel!Ends, Ends

\* SetSM4KeyWithVersion: its first step begins a key change, its last ends it.
LEMMA InstallRefines ==
  ASSUME TypeOK, ChangeInv, Installing
  PROVE  [Channel!Next]_Channel!vars
<1> DEFINE
  changing == [y \in Ends |-> install[y].stage # "idle"]
  sending  == IF encJob.stage = "idle" THEN {}
              ELSE {[media |-> encJob.media, lead |-> encJob.lead,
                     calm |-> encJob.calm]}
  taken    == IF decJob.stage = "idle" THEN {}
              ELSE {[media |-> decJob.pkt.media, lead |-> decJob.pkt.lead,
                     ver |-> decJob.pkt.ver, seen |-> decJob.seen,
                     calm |-> decJob.calm]}
  returned == IF ~out.delivered THEN {}
              ELSE {[media |-> out.pkt.media, lead |-> out.pkt.lead,
                     look |-> Look(out)]}
<1>1. PICK x \in Ends : \/ \E v \in Versions : InstallBegin(x, v)
                        \/ InstallKey(x)
                        \/ InstallVersion(x)
  BY DEF Installing
<1>2. ASSUME NEW v \in Versions, InstallBegin(x, v)
      PROVE  Channel!BeginChange(x)
  <2>1. /\ encJob'.stage = encJob.stage
        /\ encJob.stage # "idle" =>
             /\ encJob'.media = encJob.media
             /\ encJob'.lead = encJob.lead
             /\ encJob'.calm = (encJob.calm /\ x # "enc")
    BY <1>2 DEF InstallBegin, TypeOK, EncIdle, EncBody, EncPostfix
  <2>2. /\ decJob'.stage = decJob.stage
        /\ decJob.stage # "idle" =>
             /\ decJob'.pkt = decJob.pkt
             /\ decJob'.seen = decJob.seen
             /\ decJob'.calm = (decJob.calm /\ x # "dec")
    BY <1>2 DEF InstallBegin, TypeOK, DecIdle, DecBody
  <2>3. /\ \A y \in Ends : node'[y].version = node[y].version
        /\ node'["dec"].full = node["dec"].full
    BY <1>2 DEF InstallBegin, TypeOK, Ends
  <2>4. /\ install[x].stage = "idle" /\ install'[x].stage # "idle"
        /\ \A y \in Ends \ {x} : install'[y].stage = install[y].stage
    BY <1>2 DEF InstallBegin, TypeOK
  <2>5. UNCHANGED <<net, out>>
    BY <1>2 DEF InstallBegin
  <2>6. sending' = {[media |-> f.media, lead |-> f.lead,
                     calm |-> f.calm /\ x # "enc"] : f \in sending}
    <3>1. CASE encJob.stage = "idle"
      BY <2>1, <3>1
    <3>2. CASE encJob.stage # "idle"
      BY <2>1, <3>2
    <3> QED  BY <3>1, <3>2
  <2>7. taken' = {[media |-> f.media, lead |-> f.lead, ver |-> f.ver,
                   seen |-> f.seen, calm |-> f.calm /\ x # "dec"] : f \in taken}
    <3>1. CASE decJob.stage = "idle"
      BY <2>2, <3>1
    <3>2. CASE decJob.stage # "idle"
      BY <2>2, <3>2
    <3> QED  BY <3>1, <3>2
  <2>8. changing' = [changing EXCEPT ![x] = TRUE]
    BY <2>4
  <2> HIDE DEF sending, taken
  <2>9. ~changing[x]
    BY <2>4
  <2>10. UNCHANGED <<[y \in Ends |-> node[y].version], node["dec"].full,
                     {Sight(p) : p \in net}, returned>>
    BY <2>3, <2>5
  <2> QED  BY <2>6, <2>7, <2>8, <2>9, <2>10 DEF Channel!BeginChange, sending, taken
<1>3. ASSUME InstallKey(x) PROVE UNCHANGED Channel!vars
  <2>1. /\ \A y \in Ends : /\ node'[y].version = node[y].version
                           /\ node'[y].full = node[y].full
                           /\ (install'[y].stage # "idle") = (install[y].stage # "idle")
    BY <1>3 DEF InstallKey, TypeOK
  <2> QED  BY <1>3, <2>1 DEF InstallKey, Channel!vars, Channel!Ends, Ends
<1>4. ASSUME NEW v \in Versions, v = install[x].version, InstallVersion(x)
      PROVE  Channel!EndChange(x, v)
  <2>1. /\ install[x].version > node[x].version
        /\ install[x].stage # "idle" /\ install'[x].stage = "idle"
        /\ \A y \in Ends \ {x} : install'[y].stage = install[y].stage
    BY <1>4 DEF InstallVersion, ChangeInv, TypeOK, NoInstall
  <2>2. /\ node'[x].version = install[x].version
        /\ \A y \in Ends \ {x} : node'[y].version = node[y].version
        /\ node'["dec"].full = node["dec"].full
    BY <1>4 DEF InstallVersion, TypeOK, Ends
  <2> QED  BY <1>4, <2>1, <2>2 DEF InstallVersion, Channel!EndChange, Channel!Ends, Ends
<1>5. install[x].version \in Versions
  BY DEF TypeOK
<1>6. x \in Channel!Ends
  BY DEF Channel!Ends, Ends
<1>7. CASE \E v \in Versions : InstallBegin(x, v)
  BY <1>2, <1>6, <1>7 DEF Channel!Next
<1>8. CASE InstallVersion(x)
  <2>1. \E v \in Versions : Channel!EndChange(x, v)
    BY <1>4, <1>5, <1>8
  <2> QED  BY <2>1, <1>6 DEF Channel!Next
<1>9. CASE InstallKey(x)
  BY <1>3, <1>9
<1> QED  BY <1>1, <1>7, <1>8, <1>9

\* Encrypt: its first step takes a frame, its last sends it; the cipher between
\* them is nothing the channel sees.
LEMMA EncryptRefines ==
  ASSUME TypeOK, Encrypting
  PROVE  [Channel!Next]_Channel!vars
<1>1. ASSUME NEW media \in Media, NEW lead \in Bit, EncryptBegin(media, lead)
      PROVE  Channel!BeginSend(media, lead)
  <2>1. (install["enc"].stage = "idle") = ~(install["enc"].stage # "idle")
    OBVIOUS
  <2> QED  BY <1>1, <2>1 DEF EncryptBegin, Channel!BeginSend, Channel!Ends, Ends
<1>2. ASSUME NEW k \in Schedules, NEW b \in Bit, EncryptBody(k, b)
      PROVE  UNCHANGED Channel!vars
  BY <1>2 DEF EncryptBody, Channel!vars
<1>3. ASSUME EncryptPostfix PROVE Channel!EndSend
  <2> DEFINE p == [media |-> encJob.media, lead |-> encJob.lead,
                   body |-> encJob.body, encrypted |-> encJob.crypto,
                   version |-> IF encJob.crypto
                                 THEN node["enc"].version % VersionMod ELSE 0,
                   ver |-> node["enc"].version, calm |-> encJob.calm]
  <2>1. /\ net' = net \cup {p}
        /\ Sight(p) = [media |-> encJob.media, lead |-> encJob.lead,
                       calm |-> encJob.calm, ver |-> node["enc"].version]
    BY <1>3 DEF EncryptPostfix, Sight
  <2> HIDE DEF p
  <2>2. {Sight(q) : q \in net'} = {Sight(q) : q \in net} \cup {Sight(p)}
    BY <2>1
  <2>3. encJob.stage # "idle" /\ encJob'.stage = "idle"
    BY <1>3 DEF EncryptPostfix, EncIdle
  <2> QED  BY <1>3, <2>1, <2>2, <2>3 DEF EncryptPostfix, Channel!EndSend, Channel!Ends, Ends
<1> QED  BY <1>1, <1>2, <1>3 DEF Encrypting, Channel!Next, Bit

\* A packet leaves the network; another may look the same to the channel.
LEMMA LeavesPath ==
  ASSUME NEW p \in net, net' = net \ {p}
  PROVE  Channel!Leaves(Sight(p))
<1>1. CASE \E q \in net \ {p} : Sight(q) = Sight(p)
  <2>1. {Sight(q) : q \in net'} = {Sight(q) : q \in net}
    BY <1>1
  <2> QED  BY <2>1 DEF Channel!Leaves
<1>2. CASE ~ \E q \in net \ {p} : Sight(q) = Sight(p)
  <2>1. {Sight(q) : q \in net'} = {Sight(q) : q \in net} \ {Sight(p)}
    BY <1>2
  <2> QED  BY <2>1 DEF Channel!Leaves
<1> QED  BY <1>1, <1>2

\* The network loses a frame of the channel.
LEMMA LoseRefines ==
  ASSUME NEW p \in net, LoseFrame(p)
  PROVE  [Channel!Next]_Channel!vars
<1>1. Channel!Lose(Sight(p))
  BY LeavesPath DEF LoseFrame, Channel!Lose
<1> QED  BY <1>1 DEF Channel!Next

\* Decrypt: its first step takes a frame from the path, its last returns it, with
\* one of the looks the channel allows.
LEMMA DecryptRefines ==
  ASSUME IInv, Decrypting
  PROVE  [Channel!Next]_Channel!vars
<1>1. ASSUME NEW p \in net, DecryptBegin(p)
      PROVE  Channel!Take(Sight(p))
  <2>1. Channel!Leaves(Sight(p))
    BY <1>1, LeavesPath DEF DecryptBegin
  <2>2. /\ decJob.stage = "idle" /\ decJob'.stage # "idle"
        /\ decJob'.pkt = p
        /\ decJob'.seen = node["dec"].version
        /\ decJob'.calm = (p.calm /\ ~(install["dec"].stage # "idle"))
    BY <1>1 DEF DecryptBegin
  <2>3. ~out'.delivered
    BY <1>1 DEF DecryptBegin, NoFrame
  <2> QED  BY <1>1, <2>1, <2>2, <2>3 DEF DecryptBegin, Channel!Take, Channel!Ends, Ends, Sight
<1>2. ASSUME NEW k \in Schedules, NEW b \in Bit, DecryptBody(k, b)
      PROVE  Channel!Return
  <2> DEFINE f == [media |-> decJob.pkt.media, lead |-> decJob.pkt.lead,
                   ver |-> decJob.pkt.ver, seen |-> decJob.seen,
                   calm |-> decJob.calm]
  <2>1. /\ decJob.stage # "idle" /\ decJob'.stage = "idle"
        /\ out'.delivered /\ out'.pkt = decJob.pkt /\ out'.seen = decJob.seen
        /\ out'.calm = decJob.calm
    BY <1>2 DEF DecryptBody, DecIdle
  <2>2. Look(out') \in Channel!Looks(f)
    <3>1. CASE ~decJob.calm
      BY <3>1 DEF Look, Channel!Looks
    <3>2. CASE decJob.calm
      <4>1. NoGarbledFrame' /\ OutInv' /\ out'.calm
        BY <1>2, <2>1, <3>2, IInvDecrypt DEF IInv
      <4>2. \/ out'.body = Plain(out'.pkt.lead)
            \/ /\ out'.body = out'.pkt.body
               /\ out'.seen # out'.pkt.version \/ ~node["dec"].full
        BY <1>2, <4>1 DEF NoGarbledFrame, DecryptBody
      <4>3. out'.body = Plain(out'.pkt.lead) \/ out'.pkt.version = out'.pkt.ver
        BY <4>1, <4>2 DEF OutInv, Undisturbed
      <4> QED  BY <2>1, <3>2, <4>2, <4>3 DEF Look, Channel!Looks
    <3> QED  BY <3>1, <3>2
  <2>3. UNCHANGED <<node, install, encJob, net>>
    BY <1>2 DEF DecryptBody
  <2> QED  BY <2>1, <2>2, <2>3 DEF Channel!Return
<1> QED  BY <1>1, <1>2 DEF Decrypting, Channel!Next

\* KeepsChannel, for any keys, versions, modes and frames on the way: the native
\* encryptor and decryptor implement the channel, so that only frames whose
\* Encrypt or Decrypt call a SetSM4KeyWithVersion call overlapped may come out
\* garbled, and calm frames of the decryptor's version come out readable.
THEOREM FrameCryptoImplementsChannel ==
  ASSUME MaxVersion < VersionMod
  PROVE  Spec => KeepsChannel
<1>1. IInv /\ ChangeInv /\ [Next]_vars => [Channel!Next]_Channel!vars
  <2> SUFFICES ASSUME IInv, ChangeInv, [Next]_vars
               PROVE  [Channel!Next]_Channel!vars
    OBVIOUS
  <2>1. TypeOK
    BY DEF IInv
  <2>2. CASE UNCHANGED vars
    BY <2>2 DEF vars, Channel!vars
  <2>3. CASE Next
    BY <2>1, <2>3, InstallRefines, EncryptRefines, DecryptRefines, LoseRefines DEF Next
  <2> QED  BY <2>2, <2>3
<1> QED  BY <1>1, InitRefines, IInvAlways, ChangeInvAlways, PTL
         DEF Spec, KeepsChannel, Channel!Spec

================================================================================
