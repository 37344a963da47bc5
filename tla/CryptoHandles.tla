---------------------------- MODULE CryptoHandles ----------------------------
(***************************************************************************)
(* The native frame encryptors and decryptors behind the Java classes      *)
(* HCCrypto, HCCryptoDecryptor, SM4CTREncryptor and SM4CTRDecryptor        *)
(* (hc_crypto_jni.cpp, hc_crypto_decryptor_jni.cpp, sm4_ctr_jni.cpp).      *)
(*                                                                         *)
(* A Java object keeps the address of a reference-counted native object in *)
(* a long field.  Every wrapper method reads the field, tests it against 0 *)
(* and passes the address to a native method; nothing is locked, so        *)
(* another thread may dispose the object between the test and the use.     *)
(* RTP senders and receivers hold references of their own.                 *)
(*                                                                         *)
(* What the ciphers do with keys is FrameCrypto's subject.  The VM may     *)
(* fail to hand out an array's elements, which the SM4 methods test for;   *)
(* failure of the native allocator, the only way their catch clauses can   *)
(* be reached, is left out, and so are the null arrays that abort the VM.  *)
(***************************************************************************)
EXTENDS Naturals, FiniteSets

CONSTANTS
  Encryptors,      \* HCCrypto objects
  Decryptors,      \* HCCryptoDecryptor objects
  SM4Encryptors,   \* SM4CTREncryptor objects
  SM4Decryptors,   \* SM4CTRDecryptor objects
  Callers,         \* Java threads
  Owner,           \* the thread that creates and disposes each object
  Senders,         \* RTP senders, one per producer
  Receivers,       \* RTP receivers, one per consumer
  NoObject         \* a zero address

HCObjects  == Encryptors \cup Decryptors
SM4Objects == SM4Encryptors \cup SM4Decryptors
Objects    == HCObjects \cup SM4Objects
Holders    == Senders \cup Receivers

ASSUME ObjectsAssumption ==
  /\ NoObject \notin Objects
  /\ HCObjects \cap SM4Objects = {}
  /\ Owner \in [Objects -> Callers]

ASSUME HoldersAssumption == IsFiniteSet(Holders)

VARIABLES
  life,     \* the native object: not created, allocated, deleted
  refs,     \* its reference count
  ptr,      \* the Java field is not zero
  frame,    \* the object a sender or receiver protects its frames with
  closed,   \* the producer or consumer of the sender or receiver is closed
  op,       \* how far the native call of a thread has come
  arg,      \* the address that call was given
  dest,     \* the sender or receiver it is about
  pins,     \* Java byte arrays the call has pinned
  todo      \* ReleaseByteArrayElements calls left on its way out

vars == <<life, refs, ptr, frame, closed, op, arg, dest, pins, todo>>

\* What a step inside a native method, before it uses the object, leaves alone.
shared == <<life, refs, ptr, frame, closed, dest>>

\* The array arguments of a native method; a setter has the first only.
Arrays == {"key", "iv"}

\* A call is "passed" an address without an array, given an "array" still to
\* be copied, or has "copied" it; an SM4 setter has "pinned" its array.  An SM4
\* constructor gets the key, gets the iv, constructs and has "built" the
\* object; a call that is "returning" only unpins.  dispose() is about to
\* "release" or to "zero" the field; setFrameEncryptor is about to "attach".
Ops == {"idle", "passed", "array", "copied", "pinned", "getKey", "getIV",
        "construct", "built", "returning", "release", "zero", "attach"}

Init ==
  /\ life   = [o \in Objects |-> "absent"]
  /\ refs   = [o \in Objects |-> 0]
  /\ ptr    = [o \in Objects |-> FALSE]
  /\ frame  = [h \in Holders |-> NoObject]
  /\ closed = [h \in Holders |-> FALSE]
  /\ op     = [t \in Callers |-> "idle"]
  /\ arg    = [t \in Callers |-> NoObject]
  /\ dest   \in [Callers -> Holders]
  /\ pins   = [t \in Callers |-> {}]
  /\ todo   = [t \in Callers |-> {}]

-----------------------------------------------------------------------------
(* Construction                                                            *)

\* Mutated forms: no AddRef; get() in place of release().
FirstRefs_noAddRef == 1
FirstRefs_get      == 0

\* make_ref_counted returns one reference, AddRef takes a second one, and
\* release() hands the address to Java without giving either back.
FirstRefs == 2

MakeRefCounted(o) ==
  /\ life' = [life EXCEPT ![o] = "live"]
  /\ refs' = [refs EXCEPT ![o] = FirstRefs]

Create(t, o) ==
  /\ op[t] = "idle" /\ Owner[o] = t /\ life[o] = "absent"
  /\ MakeRefCounted(o)
  /\ ptr' = [ptr EXCEPT ![o] = TRUE]
  /\ UNCHANGED <<frame, closed, op, arg, dest, pins, todo>>

CreateHCCrypto(t, o) == o \in Encryptors /\ Create(t, o)

CreateHCCryptoDecryptor(t, o) == o \in Decryptors /\ Create(t, o)

\* The Java constructor has checked that key and iv have 16 bytes, so the
\* native tests of their lengths never fail.
BeginCreate(t, o) ==
  /\ op[t] = "idle" /\ Owner[o] = t /\ life[o] = "absent"
  /\ op'   = [op EXCEPT ![t] = "getKey"]
  /\ arg'  = [arg EXCEPT ![t] = o]
  /\ UNCHANGED <<shared, pins, todo>>

CreateSM4CTREncryptor(t, o) == o \in SM4Encryptors /\ BeginCreate(t, o)

CreateSM4CTRDecryptor(t, o) == o \in SM4Decryptors /\ BeginCreate(t, o)

\* GetByteArrayElements hands the elements of an array out ...
Pin(t, array, next) ==
  /\ pins' = [pins EXCEPT ![t] = @ \cup {array}]
  /\ op'   = [op EXCEPT ![t] = next]
  /\ UNCHANGED <<shared, arg, todo>>

\* ... and a return statement is preceded by the releases written before it.
ReturnAfter(t, releases) ==
  /\ op'   = [op EXCEPT ![t] = "returning"]
  /\ todo' = [todo EXCEPT ![t] = releases]
  /\ UNCHANGED <<shared, arg, pins>>

GetKey(t) ==
  /\ op[t] = "getKey"
  /\ Pin(t, "key", "getIV") \/ ReturnAfter(t, {})

\* Mutated form: the key stays pinned when the iv cannot be had.
GetIV_keepsKey(t) ==
  /\ op[t] = "getIV"
  /\ Pin(t, "iv", "construct") \/ ReturnAfter(t, {})

GetIV(t) ==
  /\ op[t] = "getIV"
  /\ Pin(t, "iv", "construct") \/ ReturnAfter(t, {"key"})

Construct(t) ==
  /\ op[t] = "construct"
  /\ MakeRefCounted(arg[t])
  /\ op'   = [op EXCEPT ![t] = "built"]
  /\ todo' = [todo EXCEPT ![t] = {"key", "iv"}]
  /\ UNCHANGED <<ptr, frame, closed, arg, dest, pins>>

\* One ReleaseByteArrayElements.
Unpin(t) ==
  /\ op[t] \in {"built", "returning"}
  /\ \E a \in todo[t] :
       /\ pins' = [pins EXCEPT ![t] = @ \ {a}]
       /\ todo' = [todo EXCEPT ![t] = @ \ {a}]
  /\ UNCHANGED <<shared, op, arg>>

\* Back in Java: a constructor stores the address, or 0 if it built nothing.
Return(t) ==
  /\ op[t] \in {"built", "returning"} /\ todo[t] = {}
  /\ ptr' = IF op[t] = "built" THEN [ptr EXCEPT ![arg[t]] = TRUE] ELSE ptr
  /\ op'  = [op EXCEPT ![t] = "idle"]
  /\ UNCHANGED <<life, refs, frame, closed, arg, dest, pins, todo>>

-----------------------------------------------------------------------------
(* Calls through the address                                               *)

\* The Java wrapper tests its field and passes the address; the native
\* method tests it again and goes on to the step named next.  With a zero
\* field neither does anything.  The SM4 methods read the field natively.
PassAddress(t, o, next) ==
  /\ op[t] = "idle" /\ ptr[o]
  /\ op'  = [op EXCEPT ![t] = next]
  /\ arg' = [arg EXCEPT ![t] = o]
  /\ UNCHANGED <<shared, pins, todo>>

EnableSM4Encryption(t, o)  == o \in Encryptors /\ PassAddress(t, o, "passed")
SetSM4Key(t, o)            == o \in Encryptors /\ PassAddress(t, o, "array")
SetSM4CTR(t, o)            == o \in Encryptors /\ PassAddress(t, o, "array")
SetSM4KeyWithVersion(t, o) == o \in Encryptors /\ PassAddress(t, o, "array")
GetKeyVersion(t, o)        == o \in Encryptors /\ PassAddress(t, o, "passed")

EnableSM4Decryption(t, o)           == o \in Decryptors /\ PassAddress(t, o, "passed")
SetDecryptorSM4Key(t, o)            == o \in Decryptors /\ PassAddress(t, o, "array")
SetDecryptorSM4CTR(t, o)            == o \in Decryptors /\ PassAddress(t, o, "array")
SetDecryptorSM4KeyWithVersion(t, o) == o \in Decryptors /\ PassAddress(t, o, "array")
GetDecryptorKeyVersion(t, o)        == o \in Decryptors /\ PassAddress(t, o, "passed")

EncryptorSetKey(t, o)    == o \in SM4Encryptors /\ PassAddress(t, o, "array")
EncryptorSetIV(t, o)     == o \in SM4Encryptors /\ PassAddress(t, o, "array")
DecryptorSetKey(t, o)    == o \in SM4Decryptors /\ PassAddress(t, o, "array")
DecryptorSetIV(t, o)     == o \in SM4Decryptors /\ PassAddress(t, o, "array")
DecryptorSetStatus(t, o) == o \in SM4Decryptors /\ PassAddress(t, o, "passed")

\* The HC methods return at once when the array is missing or not 16 bytes
\* long, before anything is pinned ...
RejectArray(t) ==
  /\ op[t] = "array" /\ arg[t] \in HCObjects
  /\ ReturnAfter(t, {})

\* ... and else copy the 16 bytes and unpin the array in the same breath.
CopyArray(t) ==
  /\ op[t] = "array" /\ arg[t] \in HCObjects
  /\ op' = [op EXCEPT ![t] = "copied"]
  /\ UNCHANGED <<shared, arg, pins, todo>>

\* The SM4 methods pin the array first ...
PinArray(t) ==
  /\ op[t] = "array" /\ arg[t] \in SM4Objects
  /\ Pin(t, "key", "pinned") \/ ReturnAfter(t, {})

\* ... and test its length then.
RejectLength(t) ==
  /\ op[t] = "pinned"
  /\ ReturnAfter(t, {"key"})

\* Steps in which the native method is about to use the object.
Using == {"passed", "array", "copied", "pinned", "release"}

\* The object is called; the SM4 methods hand it the pinned bytes.
Apply(t) ==
  \/ op[t] \in {"passed", "copied"} /\ ReturnAfter(t, {})
  \/ op[t] = "pinned" /\ ReturnAfter(t, {"key"})

-----------------------------------------------------------------------------
(* Disposal                                                                *)

\* Give one reference back, take another one; an object without references
\* is deleted.
Count(x, taken, given) ==
  refs[x] + (IF x = taken THEN 1 ELSE 0) - (IF x = given THEN 1 ELSE 0)

MoveReference(taken, given) ==
  /\ refs' = [x \in Objects |-> Count(x, taken, given)]
  /\ life' = [x \in Objects |->
       IF life[x] = "live" /\ Count(x, taken, given) = 0 THEN "freed" ELSE life[x]]

Dispose(t, o) == Owner[o] = t /\ PassAddress(t, o, "release")

DestroyHCCrypto(t, o)          == o \in Encryptors /\ Dispose(t, o)
DestroyHCCryptoDecryptor(t, o) == o \in Decryptors /\ Dispose(t, o)
DestroySM4CTREncryptor(t, o)   == o \in SM4Encryptors /\ Dispose(t, o)
DestroySM4CTRDecryptor(t, o)   == o \in SM4Decryptors /\ Dispose(t, o)

ReleaseObject(t) ==
  /\ op[t] = "release"
  /\ MoveReference(NoObject, arg[t])
  /\ op' = [op EXCEPT ![t] = "zero"]
  /\ UNCHANGED <<ptr, frame, closed, arg, dest, pins, todo>>

\* Back in Java, dispose() clears the field.
ClearField(t) ==
  /\ op[t] = "zero"
  /\ ptr' = [ptr EXCEPT ![arg[t]] = FALSE]
  /\ op'  = [op EXCEPT ![t] = "idle"]
  /\ UNCHANGED <<life, refs, frame, closed, arg, dest, pins, todo>>

-----------------------------------------------------------------------------
(* Senders and receivers                                                   *)

\* setFrameEncryptor and setFrameDecryptor pass on whatever the field holds:
\* a disposed object passes the zero address.
PassToHolder(t, o, h) ==
  /\ op[t] = "idle" /\ life[o] # "absent"
  /\ op'   = [op EXCEPT ![t] = "attach"]
  /\ arg'  = [arg EXCEPT ![t] = IF ptr[o] THEN o ELSE NoObject]
  /\ dest' = [dest EXCEPT ![t] = h]
  /\ UNCHANGED <<life, refs, ptr, frame, closed, pins, todo>>

SetFrameEncryptor(t, o, h) == o \in Encryptors /\ h \in Senders /\ PassToHolder(t, o, h)

SetFrameDecryptor(t, o, h) == o \in Decryptors /\ h \in Receivers /\ PassToHolder(t, o, h)

\* A closed producer or consumer throws; otherwise the sender or receiver
\* takes a reference to the new object and gives the old one back.
Attach(t) ==
  /\ op[t] = "attach"
  /\ IF closed[dest[t]]
       THEN UNCHANGED <<life, refs, frame>>
       ELSE /\ MoveReference(arg[t], frame[dest[t]])
            /\ frame' = [frame EXCEPT ![dest[t]] = arg[t]]
  /\ op' = [op EXCEPT ![t] = "idle"]
  /\ UNCHANGED <<ptr, closed, arg, dest, pins, todo>>

\* The producer or consumer is closed, by the application or with its
\* transport; the sender keeps its encryptor.
CloseHolder(h) ==
  /\ ~closed[h]
  /\ closed' = [closed EXCEPT ![h] = TRUE]
  /\ UNCHANGED <<life, refs, ptr, frame, op, arg, dest, pins, todo>>

\* WebRTC deletes a sender or receiver whose peer connection is gone.
DropHolder(h) ==
  /\ closed[h] /\ frame[h] # NoObject
  /\ MoveReference(NoObject, frame[h])
  /\ frame' = [frame EXCEPT ![h] = NoObject]
  /\ UNCHANGED <<ptr, closed, op, arg, dest, pins, todo>>

-----------------------------------------------------------------------------
CallObject(t, o) ==
  \/ CreateHCCrypto(t, o) \/ CreateHCCryptoDecryptor(t, o)
  \/ CreateSM4CTREncryptor(t, o) \/ CreateSM4CTRDecryptor(t, o)
  \/ EnableSM4Encryption(t, o) \/ SetSM4Key(t, o) \/ SetSM4CTR(t, o)
  \/ SetSM4KeyWithVersion(t, o) \/ GetKeyVersion(t, o)
  \/ EnableSM4Decryption(t, o) \/ SetDecryptorSM4Key(t, o)
  \/ SetDecryptorSM4CTR(t, o) \/ SetDecryptorSM4KeyWithVersion(t, o)
  \/ GetDecryptorKeyVersion(t, o)
  \/ EncryptorSetKey(t, o) \/ EncryptorSetIV(t, o)
  \/ DecryptorSetKey(t, o) \/ DecryptorSetIV(t, o) \/ DecryptorSetStatus(t, o)
  \/ DestroyHCCrypto(t, o) \/ DestroyHCCryptoDecryptor(t, o)
  \/ DestroySM4CTREncryptor(t, o) \/ DestroySM4CTRDecryptor(t, o)
  \/ \E h \in Holders : SetFrameEncryptor(t, o, h) \/ SetFrameDecryptor(t, o, h)

ContinueCall(t) ==
  \/ GetKey(t) \/ GetIV(t) \/ Construct(t)
  \/ RejectArray(t) \/ CopyArray(t)
  \/ PinArray(t) \/ RejectLength(t)
  \/ Apply(t)
  \/ Unpin(t) \/ Return(t)
  \/ ReleaseObject(t)
  \/ ClearField(t)
  \/ Attach(t)

Next ==
  \/ \E t \in Callers : ContinueCall(t) \/ \E o \in Objects : CallObject(t, o)
  \/ \E h \in Holders : CloseHolder(h) \/ DropHolder(h)

Spec == Init /\ [][Next]_vars
-----------------------------------------------------------------------------
(* Properties                                                              *)

TypeOK ==
  /\ life   \in [Objects -> {"absent", "live", "freed"}]
  /\ refs   \in [Objects -> Nat]
  /\ ptr    \in [Objects -> BOOLEAN]
  /\ frame  \in [Holders -> Objects \cup {NoObject}]
  /\ closed \in [Holders -> BOOLEAN]
  /\ op     \in [Callers -> Ops]
  /\ arg    \in [Callers -> Objects \cup {NoObject}]
  /\ dest   \in [Callers -> Holders]
  /\ pins   \in [Callers -> SUBSET Arrays]
  /\ todo   \in [Callers -> SUBSET Arrays]

\* A native method never runs on a deleted object, although the object may be
\* disposed, replaced or dropped by others after Java tested the field: not
\* in a setter, a getter or a Release, not when the object is attached, and
\* not on the frames of a sender or receiver (hc_crypto_jni.cpp:69, 97, 176).
NoUseAfterFree ==
  /\ \A t \in Callers : op[t] \in Using => life[arg[t]] = "live"
  /\ \A t \in Callers : op[t] = "attach" /\ arg[t] # NoObject => life[arg[t]] = "live"
  /\ \A h \in Holders : frame[h] # NoObject => life[frame[h]] = "live"

\* A thread that is back in Java has no byte array pinned: before each return
\* of the SM4 methods, the early ones included, stand the releases of just the
\* arrays obtained so far (sm4_ctr_jni.cpp:28, 36, 55-56, 94, 104).
ArraysReleased == \A t \in Callers : op[t] = "idle" => pins[t] = {}
=============================================================================
