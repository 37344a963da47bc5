# Verification of the encrypted video chat

This directory holds TLA+ models of the parts of the application that decide
which key encrypts which frame (the native frame encryptor and decryptor, the
client of the key network that recovers room keys from Shamir shares, and the
call set-up that hands those keys to the encryptor and the decryptor) and of the
JNI layer below them, which decides whether a native object still exists when
Java, WebRTC or another native object uses its address.  TLC checks the models
on small instances; TLAPS proves their main safety properties for every value of
the constants.  `PROJECT.json` lists the runs, the
mutants that show each property can fail, and the source lines of every
definition.

Abbreviations: `app/` is `src/app/src/main/java/com/example/android_bysj_demo/`,
`crypto/` is `src/mediasoup-client/deps/webrtc/src/api/crypto/`, `lms/` is
`src/mediasoup-client/deps/libmediasoupclient/`, `jni/` is
`src/mediasoup-client/src/main/jni/`.

## 1. Inventory

The repository is an Android application on top of a vendored mediasoup client
and a vendored WebRTC.  Of some 8600 files, the program's own logic is the Java
code in `app/`, two C++ classes added to WebRTC (`crypto/hc_crypto*.cc`) and
the JNI layer in `jni/`; the rest is third party.

| Component | State | Operations | Talks to |
|---|---|---|---|
| Frame encryption, `crypto/hc_crypto.cc`, `hc_crypto_decryptor.cc` | `sm4_key_`, `key_version_`, mode flag, `version_mismatch_count_` | `Encrypt`, `Decrypt`, `SetSM4KeyWithVersion` | WebRTC calls it on media threads, Java on the main and socket threads |
| Key network client, `app/KNSConnectManager`, `WebSocketManager` | `wsManager`, `shamirSharesMap`, `currentKeyVersion`, `keyRecoveryListener` | `establishWebSocketConnection`, socket callbacks, three share handlers, `disconnect` | key server (WebSocket), RoomClient (listener), the screens |
| Call set-up, `app/RoomClient` | `rtpCapabilities`, `isKeyRecovered`, `sm4Key`, `currentKeyVersion`, `mediasoupDevice`, `consumingTransports`, `activeEncryptor`, `activeDecryptor`, `socket` | `joinRoom`, `createDevice`, `createSendTransport`, `addTrack`, `signalNewConsumerTransport`, `connectRecvTransport`, `onKeyRecovered`, `close` | signalling server (Socket.IO), mediasoup, encryptor and decryptor, key network client, call screen |
| Track aggregation, in `RoomClient` | `pendingUserTracks`, timers | `aggregateTracks`, timeout, `notifyTracksReady` | call screen |
| Call screen, `app/VideoChatActivity` | `roomClient`, local tracks, list of videos, pending runnables | `initializeCall`, `startLocalMedia`, `hangup`, `onDestroy`, video layout | RoomClient, key network client |
| Dialogs, `app/MainActivity`, `ContactsActivity` | text fields | create, join, invite | key network client, call screen |
| Shamir reconstruction, `app/shamir/` | none | interpolation over GF(256) | key network client |
| Device and transports, `jni/device_jni.cpp`, `transport_jni.cpp` over `lms/` | addresses in Java, owned listeners, maps of producers and consumers, closed flags | create, connect, produce, consume, close, dispose | RoomClient, tests, WebRTC's signalling threads |
| Producers and consumers, `jni/*producer_jni.cpp`, `*consumer_jni.cpp` | listener, address of the transport, closed flag | create, close, calls through the transport, `onTransportClose` | transports, RoomClient |
| PeerConnection, `jni/peerconnection_jni.cpp` | owned listener and connection | descriptions, events, close, dispose | tests, WebRTC |
| Negotiation, `lms/src/Handler.cpp`, `sdp/RemoteSdp.cpp` | `transportReady`, media sections, mid maps | send, receive, stop | transports |
| Native encryptor and decryptor handles, `jni/hc_crypto_jni.cpp`, `hc_crypto_decryptor_jni.cpp`, `sm4_ctr_jni.cpp` | address in a Java field, reference count, pinned byte arrays | create, set keys, attach, dispose | RoomClient, RTP senders and receivers |
| JNI reference wrappers, `jni/include/scoped_java_ref.h`, `scoped_java_ref.cpp` | the reference a wrapper owns | construct, copy, move, assign, reset, release | every JNI method |
| Java calls from native code, `jni/jni_generator_helper.cpp` and the generated headers | class and method cells | look up, call, check for an exception | every listener |
| Logging, parameter conversion, library start-up, `jni/logger_jni.cpp`, `parameters_jni.cpp`, `onload.cpp` | the log handler's address | conversions, registration | - |
| SM4 (GmSSL), WebRTC, mediasoup server, key server | - | - | third party or external |

What is hard here, and hardly reached by a test:

* **Threads without locks.**  `Encrypt` runs on the encoder thread while a Java
  thread rewrites the key in place and then the version.  RoomClient is used by
  the main thread and by the Socket.IO event thread through plain fields.
* **Two independent ends.**  The sender and the receivers recover a new key at
  different moments; frames of the old and of the new key are on the way.
* **Order.**  The first share, the additional shares, the join acknowledgement,
  the announcement of producers and the creation of the call screen may come in
  any order; a session may be started while another is open.
* **Left-over state.**  The key network client is a singleton: its shares, its
  listener and its version counter outlive rooms and calls.
* **Numbers.**  The version has 7 bits in a frame and 32 in memory.
* **Addresses without locks.**  Java keeps native objects as numbers.  A method
  tests the number and uses it; another thread may dispose the object between.
* **Lifetimes by convention.**  A transport holds raw addresses of its listener
  and of the device's tables, a producer that of its transport.  Nothing counts
  them: they are good as long as the client calls in the right order.
* **JNI references.**  Each must be deleted exactly once; copies, moves,
  assignments to oneself and early returns all have to agree on the owner.
* **Racing lookups.**  Signalling threads and client threads fill the class cells
  together, without a lock; the losers must not delete what the winner stored.

What makes each component right: a frame is readable or untouched, and readable
when the ends hold the same version (frame encryption); shares of one secret
recover it, and each completed set is reported once, to the current call (key
network client); the device is created exactly once the room is joined and a key
is known, every producer is consumed once, and the cryptors that see frames hold
the current key (call set-up); nothing is used after it is deleted, and closing a
transport closes what was made on it (JNI handles); a reference has one owner and
is not lost (wrappers); one class reference is kept and all threads use it
(lookups).  `PROJECT.json` lists the hazards line by line.

## 2. Modules

| Module | Models | Used by |
|---|---|---|
| `FrameCrypto` | encryptor, decryptor, the path between them | `MCFrameCrypto` (two runs), `FrameCryptoProofs` |
| `FrameChannel` | abstract: what frame encryption promises the two ends | `FrameCrypto` |
| `FrameCryptoProofs` | theorems about `FrameCrypto` | TLAPS |
| `KeyRecovery` | KNSConnectManager, WebSocketManager, the screens that start and end sessions | `MCKeyRecovery` (two runs), `KeyRecoveryProofs` |
| `KeyRecoveryProofs` | theorems about `KeyRecovery` | TLAPS |
| `RoomClient` | one call: RoomClient and what VideoChatActivity does with it | two runs of its own, `RoomClientProofs` |
| `RoomClientProofs` | theorems about `RoomClient` | TLAPS |
| `CryptoHandles` | the native methods of HCCrypto, HCCryptoDecryptor and the SM4CTR classes, and the senders and receivers that hold their objects | `MCCryptoHandles` (one run), `CryptoHandlesProofs` |
| `ScopedJavaRef` | the reference wrappers | one run of its own, `PeerConnectionRefs`, `ScopedJavaRefProofs` |
| `PeerConnectionRefs` | the methods of `peerconnection_jni.cpp` that return a Java object | one run of its own |
| `OnceCell` | abstract: a cell that is filled once | `LazyClass` |
| `LazyClass` | class and method lookup, and the checked call | `MCLazyClass` (one run), `LazyClassProofs` |
| `MediaHandles` | device, transports, PeerConnection, producers and consumers | two runs of its own, `MediaHandlesProofs` |
| `CryptoHandlesProofs`, `ScopedJavaRefProofs`, `LazyClassProofs`, `MediaHandlesProofs` | theorems about these | TLAPS |

Operators named `..._<word>` next to an action are its mutated forms: changed
the way a slip in the code would change it, and used only to show that a
property notices.

### FrameCrypto

`node["enc"]` and `node["dec"]` are the fields of the two objects.  A frame is
bit 0 of its first byte (the VP8 key frame bit) and the set of keystreams XORed
over it.  That is all the properties tell apart: SM4-CTR starts every frame from
the same counter, so one key applied twice cancels, and a frame is readable when
no keystream is left.  A keystream also flips the first byte, by `KeyStreamBit`:
the decryptor looks for the key frame bit in the *encrypted* byte, and this is
where the two key-frame decisions come apart.

`SetSM4KeyWithVersion` is three steps (`InstallBegin`, `InstallKey`,
`InstallVersion`), because the key schedule is rewritten in place and the
version assigned afterwards, without a lock.  `Encrypt` is three steps (decide,
cipher, read the version for the postfix) and `Decrypt` two (decide and compare,
cipher).  A cipher that overlaps a rewrite is a data race: it may have used the
old schedule, the new one or a mixture (`Torn`), which never cancels.  `calm`
is a history field: no install overlapped the call.  The three safety properties
speak of calm frames; for others the code guarantees nothing, since an install
between the cipher and the postfix labels a frame with a key it was not
encrypted with.  The network loses and reorders; it does not duplicate, since
WebRTC hands each assembled frame to the decryptor once.

`FrameChannel` is the promise without keys, ciphers and labels: an end changes its
version in two steps, a frame is in the encryptor, on the path or in the
decryptor, and comes out readable, opaque or garbled.  There `calm` is computed
and not chosen: a frame is disturbed exactly if a key change overlapped one of
its two calls.  `Channel` is the refinement mapping (versions, installs under
way, what is seen of each packet, and how the returned frame looks beside the sent
one), `KeepsChannel` the refinement.  The path of the channel is the set of what
the ends tell apart, so a frame that leaves may leave another that looks the same.

A node starts with the key of version 0.  That is how the application attaches
an encryptor or decryptor: keyed first, set on the sender or receiver after.

### KeyRecovery

All state changes of the key network client run on the main looper: the OkHttp
callbacks only post.  So `looper` is the queue of posted runnables, and the
users' clicks and the starts of activities are actions of their own between
them.  `wsManager` is the field, `conn` the objects it has pointed to; that a
runnable uses the field and not the object whose socket opened is the code's
behaviour (`RunConnected`).  A share is the secret it was cut from, under its
index: `Reconstructed` says what interpolation gives for a set of them, the
secret if they agree and are enough, otherwise some other value (`Garbled`) or
nothing when the x coordinates collide.  It also gives nothing for a secret that
is not `Usable`: below API 26 no share is decoded at all
(`ShamirSm4KeyReconstructor.java:61-71`, while `minSdk` is 24; `DecodesBase64`),
and `KNSConnectManager.java:271-278` and `346-353` drop a null key and one that is
not 16 bytes long (`KeySized`) and tell nobody.  The server is external: over a
connection on which a room was created it may send shares of that room in any
of the three messages.

The call screen is a launch request (`launching`), then `initializeCall`, which
registers the new listener, then `hangup` or `onDestroy`.  `calls[k]` records
the key and the version that call was last told, also after it closed: the
listener is never removed.

### RoomClient

`main` and `sock` are the two threads' program counters.  A job is split only
where it reads or writes something the other thread writes or reads: the
acknowledgement of `joinRoom` (store the capabilities; check the key),
`onKeyRecovered` (key; version and flag; encryptor or device; decryptor),
`createDevice` (construct; load), the consumer set-up (transport; capabilities;
consumer; read key; read version; set).  Requests to the signalling server are
counts in `acks`; the server answers them in any order, refuses, or never
answers.  `connectionLost` drops the answers on the way, or not if the event
thread has them; the socket then reconnects and joins again.

`StoreBuffers` chooses the memory model of the two flags that decide the
creation of the device: with it a plain write reaches the other thread at any
time until the job ends.  Only these two fields are buffered.  `missed` is a
history variable: a thread has read a flag while the other's write was still in
its buffer.  The fields are plain, so the code allows it, and then nobody may
create the device.  The calls into
the native encryptor and decryptor are atomic here; what overlaps inside them is
FrameCrypto's subject.

### CryptoHandles

`ptr[o]` says that the Java field is not zero, `refs[o]` is the count of the
native object and `life[o]` whether it is allocated.  A native method is two or
more steps: the wrapper reads and tests the field and passes the address
(`PassAddress`), and later the native code uses it (`Apply`, `ReleaseObject`,
`Attach`).  Between them any other thread may act.  An object is created and
disposed by one thread, its `Owner`: the wrappers test and clear the field
without a lock, so a `dispose()` called twice at once gives two references back,
and the application never does that.  `frame[h]` is what a sender or receiver
protects its frames with; `Attach` takes a reference for it and gives the old one
back, and `DropHolder` is WebRTC deleting the sender.  `pins` is the set of byte
arrays a call has pinned and `todo` the releases that stand before the return it
has taken.  The SM4 constructors get the key, get the iv, construct and release,
and the SM4 setters pin, test the length and apply; each may return early, and
each return has the releases written before it (`ReturnAfter`, `Unpin`, `Return`).
`sm4_ctr_jni.cpp` is not in `CMakeLists.txt`; it is modelled as written.

### ScopedJavaRef and PeerConnectionRefs

`table` is the set of references the virtual machine knows, `obj[s]` what wrapper
`s` holds, `bare` what no wrapper owns and other code must delete, `params` the
arguments Java owns.  A copy or an assignment is three steps (`setting`, `given`,
`fresh`): the new reference is made before the old one is deleted, which is what
makes the assignment of a wrapper to itself safe.  `PeerConnectionRefs` adds the
four methods that wrap `j_result.obj()` a second time.

### LazyClass and OnceCell

A call of a Java method is: load the class cell; if it is empty, make a global
reference and exchange it into the cell; if another thread was first, delete the
own reference and use the stored one; look up and store the method id; call;
check for an exception, which stops the process (`aborted`).  Every generated
header has this sequence for every method, so it is modelled once, for any
classes and methods.  `OnceCell` says what a caller relies on: `Get` fills an
empty cell or returns what is in it.  `FilledOnce` is the refinement, with
`clazz` as the answer.

### MediaHandles

`own[x]` is the pair of native object and listener behind the Java transport or
PeerConnection `x`; it is freed in two steps, listener first.  `ready[x]` is
`transportReady`, set when `onConnect` has returned; `wired[x]` says that the
transport has a local description, from when on its signalling thread may be in the
listener (`calling[x]`) until the connection is closed.  The two differ: a
negotiation that throws between them leaves a transport that is not asked to
connect again.  The listener of a PeerConnection can be called from its
construction on.  `stage[o]` follows a producer or consumer through its creation,
with the listener callbacks (`onConnect`, `onProduce`) in the middle; `reg[x]` is
what the maps of transport `x` hold, keyed by id (`SameKey`).

`Client` chooses who calls.  `"test"` is the repository's instrumented tests:
one thread, distinct ids from the server, close before dispose, device last.
`"app"` is RoomClient: transports created in acknowledgements on the socket
thread, produced on from the main thread and consumed on from the socket thread,
one field for the send transport (`field`), the empty id for every producer, no
dispose of transports.  The native methods (`FreeDevice`, `FreeSendTransport`, ...)
have the guards of the code and no others.  What a client adds is kept apart, in
operators for its threads (`Creator`, `Caller`, `Busy`), for what it can name
(`Holds`) and for the order of its disposals (`Disposes`, `DisposesDevice`);
`PeerConnection.dispose`, which closes first, is the code's own order.  So a
property of this module is one of the native code under a client's order of calls,
and holds for no other.

## 3. Runs

Passing runs:

| Run | Bounds | Shows |
|---|---|---|
| `rotation` | versions 0-2, one frame on the way, both modes at both ends | a calm frame is labelled with its key (`LabelBindsKey`), never decrypted with a wrong one (`NoGarbledFrame`), and readable if the versions agree and the decryptor is in full mode (`SameVersionReadable`); the two classes implement `FrameChannel` (`KeepsChannel`) |
| `version_recovery` | versions 0-1, two frames on the way | while both ends are on one version no frame of another sets out, and only one already on the way can start a mismatch (`StragglersRunOut`); once they stay there the mismatch state ends for good (`VersionRecovered`) |
| `key_sessions` | two sessions, two rooms, two calls, two messages, four indexes | versions grow over calls and no call holds one that was not recovered (`VersionsOrdered`); shares of one secret recover it (`PureSharesRecover`); no step loses a recovery that is due (`CompletionsKept`), and every message that completes the threshold causes a recovery of its own (`SharesLeadToRecovery`); the last two for usable secrets, one of the rooms also deals one that is not |
| `call_setup` | one video and one audio producer, two keys, two connections, late writes | only recovered keys see frames (`KeysAreRecovered`), a producer is consumed once however often it is announced (`SingleConsumer`), the active encryptor has the last key (`ActiveEncryptorUpToDate`); a joined call with a key has its device, or a thread is about to create it, or a job that will is posted, unless a thread missed a late write (`DeviceOnItsWay`); no encryptor or decryptor that sees frames goes back to an earlier key (`AttachedKeysAdvance`) |
| `crypto_handles` | one object of each of the four classes, two threads, one sender, one receiver | no native method runs on a deleted object (`NoUseAfterFree`); no byte array stays pinned, whichever return of the SM4 methods is taken (`ArraysReleased`) |
| `jni_refs` | two local and two global wrappers, three references of each kind | a held reference is live (`HeldIsLive`), has one owner (`OneOwner`) and is not lost (`NothingLeaks`) |
| `lazy_class` | three threads, two classes, three methods | a class reference in use is live (`ClassIsLive`), one per class is kept (`OneRefStored`), no JNI call is made with an exception pending (`NoCallWithException`), and the cells implement `OnceCell` (`FilledOnce`) |
| `media_handles` | `Client = "test"`, one device, one transport each way, one PeerConnection, two producers, one object of each other kind | events find a live listener (`NoFreedListener`); an open object has its transport (`NoDanglingTransport`); closing a transport closes everything made on it (`CloseReachesAll`) |

Runs that exhibit a disagreement between the code and what a comment or document
beside it says; the findings in `PROJECT.json` quote the lines:

| Run | Violated | What happens |
|---|---|---|
| `stale_shares` | `RecoveredKeyIsDealt` | shares of the room before take part in the interpolation |
| `stale_decryptor` | `RecoveryReachesDecryptors` | with two remote videos a recovery updates the decryptor created last, and the other goes on with the old key |
| `borrowed_ref` | `HeldIsLive` | `getSenders`, `getTransceivers` and `addTransceiver` return a wrapper around a reference that the local wrapper deletes when the method ends |
| `orphan_producer` | `CloseReachesAll` | RoomClient's `onProduce` returns the empty id, so the second producer replaces the first in the transport's map and the first stays open when the transport closes |

The models also reach these states, for which no run is kept.

* FrameCrypto: with versions above the modulus of the label (7 bits in the code)
  the label no longer tells versions apart and is compared with the whole
  version, so from version 128 on nothing is decrypted; with both ends in
  key-frame mode the keystream flips the bit the decryptor tests; a key install
  that overlaps `Encrypt` yields a frame
  whose label is not its key's.
* KeyRecovery: a key recovered before the call screen registers never reaches it;
  a second session leaves the first socket open, and the
  runnable of the first then sends `create_room` over the second; if the first
  share is handled last no recovery starts until another message comes.
* RoomClient: with late writes each thread may miss the other's flag, and nobody
  creates the device (`missed`); a producer announced before
  the device exists is consumed at once and the exception is not caught;
  before the first `addTrack` both threads may request a
  device, and then the video is produced twice and only the second encryptor
  follows later keys; a recovery between the reads of key and version at
  RoomClient.java:662 and the native call leaves the new decryptor on the old key.
* CryptoHandles: a disposed object is never deleted, since `make_ref_counted` and
  `AddRef` take two references and `dispose()` gives one back; attaching a
  disposed object takes the encryptor off the sender.  The first of these is also
  what `NoUseAfterFree` rests on, see section 4.
* MediaHandles with `Client = "app"`: RoomClient.close disposes the device on the
  main thread while the socket thread is consuming, and the socket thread may
  consume again afterwards.  Neither `Device.dispose` nor `nativeFreeDevice` has a
  guard against it, so no property is stated.

**Why the bounds are enough.**  With three versions a frame can be two installs
old, one end can skip a version, and a third version may differ from both that
are in use.  One frame on the way suffices for the safety properties, since each
speaks of one frame; two are used where their order matters.  Two sessions, two
calls and two messages are the smallest numbers at which one replaces or is
mixed with another, and two messages of at most three shares pass the threshold
of three with and without overlap.  Two keys and two connections give a recovery
and a reconnection in the middle of a set-up.  `VersionMod` is larger than
every version of the runs, so that none wraps.  Two threads are enough to
dispose, replace or drop an
object under a call; one object per class suffices, as no step relates two
objects except the exchange on a sender, which the proof covers for any number.
Two wrappers of each kind allow every copy, move and assignment between kinds,
within a kind and to oneself, and a third reference lets the new one exist beside
two held ones.  Three threads give a winner and two losers for one class, and two
classes a thread that works on another.  Two producers give one of the transport's maps
two entries, which `CloseReachesAll` is about; one object suffices for the other
kinds, which are kept in maps of their own.  A secret that is too short in one of
the two rooms lets a failed reconstruction come before, after and between good
ones.

**Deadlock** is checked for FrameCrypto, where the camera never stops, and for
CryptoHandles and the reference wrappers, where some call is always possible.
KeyRecovery and RoomClient may stop: the user hangs up, bounds are used up, the
application crashes.  LazyClass stops when an exception ends the process,
MediaHandles when everything has been disposed.

**Fairness.**  FrameCrypto: the encoder goes on and a started install returns
(weak fairness: ordinary threads), and frames get through again and again (strong
fairness of `DecryptBegin`: the network may lose any frame but not all).
KeyRecovery: the main looper runs what was posted.  Users, servers and sockets owe
nothing.  RoomClient and the modules of the JNI layer state safety only and assume
no fairness.

## 4. Proofs

`FrameCryptoProofs` proves, for any keys, keystream bits, versions, modes and
number of frames on the way:

* `TypeCorrect`: `Spec => []TypeOK`, with no assumption beyond the named ones on
  the constants;
* `LabelsBindKeys`, `FramesNeverGarbled`, `SameVersionAlwaysReadable`: the three
  safety properties of `rotation`, under `MaxVersion < VersionMod`, that is, as
  long as the versions fit in the 7 bits of the label.  The assumption is
  needed: with `VersionMod = 2` in `FrameCrypto_rotation.cfg` TLC refutes
  `LabelBindsKey`;
* `StragglersAlwaysRunOut`: `StragglersRunOut`, under the same assumption.  One
  install step changes the version of one end only, and the postfix is written
  from the version at the end of `Encrypt`, so while the ends agree no frame of
  another version is added;
* `FrameCryptoImplementsChannel`: `Spec => Channel!Spec`, under the same
  assumption.  There is one lemma per group of actions (`InstallRefines`,
  `EncryptRefines`, `LoseRefines`, `DecryptRefines`); the steps inside a cipher
  and the key assignment map to stutters.  `ChangeInv`, that an install under way
  brings a later version, is needed beside `IInv`.

None of the three safety properties is inductive: each speaks of a frame that has left the node
whose fields decided about it.  `IInv` adds what ties them together: outside an
install a node's key is the one of its version (`NodeInv`), a calm `Encrypt` call
works with the encryptor's present key (`EncInv`), a calm packet is exactly what
the key of its version makes of its frame (`NetInv`), and a calm `Decrypt` call
still faces the key and version it compared (`DecInv`), so that the keystream
cancels (lemma `CipherCancels`).  The proof has one lemma per group of actions
(`IInvInstall`, `IInvEncrypt`, `IInvDecrypt`); only `EncryptPostfix` needs the
bound on versions.

`KeyRecoveryProofs` proves, for any number of sessions, rooms, calls, shares and
messages:

* `TypeCorrect`.  `TypeOK` needs `SessionInv`: that `create_room` names a room
  rests on the posted runnable being about a connection that was started;
* `VersionsAlwaysOrdered`: `VersionsOrdered`.  `ListenerInv` carries it: the
  registered call is the last one opened, so a recovery tells its version, later
  than all before, to the only call that may hold the largest;
* `PureSharesAlwaysRecover`: `PureSharesRecover`, for a threshold of at most the 3
  that `handleAdditionalSharesProvided` uses.  What has to be shown is that the
  first n shares in the order of indexes are n shares if so many are held
  (`FirstSharesCount`).  It goes without an induction: the least share left out
  (`LeastIndex`, from the well-foundedness of the naturals) has n smaller ones,
  all of them taken; and were more taken, two would have equally many smaller
  ones;
* `CompletionsAlwaysKept`: `CompletionsKept`, for the threshold 3.  Handling the
  first message shifts the others by one place, an injection of the completing
  ones (`HandlingKeepsCompleting`), since what the map and the messages up to
  a place bring together is the same before and after (`StoredShares`); a message
  that is itself completing is counted by the version (`DueIsRecovered`).  A set of
  shares is due only if their secret is `Usable`: for others the reconstruction
  fails, and the theorem promises nothing.  TLC
  refutes both properties for a threshold above the handler's 3, and this one for
  a threshold below it too.

`RoomClientProofs` proves, for any number of producers, recoveries and
connections, and with or without late writes:

* `TypeCorrect`;
* `ConsumedOnce`: `SingleConsumer`, from `ConsumerInv`: a producer outside
  `consumingTransports` has led to nothing yet.  Only
  `signalNewConsumerTransport` adds, and only for such a producer; every other
  step keeps the sum of requests, transports and consumers or lowers it;
* `OnlyRecoveredKeys`: `KeysAreRecovered`, and `ActiveEncryptorFollows`:
  `ActiveEncryptorUpToDate`, both from `KeyInv`.  Its parts: the stored key and
  version belong together except in the middle of `onKeyRecovered` (`FieldInv`);
  with encryption on, a posted runnable, a device, a request for a send transport
  or for a consumer exists only after the first recovery (`GateInv`); the socket
  thread about to set a decryptor has read a recovered key (`SockInv`); the
  active encryptor lags behind the fields only inside `onKeyRecovered`
  (`ActiveInv`);
* `DeviceAlwaysOnItsWay`: `DeviceOnItsWay` under both memory models, and that
  nothing is missed if writes are seen at once.  The property itself says where
  each thread stands between its write of one flag and its read of the other:
  whichever reads second sees both, unless the first's write is still in its
  buffer, and that is the only way out.  `DeviceInv` adds that everything that
  follows a device has one.  The disjunct `missed` is needed for plain Java fields:
  without it TLC refutes the property under `StoreBuffers`;
* `AttachedKeysAlwaysAdvance`: `AttachedKeysAdvance`, under both memory models.
  `VersionInv` says that no encryptor, no decryptor and no version the socket
  thread has read is ahead of the stored one, and that a decryptor being set up
  does not see frames yet.

`CryptoHandlesProofs` proves, for any number of objects, threads, senders and
receivers, `TypeCorrect`, `NeverUsedAfterFree` (`NoUseAfterFree`) and
`ArraysAlwaysReleased` (`ArraysReleased`).  A tested address may be stale when it
is used, so `NoUseAfterFree` cannot follow from the test of the field.  It follows
from `Counted`: the count is at least one for the field, until `dispose()`
(`JavaRef`), one for each sender and receiver, and one more that nobody gives
back.  That spare reference, the leak of section 3, is what keeps an object alive
under a call of another thread; the mutant that drops `AddRef` violates the
property.  Counting senders and receivers uses the cardinality theorems of the
library (lemma `Recount`).  `ArraysReleased` follows from `PinsSound`, which says
at every step of a call which arrays are pinned: those obtained so far, and on the
way out exactly those whose release is still to come.

`ScopedJavaRefProofs` proves, for any number of wrappers and references,
`TypeCorrect`, `HeldStaysLive` (`HeldIsLive`), `NoDoubleDelete` (`OneOwner`) and
`NoReferenceLeaks` (`NothingLeaks`).  The three depend on each other: deleting the
reference of one wrapper leaves the others' live because it has one owner.
`SetInProgress` adds the reference an assignment has made and not yet stored.

`LazyClassProofs` proves, for any number of threads, classes and methods,
`TypeCorrect`, `ClassStaysLive` (`ClassIsLive`), `OneRefIsStored`
(`OneRefStored`), `ExceptionsAreCaught` (`NoCallWithException`) and
`LazyClassImplementsOnceCell` (`FilledOnce`): initial states map to initial
states and each step to `Get`, `Return` or a stutter.  The invariant says that a
thread in the race has not stored its own reference (`OwnNotStored`), so that a
loser deletes nobody else's, and that what a thread was given is what is in the
cell (`GivenIsStored`).

`MediaHandlesProofs` is about any number of transports, peer connections,
producers and consumers.  For both clients it proves `TypeCorrect`,
`ListenersOutliveEvents` (`NoFreedListener`), `OwnersOutliveCalls`
(`NoFreedOwner`) and `TransportsOutliveObjects` (`NoDanglingTransport`); with
`Client = "test"` also `CloseReachesEverything` (`CloseReachesAll`), which
RoomClient violates (section 3).  The invariant has a part for both: events come
from open connections with live listeners (`ListenersLive`), a transport outlives
the calls that create objects on it (`ParentLive`), its maps hold only its objects
(`InMaps`), on a closed transport nothing is created (`EndedQuiet`), and RoomClient
frees no transport (`AppKeepsAll`).  `TestInv` is what the tests' ids and order of
calls add: the maps hold all open objects (`OpenInMaps`), and on a closed transport
nothing is open (`EndedClosed`).

Only model-checked: the liveness properties `VersionRecovered` and
`SharesLeadToRecovery`, since fairness is outside what the prover does.  What each
rests on is proved: the step properties `StragglersRunOut` and `CompletionsKept`,
by which no step undoes the progress made.  The refuted properties of section 3
have runs only.

## 5. Not modelled

* What `SetSM4Key`, `SetFakeKey`, `SetSM4CTR`, the fail flags and the timing
  statistics do inside the native classes: the application does not call them or
  nothing depends on them.  (That their native methods run on a live object is
  part of CryptoHandles.)
* Track aggregation (RoomClient.java:740-850).  Every produced track draws a
  participant id of its own (line 298), so a video and an audio track never meet
  and the hand-over the code is written for does not happen; there is little to
  state beyond that.
* The GF(256) arithmetic of the Shamir reconstruction, of which KeyRecovery uses
  what interpolation returns; SDP texts and media sections.
* Getters, `pause` and `resume` of producers and consumers, which touch only the
  object itself, and it is never deleted; the callbacks and sends of data
  channels; `transport.close()` called by RoomClient from inside `onConnect` or
  `onProduce` when a callback throws (RoomClient.java:378, 414, 551).
* In CryptoHandles: failure of the native allocator, the only way into the `catch`
  clauses of the SM4 methods (which return without releasing what is pinned), and
  null arrays, on which the virtual machine aborts or `memcpy` reads address 0.
* Logger, parameter conversion and library start-up of the JNI layer.  The
  Java-to-native stubs in the generated headers only pass arguments on.
* The text of messages and logs; permissions and widgets of the screens.
* The login, performance, room creation and key recovery screens: no state is
  shared with a call, and the latter two are not started by live code.
* GmSSL and WebRTC beyond what the models take from them: what counter mode does to
  a frame, reference counts, the lifetime of senders, when an observer is called.
  The two servers are external and modelled from their use.

## 6. Plan

Done, with their proofs: `FrameCrypto` with `FrameChannel`, `KeyRecovery`,
`RoomClient`, `CryptoHandles`, `ScopedJavaRef` with `PeerConnectionRefs`,
`LazyClass` with `OnceCell`, `MediaHandles`.

Left, in this order:

1. Theorems: an abstract specification of the keys of a call (recovered, told,
   attached) that `KeyRecovery` and `RoomClient` both implement.
2. `Call`: KeyRecovery, RoomClient and FrameCrypto composed, shown to implement
   that specification and `FrameChannel` together.
3. `TrackAggregation`: `pendingUserTracks`, the 3 s timeout racing the second
   track, and the video layout that consumes the result.
4. `RemoteSdp`: reuse of closed media sections and the mid maps.
5. `Shamir`: interpolation over GF(256) as functions, checked against a
   reference on bounded inputs (TLC only).
