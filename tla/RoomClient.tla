------------------------------ MODULE RoomClient ------------------------------
(***************************************************************************)
(* The set-up of one call (class RoomClient): joining the room, creating   *)
(* the mediasoup device once a key was recovered, producing the local      *)
(* video, consuming remote producers, and handing recovered keys to the    *)
(* active encryptor and decryptor.                                         *)
(*                                                                         *)
(* Two threads work on the plain fields of the object: the main thread     *)
(* (posted runnables, onKeyRecovered, close) and the Socket.IO event       *)
(* thread (events and acknowledgements).  Each takes one job at a time;    *)
(* only jobs that read or write what the other thread writes or reads are  *)
(* split into steps.  The signalling server is external: it may answer the *)
(* requests that are out in any order, or never, and announce producers.   *)
(* A key is the number of its recovery; 0 is the built-in default key.     *)
(***************************************************************************)
EXTENDS Naturals, Sequences

CONSTANTS
  Producers,        \* remote producers the server may announce
  VideoProducers,   \* those that send video
  NoProducer,
  EncryptionModes,  \* values of openEncryption
  StoreBuffers,     \* whether a plain write may reach the other thread late
  MaxKeys,          \* bound: keys recovered during the call
  MaxJoins          \* bound: times the socket connects

Versions == 0 .. MaxKeys

ASSUME ProducersAssumption ==
  VideoProducers \subseteq Producers /\ NoProducer \notin Producers
ASSUME ModesAssumption ==
  EncryptionModes \subseteq BOOLEAN /\ StoreBuffers \in BOOLEAN
ASSUME BoundsAssumption == MaxKeys \in Nat /\ MaxJoins \in Nat

VARIABLES
  openEncryption,
  socket,          \* "connecting" (and reconnecting), "connected" or "off"
  joins,           \* connections made
  field,           \* rtpCapabilities # null, isKeyRecovered, sm4Key and
                   \* currentKeyVersion
  buffered,        \* writes the other thread does not see yet
  missed,          \* history: a check read a flag whose write was buffered
  device,          \* mediasoupDevice: "none" (null), "unloaded", "loaded" or
                   \* "disposed"
  looper,          \* runnables posted to the main thread
  main, sock,      \* what each thread is doing
  acks,            \* per request, the acknowledgements not yet handled
  consuming,       \* consumingTransports
  consumers,       \* consumers created, per producer
  encryptors,      \* the encryptors created; activeEncryptor is the last
  decryptors,      \* per video producer, the decryptor of its consumer
  activeDecryptor, \* the producer whose decryptor it is
  closed, crashed

vars == <<openEncryption, socket, joins, field, buffered, missed, device,
          looper, main, sock, acks, consuming, consumers, encryptors,
          decryptors, activeDecryptor, closed, crashed>>

connVars == <<socket, joins>>
memory == <<field, buffered, missed>>
threads == <<looper, main, sock>>
received == <<consuming, consumers>>
cryptors == <<encryptors, decryptors, activeDecryptor>>
life == <<closed, crashed>>

--------------------------------------------------------------------------------
Cryptor == [key : Versions, version : Versions, attached : BOOLEAN]
NewCryptor == [key |-> 0, version |-> 0, attached |-> FALSE]

Runnables == {"createDevice", "startLocalMedia"}
MainIdle == [pc |-> "idle", version |-> 0]
SockIdle == [pc |-> "idle", producer |-> NoProducer, key |-> 0, version |-> 0]
ProducerOrNone == Producers \cup {NoProducer}

\* The requests the client sends, and the producer some of them are about.
Requests ==
  ({"join", "send", "produce", "list"} \X {NoProducer})
    \cup ({"recv", "consume"} \X Producers)
Join == <<"join", NoProducer>>
Send == <<"send", NoProducer>>
Produce == <<"produce", NoProducer>>
List == <<"list", NoProducer>>
Recv(p) == <<"recv", p>>
Consume(p) == <<"consume", p>>
NoAcks == [r \in Requests |-> 0]

CallType ==
  /\ openEncryption \in BOOLEAN
  /\ socket \in {"connecting", "connected", "off"}
  /\ joins \in 0 .. MaxJoins
  /\ device \in {"none", "unloaded", "loaded", "disposed"}
  /\ closed \in BOOLEAN
  /\ crashed \in BOOLEAN

MemoryType ==
  /\ field \in [caps : BOOLEAN, recovered : BOOLEAN, sm4Key : Versions,
                version : Versions]
  /\ buffered \subseteq {"caps", "recovered"}
  /\ missed \in BOOLEAN

ThreadType ==
  /\ looper \in Seq(Runnables)
  /\ main \in [pc : {"idle", "version", "encryptor", "decryptor", "load"},
               version : Versions]
  /\ sock \in [pc : {"idle", "join", "connect", "key", "version", "set"},
               producer : ProducerOrNone, key : Versions, version : Versions]
  /\ sock.pc \in {"connect", "key", "version", "set"} =>
       sock.producer \in Producers

MediaType ==
  /\ consuming \subseteq Producers
  /\ consumers \in [Producers -> Nat]
  /\ encryptors \in Seq(Cryptor)
  /\ decryptors \in [Producers -> Cryptor]
  /\ activeDecryptor \in ProducerOrNone

TypeOK ==
  /\ CallType
  /\ MemoryType
  /\ ThreadType
  /\ acks \in [Requests -> Nat]
  /\ MediaType

Init ==
  /\ openEncryption \in EncryptionModes
  /\ socket = "connecting"
  /\ joins = 0
  /\ field = [caps |-> FALSE, recovered |-> FALSE, sm4Key |-> 0, version |-> 0]
  /\ buffered = {}
  /\ missed = FALSE
  /\ device = "none"
  /\ looper = <<>>
  /\ main = MainIdle
  /\ sock = SockIdle
  /\ acks = NoAcks
  /\ consuming = {}
  /\ consumers = [p \in Producers |-> 0]
  /\ encryptors = <<>>
  /\ decryptors = [p \in Producers |-> NewCryptor]
  /\ activeDecryptor = NoProducer
  /\ closed = FALSE
  /\ crashed = FALSE

--------------------------------------------------------------------------------
(* The memory the two threads share.                                       *)

\* A plain write, and what the other thread reads of it.
Written(flag) == IF StoreBuffers THEN buffered \cup {flag} ELSE buffered
Seen(flag) == field[flag] /\ flag \notin buffered
Unseen(flag) == field[flag] /\ flag \in buffered

\* The write leaves the store buffer, at the latest when its job ends.
Flush(flag) ==
  /\ flag \in buffered
  /\ buffered' = buffered \ {flag}
  /\ UNCHANGED <<openEncryption, connVars, field, missed, device, threads, acks,
                 received, cryptors, life>>

MainReady == ~crashed /\ main = MainIdle
SockReady == ~crashed /\ sock = SockIdle

\* n emits with an acknowledgement: nobody answers once the socket is off, and
\* a socket that is reconnecting keeps what is emitted.
Emitted(r, n) == IF socket = "off" THEN acks ELSE [acks EXCEPT ![r] = @ + n]

\* The event thread takes an acknowledgement.
Answered(r) ==
  /\ SockReady
  /\ acks[r] > 0

Handled(r) == [acks EXCEPT ![r] = @ - 1]

--------------------------------------------------------------------------------
(* The socket.  Reconnection is on, and close() only disconnects a socket  *)
(* that is connected at that moment.                                       *)

\* connection-success: joinRoom is sent.
connectionSuccess ==
  /\ SockReady
  /\ socket = "connecting"
  /\ joins < MaxJoins
  /\ socket' = "connected"
  /\ joins' = joins + 1
  /\ acks' = [acks EXCEPT ![Join] = @ + 1]
  /\ UNCHANGED <<openEncryption, memory, device, threads, received, cryptors,
                 life>>

\* The answers on the way are lost, unless the event thread has them already.
connectionLost ==
  /\ ~crashed
  /\ socket = "connected"
  /\ socket' = "connecting"
  /\ acks' \in {acks, NoAcks}
  /\ UNCHANGED <<openEncryption, joins, memory, device, threads, received,
                 cryptors, life>>

\* close() of RoomClient, by hangup or onDestroy.
close ==
  /\ MainReady
  /\ ~closed
  /\ closed' = TRUE
  /\ socket' = IF socket = "connected" THEN "off" ELSE socket
  /\ device' = IF device = "none" THEN "none" ELSE "disposed"
  /\ UNCHANGED <<openEncryption, joins, memory, threads, acks, received,
                 cryptors, crashed>>

--------------------------------------------------------------------------------
(* joinRoom and the recovered key: each side writes its flag, then reads   *)
(* the other's to decide whether to create the device.                     *)

\* The acknowledgement of joinRoom stores rtpCapabilities.
joinRoomAck ==
  /\ Answered(Join)
  /\ acks' = Handled(Join)
  /\ field' = [field EXCEPT !.caps = TRUE]
  /\ buffered' = IF field.caps THEN buffered ELSE Written("caps")
  /\ sock' = [sock EXCEPT !.pc = "join"]
  /\ UNCHANGED <<openEncryption, connVars, missed, device, looper, main, received,
                 cryptors, life>>

\* An answer without rtpCapabilities is dropped.
joinRoomRefused ==
  /\ Answered(Join)
  /\ acks' = Handled(Join)
  /\ UNCHANGED <<openEncryption, connVars, memory, device, threads, received,
                 cryptors, life>>

\* Mutated form: the device does not wait for a key.
joinRoomCheck_anyKey ==
  /\ ~crashed
  /\ sock.pc = "join"
  /\ looper' = IF ~openEncryption \/ encryptors = <<>>
                 THEN Append(looper, "createDevice") ELSE looper
  /\ sock' = SockIdle
  /\ buffered' = buffered \ {"caps"}
  /\ missed' = (missed \/ (/\ openEncryption /\ encryptors = <<>>
                          /\ Unseen("recovered")))
  /\ UNCHANGED <<openEncryption, connVars, field, device, main, acks, received,
                 cryptors, life>>

\* The device is requested if the key is there and nothing is produced yet.
joinRoomCheck ==
  /\ ~crashed
  /\ sock.pc = "join"
  /\ looper' = IF ~openEncryption \/ (encryptors = <<>> /\ Seen("recovered"))
                 THEN Append(looper, "createDevice") ELSE looper
  /\ sock' = SockIdle
  /\ buffered' = buffered \ {"caps"}
  /\ missed' = (missed \/ (/\ openEncryption /\ encryptors = <<>>
                          /\ Unseen("recovered")))
  /\ UNCHANGED <<openEncryption, connVars, field, device, main, acks, received,
                 cryptors, life>>

\* Mutated form: recoveries are delivered in any order.
onKeyRecovered_anyOrder(v) ==
  /\ MainReady
  /\ v > 0
  /\ field' = [field EXCEPT !.sm4Key = v]
  /\ main' = [pc |-> "version", version |-> v]
  /\ UNCHANGED <<openEncryption, connVars, buffered, missed, device, looper, sock,
                 acks, received, cryptors, life>>

\* onKeyRecovered: first the key, then the version and the flag.
onKeyRecovered(v) ==
  /\ MainReady
  /\ v > field.version
  /\ field' = [field EXCEPT !.sm4Key = v]
  /\ main' = [pc |-> "version", version |-> v]
  /\ UNCHANGED <<openEncryption, connVars, buffered, missed, device, looper, sock,
                 acks, received, cryptors, life>>

storeVersion ==
  /\ ~crashed
  /\ main.pc = "version"
  /\ field' = [field EXCEPT !.version = main.version, !.recovered = TRUE]
  /\ buffered' = IF field.recovered THEN buffered ELSE Written("recovered")
  /\ main' = [main EXCEPT !.pc = "encryptor"]
  /\ UNCHANGED <<openEncryption, connVars, missed, device, looper, sock, acks,
                 received, cryptors, life>>

Rekeyed(cryptor, v) == [cryptor EXCEPT !.key = v, !.version = v]

\* Mutated forms: the first encryptor is rekeyed instead of the active one; a
\* key that arrives after rtpCapabilities requests no device.
updateEncryptor_first ==
  /\ ~crashed
  /\ main.pc = "encryptor"
  /\ IF encryptors # <<>>
       THEN /\ encryptors' = [encryptors EXCEPT ![1] = Rekeyed(@, main.version)]
            /\ UNCHANGED <<looper, missed>>
       ELSE /\ looper' = IF Seen("caps") THEN Append(looper, "createDevice")
                                         ELSE looper
            /\ missed' = (missed \/ Unseen("caps"))
            /\ UNCHANGED encryptors
  /\ main' = [main EXCEPT !.pc = "decryptor"]
  /\ UNCHANGED <<openEncryption, connVars, field, buffered, device, sock, acks,
                 received, decryptors, activeDecryptor, life>>
updateEncryptor_noDevice ==
  /\ ~crashed
  /\ main.pc = "encryptor"
  /\ encryptors' = IF encryptors = <<>> THEN encryptors
                   ELSE [encryptors EXCEPT
                           ![Len(encryptors)] = Rekeyed(@, main.version)]
  /\ main' = [main EXCEPT !.pc = "decryptor"]
  /\ UNCHANGED <<openEncryption, connVars, memory, device, looper, sock, acks,
                 received, decryptors, activeDecryptor, life>>

\* Rekey the active encryptor; without one, and with rtpCapabilities there,
\* request the device.
updateEncryptor ==
  /\ ~crashed
  /\ main.pc = "encryptor"
  /\ IF encryptors # <<>>
       THEN /\ encryptors' = [encryptors EXCEPT
                                ![Len(encryptors)] = Rekeyed(@, main.version)]
            /\ UNCHANGED <<looper, missed>>
       ELSE /\ looper' = IF Seen("caps") THEN Append(looper, "createDevice")
                                         ELSE looper
            /\ missed' = (missed \/ Unseen("caps"))
            /\ UNCHANGED encryptors
  /\ main' = [main EXCEPT !.pc = "decryptor"]
  /\ UNCHANGED <<openEncryption, connVars, field, buffered, device, sock, acks,
                 received, decryptors, activeDecryptor, life>>

\* Rekey the decryptor created last.
updateDecryptor ==
  /\ ~crashed
  /\ main.pc = "decryptor"
  /\ decryptors' = IF activeDecryptor = NoProducer THEN decryptors
                   ELSE [decryptors EXCEPT
                           ![activeDecryptor] = Rekeyed(@, main.version)]
  /\ main' = MainIdle
  /\ buffered' = buffered \ {"recovered"}
  /\ UNCHANGED <<openEncryption, connVars, field, missed, device, looper, sock,
                 acks, received, encryptors, activeDecryptor, life>>

--------------------------------------------------------------------------------
(* The sending side.                                                       *)

Running(runnable) == MainReady /\ looper # <<>> /\ Head(looper) = runnable

\* A new Device replaces the field, then it is loaded; if that throws, nothing
\* is requested.
createDevice ==
  /\ Running("createDevice")
  /\ looper' = Tail(looper)
  /\ device' = "unloaded"
  /\ main' = [main EXCEPT !.pc = "load"]
  /\ UNCHANGED <<openEncryption, connVars, memory, sock, acks, received,
                 cryptors, life>>

loadDevice ==
  /\ ~crashed
  /\ main.pc = "load"
  /\ main' = MainIdle
  /\ \/ device' = "loaded" /\ acks' = Emitted(Send, 1)
     \/ UNCHANGED <<device, acks>>
  /\ UNCHANGED <<openEncryption, connVars, memory, looper, sock, received,
                 cryptors, life>>

\* Every exception is caught here; on success the activity is told and posts
\* startLocalMedia.
createSendTransportAck ==
  /\ Answered(Send)
  /\ acks' = Handled(Send)
  /\ \/ /\ device = "loaded"
        /\ looper' = Append(looper, "startLocalMedia")
     \/ UNCHANGED looper
  /\ UNCHANGED <<openEncryption, connVars, memory, device, main, sock, received,
                 cryptors, life>>

\* A new HCCrypto is keyed and attached only with encryption on.
AddedEncryptor ==
  IF openEncryption
    THEN [key |-> field.sm4Key, version |-> field.version, attached |-> TRUE]
    ELSE NewCryptor

\* addTrack for the video and for the audio track; each may be missing or fail.
\* After hangup roomClient is null and after onDestroy the tracks are disposed:
\* an exception escapes.
startLocalMedia(video, audio) ==
  /\ Running("startLocalMedia")
  /\ looper' = Tail(looper)
  /\ crashed' = (closed /\ (video \/ audio))
  /\ encryptors' = IF closed \/ ~video THEN encryptors
                   ELSE Append(encryptors, AddedEncryptor)
  /\ acks' = IF closed THEN acks
             ELSE Emitted(Produce, (IF video THEN 1 ELSE 0)
                                     + (IF audio THEN 1 ELSE 0))
  /\ UNCHANGED <<openEncryption, connVars, memory, device, main, sock, received,
                 decryptors, activeDecryptor, closed>>

--------------------------------------------------------------------------------
(* The receiving side, all on the socket thread.                           *)

\* Mutated form: every announcement is followed by a request.
signalNewConsumerTransport_always(ids, pending) ==
  /\ consuming' = consuming \cup ids
  /\ acks' = IF socket = "off" THEN pending
             ELSE [r \in Requests |-> IF \E p \in ids : r = Recv(p)
                                        THEN pending[r] + 1 ELSE pending[r]]

\* For every id that is not in consumingTransports, a transport is requested.
signalNewConsumerTransport(ids, pending) ==
  /\ consuming' = consuming \cup ids
  /\ acks' = IF socket = "off" THEN pending
             ELSE [r \in Requests |-> IF \E p \in ids \ consuming : r = Recv(p)
                                        THEN pending[r] + 1 ELSE pending[r]]

newProducer(p) ==
  /\ SockReady
  /\ socket = "connected"
  /\ signalNewConsumerTransport({p}, acks)
  /\ UNCHANGED <<openEncryption, connVars, memory, device, threads, consumers,
                 cryptors, life>>

\* Mutated form: an answer nobody waits for is handled.
produceAck_unrequested ==
  /\ SockReady
  /\ acks' = Handled(Produce)
  /\ UNCHANGED <<openEncryption, connVars, memory, device, threads, received,
                 cryptors, life>>

\* transport-produce: if the answer says that others produce, ask for the list.
produceAck ==
  /\ Answered(Produce)
  /\ acks' \in {Handled(Produce), [Emitted(List, 1) EXCEPT ![Produce] = @ - 1]}
  /\ UNCHANGED <<openEncryption, connVars, memory, device, threads, received,
                 cryptors, life>>

getProducersAck(ids) ==
  /\ Answered(List)
  /\ signalNewConsumerTransport(ids, Handled(List))
  /\ UNCHANGED <<openEncryption, connVars, memory, device, threads, consumers,
                 cryptors, life>>

\* createRecvTransport on a null or disposed device throws an exception that
\* nobody catches; on a device that is not loaded it is caught.
createRecvTransportAck(p) ==
  /\ Answered(Recv(p))
  /\ acks' = Handled(Recv(p))
  /\ crashed' = (device \in {"none", "disposed"})
  /\ sock' = IF device = "loaded"
               THEN [sock EXCEPT !.pc = "connect", !.producer = p] ELSE SockIdle
  /\ UNCHANGED <<openEncryption, connVars, memory, device, looper, main,
                 received, cryptors, closed>>

\* Then getRtpCapabilities reads the field again: here the exception of a
\* device that is not loaded is thrown on.
connectRecvTransport ==
  /\ ~crashed
  /\ sock.pc = "connect"
  /\ crashed' = (device # "loaded")
  /\ acks' = IF device # "loaded" \/ socket = "off" THEN acks
             ELSE [acks EXCEPT ![Consume(sock.producer)] = @ + 1]
  /\ sock' = SockIdle
  /\ UNCHANGED <<openEncryption, connVars, memory, device, looper, main,
                 received, cryptors, closed>>

\* The server refuses, or the request fails with a caught exception.
Refused(r) ==
  /\ Answered(r)
  /\ acks' = Handled(r)
  /\ UNCHANGED <<openEncryption, connVars, memory, device, threads, received,
                 cryptors, life>>

\* The consumer of an unencrypted or audio producer needs nothing else; a video
\* consumer gets a decryptor, published in the field before it has a key.
consumeAck(p) ==
  /\ Answered(Consume(p))
  /\ acks' = Handled(Consume(p))
  /\ consumers' = [consumers EXCEPT ![p] = @ + 1]
  /\ IF openEncryption /\ p \in VideoProducers
       THEN /\ decryptors' = [decryptors EXCEPT ![p] = NewCryptor]
            /\ activeDecryptor' = p
            /\ sock' = [sock EXCEPT !.pc = "key", !.producer = p]
       ELSE UNCHANGED <<decryptors, activeDecryptor, sock>>
  /\ UNCHANGED <<openEncryption, connVars, memory, device, looper, main,
                 consuming, encryptors, life>>

\* The arguments of setSM4KeyWithVersion are read one after the other.
readKey ==
  /\ ~crashed
  /\ sock.pc = "key"
  /\ sock' = [sock EXCEPT !.pc = "version", !.key = field.sm4Key]
  /\ UNCHANGED <<openEncryption, connVars, memory, device, looper, main, acks,
                 received, cryptors, life>>

readVersion ==
  /\ ~crashed
  /\ sock.pc = "version"
  /\ sock' = [sock EXCEPT !.pc = "set", !.version = field.version]
  /\ UNCHANGED <<openEncryption, connVars, memory, device, looper, main, acks,
                 received, cryptors, life>>

setFrameDecryptor ==
  /\ ~crashed
  /\ sock.pc = "set"
  /\ decryptors' = [decryptors EXCEPT ![sock.producer] =
                      [key |-> sock.key, version |-> sock.version,
                       attached |-> TRUE]]
  /\ sock' = SockIdle
  /\ UNCHANGED <<openEncryption, connVars, memory, device, looper, main, acks,
                 received, encryptors, activeDecryptor, life>>

--------------------------------------------------------------------------------
MainThread ==
  \/ storeVersion \/ updateEncryptor \/ updateDecryptor
  \/ createDevice \/ loadDevice
  \/ \E video, audio \in BOOLEAN : startLocalMedia(video, audio)

SocketThread ==
  joinRoomCheck \/ connectRecvTransport \/ readKey \/ readVersion
    \/ setFrameDecryptor

Answers ==
  \/ joinRoomAck \/ joinRoomRefused \/ createSendTransportAck \/ produceAck
  \/ \E ids \in SUBSET Producers : getProducersAck(ids)
  \/ \E p \in Producers :
       \/ createRecvTransportAck(p)
       \/ consumeAck(p)
       \/ Refused(Recv(p))
       \/ Refused(Consume(p))

Next ==
  \/ connectionSuccess \/ connectionLost \/ close
  \/ \E v \in Versions : onKeyRecovered(v)
  \/ \E p \in Producers : newProducer(p)
  \/ Answers \/ MainThread \/ SocketThread
  \/ \E flag \in {"caps", "recovered"} : Flush(flag)

Spec == Init /\ [][Next]_vars

--------------------------------------------------------------------------------
(* Properties.                                                             *)

\* Every encryptor and decryptor that sees frames holds a recovered key, never
\* the built-in default one, and an encryptor's key and version belong
\* together: the device, and with it every transport, waits for the first
\* recovery (joinRoom, onKeyRecovered, addTrack, connectRecvTransport).
KeysAreRecovered ==
  /\ \A n \in 1 .. Len(encryptors) :
       encryptors[n].attached =>
         encryptors[n].version > 0 /\ encryptors[n].key = encryptors[n].version
  /\ \A p \in Producers :
       decryptors[p].attached =>
         decryptors[p].version > 0 /\ decryptors[p].key > 0

\* What producer p has led to: consumers, requests that are out, and the step
\* between the two requests.
Consumption(p) ==
  consumers[p] + acks[Recv(p)] + acks[Consume(p)]
    + (IF sock.pc = "connect" /\ sock.producer = p THEN 1 ELSE 0)

\* A remote producer is consumed at most once, however often it is announced,
\* listed by getProducers, or announced again after a reconnection
\* (signalNewConsumerTransport).
SingleConsumer == \A p \in Producers : Consumption(p) <= 1

\* Between two jobs of the main thread the active encryptor holds the key that
\* was recovered last, whatever was recovered during the set-up.
ActiveEncryptorUpToDate ==
  MainReady /\ encryptors # <<>> /\ openEncryption =>
    encryptors[Len(encryptors)]
      = [key |-> field.sm4Key, version |-> field.version, attached |-> TRUE]

\* A runnable is posted to the main thread.
InLooper(runnable) == \E n \in 1 .. Len(looper) : looper[n] = runnable

\* Once the room was joined and a key was recovered, the device is there or some
\* thread is bound to request it, whichever flag was written first and however
\* the two threads interleave; no request is dropped before it ran (joinRoom,
\* onKeyRecovered).  The fields are plain, so a check may read a flag before the
\* other thread's write has reached it: nothing else loses the device.
DeviceOnItsWay ==
  field.caps /\ field.recovered =>
    \/ device # "none"
    \/ InLooper("createDevice")
    \/ main.pc = "encryptor"
    \/ sock.pc = "join"
    \/ missed

\* A cryptor that sees frames holds the key that was recovered last.
Current(cryptor) ==
  cryptor.attached =>
    cryptor.key = field.sm4Key /\ cryptor.version = field.version

\* onKeyRecovered leaves every decryptor that sees frames with the recovered key,
\* at least when no consumer is being set up meanwhile: "after KNSConnectManager
\* has recovered the key, the callback updates the key of the encryptor and the
\* decryptor" (setupKeyRecoveryListener).
RecoveryReachesDecryptors ==
  [][ main.pc = "decryptor" /\ main'.pc = "idle" /\ SockReady
        => \A p \in Producers : Current(decryptors'[p]) ]_vars

\* What a step may do to a cryptor that sees frames: nothing, or give it a key
\* with its own version.
KeptOrRekeyed(old, new) ==
  old.attached => new = old \/ (new.attached /\ new.key = new.version)

\* A cryptor that sees frames only moves forward: an encryptor only ever gets a
\* key with a later version, a decryptor one that is not earlier, no consumer
\* replaces or resets the decryptor of another, and both get key and version
\* together (onKeyRecovered, addTrack, connectRecvTransport).
AttachedKeysAdvance ==
  [][ /\ \A n \in 1 .. Len(encryptors) :
           /\ KeptOrRekeyed(encryptors[n], encryptors'[n])
           /\ encryptors[n].attached /\ encryptors'[n] # encryptors[n]
                => encryptors'[n].version > encryptors[n].version
      /\ \A p \in Producers :
           /\ KeptOrRekeyed(decryptors[p], decryptors'[p])
           /\ decryptors[p].attached
                => decryptors'[p].version >= decryptors[p].version ]_vars

--------------------------------------------------------------------------------
(* The inductive invariants behind the properties.                         *)

\* Only a producer in consumingTransports has led to anything, and only once.
ConsumerInv ==
  \A p \in Producers :
    /\ Consumption(p) <= 1
    /\ p \notin consuming => Consumption(p) = 0

\* Both parts of a recovered key are stored.
Keyed == field.sm4Key > 0 /\ field.version > 0

\* onKeyRecovered stores its key and its version, in this order; outside the
\* step between them the two fields belong together.
FieldInv ==
  /\ field.recovered => Keyed
  /\ main.pc \in {"version", "encryptor", "decryptor"} => main.version > 0
  /\ main.pc = "version" => field.sm4Key = main.version
  /\ main.pc = "encryptor" => Keyed /\ main.version = field.version
  /\ main.pc # "version" => field.sm4Key = field.version

\* With encryption on, everything on the way from the request of a device to a
\* consumer comes after the first recovery.
GateInv ==
  openEncryption
    /\ \/ looper # <<>>
       \/ main.pc = "load"
       \/ device # "none"
       \/ acks[Send] > 0
       \/ sock.pc = "connect"
       \/ \E p \in Producers : acks[Consume(p)] > 0
  => Keyed

\* The socket thread, about to set a decryptor, has read a recovered key.
SockInv ==
  /\ sock.pc \in {"key", "version", "set"} => Keyed
  /\ sock.pc \in {"version", "set"} => sock.key > 0
  /\ sock.pc = "set" => sock.version > 0

\* An encryptor sees frames exactly with encryption on.
AttachInv ==
  \A n \in 1 .. Len(encryptors) : encryptors[n].attached = openEncryption

\* The active encryptor is behind the fields only while onKeyRecovered is on
\* its way to it.
ActiveInv ==
  /\ openEncryption
  /\ encryptors # <<>>
  /\ main.pc \notin {"version", "encryptor"}
  => /\ encryptors[Len(encryptors)].key = field.sm4Key
     /\ encryptors[Len(encryptors)].version = field.version

KeyInv ==
  /\ FieldInv /\ GateInv /\ SockInv /\ AttachInv /\ ActiveInv
  /\ KeysAreRecovered

\* Behind DeviceOnItsWay: everything that follows a device has one.
DeviceInv ==
  /\ ~StoreBuffers => buffered = {} /\ ~missed
  /\ \/ main.pc = "load"
     \/ acks[Send] > 0
     \/ InLooper("startLocalMedia")
     \/ encryptors # <<>>
     => device # "none"
  /\ DeviceOnItsWay

\* Behind AttachedKeysAdvance: no cryptor is ahead of the stored version, all
\* encryptors are behind it while onKeyRecovered is on its way to the active
\* one, and a decryptor that is being set up does not see frames yet.
VersionInv ==
  /\ main.pc = "version" => main.version > field.version
  /\ sock.pc = "set" => sock.version <= field.version
  /\ \A n \in 1 .. Len(encryptors) :
       /\ encryptors[n].version <= field.version
       /\ main.pc = "encryptor" => encryptors[n].version < field.version
  /\ \A p \in Producers :
       /\ decryptors[p].version <= field.version
       /\ decryptors[p].attached => consumers[p] > 0
       /\ sock.pc \in {"key", "version", "set"} /\ sock.producer = p
            => consumers[p] > 0 /\ ~decryptors[p].attached

================================================================================
