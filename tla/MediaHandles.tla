----------------------------- MODULE MediaHandles -----------------------------
(***************************************************************************)
(* The mediasoup device, its transports, the Java PeerConnection class and *)
(* the producers and consumers, as the JNI layer keeps them                *)
(* (device_jni.cpp, transport_jni.cpp, peerconnection_jni.cpp,             *)
(* producer_jni.cpp, consumer_jni.cpp, data_producer_jni.cpp,              *)
(* data_consumer_jni.cpp and their headers).                               *)
(*                                                                         *)
(* Java holds raw addresses; native objects hold raw addresses of their    *)
(* listener, of the device's tables and of their transport; WebRTC's       *)
(* signalling threads call the listeners.  No count and no lock protects   *)
(* any of them: whether an address is good depends on the order in which   *)
(* the client makes its calls.                                             *)
(*                                                                         *)
(* Client names one of the two clients in the repository.  "test" is the   *)
(* instrumented tests (MediasoupClientTest, DeviceTest,                    *)
(* PeerConnectionTest): one thread, ids given by the server, close before  *)
(* dispose.  "app" is RoomClient: transports made on the socket thread and *)
(* used on the main and the socket thread, onProduce answers with an empty *)
(* id, transports are never disposed.  The native methods below have only  *)
(* the guards of the code; what a client adds by the order of its calls is *)
(* in operators of its own (Caller, Disposes, DisposesDevice, Holds).      *)
(*                                                                         *)
(* The objects behind producers and consumers are never deleted, so calls  *)
(* that only touch them (getId, getKind, pause, ...), and the callbacks of *)
(* data channels into them, are not modelled.                              *)
(***************************************************************************)

CONSTANTS
  SendTransports, RecvTransports,
  PeerConnections,               \* objects of the Java class PeerConnection
  Producers, Consumers, DataProducers, DataConsumers,
  Client,                        \* "test" or "app"
  Device, None

Transports == SendTransports \cup RecvTransports
Owners     == Transports \cup PeerConnections
Sending    == Producers \cup DataProducers
Receiving  == Consumers \cup DataConsumers
MediaKinds == Producers \cup Consumers
DataKinds  == DataProducers \cup DataConsumers
Objects    == Sending \cup Receiving
Threads    == {"main", "socket"}

ASSUME ClientAssumption ==
  /\ Client \in {"test", "app"}
  /\ Client = "app" => PeerConnections \cup DataKinds = {}

ASSUME NamesAssumption ==
  /\ SendTransports \cap RecvTransports = {}
  /\ Transports \cap PeerConnections = {}
  /\ Sending \cap Receiving = {} /\ MediaKinds \cap DataKinds = {}
  /\ {Device, None} \cap Owners = {} /\ Device # None

VARIABLES
  device,    \* "none", "new", "loaded" or "freed"
  own,       \* the native object and the listener behind a Java handle
  ended,     \* the native object is closed
  ready,     \* onConnect of the transport has returned (transportReady)
  wired,     \* the transport has a local description: its ICE agent runs
  calling,   \* a signalling thread is in its listener
  field,     \* the send transport the client's field names
  stage,     \* how far the creation of a producer or consumer has come
  parent,    \* its transport
  closed,    \* "open", or closed by the "user" or by its "transport"
  reg,       \* the producers and consumers in a transport's maps
  using      \* the native object a client thread is calling

ownerVars  == <<own, ended, ready, wired, calling, field>>
objectVars == <<stage, parent, closed, reg>>
vars == <<device, ownerVars, objectVars, using>>

\* "native": built, the Java object not yet known to the listener; "live";
\* "unlistened": the listener is deleted, the native object not yet.
OwnStates == {"none", "native", "live", "unlistened", "freed"}

\* "begun": in the JNI method; "connecting": in the listener's onConnect;
\* "offered": in onProduce or onProduceData; "native": built and in the
\* transport's map; "done": known to Java; "failed": ended by an exception.
Stages == {"none", "begun", "connecting", "offered", "native", "done", "failed"}
Underway == {"begun", "connecting", "offered", "native"}

Init ==
  /\ device  = "none"
  /\ own     = [x \in Owners |-> "none"]
  /\ ended   = [x \in Owners |-> FALSE]
  /\ ready   = [x \in Transports |-> FALSE]
  /\ wired   = [x \in Transports |-> FALSE]
  /\ calling = [x \in Owners |-> FALSE]
  /\ field   = None
  /\ stage   = [o \in Objects |-> "none"]
  /\ parent  = [o \in Objects |-> None]
  /\ closed  = [o \in Objects |-> "open"]
  /\ reg     = [x \in Transports |-> {}]
  /\ using   = [th \in Threads |-> None]

-----------------------------------------------------------------------------
(* The client's threads                                                    *)

\* The tests run on one thread.  RoomClient creates its transports, and then
\* consumes, in acknowledgements on the socket thread; it produces on the main
\* thread.
Creator(x) == IF Client = "app" THEN "socket" ELSE "main"

Caller(x) == IF Client = "app" /\ x \in RecvTransports THEN "socket" ELSE "main"

\* The send transport a client can name: RoomClient has one field for all.
Holds(x) == Client = "app" /\ x \in SendTransports => x = field

\* The thread is inside a native method.
Busy(th) ==
  \/ using[th] # None
  \/ \E o \in Objects : stage[o] \in Underway /\ Caller(parent[o]) = th
  \/ \E x \in Owners : own[x] = "native" /\ Creator(x) = th
  \/ \E x \in Owners : own[x] = "unlistened" /\ th = "main"

\* A native method that reads through an address and changes nothing here.
Use(th, n) ==
  /\ ~Busy(th)
  /\ using' = [using EXCEPT ![th] = n]
  /\ UNCHANGED <<device, ownerVars, objectVars>>

EndUse(th) ==
  /\ using[th] # None
  /\ using' = [using EXCEPT ![th] = None]
  /\ UNCHANGED <<device, ownerVars, objectVars>>

-----------------------------------------------------------------------------
(* Device                                                                  *)

SetDevice(th, state) ==
  /\ ~Busy(th)
  /\ Client = "test" => th = "main"
  /\ device' = state
  /\ UNCHANGED <<ownerVars, objectVars, using>>

NewDevice(th) == device = "none" /\ SetDevice(th, "new")

\* Loading a loaded device throws.
Load(th) == device = "new" /\ SetDevice(th, "loaded")

\* isLoaded, getRtpCapabilities, getSctpCapabilities, canProduce.
QueryDevice(th) ==
  /\ device \in {"new", "loaded"}
  /\ Client = "test" => th = "main"
  /\ Use(th, Device)

\* The device is deleted, whoever is using it.
FreeDevice(th) == device \in {"new", "loaded"} /\ SetDevice(th, "freed")

\* The tests dispose the device after its transports, RoomClient.close after
\* it has closed the send transport its field names.
DisposesDevice ==
  /\ Client = "test" => \A x \in Transports : own[x] \in {"none", "freed"}
  /\ Client = "app"  => \A x \in SendTransports : x = field => ended[x]

DisposeDevice == DisposesDevice /\ FreeDevice("main")

-----------------------------------------------------------------------------
(* Transports and peer connections                                         *)

SetOwn(x, state) ==
  /\ own' = [own EXCEPT ![x] = state]
  /\ UNCHANGED <<device, ended, ready, wired, calling, objectVars, using>>

\* The listener and the native transport are built.  A device that is not
\* loaded, or parameters it does not take, end the call with an exception
\* and leak the listener.
CreateTransport(x) ==
  /\ device = "loaded" /\ own[x] = "none" /\ ~Busy(Creator(x))
  /\ SetOwn(x, "native") /\ UNCHANGED field

CreateSendTransport(x) == x \in SendTransports /\ CreateTransport(x)

CreateRecvTransport(x) == x \in RecvTransports /\ CreateTransport(x)

\* The Java object is built around the owned pair and given to the listener.
NativeToJavaTransport(x) == own[x] = "native" /\ SetOwn(x, "live")

\* The client stores the send transport it is given.
NativeToJavaSendTransport(x) ==
  x \in SendTransports /\ NativeToJavaTransport(x) /\ field' = x

NativeToJavaRecvTransport(x) ==
  x \in RecvTransports /\ NativeToJavaTransport(x) /\ UNCHANGED field

NewPeerConnection(p) ==
  /\ p \in PeerConnections /\ own[p] = "none" /\ ~Busy("main")
  /\ SetOwn(p, "live") /\ UNCHANGED field

\* Calls through the address of a live transport or peer connection.
UseOwner(x) == own[x] = "live" /\ Use(Caller(x), x)

\* getId, getConnectionState, getAppData, getStats, restartIce,
\* updateIceServers.
CallTransport(x) == x \in Transports /\ Holds(x) /\ UseOwner(x)

\* setConfiguration, createOffer, createAnswer, the descriptions, the
\* senders and transceivers, and the statistics.
CallPeerConnection(p) == p \in PeerConnections /\ UseOwner(p)

\* The signalling thread of a peer connection calls the listener, unless the
\* peer connection is closed, when it has let go of its observer (WebRTC's
\* peer_connection.cc:1788, 1803; a call and Close exclude each other, both being
\* run on the signalling thread).  A transport
\* only passes changes of the ICE state on, which need a description; the
\* listener of a PeerConnection also hears of negotiation, before any is set.
Event(x) ==
  /\ own[x] \notin {"none", "freed"} /\ ~ended[x] /\ ~calling[x]
  /\ x \in Transports => wired[x]
  /\ calling' = [calling EXCEPT ![x] = TRUE]
  /\ UNCHANGED <<device, own, ended, ready, wired, field, objectVars, using>>

SendOnConnectionStateChange(x) == x \in SendTransports /\ Event(x)

RecvOnConnectionStateChange(x) == x \in RecvTransports /\ Event(x)

PrivateListenerEvent(p) == p \in PeerConnections /\ Event(p)

EventReturns(x) ==
  /\ calling[x]
  /\ calling' = [calling EXCEPT ![x] = FALSE]
  /\ UNCHANGED <<device, own, ended, ready, wired, field, objectVars, using>>

\* Closing waits for the signalling thread.  Every open producer and consumer
\* in the transport's maps is closed.
CloseTransport(x) ==
  /\ own[x] = "live" /\ ~ended[x] /\ ~calling[x]
  /\ ended' = [ended EXCEPT ![x] = TRUE]
  /\ closed' = [o \in Objects |->
       IF o \in reg[x] /\ closed[o] = "open" THEN "transport" ELSE closed[o]]
  /\ UNCHANGED <<device, own, ready, wired, calling, field, stage, parent, reg, using>>

\* RoomClient closes its send transport; nothing holds its receive transports.
Close(x) ==
  /\ Client = "test" \/ x \in SendTransports
  /\ Holds(x) /\ ~Busy(Caller(x))
  /\ x \in Transports /\ CloseTransport(x)

ClosePeerConnection(p) ==
  /\ p \in PeerConnections /\ own[p] = "live"
  /\ ~ended[p] /\ ~calling[p] /\ ~Busy("main")
  /\ ended' = [ended EXCEPT ![p] = TRUE]
  /\ UNCHANGED <<device, own, ready, wired, calling, field, objectVars, using>>

\* The listener is deleted before the native object.
DeleteListener(x) ==
  /\ own[x] = "live" /\ ~Busy("main")
  /\ SetOwn(x, "unlistened") /\ UNCHANGED field

FreeSendTransport(x) == x \in SendTransports /\ DeleteListener(x)

FreeRecvTransport(x) == x \in RecvTransports /\ DeleteListener(x)

FreeOwnedPeerConnection(p) == p \in PeerConnections /\ DeleteListener(p)

\* Only the tests dispose transports: one that is closed
\* (MediasoupClientTest) or that was never used (DeviceTest).
Disposes(x) == Client = "test" /\ (ended[x] \/ ~wired[x])

DisposeSendTransport(x) == x \in Transports /\ Disposes(x) /\ FreeSendTransport(x)

DisposeRecvTransport(x) == x \in Transports /\ Disposes(x) /\ FreeRecvTransport(x)

\* Mutated form: dispose without close.
DisposePeerConnection_open(p) == FreeOwnedPeerConnection(p)

\* PeerConnection.dispose closes first.
DisposePeerConnection(p) == ended[p] /\ FreeOwnedPeerConnection(p)

DeleteOwned(x) == own[x] = "unlistened" /\ SetOwn(x, "freed") /\ UNCHANGED field

DeleteOwnedSendTransport(x)  == x \in SendTransports /\ DeleteOwned(x)
DeleteOwnedRecvTransport(x)  == x \in RecvTransports /\ DeleteOwned(x)
DeleteOwnedPeerConnection(p) == p \in PeerConnections /\ DeleteOwned(p)

-----------------------------------------------------------------------------
(* Producers and consumers                                                 *)

SetStage(o, s) ==
  /\ stage' = [stage EXCEPT ![o] = s]
  /\ UNCHANGED <<device, ownerVars, parent, closed, reg, using>>

\* Mutated form: the object does not learn its transport.
Begin_noParent(o, x) ==
  /\ stage[o] = "none" /\ own[x] = "live" /\ Holds(x) /\ ~Busy(Caller(x))
  /\ stage' = [stage EXCEPT ![o] = "begun"]
  /\ UNCHANGED <<device, ownerVars, parent, closed, reg, using>>

\* The JNI method allocates the object's listener and reads its arguments.
Begin(o, x) ==
  /\ stage[o] = "none" /\ own[x] = "live" /\ Holds(x) /\ ~Busy(Caller(x))
  /\ stage'  = [stage EXCEPT ![o] = "begun"]
  /\ parent' = [parent EXCEPT ![o] = x]
  /\ UNCHANGED <<device, ownerVars, closed, reg, using>>

Produce(o, x)     == o \in Producers /\ x \in SendTransports /\ Begin(o, x)

ProduceData(o, x) == o \in DataProducers /\ x \in SendTransports /\ Begin(o, x)

Consume(o, x)     == o \in Consumers /\ x \in RecvTransports /\ Begin(o, x)

ConsumeData(o, x) == o \in DataConsumers /\ x \in RecvTransports /\ Begin(o, x)

\* A closed transport, an argument that does not parse or is refused, or a
\* failing description: the exception is passed to Java, the listener leaks.
\* By then onConnect may have returned, and the local description be set.
Throw(o) ==
  /\ stage[o] \in {"begun", "connecting"}
  /\ stage' = [stage EXCEPT ![o] = "failed"]
  /\ \/ UNCHANGED <<ready, wired>>
     \/ /\ stage[o] = "connecting" \/ ready[parent[o]]
        /\ ~ended[parent[o]]
        /\ ready' = [ready EXCEPT ![parent[o]] = TRUE]
        /\ wired' \in {wired, [wired EXCEPT ![parent[o]] = TRUE]}
  /\ UNCHANGED <<device, own, ended, calling, field, parent, closed, reg, using>>

\* The first negotiation of a transport asks the listener to connect it; it is
\* not asked again once onConnect has returned, even if what follows throws.
Connect(o) ==
  /\ stage[o] = "begun" /\ ~ended[parent[o]] /\ ~ready[parent[o]]
  /\ SetStage(o, "connecting")

SendOnConnect(o) == o \in Sending /\ Connect(o)

RecvOnConnect(o) == o \in Receiving /\ Connect(o)

\* The local description is set once the transport is ready.
Negotiated(o) ==
  /\ stage[o] = "connecting" \/ (stage[o] = "begun" /\ ready[parent[o]])
  /\ ~ended[parent[o]]
  /\ ready' = [ready EXCEPT ![parent[o]] = TRUE]
  /\ wired' = [wired EXCEPT ![parent[o]] = TRUE]

Offer(o) ==
  /\ Negotiated(o)
  /\ stage' = [stage EXCEPT ![o] = "offered"]
  /\ UNCHANGED <<device, own, ended, calling, field, parent, closed, reg, using>>

OnProduce(o) == o \in Producers /\ Offer(o)

OnProduceData(o) == o \in DataProducers /\ Offer(o)

\* The maps are keyed by id.  RoomClient's onProduce returns "" for each.
SameKey(o, p) ==
  \/ o = p
  \/ Client = "app" /\ {o, p} \subseteq Producers

\* The map an object is in is that of its kind.
Kind(o) == CHOOSE k \in {Producers, Consumers, DataProducers, DataConsumers} : o \in k

\* Mutated forms: the object is left out of the map; the map keeps only the
\* last object of its kind.
Insert_lost(o)   == UNCHANGED reg
Insert_single(o) == reg' = [reg EXCEPT ![parent[o]] = (@ \ Kind(o)) \cup {o}]

Insert(o) ==
  reg' = [reg EXCEPT ![parent[o]] = {p \in @ : ~SameKey(o, p)} \cup {o}]

\* The transport does not look again whether it has been closed meanwhile.
NewProducer(o) ==
  /\ stage[o] = "offered"
  /\ Insert(o)
  /\ stage' = [stage EXCEPT ![o] = "native"]
  /\ UNCHANGED <<device, ownerVars, parent, closed, using>>

NewConsumer(o) ==
  /\ o \in Receiving /\ Negotiated(o)
  /\ Insert(o)
  /\ stage' = [stage EXCEPT ![o] = "native"]
  /\ UNCHANGED <<device, own, ended, calling, field, parent, closed, using>>

\* The Java object is built and given to the listener.
NativeToJava(o) == stage[o] = "native" /\ SetStage(o, "done")

NativeToJavaProducer(o)     == o \in Producers /\ NativeToJava(o)
NativeToJavaConsumer(o)     == o \in Consumers /\ NativeToJava(o)
NativeToJavaDataProducer(o) == o \in DataProducers /\ NativeToJava(o)
NativeToJavaDataConsumer(o) == o \in DataConsumers /\ NativeToJava(o)

\* getStats, replaceTrack and setMaxSpatialLayer of an open object go through
\* its transport; a closed one throws.
UseParent(o) ==
  /\ stage[o] = "done" /\ closed[o] = "open"
  /\ o \in MediaKinds /\ Use(Caller(parent[o]), parent[o])

\* Closing an open object erases its id from the transport's map.  Of these
\* RoomClient can only close consumers, in a method nothing calls yet.
CloseObject(o) ==
  /\ stage[o] = "done" /\ closed[o] = "open"
  /\ Client = "app" => o \in Consumers
  /\ ~Busy(Caller(parent[o]))
  /\ closed' = [closed EXCEPT ![o] = "user"]
  /\ reg' = [reg EXCEPT ![parent[o]] = {p \in @ : ~SameKey(o, p)}]
  /\ UNCHANGED <<device, ownerVars, stage, parent, using>>

CloseProducer(o)     == o \in Producers /\ CloseObject(o)
CloseConsumer(o)     == o \in Consumers /\ CloseObject(o)
CloseDataProducer(o) == o \in DataProducers /\ CloseObject(o)
CloseDataConsumer(o) == o \in DataConsumers /\ CloseObject(o)

-----------------------------------------------------------------------------
DeviceNext ==
  \/ DisposeDevice
  \/ \E th \in Threads : NewDevice(th) \/ Load(th) \/ QueryDevice(th) \/ EndUse(th)

OwnerNext(x) ==
  \/ CreateSendTransport(x) \/ CreateRecvTransport(x) \/ NewPeerConnection(x)
  \/ NativeToJavaSendTransport(x) \/ NativeToJavaRecvTransport(x)
  \/ CallTransport(x) \/ CallPeerConnection(x)
  \/ SendOnConnectionStateChange(x) \/ RecvOnConnectionStateChange(x)
  \/ PrivateListenerEvent(x) \/ EventReturns(x)
  \/ Close(x) \/ ClosePeerConnection(x)
  \/ DisposeSendTransport(x) \/ DisposeRecvTransport(x) \/ DisposePeerConnection(x)
  \/ DeleteOwnedSendTransport(x) \/ DeleteOwnedRecvTransport(x)
  \/ DeleteOwnedPeerConnection(x)

CreateNext(o) ==
  \/ \E x \in Transports :
       Produce(o, x) \/ ProduceData(o, x) \/ Consume(o, x) \/ ConsumeData(o, x)
  \/ Throw(o)
  \/ SendOnConnect(o) \/ RecvOnConnect(o)
  \/ OnProduce(o) \/ OnProduceData(o)
  \/ NewProducer(o) \/ NewConsumer(o)
  \/ NativeToJavaProducer(o) \/ NativeToJavaConsumer(o)
  \/ NativeToJavaDataProducer(o) \/ NativeToJavaDataConsumer(o)

ObjectNext(o) ==
  \/ UseParent(o)
  \/ CloseProducer(o) \/ CloseConsumer(o)
  \/ CloseDataProducer(o) \/ CloseDataConsumer(o)

Next ==
  \/ DeviceNext
  \/ \E x \in Owners : OwnerNext(x)
  \/ \E o \in Objects : CreateNext(o) \/ ObjectNext(o)

Spec == Init /\ [][Next]_vars
-----------------------------------------------------------------------------
(* Properties                                                              *)

TypeOK ==
  /\ device  \in {"none", "new", "loaded", "freed"}
  /\ own     \in [Owners -> OwnStates]
  /\ ended   \in [Owners -> BOOLEAN]
  /\ ready   \in [Transports -> BOOLEAN]
  /\ wired   \in [Transports -> BOOLEAN]
  /\ calling \in [Owners -> BOOLEAN]
  /\ field   \in SendTransports \cup {None}
  /\ stage   \in [Objects -> Stages]
  /\ parent  \in [Objects -> Transports \cup {None}]
  /\ \A o \in Objects : parent[o] = None <=> stage[o] = "none"
  /\ closed  \in [Objects -> {"open", "user", "transport"}]
  /\ reg     \in [Transports -> SUBSET Objects]
  /\ using   \in [Threads -> Owners \cup {Device, None}]

\* A signalling thread never runs in a listener that is deleted or does not
\* know its Java object yet: a transport's events start only once Java has it,
\* the tests close one that has events before they free it, and
\* PeerConnection.dispose closes by itself (transport_jni.h:76,
\* peerconnection_jni.h:126, PeerConnection.java:110).
NoFreedListener == \A x \in Owners : calling[x] => own[x] = "live"

\* A native method never works on a freed transport or peer connection: not a
\* getter, and not produce or consume (transport_jni.cpp:253, 352).
NoFreedOwner ==
  /\ \A th \in Threads : using[th] \in Owners => own[using[th]] = "live"
  /\ \A o \in Objects : stage[o] \in Underway => own[parent[o]] = "live"

\* An object that would still call its transport has one (Producer.close,
\* getStats and replaceTrack go through the transport's address).
NoDanglingTransport ==
  \A o \in Objects :
    stage[o] = "done" /\ closed[o] = "open" => own[parent[o]] = "live"

\* Closing a transport closes every producer and consumer made on it, as
\* Producer.java's onTransportClose and MediasoupClientTest.java:639 say.
CloseReachesAll ==
  \A o \in Objects :
    stage[o] = "done" /\ ended[parent[o]] => closed[o] # "open"
=============================================================================
