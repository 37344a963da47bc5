-------------------------- MODULE MediaHandlesProofs --------------------------
(***************************************************************************)
(* Proofs about the order of the clients' calls, for any number of         *)
(* transports, peer connections, producers and consumers.  For the tests   *)
(* and for RoomClient alike no call and no event meets a freed transport,  *)
(* peer connection or listener.  For the tests (distinct ids, close before *)
(* dispose) closing a transport reaches everything on it.                  *)
(***************************************************************************)
EXTENDS MediaHandles, TLAPS

\* What a thread calls exists, and no other thread calls it.
OwnerUsed ==
  \A th \in Threads : using[th] \in Owners =>
    own[using[th]] = "live" /\ Caller(using[th]) = th

\* A signalling thread is only in the listener of an open peer connection.  A
\* listener is deleted only behind a closed one, or behind a transport that
\* never had a description; and a transport has one only once Java has it.
ListenersLive ==
  /\ \A x \in Owners :
       /\ calling[x] => ~ended[x] /\ own[x] = "live" /\ (x \in Transports => wired[x])
       /\ own[x] \in {"unlistened", "freed"} => ended[x] \/ (x \in Transports /\ ~wired[x])
  /\ \A x \in Transports : wired[x] => own[x] \notin {"none", "native"}
  /\ \A p \in PeerConnections : own[p] # "native"

\* A transport comes before its objects and outlives the calls that create
\* them, and an object that has come past the negotiation sits on a connected
\* transport.
ParentLive ==
  \A o \in Objects :
    /\ stage[o] # "none" => own[parent[o]] \notin {"none", "native"}
    /\ stage[o] \in Underway => own[parent[o]] = "live"
    /\ stage[o] \in {"offered", "native", "done"} => wired[parent[o]]

\* The maps of a transport hold only objects made on it.
InMaps ==
  \A x \in Transports : \A o \in reg[x] :
    parent[o] = x /\ stage[o] \in {"native", "done"}

\* On a closed transport nothing is created.
EndedQuiet ==
  \A o \in Objects :
    stage[o] # "none" /\ ended[parent[o]] => stage[o] \in {"begun", "done", "failed"}

\* RoomClient frees no transport.
AppKeepsAll ==
  Client = "app" => \A x \in Owners : own[x] \notin {"unlistened", "freed"}

\* The maps of a transport hold its open objects.
OpenInMaps ==
  \A o \in Objects :
    stage[o] \in {"native", "done"} /\ closed[o] = "open" => o \in reg[parent[o]]

\* On a closed transport nothing is open.
EndedClosed ==
  \A o \in Objects :
    stage[o] = "done" /\ ended[parent[o]] => closed[o] # "open"

TestInv == OpenInMaps /\ EndedClosed

\* What holds for both clients, and what the tests' order of calls adds.
IInv ==
  /\ TypeOK
  /\ OwnerUsed
  /\ ListenersLive
  /\ ParentLive
  /\ InMaps
  /\ EndedQuiet
  /\ AppKeepsAll
  /\ Client = "test" => TestInv

-----------------------------------------------------------------------------
(* What a thread knows when it enters a native method.                     *)

\* The tests make all their calls on one thread.
LEMMA ThreadIsMain ==
  ASSUME Client = "test", NEW x
  PROVE  Caller(x) = "main"
BY DEF Caller

\* Every call is made on one of the two threads.
LEMMA ThreadType == \A x : Caller(x) \in Threads
BY DEF Caller, Threads

\* While a thread is outside native methods, it creates nothing.
LEMMA NotBusy ==
  ASSUME NEW th, ~Busy(th)
  PROVE  /\ using[th] = None
         /\ \A o \in Objects : stage[o] \in Underway => Caller(parent[o]) # th
BY DEF Busy

\* An object has its own key, so putting it in a map, or erasing it, does so.
LEMMA SameKeys ==
  /\ \A o : SameKey(o, o)
  /\ Client = "test" => \A o, p : SameKey(o, p) <=> o = p
BY ClientAssumption DEF SameKey

\* Nothing exists at the start.
LEMMA InitIInv == Init => IInv
<1> SUFFICES ASSUME Init PROVE IInv
  OBVIOUS
<1>1. TypeOK
  BY DEF Init, TypeOK, OwnStates, Stages, Threads
<1>2. OwnerUsed
  BY NamesAssumption DEF Init, OwnerUsed
<1>3. ListenersLive /\ AppKeepsAll
  BY DEF Init, ListenersLive, AppKeepsAll, Owners
<1>4. ParentLive /\ EndedQuiet /\ InMaps
  BY DEF Init, ParentLive, EndedQuiet, InMaps, Underway
<1>5. TestInv
  BY NamesAssumption
     DEF Init, TestInv, OpenInMaps, EndedClosed
<1> QED BY <1>1, <1>2, <1>3, <1>4, <1>5 DEF IInv

USE DEF ownerVars, objectVars

-----------------------------------------------------------------------------
(* One lemma per kind of step.                                             *)

\* Entering a getter of a live object keeps the invariant...
LEMMA UseKeeps ==
  ASSUME NEW th \in Threads, NEW n \in Owners \cup {Device}, Use(th, n),
         n \in Owners => own[n] = "live" /\ Caller(n) = th, IInv
  PROVE  IInv'
<1> USE NamesAssumption DEF IInv, Use
<1>1. TypeOK'
  BY DEF TypeOK, OwnStates, Stages, Threads, Transports, Owners, Objects
<1>2. OwnerUsed'
  BY DEF TypeOK, OwnerUsed
<1>3. ListenersLive' /\ AppKeepsAll'
  BY DEF TypeOK, ListenersLive, AppKeepsAll
<1>4. ParentLive'
  BY DEF TypeOK, ParentLive, Underway
<1>5. InMaps' /\ EndedQuiet'
  BY DEF TypeOK, InMaps, EndedQuiet
<1>6. ASSUME Client = "test" PROVE (OpenInMaps /\ EndedClosed)'
  BY <1>6 DEF TypeOK, TestInv, OpenInMaps, EndedClosed
<1> QED BY <1>1, <1>2, <1>3, <1>4, <1>5, <1>6 DEF TestInv

\* ... and so does leaving it.
LEMMA EndUseKeeps ==
  ASSUME NEW th \in Threads, EndUse(th), IInv
  PROVE  IInv'
<1> USE NamesAssumption DEF IInv, EndUse
<1>1. TypeOK'
  BY DEF TypeOK, OwnStates, Stages, Threads, Transports, Owners, Objects
<1>2. OwnerUsed'
  BY DEF TypeOK, OwnerUsed
<1>3. ListenersLive' /\ AppKeepsAll'
  BY DEF TypeOK, ListenersLive, AppKeepsAll
<1>4. ParentLive'
  BY DEF TypeOK, ParentLive, Underway
<1>5. InMaps' /\ EndedQuiet'
  BY DEF TypeOK, InMaps, EndedQuiet
<1>6. ASSUME Client = "test" PROVE (OpenInMaps /\ EndedClosed)'
  BY <1>6 DEF TypeOK, TestInv, OpenInMaps, EndedClosed
<1> QED BY <1>1, <1>2, <1>3, <1>4, <1>5, <1>6 DEF TestInv

\* Creating, loading and disposing the device.
LEMMA DeviceKeeps ==
  ASSUME NEW th \in Threads, NewDevice(th) \/ Load(th) \/ FreeDevice(th), IInv
  PROVE  IInv'
<1> USE NamesAssumption DEF IInv, NewDevice, Load, FreeDevice, SetDevice
<1>0. device' \in {"new", "loaded", "freed"} /\ UNCHANGED <<ownerVars, objectVars, using>>
  BY DEF NewDevice, Load, FreeDevice, SetDevice
<1>1. TypeOK'
  BY <1>0 DEF TypeOK, OwnStates, Stages, Threads, Transports, Owners, Objects
<1>2. OwnerUsed'
  BY <1>0 DEF TypeOK, OwnerUsed
<1>3. ListenersLive' /\ AppKeepsAll'
  BY <1>0 DEF TypeOK, ListenersLive, AppKeepsAll
<1>4. ParentLive'
  BY <1>0 DEF TypeOK, ParentLive, Underway
<1>5. InMaps' /\ EndedQuiet'
  BY <1>0 DEF TypeOK, InMaps, EndedQuiet
<1>6. ASSUME Client = "test" PROVE (OpenInMaps /\ EndedClosed)'
  BY <1>0, <1>6 DEF TypeOK, TestInv, OpenInMaps, EndedClosed
<1> QED BY <1>1, <1>2, <1>3, <1>4, <1>5, <1>6 DEF TestInv

\* createSendTransport and createRecvTransport of a loaded device.
LEMMA CreateTransportKeeps ==
  ASSUME NEW x \in Transports, CreateTransport(x), IInv
  PROVE  IInv'
<1> USE NamesAssumption DEF IInv, CreateTransport, SetOwn
<1>0. x \in Owners
  BY DEF Owners
<1>1. TypeOK'
  BY <1>0 DEF TypeOK, OwnStates, Stages, Threads, Transports, Owners, Objects
<1>2. OwnerUsed'
  BY <1>0 DEF TypeOK, OwnerUsed
<1>3. ListenersLive' /\ AppKeepsAll'
  BY <1>0 DEF TypeOK, ListenersLive, AppKeepsAll
<1>4. ParentLive'
  BY <1>0 DEF TypeOK, ParentLive, Underway
<1>5. InMaps' /\ EndedQuiet'
  BY <1>0 DEF TypeOK, InMaps, EndedQuiet
<1>6. ASSUME Client = "test" PROVE (OpenInMaps /\ EndedClosed)'
  BY <1>0, <1>6 DEF TypeOK, TestInv, OpenInMaps, EndedClosed
<1> QED BY <1>1, <1>2, <1>3, <1>4, <1>5, <1>6 DEF TestInv

\* The Java transport is built and given to the listener.
LEMMA NativeToJavaTransportKeeps ==
  ASSUME NEW x \in Transports, NativeToJavaTransport(x),
         field' \in SendTransports \cup {None}, IInv
  PROVE  IInv'
<1> USE NamesAssumption DEF IInv, NativeToJavaTransport, SetOwn
<1>0. x \in Owners
  BY DEF Owners
<1>1. TypeOK'
  BY <1>0 DEF TypeOK, OwnStates, Stages, Threads, Transports, Owners, Objects
<1>2. OwnerUsed'
  BY <1>0 DEF TypeOK, OwnerUsed
<1>3. ListenersLive' /\ AppKeepsAll'
  BY <1>0 DEF TypeOK, ListenersLive, AppKeepsAll
<1>4. ParentLive'
  BY <1>0 DEF TypeOK, ParentLive, Underway
<1>5. InMaps' /\ EndedQuiet'
  BY <1>0 DEF TypeOK, InMaps, EndedQuiet
<1>6. ASSUME Client = "test" PROVE (OpenInMaps /\ EndedClosed)'
  BY <1>0, <1>6 DEF TypeOK, TestInv, OpenInMaps, EndedClosed
<1> QED BY <1>1, <1>2, <1>3, <1>4, <1>5, <1>6 DEF TestInv

\* The constructor of PeerConnection.
LEMMA NewPeerConnectionKeeps ==
  ASSUME NEW x \in Owners, NewPeerConnection(x), IInv
  PROVE  IInv'
<1> USE NamesAssumption DEF IInv, NewPeerConnection, SetOwn
<1>1. TypeOK'
  BY DEF TypeOK, OwnStates, Stages, Threads, Transports, Owners, Objects
<1>2. OwnerUsed'
  BY DEF TypeOK, OwnerUsed
<1>3. ListenersLive' /\ AppKeepsAll'
  BY DEF TypeOK, ListenersLive, AppKeepsAll
<1>4. ParentLive'
  BY DEF TypeOK, ParentLive, Underway
<1>5. InMaps' /\ EndedQuiet'
  BY DEF TypeOK, InMaps, EndedQuiet
<1>6. ASSUME Client = "test" PROVE (OpenInMaps /\ EndedClosed)'
  BY <1>6 DEF TypeOK, TestInv, OpenInMaps, EndedClosed
<1> QED BY <1>1, <1>2, <1>3, <1>4, <1>5, <1>6 DEF TestInv

\* An event enters or leaves the listener of an open peer connection.
LEMMA EventKeeps ==
  ASSUME NEW x \in Owners, Event(x) \/ EventReturns(x), IInv
  PROVE  IInv'
<1> USE NamesAssumption DEF IInv, Event, EventReturns
<1>1. TypeOK'
  BY DEF TypeOK, OwnStates, Stages, Threads, Transports, Owners, Objects
<1>2. OwnerUsed'
  BY DEF TypeOK, OwnerUsed
<1>3. ListenersLive' /\ AppKeepsAll'
  <2>1. Event(x) => own[x] = "live"
    BY DEF TypeOK, OwnStates, ListenersLive, Owners
  <2>2. ListenersLive'
    BY <2>1 DEF TypeOK, ListenersLive
  <2> QED BY <2>2 DEF AppKeepsAll
<1>4. ParentLive'
  BY DEF TypeOK, ParentLive, Underway
<1>5. InMaps' /\ EndedQuiet'
  BY DEF TypeOK, InMaps, EndedQuiet
<1>6. ASSUME Client = "test" PROVE (OpenInMaps /\ EndedClosed)'
  BY <1>6 DEF TypeOK, TestInv, OpenInMaps, EndedClosed
<1> QED BY <1>1, <1>2, <1>3, <1>4, <1>5, <1>6 DEF TestInv

\* No object is under way, so closing what the transport's maps hold closes all.
LEMMA CloseKeeps ==
  ASSUME NEW x \in Owners, Close(x), IInv
  PROVE  IInv'
<1> USE NamesAssumption DEF IInv, Close, CloseTransport
<1>0. \A o \in Objects : stage[o] \in Underway => parent[o] # x
  BY NotBusy DEF Close
<1>1. TypeOK'
  BY <1>0 DEF TypeOK, OwnStates, Stages, Threads, Transports, Owners, Objects
<1>2. OwnerUsed'
  BY <1>0 DEF TypeOK, OwnerUsed
<1>3. ListenersLive' /\ AppKeepsAll'
  BY <1>0 DEF TypeOK, ListenersLive, AppKeepsAll
<1>4. ParentLive'
  BY <1>0 DEF TypeOK, ParentLive, Underway
<1>5. InMaps' /\ EndedQuiet'
  BY <1>0 DEF TypeOK, InMaps, EndedQuiet, Underway, Stages, Transports
<1>6. ASSUME Client = "test" PROVE (OpenInMaps /\ EndedClosed)'
  BY <1>0, <1>6 DEF TypeOK, TestInv, OpenInMaps, EndedClosed
<1> QED BY <1>1, <1>2, <1>3, <1>4, <1>5, <1>6 DEF TestInv

\* PeerConnection.close.
LEMMA ClosePeerConnectionKeeps ==
  ASSUME NEW x \in Owners, ClosePeerConnection(x), IInv
  PROVE  IInv'
<1> USE NamesAssumption DEF IInv, ClosePeerConnection
<1>1. TypeOK'
  BY DEF TypeOK, OwnStates, Stages, Threads, Transports, Owners, Objects
<1>2. OwnerUsed'
  BY DEF TypeOK, OwnerUsed
<1>3. ListenersLive' /\ AppKeepsAll'
  BY DEF TypeOK, ListenersLive, AppKeepsAll
<1>4. ParentLive'
  BY DEF TypeOK, ParentLive, Underway
<1>5. InMaps' /\ EndedQuiet'
  BY DEF TypeOK, InMaps, EndedQuiet
<1>6. ASSUME Client = "test" PROVE (OpenInMaps /\ EndedClosed)'
  BY <1>6 DEF TypeOK, TestInv, OpenInMaps, EndedClosed
<1> QED BY <1>1, <1>2, <1>3, <1>4, <1>5, <1>6 DEF TestInv

\* A listener goes only when its peer connection sends no events and no call
\* on it is under way.
LEMMA DeleteListenerKeeps ==
  ASSUME NEW x \in Owners, DeleteListener(x), Client = "test",
         ended[x] \/ (x \in Transports /\ ~wired[x]), IInv
  PROVE  IInv'
<1> USE NamesAssumption DEF IInv, DeleteListener, SetOwn
<1>0. /\ using["main"] = None
      /\ \A o \in Objects : stage[o] \notin Underway
  BY NotBusy, ThreadIsMain DEF DeleteListener
<1>1. TypeOK'
  BY <1>0 DEF TypeOK, OwnStates, Stages, Threads, Transports, Owners, Objects
<1>2. OwnerUsed'
  BY <1>0, ThreadIsMain DEF TypeOK, OwnerUsed
<1>3. ListenersLive' /\ AppKeepsAll'
  BY <1>0 DEF TypeOK, ListenersLive, AppKeepsAll
<1>4. ParentLive'
  BY <1>0 DEF TypeOK, ParentLive, Underway
<1>5. InMaps' /\ EndedQuiet'
  BY <1>0 DEF TypeOK, InMaps, EndedQuiet
<1>6. ASSUME Client = "test" PROVE (OpenInMaps /\ EndedClosed)'
  BY <1>0, <1>6 DEF TypeOK, TestInv, OpenInMaps, EndedClosed
<1> QED BY <1>1, <1>2, <1>3, <1>4, <1>5, <1>6 DEF TestInv

\* The native object is deleted after its listener.
LEMMA DeleteOwnedKeeps ==
  ASSUME NEW x \in Owners, DeleteOwned(x), IInv
  PROVE  IInv'
<1> USE NamesAssumption DEF IInv, DeleteOwned, SetOwn
<1>1. TypeOK'
  BY DEF TypeOK, OwnStates, Stages, Threads, Transports, Owners, Objects
<1>2. OwnerUsed'
  BY DEF TypeOK, OwnerUsed
<1>3. ListenersLive' /\ AppKeepsAll'
  BY DEF TypeOK, ListenersLive, AppKeepsAll
<1>4. ParentLive'
  BY DEF TypeOK, ParentLive, Underway
<1>5. InMaps' /\ EndedQuiet'
  BY DEF TypeOK, InMaps, EndedQuiet
<1>6. ASSUME Client = "test" PROVE (OpenInMaps /\ EndedClosed)'
  BY <1>6 DEF TypeOK, TestInv, OpenInMaps, EndedClosed
<1> QED BY <1>1, <1>2, <1>3, <1>4, <1>5, <1>6 DEF TestInv

\* produce, consume and their data forms are entered on a live transport.
LEMMA BeginKeeps ==
  ASSUME NEW o \in Objects, NEW x \in Transports, Begin(o, x), IInv
  PROVE  IInv'
<1> USE NamesAssumption DEF IInv, Begin
<1>1. TypeOK'
  BY DEF TypeOK, OwnStates, Stages, Threads, Transports, Owners, Objects
<1>2. OwnerUsed'
  BY DEF TypeOK, OwnerUsed
<1>3. ListenersLive' /\ AppKeepsAll'
  BY DEF TypeOK, ListenersLive, AppKeepsAll
<1>4. ParentLive'
  BY DEF TypeOK, ParentLive, Underway
<1>5. InMaps' /\ EndedQuiet'
  BY DEF TypeOK, InMaps, EndedQuiet
<1>6. ASSUME Client = "test" PROVE (OpenInMaps /\ EndedClosed)'
  BY <1>6 DEF TypeOK, TestInv, OpenInMaps, EndedClosed
<1> QED BY <1>1, <1>2, <1>3, <1>4, <1>5, <1>6 DEF TestInv

\* An exception ends the creation; a description may have been set.
LEMMA ThrowKeeps ==
  ASSUME NEW o \in Objects, Throw(o), IInv
  PROVE  IInv'
<1> USE NamesAssumption DEF IInv, Throw
<1>0. parent[o] \in Transports /\ parent[o] \in Owners
  BY DEF TypeOK, Transports, Owners
<1>1. TypeOK'
  BY <1>0 DEF TypeOK, OwnStates, Stages, Threads, Transports, Owners, Objects
<1>2. OwnerUsed'
  BY <1>0 DEF TypeOK, OwnerUsed
<1>3. ListenersLive' /\ AppKeepsAll'
  BY <1>0 DEF TypeOK, ListenersLive, AppKeepsAll, ParentLive, Underway, Owners
<1>4. ParentLive'
  <2>1. \A x \in Transports : wired[x] => wired'[x]
    BY <1>0 DEF TypeOK
  <2>2. \A z \in Objects : stage'[z] # "failed" => stage'[z] = stage[z]
    BY DEF TypeOK
  <2>3. \A z \in Objects : stage[z] # "none" => parent[z] \in Transports
    BY DEF TypeOK
  <2>4. stage[o] # "none" /\ \A z \in Objects : stage'[z] = "failed" => stage[z] # "none"
    BY DEF TypeOK
  <2> QED BY <2>1, <2>2, <2>3, <2>4 DEF ParentLive, Underway
<1>5. InMaps' /\ EndedQuiet'
  BY <1>0 DEF TypeOK, InMaps, EndedQuiet
<1>6. ASSUME Client = "test" PROVE (OpenInMaps /\ EndedClosed)'
  BY <1>0, <1>6 DEF TypeOK, TestInv, OpenInMaps, EndedClosed
<1> QED BY <1>1, <1>2, <1>3, <1>4, <1>5, <1>6 DEF TestInv

\* The listener's onConnect is called.
LEMMA ConnectKeeps ==
  ASSUME NEW o \in Objects, Connect(o), IInv
  PROVE  IInv'
<1> USE NamesAssumption DEF IInv, Connect, SetStage
<1>1. TypeOK'
  BY DEF TypeOK, OwnStates, Stages, Threads, Transports, Owners, Objects
<1>2. OwnerUsed'
  BY DEF TypeOK, OwnerUsed
<1>3. ListenersLive' /\ AppKeepsAll'
  BY DEF TypeOK, ListenersLive, AppKeepsAll
<1>4. ParentLive'
  BY DEF TypeOK, ParentLive, Underway
<1>5. InMaps' /\ EndedQuiet'
  BY DEF TypeOK, InMaps, EndedQuiet
<1>6. ASSUME Client = "test" PROVE (OpenInMaps /\ EndedClosed)'
  BY <1>6 DEF TypeOK, TestInv, OpenInMaps, EndedClosed
<1> QED BY <1>1, <1>2, <1>3, <1>4, <1>5, <1>6 DEF TestInv

\* The listener's onProduce or onProduceData is called.
LEMMA OfferKeeps ==
  ASSUME NEW o \in Objects, Offer(o), IInv
  PROVE  IInv'
<1> USE NamesAssumption DEF IInv, Offer, Negotiated
<1>0. parent[o] \in Transports /\ parent[o] \in Owners
  BY DEF TypeOK, Transports, Owners
<1>1. TypeOK'
  BY <1>0 DEF TypeOK, OwnStates, Stages, Threads, Transports, Owners, Objects
<1>2. OwnerUsed'
  BY <1>0 DEF TypeOK, OwnerUsed
<1>3. ListenersLive' /\ AppKeepsAll'
  BY <1>0 DEF TypeOK, ListenersLive, AppKeepsAll, ParentLive, Underway, Owners
<1>4. ParentLive'
  BY <1>0 DEF TypeOK, ParentLive, Underway
<1>5. InMaps' /\ EndedQuiet'
  BY <1>0 DEF TypeOK, InMaps, EndedQuiet
<1>6. ASSUME Client = "test" PROVE (OpenInMaps /\ EndedClosed)'
  BY <1>0, <1>6 DEF TypeOK, TestInv, OpenInMaps, EndedClosed
<1> QED BY <1>1, <1>2, <1>3, <1>4, <1>5, <1>6 DEF TestInv

\* The producer is put in the transport's map.
LEMMA NewProducerKeeps ==
  ASSUME NEW o \in Objects, NewProducer(o), IInv
  PROVE  IInv'
<1> USE NamesAssumption, SameKeys DEF IInv, NewProducer, Insert
<1>0. parent[o] \in Transports /\ parent[o] \in Owners
  BY DEF TypeOK, Transports, Owners
<1>00. /\ \A x \in Transports : reg'[x] \subseteq reg[x] \cup {o}
       /\ \A x \in Transports \ {parent[o]} : reg'[x] = reg[x]
       /\ o \in reg'[parent[o]]
       /\ Client = "test" => \A x \in Transports : reg[x] \subseteq reg'[x]
  BY <1>0 DEF TypeOK
<1>1. TypeOK'
  BY <1>0, <1>00 DEF TypeOK, OwnStates, Stages, Threads, Transports, Owners, Objects
<1>2. OwnerUsed'
  BY <1>0, <1>00 DEF TypeOK, OwnerUsed
<1>3. ListenersLive' /\ AppKeepsAll'
  BY <1>0, <1>00 DEF TypeOK, ListenersLive, AppKeepsAll
<1>4. ParentLive'
  BY <1>0, <1>00 DEF TypeOK, ParentLive, Underway
<1>5. InMaps' /\ EndedQuiet'
  BY <1>0, <1>00 DEF TypeOK, InMaps, EndedQuiet
<1>6. ASSUME Client = "test" PROVE (OpenInMaps /\ EndedClosed)'
  BY <1>0, <1>00, <1>6 DEF TypeOK, TestInv, OpenInMaps, EndedClosed
<1> QED BY <1>1, <1>2, <1>3, <1>4, <1>5, <1>6 DEF TestInv

\* The consumer is put in the transport's map.
LEMMA NewConsumerKeeps ==
  ASSUME NEW o \in Objects, NewConsumer(o), IInv
  PROVE  IInv'
<1> USE NamesAssumption, SameKeys DEF IInv, NewConsumer, Negotiated, Insert
<1>0. parent[o] \in Transports /\ parent[o] \in Owners
  BY DEF TypeOK, Transports, Owners
<1>00. /\ \A x \in Transports : reg'[x] \subseteq reg[x] \cup {o}
       /\ \A x \in Transports \ {parent[o]} : reg'[x] = reg[x]
       /\ o \in reg'[parent[o]]
       /\ Client = "test" => \A x \in Transports : reg[x] \subseteq reg'[x]
  BY <1>0 DEF TypeOK
<1>1. TypeOK'
  BY <1>0, <1>00 DEF TypeOK, OwnStates, Stages, Threads, Transports, Owners, Objects
<1>2. OwnerUsed'
  BY <1>0, <1>00 DEF TypeOK, OwnerUsed
<1>3. ListenersLive' /\ AppKeepsAll'
  BY <1>0, <1>00 DEF TypeOK, ListenersLive, AppKeepsAll, ParentLive, Underway, Owners
<1>4. ParentLive'
  BY <1>0, <1>00 DEF TypeOK, ParentLive, Underway
<1>5. InMaps' /\ EndedQuiet'
  BY <1>0, <1>00 DEF TypeOK, InMaps, EndedQuiet
<1>6. ASSUME Client = "test" PROVE (OpenInMaps /\ EndedClosed)'
  BY <1>0, <1>00, <1>6 DEF TypeOK, TestInv, OpenInMaps, EndedClosed
<1> QED BY <1>1, <1>2, <1>3, <1>4, <1>5, <1>6 DEF TestInv

\* The Java producer or consumer is built and given to the listener.
LEMMA NativeToJavaKeeps ==
  ASSUME NEW o \in Objects, NativeToJava(o), IInv
  PROVE  IInv'
<1> USE NamesAssumption DEF IInv, NativeToJava, SetStage
<1>1. TypeOK'
  BY DEF TypeOK, OwnStates, Stages, Threads, Transports, Owners, Objects
<1>2. OwnerUsed'
  BY DEF TypeOK, OwnerUsed
<1>3. ListenersLive' /\ AppKeepsAll'
  BY DEF TypeOK, ListenersLive, AppKeepsAll
<1>4. ParentLive'
  BY DEF TypeOK, ParentLive, Underway
<1>5. InMaps' /\ EndedQuiet'
  BY DEF TypeOK, InMaps, EndedQuiet
<1>6. ASSUME Client = "test" PROVE (OpenInMaps /\ EndedClosed)'
  BY <1>6 DEF TypeOK, TestInv, OpenInMaps, EndedClosed, InMaps, EndedQuiet,
     Underway, Transports
<1> QED BY <1>1, <1>2, <1>3, <1>4, <1>5, <1>6 DEF TestInv

\* A producer or consumer is closed by the client and leaves the map.
LEMMA CloseObjectKeeps ==
  ASSUME NEW o \in Objects, CloseObject(o), IInv
  PROVE  IInv'
<1> USE NamesAssumption, SameKeys DEF IInv, CloseObject
<1>0. parent[o] \in Transports /\ parent[o] \in Owners
  BY DEF TypeOK, Transports, Owners
<1>00. /\ \A x \in Transports : reg'[x] \subseteq reg[x]
       /\ Client = "test" => \A x \in Transports : reg[x] \ {o} \subseteq reg'[x]
  BY <1>0 DEF TypeOK
<1>1. TypeOK'
  BY <1>0, <1>00 DEF TypeOK, OwnStates, Stages, Threads, Transports, Owners, Objects
<1>2. OwnerUsed'
  BY <1>0, <1>00 DEF TypeOK, OwnerUsed
<1>3. ListenersLive' /\ AppKeepsAll'
  BY <1>0, <1>00 DEF TypeOK, ListenersLive, AppKeepsAll
<1>4. ParentLive'
  BY <1>0, <1>00 DEF TypeOK, ParentLive, Underway
<1>5. InMaps' /\ EndedQuiet'
  BY <1>0, <1>00 DEF TypeOK, InMaps, EndedQuiet
<1>6. ASSUME Client = "test" PROVE (OpenInMaps /\ EndedClosed)'
  BY <1>0, <1>00, <1>6 DEF TypeOK, TestInv, OpenInMaps, EndedClosed
<1> QED BY <1>1, <1>2, <1>3, <1>4, <1>5, <1>6 DEF TestInv

-----------------------------------------------------------------------------
\* All calls on the device keep the invariant.
LEMMA DeviceNextKeeps ==
  ASSUME IInv, DeviceNext
  PROVE  IInv'
<1>1. ASSUME NEW th \in Threads, QueryDevice(th) PROVE IInv'
  BY <1>1, UseKeeps, NamesAssumption DEF QueryDevice
<1>2. "main" \in Threads BY DEF Threads
<1> QED BY <1>1, <1>2, DeviceKeeps, EndUseKeeps DEF DeviceNext, DisposeDevice

\* All calls and events of transports and peer connections keep it.
LEMMA OwnerNextKeeps ==
  ASSUME IInv, NEW x \in Owners, OwnerNext(x)
  PROVE  IInv'
<1>1. CASE UseOwner(x)
  BY <1>1, UseKeeps, ThreadType, NamesAssumption DEF UseOwner, Use
<1>2. CASE CreateSendTransport(x) \/ CreateRecvTransport(x)
  BY <1>2, CreateTransportKeeps DEF CreateSendTransport, CreateRecvTransport, Transports
<1>3. CASE NativeToJavaSendTransport(x) \/ NativeToJavaRecvTransport(x)
  BY <1>3, NativeToJavaTransportKeeps
     DEF NativeToJavaSendTransport, NativeToJavaRecvTransport, Transports, IInv, TypeOK
<1>5. CASE Event(x) \/ EventReturns(x)
  BY <1>5, EventKeeps
<1>6. CASE DisposeSendTransport(x) \/ DisposeRecvTransport(x) \/ DisposePeerConnection(x)
  BY <1>6, DeleteListenerKeeps, ClientAssumption
     DEF DisposeSendTransport, DisposeRecvTransport, DisposePeerConnection, Disposes,
         FreeSendTransport, FreeRecvTransport, FreeOwnedPeerConnection
<1>7. CASE DeleteOwned(x)
  BY <1>7, DeleteOwnedKeeps
<1> QED BY <1>1, <1>2, <1>3, <1>5, <1>6, <1>7, NewPeerConnectionKeeps, CloseKeeps,
           ClosePeerConnectionKeeps
    DEF OwnerNext, CallTransport, CallPeerConnection,
        SendOnConnectionStateChange, RecvOnConnectionStateChange, PrivateListenerEvent,
        DeleteOwnedSendTransport, DeleteOwnedRecvTransport, DeleteOwnedPeerConnection

\* All steps that create a producer or consumer keep it.
LEMMA CreateNextKeeps ==
  ASSUME IInv, NEW o \in Objects, CreateNext(o)
  PROVE  IInv'
<1> QED BY BeginKeeps, ThrowKeeps, ConnectKeeps, OfferKeeps, NewProducerKeeps,
           NewConsumerKeeps, NativeToJavaKeeps
    DEF CreateNext, Produce, ProduceData, Consume, ConsumeData, SendOnConnect,
        RecvOnConnect, OnProduce, OnProduceData, NativeToJavaProducer,
        NativeToJavaConsumer, NativeToJavaDataProducer, NativeToJavaDataConsumer

\* An open object has its transport: RoomClient frees none, and the tests free
\* only transports that are closed, with everything on them, or were never
\* connected.
LEMMA OpenHasTransport ==
  ASSUME IInv, NEW o \in Objects, stage[o] = "done", closed[o] = "open"
  PROVE  parent[o] \in Owners /\ own[parent[o]] = "live"
<1>1. parent[o] \in Owners
  BY NamesAssumption DEF IInv, TypeOK, Owners
<1>2. CASE Client = "test"
  <2>1. wired[parent[o]] /\ ~ended[parent[o]]
    BY <1>2 DEF IInv, ParentLive, TestInv, EndedClosed
  <2> QED BY <1>1, <2>1, NamesAssumption
      DEF IInv, TypeOK, ParentLive, ListenersLive, OwnStates, Owners
<1>3. CASE Client = "app"
  BY <1>1, <1>3 DEF IInv, TypeOK, ParentLive, AppKeepsAll, OwnStates
<1> QED BY <1>1, <1>2, <1>3, ClientAssumption

\* All calls on producers and consumers keep it.
LEMMA ObjectNextKeeps ==
  ASSUME IInv, NEW o \in Objects, ObjectNext(o)
  PROVE  IInv'
<1>1. CASE UseParent(o)
  <2>1. parent[o] \in Owners /\ own[parent[o]] = "live"
    BY <1>1, OpenHasTransport DEF UseParent
  <2> QED BY <1>1, <2>1, UseKeeps, ThreadType, NamesAssumption DEF UseParent
<1> QED BY <1>1, CloseObjectKeeps
    DEF ObjectNext, CloseProducer, CloseConsumer, CloseDataProducer, CloseDataConsumer

\* The invariant is inductive.
LEMMA StepKeeps == IInv /\ [Next]_vars => IInv'
<1> SUFFICES ASSUME IInv, [Next]_vars PROVE IInv'
  OBVIOUS
<1>1. CASE UNCHANGED vars
  BY <1>1 DEF vars, IInv, TypeOK, OwnerUsed, ListenersLive, ParentLive, InMaps,
    EndedQuiet, AppKeepsAll, TestInv, OpenInMaps, EndedClosed
<1>2. CASE Next
  BY <1>2, DeviceNextKeeps, OwnerNextKeeps, CreateNextKeeps, ObjectNextKeeps DEF Next
<1> QED BY <1>1, <1>2

\* The invariant holds in every behaviour.
LEMMA SpecIInv == Spec => []IInv
BY StepKeeps, InitIInv, PTL DEF Spec

-----------------------------------------------------------------------------
(* What holds for the tests and for RoomClient.                            *)

\* Types; an object has a transport exactly once its creation has begun.
THEOREM TypeCorrect == Spec => []TypeOK
<1>1. IInv => TypeOK BY DEF IInv
<1> QED BY <1>1, SpecIInv, PTL

\* No signalling thread runs in a deleted listener (transport_jni.h:76,
\* peerconnection_jni.h:126).
THEOREM ListenersOutliveEvents == Spec => []NoFreedListener
<1>1. IInv => NoFreedListener BY DEF IInv, ListenersLive, NoFreedListener
<1> QED BY <1>1, SpecIInv, PTL

\* No native method works on a freed transport or peer connection
\* (transport_jni.cpp:253, 312, 352, 415).
THEOREM OwnersOutliveCalls == Spec => []NoFreedOwner
<1>1. IInv => NoFreedOwner BY DEF IInv, OwnerUsed, ParentLive, NoFreedOwner
<1> QED BY <1>1, SpecIInv, PTL

\* An object that still calls its transport has one.
THEOREM TransportsOutliveObjects == Spec => []NoDanglingTransport
<1>1. IInv => NoDanglingTransport BY OpenHasTransport DEF NoDanglingTransport
<1> QED BY <1>1, SpecIInv, PTL

-----------------------------------------------------------------------------
(* What needs the ids of the tests: RoomClient gives all producers one id. *)

\* Closing a transport closes every producer and consumer made on it
\* (MediasoupClientTest.java:639).
THEOREM CloseReachesEverything == Client = "test" => (Spec => []CloseReachesAll)
<1> SUFFICES ASSUME Client = "test" PROVE Spec => []CloseReachesAll
  OBVIOUS
<1>1. IInv => CloseReachesAll
  BY DEF IInv, TestInv, EndedClosed, CloseReachesAll
<1> QED BY <1>1, SpecIInv, PTL
=============================================================================
