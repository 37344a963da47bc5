--------------------------- MODULE RoomClientProofs ---------------------------
(***************************************************************************)
(* Proofs that the call set-up of RoomClient is well typed, consumes every *)
(* producer at most once, lets only recovered keys see frames, keeps the   *)
(* active encryptor on the last key and moves every cryptor that sees      *)
(* frames only forward: for any number of producers, recoveries and        *)
(* connections, and for both memory models.  When writes are seen at once, *)
(* the device is on its way as soon as room and key are there.             *)
(***************************************************************************)
EXTENDS RoomClient, TLAPS

--------------------------------------------------------------------------------
(* Requests, cryptors and the looper.                                      *)

\* The requests the client emits to the signalling server are requests.
LEMMA RequestTypes ==
  /\ {Join, Send, Produce, List} \subseteq Requests
  /\ \A p \in Producers : Recv(p) \in Requests /\ Consume(p) \in Requests
BY DEF Requests, Join, Send, Produce, List, Recv, Consume

\* Two requests of different kinds, or about different producers, differ.
LEMMA RequestsDiffer ==
  /\ Send \notin {Join, Produce, List}
  /\ \A p, q \in Producers :
       /\ Recv(p) # Consume(q)
       /\ Recv(p) = Recv(q) => p = q
       /\ Consume(p) = Consume(q) => p = q
       /\ Recv(p) \notin {Join, Send, Produce, List}
       /\ Consume(p) \notin {Join, Send, Produce, List}
BY DEF Recv, Consume, Join, Send, Produce, List

\* new HCCrypto() and setSM4KeyWithVersion give well-typed cryptors.
LEMMA CryptorTypes ==
  /\ NewCryptor \in Cryptor
  /\ \A c \in Cryptor, v \in Versions : Rekeyed(c, v) \in Cryptor
  /\ MemoryType => AddedEncryptor \in Cryptor
<1>1. NewCryptor \in Cryptor
  BY BoundsAssumption DEF NewCryptor, Cryptor, Versions
<1>2. ASSUME NEW c \in Cryptor, NEW v \in Versions
      PROVE  Rekeyed(c, v) \in Cryptor
  BY DEF Cryptor, Rekeyed
<1>3. ASSUME MemoryType PROVE AddedEncryptor \in Cryptor
  BY <1>1, <1>3 DEF AddedEncryptor, MemoryType, Cryptor
<1> QED  BY <1>1, <1>2, <1>3

\* Posting a runnable to the main thread and running the first one keep the
\* looper a sequence of runnables.
LEMMA LooperTypes ==
  ASSUME NEW q \in Seq(Runnables)
  PROVE  /\ \A x \in Runnables : Append(q, x) \in Seq(Runnables)
         /\ q # <<>> => Tail(q) \in Seq(Runnables)
OBVIOUS

\* addTrack puts its encryptor behind those that were created before.
LEMMA Appended ==
  ASSUME NEW q \in Seq(Cryptor), NEW c \in Cryptor
  PROVE  /\ Len(Append(q, c)) = Len(q) + 1
         /\ \A n \in 1 .. Len(q) : Append(q, c)[n] = q[n]
         /\ Append(q, c)[Len(q) + 1] = c
OBVIOUS

--------------------------------------------------------------------------------
(* Types.                                                                  *)

\* A new RoomClient is well typed.
LEMMA TypeInit == Init => TypeOK
<1> SUFFICES ASSUME Init PROVE TypeOK
  OBVIOUS
<1>1. CallType
  <2>1. openEncryption \in BOOLEAN
    BY ModesAssumption DEF Init
  <2>2. closed \in BOOLEAN /\ crashed \in BOOLEAN
    BY DEF Init
  <2> QED  BY <2>1, <2>2, BoundsAssumption DEF Init, CallType
<1>2. MemoryType
  <2>1. missed \in BOOLEAN
    BY DEF Init
  <2> QED  BY <2>1, BoundsAssumption DEF Init, MemoryType, Versions
<1>3. ThreadType
  <2>1. looper \in Seq(Runnables)
    BY DEF Init
  <2> QED  BY <2>1, BoundsAssumption
           DEF Init, ThreadType, MainIdle, SockIdle, ProducerOrNone, Versions
<1>4. acks \in [Requests -> Nat]
  BY DEF Init, NoAcks
<1>5. MediaType
  <2>1. encryptors \in Seq(Cryptor)
    BY DEF Init
  <2> QED  BY <2>1, CryptorTypes DEF Init, MediaType, ProducerOrNone
<1> QED  BY <1>1, <1>2, <1>3, <1>4, <1>5 DEF TypeOK

\* Every handler of RoomClient keeps its fields well typed.
LEMMA TypeStep ==
  ASSUME TypeOK, [Next]_vars
  PROVE  TypeOK'
<1>0. /\ CallType /\ MemoryType /\ ThreadType /\ MediaType
      /\ acks \in [Requests -> Nat]
  BY DEF TypeOK
<1>1. ASSUME connectionSuccess PROVE TypeOK'
  <2>1. CallType'
    BY <1>0, <1>1, BoundsAssumption DEF connectionSuccess, CallType, life
  <2>2. (acks \in [Requests -> Nat])'
    BY <1>0, <1>1, RequestTypes DEF connectionSuccess
  <2>3. (MemoryType /\ ThreadType /\ MediaType)'
    BY <1>0, <1>1
       DEF connectionSuccess, MemoryType, ThreadType, MediaType, cryptors,
           memory, received, threads
  <2> QED  BY <2>1, <2>2, <2>3 DEF TypeOK
<1>2. ASSUME connectionLost PROVE TypeOK'
  <2>1. CallType'
    BY <1>0, <1>2 DEF connectionLost, CallType, life
  <2>2. (acks \in [Requests -> Nat])'
    BY <1>0, <1>2 DEF connectionLost, NoAcks
  <2>3. (MemoryType /\ ThreadType /\ MediaType)'
    BY <1>0, <1>2
       DEF connectionLost, MemoryType, ThreadType, MediaType, cryptors, memory,
           received, threads
  <2> QED  BY <2>1, <2>2, <2>3 DEF TypeOK
<1>3. ASSUME close PROVE TypeOK'
  <2>1. CallType'
    BY <1>0, <1>3 DEF close, CallType
  <2>2. /\ MemoryType'
        /\ ThreadType'
        /\ (acks \in [Requests -> Nat])'
        /\ MediaType'
    BY <1>0, <1>3
       DEF close, MemoryType, ThreadType, MediaType, cryptors, memory,
           received, threads
  <2> QED  BY <2>1, <2>2 DEF TypeOK
<1>4. ASSUME joinRoomAck PROVE TypeOK'
  <2>1. MemoryType'
    BY <1>0, <1>4 DEF joinRoomAck, Written, MemoryType
  <2>2. ThreadType'
    BY <1>0, <1>4 DEF joinRoomAck, ThreadType
  <2>3. (acks \in [Requests -> Nat])'
    BY <1>0, <1>4, RequestTypes DEF joinRoomAck, Handled, Answered
  <2>4. (CallType /\ MediaType)'
    BY <1>0, <1>4
       DEF joinRoomAck, CallType, MediaType, connVars, cryptors, life, received
  <2> QED  BY <2>1, <2>2, <2>3, <2>4 DEF TypeOK
<1>5. ASSUME joinRoomRefused PROVE TypeOK'
  <2>1. (acks \in [Requests -> Nat])'
    BY <1>0, <1>5, RequestTypes DEF joinRoomRefused, Handled, Answered
  <2>2. (CallType /\ MemoryType /\ ThreadType /\ MediaType)'
    BY <1>0, <1>5
       DEF joinRoomRefused, CallType, MemoryType, ThreadType, MediaType,
           connVars, cryptors, life, memory, received, threads
  <2> QED  BY <2>1, <2>2 DEF TypeOK
<1>6. ASSUME joinRoomCheck PROVE TypeOK'
  <2>1. MemoryType'
    BY <1>0, <1>6 DEF joinRoomCheck, MemoryType
  <2>2. ThreadType'
    <3>1. looper' \in Seq(Runnables)
      BY <1>0, <1>6, LooperTypes DEF joinRoomCheck, ThreadType, Runnables
    <3> QED
      BY <1>0, <1>6, <3>1, BoundsAssumption
         DEF joinRoomCheck, ThreadType, SockIdle, Versions, ProducerOrNone
  <2>3. (CallType /\ (acks \in [Requests -> Nat]) /\ MediaType)'
    BY <1>0, <1>6
       DEF joinRoomCheck, CallType, MediaType, connVars, cryptors, life,
           received
  <2> QED  BY <2>1, <2>2, <2>3 DEF TypeOK
<1>7. ASSUME NEW v \in Versions, onKeyRecovered(v) PROVE TypeOK'
  <2>1. MemoryType'
    BY <1>0, <1>7 DEF onKeyRecovered, MemoryType
  <2>2. ThreadType'
    BY <1>0, <1>7 DEF onKeyRecovered, ThreadType
  <2>3. (CallType /\ (acks \in [Requests -> Nat]) /\ MediaType)'
    BY <1>0, <1>7
       DEF onKeyRecovered, CallType, MediaType, connVars, cryptors, life,
           received
  <2> QED  BY <2>1, <2>2, <2>3 DEF TypeOK
<1>8. ASSUME storeVersion PROVE TypeOK'
  <2>1. MemoryType'
    BY <1>0, <1>8 DEF storeVersion, Written, MemoryType, ThreadType
  <2>2. ThreadType'
    BY <1>0, <1>8 DEF storeVersion, ThreadType
  <2>3. (CallType /\ (acks \in [Requests -> Nat]) /\ MediaType)'
    BY <1>0, <1>8
       DEF storeVersion, CallType, MediaType, connVars, cryptors, life,
           received
  <2> QED  BY <2>1, <2>2, <2>3 DEF TypeOK
<1>9. ASSUME updateEncryptor PROVE TypeOK'
  <2>1. ThreadType'
    <3>1. looper' \in Seq(Runnables)
      BY <1>0, <1>9, LooperTypes DEF updateEncryptor, ThreadType, Runnables
    <3> QED
      BY <1>0, <1>9, <3>1 DEF updateEncryptor, ThreadType
  <2>2. MediaType'
    <3>1. main.version \in Versions /\ encryptors \in Seq(Cryptor)
      BY <1>0 DEF ThreadType, MediaType
    <3>2. encryptors' \in Seq(Cryptor)
      BY <1>9, <3>1, CryptorTypes DEF updateEncryptor
    <3> QED  BY <1>0, <1>9, <3>2 DEF updateEncryptor, MediaType, received
  <2>3. (CallType /\ MemoryType /\ (acks \in [Requests -> Nat]))'
    BY <1>0, <1>9
       DEF updateEncryptor, CallType, MemoryType, connVars, life, memory
  <2> QED  BY <2>1, <2>2, <2>3 DEF TypeOK
<1>10. ASSUME updateDecryptor PROVE TypeOK'
  <2>1. MemoryType'
    BY <1>0, <1>10 DEF updateDecryptor, MemoryType
  <2>2. ThreadType'
    BY <1>0, <1>10, BoundsAssumption
       DEF updateDecryptor, MainIdle, ThreadType, Versions
  <2>3. MediaType'
    BY <1>0, <1>10, CryptorTypes
       DEF updateDecryptor, MediaType, ThreadType, received
  <2>4. (CallType /\ (acks \in [Requests -> Nat]))'
    BY <1>0, <1>10 DEF updateDecryptor, CallType, connVars, life
  <2> QED  BY <2>1, <2>2, <2>3, <2>4 DEF TypeOK
<1>11. ASSUME createDevice PROVE TypeOK'
  <2>1. CallType'
    BY <1>0, <1>11 DEF createDevice, CallType, connVars, life
  <2>2. ThreadType'
    <3>1. looper' \in Seq(Runnables)
      BY <1>0, <1>11, LooperTypes
         DEF createDevice, ThreadType, Runnables, Running
    <3> QED
      BY <1>0, <1>11, <3>1 DEF createDevice, ThreadType
  <2>3. (MemoryType /\ (acks \in [Requests -> Nat]) /\ MediaType)'
    BY <1>0, <1>11
       DEF createDevice, MemoryType, MediaType, cryptors, memory, received
  <2> QED  BY <2>1, <2>2, <2>3 DEF TypeOK
<1>12. ASSUME loadDevice PROVE TypeOK'
  <2>1. CallType'
    BY <1>0, <1>12 DEF loadDevice, CallType, connVars, life
  <2>2. ThreadType'
    BY <1>0, <1>12, BoundsAssumption
       DEF loadDevice, MainIdle, ThreadType, Versions
  <2>3. (acks \in [Requests -> Nat])'
    BY <1>0, <1>12 DEF loadDevice, Emitted
  <2>4. (MemoryType /\ MediaType)'
    BY <1>0, <1>12
       DEF loadDevice, MemoryType, MediaType, cryptors, memory, received
  <2> QED  BY <2>1, <2>2, <2>3, <2>4 DEF TypeOK
<1>13. ASSUME createSendTransportAck PROVE TypeOK'
  <2>1. ThreadType'
    <3>1. looper' \in Seq(Runnables)
      BY <1>0, <1>13, LooperTypes
         DEF createSendTransportAck, ThreadType, Runnables
    <3> QED
      BY <1>0, <1>13, <3>1 DEF createSendTransportAck, ThreadType
  <2>2. (acks \in [Requests -> Nat])'
    BY <1>0, <1>13, RequestTypes DEF createSendTransportAck, Answered, Handled
  <2>3. (CallType /\ MemoryType /\ MediaType)'
    BY <1>0, <1>13
       DEF createSendTransportAck, CallType, MemoryType, MediaType, connVars,
           cryptors, life, memory, received
  <2> QED  BY <2>1, <2>2, <2>3 DEF TypeOK
<1>14. ASSUME NEW video \in BOOLEAN, NEW audio \in BOOLEAN,
              startLocalMedia(video, audio)
       PROVE  TypeOK'
  <2>1. CallType'
    BY <1>0, <1>14 DEF startLocalMedia, CallType, connVars
  <2>2. ThreadType'
    BY <1>0, <1>14 DEF startLocalMedia, Running, ThreadType
  <2>3. (acks \in [Requests -> Nat])'
    BY <1>0, <1>14, RequestTypes DEF startLocalMedia, Emitted
  <2>4. MediaType'
    BY <1>0, <1>14, CryptorTypes DEF startLocalMedia, MediaType, received
  <2>5. MemoryType'
    BY <1>0, <1>14 DEF startLocalMedia, MemoryType, memory
  <2> QED  BY <2>1, <2>2, <2>3, <2>4, <2>5 DEF TypeOK
<1>15. ASSUME NEW p \in Producers, newProducer(p) PROVE TypeOK'
  <2>1. (acks \in [Requests -> Nat])'
    BY <1>0, <1>15 DEF newProducer, signalNewConsumerTransport
  <2>2. MediaType'
    BY <1>0, <1>15
       DEF newProducer, signalNewConsumerTransport, MediaType, cryptors
  <2>3. (CallType /\ MemoryType /\ ThreadType)'
    BY <1>0, <1>15
       DEF newProducer, CallType, MemoryType, ThreadType, connVars, life,
           memory, threads
  <2> QED  BY <2>1, <2>2, <2>3 DEF TypeOK
<1>16. ASSUME produceAck PROVE TypeOK'
  <2>1. (acks \in [Requests -> Nat])'
    BY <1>0, <1>16 DEF produceAck, Emitted, Answered, Handled
  <2>2. (CallType /\ MemoryType /\ ThreadType /\ MediaType)'
    BY <1>0, <1>16
       DEF produceAck, CallType, MemoryType, ThreadType, MediaType, connVars,
           cryptors, life, memory, received, threads
  <2> QED  BY <2>1, <2>2 DEF TypeOK
<1>17. ASSUME NEW ids \in SUBSET Producers, getProducersAck(ids) PROVE TypeOK'
  <2>1. (acks \in [Requests -> Nat])'
    BY <1>0, <1>17, RequestTypes
       DEF getProducersAck, signalNewConsumerTransport, Handled, Answered
  <2>2. MediaType'
    BY <1>0, <1>17
       DEF getProducersAck, signalNewConsumerTransport, MediaType, cryptors
  <2>3. (CallType /\ MemoryType /\ ThreadType)'
    BY <1>0, <1>17
       DEF getProducersAck, CallType, MemoryType, ThreadType, connVars, life,
           memory, threads
  <2> QED  BY <2>1, <2>2, <2>3 DEF TypeOK
<1>18. ASSUME NEW p \in Producers, createRecvTransportAck(p) PROVE TypeOK'
  <2>1. CallType'
    BY <1>0, <1>18 DEF createRecvTransportAck, CallType, connVars
  <2>2. ThreadType'
    BY <1>0, <1>18
       DEF createRecvTransportAck, Answered, SockReady, ThreadType,
           ProducerOrNone
  <2>3. (acks \in [Requests -> Nat])'
    BY <1>0, <1>18, RequestTypes DEF createRecvTransportAck, Answered, Handled
  <2>4. (MemoryType /\ MediaType)'
    BY <1>0, <1>18
       DEF createRecvTransportAck, MemoryType, MediaType, cryptors, memory,
           received
  <2> QED  BY <2>1, <2>2, <2>3, <2>4 DEF TypeOK
<1>19. ASSUME connectRecvTransport PROVE TypeOK'
  <2>1. CallType'
    BY <1>0, <1>19 DEF connectRecvTransport, CallType, connVars
  <2>2. ThreadType'
    BY <1>0, <1>19, BoundsAssumption
       DEF connectRecvTransport, SockIdle, ThreadType, Versions, ProducerOrNone
  <2>3. (acks \in [Requests -> Nat])'
    BY <1>0, <1>19, RequestTypes DEF connectRecvTransport, ThreadType
  <2>4. (MemoryType /\ MediaType)'
    BY <1>0, <1>19
       DEF connectRecvTransport, MemoryType, MediaType, cryptors, memory,
           received
  <2> QED  BY <2>1, <2>2, <2>3, <2>4 DEF TypeOK
<1>20. ASSUME NEW r \in Requests, Refused(r) PROVE TypeOK'
  <2>1. (acks \in [Requests -> Nat])'
    BY <1>0, <1>20 DEF Refused, Answered, Handled
  <2>2. (CallType /\ MemoryType /\ ThreadType /\ MediaType)'
    BY <1>0, <1>20
       DEF Refused, CallType, MemoryType, ThreadType, MediaType, connVars,
           cryptors, life, memory, received, threads
  <2> QED  BY <2>1, <2>2 DEF TypeOK
<1>21. ASSUME NEW p \in Producers, consumeAck(p) PROVE TypeOK'
  <2>1. ThreadType'
    BY <1>0, <1>21 DEF consumeAck, ThreadType, ProducerOrNone
  <2>2. (acks \in [Requests -> Nat])'
    BY <1>0, <1>21, RequestTypes DEF consumeAck, Answered, Handled
  <2>3. MediaType'
    BY <1>0, <1>21, CryptorTypes DEF consumeAck, MediaType, ProducerOrNone
  <2>4. (CallType /\ MemoryType)'
    BY <1>0, <1>21 DEF consumeAck, CallType, MemoryType, connVars, life, memory
  <2> QED  BY <2>1, <2>2, <2>3, <2>4 DEF TypeOK
<1>22. ASSUME readKey PROVE TypeOK'
  <2>1. ThreadType'
    BY <1>0, <1>22 DEF readKey, ThreadType, MemoryType
  <2>2. (CallType /\ MemoryType /\ (acks \in [Requests -> Nat]) /\ MediaType)'
    BY <1>0, <1>22
       DEF readKey, CallType, MemoryType, MediaType, connVars, cryptors, life,
           memory, received
  <2> QED  BY <2>1, <2>2 DEF TypeOK
<1>23. ASSUME readVersion PROVE TypeOK'
  <2>1. ThreadType'
    BY <1>0, <1>23 DEF readVersion, ThreadType, MemoryType
  <2>2. (CallType /\ MemoryType /\ (acks \in [Requests -> Nat]) /\ MediaType)'
    BY <1>0, <1>23
       DEF readVersion, CallType, MemoryType, MediaType, connVars, cryptors,
           life, memory, received
  <2> QED  BY <2>1, <2>2 DEF TypeOK
<1>24. ASSUME setFrameDecryptor PROVE TypeOK'
  <2>1. ThreadType'
    BY <1>0, <1>24, BoundsAssumption
       DEF setFrameDecryptor, SockIdle, ThreadType, Versions, ProducerOrNone
  <2>2. MediaType'
    BY <1>0, <1>24
       DEF setFrameDecryptor, Cryptor, MediaType, ThreadType, received
  <2>3. (CallType /\ MemoryType /\ (acks \in [Requests -> Nat]))'
    BY <1>0, <1>24
       DEF setFrameDecryptor, CallType, MemoryType, connVars, life, memory
  <2> QED  BY <2>1, <2>2, <2>3 DEF TypeOK
<1>25. ASSUME NEW flag \in {"caps", "recovered"}, Flush(flag) PROVE TypeOK'
  <2>1. MemoryType'
    BY <1>0, <1>25 DEF Flush, MemoryType
  <2>2. (CallType /\ ThreadType /\ (acks \in [Requests -> Nat]) /\ MediaType)'
    BY <1>0, <1>25
       DEF Flush, CallType, ThreadType, MediaType, connVars, cryptors, life,
           received, threads
  <2> QED  BY <2>1, <2>2 DEF TypeOK
<1>26. ASSUME UNCHANGED vars PROVE TypeOK'
  BY <1>26, <1>0 DEF vars, TypeOK, CallType, MemoryType, ThreadType, MediaType
<1> QED  BY <1>1, <1>2, <1>3, <1>4, <1>5, <1>6, <1>7, <1>8, <1>9, <1>10, <1>11,
         <1>12, <1>13, <1>14, <1>15, <1>16, <1>17, <1>18, <1>19, <1>20, <1>21,
         <1>22, <1>23, <1>24, <1>25, <1>26, RequestTypes
         DEF Next, Answers, MainThread, SocketThread

\* Whatever the server, the network, the user and the key network do, the
\* fields of RoomClient stay well typed.
THEOREM TypeCorrect == Spec => []TypeOK
<1>1. TypeOK /\ [Next]_vars => TypeOK'
  BY TypeStep
<1> QED  BY TypeInit, <1>1, PTL DEF Spec

--------------------------------------------------------------------------------
(* Consumers.                                                              *)

\* Only signalNewConsumerTransport adds to what a producer leads to, and only
\* for a producer that is not in consumingTransports.
LEMMA ConsumerStep ==
  ASSUME TypeOK, TypeOK', ConsumerInv, [Next]_vars
  PROVE  ConsumerInv'
<1> DEFINE NoMore == /\ consuming \subseteq consuming'
                     /\ \A p \in Producers : Consumption(p)' <= Consumption(p)
<1>0. /\ acks \in [Requests -> Nat] /\ acks' \in [Requests -> Nat]
      /\ consumers \in [Producers -> Nat] /\ consumers' \in [Producers -> Nat]
  BY DEF TypeOK, MediaType
<1>00. ASSUME NoMore PROVE ConsumerInv'
  <2>1. \A p \in Producers : Consumption(p) \in Nat /\ Consumption(p)' \in Nat
    BY <1>0, RequestTypes DEF Consumption
  <2> QED  BY <1>00, <2>1 DEF ConsumerInv
<1>1. ASSUME connectionSuccess PROVE NoMore
  BY <1>0, <1>1, RequestTypes, RequestsDiffer
     DEF connectionSuccess, Consumption, received, received, threads
<1>2. ASSUME connectionLost PROVE NoMore
  <2>1. \A r \in Requests : acks'[r] <= acks[r]
    BY <1>0, <1>2 DEF connectionLost, NoAcks
  <2> QED
    BY <1>0, <1>2, <2>1, RequestTypes
       DEF connectionLost, Consumption, received, threads
<1>3. ASSUME close PROVE NoMore
  BY <1>0, <1>3, RequestTypes
     DEF close, Consumption, received, received, threads
<1>4. ASSUME joinRoomAck PROVE NoMore
  BY <1>0, <1>4, RequestTypes
     DEF joinRoomAck, Handled, Answered, SockReady, SockIdle, Consumption,
         received, received
<1>5. ASSUME joinRoomRefused PROVE NoMore
  BY <1>0, <1>5, RequestTypes, RequestsDiffer
     DEF joinRoomRefused, Handled, Consumption, received, received, threads
<1>6. ASSUME joinRoomCheck PROVE NoMore
  BY <1>0, <1>6, RequestTypes
     DEF joinRoomCheck, SockIdle, Consumption, received, received
<1>7. ASSUME NEW v \in Versions, onKeyRecovered(v) PROVE NoMore
  BY <1>0, <1>7, RequestTypes
     DEF onKeyRecovered, Consumption, received, received
<1>8. ASSUME storeVersion PROVE NoMore
  BY <1>0, <1>8, RequestTypes DEF storeVersion, Consumption, received, received
<1>9. ASSUME updateEncryptor PROVE NoMore
  BY <1>0, <1>9, RequestTypes
     DEF updateEncryptor, Consumption, received, received
<1>10. ASSUME updateDecryptor PROVE NoMore
  BY <1>0, <1>10, RequestTypes
     DEF updateDecryptor, Consumption, received, received
<1>11. ASSUME createDevice PROVE NoMore
  BY <1>0, <1>11, RequestTypes
     DEF createDevice, Consumption, received, received
<1>12. ASSUME loadDevice PROVE NoMore
  BY <1>0, <1>12, RequestTypes, RequestsDiffer
     DEF loadDevice, Emitted, Consumption, received, received
<1>13. ASSUME createSendTransportAck PROVE NoMore
  BY <1>0, <1>13, RequestTypes, RequestsDiffer
     DEF createSendTransportAck, Handled, Consumption, received, received
<1>14. ASSUME NEW video \in BOOLEAN, NEW audio \in BOOLEAN,
              startLocalMedia(video, audio)
       PROVE  NoMore
  BY <1>0, <1>14, RequestTypes, RequestsDiffer
     DEF startLocalMedia, Emitted, Consumption, received, received
<1>15. ASSUME NEW p \in Producers, newProducer(p) PROVE ConsumerInv'
  <2>1. ASSUME NEW q \in Producers
        PROVE  Consumption(q)' = Consumption(q)
                 \/ /\ q \in {p} \ consuming
                    /\ Consumption(q)' = Consumption(q) + 1
    BY <1>0, <1>15, RequestTypes, RequestsDiffer
       DEF newProducer, signalNewConsumerTransport, Consumption, threads
  <2>2. \A q \in Producers : Consumption(q) \in Nat
    BY <1>0, RequestTypes DEF Consumption
  <2>3. consuming' = consuming \cup {p}
    BY <1>15 DEF newProducer, signalNewConsumerTransport
  <2> QED  BY <2>1, <2>2, <2>3 DEF ConsumerInv
<1>16. ASSUME produceAck PROVE NoMore
  <2>1. \A p \in Producers : /\ acks'[Recv(p)] = acks[Recv(p)]
                              /\ acks'[Consume(p)] = acks[Consume(p)]
    BY <1>0, <1>16, RequestTypes, RequestsDiffer
       DEF produceAck, Handled, Emitted
  <2> QED
    BY <1>0, <1>16, <2>1, RequestTypes
       DEF produceAck, Consumption, received, threads
<1>17. ASSUME NEW ids \in SUBSET Producers, getProducersAck(ids)
       PROVE  ConsumerInv'
  <2>1. ASSUME NEW q \in Producers
        PROVE  Consumption(q)' = Consumption(q)
                 \/ /\ q \in ids \ consuming
                    /\ Consumption(q)' = Consumption(q) + 1
    BY <1>0, <1>17, RequestTypes, RequestsDiffer
       DEF getProducersAck, signalNewConsumerTransport, Handled, Consumption,
           threads
  <2>2. \A q \in Producers : Consumption(q) \in Nat
    BY <1>0, RequestTypes DEF Consumption
  <2>3. consuming' = consuming \cup ids
    BY <1>17 DEF getProducersAck, signalNewConsumerTransport
  <2> QED  BY <2>1, <2>2, <2>3 DEF ConsumerInv
<1>18. ASSUME NEW p \in Producers, createRecvTransportAck(p) PROVE NoMore
  <2>1. /\ acks'[Recv(p)] = acks[Recv(p)] - 1
        /\ \A q \in Producers : /\ q # p => acks'[Recv(q)] = acks[Recv(q)]
                              /\ acks'[Consume(q)] = acks[Consume(q)]
    BY <1>0, <1>18, RequestsDiffer DEF createRecvTransportAck, Handled
  <2>2. sock.pc # "connect" /\ (sock'.pc = "connect" => sock'.producer = p)
    BY <1>18 DEF createRecvTransportAck, Answered, SockReady, SockIdle
  <2> QED
    BY <1>0, <1>18, <2>1, <2>2, RequestTypes
       DEF createRecvTransportAck, Consumption, received
<1>19. ASSUME connectRecvTransport PROVE NoMore
  BY <1>0, <1>19, RequestTypes, RequestsDiffer
     DEF connectRecvTransport, SockIdle, Consumption, TypeOK, ThreadType,
         received, received
<1>20. ASSUME NEW r \in Requests, Refused(r) PROVE NoMore
  <2>1. \A x \in Requests : acks'[x] <= acks[x]
    BY <1>0, <1>20 DEF Refused, Handled
  <2> QED
    BY <1>0, <1>20, <2>1, RequestTypes
       DEF Refused, Consumption, received, threads
<1>21. ASSUME NEW p \in Producers, consumeAck(p) PROVE NoMore
  <2>1. /\ acks'[Consume(p)] = acks[Consume(p)] - 1
        /\ \A q \in Producers : /\ q # p => acks'[Consume(q)] = acks[Consume(q)]
                              /\ acks'[Recv(q)] = acks[Recv(q)]
    BY <1>0, <1>21, RequestsDiffer DEF consumeAck, Handled
  <2>2. sock.pc # "connect" /\ sock'.pc # "connect"
    BY <1>21 DEF consumeAck, Answered, SockReady, SockIdle, TypeOK, ThreadType
  <2> QED
    BY <1>0, <1>21, <2>1, <2>2, RequestTypes DEF consumeAck, Consumption
<1>22. ASSUME readKey PROVE NoMore
  BY <1>0, <1>22, RequestTypes DEF readKey, Consumption, received, received
<1>23. ASSUME readVersion PROVE NoMore
  BY <1>0, <1>23, RequestTypes DEF readVersion, Consumption, received, received
<1>24. ASSUME setFrameDecryptor PROVE NoMore
  BY <1>0, <1>24, RequestTypes
     DEF setFrameDecryptor, SockIdle, Consumption, received, received
<1>25. ASSUME NEW flag \in {"caps", "recovered"}, Flush(flag) PROVE NoMore
  BY <1>0, <1>25, RequestTypes
     DEF Flush, Consumption, received, received, threads
<1>26. ASSUME UNCHANGED vars PROVE NoMore
  BY <1>0, <1>26, RequestTypes DEF vars, Consumption
<1> QED  BY <1>00, <1>1, <1>2, <1>3, <1>4, <1>5, <1>6, <1>7, <1>8, <1>9, <1>10,
         <1>11, <1>12, <1>13, <1>14, <1>15, <1>16, <1>17, <1>18, <1>19, <1>20,
         <1>21, <1>22, <1>23, <1>24, <1>25, <1>26, RequestTypes
         DEF Next, Answers, MainThread, SocketThread

\* From the assumptions on the constants alone, the invariant on consumers holds.
LEMMA ConsumerInvAlways == Spec => []ConsumerInv
<1>1. Init => ConsumerInv
  <2> SUFFICES ASSUME Init, NEW p \in Producers
               PROVE  Consumption(p) <= 1 /\ Consumption(p) = 0
    BY DEF ConsumerInv
  <2>1. acks[Recv(p)] = 0 /\ acks[Consume(p)] = 0
    BY RequestTypes DEF Init, NoAcks
  <2>2. consumers[p] = 0 /\ sock.pc = "idle"
    BY DEF Init, SockIdle
  <2> QED  BY <2>1, <2>2 DEF Consumption
<1>2. TypeOK /\ TypeOK' /\ ConsumerInv /\ [Next]_vars => ConsumerInv'
  BY ConsumerStep
<1> QED  BY <1>1, <1>2, TypeCorrect, PTL DEF Spec

\* A remote producer is consumed at most once, however often and over however
\* many connections it is announced (signalNewConsumerTransport).
THEOREM ConsumedOnce == Spec => []SingleConsumer
<1>1. ConsumerInv => SingleConsumer
  BY DEF ConsumerInv, SingleConsumer
<1> QED  BY <1>1, ConsumerInvAlways, PTL

--------------------------------------------------------------------------------
(* Keys.                                                                   *)

\* A new RoomClient has no cryptors, and nothing has passed the gate.
LEMMA KeyInit == Init => KeyInv
<1> SUFFICES ASSUME Init PROVE KeyInv
  OBVIOUS
<1>1. FieldInv /\ SockInv
  BY DEF Init, FieldInv, SockInv, MainIdle, SockIdle
<1>2. GateInv
  BY RequestTypes DEF Init, GateInv, NoAcks, MainIdle, SockIdle
<1>3. AttachInv /\ ActiveInv
  BY DEF Init, AttachInv, ActiveInv
<1>4. KeysAreRecovered
  BY DEF Init, KeysAreRecovered, NewCryptor
<1> QED  BY <1>1, <1>2, <1>3, <1>4 DEF KeyInv

\* onKeyRecovered changes the active encryptor, and nothing else of any.
LEMMA Rekeying ==
  ASSUME TypeOK, updateEncryptor
  PROVE  /\ Len(encryptors') = Len(encryptors)
         /\ \A n \in 1 .. Len(encryptors) :
              /\ encryptors'[n].attached = encryptors[n].attached
              /\ \/ encryptors'[n] = encryptors[n]
                 \/ /\ encryptors'[n].key = main.version
                    /\ encryptors'[n].version = main.version
         /\ encryptors # <<>> =>
              /\ encryptors'[Len(encryptors)].key = main.version
              /\ encryptors'[Len(encryptors)].version = main.version
<1>1. encryptors \in Seq(Cryptor)
  BY DEF TypeOK, MediaType
<1>2. CASE encryptors = <<>>
  BY <1>2 DEF updateEncryptor
<1>3. CASE encryptors # <<>>
  <2>1. encryptors' = [encryptors EXCEPT
                         ![Len(encryptors)] = Rekeyed(@, main.version)]
    BY <1>3 DEF updateEncryptor
  <2>2. /\ Len(encryptors') = Len(encryptors)
        /\ \A n \in 1 .. Len(encryptors) :
             encryptors'[n] = IF n = Len(encryptors)
                                THEN Rekeyed(encryptors[n], main.version)
                                ELSE encryptors[n]
    BY <1>1, <2>1
  <2>3. Len(encryptors) \in 1 .. Len(encryptors)
    BY <1>1, <1>3
  <2>4. \A n \in 1 .. Len(encryptors) : encryptors[n] \in Cryptor
    BY <1>1
  <2> QED  BY <2>2, <2>3, <2>4 DEF Rekeyed, Cryptor
<1> QED  BY <1>2, <1>3

\* Every handler of RoomClient keeps the invariant on keys.
LEMMA KeyStep ==
  ASSUME TypeOK, TypeOK', KeyInv, [Next]_vars
  PROVE  KeyInv'
<1>0. /\ FieldInv /\ GateInv /\ SockInv /\ AttachInv /\ ActiveInv
      /\ KeysAreRecovered
      /\ CallType /\ MemoryType /\ ThreadType /\ MediaType
      /\ acks \in [Requests -> Nat]
  BY DEF KeyInv, TypeOK
<1>1. ASSUME connectionSuccess PROVE KeyInv'
  <2>1. GateInv'
    <3>1. /\ acks'[Send] = acks[Send]
          /\ \A p \in Producers : acks'[Consume(p)] = acks[Consume(p)]
      BY <1>0, <1>1, RequestsDiffer DEF connectionSuccess
    <3> QED
      BY <1>0, <1>1, <3>1
         DEF connectionSuccess, GateInv, Keyed, memory, threads
  <2>2. (FieldInv /\ SockInv /\ AttachInv /\ ActiveInv /\ KeysAreRecovered)'
    BY <1>0, <1>1
       DEF connectionSuccess, FieldInv, SockInv, AttachInv, ActiveInv,
           KeysAreRecovered, Keyed, cryptors, memory, threads
  <2> QED  BY <2>1, <2>2 DEF KeyInv
<1>2. ASSUME connectionLost PROVE KeyInv'
  <2>1. GateInv'
    BY <1>0, <1>2, RequestTypes
       DEF connectionLost, NoAcks, GateInv, Keyed, memory, threads
  <2>2. (FieldInv /\ SockInv /\ AttachInv /\ ActiveInv /\ KeysAreRecovered)'
    BY <1>0, <1>2
       DEF connectionLost, FieldInv, SockInv, AttachInv, ActiveInv,
           KeysAreRecovered, Keyed, cryptors, memory, threads
  <2> QED  BY <2>1, <2>2 DEF KeyInv
<1>3. ASSUME close PROVE KeyInv'
  <2>1. GateInv'
    BY <1>0, <1>3 DEF close, GateInv, Keyed, memory, threads
  <2>2. (FieldInv /\ SockInv /\ AttachInv /\ ActiveInv /\ KeysAreRecovered)'
    BY <1>0, <1>3
       DEF close, FieldInv, SockInv, AttachInv, ActiveInv, KeysAreRecovered,
           Keyed, cryptors, memory, threads
  <2> QED  BY <2>1, <2>2 DEF KeyInv
<1>4. ASSUME joinRoomAck PROVE KeyInv'
  <2>1. FieldInv'
    BY <1>0, <1>4 DEF joinRoomAck, FieldInv, Keyed
  <2>2. GateInv'
    BY <1>0, <1>4 DEF joinRoomAck, Handled, GateInv, Keyed
  <2>3. SockInv'
    BY <1>0, <1>4 DEF joinRoomAck, SockInv
  <2>4. ActiveInv'
    BY <1>0, <1>4 DEF joinRoomAck, ActiveInv, cryptors
  <2>5. (AttachInv /\ KeysAreRecovered)'
    BY <1>0, <1>4 DEF joinRoomAck, AttachInv, KeysAreRecovered, cryptors
  <2> QED  BY <2>1, <2>2, <2>3, <2>4, <2>5 DEF KeyInv
<1>5. ASSUME joinRoomRefused PROVE KeyInv'
  <2>1. GateInv'
    BY <1>0, <1>5 DEF joinRoomRefused, Handled, GateInv, Keyed, memory, threads
  <2>2. (FieldInv /\ SockInv /\ AttachInv /\ ActiveInv /\ KeysAreRecovered)'
    BY <1>0, <1>5
       DEF joinRoomRefused, FieldInv, SockInv, AttachInv, ActiveInv,
           KeysAreRecovered, Keyed, cryptors, memory, threads
  <2> QED  BY <2>1, <2>2 DEF KeyInv
<1>6. ASSUME joinRoomCheck PROVE KeyInv'
  <2>1. GateInv'
    BY <1>0, <1>6 DEF joinRoomCheck, SockIdle, Seen, GateInv, FieldInv, Keyed
  <2>2. SockInv'
    BY <1>0, <1>6 DEF joinRoomCheck, SockIdle, SockInv
  <2>3. (FieldInv /\ AttachInv /\ ActiveInv /\ KeysAreRecovered)'
    BY <1>0, <1>6
       DEF joinRoomCheck, FieldInv, AttachInv, ActiveInv, KeysAreRecovered,
           Keyed, cryptors, memory, threads
  <2> QED  BY <2>1, <2>2, <2>3 DEF KeyInv
<1>7. ASSUME NEW v \in Versions, onKeyRecovered(v) PROVE KeyInv'
  <2>1. FieldInv'
    BY <1>0, <1>7 DEF onKeyRecovered, FieldInv, Keyed, MemoryType, Versions
  <2>2. GateInv'
    BY <1>0, <1>7 DEF onKeyRecovered, GateInv, Keyed, MemoryType, Versions
  <2>3. SockInv'
    BY <1>0, <1>7 DEF onKeyRecovered, SockInv, Keyed, MemoryType, Versions
  <2>4. ActiveInv'
    BY <1>0, <1>7 DEF onKeyRecovered, ActiveInv
  <2>5. (AttachInv /\ KeysAreRecovered)'
    BY <1>0, <1>7 DEF onKeyRecovered, AttachInv, KeysAreRecovered, cryptors
  <2> QED  BY <2>1, <2>2, <2>3, <2>4, <2>5 DEF KeyInv
<1>8. ASSUME storeVersion PROVE KeyInv'
  <2>1. FieldInv'
    BY <1>0, <1>8 DEF storeVersion, FieldInv, Keyed
  <2>2. GateInv'
    BY <1>0, <1>8 DEF storeVersion, GateInv, FieldInv, Keyed
  <2>3. SockInv'
    BY <1>0, <1>8 DEF storeVersion, SockInv, FieldInv, Keyed
  <2>4. ActiveInv'
    BY <1>0, <1>8 DEF storeVersion, ActiveInv
  <2>5. (AttachInv /\ KeysAreRecovered)'
    BY <1>0, <1>8 DEF storeVersion, AttachInv, KeysAreRecovered, cryptors
  <2> QED  BY <2>1, <2>2, <2>3, <2>4, <2>5 DEF KeyInv
<1>9. ASSUME updateEncryptor PROVE KeyInv'
  <2>1. FieldInv'
    BY <1>0, <1>9 DEF updateEncryptor, FieldInv, Keyed, memory
  <2>2. GateInv'
    BY <1>0, <1>9 DEF updateEncryptor, GateInv, FieldInv, Keyed, memory
  <2>3. AttachInv'
    BY <1>0, <1>9, Rekeying DEF AttachInv, updateEncryptor
  <2>4. ActiveInv'
    BY <1>0, <1>9, Rekeying DEF ActiveInv, FieldInv, updateEncryptor, memory
  <2>5. KeysAreRecovered'
    BY <1>0, <1>9, Rekeying DEF KeysAreRecovered, FieldInv, updateEncryptor
  <2>6. SockInv'
    BY <1>0, <1>9 DEF updateEncryptor, SockInv, Keyed, memory, threads
  <2> QED  BY <2>1, <2>2, <2>3, <2>4, <2>5, <2>6 DEF KeyInv
<1>10. ASSUME updateDecryptor PROVE KeyInv'
  <2>1. FieldInv'
    BY <1>0, <1>10 DEF updateDecryptor, MainIdle, FieldInv, Keyed
  <2>2. GateInv'
    BY <1>0, <1>10 DEF updateDecryptor, MainIdle, GateInv, Keyed
  <2>3. ActiveInv'
    BY <1>0, <1>10 DEF updateDecryptor, ActiveInv
  <2>4. KeysAreRecovered'
    <3>1. \A q \in Producers :
            \/ decryptors'[q] = decryptors[q]
            \/ /\ decryptors'[q].key = main.version
               /\ decryptors'[q].version = main.version
      BY <1>0, <1>10 DEF updateDecryptor, Rekeyed, MediaType, Cryptor
    <3>2. main.version > 0
      BY <1>0, <1>10 DEF updateDecryptor, FieldInv
    <3> QED  BY <1>0, <1>10, <3>1, <3>2 DEF updateDecryptor, KeysAreRecovered
  <2>5. (SockInv /\ AttachInv)'
    BY <1>0, <1>10
       DEF updateDecryptor, SockInv, AttachInv, Keyed, cryptors, memory,
           threads
  <2> QED  BY <2>1, <2>2, <2>3, <2>4, <2>5 DEF KeyInv
<1>11. ASSUME createDevice PROVE KeyInv'
  <2>1. FieldInv'
    BY <1>0, <1>11
       DEF createDevice, Running, MainReady, MainIdle, FieldInv, Keyed, memory
  <2>2. GateInv'
    BY <1>0, <1>11 DEF createDevice, Running, GateInv, Keyed, memory
  <2>3. ActiveInv'
    BY <1>0, <1>11
       DEF createDevice, Running, MainReady, MainIdle, ActiveInv, cryptors,
           memory
  <2>4. (SockInv /\ AttachInv /\ KeysAreRecovered)'
    BY <1>0, <1>11
       DEF createDevice, SockInv, AttachInv, KeysAreRecovered, Keyed, cryptors,
           memory, threads
  <2> QED  BY <2>1, <2>2, <2>3, <2>4 DEF KeyInv
<1>12. ASSUME loadDevice PROVE KeyInv'
  <2>1. FieldInv'
    BY <1>0, <1>12 DEF loadDevice, MainIdle, FieldInv, Keyed, memory
  <2>2. GateInv'
    BY <1>0, <1>12 DEF loadDevice, GateInv, Keyed, memory
  <2>3. ActiveInv'
    BY <1>0, <1>12 DEF loadDevice, ActiveInv, cryptors, memory
  <2>4. (SockInv /\ AttachInv /\ KeysAreRecovered)'
    BY <1>0, <1>12
       DEF loadDevice, SockInv, AttachInv, KeysAreRecovered, Keyed, cryptors,
           memory, threads
  <2> QED  BY <2>1, <2>2, <2>3, <2>4 DEF KeyInv
<1>13. ASSUME createSendTransportAck PROVE KeyInv'
  <2>1. GateInv'
    BY <1>0, <1>13 DEF createSendTransportAck, Handled, GateInv, Keyed, memory
  <2>2. (FieldInv /\ SockInv /\ AttachInv /\ ActiveInv /\ KeysAreRecovered)'
    BY <1>0, <1>13
       DEF createSendTransportAck, FieldInv, SockInv, AttachInv, ActiveInv,
           KeysAreRecovered, Keyed, cryptors, memory, threads
  <2> QED  BY <2>1, <2>2 DEF KeyInv
<1>14. ASSUME NEW video \in BOOLEAN, NEW audio \in BOOLEAN,
              startLocalMedia(video, audio)
       PROVE  KeyInv'
  <2>1. GateInv'
    BY <1>0, <1>14 DEF startLocalMedia, Running, GateInv, Keyed, memory
  <2>2. AttachInv'
    <3>1. CASE encryptors' = encryptors
      BY <1>0, <3>1, <1>14 DEF AttachInv, startLocalMedia
    <3>2. CASE encryptors' = Append(encryptors, AddedEncryptor)
      <4>1. AddedEncryptor.attached = openEncryption
        BY <1>0 DEF AddedEncryptor, NewCryptor, CallType
      <4> QED  BY <1>0, <3>2, <4>1, <1>14, CryptorTypes, Appended
               DEF AttachInv, startLocalMedia, MediaType
    <3> QED  BY <1>14, <3>1, <3>2 DEF startLocalMedia
  <2>3. ActiveInv'
    <3>1. CASE encryptors' = encryptors
      BY <1>0, <3>1, <1>14 DEF ActiveInv, startLocalMedia, memory
    <3>2. CASE encryptors' = Append(encryptors, AddedEncryptor)
      <4>1. openEncryption =>
              /\ AddedEncryptor.key = field.sm4Key
              /\ AddedEncryptor.version = field.version
        BY DEF AddedEncryptor
      <4> QED  BY <1>0, <3>2, <4>1, <1>14, CryptorTypes, Appended
               DEF ActiveInv, startLocalMedia, MediaType, memory
    <3> QED  BY <1>14, <3>1, <3>2 DEF startLocalMedia
  <2>4. KeysAreRecovered'
    <3>1. CASE encryptors' = encryptors
      BY <1>0, <3>1, <1>14 DEF KeysAreRecovered, startLocalMedia
    <3>2. CASE encryptors' = Append(encryptors, AddedEncryptor)
      <4>1. openEncryption => Keyed /\ field.sm4Key = field.version
        BY <1>0, <1>14 DEF startLocalMedia, Running, MainReady, MainIdle,
                           GateInv, FieldInv
      <4>2. AddedEncryptor.attached =>
              /\ AddedEncryptor.version > 0
              /\ AddedEncryptor.key = AddedEncryptor.version
        BY <4>1 DEF AddedEncryptor, NewCryptor, Keyed
      <4> QED  BY <1>0, <3>2, <4>2, <1>14, CryptorTypes, Appended
               DEF KeysAreRecovered, startLocalMedia, MediaType
    <3> QED  BY <1>14, <3>1, <3>2 DEF startLocalMedia
  <2>5. (FieldInv /\ SockInv)'
    BY <1>0, <1>14
       DEF startLocalMedia, FieldInv, SockInv, Keyed, memory, threads
  <2> QED  BY <2>1, <2>2, <2>3, <2>4, <2>5 DEF KeyInv
<1>15. ASSUME NEW p \in Producers, newProducer(p) PROVE KeyInv'
  <2>1. GateInv'
    BY <1>0, <1>15, RequestTypes, RequestsDiffer
       DEF newProducer, signalNewConsumerTransport, GateInv, Keyed, memory,
           threads
  <2>2. (FieldInv /\ SockInv /\ AttachInv /\ ActiveInv /\ KeysAreRecovered)'
    BY <1>0, <1>15
       DEF newProducer, FieldInv, SockInv, AttachInv, ActiveInv,
           KeysAreRecovered, Keyed, cryptors, memory, threads
  <2> QED  BY <2>1, <2>2 DEF KeyInv
<1>16. ASSUME produceAck PROVE KeyInv'
  <2>1. GateInv'
    <3>1. /\ acks'[Send] = acks[Send]
          /\ \A p \in Producers : acks'[Consume(p)] = acks[Consume(p)]
      BY <1>0, <1>16, RequestTypes, RequestsDiffer
         DEF produceAck, Emitted, Handled
    <3> QED
      BY <1>0, <1>16, <3>1 DEF produceAck, GateInv, Keyed, memory, threads
  <2>2. (FieldInv /\ SockInv /\ AttachInv /\ ActiveInv /\ KeysAreRecovered)'
    BY <1>0, <1>16
       DEF produceAck, FieldInv, SockInv, AttachInv, ActiveInv,
           KeysAreRecovered, Keyed, cryptors, memory, threads
  <2> QED  BY <2>1, <2>2 DEF KeyInv
<1>17. ASSUME NEW ids \in SUBSET Producers, getProducersAck(ids) PROVE KeyInv'
  <2>1. GateInv'
    BY <1>0, <1>17, RequestTypes, RequestsDiffer
       DEF getProducersAck, signalNewConsumerTransport, Handled, GateInv,
           Keyed, memory, threads
  <2>2. (FieldInv /\ SockInv /\ AttachInv /\ ActiveInv /\ KeysAreRecovered)'
    BY <1>0, <1>17
       DEF getProducersAck, FieldInv, SockInv, AttachInv, ActiveInv,
           KeysAreRecovered, Keyed, cryptors, memory, threads
  <2> QED  BY <2>1, <2>2 DEF KeyInv
<1>18. ASSUME NEW p \in Producers, createRecvTransportAck(p) PROVE KeyInv'
  <2>1. GateInv'
    BY <1>0, <1>18
       DEF createRecvTransportAck, Answered, Handled, SockReady, GateInv,
           Keyed, memory
  <2>2. SockInv'
    BY <1>0, <1>18
       DEF createRecvTransportAck, Answered, SockReady, SockInv, Keyed, memory
  <2>3. (FieldInv /\ AttachInv /\ ActiveInv /\ KeysAreRecovered)'
    BY <1>0, <1>18
       DEF createRecvTransportAck, FieldInv, AttachInv, ActiveInv,
           KeysAreRecovered, Keyed, cryptors, memory, threads
  <2> QED  BY <2>1, <2>2, <2>3 DEF KeyInv
<1>19. ASSUME connectRecvTransport PROVE KeyInv'
  <2>1. GateInv'
    BY <1>0, <1>19 DEF connectRecvTransport, GateInv, Keyed, memory
  <2>2. SockInv'
    BY <1>0, <1>19 DEF connectRecvTransport, SockIdle, SockInv
  <2>3. (FieldInv /\ AttachInv /\ ActiveInv /\ KeysAreRecovered)'
    BY <1>0, <1>19
       DEF connectRecvTransport, FieldInv, AttachInv, ActiveInv,
           KeysAreRecovered, Keyed, cryptors, memory, threads
  <2> QED  BY <2>1, <2>2, <2>3 DEF KeyInv
<1>20. ASSUME NEW r \in Requests, Refused(r) PROVE KeyInv'
  <2>1. GateInv'
    BY <1>0, <1>20 DEF Refused, Handled, GateInv, Keyed, memory, threads
  <2>2. (FieldInv /\ SockInv /\ AttachInv /\ ActiveInv /\ KeysAreRecovered)'
    BY <1>0, <1>20
       DEF Refused, FieldInv, SockInv, AttachInv, ActiveInv, KeysAreRecovered,
           Keyed, cryptors, memory, threads
  <2> QED  BY <2>1, <2>2 DEF KeyInv
<1>21. ASSUME NEW p \in Producers, consumeAck(p) PROVE KeyInv'
  <2>1. GateInv'
    BY <1>0, <1>21 DEF consumeAck, Answered, GateInv, Keyed, memory
  <2>2. SockInv'
    BY <1>0, <1>21
       DEF consumeAck, Answered, SockInv, GateInv, Keyed, ThreadType, memory
  <2>3. KeysAreRecovered'
    <3>1. \A q \in Producers : decryptors'[q] = decryptors[q]
                                 \/ ~decryptors'[q].attached
      BY <1>0, <1>21 DEF consumeAck, NewCryptor, MediaType
    <3> QED  BY <1>0, <1>21, <3>1 DEF consumeAck, KeysAreRecovered
  <2>4. (FieldInv /\ AttachInv /\ ActiveInv)'
    BY <1>0, <1>21
       DEF consumeAck, FieldInv, AttachInv, ActiveInv, Keyed, cryptors, memory,
           threads
  <2> QED  BY <2>1, <2>2, <2>3, <2>4 DEF KeyInv
<1>22. ASSUME readKey PROVE KeyInv'
  <2>1. GateInv'
    BY <1>0, <1>22 DEF readKey, GateInv, Keyed, memory
  <2>2. SockInv'
    BY <1>0, <1>22 DEF readKey, SockInv, Keyed, memory
  <2>3. (FieldInv /\ AttachInv /\ ActiveInv /\ KeysAreRecovered)'
    BY <1>0, <1>22
       DEF readKey, FieldInv, AttachInv, ActiveInv, KeysAreRecovered, Keyed,
           cryptors, memory, threads
  <2> QED  BY <2>1, <2>2, <2>3 DEF KeyInv
<1>23. ASSUME readVersion PROVE KeyInv'
  <2>1. GateInv'
    BY <1>0, <1>23 DEF readVersion, GateInv, Keyed, memory
  <2>2. SockInv'
    BY <1>0, <1>23 DEF readVersion, SockInv, Keyed, memory
  <2>3. (FieldInv /\ AttachInv /\ ActiveInv /\ KeysAreRecovered)'
    BY <1>0, <1>23
       DEF readVersion, FieldInv, AttachInv, ActiveInv, KeysAreRecovered,
           Keyed, cryptors, memory, threads
  <2> QED  BY <2>1, <2>2, <2>3 DEF KeyInv
<1>24. ASSUME setFrameDecryptor PROVE KeyInv'
  <2>1. GateInv'
    BY <1>0, <1>24 DEF setFrameDecryptor, SockIdle, GateInv, Keyed, memory
  <2>2. SockInv'
    BY <1>0, <1>24 DEF setFrameDecryptor, SockIdle, SockInv
  <2>3. KeysAreRecovered'
    BY <1>0, <1>24 DEF setFrameDecryptor, KeysAreRecovered, SockInv
  <2>4. (FieldInv /\ AttachInv /\ ActiveInv)'
    BY <1>0, <1>24
       DEF setFrameDecryptor, FieldInv, AttachInv, ActiveInv, Keyed, cryptors,
           memory, threads
  <2> QED  BY <2>1, <2>2, <2>3, <2>4 DEF KeyInv
<1>25. ASSUME NEW flag \in {"caps", "recovered"}, Flush(flag) PROVE KeyInv'
  <2>1. /\ FieldInv'
        /\ GateInv'
        /\ SockInv'
        /\ AttachInv'
        /\ ActiveInv'
        /\ KeysAreRecovered'
    BY <1>0, <1>25
       DEF Flush, FieldInv, GateInv, SockInv, AttachInv, ActiveInv,
           KeysAreRecovered, Keyed, cryptors, memory, threads
  <2> QED  BY <2>1 DEF KeyInv
<1>26. ASSUME UNCHANGED vars PROVE KeyInv'
  BY <1>26, <1>0
     DEF vars, KeyInv, FieldInv, GateInv, SockInv, AttachInv, ActiveInv,
         KeysAreRecovered, Keyed
<1> QED  BY <1>1, <1>2, <1>3, <1>4, <1>5, <1>6, <1>7, <1>8, <1>9, <1>10, <1>11,
         <1>12, <1>13, <1>14, <1>15, <1>16, <1>17, <1>18, <1>19, <1>20, <1>21,
         <1>22, <1>23, <1>24, <1>25, <1>26, RequestTypes
         DEF Next, Answers, MainThread, SocketThread

\* From the assumptions on the constants alone, the invariant on keys holds.
LEMMA KeyInvAlways == Spec => []KeyInv
<1>1. TypeOK /\ TypeOK' /\ KeyInv /\ [Next]_vars => KeyInv'
  BY KeyStep
<1> QED  BY KeyInit, <1>1, TypeCorrect, PTL DEF Spec

\* No encryptor or decryptor sees frames with the built-in key: everything
\* that leads to one waits for the first recovery (joinRoom, onKeyRecovered,
\* addTrack, connectRecvTransport).
THEOREM OnlyRecoveredKeys == Spec => []KeysAreRecovered
<1>1. KeyInv => KeysAreRecovered
  BY DEF KeyInv
<1> QED  BY <1>1, KeyInvAlways, PTL

\* Between two jobs of the main thread the active encryptor holds the key that
\* was recovered last (onKeyRecovered, addTrack).
THEOREM ActiveEncryptorFollows == Spec => []ActiveEncryptorUpToDate
<1>1. TypeOK /\ KeyInv => ActiveEncryptorUpToDate
  <2> SUFFICES ASSUME TypeOK, KeyInv, MainReady, encryptors # <<>>,
                      openEncryption
               PROVE  encryptors[Len(encryptors)]
                        = [key |-> field.sm4Key, version |-> field.version,
                           attached |-> TRUE]
    BY DEF ActiveEncryptorUpToDate
  <2> DEFINE last == encryptors[Len(encryptors)]
  <2>1. /\ last.key = field.sm4Key
        /\ last.version = field.version
    BY DEF KeyInv, ActiveInv, MainReady, MainIdle
  <2>2. encryptors \in Seq(Cryptor)
    BY DEF TypeOK, MediaType
  <2>3. Len(encryptors) \in 1 .. Len(encryptors)
    BY <2>2
  <2>4. last \in Cryptor
    BY <2>2, <2>3
  <2>5. last.attached = TRUE
    BY <2>3 DEF KeyInv, AttachInv
  <2> QED  BY <2>1, <2>4, <2>5 DEF Cryptor
<1> QED  BY <1>1, TypeCorrect, KeyInvAlways, PTL

--------------------------------------------------------------------------------
(* Decryptors.                                                             *)

\* The key that onKeyRecovered hands to the decryptor is the stored one.
DecryptorInv == main.pc = "decryptor" => main.version = field.version

\* Every handler of RoomClient keeps the invariant on decryptors.
LEMMA DecryptorStep ==
  ASSUME TypeOK, KeyInv, DecryptorInv, [Next]_vars
  PROVE  DecryptorInv'
<1> USE DEF memory, threads, MainIdle, MainReady, Running
<1>1. ASSUME field'.version = field.version, main'.pc = "decryptor" => main' = main
      PROVE  DecryptorInv'
  BY <1>1 DEF DecryptorInv
<1>2. ASSUME connectionSuccess \/ connectionLost \/ close PROVE DecryptorInv'
  BY <1>1, <1>2 DEF connectionSuccess, connectionLost, close
<1>3. ASSUME joinRoomAck \/ joinRoomRefused \/ joinRoomCheck PROVE DecryptorInv'
  BY <1>1, <1>3 DEF joinRoomAck, joinRoomRefused, joinRoomCheck, TypeOK, MemoryType
<1>4. ASSUME NEW v \in Versions, onKeyRecovered(v) PROVE DecryptorInv'
  BY <1>1, <1>4 DEF onKeyRecovered, TypeOK, MemoryType
<1>5. ASSUME storeVersion PROVE DecryptorInv'
  BY <1>5 DEF storeVersion, TypeOK, ThreadType, DecryptorInv
<1>6. ASSUME updateEncryptor PROVE DecryptorInv'
  BY <1>6 DEF updateEncryptor, KeyInv, FieldInv, TypeOK, ThreadType, DecryptorInv
<1>7. ASSUME updateDecryptor \/ createDevice \/ loadDevice PROVE DecryptorInv'
  BY <1>1, <1>7 DEF updateDecryptor, createDevice, loadDevice, TypeOK, ThreadType
<1>8. ASSUME NEW video \in BOOLEAN, NEW audio \in BOOLEAN, startLocalMedia(video, audio)
      PROVE  DecryptorInv'
  BY <1>1, <1>8 DEF startLocalMedia
<1>9. ASSUME createSendTransportAck \/ produceAck \/ SocketThread PROVE DecryptorInv'
  BY <1>1, <1>3, <1>9 DEF createSendTransportAck, produceAck, SocketThread,
     connectRecvTransport, readKey, readVersion, setFrameDecryptor
<1>10. ASSUME NEW ids \in SUBSET Producers, getProducersAck(ids) PROVE DecryptorInv'
  BY <1>1, <1>10 DEF getProducersAck
<1>11. ASSUME NEW p \in Producers,
              newProducer(p) \/ createRecvTransportAck(p) \/ consumeAck(p)
       PROVE  DecryptorInv'
  BY <1>1, <1>11 DEF newProducer, createRecvTransportAck, consumeAck
<1>12. ASSUME NEW r \in Requests, Refused(r) PROVE DecryptorInv'
  BY <1>1, <1>12 DEF Refused
<1>13. ASSUME NEW flag \in {"caps", "recovered"}, Flush(flag) PROVE DecryptorInv'
  BY <1>1, <1>13 DEF Flush
<1>14. ASSUME UNCHANGED vars PROVE DecryptorInv'
  BY <1>1, <1>14 DEF vars
<1> QED  BY <1>2, <1>3, <1>4, <1>5, <1>6, <1>7, <1>8, <1>9, <1>10, <1>11, <1>12,
         <1>13, <1>14, RequestTypes DEF Next, Answers, MainThread

\* From the assumptions on the constants alone, the invariant on decryptors holds.
LEMMA DecryptorInvAlways == Spec => []DecryptorInv
<1>1. Init => DecryptorInv
  BY DEF Init, DecryptorInv, MainIdle
<1>2. TypeOK /\ KeyInv /\ DecryptorInv /\ [Next]_vars => DecryptorInv'
  BY DecryptorStep
<1> QED  BY <1>1, <1>2, TypeCorrect, KeyInvAlways, PTL DEF Spec

--------------------------------------------------------------------------------
(* The wake-up of the device.                                              *)

\* What posting and running do to the runnables in the looper.
LEMMA InLooperSteps ==
  ASSUME TypeOK
  PROVE  /\ \A x \in Runnables : looper' = Append(looper, x) =>
              \A y : InLooper(y)' <=> InLooper(y) \/ y = x
         /\ looper # <<>> /\ looper' = Tail(looper) =>
              \A y : /\ InLooper(y)' => InLooper(y)
                     /\ InLooper(y) => InLooper(y)' \/ y = Head(looper)
         /\ looper' = looper => \A y : InLooper(y)' <=> InLooper(y)
<1>1. looper \in Seq(Runnables)
  BY DEF TypeOK, ThreadType
<1>2. ASSUME NEW x \in Runnables, looper' = Append(looper, x), NEW y
      PROVE  InLooper(y)' <=> InLooper(y) \/ y = x
  <2>1. /\ Len(looper') = Len(looper) + 1 /\ looper'[Len(looper) + 1] = x
        /\ \A n \in 1 .. Len(looper) : looper'[n] = looper[n]
    BY <1>1, <1>2
  <2>2. Len(looper) \in Nat
    BY <1>1
  <2> QED  BY <2>1, <2>2 DEF InLooper
<1>3. ASSUME looper # <<>>, looper' = Tail(looper), NEW y
      PROVE  /\ InLooper(y)' => InLooper(y)
             /\ InLooper(y) => InLooper(y)' \/ y = Head(looper)
  <2>1. /\ Len(looper) \in Nat \ {0}
        /\ Len(looper') = Len(looper) - 1 /\ Head(looper) = looper[1]
        /\ \A n \in 1 .. Len(looper) - 1 : looper'[n] = looper[n + 1]
    BY <1>1, <1>3
  <2>2. \A n \in 1 .. Len(looper') : n + 1 \in 1 .. Len(looper)
    BY <2>1
  <2>3. InLooper(y)' => InLooper(y)
    BY <2>1, <2>2 DEF InLooper
  <2>4. ASSUME NEW n \in 1 .. Len(looper), looper[n] = y, n # 1 PROVE InLooper(y)'
    <3>1. n - 1 \in 1 .. Len(looper') /\ looper'[n - 1] = y
      BY <2>1, <2>4
    <3> QED  BY <3>1 DEF InLooper
  <2> QED  BY <2>1, <2>3, <2>4 DEF InLooper
<1>4. looper' = looper => \A y : InLooper(y)' <=> InLooper(y)
  BY DEF InLooper
<1> QED  BY <1>2, <1>3, <1>4

\* Every handler keeps the invariant on the device: whoever writes its flag
\* second sees the other's, or misses a write that is still buffered.
LEMMA DeviceStep ==
  ASSUME TypeOK, DeviceInv, [Next]_vars
  PROVE  DeviceInv'
<1> USE DEF cryptors, memory, threads, received, MainIdle, SockIdle, MainReady,
        SockReady, Answered
<1>0. /\ acks \in [Requests -> Nat]
      /\ looper \in Seq(Runnables) /\ encryptors \in Seq(Cryptor)
      /\ "createDevice" \in Runnables /\ "startLocalMedia" \in Runnables
  BY DEF DeviceInv, TypeOK, ThreadType, MediaType, Runnables
<1>1. ASSUME buffered' \subseteq buffered, missed' = missed,
             device' = device \/ device' # "none",
             acks'[Send] > 0 => acks[Send] > 0 \/ device' # "none",
             looper' = looper, encryptors' = encryptors,
             field'.caps = field.caps, field'.recovered = field.recovered,
             main'.pc = main.pc \/ {main.pc, main'.pc} \subseteq {"idle", "version", "decryptor", "load"},
             main'.pc = "load" => main.pc = "load",
             sock'.pc = sock.pc \/ sock.pc # "join"
      PROVE  DeviceInv'
  BY <1>0, <1>1, InLooperSteps DEF DeviceInv, DeviceOnItsWay
<1>2. ASSUME connectionSuccess \/ connectionLost \/ close PROVE DeviceInv'
  <2>1. acks'[Send] <= acks[Send] /\ acks[Send] \in Nat
    BY <1>0, <1>2, RequestTypes, RequestsDiffer
       DEF connectionSuccess, connectionLost, close, NoAcks
  <2>2. acks'[Send] > 0 => acks[Send] > 0
    <3>1. acks'[Send] \in Nat
      BY <1>0, <1>2, RequestTypes DEF connectionSuccess, connectionLost, close, NoAcks
    <3> QED  BY <2>1, <3>1
  <2> QED  BY <1>1, <1>2, <2>2 DEF connectionSuccess, connectionLost, close
<1>3. ASSUME joinRoomAck PROVE DeviceInv'
  <2>1. acks'[Send] = acks[Send]
    BY <1>0, <1>3, RequestTypes, RequestsDiffer DEF joinRoomAck, Handled
  <2>2. /\ sock'.pc = "join" /\ missed' = missed
        /\ ~StoreBuffers => buffered' = buffered
    BY <1>3 DEF joinRoomAck, Written, TypeOK, ThreadType
  <2> QED  BY <1>3, <2>1, <2>2, InLooperSteps
           DEF joinRoomAck, DeviceInv, DeviceOnItsWay
<1>4. ASSUME joinRoomRefused PROVE DeviceInv'
  <2>1. acks'[Send] = acks[Send]
    BY <1>0, <1>4, RequestTypes, RequestsDiffer DEF joinRoomRefused, Handled
  <2> QED  BY <1>1, <1>4, <2>1 DEF joinRoomRefused
<1>5. ASSUME joinRoomCheck PROVE DeviceInv'
  <2>0. ~StoreBuffers => buffered' = {} /\ ~missed'
    BY <1>5 DEF joinRoomCheck, Unseen, DeviceInv
  <2>1. CASE looper' = Append(looper, "createDevice")
    BY <1>0, <1>5, <2>0, <2>1, InLooperSteps
       DEF joinRoomCheck, DeviceInv, DeviceOnItsWay
  <2>2. CASE looper' = looper /\ (encryptors # <<>> \/ ~field.recovered \/ missed')
    BY <1>0, <1>5, <2>0, <2>2, InLooperSteps
       DEF joinRoomCheck, DeviceInv, DeviceOnItsWay
  <2> QED  BY <1>5, <2>1, <2>2 DEF joinRoomCheck, Seen, Unseen
<1>6. ASSUME NEW v \in Versions, onKeyRecovered(v) PROVE DeviceInv'
  BY <1>1, <1>6 DEF onKeyRecovered, TypeOK, MemoryType
<1>7. ASSUME storeVersion PROVE DeviceInv'
  <2>1. /\ main'.pc = "encryptor" /\ missed' = missed
        /\ ~StoreBuffers => buffered' = buffered
    BY <1>7 DEF storeVersion, Written, TypeOK, ThreadType
  <2> QED  BY <1>7, <2>1, InLooperSteps
           DEF storeVersion, DeviceInv, DeviceOnItsWay
<1>8. ASSUME updateEncryptor PROVE DeviceInv'
  <2>1. /\ main'.pc = "decryptor"
        /\ ~StoreBuffers => buffered' = {} /\ ~missed'
    BY <1>8 DEF updateEncryptor, Unseen, DeviceInv, TypeOK, ThreadType
  <2>2. CASE encryptors # <<>>
    BY <1>8, <2>1, <2>2, InLooperSteps
       DEF updateEncryptor, DeviceInv, DeviceOnItsWay
  <2>3. CASE encryptors = <<>> /\ looper' = Append(looper, "createDevice")
    BY <1>0, <1>8, <2>1, <2>3, InLooperSteps
       DEF updateEncryptor, DeviceInv, DeviceOnItsWay
  <2>4. CASE encryptors = <<>> /\ looper' = looper /\ (~field.caps \/ missed')
    BY <1>8, <2>1, <2>4, InLooperSteps
       DEF updateEncryptor, DeviceInv, DeviceOnItsWay
  <2> QED  BY <1>8, <2>2, <2>3, <2>4 DEF updateEncryptor, Seen, Unseen
<1>9. ASSUME updateDecryptor PROVE DeviceInv'
  BY <1>0, <1>1, <1>9 DEF updateDecryptor
<1>10. ASSUME createDevice PROVE DeviceInv'
  BY <1>10 DEF createDevice, DeviceInv, DeviceOnItsWay
<1>11. ASSUME loadDevice PROVE DeviceInv'
  <2>1. device # "none"
    BY <1>11 DEF loadDevice, DeviceInv
  <2> QED  BY <1>1, <1>11, <2>1 DEF loadDevice
<1>12. ASSUME createSendTransportAck PROVE DeviceInv'
  <2>1. acks[Send] > 0 /\ device' = device /\ device # "none"
    BY <1>12 DEF createSendTransportAck, DeviceInv
  <2> QED  BY <1>0, <1>12, <2>1 DEF createSendTransportAck, DeviceInv, DeviceOnItsWay
<1>13. ASSUME NEW video \in BOOLEAN, NEW audio \in BOOLEAN, startLocalMedia(video, audio)
       PROVE  DeviceInv'
  <2>1. InLooper("startLocalMedia")
    BY <1>0, <1>13 DEF startLocalMedia, Running, InLooper
  <2>2. /\ device # "none" /\ device' = device
        /\ buffered' = buffered /\ missed' = missed
    BY <1>13, <2>1 DEF startLocalMedia, DeviceInv
  <2> QED  BY <1>0, <2>2 DEF DeviceInv, DeviceOnItsWay
<1>14. ASSUME NEW p \in Producers, newProducer(p) PROVE DeviceInv'
  <2>1. acks'[Send] = acks[Send]
    BY <1>0, <1>14, RequestTypes, RequestsDiffer
       DEF newProducer, signalNewConsumerTransport
  <2> QED  BY <1>1, <1>14, <2>1 DEF newProducer
<1>15. ASSUME produceAck PROVE DeviceInv'
  <2>1. acks'[Send] = acks[Send]
    BY <1>0, <1>15, RequestTypes, RequestsDiffer DEF produceAck, Handled, Emitted
  <2> QED  BY <1>1, <1>15, <2>1 DEF produceAck
<1>16. ASSUME NEW ids \in SUBSET Producers, getProducersAck(ids) PROVE DeviceInv'
  <2>1. acks'[Send] = acks[Send]
    BY <1>0, <1>16, RequestTypes, RequestsDiffer
       DEF getProducersAck, signalNewConsumerTransport, Handled
  <2> QED  BY <1>1, <1>16, <2>1 DEF getProducersAck
<1>17. ASSUME NEW p \in Producers, createRecvTransportAck(p) PROVE DeviceInv'
  <2>1. acks'[Send] = acks[Send]
    BY <1>0, <1>17, RequestTypes, RequestsDiffer DEF createRecvTransportAck, Handled
  <2> QED  BY <1>1, <1>17, <2>1 DEF createRecvTransportAck
<1>18. ASSUME NEW p \in Producers, consumeAck(p) PROVE DeviceInv'
  <2>1. acks'[Send] = acks[Send]
    BY <1>0, <1>18, RequestTypes, RequestsDiffer DEF consumeAck, Handled
  <2> QED  BY <1>1, <1>18, <2>1 DEF consumeAck
<1>19. ASSUME NEW p \in Producers, Refused(Recv(p)) \/ Refused(Consume(p))
       PROVE  DeviceInv'
  <2>1. acks'[Send] = acks[Send]
    BY <1>0, <1>19, RequestTypes, RequestsDiffer DEF Refused, Handled
  <2> QED  BY <1>1, <1>19, <2>1 DEF Refused
<1>20. ASSUME connectRecvTransport PROVE DeviceInv'
  <2>1. acks'[Send] = acks[Send]
    BY <1>0, <1>20, RequestTypes, RequestsDiffer
       DEF connectRecvTransport, TypeOK, ThreadType
  <2> QED  BY <1>1, <1>20, <2>1 DEF connectRecvTransport
<1>21. ASSUME readKey \/ readVersion \/ setFrameDecryptor PROVE DeviceInv'
  BY <1>1, <1>21 DEF readKey, readVersion, setFrameDecryptor
<1>22. ASSUME NEW flag \in {"caps", "recovered"}, Flush(flag) PROVE DeviceInv'
  BY <1>1, <1>22 DEF Flush
<1>23. ASSUME UNCHANGED vars PROVE DeviceInv'
  BY <1>1, <1>23 DEF vars
<1> QED  BY <1>2, <1>3, <1>4, <1>5, <1>6, <1>7, <1>8, <1>9, <1>10, <1>11, <1>12,
         <1>13, <1>14, <1>15, <1>16, <1>17, <1>18, <1>19, <1>20, <1>21, <1>22,
         <1>23
         DEF Next, Answers, MainThread, SocketThread

\* Once the room was joined and a key was recovered, the device is there or on
\* its way, whether plain writes reach the other thread at once or late, unless a
\* check missed a write that was still buffered; if they reach it at once, no
\* check ever does.
THEOREM DeviceAlwaysOnItsWay ==
  Spec => [](DeviceOnItsWay /\ (~StoreBuffers => ~missed))
<1>1. Init => DeviceInv
  BY RequestTypes DEF Init, DeviceInv, DeviceOnItsWay, InLooper, NoAcks, MainIdle
<1>2. TypeOK /\ DeviceInv /\ [Next]_vars => DeviceInv'
  BY DeviceStep
<1>3. DeviceInv => DeviceOnItsWay /\ (~StoreBuffers => ~missed)
  BY DEF DeviceInv
<1> QED  BY <1>1, <1>2, <1>3, TypeCorrect, PTL DEF Spec

--------------------------------------------------------------------------------
(* The versions of cryptors that see frames.                               *)

\* Every handler of RoomClient keeps the invariant on versions.
LEMMA VersionStep ==
  ASSUME TypeOK, KeyInv, DecryptorInv, VersionInv, [Next]_vars
  PROVE  VersionInv'
<1> USE DEF cryptors, memory, threads, received, MainIdle, SockIdle, MainReady,
        SockReady, Answered
<1>0. /\ encryptors \in Seq(Cryptor) /\ decryptors \in [Producers -> Cryptor]
      /\ consumers \in [Producers -> Nat] /\ field.version \in Nat
      /\ main.version \in Nat /\ sock.version \in Nat
  BY BoundsAssumption DEF TypeOK, MediaType, MemoryType, ThreadType, Versions
<1>1. ASSUME encryptors' = encryptors, decryptors' = decryptors,
             consumers' = consumers, field'.version = field.version,
             main'.pc \in {"version", "encryptor"} => main' = main,
             sock'.pc \in {"key", "version", "set"} => sock' = sock
      PROVE  VersionInv'
  BY <1>1 DEF VersionInv
<1>2. ASSUME connectionSuccess \/ connectionLost \/ close PROVE VersionInv'
  BY <1>1, <1>2 DEF connectionSuccess, connectionLost, close
<1>3. ASSUME joinRoomAck \/ joinRoomRefused \/ joinRoomCheck PROVE VersionInv'
  BY <1>1, <1>3
     DEF joinRoomAck, joinRoomRefused, joinRoomCheck, TypeOK, MemoryType, ThreadType
<1>4. ASSUME NEW v \in Versions, onKeyRecovered(v) PROVE VersionInv'
  BY <1>4 DEF onKeyRecovered, TypeOK, MemoryType, VersionInv
<1>5. ASSUME storeVersion PROVE VersionInv'
  <2>1. /\ field'.version = main.version /\ main.version > field.version
        /\ main'.pc = "encryptor"
    BY <1>5 DEF storeVersion, TypeOK, MemoryType, ThreadType, VersionInv
  <2>2. /\ \A n \in 1 .. Len(encryptors) : encryptors[n].version \in Nat
        /\ \A p \in Producers : decryptors[p].version \in Nat
    <3>1. \A c \in Cryptor : c.version \in Nat
      BY DEF Cryptor, Versions
    <3>2. \A n \in 1 .. Len(encryptors) : encryptors[n] \in Cryptor
      BY <1>0
    <3> QED  BY <1>0, <3>1, <3>2
  <2> QED  BY <1>0, <1>5, <2>1, <2>2 DEF storeVersion, VersionInv
<1>6. ASSUME updateEncryptor PROVE VersionInv'
  <2>1. main.version = field.version /\ main'.pc = "decryptor"
    BY <1>6 DEF updateEncryptor, KeyInv, FieldInv, TypeOK, ThreadType
  <2>2. \A n \in 1 .. Len(encryptors') : encryptors'[n].version <= field.version
    BY <1>0, <1>6, <2>1, Rekeying DEF VersionInv
  <2> QED  BY <1>6, <2>1, <2>2 DEF updateEncryptor, VersionInv
<1>7. ASSUME updateDecryptor PROVE VersionInv'
  <2>1. main.version = field.version
    BY <1>7 DEF updateDecryptor, DecryptorInv
  <2>2. \A p \in Producers :
          /\ decryptors'[p].attached = decryptors[p].attached
          /\ decryptors'[p].version \in {decryptors[p].version, main.version}
    BY <1>0, <1>7 DEF updateDecryptor, Rekeyed, Cryptor
  <2> QED  BY <1>0, <1>7, <2>1, <2>2 DEF updateDecryptor, VersionInv
<1>8. ASSUME createDevice \/ loadDevice PROVE VersionInv'
  BY <1>1, <1>8 DEF createDevice, loadDevice, Running, TypeOK, ThreadType
<1>9. ASSUME NEW video \in BOOLEAN, NEW audio \in BOOLEAN, startLocalMedia(video, audio)
      PROVE  VersionInv'
  <2>1. AddedEncryptor \in Cryptor /\ AddedEncryptor.version <= field.version
    <3>1. AddedEncryptor \in Cryptor
      BY CryptorTypes DEF TypeOK
    <3> QED  BY <1>0, <3>1 DEF AddedEncryptor, NewCryptor
  <2>2. \A n \in 1 .. Len(encryptors') : encryptors'[n].version <= field.version
    <3>1. CASE encryptors' = encryptors
      BY <3>1 DEF VersionInv
    <3>2. CASE encryptors' = Append(encryptors, AddedEncryptor)
      BY <1>0, <2>1, <3>2, Appended DEF VersionInv
    <3> QED  BY <1>9, <3>1, <3>2 DEF startLocalMedia
  <2> QED  BY <1>9, <2>2 DEF startLocalMedia, Running, VersionInv
<1>10. ASSUME createSendTransportAck \/ produceAck PROVE VersionInv'
  BY <1>1, <1>10 DEF createSendTransportAck, produceAck
<1>11. ASSUME NEW ids \in SUBSET Producers, getProducersAck(ids) PROVE VersionInv'
  BY <1>1, <1>11 DEF getProducersAck
<1>12. ASSUME NEW p \in Producers, newProducer(p) PROVE VersionInv'
  BY <1>1, <1>12 DEF newProducer
<1>13. ASSUME NEW p \in Producers, createRecvTransportAck(p) PROVE VersionInv'
  BY <1>1, <1>13 DEF createRecvTransportAck
<1>14. ASSUME NEW r, Refused(r) PROVE VersionInv'
  BY <1>1, <1>14 DEF Refused
<1>15. ASSUME NEW p \in Producers, consumeAck(p) PROVE VersionInv'
  <2>1. \A q \in Producers : /\ consumers'[q] >= consumers[q]
                             /\ consumers'[p] > 0
    BY <1>0, <1>15 DEF consumeAck
  <2>2. CASE openEncryption /\ p \in VideoProducers
    <3>1. \A q \in Producers :
            decryptors'[q] = IF q = p THEN NewCryptor ELSE decryptors[q]
      BY <1>0, <1>15, <2>2 DEF consumeAck
    <3>2. sock'.pc = "key" /\ sock'.producer = p
      BY <1>15, <2>2 DEF consumeAck
    <3> QED  BY <1>0, <1>15, <2>1, <3>1, <3>2
             DEF consumeAck, NewCryptor, VersionInv
  <2>3. CASE ~(openEncryption /\ p \in VideoProducers)
    BY <1>0, <1>15, <2>1, <2>3 DEF consumeAck, VersionInv
  <2> QED  BY <2>2, <2>3
<1>16. ASSUME connectRecvTransport PROVE VersionInv'
  BY <1>1, <1>16 DEF connectRecvTransport
<1>17. ASSUME readKey PROVE VersionInv'
  BY <1>17 DEF readKey, TypeOK, ThreadType, VersionInv
<1>18. ASSUME readVersion PROVE VersionInv'
  BY <1>0, <1>18 DEF readVersion, TypeOK, ThreadType, VersionInv
<1>19. ASSUME setFrameDecryptor PROVE VersionInv'
  BY <1>0, <1>19 DEF setFrameDecryptor, TypeOK, ThreadType, VersionInv
<1>20. ASSUME NEW flag \in {"caps", "recovered"}, Flush(flag) PROVE VersionInv'
  BY <1>1, <1>20 DEF Flush
<1>21. ASSUME UNCHANGED vars PROVE VersionInv'
  BY <1>1, <1>21 DEF vars
<1> QED  BY <1>2, <1>3, <1>4, <1>5, <1>6, <1>7, <1>8, <1>9, <1>10, <1>11, <1>12,
         <1>13, <1>14, <1>15, <1>16, <1>17, <1>18, <1>19, <1>20, <1>21
         DEF Next, Answers, MainThread, SocketThread

\* The handlers that touch an encryptor or a decryptor.
LEMMA CryptorsKept ==
  ASSUME [Next]_vars
  PROVE  \/ encryptors' = encryptors /\ decryptors' = decryptors
         \/ updateEncryptor \/ updateDecryptor \/ setFrameDecryptor
         \/ \E video, audio \in BOOLEAN : startLocalMedia(video, audio)
         \/ \E p \in Producers : consumeAck(p)
<1> USE DEF cryptors
<1>1. CASE connectionSuccess \/ connectionLost \/ close \/ UNCHANGED vars
  BY <1>1 DEF connectionSuccess, connectionLost, close, vars
<1>2. CASE \/ joinRoomAck \/ joinRoomRefused \/ joinRoomCheck
           \/ createSendTransportAck \/ produceAck
           \/ \E ids \in SUBSET Producers : getProducersAck(ids)
  BY <1>2 DEF joinRoomAck, joinRoomRefused, joinRoomCheck, produceAck,
     createSendTransportAck, getProducersAck
<1>3. CASE \/ \E v \in Versions : onKeyRecovered(v)
           \/ storeVersion \/ createDevice \/ loadDevice
  BY <1>3 DEF onKeyRecovered, storeVersion, createDevice, loadDevice
<1>4. CASE \/ \E p \in Producers : newProducer(p) \/ createRecvTransportAck(p)
           \/ \E r : Refused(r)
           \/ \E flag \in {"caps", "recovered"} : Flush(flag)
  BY <1>4 DEF newProducer, createRecvTransportAck, Refused, Flush
<1>5. CASE connectRecvTransport \/ readKey \/ readVersion
  BY <1>5 DEF connectRecvTransport, readKey, readVersion
<1> QED  BY <1>1, <1>2, <1>3, <1>4, <1>5
         DEF Next, Answers, MainThread, SocketThread

\* An encryptor that sees frames only ever gets a key with a later version.
LEMMA EncryptorsAdvance ==
  ASSUME TypeOK, KeyInv, VersionInv, [Next]_vars, NEW n \in 1 .. Len(encryptors)
  PROVE  /\ KeptOrRekeyed(encryptors[n], encryptors'[n])
         /\ encryptors[n].attached /\ encryptors'[n] # encryptors[n]
              => encryptors'[n].version > encryptors[n].version
<1>1. CASE encryptors'[n] = encryptors[n]
  BY <1>1 DEF KeptOrRekeyed
<1>2. CASE updateEncryptor
  <2>1. main.version = field.version /\ encryptors[n].version < field.version
    BY <1>2 DEF updateEncryptor, KeyInv, FieldInv, VersionInv
  <2>2. CASE encryptors'[n] # encryptors[n]
    BY <1>2, <2>1, <2>2, Rekeying DEF KeptOrRekeyed
  <2> QED  BY <1>1, <2>2
<1>3. CASE \E video, audio \in BOOLEAN : startLocalMedia(video, audio)
  <2>1. encryptors \in Seq(Cryptor) /\ AddedEncryptor \in Cryptor
    BY CryptorTypes DEF TypeOK, MediaType
  <2>2. encryptors' \in {encryptors, Append(encryptors, AddedEncryptor)}
    BY <1>3 DEF startLocalMedia
  <2> QED  BY <1>1, <2>1, <2>2, Appended
<1>4. CASE updateDecryptor \/ setFrameDecryptor \/ \E p \in Producers : consumeAck(p)
  BY <1>1, <1>4 DEF updateDecryptor, setFrameDecryptor, consumeAck
<1> QED  BY <1>1, <1>2, <1>3, <1>4, CryptorsKept

\* A decryptor that sees frames is never replaced or reset, and never gets a key
\* with an earlier version: its producer has its one consumer already.
LEMMA DecryptorsAdvance ==
  ASSUME TypeOK, ConsumerInv, KeyInv, DecryptorInv, VersionInv, [Next]_vars,
         NEW p \in Producers
  PROVE  /\ KeptOrRekeyed(decryptors[p], decryptors'[p])
         /\ decryptors[p].attached
              => decryptors'[p].version >= decryptors[p].version
<1>0. decryptors \in [Producers -> Cryptor] /\ decryptors[p].version \in Nat
  BY DEF TypeOK, MediaType, Cryptor, Versions
<1>1. CASE decryptors'[p] = decryptors[p]
  BY <1>0, <1>1 DEF KeptOrRekeyed
<1>2. CASE updateDecryptor
  <2>1. main.version = field.version /\ decryptors[p].version <= field.version
    BY <1>2 DEF updateDecryptor, DecryptorInv, VersionInv
  <2>2. CASE decryptors'[p] # decryptors[p]
    <3>1. /\ decryptors'[p].attached = decryptors[p].attached
          /\ decryptors'[p].key = main.version
          /\ decryptors'[p].version = main.version
      BY <1>0, <1>2, <2>2 DEF updateDecryptor, Rekeyed, Cryptor
    <3> QED  BY <2>1, <3>1 DEF KeptOrRekeyed
  <2> QED  BY <1>1, <2>2
<1>3. ASSUME NEW q \in Producers, consumeAck(q) PROVE q # p \/ ~decryptors[p].attached
  <2>1. acks[Consume(q)] > 0 /\ Consumption(q) <= 1
    BY <1>3 DEF consumeAck, Answered, ConsumerInv
  <2>2. acks \in [Requests -> Nat] /\ consumers \in [Producers -> Nat]
    BY DEF TypeOK, MediaType
  <2>3. consumers[q] = 0
    BY <2>1, <2>2, RequestTypes DEF Consumption
  <2> QED  BY <2>3 DEF VersionInv
<1>4. CASE \E q \in Producers : consumeAck(q)
  <2>1. PICK q \in Producers : consumeAck(q)
    BY <1>4
  <2>2. p # q => decryptors'[p] = decryptors[p]
    BY <1>0, <2>1 DEF consumeAck
  <2> QED  BY <1>1, <1>3, <2>1, <2>2 DEF KeptOrRekeyed
<1>5. CASE setFrameDecryptor
  <2>1. sock.producer # p \/ ~decryptors[p].attached
    BY <1>5 DEF setFrameDecryptor, VersionInv
  <2>2. p # sock.producer => decryptors'[p] = decryptors[p]
    BY <1>0, <1>5 DEF setFrameDecryptor
  <2> QED  BY <1>1, <2>1, <2>2 DEF KeptOrRekeyed
<1>6. CASE updateEncryptor \/ \E video, audio \in BOOLEAN : startLocalMedia(video, audio)
  BY <1>1, <1>6 DEF updateEncryptor, startLocalMedia
<1> QED  BY <1>1, <1>2, <1>4, <1>5, <1>6, CryptorsKept

\* A cryptor that sees frames only moves forward in key versions, whatever the
\* server announces and however the two threads interleave (onKeyRecovered,
\* addTrack, connectRecvTransport).
THEOREM AttachedKeysAlwaysAdvance == Spec => AttachedKeysAdvance
<1>1. Init => VersionInv
  BY DEF Init, VersionInv, MainIdle, SockIdle, NewCryptor
<1>2. TypeOK /\ KeyInv /\ DecryptorInv /\ VersionInv /\ [Next]_vars => VersionInv'
  BY VersionStep
<1>3. TypeOK /\ ConsumerInv /\ KeyInv /\ DecryptorInv /\ VersionInv /\ [Next]_vars =>
        [/\ \A n \in 1 .. Len(encryptors) :
              /\ KeptOrRekeyed(encryptors[n], encryptors'[n])
              /\ encryptors[n].attached /\ encryptors'[n] # encryptors[n]
                   => encryptors'[n].version > encryptors[n].version
         /\ \A p \in Producers :
              /\ KeptOrRekeyed(decryptors[p], decryptors'[p])
              /\ decryptors[p].attached
                   => decryptors'[p].version >= decryptors[p].version]_vars
  BY EncryptorsAdvance, DecryptorsAdvance
<1> QED  BY <1>1, <1>2, <1>3, TypeCorrect, ConsumerInvAlways, KeyInvAlways,
            DecryptorInvAlways, PTL
         DEF Spec, AttachedKeysAdvance

================================================================================
