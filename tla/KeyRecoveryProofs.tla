--------------------------- MODULE KeyRecoveryProofs ---------------------------
(***************************************************************************)
(* Proofs that the key network client is well typed, that the versions its *)
(* call screens are told are ordered, that shares of one secret recover    *)
(* it, and that no step loses a recovery that is due: for any number of    *)
(* sessions, rooms, calls, shares and messages.                            *)
(***************************************************************************)
EXTENDS KeyRecovery, FiniteSetTheorems, WellFoundedInduction, TLAPS

--------------------------------------------------------------------------------
(* Messages, the looper and the stored shares.                             *)

\* A runnable of onConnected carries its connection, the other runnables the
\* shares of one secret.
LEMMA MessageFields ==
  ASSUME NEW m \in Messages
  PROVE  /\ m.kind = "connected" => m.conn \in Conns
         /\ m.kind # "connected" =>
              m.secret \in Secrets /\ m.indexes \subseteq Indexes
BY ShareAssumption DEF Messages, ShareMessages, ConnectedMessages

\* Posting appends to the looper.
LEMMA PostedTo ==
  ASSUME NEW q \in Seq(Messages), NEW m \in Messages
  PROVE  /\ Append(q, m) \in Seq(Messages)
         /\ Len(Append(q, m)) = Len(q) + 1
         /\ \A n \in 1 .. Len(q) : Append(q, m)[n] = q[n]
         /\ Append(q, m)[Len(q) + 1] = m
OBVIOUS

\* Running takes the first runnable off the looper.
LEMMA RunFrom ==
  ASSUME NEW q \in Seq(Messages), q # <<>>
  PROVE  /\ Head(q) \in Messages /\ Head(q) = q[1] /\ 1 \in 1 .. Len(q)
         /\ Tail(q) \in Seq(Messages)
         /\ Len(Tail(q)) = Len(q) - 1
         /\ \A n \in 1 .. Len(q) - 1 :
              Tail(q)[n] = q[n + 1] /\ n + 1 \in 1 .. Len(q)
OBVIOUS

\* shamirSharesMap maps indexes to shares after every put.
LEMMA StoredType ==
  ASSUME ShareType, NEW m \in Messages, m.kind # "connected"
  PROVE  Stored(m) \in [Indexes -> Secrets \cup {NoShare}]
BY MessageFields DEF ShareType, Stored

\* A key can be made of secrets only.
LEMMA UsableType == Usable \subseteq Secrets
BY ShareAssumption DEF Usable

\* What reconstructSm4Key returns is a secret, garbled or nothing.
LEMMA ReconstructedType ==
  ASSUME NEW map, NEW used, NEW key \in Reconstructed(map, used)
  PROVE  key \in Secrets \cup {Garbled, NoKey}
<1>1. CASE key \in {Garbled, NoKey}
  BY <1>1
<1>2. CASE /\ key \in {map[i] : i \in used}
           /\ \E s \in Usable : \A i \in used : map[i] = s
  BY <1>2, UsableType
<1> QED  BY <1>1, <1>2 DEF Reconstructed

--------------------------------------------------------------------------------
(* Types and sessions.                                                     *)

\* The singleton starts well typed, without a session.
LEMMA TypeInit == Init => TypeOK /\ SessionInv
<1> SUFFICES ASSUME Init PROVE TypeOK /\ SessionInv
  OBVIOUS
<1>1. SessionType
  BY DEF Init, SessionType, ConnType, RoomOrNone
<1>2. ShareType
  <2>1. shares \in [Indexes -> Secrets \cup {NoShare}] /\ crashed \in BOOLEAN
    BY DEF Init
  <2> QED  BY <2>1, BoundAssumption DEF Init, ShareType
<1>3. ScreenType
  BY DEF Init, ScreenType, CallType
<1>4. SessionInv
  BY DEF Init, SessionInv
<1> QED  BY <1>1, <1>2, <1>3, <1>4 DEF TypeOK

\* The two handlers that recover a key run one message off the looper and keep
\* everything well typed.
LEMMA TypeRecover ==
  ASSUME TypeOK, SessionInv, NEW n, NEW kind \in {"additional", "plain"},
         Running(kind), RecoverWith(n)
  PROVE  TypeOK' /\ SessionInv'
<1>1. looper \in Seq(Messages) /\ looper # <<>> /\ Head(looper).kind = kind
  BY DEF TypeOK, SessionType, Running
<1>2. looper' = Tail(looper) /\ shares' = Stored(Head(looper))
      /\ UNCHANGED <<conn, wsManager, listener, launching, sent, crashed>>
  BY DEF RecoverWith
<1>3. \/ UNCHANGED <<version, calls>>
      \/ \E key \in Secrets \cup {Garbled, NoKey} : notifyKeyRecovered(key)
  BY ReconstructedType DEF RecoverWith
<1>4. SessionType'
  BY <1>1, <1>2, RunFrom DEF TypeOK, SessionType
<1>5. SessionInv'
  BY <1>1, <1>2, RunFrom DEF SessionInv
<1>6. ShareType'
  <2>1. version' \in Nat
    <3>1. version' = version \/ version' = version + 1
      BY <1>3 DEF notifyKeyRecovered
    <3> QED  BY <3>1 DEF TypeOK, ShareType
  <2>2. shares' \in [Indexes -> Secrets \cup {NoShare}]
    BY <1>1, <1>2, RunFrom, StoredType DEF TypeOK
  <2> QED  BY <1>2, <2>1, <2>2 DEF TypeOK, ShareType
<1>7. ScreenType'
  <2>1. calls' \in [Calls -> CallType]
    <3>1. CASE UNCHANGED calls
      BY <3>1 DEF TypeOK, ScreenType
    <3>2. ASSUME NEW key \in Secrets \cup {Garbled, NoKey},
                 notifyKeyRecovered(key), listener # None
          PROVE  calls' \in [Calls -> CallType]
      BY <3>2 DEF TypeOK, ScreenType, ShareType, CallType, notifyKeyRecovered
    <3> QED  BY <1>3, <3>1, <3>2 DEF notifyKeyRecovered
  <2> QED  BY <1>2, <2>1 DEF TypeOK, ScreenType
<1> QED  BY <1>4, <1>5, <1>6, <1>7 DEF TypeOK

\* Every callback, runnable and click keeps the client well typed.
LEMMA TypeStep ==
  ASSUME TypeOK, SessionInv, [Next]_vars
  PROVE  TypeOK' /\ SessionInv'
<1>0. SessionType /\ ShareType /\ ScreenType
  BY DEF TypeOK
<1>1. ASSUME NEW c \in Conns, NEW r \in Rooms, ConfirmDialog(c, r)
      PROVE  TypeOK' /\ SessionInv'
  <2>1. \/ /\ conn[c].state = "unused"
           /\ conn' = [conn EXCEPT ![c] = [state |-> "connecting", room |-> r,
                                           closing |-> FALSE, created |-> {}]]
           /\ wsManager' = c
        \/ UNCHANGED <<conn, wsManager>>
    BY <1>1 DEF ConfirmDialog, establishWebSocketConnection
  <2>2. SessionType'
    <3>1. [state |-> "connecting", room |-> r, closing |-> FALSE,
           created |-> {}] \in ConnType
      BY DEF ConnType, RoomOrNone
    <3>2. conn' \in [Conns -> ConnType] /\ wsManager' \in Conns \cup {None}
      BY <1>0, <2>1, <3>1 DEF SessionType
    <3> QED  BY <1>0, <1>1, <3>2 DEF ConfirmDialog, SessionType
  <2>3. SessionInv'
    <3>1. \A d \in Conns : /\ conn[d].state # "unused" => conn'[d] = conn[d]
                           /\ conn'[d] = conn[d] \/ conn'[d].room \in Rooms
      BY <1>0, <2>1 DEF SessionType
    <3>2. \A n \in 1 .. Len(looper) :
            looper[n].kind = "connected" => looper[n].conn \in Conns
      BY <1>0, MessageFields DEF SessionType
    <3> QED  BY <1>1, <3>1, <3>2 DEF ConfirmDialog, SessionInv
  <2>4. (ShareType /\ ScreenType)'
    BY <1>0, <1>1 DEF ConfirmDialog, establishWebSocketConnection,
                      enterVideoChat, ShareType, ScreenType
  <2> QED  BY <2>2, <2>3, <2>4 DEF TypeOK
<1>2. ASSUME NEW c \in Conns, onOpen(c) PROVE TypeOK' /\ SessionInv'
  <2> DEFINE m == [kind |-> "connected", conn |-> c]
  <2>1. m \in Messages
    BY DEF Messages, ConnectedMessages
  <2>2. SessionType'
    <3>1. conn' \in [Conns -> ConnType]
      BY <1>0, <1>2 DEF onOpen, SessionType, ConnType
    <3> QED  BY <1>0, <1>2, <2>1, <3>1, PostedTo DEF onOpen, SessionType
  <2>3. SessionInv'
    <3>1. /\ conn'[c].state = "open" /\ conn[c].state # "unused"
          /\ \A d \in Conns : /\ conn'[d].room = conn[d].room
                              /\ d # c => conn'[d] = conn[d]
      BY <1>0, <1>2 DEF onOpen, SessionType, ConnType
    <3>2. \A n \in 1 .. Len(looper) :
            looper[n].kind = "connected" => looper[n].conn \in Conns
      BY <1>0, MessageFields DEF SessionType
    <3>3. looper' = Append(looper, m) /\ looper \in Seq(Messages)
      BY <1>0, <1>2 DEF onOpen, SessionType
    <3>4. \A d \in Conns : conn[d].state # "unused" => conn'[d].state # "unused"
      BY <3>1
    <3>5. ASSUME NEW n \in 1 .. Len(looper'), looper'[n].kind = "connected"
          PROVE  conn'[looper'[n].conn].state # "unused"
      <4>1. CASE n \in 1 .. Len(looper)
        BY <2>1, <3>2, <3>3, <3>4, <3>5, <4>1, PostedTo DEF SessionInv
      <4>2. CASE n = Len(looper) + 1
        BY <2>1, <3>1, <3>3, <4>2, PostedTo
      <4> QED  BY <2>1, <3>3, <4>1, <4>2, PostedTo
    <3> QED  BY <3>1, <3>5 DEF SessionInv
  <2>4. (ShareType /\ ScreenType)'
    BY <1>0, <1>2 DEF onOpen, ShareType, ScreenType
  <2> QED  BY <2>2, <2>3, <2>4 DEF TypeOK
<1>3. ASSUME NEW c \in Conns, onFailure(c) PROVE TypeOK' /\ SessionInv'
  <2>1. SessionType'
    BY <1>0, <1>3 DEF onFailure, SessionType, ConnType
  <2>2. SessionInv'
    <3>1. \A d \in Conns : /\ conn'[d].room = conn[d].room
                           /\ conn'[d].state # "unused" <=> conn[d].state # "unused"
      BY <1>0, <1>3 DEF onFailure, SessionType, ConnType
    <3>2. \A n \in 1 .. Len(looper) :
            looper[n].kind = "connected" => looper[n].conn \in Conns
      BY <1>0, MessageFields DEF SessionType
    <3> QED  BY <1>3, <3>1, <3>2 DEF onFailure, SessionInv
  <2>3. (ShareType /\ ScreenType)'
    BY <1>0, <1>3 DEF onFailure, ShareType, ScreenType
  <2> QED  BY <2>1, <2>2, <2>3 DEF TypeOK
<1>4. ASSUME NEW c \in Conns, NEW r \in Rooms, NEW m \in ShareMessages,
             onMessage(c, r, m)
      PROVE  TypeOK' /\ SessionInv'
  <2>1. m \in Messages /\ m.kind # "connected"
    BY DEF Messages, ShareMessages
  <2>2. looper \in Seq(Messages) /\ looper' = Append(looper, m)
    BY <1>0, <1>4 DEF onMessage, SessionType
  <2>3. SessionType'
    BY <1>0, <1>4, <2>1, <2>2, PostedTo DEF onMessage, SessionType
  <2>4. SessionInv'
    BY <1>4, <2>1, <2>2, PostedTo DEF onMessage, SessionInv
  <2>5. (ShareType /\ ScreenType)'
    BY <1>0, <1>4, BoundAssumption DEF onMessage, ShareType, ScreenType
  <2> QED  BY <2>3, <2>4, <2>5 DEF TypeOK
<1>5. ASSUME RunConnected PROVE TypeOK' /\ SessionInv'
  <2>1. looper \in Seq(Messages) /\ looper # <<>> /\ looper' = Tail(looper)
    BY <1>0, <1>5 DEF RunConnected, Running, SessionType
  <2>2. /\ Head(looper).conn \in Conns
        /\ conn[Head(looper).conn].room \in Rooms
    BY <1>5, <2>1, RunFrom, MessageFields DEF RunConnected, Running, SessionInv
  <2>3. \A d \in Conns : /\ conn'[d] \in ConnType
                         /\ conn'[d].room = conn[d].room
                         /\ conn'[d].state = conn[d].state
    BY <1>0, <1>5, <2>2 DEF RunConnected, SessionType, ConnType
  <2>4. SessionType'
    <3>1. conn' \in [Conns -> ConnType]
      BY <1>0, <1>5, <2>2 DEF RunConnected, SessionType, ConnType
    <3> QED  BY <1>0, <1>5, <2>1, <3>1, RunFrom DEF RunConnected, SessionType
  <2>5. SessionInv'
    BY <2>1, <2>3, RunFrom, MessageFields DEF SessionInv
  <2>6. (ShareType /\ ScreenType)'
    BY <1>0, <1>5 DEF RunConnected, ShareType, ScreenType
  <2> QED  BY <2>4, <2>5, <2>6 DEF TypeOK
<1>6. ASSUME handleAdditionalSharesProvided \/ handleRoomSharesPlain
      PROVE  TypeOK' /\ SessionInv'
  BY <1>6, TypeRecover
     DEF handleAdditionalSharesProvided, handleRoomSharesPlain
<1>7. ASSUME handleShareFirst PROVE TypeOK' /\ SessionInv'
  <2>1. looper \in Seq(Messages) /\ looper # <<>> /\ looper' = Tail(looper)
    BY <1>0, <1>7 DEF handleShareFirst, Running, SessionType
  <2>2. SessionType'
    BY <1>0, <1>7, <2>1, RunFrom DEF handleShareFirst, SessionType
  <2>3. SessionInv'
    BY <1>7, <2>1, RunFrom DEF handleShareFirst, SessionInv
  <2>4. shares' \in [Indexes -> Secrets \cup {NoShare}]
    BY <1>0, <1>7, <2>1, RunFrom, StoredType DEF handleShareFirst, Running
  <2>5. (ShareType /\ ScreenType)'
    BY <1>0, <1>7, <2>4 DEF handleShareFirst, enterVideoChat, ShareType,
                            ScreenType
  <2> QED  BY <2>2, <2>3, <2>5 DEF TypeOK
<1>8. ASSUME inviteToVideoChat \/ permissionsDenied
      PROVE  TypeOK' /\ SessionInv'
  BY <1>0, <1>8 DEF inviteToVideoChat, permissionsDenied, TypeOK, SessionType,
                    SessionInv, ShareType, ScreenType
<1>9. ASSUME NEW k \in Calls, initializeCall(k) PROVE TypeOK' /\ SessionInv'
  <2>1. (SessionType /\ ShareType /\ SessionInv)'
    BY <1>0, <1>9 DEF initializeCall, SessionType, SessionInv, ShareType
  <2>2. ScreenType'
    BY <1>0, <1>9 DEF initializeCall, ScreenType, CallType
  <2> QED  BY <2>1, <2>2 DEF TypeOK
<1>10. ASSUME NEW k \in Calls, hangup(k) PROVE TypeOK' /\ SessionInv'
  <2>1. SessionType'
    BY <1>0, <1>10 DEF hangup, SessionType, ConnType
  <2>2. SessionInv'
    <3>1. \A d \in Conns : /\ conn'[d].room = conn[d].room
                           /\ conn'[d].state = conn[d].state
      BY <1>0, <1>10 DEF hangup, SessionType, ConnType
    <3>2. \A n \in 1 .. Len(looper) :
            looper[n].kind = "connected" => looper[n].conn \in Conns
      BY <1>0, MessageFields DEF SessionType
    <3> QED  BY <1>10, <3>1, <3>2 DEF hangup, SessionInv
  <2>3. (ShareType /\ ScreenType)'
    BY <1>0, <1>10 DEF hangup, ShareType, ScreenType, CallType
  <2> QED  BY <2>1, <2>2, <2>3 DEF TypeOK
<1>11. ASSUME NEW k \in Calls, onDestroy(k) PROVE TypeOK' /\ SessionInv'
  <2>1. (SessionType /\ ShareType /\ SessionInv)'
    BY <1>0, <1>11 DEF onDestroy, SessionType, SessionInv, ShareType
  <2>2. ScreenType'
    BY <1>0, <1>11 DEF onDestroy, ScreenType, CallType
  <2> QED  BY <2>1, <2>2 DEF TypeOK
<1>12. ASSUME UNCHANGED vars PROVE TypeOK' /\ SessionInv'
  BY <1>0, <1>12 DEF vars, TypeOK, SessionType, SessionInv, ShareType,
                     ScreenType
<1> QED  BY <1>1, <1>2, <1>3, <1>4, <1>5, <1>6, <1>7, <1>8, <1>9, <1>10,
            <1>11, <1>12
         DEF Next, MainLooper

\* Whatever the server, the sockets and the users do, the client stays well
\* typed; in particular create_room is only ever sent for rooms.
THEOREM TypeCorrect == Spec => []TypeOK
<1>1. TypeOK /\ SessionInv /\ [Next]_vars => (TypeOK /\ SessionInv)'
  BY TypeStep
<1> QED  BY TypeInit, <1>1, PTL DEF Spec

--------------------------------------------------------------------------------
(* Versions.                                                               *)

\* A recovery tells its version, later than any before, to the call that
\* registered last.
LEMMA RecoverVersions ==
  ASSUME TypeOK, ListenerInv, VersionsOrdered, NEW key,
         notifyKeyRecovered(key), UNCHANGED listener
  PROVE  ListenerInv' /\ VersionsOrdered'
<1>1. /\ calls \in [Calls -> CallType] /\ listener \in Calls \cup {None}
      /\ version \in Nat /\ \A k \in Calls : calls[k].version \in Nat
  BY DEF TypeOK, ScreenType, ShareType, CallType
<1>2. version' = version + 1
  BY DEF notifyKeyRecovered
<1>3. \A k \in Calls :
        /\ calls'[k].state = calls[k].state
        /\ calls'[k].version = IF k = listener THEN version + 1
                                               ELSE calls[k].version
  BY <1>1 DEF notifyKeyRecovered, CallType, Calls, None
<1>4. ListenerInv'
  BY <1>1, <1>2, <1>3 DEF ListenerInv, Calls, None
<1>5. VersionsOrdered'
  BY <1>1, <1>2, <1>3 DEF ListenerInv, VersionsOrdered, Calls, None
<1> QED  BY <1>4, <1>5

\* Steps that neither recover a key nor open a call keep the order.
LEMMA SameVersions ==
  ASSUME ListenerInv, VersionsOrdered, UNCHANGED <<version, listener>>,
         \A k \in Calls :
           /\ calls'[k].version = calls[k].version
           /\ calls'[k].state # "none" <=> calls[k].state # "none"
  PROVE  ListenerInv' /\ VersionsOrdered'
BY DEF ListenerInv, VersionsOrdered

\* Every callback, runnable and click keeps the order of versions.
LEMMA VersionStep ==
  ASSUME TypeOK, ListenerInv, VersionsOrdered, [Next]_vars
  PROVE  ListenerInv' /\ VersionsOrdered'
<1>0. /\ calls \in [Calls -> CallType] /\ listener \in Calls \cup {None}
  BY DEF TypeOK, ScreenType
<1>1. ASSUME UNCHANGED <<version, listener, calls>>
      PROVE  ListenerInv' /\ VersionsOrdered'
  BY <1>1, SameVersions
<1>2. ASSUME NEW n, RecoverWith(n) PROVE ListenerInv' /\ VersionsOrdered'
  BY <1>1, <1>2, RecoverVersions DEF RecoverWith
<1>3. ASSUME NEW k \in Calls, initializeCall(k)
      PROVE  ListenerInv' /\ VersionsOrdered'
  <2>1. \A j \in Calls : /\ j # k => calls'[j] = calls[j]
                         /\ calls'[j].version = calls[j].version
    BY <1>0, <1>3 DEF initializeCall, CallType
  <2>2. calls'[k].state # "none" /\ listener' = k /\ version' = version
    BY <1>0, <1>3 DEF initializeCall, CallType
  <2>3. k > listener /\ \A j \in Calls : j < k => j <= listener
    BY <1>0, <1>3 DEF initializeCall, ListenerInv, Calls, None
  <2>4. ListenerInv'
    BY <1>0, <2>1, <2>2, <2>3 DEF ListenerInv, Calls, None
  <2>5. VersionsOrdered'
    BY <2>1, <2>2 DEF VersionsOrdered
  <2> QED  BY <2>4, <2>5
<1>4. ASSUME NEW k \in Calls, hangup(k) \/ onDestroy(k)
      PROVE  ListenerInv' /\ VersionsOrdered'
  <2>1. \A j \in Calls :
          /\ calls'[j].version = calls[j].version
          /\ calls'[j].state # "none" <=> calls[j].state # "none"
    BY <1>0, <1>4 DEF hangup, onDestroy, OnTop, Live, CallType
  <2> QED  BY <1>4, <2>1, SameVersions DEF hangup, onDestroy
<1> QED
  <2>1. CASE \E c \in Conns, r \in Rooms : ConfirmDialog(c, r)
    BY <1>1, <2>1 DEF ConfirmDialog
  <2>2. CASE \E c \in Conns : onOpen(c) \/ onFailure(c)
    BY <1>1, <2>2 DEF onOpen, onFailure
  <2>3. CASE \E c \in Conns, r \in Rooms, m \in ShareMessages :
               onMessage(c, r, m)
    BY <1>1, <2>3 DEF onMessage
  <2>4. CASE RunConnected \/ handleShareFirst
    BY <1>1, <2>4 DEF RunConnected, handleShareFirst
  <2>5. CASE handleAdditionalSharesProvided \/ handleRoomSharesPlain
    BY <1>2, <2>5 DEF handleAdditionalSharesProvided, handleRoomSharesPlain
  <2>6. CASE inviteToVideoChat \/ permissionsDenied
    BY <1>1, <2>6 DEF inviteToVideoChat, permissionsDenied
  <2>7. CASE UNCHANGED vars
    BY <1>1, <2>7 DEF vars
  <2> QED  BY <1>3, <1>4, <2>1, <2>2, <2>3, <2>4, <2>5, <2>6, <2>7
           DEF Next, MainLooper

\* A later call screen holds a later key version than any earlier one that was
\* told a key, and nobody one that was not recovered yet, although the listener
\* of a closed call stays registered (setKeyRecoveryListener,
\* notifyKeyRecovered).
THEOREM VersionsAlwaysOrdered == Spec => []VersionsOrdered
<1>1. Init => ListenerInv /\ VersionsOrdered
  BY DEF Init, ListenerInv, VersionsOrdered, Calls, None
<1>2. TypeOK /\ ListenerInv /\ VersionsOrdered /\ [Next]_vars
        => (ListenerInv /\ VersionsOrdered)'
  BY VersionStep
<1> QED  BY <1>1, <1>2, TypeCorrect, PTL DEF Spec

--------------------------------------------------------------------------------
(* The choice of shares.                                                   *)

\* The order of natural numbers as a set of pairs.
Below == {p \in Nat \X Nat : p[1] < p[2]}

\* It is well founded.
LEMMA BelowWellFounded == IsWellFoundedOn(Below, Nat)
BY NatLessThanWellFounded, Zenon DEF OpToRel, Below

\* A set of indexes that is not empty has a least one.
LEMMA LeastIndex ==
  ASSUME NEW S, S \subseteq Nat, S # {}
  PROVE  \E m \in S : \A n \in S : m <= n
<1>1. PICK m \in S : \A n \in S : ~ (<<n, m>> \in Below)
  BY BelowWellFounded, WFMin
<1>2. ASSUME NEW n \in S PROVE m <= n
  <2>1. m \in Nat /\ n \in Nat
    OBVIOUS
  <2>2. ~ (n < m)
    BY <1>1, <2>1 DEF Below
  <2> QED  BY <2>1, <2>2
<1> QED  BY <1>2

\* The shares held under smaller indexes than i.
Smaller(map, i) == {j \in Held(map) : j < i}

\* They are finitely many.
LEMMA HeldFinite ==
  ASSUME NEW map
  PROVE  /\ Held(map) \subseteq Nat /\ IsFiniteSet(Held(map))
         /\ \A i : IsFiniteSet(Smaller(map, i))
         /\ \A i : Cardinality(Smaller(map, i)) \in Nat
<1>1. Held(map) \in SUBSET Indexes
  BY DEF Held
<1>2. IsFiniteSet(Held(map)) /\ Held(map) \subseteq Nat
  BY <1>1, ShareAssumption, FS_Subset
<1>3. ASSUME NEW i
      PROVE  IsFiniteSet(Smaller(map, i)) /\ Cardinality(Smaller(map, i)) \in Nat
  <2>1. Smaller(map, i) \in SUBSET Held(map)
    BY DEF Smaller
  <2>2. IsFiniteSet(Smaller(map, i))
    BY <1>2, <2>1, FS_Subset
  <2> QED  BY <2>2, FS_CardinalityType
<1> QED  BY <1>2, <1>3

\* Sorting by index and taking subList(0, n) of at least n shares yields n of
\* them: fewer would leave out a share with n smaller ones, and of more, two
\* would have equally many smaller ones.
LEMMA FirstSharesCount ==
  ASSUME NEW map, NEW n \in Nat, Cardinality(Held(map)) >= n
  PROVE  /\ FirstShares(map, n) \subseteq Held(map)
         /\ IsFiniteSet(FirstShares(map, n))
         /\ Cardinality(FirstShares(map, n)) = n
<1> DEFINE F == FirstShares(map, n)
           Rank(i) == Cardinality(Smaller(map, i))
<1>1. F \in SUBSET Held(map) /\ \A i \in Held(map) : i \in F <=> Rank(i) < n
  BY DEF FirstShares, Smaller
<1>2. IsFiniteSet(F) /\ Cardinality(F) \in Nat
  BY <1>1, HeldFinite, FS_Subset, FS_CardinalityType
<1>3. Cardinality(F) >= n
  <2>1. CASE F = Held(map)
    BY <2>1
  <2>2. CASE F # Held(map)
    <3>1. PICK m \in Held(map) \ F : \A i \in Held(map) \ F : m <= i
      <4>1. Held(map) \ F \subseteq Nat /\ Held(map) \ F # {}
        BY <1>1, <2>2, HeldFinite
      <4> QED  BY <4>1, LeastIndex
    <3>2. Smaller(map, m) \in SUBSET F
      <4> SUFFICES ASSUME NEW i \in Smaller(map, m) PROVE i \in F
        OBVIOUS
      <4>1. i \in Held(map) /\ i < m /\ i \in Nat /\ m \in Nat
        BY HeldFinite DEF Smaller
      <4> QED  BY <3>1, <4>1
    <3>3. Rank(m) <= Cardinality(F)
      BY <1>2, <3>2, FS_Subset
    <3>4. Rank(m) >= n /\ Rank(m) \in Nat
      BY <1>1, <3>1, HeldFinite
    <3> QED  BY <1>2, <3>3, <3>4
  <2> QED  BY <2>1, <2>2
<1>4. Cardinality(F) <= n
  <2> DEFINE f == [i \in F |-> Rank(i)]
  <2>1. f \in [F -> 0 .. n - 1]
    BY <1>1, HeldFinite
  <2>2. ASSUME NEW i \in F, NEW j \in F, i < j PROVE Rank(i) < Rank(j)
    <3>1. Smaller(map, i) \cup {i} \in SUBSET Smaller(map, j) /\ i \notin Smaller(map, i)
      BY <1>1, <2>2, HeldFinite DEF Smaller
    <3>2. Cardinality(Smaller(map, i) \cup {i}) = Rank(i) + 1
      BY <3>1, HeldFinite, FS_AddElement
    <3>3. Cardinality(Smaller(map, i) \cup {i}) <= Rank(j)
      BY <3>1, HeldFinite, FS_Subset
    <3> QED  BY <3>2, <3>3, HeldFinite
  <2>3. ASSUME NEW i \in F, NEW j \in F, f[i] = f[j] PROVE i = j
    <3>1. i \in Nat /\ j \in Nat /\ Rank(i) = Rank(j) /\ Rank(i) \in Nat
      BY <1>1, <2>3, HeldFinite
    <3> QED  BY <2>2, <3>1
  <2>4. f \in Injection(F, 0 .. n - 1)
    BY <2>1, <2>3 DEF Injection, IsInjective
  <2>5. IsFiniteSet(0 .. n - 1) /\ Cardinality(0 .. n - 1) = n
    BY FS_Interval
  <2> QED  BY <2>4, <2>5, FS_Injection
<1> QED  BY <1>1, <1>2, <1>3, <1>4

\* A recovery with enough shares of one secret returns that secret, if a key can
\* be made of it, and otherwise nothing.
LEMMA RecoversSecret ==
  ASSUME NEW map, NEW n \in Nat, n >= Threshold, Cardinality(Held(map)) >= n,
         NEW s \in Secrets, \A i \in Held(map) : map[i] = s
  PROVE  Reconstructed(map, FirstShares(map, n)) =
           IF s \in Usable THEN {s} ELSE {NoKey}
<1>1. /\ FirstShares(map, n) \subseteq Held(map)
      /\ Cardinality(FirstShares(map, n)) = n
  BY FirstSharesCount
<1>2. FirstShares(map, n) # {}
  BY <1>1, FS_EmptySet, BoundAssumption
<1>3. {map[i] : i \in FirstShares(map, n)} = {s}
  BY <1>1, <1>2
<1>4. \A i \in FirstShares(map, n) : map[i] = s
  BY <1>1
<1>5. \E i \in FirstShares(map, n) : map[i] = s
  BY <1>2, <1>4
<1>6. CASE s \in Usable
  BY <1>1, <1>3, <1>4, <1>6, BoundAssumption DEF Reconstructed
<1>7. CASE s \notin Usable
  BY <1>5, <1>7, Zenon DEF Reconstructed
<1> QED  BY <1>6, <1>7

\* The numbers of shares the two handlers ask for are enough for the polynomial.
LEMMA EnoughAsked ==
  ASSUME Threshold <= 3, MainLooper, version' # version
  PROVE  \E n \in Nat : /\ n >= Threshold
                        /\ looper # <<>> /\ Head(looper).kind # "connected"
                        /\ RecoverWith(n)
BY BoundAssumption DEF MainLooper, RunConnected, handleShareFirst, Running,
   handleAdditionalSharesProvided, handleRoomSharesPlain

\* When all stored shares belong to the secret being dealt, the registered call
\* is told that secret, if the server's threshold is at most the 3 shares
\* handleAdditionalSharesProvided asks for.
THEOREM PureSharesAlwaysRecover ==
  ASSUME Threshold <= 3
  PROVE  Spec => PureSharesRecover
<1>1. ASSUME TypeOK, [Next]_vars, version' # version, listener # None,
             \A i \in Held(shares') : shares'[i] = Head(looper).secret
      PROVE  calls'[listener].key = Head(looper).secret
  <2>1. MainLooper
    BY <1>1 DEF Next, vars, ConfirmDialog, onOpen, onFailure, onMessage,
       inviteToVideoChat, initializeCall, hangup, onDestroy, permissionsDenied
  <2>2. PICK n \in Nat : /\ n >= Threshold
                         /\ looper # <<>> /\ Head(looper).kind # "connected"
                         /\ RecoverWith(n)
    BY <1>1, <2>1, EnoughAsked
  <2>3. Head(looper).secret \in Secrets
    BY <1>1, <2>2, RunFrom, MessageFields DEF TypeOK, SessionType
  <2>4. shares' = Stored(Head(looper)) /\ Cardinality(Held(shares')) >= n
    BY <1>1, <2>2 DEF RecoverWith
  <2>5. PICK key \in Reconstructed(shares', FirstShares(shares', n)) :
          key # NoKey /\ notifyKeyRecovered(key)
    BY <1>1, <2>2, <2>4 DEF RecoverWith
  <2>6. key = Head(looper).secret
    BY <1>1, <2>2, <2>3, <2>4, <2>5, RecoversSecret
  <2> QED  BY <1>1, <2>5, <2>6 DEF notifyKeyRecovered, TypeOK, ScreenType, CallType
<1>2. TypeOK /\ [Next]_vars =>
        [version' # version /\ listener # None
           /\ (\A i \in Held(shares') : shares'[i] = Head(looper).secret)
         => calls'[listener].key = Head(looper).secret]_vars
  BY <1>1
<1> QED  BY <1>2, TypeCorrect, PTL DEF Spec, PureSharesRecover

--------------------------------------------------------------------------------
(* Recoveries that are due.                                                *)

\* The places of a looper are finitely many.
LEMMA PlacesFinite ==
  ASSUME NEW q \in Seq(Messages), NEW S \in SUBSET (1 .. Len(q))
  PROVE  S \subseteq Nat /\ IsFiniteSet(S) /\ Cardinality(S) \in Nat
<1>1. IsFiniteSet(1 .. Len(q))
  BY FS_Interval
<1>2. IsFiniteSet(S)
  BY <1>1, FS_Subset
<1> QED  BY <1>2, FS_CardinalityType

\* Completing is a set of places in the looper, before and after a step.
LEMMA CompletingFinite ==
  /\ TypeOK => /\ Completing \in SUBSET (1 .. Len(looper))
               /\ Completing \subseteq Nat
               /\ IsFiniteSet(Completing) /\ Cardinality(Completing) \in Nat
  /\ TypeOK' => IsFiniteSet(Completing') /\ Cardinality(Completing') \in Nat
<1>1. Completing \in SUBSET (1 .. Len(looper))
  BY DEF Completing
<1>2. Completing' \in SUBSET (1 .. Len(looper'))
  BY DEF Completing
<1>3. TypeOK => looper \in Seq(Messages)
  BY DEF TypeOK, SessionType
<1>4. TypeOK' => looper' \in Seq(Messages)
  BY DEF TypeOK, SessionType
<1> QED  BY <1>1, <1>2, <1>3, <1>4, PlacesFinite

\* What is posted behind a message changes nothing for it.
LEMMA AppendKeepsCompleting ==
  ASSUME TypeOK, TypeOK', UNCHANGED <<shares, version>>, NEW m \in Messages,
         looper' = Append(looper, m)
  PROVE  version' + Cardinality(Completing') >= version + Cardinality(Completing)
<1>1. /\ looper \in Seq(Messages) /\ Len(looper) \in Nat
      /\ Len(looper') = Len(looper) + 1
      /\ \A n \in 1 .. Len(looper) : looper'[n] = looper[n]
  BY PostedTo DEF TypeOK, SessionType
<1>2. ASSUME NEW n \in 1 .. Len(looper) PROVE Posted(looper', n) = Posted(looper, n)
  BY <1>1 DEF Posted
<1>3. Completing \subseteq Completing'
  <2> SUFFICES ASSUME NEW n \in Completing PROVE n \in Completing'
    OBVIOUS
  <2>1. n \in 1 .. Len(looper) /\ n \in 1 .. Len(looper')
    BY <1>1, CompletingFinite
  <2>2. /\ Dealt(shares', looper', n) = Dealt(shares, looper, n)
        /\ Stock(shares', looper', n) = Stock(shares, looper, n)
    BY <1>2, <2>1 DEF Dealt, Stock
  <2> QED  BY <1>1, <2>1, <2>2 DEF Completing
<1>4. IsFiniteSet(Completing') /\ Cardinality(Completing') \in Nat
  BY CompletingFinite
<1>5. Cardinality(Completing) <= Cardinality(Completing')
  BY <1>3, <1>4, FS_Subset
<1> QED  BY <1>4, <1>5, CompletingFinite DEF TypeOK, ShareType

\* What putting the shares of a message does to the map.
LEMMA StoredShares ==
  ASSUME TypeOK, NEW m \in Messages, m.kind # "connected"
  PROVE  /\ Held(Stored(m)) = Held(shares) \cup m.indexes
         /\ \A i \in Held(Stored(m)) :
              \/ i \in m.indexes /\ Stored(m)[i] = m.secret
              \/ i \in Held(shares) /\ Stored(m)[i] = shares[i]
<1>1. m.secret # NoShare /\ m.indexes \subseteq Indexes
  BY MessageFields, ShareAssumption
<1>2. \A i \in Indexes : Stored(m)[i] = IF i \in m.indexes THEN m.secret ELSE shares[i]
  BY DEF Stored
<1> QED  BY <1>1, <1>2 DEF Held

\* Handling the first message moves what the others find from the looper into
\* the map, and loses none of it.
LEMMA TailKeepsOthers ==
  ASSUME TypeOK, TypeOK', looper # <<>>, looper' = Tail(looper),
         \/ Head(looper).kind = "connected" /\ UNCHANGED shares
         \/ Head(looper).kind # "connected" /\ shares' = Stored(Head(looper)),
         NEW n \in Completing, n # 1
  PROVE  n - 1 \in Completing'
<1>1. /\ looper \in Seq(Messages) /\ Len(looper) \in Nat
      /\ Len(looper') = Len(looper) - 1 /\ Head(looper) = looper[1]
      /\ Head(looper) \in Messages
      /\ \A k \in 1 .. Len(looper) - 1 : looper'[k] = looper[k + 1]
  BY RunFrom DEF TypeOK, SessionType
<1>2. /\ n \in 1 .. Len(looper) /\ n - 1 \in 1 .. Len(looper')
      /\ looper'[n - 1] = looper[n]
      /\ looper[n].kind \in {"additional", "plain"}
      /\ \E s \in Usable : Dealt(shares, looper, n) = {s}
      /\ Cardinality(Stock(shares, looper, n)) >= Threshold
  BY <1>1 DEF Completing
<1>3. Posted(looper, n) = Posted(looper', n - 1) \cup
        (IF Head(looper).kind = "connected" THEN {} ELSE {Head(looper)})
  <2>1. ASSUME NEW k \in 1 .. n, looper[k].kind # "connected"
        PROVE  \/ looper[k] = Head(looper) /\ Head(looper).kind # "connected"
               \/ looper[k] \in Posted(looper', n - 1)
    <3>1. CASE k = 1
      BY <1>1, <2>1, <3>1
    <3>2. CASE k # 1
      <4>1. k - 1 \in 1 .. n - 1 /\ k - 1 \in 1 .. Len(looper) - 1
            /\ looper'[k - 1] = looper[k]
        BY <1>1, <1>2, <3>2
      <4> QED  BY <2>1, <4>1 DEF Posted
    <3> QED  BY <3>1, <3>2
  <2>2. ASSUME NEW k \in 1 .. n - 1, looper'[k].kind # "connected"
        PROVE  looper'[k] \in Posted(looper, n)
    <3>1. k + 1 \in 1 .. n /\ looper'[k] = looper[k + 1]
      BY <1>1, <1>2
    <3> QED  BY <2>2, <3>1 DEF Posted
  <2>3. Head(looper).kind # "connected" => Head(looper) \in Posted(looper, n)
    BY <1>1, <1>2 DEF Posted
  <2> QED  BY <2>1, <2>2, <2>3 DEF Posted
<1>4. Stock(shares', looper', n - 1) = Stock(shares, looper, n)
  <2>1. CASE Head(looper).kind = "connected"
    BY <1>3, <2>1 DEF Stock
  <2>2. CASE Head(looper).kind # "connected"
    <3>1. Held(shares') = Held(shares) \cup Head(looper).indexes
      BY <1>1, <2>2, StoredShares
    <3> QED  BY <1>3, <2>2, <3>1 DEF Stock
  <2> QED  BY <2>1, <2>2
<1>5. Dealt(shares', looper', n - 1) \subseteq Dealt(shares, looper, n)
  <2>1. \A m \in Posted(looper', n - 1) : m \in Posted(looper, n)
    BY <1>3
  <2>2. CASE Head(looper).kind = "connected"
    BY <2>1, <2>2 DEF Dealt
  <2>3. CASE Head(looper).kind # "connected"
    <3>1. Head(looper) \in Posted(looper, n)
      BY <1>3, <2>3
    <3>2. \A i \in Held(shares') : shares'[i] \in Dealt(shares, looper, n)
      BY <1>1, <2>3, <3>1, StoredShares DEF Dealt
    <3> QED  BY <2>1, <3>2 DEF Dealt
  <2> QED  BY <2>2, <2>3
<1>6. looper[n].secret \in Dealt(shares', looper', n - 1)
  <2>1. looper'[n - 1] \in Posted(looper', n - 1)
    BY <1>1, <1>2 DEF Posted
  <2> QED  BY <1>2, <2>1 DEF Dealt
<1>7. \E s \in Usable : Dealt(shares', looper', n - 1) = {s}
  BY <1>2, <1>5, <1>6
<1> QED  BY <1>2, <1>4, <1>7 DEF Completing

\* Handling the first message keeps the recoveries that are due, if the version
\* counts the one of that message.
LEMMA HandlingKeepsCompleting ==
  ASSUME TypeOK, TypeOK', looper # <<>>, looper' = Tail(looper),
         \/ Head(looper).kind = "connected" /\ UNCHANGED shares
         \/ Head(looper).kind # "connected" /\ shares' = Stored(Head(looper)),
         version' >= version, 1 \in Completing => version' = version + 1
  PROVE  version' + Cardinality(Completing') >= version + Cardinality(Completing)
<1> DEFINE Others == Completing \ {1}
           f == [n \in Others |-> n - 1]
<1>1. /\ IsFiniteSet(Completing) /\ Cardinality(Completing) \in Nat
      /\ IsFiniteSet(Completing') /\ Cardinality(Completing') \in Nat
      /\ Others \subseteq Nat
  BY CompletingFinite
<1>2. \A n \in Others : n - 1 \in Completing'
  BY TailKeepsOthers
<1>3. f \in Injection(Others, Completing')
  BY <1>1, <1>2 DEF Injection, IsInjective
<1>4. IsFiniteSet(Others) /\ Cardinality(Others) \in Nat
  BY <1>1, FS_RemoveElement, FS_CardinalityType
<1>5. Cardinality(Others) <= Cardinality(Completing')
  BY <1>1, <1>3, FS_Injection
<1>6. Cardinality(Others) = IF 1 \in Completing THEN Cardinality(Completing) - 1
                                                ELSE Cardinality(Completing)
  BY <1>1, FS_RemoveElement
<1>7. version \in Nat /\ version' \in Nat
  BY DEF TypeOK, ShareType
<1> QED  BY <1>1, <1>4, <1>5, <1>6, <1>7

\* The message that completes the threshold recovers the key when it is handled.
LEMMA DueIsRecovered ==
  ASSUME TypeOK, looper # <<>>, Head(looper).kind # "connected",
         RecoverWith(Threshold), 1 \in Completing
  PROVE  version' = version + 1
<1> DEFINE m == Head(looper)
           map == Stored(m)
<1>1. m \in Messages /\ m = looper[1]
  BY RunFrom DEF TypeOK, SessionType
<1>2. Posted(looper, 1) = {m}
  BY <1>1 DEF Posted
<1>3. PICK s \in Usable : Dealt(shares, looper, 1) = {s}
  BY DEF Completing
<1>4. m.secret = s /\ \A i \in Held(shares) : shares[i] = s
  BY <1>2, <1>3 DEF Dealt
<1>5. Held(map) = Stock(shares, looper, 1)
  BY <1>1, <1>2, StoredShares DEF Stock
<1>6. Cardinality(Held(map)) >= Threshold
  BY <1>5 DEF Completing
<1>7. \A i \in Held(map) : map[i] = s
  BY <1>1, <1>4, StoredShares
<1>8. Reconstructed(map, FirstShares(map, Threshold)) = {s}
  BY <1>6, <1>7, RecoversSecret, UsableType, BoundAssumption
<1>9. s # NoKey
  BY ShareAssumption, UsableType
<1> QED  BY <1>6, <1>8, <1>9 DEF RecoverWith, notifyKeyRecovered

\* A message that does not recover keys completes nothing.
LEMMA NotDue ==
  ASSUME TypeOK, looper # <<>>, Head(looper).kind \in {"connected", "first"}
  PROVE  1 \notin Completing
BY RunFrom DEF TypeOK, SessionType, Completing

\* No step loses a recovery that is due, if the server's threshold is the 3 that
\* handleAdditionalSharesProvided assumes.  Only a secret that this device can
\* make a key of is ever due (Usable): below Android 8 the theorem promises
\* nothing, since there reconstructSm4Key returns null.
THEOREM CompletionsAlwaysKept ==
  ASSUME Threshold = 3
  PROVE  Spec => CompletionsKept
<1> DEFINE Kept == version' + Cardinality(Completing')
                     >= version + Cardinality(Completing)
<1>1. ASSUME TypeOK, TypeOK', [Next]_vars PROVE Kept
  <2>0. version \in Nat /\ Cardinality(Completing) \in Nat
    BY <1>1, CompletingFinite DEF TypeOK, ShareType
  <2>1. CASE UNCHANGED <<looper, shares, version>>
    <3>1. Completing' = Completing
      BY <2>1 DEF Completing, Stock, Dealt, Posted, Held
    <3> QED  BY <2>0, <2>1, <3>1
  <2>2. CASE \E c \in Conns : onOpen(c)
    <3>1. PICK c \in Conns : onOpen(c)
      BY <2>2
    <3>2. [kind |-> "connected", conn |-> c] \in Messages
      BY DEF Messages, ConnectedMessages
    <3> QED  BY <1>1, <3>1, <3>2, AppendKeepsCompleting DEF onOpen
  <2>3. CASE \E c \in Conns, r \in Rooms, m \in ShareMessages : onMessage(c, r, m)
    <3>1. PICK m \in ShareMessages : \E c \in Conns, r \in Rooms : onMessage(c, r, m)
      BY <2>3
    <3>2. m \in Messages
      BY DEF Messages
    <3> QED  BY <1>1, <3>1, <3>2, AppendKeepsCompleting DEF onMessage
  <2>4. CASE RunConnected \/ handleShareFirst
    <3>1. /\ looper # <<>> /\ looper' = Tail(looper) /\ version' = version
          /\ Head(looper).kind \in {"connected", "first"}
          /\ \/ Head(looper).kind = "connected" /\ UNCHANGED shares
             \/ Head(looper).kind # "connected" /\ shares' = Stored(Head(looper))
      BY <2>4 DEF RunConnected, handleShareFirst, Running
    <3>2. 1 \notin Completing
      BY <1>1, <3>1, NotDue
    <3> QED  BY <1>1, <2>0, <3>1, <3>2, HandlingKeepsCompleting
  <2>5. CASE handleAdditionalSharesProvided \/ handleRoomSharesPlain
    <3>1. /\ looper # <<>> /\ Head(looper).kind # "connected"
          /\ RecoverWith(Threshold)
      BY <2>5 DEF handleAdditionalSharesProvided, handleRoomSharesPlain, Running
    <3>2. looper' = Tail(looper) /\ shares' = Stored(Head(looper))
      BY <3>1 DEF RecoverWith
    <3>3. version' = version \/ version' = version + 1
      BY <3>1 DEF RecoverWith, notifyKeyRecovered
    <3>4. 1 \in Completing => version' = version + 1
      BY <1>1, <3>1, DueIsRecovered
    <3> QED  BY <1>1, <2>0, <3>1, <3>2, <3>3, <3>4, HandlingKeepsCompleting
  <2>6. CASE \/ \E c \in Conns, r \in Rooms : ConfirmDialog(c, r)
             \/ \E c \in Conns : onFailure(c)
             \/ inviteToVideoChat \/ permissionsDenied
             \/ \E k \in Calls : initializeCall(k) \/ hangup(k) \/ onDestroy(k)
             \/ UNCHANGED vars
    BY <2>1, <2>6 DEF ConfirmDialog, onFailure, inviteToVideoChat,
       permissionsDenied, initializeCall, hangup, onDestroy, vars
  <2> QED  BY <1>1, <2>2, <2>3, <2>4, <2>5, <2>6 DEF Next, MainLooper
<1>2. TypeOK /\ TypeOK' /\ [Next]_vars => [Kept]_vars
  BY <1>1
<1> QED  BY <1>2, TypeCorrect, PTL DEF Spec, CompletionsKept

================================================================================
