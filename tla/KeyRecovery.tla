------------------------------ MODULE KeyRecovery ------------------------------
(***************************************************************************)
(* The key network client of one device: the singleton KNSConnectManager,  *)
(* the WebSocketManager objects it creates, the dialogs of MainActivity    *)
(* and ContactsActivity that start sessions, and the life of the call      *)
(* screens (VideoChatActivity) that listen for recovered keys.             *)
(*                                                                         *)
(* Socket callbacks run on OkHttp threads and only post to the main        *)
(* looper, so the main thread takes one runnable, one user click or one    *)
(* activity start at a time.  The key server is external: once a room was  *)
(* created over a connection it may send shares of that room's secrets in  *)
(* any of the three messages the client handles.  A share is the secret it *)
(* was cut from and its index.                                             *)
(***************************************************************************)
EXTENDS Naturals, Sequences, FiniteSets

CONSTANTS
  Rooms, Secrets,
  SecretsOf,   \* the secrets the server deals in a room
  Indexes,     \* share indexes, 1 .. totalShares
  Batches,     \* bound: the sets of indexes one message may bring
  Threshold,   \* shares needed: 3
  DecodesBase64, \* SDK_INT >= 26: the reconstructor can decode a share
  KeySized,    \* the secrets of 16 bytes whose shares are well-formed Base64
  NoShare,     \* no share is stored under an index
  NoKey,       \* a call that was told no key yet
  Garbled,     \* interpolation over shares of different secrets
  MaxConns,    \* bound: sessions started
  MaxCalls,    \* bound: call screens opened
  MaxMessages  \* bound: share messages the server sends

Conns == 1 .. MaxConns
Calls == 1 .. MaxCalls
None == 0

ASSUME ShareAssumption ==
  /\ SecretsOf \in [Rooms -> SUBSET Secrets]
  /\ Indexes \subseteq Nat /\ IsFiniteSet(Indexes)
  /\ Batches \subseteq SUBSET Indexes
  /\ DecodesBase64 \in BOOLEAN /\ KeySized \subseteq Secrets
  /\ NoShare \notin Secrets
  /\ NoKey \notin Secrets \cup {Garbled}
  /\ Garbled \notin Secrets
ASSUME BoundAssumption ==
  /\ Threshold \in Nat \ {0}
  /\ MaxConns \in Nat
  /\ MaxCalls \in Nat
  /\ MaxMessages \in Nat

VARIABLES
  conn,       \* the WebSocketManager objects: room, socket state, whether
              \* close() was called, and the rooms create_room asked for
  wsManager,  \* the field wsManager: the connection it points to, or None
  looper,     \* runnables posted to the main thread
  shares,     \* shamirSharesMap
  version,    \* currentKeyVersion
  listener,   \* keyRecoveryListener: the call that registered last
  launching,  \* VideoChatActivity starts requested and not yet created
  calls,      \* the call screens: state, and the key and version they hold
  sent,       \* share messages the server has sent
  crashed     \* an exception escaped to the main looper

vars == <<conn, wsManager, looper, shares, version, listener, launching,
          calls, sent, crashed>>

--------------------------------------------------------------------------------
RoomOrNone == Rooms \cup {NoKey}

ConnType == [state : {"unused", "connecting", "open", "closed"},
             room : RoomOrNone, closing : BOOLEAN, created : SUBSET Rooms]
CallType == [state : {"none", "live", "closed"},
             key : Secrets \cup {Garbled, NoKey}, version : Nat]
ShareMessages == [kind : {"first", "additional", "plain"}, secret : Secrets,
                  indexes : Batches]
ConnectedMessages == [kind : {"connected"}, conn : Conns]

Messages == ShareMessages \cup ConnectedMessages

SessionType ==
  /\ conn \in [Conns -> ConnType]
  /\ wsManager \in Conns \cup {None}
  /\ looper \in Seq(Messages)

ShareType ==
  /\ shares \in [Indexes -> Secrets \cup {NoShare}]
  /\ version \in Nat
  /\ sent \in 0 .. MaxMessages
  /\ crashed \in BOOLEAN

ScreenType ==
  /\ listener \in Calls \cup {None}
  /\ launching \in Nat
  /\ calls \in [Calls -> CallType]

TypeOK == SessionType /\ ShareType /\ ScreenType

Init ==
  /\ conn = [c \in Conns |-> [state |-> "unused", room |-> NoKey,
                              closing |-> FALSE, created |-> {}]]
  /\ wsManager = None
  /\ looper = <<>>
  /\ shares = [i \in Indexes |-> NoShare]
  /\ version = 0
  /\ listener = None
  /\ launching = 0
  /\ calls = [k \in Calls |-> [state |-> "none", key |-> NoKey, version |-> 0]]
  /\ sent = 0
  /\ crashed = FALSE

Live == {k \in Calls : calls[k].state = "live"}

\* The call screen in front, which the user's clicks go to.
OnTop(k) == k \in Live /\ \A j \in Live : j <= k

--------------------------------------------------------------------------------
(* Sessions and sockets.                                                   *)

\* A new manager replaces the field, and the old one is left as it is.
establishWebSocketConnection(c, r) ==
  /\ conn[c].state = "unused"
  /\ \A d \in Conns : d < c => conn[d].state # "unused"
  /\ conn' = [conn EXCEPT ![c] = [state |-> "connecting", room |-> r,
                                  closing |-> FALSE, created |-> {}]]
  /\ wsManager' = c
  /\ UNCHANGED launching

\* The call screen is started, unless the user field was emptied meanwhile.
enterVideoChat == launching' \in {launching, launching + 1}

\* The positive button of the create and join dialogs: with encryption on a
\* session is started, with encryption off the call screen.
ConfirmDialog(c, r) ==
  /\ ~crashed
  /\ Live = {}
  /\ \/ establishWebSocketConnection(c, r)
     \/ /\ \E k \in Calls : calls[k].state = "none"
        /\ launching = 0
        /\ enterVideoChat
        /\ UNCHANGED <<conn, wsManager>>
  /\ UNCHANGED <<looper, shares, version, listener, calls, sent, crashed>>

\* onOpen posts the runnable that will create the room.
onOpen(c) ==
  /\ ~crashed
  /\ conn[c].state = "connecting"
  /\ conn' = [conn EXCEPT ![c].state = "open"]
  /\ looper' = Append(looper, [kind |-> "connected", conn |-> c])
  /\ UNCHANGED <<wsManager, shares, version, listener, launching, calls, sent,
                 crashed>>

\* onFailure and onClosed only log: the manager keeps its webSocket field.
onFailure(c) ==
  /\ ~crashed
  /\ conn[c].state \in {"connecting", "open"}
  /\ conn' = [conn EXCEPT ![c].state = "closed"]
  /\ UNCHANGED <<wsManager, looper, shares, version, listener, launching,
                 calls, sent, crashed>>

\* A message of the server on an open connection, over which the room was
\* created; onMessage posts it.
onMessage(c, r, m) ==
  /\ ~crashed
  /\ sent < MaxMessages
  /\ conn[c].state = "open"
  /\ r \in conn[c].created
  /\ m.secret \in SecretsOf[r]
  /\ m.kind = "first" => Cardinality(m.indexes) = 1
  /\ looper' = Append(looper, m)
  /\ sent' = sent + 1
  /\ UNCHANGED <<conn, wsManager, shares, version, listener, launching, calls,
                 crashed>>

--------------------------------------------------------------------------------
(* Runnables of the main looper.                                           *)

Running(kind) == ~crashed /\ looper # <<>> /\ Head(looper).kind = kind

\* The runnable of onConnected uses the field wsManager, which may have changed
\* since the socket opened.  send() after close() or on a failed socket is
\* lost; before the socket is open it is queued.
RunConnected ==
  /\ Running("connected")
  /\ looper' = Tail(looper)
  /\ IF wsManager = None
       THEN /\ crashed' = TRUE
            /\ UNCHANGED conn
       ELSE /\ UNCHANGED crashed
            /\ conn' = IF conn[wsManager].state = "closed" \/ conn[wsManager].closing
                       THEN conn
                       ELSE [conn EXCEPT ![wsManager].created =
                               @ \cup {conn[Head(looper).conn].room}]
  /\ UNCHANGED <<wsManager, shares, version, listener, launching, calls, sent>>

\* Mutated form: the shares of the message replace those of the map.
Stored_only(m) ==
  [i \in Indexes |-> IF i \in m.indexes THEN m.secret ELSE NoShare]

\* shamirSharesMap.put for every share of the message.
Stored(m) ==
  [i \in Indexes |-> IF i \in m.indexes THEN m.secret ELSE shares[i]]

Held(map) == {i \in Indexes : map[i] # NoShare}

\* Mutated form: subList(0, n - 1).
FirstShares_short(map, n) ==
  {i \in Held(map) : Cardinality({j \in Held(map) : j < i}) < n - 1}

\* sort by index, subList(0, n)
FirstShares(map, n) ==
  {i \in Held(map) : Cardinality({j \in Held(map) : j < i}) < n}

\* The secrets of which this device can make a key.  Below Android 8 a share
\* decodes to no bytes at all, and the reconstruction ends in an exception.
Usable == IF DecodesBase64 THEN KeySized ELSE {}

\* The keys a handler may go on with, for the shares at those indexes: the
\* secret if they all come from it and determine its polynomial, otherwise the
\* value of some other polynomial.  There is none if reconstructSm4Key failed
\* (a share that does not decode, lengths that differ, two equal x coordinates)
\* or the key is not 16 bytes long.
Reconstructed(map, used) ==
  IF /\ Cardinality(used) >= Threshold
     /\ \E s \in Usable : \A i \in used : map[i] = s
    THEN {map[i] : i \in used}
    ELSE {NoKey} \cup {g \in {Garbled} : \A i \in used : map[i] \in Usable}

\* notifyKeyRecovered: count, then tell whoever is registered, open or not.
notifyKeyRecovered(key) ==
  /\ version' = version + 1
  /\ calls' = IF listener = None THEN calls
              ELSE [calls EXCEPT ![listener].key = key,
                                 ![listener].version = version + 1]

\* Mutated form: more than n shares are asked for.
RecoverWith_more(n) ==
  LET map == Stored(Head(looper))
  IN  /\ looper' = Tail(looper)
      /\ shares' = map
      /\ IF Cardinality(Held(map)) > n
           THEN \E key \in Reconstructed(map, FirstShares(map, n)) :
                  IF key = NoKey THEN UNCHANGED <<version, calls>>
                                 ELSE notifyKeyRecovered(key)
           ELSE UNCHANGED <<version, calls>>
      /\ UNCHANGED <<conn, wsManager, listener, launching, sent, crashed>>

RecoverWith(n) ==
  LET map == Stored(Head(looper))
  IN  /\ looper' = Tail(looper)
      /\ shares' = map
      /\ IF Cardinality(Held(map)) >= n
           THEN \E key \in Reconstructed(map, FirstShares(map, n)) :
                  IF key = NoKey THEN UNCHANGED <<version, calls>>
                                 ELSE notifyKeyRecovered(key)
           ELSE UNCHANGED <<version, calls>>
      /\ UNCHANGED <<conn, wsManager, listener, launching, sent, crashed>>

\* The number of shares is written in the handler: 3.
handleAdditionalSharesProvided ==
  Running("additional") /\ RecoverWith(3)

\* The number of shares comes with the message.
handleRoomSharesPlain ==
  Running("plain") /\ RecoverWith(Threshold)

\* The first share is stored and the call screen is started; no recovery.
handleShareFirst ==
  /\ Running("first")
  /\ looper' = Tail(looper)
  /\ shares' = Stored(Head(looper))
  /\ enterVideoChat
  /\ UNCHANGED <<conn, wsManager, version, listener, calls, sent, crashed>>

--------------------------------------------------------------------------------
(* Call screens.                                                           *)

\* A contact is invited: the call screen starts without any key session.
inviteToVideoChat ==
  /\ ~crashed
  /\ Live = {}
  /\ launching = 0
  /\ \E k \in Calls : calls[k].state = "none"
  /\ launching' = launching + 1
  /\ UNCHANGED <<conn, wsManager, looper, shares, version, listener, calls,
                 sent, crashed>>

\* Mutated form: the screen is initialized without having been requested.
initializeCall_unrequested(k) ==
  /\ ~crashed
  /\ calls[k].state = "none"
  /\ \A j \in Calls : j < k => calls[j].state # "none"
  /\ launching' = launching - 1
  /\ calls' = [calls EXCEPT ![k].state = "live"]
  /\ listener' = k
  /\ UNCHANGED <<conn, wsManager, looper, shares, version, sent, crashed>>

\* onCreate (or onRequestPermissionsResult) reaches initializeCall: the new
\* RoomClient registers itself, replacing whoever was registered.
initializeCall(k) ==
  /\ ~crashed
  /\ launching > 0
  /\ calls[k].state = "none"
  /\ \A j \in Calls : j < k => calls[j].state # "none"
  /\ launching' = launching - 1
  /\ calls' = [calls EXCEPT ![k].state = "live"]
  /\ listener' = k
  /\ UNCHANGED <<conn, wsManager, looper, shares, version, sent, crashed>>

\* The user denies a permission: the activity finishes without a RoomClient.
permissionsDenied ==
  /\ ~crashed
  /\ launching > 0
  /\ launching' = launching - 1
  /\ UNCHANGED <<conn, wsManager, looper, shares, version, listener, calls,
                 sent, crashed>>

\* Mutated form: disconnecting starts the versions again.
hangup_resetsVersion(k) ==
  /\ ~crashed
  /\ OnTop(k)
  /\ calls' = [calls EXCEPT ![k].state = "closed"]
  /\ conn' = IF wsManager = None THEN conn
             ELSE [conn EXCEPT ![wsManager].closing = TRUE]
  /\ wsManager' = None
  /\ version' = 0
  /\ UNCHANGED <<looper, shares, listener, launching, sent, crashed>>

\* The hang-up button: close the call, then disconnect the manager the field
\* points to.  isConnected() only asks whether connect() was called, and after
\* close() messages still arrive until the server closes too.
hangup(k) ==
  /\ ~crashed
  /\ OnTop(k)
  /\ calls' = [calls EXCEPT ![k].state = "closed"]
  /\ conn' = IF wsManager = None THEN conn
             ELSE [conn EXCEPT ![wsManager].closing = TRUE]
  /\ wsManager' = None
  /\ UNCHANGED <<looper, shares, version, listener, launching, sent, crashed>>

\* The back button: onDestroy closes the RoomClient and nothing else.
onDestroy(k) ==
  /\ ~crashed
  /\ OnTop(k)
  /\ calls' = [calls EXCEPT ![k].state = "closed"]
  /\ UNCHANGED <<conn, wsManager, looper, shares, version, listener, launching,
                 sent, crashed>>

--------------------------------------------------------------------------------
MainLooper ==
  \/ RunConnected
  \/ handleAdditionalSharesProvided
  \/ handleRoomSharesPlain
  \/ handleShareFirst

Next ==
  \/ \E c \in Conns, r \in Rooms : ConfirmDialog(c, r)
  \/ \E c \in Conns : onOpen(c) \/ onFailure(c)
  \/ \E c \in Conns, r \in Rooms, m \in ShareMessages : onMessage(c, r, m)
  \/ MainLooper
  \/ inviteToVideoChat
  \/ \E k \in Calls : initializeCall(k) \/ hangup(k) \/ onDestroy(k)
  \/ permissionsDenied

Spec == Init /\ [][Next]_vars

\* The main looper runs what was posted to it; users, sockets and the server owe
\* nothing.
FairSpec == Spec /\ WF_vars(MainLooper)

--------------------------------------------------------------------------------
(* Properties.                                                             *)

\* A later call screen holds a strictly later key version than any earlier one
\* that was told a key, and nobody holds a version that was not recovered yet:
\* replacing the listener never lets an old call be told a newer key than the
\* call that replaced it (setKeyRecoveryListener, notifyKeyRecovered).
VersionsOrdered ==
  /\ \A k \in Calls : calls[k].version <= version
  /\ \A j, k \in Calls :
       j < k /\ calls[k].version > 0 => calls[j].version < calls[k].version

\* When every stored share belongs to the secret being dealt, the key that the
\* registered call is told is that secret: threshold, sorting and the choice of
\* the first shares lose nothing (handleAdditionalSharesProvided,
\* handleRoomSharesPlain).
PureSharesRecover ==
  [][ version' # version /\ listener # None
        /\ (\A i \in Held(shares') : shares'[i] = Head(looper).secret)
      => calls'[listener].key = Head(looper).secret ]_vars

\* The key that the registered call is told is always the one the server just
\* dealt shares of (KeyRecoveryListener.onKeyRecovered: "the SM4 key after
\* recovery").
RecoveredKeyIsDealt ==
  [][ version' # version /\ listener # None
      => calls'[listener].key = Head(looper).secret ]_vars

\* The share messages among the first n of a looper q.
Posted(q, n) == {q[k] : k \in {j \in 1 .. n : q[j].kind # "connected"}}

\* When message n has been handled: the secrets with a share in the map, unless
\* overwritten, and the indexes with a share.
Dealt(map, q, n) ==
  {map[i] : i \in Held(map)} \cup {m.secret : m \in Posted(q, n)}
Stock(map, q, n) == Held(map) \cup UNION {m.indexes : m \in Posted(q, n)}

\* The posted messages that will find the threshold reached when they are
\* handled, by shares of one secret that this device can make a key of: the
\* stored shares and those of the messages posted before count.
Completing ==
  {n \in 1 .. Len(looper) :
     /\ looper[n].kind \in {"additional", "plain"}
     /\ \E s \in Usable : Dealt(shares, looper, n) = {s}
     /\ Cardinality(Stock(shares, looper, n)) >= Threshold}

\* No step loses a recovery that is due: a message that would complete the
\* threshold with shares of one usable secret goes on to do so whatever is
\* handled, posted, opened or closed before it, and when it is handled the
\* version counts it (handleAdditionalSharesProvided, handleRoomSharesPlain,
\* notifyKeyRecovered).  Nothing is due for a secret that is not 16 bytes long,
\* for any secret below Android 8, and when the last share comes in a
\* share_first message: there the code recovers nothing and tells nobody.
CompletionsKept ==
  [][ version' + Cardinality(Completing')
        >= version + Cardinality(Completing) ]_vars

\* Every posted message that completes the threshold with shares of one usable
\* secret (16 bytes, Android 8 or later) leads to a recovery of its own, whatever
\* is posted before and after it and whatever the user does meanwhile, unless
\* the application crashes (main looper fair).
SharesLeadToRecovery ==
  \A v \in 1 .. MaxMessages :
    (version + Cardinality(Completing) >= v) ~> (version >= v \/ crashed)

--------------------------------------------------------------------------------
(* The inductive invariants behind TypeOK and VersionsOrdered.             *)

\* A connection that was started is for a room, and a runnable of onConnected
\* is about such a connection.
SessionInv ==
  /\ \A c \in Conns : conn[c].state # "unused" => conn[c].room \in Rooms
  /\ \A n \in 1 .. Len(looper) :
       looper[n].kind = "connected" => conn[looper[n].conn].state # "unused"

\* The call that registered last is the last one that was opened: no call
\* beyond it was told anything, and no call a version beyond the counter.
ListenerInv ==
  \A k \in Calls :
    /\ calls[k].state # "none" <=> k <= listener
    /\ k > listener => calls[k].version = 0
    /\ calls[k].version <= version

================================================================================
