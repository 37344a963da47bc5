------------------------- MODULE CryptoHandlesProofs -------------------------
(***************************************************************************)
(* Proof that no native encryptor or decryptor is used after it is         *)
(* deleted, for any number of objects, threads, senders and receivers.     *)
(***************************************************************************)
EXTENDS CryptoHandles, FiniteSetTheorems, TLAPS

\* The senders and receivers that hold a reference to o.
HoldersOf(f, o) == {h \in Holders : f[h] = o}
Uses(o) == HoldersOf(frame, o)

\* The thread that owns o is at step s of a call about o.
OwnerAt(o, s) == op[Owner[o]] = s /\ arg[Owner[o]] = o

\* 1 from the construction until dispose() has given the reference of the Java
\* field back; a constructor on its way out holds it for the field.
JavaRef(o) ==
  IF OwnerAt(o, "built") \/ (ptr[o] /\ ~OwnerAt(o, "zero")) THEN 1 ELSE 0

\* The count covers the reference of the Java field, one for each sender and
\* receiver, and one nobody ever gives back.
Counted ==
  \A o \in Objects :
    /\ life[o] # "freed"
    /\ life[o] = "live" => refs[o] >= 1 + JavaRef(o) + Cardinality(Uses(o))

\* An object that is not created is known to nobody.
AbsentUnknown ==
  \A o \in Objects :
    life[o] = "absent" => ~ptr[o] /\ refs[o] = 0 /\ Uses(o) = {}

\* What a call under way may count on.
CallsSound ==
  \A t \in Callers :
    /\ op[t] \in Using \cup {"zero"} => arg[t] \in Objects /\ life[arg[t]] # "absent"
    /\ op[t] = "attach" /\ arg[t] # NoObject => life[arg[t]] # "absent"
    /\ op[t] \in {"release", "zero"} => Owner[arg[t]] = t /\ ptr[arg[t]]
    /\ op[t] \in {"getKey", "getIV", "construct"} =>
         arg[t] \in Objects /\ life[arg[t]] = "absent" /\ Owner[arg[t]] = t
    /\ op[t] = "built" =>
         arg[t] \in Objects /\ life[arg[t]] = "live" /\ Owner[arg[t]] = t

\* Each thread has pinned just what its place in the method says; on its way
\* out, just what it is about to release.
Pinned(t) ==
  CASE op[t] \in {"getIV", "pinned"}      -> {"key"}
    [] op[t] = "construct"                -> {"key", "iv"}
    [] op[t] \in {"built", "returning"}   -> todo[t]
    [] OTHER                              -> {}

PinsSound == \A t \in Callers : pins[t] = Pinned(t)

IInv ==
  /\ TypeOK
  /\ Counted
  /\ AbsentUnknown
  /\ CallsSound
  /\ PinsSound

-----------------------------------------------------------------------------
\* The senders and receivers of an object are a finite set, so they can be counted.
LEMMA HolderSets ==
  ASSUME NEW f, NEW o
  PROVE  IsFiniteSet(HoldersOf(f, o)) /\ Cardinality(HoldersOf(f, o)) \in Nat
<1>1. HoldersOf(f, o) \in SUBSET Holders
  BY DEF HoldersOf
<1>2. IsFiniteSet(HoldersOf(f, o))
  BY <1>1, HoldersAssumption, FS_Subset
<1> QED BY <1>2, FS_CardinalityType

\* The number of holders of o when one of them gives up x for y.
Moved(n, o, x, y) == (n + (IF o = y THEN 1 ELSE 0)) - (IF o = x THEN 1 ELSE 0)

\* When a holder d exchanges its object, only the old and the new object
\* gain or lose a holder, each by one.
LEMMA Recount ==
  ASSUME NEW S, IsFiniteSet(S), NEW T, NEW d, NEW o, NEW x, NEW y, d \in S <=> o = x,
         o = y => T = S \cup {d},
         o # y => T = S \ {d}
  PROVE  Cardinality(T) = Moved(Cardinality(S), o, x, y)
<1>1. Cardinality(S) \in Nat
  BY FS_CardinalityType
<1>2. Cardinality(S \cup {d}) = IF d \in S THEN Cardinality(S) ELSE Cardinality(S) + 1
  BY FS_AddElement
<1>3. Cardinality(S \ {d}) = IF d \in S THEN Cardinality(S) - 1 ELSE Cardinality(S)
  BY FS_RemoveElement
<1>4. CASE o = y
  <2>1. Cardinality(T) = IF d \in S THEN Cardinality(S) ELSE Cardinality(S) + 1
    BY <1>2, <1>4
  <2>2. (IF o = y THEN 1 ELSE 0) = 1 BY <1>4
  <2> QED BY <1>1, <2>1, <1>4, <2>2 DEF Moved
<1>5. CASE o # y
  <2>1. Cardinality(T) = IF d \in S THEN Cardinality(S) - 1 ELSE Cardinality(S)
    BY <1>3, <1>5
  <2> QED BY <1>1, <2>1, <1>5 DEF Moved
<1> QED BY <1>4, <1>5

\* Nothing exists at the start.
LEMMA InitIInv == Init => IInv
<1> SUFFICES ASSUME Init PROVE IInv
  OBVIOUS
<1>1. TypeOK BY ObjectsAssumption DEF Init, TypeOK, Ops
<1>2. Counted BY DEF Init, Counted
<1>3. AbsentUnknown BY ObjectsAssumption DEF Init, AbsentUnknown, Uses, HoldersOf
<1>4. CallsSound BY DEF Init, CallsSound, Using
<1>5. PinsSound BY DEF Init, PinsSound, Pinned
<1> QED BY <1>1, <1>2, <1>3, <1>4, <1>5 DEF IInv

\* A thread's step neither begins nor ends the time in which the reference
\* of the Java field differs from the field.
SameRef(t) ==
  \/ {op[t], op'[t]} \cap {"zero", "built"} = {}
  \/ op'[t] = op[t] /\ arg'[t] = arg[t]

\* Then no object's Java reference changes.
LEMMA SameJavaRef ==
  ASSUME UNCHANGED ptr, \A t \in Callers : SameRef(t)
  PROVE  \A o \in Objects : JavaRef(o)' = JavaRef(o)
<1> SUFFICES ASSUME NEW o \in Objects PROVE JavaRef(o)' = JavaRef(o)
  OBVIOUS
<1>1. Owner[o] \in Callers /\ SameRef(Owner[o]) BY ObjectsAssumption
<1>2. OwnerAt(o, "built")' = OwnerAt(o, "built") /\ OwnerAt(o, "zero")' = OwnerAt(o, "zero")
  BY <1>1 DEF SameRef, OwnerAt
<1> QED BY <1>2 DEF JavaRef

\* A step that touches neither objects nor holders, and is no ClearField.
LEMMA QuietKeeps ==
  ASSUME IInv, UNCHANGED <<life, refs, ptr, frame>>, TypeOK', CallsSound', PinsSound',
         \A t \in Callers : SameRef(t)
  PROVE  IInv'
<1>1. \A o \in Objects : JavaRef(o)' = JavaRef(o) /\ Uses(o)' = Uses(o)
  BY SameJavaRef DEF Uses
<1>2. Counted' /\ AbsentUnknown'
  BY <1>1 DEF IInv, Counted, AbsentUnknown
<1> QED BY <1>2 DEF IInv

\* Reading the Java field and entering a native method keeps the invariant.
LEMMA PassAddressKeeps ==
  ASSUME NEW t \in Callers, NEW o \in Objects, IInv,
         NEW next \in {"passed", "array", "release"}, PassAddress(t, o, next),
         next = "release" => Owner[o] = t
  PROVE  IInv'
<1>1. TypeOK' BY DEF IInv, PassAddress, shared, TypeOK, Ops
<1>2. CallsSound'
  BY DEF IInv, PassAddress, shared, TypeOK, AbsentUnknown, CallsSound, Using
<1>3. \A x \in Callers : SameRef(x)
  BY DEF IInv, PassAddress, shared, TypeOK, SameRef
<1>4. PinsSound'
  BY DEF IInv, PassAddress, shared, TypeOK, PinsSound, Pinned
<1> QED BY <1>1, <1>2, <1>3, <1>4, QuietKeeps DEF PassAddress, shared

\* So does entering setFrameEncryptor or setFrameDecryptor.
LEMMA PassToHolderKeeps ==
  ASSUME NEW t \in Callers, NEW o \in Objects, NEW h \in Holders, IInv,
         PassToHolder(t, o, h)
  PROVE  IInv'
<1>1. TypeOK' BY DEF IInv, PassToHolder, TypeOK, Ops
<1>2. CallsSound'
  BY DEF IInv, PassToHolder, TypeOK, AbsentUnknown, CallsSound, Using
<1>3. \A x \in Callers : SameRef(x)
  BY DEF IInv, PassToHolder, TypeOK, SameRef
<1>4. PinsSound'
  BY DEF IInv, PassToHolder, TypeOK, PinsSound, Pinned
<1> QED BY <1>1, <1>2, <1>3, <1>4, QuietKeeps DEF PassToHolder

\* So does entering the constructor of an SM4 object.
LEMMA BeginCreateKeeps ==
  ASSUME NEW t \in Callers, NEW o \in Objects, IInv, BeginCreate(t, o)
  PROVE  IInv'
<1> USE DEF BeginCreate, shared
<1>1. TypeOK' BY DEF IInv, TypeOK, Ops
<1>2. CallsSound'
  BY DEF IInv, TypeOK, AbsentUnknown, CallsSound, Using
<1>3. \A x \in Callers : SameRef(x)
  BY DEF IInv, TypeOK, SameRef
<1>4. PinsSound'
  BY DEF IInv, TypeOK, PinsSound, Pinned
<1> QED BY <1>1, <1>2, <1>3, <1>4, QuietKeeps

\* So does the pinning of an array, where the method's next step is one that
\* knows of it ...
LEMMA PinKeeps ==
  ASSUME NEW t \in Callers, NEW a \in Arrays, NEW next, IInv, Pin(t, a, next),
         \/ op[t] = "getKey" /\ a = "key" /\ next = "getIV"
         \/ op[t] = "getIV" /\ a = "iv" /\ next = "construct"
         \/ op[t] = "array" /\ a = "key" /\ next = "pinned"
  PROVE  IInv'
<1> USE DEF Pin, shared
<1>1. TypeOK' BY DEF IInv, TypeOK, Ops, Arrays
<1>2. CallsSound'
  BY DEF IInv, TypeOK, CallsSound, Using
<1>3. \A x \in Callers : SameRef(x)
  BY DEF IInv, TypeOK, SameRef
<1>4. PinsSound'
  BY DEF IInv, TypeOK, PinsSound, Pinned
<1> QED BY <1>1, <1>2, <1>3, <1>4, QuietKeeps

\* ... and a return, where the releases before it are those of the arrays
\* pinned so far.
LEMMA ReturnAfterKeeps ==
  ASSUME NEW t \in Callers, NEW r \in SUBSET Arrays, IInv, ReturnAfter(t, r),
         op[t] \in {"getKey", "getIV", "array", "passed", "copied", "pinned"},
         r = Pinned(t)
  PROVE  IInv'
<1> USE DEF ReturnAfter, shared
<1>1. TypeOK' BY DEF IInv, TypeOK, Ops
<1>2. CallsSound'
  BY DEF IInv, TypeOK, CallsSound, Using
<1>3. \A x \in Callers : SameRef(x)
  BY DEF IInv, TypeOK, SameRef
<1>4. PinsSound'
  BY DEF IInv, TypeOK, PinsSound, Pinned
<1> QED BY <1>1, <1>2, <1>3, <1>4, QuietKeeps

\* So do the steps that test, copy, pin and use the byte arrays.
LEMMA ArrayStepKeeps ==
  ASSUME NEW t \in Callers, IInv,
         \/ GetKey(t) \/ GetIV(t) \/ RejectArray(t) \/ CopyArray(t)
         \/ PinArray(t) \/ RejectLength(t) \/ Apply(t)
  PROVE  IInv'
<1>1. "key" \in Arrays /\ "iv" \in Arrays /\ {} \in SUBSET Arrays /\ {"key"} \in SUBSET Arrays
  BY DEF Arrays
<1>2. CASE CopyArray(t)
  <2> USE <1>2 DEF CopyArray, shared
  <2>1. TypeOK' BY DEF IInv, TypeOK, Ops
  <2>2. CallsSound'
    BY DEF IInv, TypeOK, CallsSound, Using
  <2>3. \A x \in Callers : SameRef(x)
    BY DEF IInv, TypeOK, SameRef
  <2>4. PinsSound'
    BY DEF IInv, TypeOK, PinsSound, Pinned
  <2> QED BY <2>1, <2>2, <2>3, <2>4, QuietKeeps
<1>3. CASE GetKey(t)
  BY <1>1, <1>3, PinKeeps, ReturnAfterKeeps DEF GetKey, Pinned
<1>4. CASE GetIV(t)
  BY <1>1, <1>4, PinKeeps, ReturnAfterKeeps DEF GetIV, Pinned
<1>5. CASE PinArray(t)
  BY <1>1, <1>5, PinKeeps, ReturnAfterKeeps DEF PinArray, Pinned
<1>6. CASE RejectArray(t) \/ RejectLength(t) \/ Apply(t)
  BY <1>1, <1>6, ReturnAfterKeeps DEF RejectArray, RejectLength, Apply, Pinned
<1> QED BY <1>2, <1>3, <1>4, <1>5, <1>6

\* A release takes an array off both lists.
LEMMA UnpinKeeps ==
  ASSUME NEW t \in Callers, IInv, Unpin(t)
  PROVE  IInv'
<1> USE DEF Unpin, shared
<1>1. TypeOK' BY DEF IInv, TypeOK
<1>2. CallsSound'
  BY DEF IInv, TypeOK, CallsSound
<1>3. \A x \in Callers : SameRef(x)
  BY DEF SameRef
<1>4. PinsSound'
  <2> SUFFICES ASSUME NEW x \in Callers PROVE pins'[x] = Pinned(x)'
    BY DEF PinsSound
  <2>1. pins[x] = Pinned(x) BY DEF IInv, PinsSound
  <2>2. CASE x = t
    <3>1. Pinned(t) = todo[t] /\ Pinned(t)' = todo'[t]
      BY DEF Pinned
    <3>2. PICK a \in todo[t] : pins'[t] = pins[t] \ {a} /\ todo'[t] = todo[t] \ {a}
      BY DEF IInv, TypeOK
    <3> QED BY <2>1, <2>2, <3>1, <3>2
  <2>3. CASE x # t
    <3>1. pins'[x] = pins[x] /\ todo'[x] = todo[x] /\ op'[x] = op[x]
      BY <2>3 DEF IInv, TypeOK
    <3> QED BY <2>1, <3>1 DEF Pinned
  <2> QED BY <2>2, <2>3
<1> QED BY <1>1, <1>2, <1>3, <1>4, QuietKeeps

\* A constructor that returns hands its reference over to the Java field.
LEMMA ReturnKeeps ==
  ASSUME NEW t \in Callers, IInv, Return(t)
  PROVE  IInv'
<1>1. TypeOK'
  BY DEF Return, IInv, TypeOK, Ops, CallsSound
<1>2. CallsSound'
  BY DEF Return, IInv, TypeOK, CallsSound, Using
<1>3. PinsSound'
  BY DEF Return, IInv, TypeOK, PinsSound, Pinned
<1>4. CASE op[t] = "built"
  <2>1. arg[t] \in Objects /\ life[arg[t]] = "live" /\ Owner[arg[t]] = t
    BY <1>4 DEF IInv, CallsSound
  <2>2. \A o \in Objects : JavaRef(o)' = JavaRef(o)
    <3> SUFFICES ASSUME NEW o \in Objects PROVE JavaRef(o)' = JavaRef(o)
      OBVIOUS
    <3>1. CASE o = arg[t]
      BY <1>4, <2>1, <3>1 DEF Return, IInv, TypeOK, JavaRef, OwnerAt
    <3>2. CASE o # arg[t] /\ Owner[o] = t
      BY <1>4, <2>1, <3>2 DEF Return, IInv, TypeOK, JavaRef, OwnerAt
    <3>3. CASE Owner[o] # t
      BY <1>4, <2>1, <3>3, ObjectsAssumption DEF Return, IInv, TypeOK, JavaRef, OwnerAt
    <3> QED BY <2>1, <3>1, <3>2, <3>3
  <2>3. \A o \in Objects : Uses(o)' = Uses(o)
    BY DEF Return, Uses
  <2>4. Counted' BY <2>2, <2>3 DEF Return, IInv, Counted
  <2>5. AbsentUnknown'
    BY <1>4, <2>1, <2>3 DEF Return, IInv, TypeOK, AbsentUnknown
  <2> QED BY <1>1, <1>2, <1>3, <2>4, <2>5 DEF IInv
<1>5. CASE op[t] # "built"
  <2>1. \A x \in Callers : SameRef(x)
    BY <1>5 DEF Return, IInv, TypeOK, SameRef
  <2> QED BY <1>1, <1>2, <1>3, <1>5, <2>1, QuietKeeps DEF Return
<1> QED BY <1>4, <1>5

-----------------------------------------------------------------------------
\* A new object has two references, of which Java holds one.
LEMMA MakeKeeps ==
  ASSUME NEW t \in Callers, NEW o \in Objects, IInv, Owner[o] = t, life[o] = "absent",
         MakeRefCounted(o), UNCHANGED <<frame, closed, arg, dest, pins>>,
         \/ /\ op[t] = "idle" /\ UNCHANGED <<op, todo>>
            /\ ptr' = [ptr EXCEPT ![o] = TRUE]
         \/ /\ op[t] = "construct" /\ op' = [op EXCEPT ![t] = "built"]
            /\ arg[t] = o /\ todo' = [todo EXCEPT ![t] = {"key", "iv"}]
            /\ UNCHANGED ptr
  PROVE  IInv'
<1> USE DEF MakeRefCounted, FirstRefs
<1>1. TypeOK'
  <2>1. life' \in [Objects -> {"absent", "live", "freed"}] /\ refs' \in [Objects -> Nat]
    BY DEF IInv, TypeOK
  <2>2. ptr' \in [Objects -> BOOLEAN]
    BY DEF IInv, TypeOK
  <2>3. op' \in [Callers -> Ops]
    BY DEF IInv, TypeOK, Ops
  <2>4. todo' \in [Callers -> SUBSET Arrays]
    BY DEF IInv, TypeOK, Arrays
  <2> QED BY <2>1, <2>2, <2>3, <2>4 DEF IInv, TypeOK
<1>2. CallsSound'
  BY DEF IInv, TypeOK, CallsSound, Using
<1>9. PinsSound'
  BY DEF IInv, TypeOK, PinsSound, Pinned
<1>3. \A x \in Objects : Uses(x)' = Uses(x)
  BY DEF Uses
<1>4. Uses(o) = {} /\ Cardinality(Uses(o)) = 0
  BY FS_EmptySet DEF IInv, AbsentUnknown
<1>5. JavaRef(o)' \in {0, 1}
  BY DEF JavaRef
<1>6. \A x \in Objects \ {o} : JavaRef(x)' = JavaRef(x)
  BY ObjectsAssumption DEF IInv, TypeOK, JavaRef, OwnerAt
<1>7. Counted'
  <2> SUFFICES ASSUME NEW x \in Objects
               PROVE  /\ life'[x] # "freed"
                      /\ life'[x] = "live" =>
                           refs'[x] >= 1 + JavaRef(x)' + Cardinality(Uses(x)')
    BY DEF Counted
  <2>1. CASE x = o
    <3>1. life'[o] = "live" /\ refs'[o] = 2
      BY DEF IInv, TypeOK
    <3>2. Cardinality(Uses(o)') = 0
      BY <1>3, <1>4
    <3> QED BY <2>1, <1>5, <3>1, <3>2
  <2>2. CASE x # o
    BY <2>2, <1>3, <1>6 DEF IInv, TypeOK, Counted
  <2> QED BY <2>1, <2>2
<1>8. AbsentUnknown'
  BY <1>3 DEF IInv, TypeOK, AbsentUnknown
<1> QED BY <1>1, <1>2, <1>7, <1>8, <1>9 DEF IInv

\* A reference moves from one object to another, the count of each of which
\* still covers its users: no object is deleted.
LEMMA MoveReferenceKeeps ==
  ASSUME IInv, NEW y \in Objects \cup {NoObject}, NEW g \in Objects \cup {NoObject},
         MoveReference(y, g),
         \A o \in Objects : life[o] = "live" =>
           Count(o, y, g) >= 1 + JavaRef(o)' + Cardinality(Uses(o)'),
         \A o \in Objects : life[o] = "absent" => o # y /\ o # g /\ Uses(o)' = {},
         \A o \in Objects : JavaRef(o)' \in Nat /\ Cardinality(Uses(o)') \in Nat,
         UNCHANGED ptr
  PROVE  /\ life' = life /\ refs' \in [Objects -> Nat]
         /\ Counted' /\ AbsentUnknown'
<1>1. \A o \in Objects : Count(o, y, g) \in Int
  BY DEF IInv, TypeOK, Count
<1>2. \A o \in Objects : life[o] = "live" => Count(o, y, g) >= 1
  BY <1>1
<1>3. \A o \in Objects : life[o] = "absent" => Count(o, y, g) = 0
  BY DEF IInv, TypeOK, AbsentUnknown, Count
<1>4. \A o \in Objects : life[o] \in {"live", "absent"}
  BY DEF IInv, TypeOK, Counted
<1>5. life' = life
  BY <1>2, <1>4 DEF MoveReference, IInv, TypeOK
<1>6. \A o \in Objects : refs'[o] = Count(o, y, g)
  BY DEF MoveReference
<1>7. \A o \in Objects : Count(o, y, g) \in Nat
  BY <1>1, <1>2, <1>3, <1>4
<1>8. refs' \in [Objects -> Nat]
  BY <1>7 DEF MoveReference
<1>9. Counted'
  BY <1>4, <1>5, <1>6 DEF Counted
<1>10. AbsentUnknown'
  BY <1>3, <1>5, <1>6 DEF IInv, AbsentUnknown
<1> QED BY <1>5, <1>8, <1>9, <1>10

\* The Java field's reference is given back.
LEMMA ReleaseObjectKeeps ==
  ASSUME NEW t \in Callers, IInv, ReleaseObject(t)
  PROVE  IInv'
<1>1. /\ arg[t] \in Objects /\ life[arg[t]] # "absent"
      /\ Owner[arg[t]] = t /\ ptr[arg[t]]
  BY DEF ReleaseObject, IInv, CallsSound, Using
<1>2. \A o \in Objects : Uses(o)' = Uses(o) /\ Cardinality(Uses(o)) \in Nat
  BY HolderSets DEF ReleaseObject, Uses
<1>3. \A o \in Objects : JavaRef(o)' = IF o = arg[t] THEN 0 ELSE JavaRef(o)
  BY <1>1, ObjectsAssumption DEF ReleaseObject, IInv, TypeOK, JavaRef, OwnerAt
<1>4. JavaRef(arg[t]) = 1
  BY <1>1 DEF ReleaseObject, JavaRef, OwnerAt
<1>5. \A o \in Objects : JavaRef(o) \in {0, 1}
  BY DEF JavaRef
<1>6. \A o \in Objects : life[o] = "live" =>
        Count(o, NoObject, arg[t]) >= 1 + JavaRef(o)' + Cardinality(Uses(o)')
  BY <1>1, <1>2, <1>3, <1>4, <1>5, ObjectsAssumption DEF IInv, TypeOK, Counted, Count
<1>7. \A o \in Objects : life[o] = "absent" =>
        o # NoObject /\ o # arg[t] /\ Uses(o)' = {}
  BY <1>1, <1>2, ObjectsAssumption DEF IInv, AbsentUnknown
<1>8. \A o \in Objects : JavaRef(o)' \in Nat /\ Cardinality(Uses(o)') \in Nat
  BY <1>2, <1>3, <1>5
<1>9. /\ life' = life /\ refs' \in [Objects -> Nat]
      /\ Counted' /\ AbsentUnknown'
  <2>1. MoveReference(NoObject, arg[t]) /\ UNCHANGED ptr
    BY DEF ReleaseObject
  <2> QED BY <1>1, <1>6, <1>7, <1>8, <2>1, MoveReferenceKeeps
<1>10. TypeOK' BY <1>9 DEF ReleaseObject, IInv, TypeOK, Ops
<1>11. CallsSound' BY <1>9 DEF ReleaseObject, IInv, TypeOK, CallsSound, Using
<1>12. PinsSound' BY DEF ReleaseObject, IInv, TypeOK, PinsSound, Pinned
<1> QED BY <1>9, <1>10, <1>11, <1>12 DEF IInv

\* dispose() clears the field after the reference was given back.
LEMMA ClearFieldKeeps ==
  ASSUME NEW t \in Callers, IInv, ClearField(t)
  PROVE  IInv'
<1>1. arg[t] \in Objects /\ life[arg[t]] # "absent" /\ Owner[arg[t]] = t /\ ptr[arg[t]]
  BY DEF ClearField, IInv, CallsSound, Using
<1>2. \A o \in Objects : Uses(o)' = Uses(o)
  BY DEF ClearField, Uses
<1>3. \A o \in Objects : JavaRef(o)' = JavaRef(o)
  BY <1>1, ObjectsAssumption DEF ClearField, IInv, TypeOK, JavaRef, OwnerAt
<1>4. TypeOK' BY DEF ClearField, IInv, TypeOK, Ops
<1>5. CallsSound' BY <1>1 DEF ClearField, IInv, TypeOK, CallsSound, Using
<1>6. Counted' BY <1>2, <1>3 DEF ClearField, IInv, Counted
<1>7. AbsentUnknown' BY <1>1, <1>2 DEF ClearField, IInv, TypeOK, AbsentUnknown
<1>8. PinsSound' BY DEF ClearField, IInv, TypeOK, PinsSound, Pinned
<1> QED BY <1>4, <1>5, <1>6, <1>7, <1>8 DEF IInv

\* The holder d takes y in place of what it had.
LEMMA HolderStepKeeps ==
  ASSUME IInv, NEW d \in Holders, NEW y \in Objects \cup {NoObject},
         y # NoObject => life[y] # "absent",
         MoveReference(y, frame[d]), frame' = [frame EXCEPT ![d] = y],
         UNCHANGED ptr,
         \A t \in Callers : SameRef(t)
  PROVE  /\ life' = life /\ refs' \in [Objects -> Nat]
         /\ frame' \in [Holders -> Objects \cup {NoObject}]
         /\ Counted' /\ AbsentUnknown'
<1>0. frame \in [Holders -> Objects \cup {NoObject}] /\ frame[d] \in Objects \cup {NoObject}
  BY DEF IInv, TypeOK
<1>1. \A o \in Objects : JavaRef(o)' = JavaRef(o) /\ JavaRef(o) \in {0, 1}
  BY SameJavaRef DEF JavaRef
<1>2. \A o \in Objects :
        Cardinality(Uses(o)') = Moved(Cardinality(Uses(o)), o, frame[d], y)
  <2> SUFFICES ASSUME NEW o \in Objects
               PROVE  Cardinality(Uses(o)') = Moved(Cardinality(Uses(o)), o, frame[d], y)
    OBVIOUS
  <2>1. IsFiniteSet(Uses(o))
    BY HolderSets DEF Uses
  <2>2. d \in Uses(o) <=> o = frame[d]
    BY DEF Uses, HoldersOf
  <2>3. o = y => Uses(o)' = Uses(o) \cup {d}
    BY <1>0 DEF Uses, HoldersOf
  <2>4. o # y => Uses(o)' = Uses(o) \ {d}
    BY <1>0 DEF Uses, HoldersOf
  <2> QED BY ONLY <2>1, <2>2, <2>3, <2>4, Recount
<1>3. \A o \in Objects : Cardinality(Uses(o)) \in Nat /\ Cardinality(Uses(o)') \in Nat
  BY HolderSets DEF Uses
<1>4. \A o \in Objects : life[o] = "live" =>
        Count(o, y, frame[d]) >= 1 + JavaRef(o)' + Cardinality(Uses(o)')
  <2> SUFFICES ASSUME NEW o \in Objects, life[o] = "live"
               PROVE  Count(o, y, frame[d]) >= 1 + JavaRef(o)' + Cardinality(Uses(o)')
    OBVIOUS
  <2>1. refs[o] >= 1 + JavaRef(o) + Cardinality(Uses(o)) /\ refs[o] \in Nat
    BY DEF IInv, TypeOK, Counted
  <2> QED BY <2>1, <1>1, <1>2, <1>3 DEF Count, Moved
<1>5. \A o \in Objects : life[o] = "absent" => o # y /\ o # frame[d] /\ Uses(o)' = {}
  BY <1>0, ObjectsAssumption DEF IInv, AbsentUnknown, Uses, HoldersOf
<1>6. \A o \in Objects : JavaRef(o)' \in Nat /\ Cardinality(Uses(o)') \in Nat
  BY <1>1, <1>3
<1>7. /\ life' = life /\ refs' \in [Objects -> Nat]
      /\ Counted' /\ AbsentUnknown'
  BY <1>0, <1>4, <1>5, <1>6, MoveReferenceKeeps
<1> QED BY <1>0, <1>7

\* setFrameEncryptor and setFrameDecryptor exchange the object of an open
\* holder and leave a closed one alone.
LEMMA AttachKeeps ==
  ASSUME NEW t \in Callers, IInv, Attach(t)
  PROVE  IInv'
<1>1. \A x \in Callers : SameRef(x)
  BY DEF Attach, IInv, TypeOK, SameRef
<1>4. PinsSound'
  BY DEF Attach, IInv, TypeOK, PinsSound, Pinned
<1>2. CASE closed[dest[t]]
  <2>1. TypeOK' BY <1>2 DEF Attach, IInv, TypeOK, Ops
  <2>2. CallsSound' BY <1>2 DEF Attach, IInv, TypeOK, CallsSound, Using
  <2> QED BY <1>1, <1>2, <1>4, <2>1, <2>2, QuietKeeps DEF Attach
<1>3. CASE ~closed[dest[t]]
  <2>1. /\ dest[t] \in Holders /\ arg[t] \in Objects \cup {NoObject}
        /\ arg[t] # NoObject => life[arg[t]] # "absent"
    BY DEF Attach, IInv, TypeOK, CallsSound
  <2>2. /\ life' = life /\ refs' \in [Objects -> Nat]
        /\ frame' \in [Holders -> Objects \cup {NoObject}]
        /\ Counted' /\ AbsentUnknown'
    BY <1>1, <1>3, <2>1, HolderStepKeeps DEF Attach
  <2>3. TypeOK' BY <2>2 DEF Attach, IInv, TypeOK, Ops
  <2>4. CallsSound' BY <2>2 DEF Attach, IInv, TypeOK, CallsSound, Using
  <2> QED BY <1>4, <2>2, <2>3, <2>4 DEF IInv
<1> QED BY <1>2, <1>3

\* Closing a producer or consumer moves no reference.
LEMMA CloseHolderKeeps ==
  ASSUME NEW h \in Holders, IInv, CloseHolder(h)
  PROVE  IInv'
<1>1. TypeOK' BY DEF CloseHolder, IInv, TypeOK
<1>2. CallsSound' BY DEF CloseHolder, IInv, CallsSound
<1>3. PinsSound' BY DEF CloseHolder, IInv, PinsSound, Pinned
<1>4. \A x \in Callers : SameRef(x) BY DEF CloseHolder, SameRef
<1> QED BY <1>1, <1>2, <1>3, <1>4, QuietKeeps DEF CloseHolder

\* A deleted sender or receiver gives its reference back.
LEMMA DropHolderKeeps ==
  ASSUME NEW h \in Holders, IInv, DropHolder(h)
  PROVE  IInv'
<1>1. /\ life' = life /\ refs' \in [Objects -> Nat]
      /\ frame' \in [Holders -> Objects \cup {NoObject}]
      /\ Counted' /\ AbsentUnknown'
  <2>1. \A x \in Callers : SameRef(x) BY DEF DropHolder, SameRef
  <2> QED BY <2>1, HolderStepKeeps DEF DropHolder
<1>2. TypeOK' BY <1>1 DEF DropHolder, IInv, TypeOK
<1>3. CallsSound' BY <1>1 DEF DropHolder, IInv, CallsSound
<1>4. PinsSound' BY DEF DropHolder, IInv, PinsSound, Pinned
<1> QED BY <1>1, <1>2, <1>3, <1>4 DEF IInv

-----------------------------------------------------------------------------
\* Every native method keeps the invariant when it is entered...
LEMMA CallObjectKeeps ==
  ASSUME NEW t \in Callers, NEW o \in Objects, IInv, CallObject(t, o)
  PROVE  IInv'
<1>1. CASE Create(t, o)
  BY <1>1, MakeKeeps DEF Create
<1>2. CASE BeginCreate(t, o)
  BY <1>2, BeginCreateKeeps
<1>3. CASE PassAddress(t, o, "passed") \/ PassAddress(t, o, "array") \/ Dispose(t, o)
  BY <1>3, PassAddressKeeps DEF Dispose
<1>4. CASE \E h \in Holders : PassToHolder(t, o, h)
  BY <1>4, PassToHolderKeeps
<1> QED BY <1>1, <1>2, <1>3, <1>4 DEF CallObject, CreateHCCrypto, CreateHCCryptoDecryptor,
    CreateSM4CTREncryptor, CreateSM4CTRDecryptor, EnableSM4Encryption, SetSM4Key, SetSM4CTR,
    SetSM4KeyWithVersion, GetKeyVersion, EnableSM4Decryption, SetDecryptorSM4Key,
    SetDecryptorSM4CTR, SetDecryptorSM4KeyWithVersion, GetDecryptorKeyVersion,
    EncryptorSetKey, EncryptorSetIV, DecryptorSetKey, DecryptorSetIV, DecryptorSetStatus,
    DestroyHCCrypto, DestroyHCCryptoDecryptor, DestroySM4CTREncryptor,
    DestroySM4CTRDecryptor, SetFrameEncryptor, SetFrameDecryptor

\* ... and when it goes on.
LEMMA ContinueCallKeeps ==
  ASSUME NEW t \in Callers, IInv, ContinueCall(t)
  PROVE  IInv'
<1>1. CASE Construct(t)
  <2>1. arg[t] \in Objects /\ Owner[arg[t]] = t /\ life[arg[t]] = "absent"
    BY <1>1 DEF Construct, IInv, CallsSound
  <2> QED BY <1>1, <2>1, MakeKeeps DEF Construct
<1> QED BY <1>1, ArrayStepKeeps, UnpinKeeps, ReturnKeeps, ReleaseObjectKeeps, ClearFieldKeeps, AttachKeeps
    DEF ContinueCall

\* The invariant is inductive.
LEMMA StepKeeps == IInv /\ [Next]_vars => IInv'
<1> SUFFICES ASSUME IInv, [Next]_vars PROVE IInv'
  OBVIOUS
<1>1. CASE UNCHANGED vars
  BY <1>1 DEF vars, IInv, TypeOK, Counted, AbsentUnknown, CallsSound, JavaRef, Uses,
    OwnerAt, PinsSound, Pinned
<1>2. CASE Next
  BY <1>2, ContinueCallKeeps, CallObjectKeeps, CloseHolderKeeps, DropHolderKeeps DEF Next
<1> QED BY <1>1, <1>2

\* The invariant holds in every behaviour.
LEMMA SpecIInv == Spec => []IInv
<1> QED BY InitIInv, StepKeeps, PTL DEF Spec

\* Types; reference counts never go below zero.
THEOREM TypeCorrect == Spec => []TypeOK
<1>1. IInv => TypeOK BY DEF IInv
<1> QED BY <1>1, SpecIInv, PTL

\* However calls, dispose() and the senders interleave, no native method and
\* no frame ever meets a deleted object (hc_crypto_jni.cpp:69, 97, 176).
THEOREM NeverUsedAfterFree == Spec => []NoUseAfterFree
<1>1. IInv => NoUseAfterFree
  <2> SUFFICES ASSUME IInv PROVE NoUseAfterFree
    OBVIOUS
  <2>1. \A o \in Objects : life[o] # "absent" => life[o] = "live"
    BY DEF IInv, TypeOK, Counted
  <2>2. \A t \in Callers : op[t] \in Using => life[arg[t]] = "live"
    BY <2>1 DEF IInv, CallsSound
  <2>3. \A t \in Callers : op[t] = "attach" /\ arg[t] # NoObject => life[arg[t]] = "live"
    BY <2>1 DEF IInv, TypeOK, CallsSound
  <2>4. \A h \in Holders : frame[h] # NoObject => life[frame[h]] = "live"
    BY <2>1 DEF IInv, TypeOK, AbsentUnknown, Uses, HoldersOf
  <2> QED BY <2>2, <2>3, <2>4 DEF NoUseAfterFree
<1> QED BY <1>1, SpecIInv, PTL

\* Before every return of the SM4 methods stand the releases of just the
\* arrays pinned so far (sm4_ctr_jni.cpp:28, 36, 55-56, 94, 104).
THEOREM ArraysAlwaysReleased == Spec => []ArraysReleased
<1>1. IInv => ArraysReleased BY DEF IInv, PinsSound, Pinned, ArraysReleased
<1> QED BY <1>1, SpecIInv, PTL
=============================================================================
