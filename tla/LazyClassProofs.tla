--------------------------- MODULE LazyClassProofs ---------------------------
(***************************************************************************)
(* Proofs that the lazily filled class cells are safe for any number of    *)
(* threads, classes and methods, and that they implement OnceCell.         *)
(***************************************************************************)
EXTENDS LazyClass, TLAPS

\* A thread that found the cell of its class empty, and whose reference is
\* not in the cell.
Racing == {"lookup", "exchange", "lost"}

\* A thread whose LazyGetClass has an answer.
Given == {"lost", "loadId", "getId", "storeId", "call", "check"}

\* A filled cell holds a live reference to its own class.
CellIsLive ==
  \A c \in Classes : cell[c] # NoRef => cell[c] \in refs /\ cell[c][2] = c

\* A thread that races has not stored its own reference...
OwnNotStored ==
  \A t \in Threads : pc[t] \in Racing => cell[Class(t)] # Made(t, Class(t))

\* ... and owns it until the exchange.
OwnIsLive ==
  \A t \in Threads : pc[t] = "exchange" => Made(t, Class(t)) \in refs

\* What a thread was given is what is in the cell.
GivenIsStored ==
  \A t \in Threads :
    IF pc[t] \in Given THEN clazz[t] # NoRef /\ clazz[t] = cell[Class(t)]
                       ELSE clazz[t] = NoRef

\* A stored method id was looked up in a stored class.
IdsHaveClass == \A m \in ids : cell[ClassOf[m]] # NoRef

IInv ==
  /\ TypeOK
  /\ CellIsLive
  /\ OwnNotStored
  /\ OwnIsLive
  /\ GivenIsStored
  /\ IdsHaveClass
  /\ OneRefStored
  /\ NoCallWithException

-----------------------------------------------------------------------------
\* All cells are empty at the start.
LEMMA InitIInv == Init => IInv
  BY ClassOfAssumption DEF Init, IInv, TypeOK, CellIsLive, OwnNotStored, OwnIsLive,
    GivenIsStored, IdsHaveClass, OneRefStored, NoCallWithException, Given, Racing,
    Steps, Class, Made, Refs

USE DEF Goto, Made, Refs, Class

\* A thread that starts a call keeps the invariant.
LEMMA CallJavaKeeps ==
  ASSUME NEW t \in Threads, NEW m \in Methods, IInv, CallJava(t, m)
  PROVE  IInv'
<1> USE ClassOfAssumption, NoRefAssumption DEF CallJava, IInv
<1>1. TypeOK' BY DEF TypeOK, Steps
<1>2. CellIsLive' /\ OwnNotStored' /\ OwnIsLive'
  BY DEF TypeOK, CellIsLive, OwnNotStored, OwnIsLive, Racing
<1>3. GivenIsStored' /\ IdsHaveClass'
  BY DEF TypeOK, GivenIsStored, IdsHaveClass, Given
<1>4. OneRefStored' /\ NoCallWithException'
  BY DEF TypeOK, OneRefStored, NoCallWithException
<1> QED BY <1>1, <1>2, <1>3, <1>4

\* Reading the cell keeps it: a filled one is what the thread is given.
LEMMA LoadClassKeeps ==
  ASSUME NEW t \in Threads, IInv, LoadClass(t)
  PROVE  IInv'
<1> USE ClassOfAssumption, NoRefAssumption DEF LoadClass, IInv
<1>1. TypeOK' BY DEF TypeOK, Steps
<1>2. CellIsLive' /\ OwnIsLive'
  BY DEF TypeOK, CellIsLive, OwnIsLive
<1>5. Made(t, Class(t)) \in Refs
  BY DEF TypeOK
<1>6. OwnNotStored'
  BY <1>5 DEF TypeOK, OwnNotStored, Racing
<1>3. GivenIsStored' /\ IdsHaveClass'
  BY DEF TypeOK, GivenIsStored, IdsHaveClass, Given
<1>4. OneRefStored' /\ NoCallWithException'
  BY DEF TypeOK, OneRefStored, NoCallWithException
<1> QED BY <1>1, <1>2, <1>3, <1>4, <1>6

\* Making a global reference keeps it: the reference is in no cell.
LEMMA GetClassKeeps ==
  ASSUME NEW t \in Threads, IInv, GetClass(t)
  PROVE  IInv'
<1> USE ClassOfAssumption, NoRefAssumption DEF GetClass, IInv
<1>1. TypeOK' BY DEF TypeOK, Steps
<1>2. CellIsLive' /\ OwnNotStored' /\ OwnIsLive'
  BY DEF TypeOK, CellIsLive, OwnNotStored, OwnIsLive, Racing
<1>3. GivenIsStored' /\ IdsHaveClass'
  BY DEF TypeOK, GivenIsStored, IdsHaveClass, Given
<1>4. OneRefStored' /\ NoCallWithException'
  BY DEF TypeOK, OneRefStored, NoCallWithException
<1> QED BY <1>1, <1>2, <1>3, <1>4

\* The compare-and-exchange, by who gets there first.
LEMMA ExchangeClassKeeps ==
  ASSUME NEW t \in Threads, IInv, ExchangeClass(t)
  PROVE  IInv'
<1> USE ClassOfAssumption, NoRefAssumption DEF ExchangeClass, IInv
<1>0. Class(t) \in Classes /\ Class(t)' = Class(t) /\ Made(t, Class(t)) \in Refs
  BY DEF TypeOK
<1>1. TypeOK'
  <2>1. cell' \in [Classes -> Refs \cup {NoRef}]
    BY <1>0 DEF TypeOK
  <2>2. clazz' \in [Threads -> Refs \cup {NoRef}]
    BY <1>0, <2>1 DEF TypeOK
  <2>3. pc' \in [Threads -> Steps] /\ \A s \in Threads : pc'[s] = "idle" => clazz'[s] = NoRef
    BY DEF TypeOK, Steps
  <2> QED BY <2>1, <2>2, <2>3 DEF TypeOK
<1>2. CASE cell[Class(t)] = NoRef
  <2>1. cell' = [cell EXCEPT ![Class(t)] = Made(t, Class(t))] /\ pc' = [pc EXCEPT ![t] = "loadId"]
    BY <1>2
  <2>2. CellIsLive'
    BY <1>0, <2>1 DEF TypeOK, CellIsLive, OwnIsLive
  <2>3. OwnNotStored' /\ OwnIsLive'
    BY <1>0, <2>1 DEF TypeOK, OwnNotStored, OwnIsLive, Racing
  <2>4. GivenIsStored'
    <3>1. clazz'[t] = Made(t, Class(t)) /\ clazz'[t] = cell'[Class(t)]
      BY <1>0, <2>1 DEF TypeOK
    <3>2. ASSUME NEW s \in Threads, s # t, pc[s] \in Given
          PROVE  cell'[Class(s)] = cell[Class(s)] /\ clazz'[s] = clazz[s]
      BY <1>2, <2>1, <3>2 DEF TypeOK, GivenIsStored
    <3> QED BY <1>0, <2>1, <3>1, <3>2 DEF TypeOK, GivenIsStored, Given
  <2>5. IdsHaveClass'
    BY <1>0, <2>1 DEF TypeOK, IdsHaveClass
  <2>6. OneRefStored' /\ NoCallWithException'
    BY <1>2, <1>0, <2>1 DEF TypeOK, OneRefStored, NoCallWithException
  <2> QED BY <1>1, <2>2, <2>3, <2>4, <2>5, <2>6
<1>3. CASE cell[Class(t)] # NoRef
  <2>1. cell' = cell /\ pc' = [pc EXCEPT ![t] = "lost"]
    BY <1>3
  <2>2. OwnNotStored' /\ CellIsLive' /\ OwnIsLive'
    BY <2>1 DEF TypeOK, CellIsLive, OwnNotStored, OwnIsLive, Racing
  <2>3. GivenIsStored' /\ IdsHaveClass'
    BY <1>3, <2>1 DEF TypeOK, GivenIsStored, IdsHaveClass, Given
  <2>4. OneRefStored' /\ NoCallWithException'
    BY <2>1 DEF TypeOK, OneRefStored, NoCallWithException
  <2> QED BY <1>1, <2>2, <2>3, <2>4
<1> QED BY <1>2, <1>3

\* Deleting the own reference after a lost exchange keeps it: the reference
\* is not the stored one.
LEMMA DropDuplicateKeeps ==
  ASSUME NEW t \in Threads, IInv, DropDuplicate(t)
  PROVE  IInv'
<1> USE ClassOfAssumption, NoRefAssumption DEF DropDuplicate, IInv
<1>1. TypeOK' BY DEF TypeOK, Steps
<1>2. CellIsLive'
  BY DEF TypeOK, CellIsLive, OwnNotStored, Racing
<1>3. OwnNotStored' /\ OwnIsLive'
  BY DEF TypeOK, OwnNotStored, OwnIsLive, Racing
<1>4. GivenIsStored' /\ IdsHaveClass'
  BY DEF TypeOK, GivenIsStored, IdsHaveClass, Given
<1>5. OneRefStored' /\ NoCallWithException'
  BY DEF TypeOK, OneRefStored, NoCallWithException
<1> QED BY <1>1, <1>2, <1>3, <1>4, <1>5

\* The three steps of MethodID::LazyGet keep it.
LEMMA MethodKeeps ==
  ASSUME NEW t \in Threads, IInv,
         LoadMethod(t) \/ GetMethodID(t) \/ StoreMethod(t)
  PROVE  IInv'
<1> USE ClassOfAssumption, NoRefAssumption
    DEF LoadMethod, GetMethodID, StoreMethod, IInv
<1>1. TypeOK' BY DEF TypeOK, Steps
<1>2. CellIsLive' /\ OwnNotStored' /\ OwnIsLive'
  BY DEF TypeOK, CellIsLive, OwnNotStored, OwnIsLive, Racing
<1>3. GivenIsStored' /\ IdsHaveClass'
  BY DEF TypeOK, GivenIsStored, IdsHaveClass, Given
<1>4. OneRefStored' /\ NoCallWithException'
  BY DEF TypeOK, OneRefStored, NoCallWithException
<1> QED BY <1>1, <1>2, <1>3, <1>4

\* The call of the Java method, with or without an exception, keeps it.
LEMMA CallMethodKeeps ==
  ASSUME NEW t \in Threads, IInv, CallMethod(t)
  PROVE  IInv'
<1> USE ClassOfAssumption, NoRefAssumption DEF CallMethod, IInv
<1>1. TypeOK' BY DEF TypeOK, Steps
<1>2. CellIsLive' /\ OwnNotStored' /\ OwnIsLive'
  BY DEF TypeOK, CellIsLive, OwnNotStored, OwnIsLive, Racing
<1>3. GivenIsStored' /\ IdsHaveClass'
  BY DEF TypeOK, GivenIsStored, IdsHaveClass, Given
<1>4. OneRefStored' /\ NoCallWithException'
  BY DEF TypeOK, OneRefStored, NoCallWithException
<1> QED BY <1>1, <1>2, <1>3, <1>4

\* The check after the call keeps it: a pending exception stops the process.
LEMMA CheckExceptionKeeps ==
  ASSUME NEW t \in Threads, IInv, CheckException(t)
  PROVE  IInv'
<1> USE ClassOfAssumption, NoRefAssumption DEF CheckException, IInv
<1>1. TypeOK' BY DEF TypeOK, Steps
<1>2. CellIsLive' /\ OwnNotStored' /\ OwnIsLive'
  BY DEF TypeOK, CellIsLive, OwnNotStored, OwnIsLive, Racing
<1>3. GivenIsStored' /\ IdsHaveClass'
  BY DEF TypeOK, GivenIsStored, IdsHaveClass, Given
<1>4. OneRefStored' /\ NoCallWithException'
  BY DEF TypeOK, OneRefStored, NoCallWithException
<1> QED BY <1>1, <1>2, <1>3, <1>4

\* The invariant is inductive.
LEMMA StepKeeps == IInv /\ [Next]_vars => IInv'
<1> SUFFICES ASSUME IInv, [Next]_vars PROVE IInv'
  OBVIOUS
<1>1. ASSUME NEW t \in Threads, Step(t) PROVE IInv'
  BY <1>1, LoadClassKeeps, GetClassKeeps, ExchangeClassKeeps, DropDuplicateKeeps,
     MethodKeeps, CallMethodKeeps, CheckExceptionKeeps DEF Step
<1>2. CASE UNCHANGED vars
  BY <1>2 DEF vars, IInv, TypeOK, CellIsLive, OwnNotStored, OwnIsLive, GivenIsStored,
    IdsHaveClass, OneRefStored, NoCallWithException
<1> QED BY <1>1, <1>2, CallJavaKeeps DEF Next

\* The invariant holds in every behaviour.
LEMMA SpecIInv == Spec => []IInv
<1> QED BY InitIInv, StepKeeps, PTL DEF Spec

-----------------------------------------------------------------------------
\* Types, and a class that is forgotten when its call returns.
THEOREM TypeCorrect == Spec => []TypeOK
<1>1. IInv => TypeOK BY DEF IInv
<1> QED BY <1>1, SpecIInv, PTL

\* The class that LazyGetClass returns, and the class of every stored method
\* id, is a live reference, however many threads race
\* (jni_generator_helper.cpp:18-65).
THEOREM ClassStaysLive == Spec => []ClassIsLive
<1>1. IInv => ClassIsLive
  BY ClassOfAssumption DEF IInv, TypeOK, ClassIsLive, CellIsLive, GivenIsStored,
    IdsHaveClass, Given
<1> QED BY <1>1, SpecIInv, PTL

\* "We take care to only store one global reference"
\* (jni_generator_helper.cpp:19-20), for any number of threads.
THEOREM OneRefIsStored == Spec => []OneRefStored
<1>1. IInv => OneRefStored BY DEF IInv
<1> QED BY <1>1, SpecIInv, PTL

\* No generated method returns with an exception pending
\* (jni_generator_helper.h:160-163).
THEOREM ExceptionsAreCaught == Spec => []NoCallWithException
<1>1. IInv => NoCallWithException BY DEF IInv
<1> QED BY <1>1, SpecIInv, PTL

-----------------------------------------------------------------------------
\* Empty class cells are empty once-cells.
LEMMA InitRefines == Init => Once!Init
  BY DEF Init, Once!Init

\* The load of a filled cell and the exchange are Get, the end of a call is
\* Return, and every other step leaves cells and answers alone.
LEMMA StepRefines == IInv /\ [Next]_vars => [Once!Next]_Once!vars
<1> SUFFICES ASSUME IInv, [Next]_vars PROVE [Once!Next]_Once!vars
  OBVIOUS
<1> USE ClassOfAssumption, NoRefAssumption DEF IInv, TypeOK
<1>1. ASSUME NEW t \in Threads, LoadClass(t)
      PROVE  Once!Get(t, Class(t), Made(t, Class(t))) \/ UNCHANGED <<cell, clazz>>
  BY <1>1 DEF LoadClass, GivenIsStored, Given, Once!Get
<1>2. ASSUME NEW t \in Threads, ExchangeClass(t)
      PROVE  Once!Get(t, Class(t), Made(t, Class(t)))
  BY <1>2 DEF ExchangeClass, GivenIsStored, Given, Once!Get
<1>3. ASSUME NEW t \in Threads, CheckException(t)
      PROVE  Once!Return(t)
  BY <1>3 DEF CheckException, GivenIsStored, Given, Once!Return
<1>4. ASSUME NEW t \in Threads, GetClass(t) \/ DropDuplicate(t) \/ LoadMethod(t)
                \/ GetMethodID(t) \/ StoreMethod(t) \/ CallMethod(t)
      PROVE  UNCHANGED <<cell, clazz>>
  BY <1>4 DEF GetClass, DropDuplicate, LoadMethod, GetMethodID, StoreMethod, CallMethod
<1>5. ASSUME NEW t \in Threads, NEW m \in Methods, CallJava(t, m)
      PROVE  UNCHANGED <<cell, clazz>>
  BY <1>5 DEF CallJava
<1>6. \A t \in Threads : Class(t) \in Classes /\ Made(t, Class(t)) \in Refs
  OBVIOUS
<1>7. CASE UNCHANGED vars
  BY <1>7 DEF vars, Once!vars
<1>8. CASE Next
  <2> PICK t \in Threads : Step(t) \/ \E m \in Methods : CallJava(t, m)
    BY <1>8 DEF Next
  <2>1. CASE LoadClass(t) BY <2>1, <1>1, <1>6 DEF Once!Next, Once!vars
  <2>2. CASE ExchangeClass(t) BY <2>2, <1>2, <1>6 DEF Once!Next
  <2>3. CASE CheckException(t) BY <2>3, <1>3 DEF Once!Next
  <2> QED BY <2>1, <2>2, <2>3, <1>4, <1>5 DEF Step, Once!vars
<1> QED BY <1>7, <1>8

\* The lock-free lookup implements a cell that is filled once: whichever
\* thread is first fills it, and every caller is given what is in it
\* (jni_generator_helper.cpp:18-42).
THEOREM LazyClassImplementsOnceCell == Spec => FilledOnce
<1> QED BY InitRefines, StepRefines, SpecIInv, PTL DEF Spec, FilledOnce, Once!Spec
=============================================================================
