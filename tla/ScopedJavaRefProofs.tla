------------------------- MODULE ScopedJavaRefProofs -------------------------
(***************************************************************************)
(* Proofs that the owners of JNI references keep every reference live      *)
(* while it is held, delete it once and lose none, for any number of       *)
(* wrappers and references.                                                *)
(***************************************************************************)
EXTENDS ScopedJavaRef, TLAPS

\* A bare reference and a parameter are live; the reference a Set...Ref has
\* made is live and nobody else's; the wrapper it is for exists.
SetInProgress ==
  /\ bare \cup params \subseteq table
  /\ setting # Null => built[setting]
  /\ fresh # Null =>
       /\ setting # Null /\ fresh \in KindOf(setting)
       /\ fresh \in table \ (bare \cup params)
       /\ \A s \in Scopes : obj[s] # fresh

IInv ==
  /\ TypeOK
  /\ SetInProgress
  /\ HeldIsLive
  /\ OneOwner
  /\ NothingLeaks

USE RefsAssumption DEF Scopes, Refs, KindOf

-----------------------------------------------------------------------------
\* No wrapper and no reference exists at the start.
LEMMA InitIInv == Init => IInv
  BY DEF Init, IInv, TypeOK, SetInProgress, HeldIsLive, OneOwner, NothingLeaks

\* A new local reference is bare and in no wrapper.
LEMMA JniResultKeeps ==
  ASSUME NEW r \in Refs, IInv, JniResult(r)
  PROVE  IInv'
<1> USE DEF JniResult, Idle, IInv
<1>1. TypeOK' BY DEF TypeOK, SetInProgress, HeldIsLive
<1>2. SetInProgress' BY DEF TypeOK, SetInProgress, HeldIsLive, OneOwner
<1>3. HeldIsLive' BY DEF TypeOK, SetInProgress, HeldIsLive, OneOwner
<1>4. OneOwner' BY DEF TypeOK, SetInProgress, HeldIsLive, OneOwner
<1>5. NothingLeaks' BY DEF TypeOK, SetInProgress, OneOwner, NothingLeaks
<1> QED BY <1>1, <1>2, <1>3, <1>4, <1>5

\* Deleting a bare reference takes it from no wrapper.
LEMMA DeleteBareKeeps ==
  ASSUME NEW r \in Refs, IInv, DeleteBare(r)
  PROVE  IInv'
<1> USE DEF DeleteBare, Idle, IInv
<1>1. TypeOK' BY DEF TypeOK, SetInProgress, HeldIsLive
<1>2. SetInProgress' BY DEF TypeOK, SetInProgress, HeldIsLive, OneOwner
<1>3. HeldIsLive' BY DEF TypeOK, SetInProgress, HeldIsLive, OneOwner
<1>4. OneOwner' BY DEF TypeOK, SetInProgress, HeldIsLive, OneOwner
<1>5. NothingLeaks' BY DEF TypeOK, SetInProgress, OneOwner, NothingLeaks
<1> QED BY <1>1, <1>2, <1>3, <1>4, <1>5

\* A parameter is live while the method runs...
LEMMA PassParamKeeps ==
  ASSUME NEW r \in Refs, IInv, PassParam(r)
  PROVE  IInv'
<1> USE DEF PassParam, Idle, IInv
<1>1. TypeOK' BY DEF TypeOK, SetInProgress, HeldIsLive
<1>2. SetInProgress' BY DEF TypeOK, SetInProgress, HeldIsLive, OneOwner
<1>3. HeldIsLive' BY DEF TypeOK, SetInProgress, HeldIsLive, OneOwner
<1>4. OneOwner' BY DEF TypeOK, SetInProgress, HeldIsLive, OneOwner
<1>5. NothingLeaks' BY DEF TypeOK, SetInProgress, OneOwner, NothingLeaks
<1> QED BY <1>1, <1>2, <1>3, <1>4, <1>5

\* ... and in no wrapper when the method ends.
LEMMA TakeParamKeeps ==
  ASSUME NEW r \in Refs, IInv, TakeParam(r)
  PROVE  IInv'
<1> USE DEF TakeParam, Idle, IInv
<1>1. TypeOK' BY DEF TypeOK, SetInProgress, HeldIsLive
<1>2. SetInProgress' BY DEF TypeOK, SetInProgress, HeldIsLive, OneOwner
<1>3. HeldIsLive' BY DEF TypeOK, SetInProgress, HeldIsLive, OneOwner
<1>4. OneOwner' BY DEF TypeOK, SetInProgress, HeldIsLive, OneOwner
<1>5. NothingLeaks' BY DEF TypeOK, SetInProgress, OneOwner, NothingLeaks
<1> QED BY <1>1, <1>2, <1>3, <1>4, <1>5

\* An empty wrapper owns nothing.
LEMMA ConstructNullKeeps ==
  ASSUME NEW s \in Scopes, IInv, ConstructNull(s)
  PROVE  IInv'
<1> USE DEF ConstructNull, Idle, IInv
<1>1. TypeOK' BY DEF TypeOK, SetInProgress, HeldIsLive
<1>2. SetInProgress' BY DEF TypeOK, SetInProgress, HeldIsLive, OneOwner
<1>3. HeldIsLive' BY DEF TypeOK, SetInProgress, HeldIsLive, OneOwner
<1>4. OneOwner' BY DEF TypeOK, SetInProgress, HeldIsLive, OneOwner
<1>5. NothingLeaks' BY DEF TypeOK, SetInProgress, OneOwner, NothingLeaks
<1> QED BY <1>1, <1>2, <1>3, <1>4, <1>5

\* A wrapper built from a bare reference becomes its only owner.
LEMMA AdoptKeeps ==
  ASSUME NEW s \in Scopes, NEW r \in Refs, IInv, Adopt(s, r)
  PROVE  IInv'
<1> USE DEF Adopt, Idle, IInv
<1>1. TypeOK' BY DEF TypeOK, SetInProgress, HeldIsLive
<1>2. SetInProgress' BY DEF TypeOK, SetInProgress, HeldIsLive, OneOwner
<1>3. HeldIsLive' BY DEF TypeOK, SetInProgress, HeldIsLive, OneOwner
<1>4. OneOwner' BY DEF TypeOK, SetInProgress, HeldIsLive, OneOwner
<1>5. NothingLeaks' BY DEF TypeOK, SetInProgress, OneOwner, NothingLeaks
<1> QED BY <1>1, <1>2, <1>3, <1>4, <1>5

\* The wrapper moved from is left empty, so the reference keeps one owner.
LEMMA MoveKeeps ==
  ASSUME NEW s \in Scopes, NEW o \in Scopes, IInv, MoveLocal(s, o) \/ MoveGlobal(s, o)
  PROVE  IInv'
<1> USE DEF MoveLocal, MoveGlobal, Move, Steal, Idle, IInv
<1>1. TypeOK' BY DEF TypeOK, SetInProgress, HeldIsLive
<1>2. SetInProgress' BY DEF TypeOK, SetInProgress, HeldIsLive, OneOwner
<1>3. HeldIsLive' BY DEF TypeOK, SetInProgress, HeldIsLive, OneOwner
<1>4. OneOwner' BY DEF TypeOK, SetInProgress, HeldIsLive, OneOwner
<1>5. NothingLeaks' BY DEF TypeOK, SetInProgress, OneOwner, NothingLeaks
<1> QED BY <1>1, <1>2, <1>3, <1>4, <1>5

\* A Set...Ref is entered with a reference that may be the wrapper's own.
LEMMA BeginSetKeeps ==
  ASSUME NEW s \in Scopes, NEW r \in Refs \cup {Null}, IInv, BeginSet(s, r)
  PROVE  IInv'
<1> USE DEF BeginSet, Readable, Idle, IInv
<1>1. TypeOK' BY DEF TypeOK, SetInProgress, HeldIsLive
<1>2. SetInProgress' BY DEF TypeOK, SetInProgress, HeldIsLive, OneOwner
<1>3. HeldIsLive' BY DEF TypeOK, SetInProgress, HeldIsLive, OneOwner
<1>4. OneOwner' BY DEF TypeOK, SetInProgress, HeldIsLive, OneOwner
<1>5. NothingLeaks' BY DEF TypeOK, SetInProgress, OneOwner, NothingLeaks
<1> QED BY <1>1, <1>2, <1>3, <1>4, <1>5

\* It first makes a new reference, which no wrapper holds.
LEMMA NewRefKeeps ==
  ASSUME NEW n \in Refs, IInv, NewRef(n)
  PROVE  IInv'
<1> USE DEF NewRef, Idle, IInv
<1>1. TypeOK' BY DEF TypeOK, SetInProgress, HeldIsLive
<1>2. SetInProgress' BY DEF TypeOK, SetInProgress, HeldIsLive, OneOwner
<1>3. HeldIsLive' BY DEF TypeOK, SetInProgress, HeldIsLive, OneOwner
<1>4. OneOwner' BY DEF TypeOK, SetInProgress, HeldIsLive, OneOwner
<1>5. NothingLeaks' BY DEF TypeOK, SetInProgress, OneOwner, NothingLeaks
<1> QED BY <1>1, <1>2, <1>3, <1>4, <1>5

\* The new reference exists and nobody else holds it when the old one goes.
LEMMA StoreRefKeeps ==
  ASSUME IInv, StoreRef
  PROVE  IInv'
<1> USE DEF StoreRef, Idle, IInv
<1>1. TypeOK' BY DEF TypeOK, SetInProgress, HeldIsLive
<1>2. SetInProgress' BY DEF TypeOK, SetInProgress, HeldIsLive, OneOwner
<1>3. HeldIsLive' BY DEF TypeOK, SetInProgress, HeldIsLive, OneOwner
<1>4. OneOwner' BY DEF TypeOK, SetInProgress, HeldIsLive, OneOwner
<1>5. NothingLeaks' BY DEF TypeOK, SetInProgress, OneOwner, NothingLeaks
<1> QED BY <1>1, <1>2, <1>3, <1>4, <1>5

\* Reset deletes the reference of the only wrapper that holds it.
LEMMA ResetKeeps ==
  ASSUME NEW s \in Scopes, IInv, Reset(s)
  PROVE  IInv'
<1> USE DEF Reset, Drop, Idle, IInv
<1>1. TypeOK' BY DEF TypeOK, SetInProgress, HeldIsLive
<1>2. SetInProgress' BY DEF TypeOK, SetInProgress, HeldIsLive, OneOwner
<1>3. HeldIsLive' BY DEF TypeOK, SetInProgress, HeldIsLive, OneOwner
<1>4. OneOwner' BY DEF TypeOK, SetInProgress, HeldIsLive, OneOwner
<1>5. NothingLeaks' BY DEF TypeOK, SetInProgress, OneOwner, NothingLeaks
<1> QED BY <1>1, <1>2, <1>3, <1>4, <1>5

\* So does the destructor.
LEMMA DestroyKeeps ==
  ASSUME NEW s \in Scopes, IInv, Destroy(s)
  PROVE  IInv'
<1> USE DEF Destroy, Drop, Idle, IInv
<1>1. TypeOK' BY DEF TypeOK, SetInProgress, HeldIsLive
<1>2. SetInProgress' BY DEF TypeOK, SetInProgress, HeldIsLive, OneOwner
<1>3. HeldIsLive' BY DEF TypeOK, SetInProgress, HeldIsLive, OneOwner
<1>4. OneOwner' BY DEF TypeOK, SetInProgress, HeldIsLive, OneOwner
<1>5. NothingLeaks' BY DEF TypeOK, SetInProgress, OneOwner, NothingLeaks
<1> QED BY <1>1, <1>2, <1>3, <1>4, <1>5

\* Release makes the reference bare.
LEMMA ReleaseKeeps ==
  ASSUME NEW s \in Scopes, IInv, Release(s)
  PROVE  IInv'
<1> USE DEF Release, Idle, IInv
<1>1. TypeOK' BY DEF TypeOK, SetInProgress, HeldIsLive
<1>2. SetInProgress' BY DEF TypeOK, SetInProgress, HeldIsLive, OneOwner
<1>3. HeldIsLive' BY DEF TypeOK, SetInProgress, HeldIsLive, OneOwner
<1>4. OneOwner' BY DEF TypeOK, SetInProgress, HeldIsLive, OneOwner
<1>5. NothingLeaks' BY DEF TypeOK, SetInProgress, OneOwner, NothingLeaks
<1> QED BY <1>1, <1>2, <1>3, <1>4, <1>5

\* The invariant is inductive.
LEMMA StepKeeps == IInv /\ [Next]_vars => IInv'
<1> SUFFICES ASSUME IInv, [Next]_vars PROVE IInv'
  OBVIOUS
<1>1. ASSUME NEW s \in Scopes, Construct(s) PROVE IInv'
  BY <1>1, ConstructNullKeeps, AdoptKeeps, MoveKeeps, BeginSetKeeps
     DEF Construct, CopyLocal, CopyGlobal, AssignLocal, AssignGlobal
<1>2. ASSUME NEW s \in Scopes, Discard(s) PROVE IInv'
  BY <1>2, ResetKeeps, DestroyKeeps, ReleaseKeeps
     DEF Discard, ResetLocalRef, ResetGlobalRef, DestroyLocal, DestroyGlobal,
         ReleaseLocal, ReleaseGlobal
<1>3. CASE SetNewLocalRef \/ SetNewGlobalRef
  BY <1>3, NewRefKeeps, StoreRefKeeps DEF SetNewLocalRef, SetNewGlobalRef
<1>4. CASE \E r \in Refs : JniResult(r) \/ DeleteBare(r) \/ PassParam(r) \/ TakeParam(r)
  BY <1>4, JniResultKeeps, DeleteBareKeeps, PassParamKeeps, TakeParamKeeps
<1>5. CASE UNCHANGED vars
  BY <1>5 DEF vars, IInv, TypeOK, SetInProgress, HeldIsLive, OneOwner, NothingLeaks
<1> QED BY <1>1, <1>2, <1>3, <1>4, <1>5 DEF Next

\* The invariant holds in every behaviour.
LEMMA SpecIInv == Spec => []IInv
<1> QED BY InitIInv, StepKeeps, PTL DEF Spec

-----------------------------------------------------------------------------
\* Types: local wrappers hold local references, global ones global
\* references, and a destroyed wrapper none (scoped_java_ref.h:235-238,
\* 350-353).
THEOREM TypeCorrect == Spec => []TypeOK
<1>1. IInv => TypeOK BY DEF IInv
<1> QED BY <1>1, SpecIInv, PTL

\* No wrapper ever holds a deleted reference, self-assignment included
\* (scoped_java_ref.cpp:37-41, 55-59).
THEOREM HeldStaysLive == Spec => []HeldIsLive
<1>1. IInv => HeldIsLive BY DEF IInv
<1> QED BY <1>1, SpecIInv, PTL

\* No reference is deleted twice (scoped_java_ref.h:83-87, 227-228).
THEOREM NoDoubleDelete == Spec => []OneOwner
<1>1. IInv => OneOwner BY DEF IInv
<1> QED BY <1>1, SpecIInv, PTL

\* No reference is lost without being deleted (scoped_java_ref.cpp:39-40,
\* 57-58, 62-79).
THEOREM NoReferenceLeaks == Spec => []NothingLeaks
<1>1. IInv => NothingLeaks BY DEF IInv
<1> QED BY <1>1, SpecIInv, PTL
=============================================================================
