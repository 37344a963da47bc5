---------------------------- MODULE ScopedJavaRef ----------------------------
(***************************************************************************)
(* The owners of JNI references (scoped_java_ref.h, scoped_java_ref.cpp):  *)
(* ScopedJavaLocalRef, ScopedJavaGlobalRef and JavaParamRef.               *)
(*                                                                         *)
(* Every JNI method of the library passes Java objects through these       *)
(* classes.  A reference must be deleted exactly once, by whoever owns it: *)
(* deleted twice, or used after it is deleted, it stops the virtual        *)
(* machine; never deleted, it fills the reference table.                   *)
(*                                                                         *)
(* One thread works on the wrappers; the classes are not synchronised.     *)
(* The thread is always attached.  LocalRefs and GlobalRefs bound the      *)
(* references alive at one time.                                           *)
(***************************************************************************)

CONSTANTS
  LocalScopes,    \* ScopedJavaLocalRef objects
  GlobalScopes,   \* ScopedJavaGlobalRef objects
  LocalRefs,      \* local references the virtual machine can hand out
  GlobalRefs,     \* global references
  Null            \* the null reference

Scopes == LocalScopes \cup GlobalScopes
Refs   == LocalRefs \cup GlobalRefs

ASSUME RefsAssumption ==
  /\ LocalScopes \cap GlobalScopes = {} /\ LocalRefs \cap GlobalRefs = {}
  /\ Null \notin Refs \cup Scopes

VARIABLES
  built,    \* the wrapper has been constructed and not yet destroyed
  obj,      \* the reference it holds (obj_)
  table,    \* the references the virtual machine knows
  bare,     \* those in nobody's wrapper, which other code must delete
  params,   \* those Java passed as arguments, which nobody may delete
  setting,  \* the wrapper in the middle of a Set...Ref, or Null
  given,    \* the reference that call was given
  fresh     \* the reference it has made from it

vars == <<built, obj, table, bare, params, setting, given, fresh>>

Init ==
  /\ built   = [s \in Scopes |-> FALSE]
  /\ obj     = [s \in Scopes |-> Null]
  /\ table   = {}
  /\ bare    = {}
  /\ params  = {}
  /\ setting = Null
  /\ given   = Null
  /\ fresh   = Null

KindOf(s) == IF s \in LocalScopes THEN LocalRefs ELSE GlobalRefs

Idle == setting = Null

-----------------------------------------------------------------------------
(* References outside the wrappers                                         *)

\* A JNI function returns a new local reference.
JniResult(r) ==
  /\ Idle /\ r \in LocalRefs \ table
  /\ table' = table \cup {r}
  /\ bare'  = bare \cup {r}
  /\ UNCHANGED <<built, obj, params, setting, given, fresh>>

\* The owner of a bare reference deletes it, or returns it to Java.
DeleteBare(r) ==
  /\ Idle /\ r \in bare
  /\ table' = table \ {r}
  /\ bare'  = bare \ {r}
  /\ UNCHANGED <<built, obj, params, setting, given, fresh>>

\* Java calls a native method; a JavaParamRef wraps the argument and never
\* deletes it.  The virtual machine takes it back when the method returns.
PassParam(r) ==
  /\ Idle /\ r \in LocalRefs \ table
  /\ table'  = table \cup {r}
  /\ params' = params \cup {r}
  /\ UNCHANGED <<built, obj, bare, setting, given, fresh>>

TakeParam(r) ==
  /\ Idle /\ r \in params
  /\ table'  = table \ {r}
  /\ params' = params \ {r}
  /\ UNCHANGED <<built, obj, bare, setting, given, fresh>>

-----------------------------------------------------------------------------
(* Constructors                                                            *)

\* The wrapper takes a bare local reference over.
Adopt(s, r) ==
  /\ Idle /\ s \in LocalScopes /\ ~built[s] /\ r \in bare \cap LocalRefs
  /\ built' = [built EXCEPT ![s] = TRUE]
  /\ obj'   = [obj EXCEPT ![s] = r]
  /\ bare'  = bare \ {r}
  /\ UNCHANGED <<table, params, setting, given, fresh>>

ConstructNull(s) ==
  /\ Idle /\ ~built[s]
  /\ built' = [built EXCEPT ![s] = TRUE]
  /\ UNCHANGED <<obj, table, bare, params, setting, given, fresh>>

\* Mutated form: steal without clearing the other wrapper.
Steal_keeps(s, o) == obj' = [obj EXCEPT ![s] = obj[o]]

Steal(s, o) == obj' = [obj EXCEPT ![s] = obj[o], ![o] = Null]

Move(s, o) ==
  /\ Idle /\ ~built[s] /\ built[o]
  /\ built' = [built EXCEPT ![s] = TRUE]
  /\ Steal(s, o)
  /\ UNCHANGED <<table, bare, params, setting, given, fresh>>

MoveLocal(s, o)  == {s, o} \subseteq LocalScopes /\ Move(s, o)

MoveGlobal(s, o) == {s, o} \subseteq GlobalScopes /\ Move(s, o)

-----------------------------------------------------------------------------
(* Copying: SetNewLocalRef and SetNewGlobalRef                             *)

\* What a copy is made from: the reference in a wrapper (possibly the same
\* one), in a parameter, or bare.
Readable == {obj[s] : s \in {x \in Scopes : built[x]}} \cup params \cup bare

\* The last conjunct keeps within the bound on references.
BeginSet(s, r) ==
  /\ Idle /\ r \in Readable
  /\ r # Null => KindOf(s) \ table # {}
  /\ built'   = [built EXCEPT ![s] = TRUE]
  /\ setting' = s
  /\ given'   = r
  /\ UNCHANGED <<obj, table, bare, params, fresh>>

CopyLocal(s, r)    == s \in LocalScopes /\ ~built[s] /\ BeginSet(s, r)
CopyGlobal(s, r)   == s \in GlobalScopes /\ ~built[s] /\ BeginSet(s, r)
AssignLocal(s, r)  == s \in LocalScopes /\ built[s] /\ BeginSet(s, r)
AssignGlobal(s, r) == s \in GlobalScopes /\ built[s] /\ BeginSet(s, r)

\* Mutated form: the old reference goes before the new one is made.
NewRef_late(n) ==
  /\ ~Idle /\ fresh = Null /\ given # Null
  /\ n \in KindOf(setting) \ table
  /\ fresh' = n
  /\ table' = (table \ {obj[setting]}) \cup {n}
  /\ UNCHANGED <<built, obj, bare, params, setting, given>>

\* A new reference to the same object is made first...
NewRef(n) ==
  /\ ~Idle /\ fresh = Null /\ given # Null
  /\ n \in KindOf(setting) \ table
  /\ fresh' = n
  /\ table' = table \cup {n}
  /\ UNCHANGED <<built, obj, bare, params, setting, given>>

\* ... then the old reference is deleted and the new one stored.
StoreRef ==
  /\ ~Idle /\ (given = Null \/ fresh # Null)
  /\ table' = table \ {obj[setting]}
  /\ obj'   = [obj EXCEPT ![setting] = fresh]
  /\ setting' = Null /\ given' = Null /\ fresh' = Null
  /\ UNCHANGED <<built, bare, params>>

SetNewLocalRef ==
  setting \in LocalScopes /\ ((\E n \in LocalRefs : NewRef(n)) \/ StoreRef)

SetNewGlobalRef ==
  setting \in GlobalScopes /\ ((\E n \in GlobalRefs : NewRef(n)) \/ StoreRef)

-----------------------------------------------------------------------------
(* Reset, destruction, release                                             *)

\* Mutated form: a reset that forgets the reference.
Drop_leaks(s) ==
  /\ obj' = [obj EXCEPT ![s] = Null]
  /\ UNCHANGED table

Drop(s) ==
  /\ table' = table \ {obj[s]}
  /\ obj'   = [obj EXCEPT ![s] = Null]

Reset(s) ==
  /\ Idle /\ built[s]
  /\ Drop(s)
  /\ UNCHANGED <<built, bare, params, setting, given, fresh>>

ResetLocalRef(s)  == s \in LocalScopes /\ Reset(s)

ResetGlobalRef(s) == s \in GlobalScopes /\ Reset(s)

\* Mutated form: a destructor without its Reset.
Destroy_noReset(s) ==
  /\ Idle /\ built[s]
  /\ built' = [built EXCEPT ![s] = FALSE]
  /\ UNCHANGED <<obj, table, bare, params, setting, given, fresh>>

\* The destructor resets the wrapper first.
Destroy(s) ==
  /\ Idle /\ built[s]
  /\ Drop(s)
  /\ built' = [built EXCEPT ![s] = FALSE]
  /\ UNCHANGED <<bare, params, setting, given, fresh>>

DestroyLocal(s)  == s \in LocalScopes /\ Destroy(s)

DestroyGlobal(s) == s \in GlobalScopes /\ Destroy(s)

\* The reference goes back to the caller, who must delete it.
Release(s) ==
  /\ Idle /\ built[s] /\ obj[s] # Null
  /\ bare' = bare \cup {obj[s]}
  /\ obj'  = [obj EXCEPT ![s] = Null]
  /\ UNCHANGED <<built, table, params, setting, given, fresh>>

ReleaseLocal(s)  == s \in LocalScopes /\ Release(s)

ReleaseGlobal(s) == s \in GlobalScopes /\ Release(s)

-----------------------------------------------------------------------------
Construct(s) ==
  \/ ConstructNull(s)
  \/ \E r \in Refs : Adopt(s, r)
  \/ \E o \in Scopes : MoveLocal(s, o) \/ MoveGlobal(s, o)
  \/ \E r \in Refs \cup {Null} :
       CopyLocal(s, r) \/ CopyGlobal(s, r) \/ AssignLocal(s, r) \/ AssignGlobal(s, r)

Discard(s) ==
  \/ ResetLocalRef(s) \/ ResetGlobalRef(s)
  \/ DestroyLocal(s) \/ DestroyGlobal(s)
  \/ ReleaseLocal(s) \/ ReleaseGlobal(s)

Next ==
  \/ \E r \in Refs : JniResult(r) \/ DeleteBare(r) \/ PassParam(r) \/ TakeParam(r)
  \/ \E s \in Scopes : Construct(s) \/ Discard(s)
  \/ SetNewLocalRef \/ SetNewGlobalRef

Spec == Init /\ [][Next]_vars
-----------------------------------------------------------------------------
(* Properties                                                              *)

\* Types; a wrapper holds references of its own kind only, and none once it
\* is destroyed (scoped_java_ref.h:235-238, 350-353).
TypeOK ==
  /\ built   \in [Scopes -> BOOLEAN]
  /\ obj     \in [Scopes -> Refs \cup {Null}]
  /\ \A s \in Scopes : obj[s] # Null => built[s] /\ obj[s] \in KindOf(s)
  /\ table   \subseteq Refs
  /\ bare    \subseteq Refs
  /\ params  \subseteq LocalRefs
  /\ setting \in Scopes \cup {Null}
  /\ given   \in Refs \cup {Null}
  /\ fresh   \in Refs \cup {Null}

\* A wrapper never holds, and a copy is never made from, a reference that has
\* been deleted, also when a wrapper is assigned to itself
\* (scoped_java_ref.cpp:37-40).
HeldIsLive ==
  /\ \A s \in Scopes : obj[s] # Null => obj[s] \in table
  /\ setting # Null /\ fresh = Null /\ given # Null => given \in table

\* No reference will be deleted twice: it is in one wrapper, or bare, or a
\* parameter (scoped_java_ref.h:83-87, 151-152, 227-228).
OneOwner ==
  /\ \A s, o \in Scopes : s # o /\ obj[s] # Null => obj[s] # obj[o]
  /\ \A s \in Scopes : obj[s] \notin bare \cup params
  /\ bare \cap params = {}

\* Every reference the virtual machine keeps has someone who will delete it.
NothingLeaks ==
  \A r \in table :
    r = fresh \/ r \in bare \cup params \/ \E s \in Scopes : obj[s] = r
=============================================================================
