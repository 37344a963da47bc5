------------------------------ MODULE LazyClass ------------------------------
(***************************************************************************)
(* How native code finds and calls a Java method: LazyGetClass and         *)
(* MethodID::LazyGet (jni_generator_helper.cpp) and the call contexts of   *)
(* jni_generator_helper.h, as every generated Java_..._... function uses   *)
(* them (generated_mediasoupclient_jni).                                   *)
(*                                                                         *)
(* The class of a method sits in an atomic cell as a global reference, the *)
(* method id in a cell of its own.  Client threads and the signalling      *)
(* threads of all peer connections fill and read the cells with no lock.   *)
(*                                                                         *)
(* A class or method that does not exist stops the process at RTC_CHECK;   *)
(* the classes are part of the same archive, so that is left out.          *)
(***************************************************************************)
CONSTANTS
  Threads, Classes, Methods,
  ClassOf,     \* the class of each method
  NoRef        \* an empty cell

ASSUME ClassOfAssumption == ClassOf \in [Methods -> Classes]

\* The global reference to class c that thread t makes.
Made(t, c) == <<t, c>>
Refs == Threads \X Classes

ASSUME NoRefAssumption == NoRef \notin Refs

VARIABLES
  cell,      \* atomic_class_id of each class
  ids,       \* the methods whose atomic_method_id is set
  refs,      \* global references that exist
  pc,        \* where a thread is in its call
  job,       \* the method it calls
  clazz,     \* what LazyGetClass returned
  pending,   \* Java left an exception
  aborted    \* a check failed and stopped the process

vars == <<cell, ids, refs, pc, job, clazz, pending, aborted>>

\* Inside LazyGetClass: "load", "lookup", "exchange", "lost"; inside
\* LazyGet: "loadId", "getId", "storeId"; then "call" and "check".
Steps == {"idle", "load", "lookup", "exchange", "lost",
          "loadId", "getId", "storeId", "call", "check"}

Init ==
  /\ cell    = [c \in Classes |-> NoRef]
  /\ ids     = {}
  /\ refs    = {}
  /\ pc      = [t \in Threads |-> "idle"]
  /\ job     \in [Threads -> Methods]
  /\ clazz   = [t \in Threads |-> NoRef]
  /\ pending = [t \in Threads |-> FALSE]
  /\ aborted = FALSE

Class(t) == ClassOf[job[t]]

Goto(t, from, to) == ~aborted /\ pc[t] = from /\ pc' = [pc EXCEPT ![t] = to]

-----------------------------------------------------------------------------
(* LazyGetClass                                                            *)

CallJava(t, m) ==
  /\ Goto(t, "idle", "load")
  /\ job' = [job EXCEPT ![t] = m]
  /\ UNCHANGED <<cell, ids, refs, clazz, pending, aborted>>

LoadClass(t) ==
  /\ UNCHANGED <<cell, ids, refs, job, pending, aborted>>
  /\ \/ /\ cell[Class(t)] # NoRef
        /\ clazz' = [clazz EXCEPT ![t] = cell[Class(t)]]
        /\ Goto(t, "load", "loadId")
     \/ /\ cell[Class(t)] = NoRef
        /\ Goto(t, "load", "lookup") /\ UNCHANGED clazz

\* A global reference of the thread's own, in a scoped wrapper.
GetClass(t) ==
  /\ Goto(t, "lookup", "exchange")
  /\ refs' = refs \cup {Made(t, Class(t))}
  /\ UNCHANGED <<cell, ids, job, clazz, pending, aborted>>

\* Mutated form: the reference is stored without a look at the cell.
ExchangeClass_plainStore(t) ==
  /\ Goto(t, "exchange", "loadId")
  /\ cell'  = [cell EXCEPT ![Class(t)] = Made(t, Class(t))]
  /\ clazz' = [clazz EXCEPT ![t] = Made(t, Class(t))]
  /\ UNCHANGED <<ids, refs, job, pending, aborted>>

\* The compare-and-exchange.  The winner's wrapper releases the reference,
\* the loser returns the reference it found.
ExchangeClass(t) ==
  /\ \/ /\ cell[Class(t)] = NoRef
        /\ cell' = [cell EXCEPT ![Class(t)] = Made(t, Class(t))]
        /\ Goto(t, "exchange", "loadId")
     \/ /\ cell[Class(t)] # NoRef
        /\ UNCHANGED cell
        /\ Goto(t, "exchange", "lost")
  /\ clazz' = [clazz EXCEPT ![t] = cell'[Class(t)]]
  /\ UNCHANGED <<ids, refs, job, pending, aborted>>

\* Mutated form: the loser's wrapper is released as well.
DropDuplicate_leaks(t) ==
  /\ Goto(t, "lost", "loadId")
  /\ UNCHANGED <<cell, ids, refs, job, clazz, pending, aborted>>

\* Mutated form: the wrapper of the one the cell points at is destroyed.
DropDuplicate_winner(t) ==
  /\ Goto(t, "lost", "loadId")
  /\ refs' = refs \ {cell[Class(t)]}
  /\ UNCHANGED <<cell, ids, job, clazz, pending, aborted>>

\* The loser's wrapper deletes its own reference.
DropDuplicate(t) ==
  /\ Goto(t, "lost", "loadId")
  /\ refs' = refs \ {Made(t, Class(t))}
  /\ UNCHANGED <<cell, ids, job, clazz, pending, aborted>>

-----------------------------------------------------------------------------
(* MethodID::LazyGet                                                       *)

LoadMethod(t) ==
  /\ \/ job[t] \in ids /\ Goto(t, "loadId", "call")
     \/ job[t] \notin ids /\ Goto(t, "loadId", "getId")
  /\ UNCHANGED <<cell, ids, refs, job, clazz, pending, aborted>>

GetMethodID(t) ==
  /\ Goto(t, "getId", "storeId")
  /\ UNCHANGED <<cell, ids, refs, job, clazz, pending, aborted>>

StoreMethod(t) ==
  /\ Goto(t, "storeId", "call")
  /\ ids' = ids \cup {job[t]}
  /\ UNCHANGED <<cell, refs, job, clazz, pending, aborted>>

-----------------------------------------------------------------------------
(* The call and the check after it                                         *)

CallMethod(t) ==
  /\ Goto(t, "call", "check")
  /\ \E thrown \in BOOLEAN : pending' = [pending EXCEPT ![t] = thrown]
  /\ UNCHANGED <<cell, ids, refs, job, clazz, aborted>>

\* Mutated form: a context without a check, as JniJavaCallContextUnchecked has it.
CheckException_unchecked(t) ==
  /\ Goto(t, "check", "idle")
  /\ clazz' = [clazz EXCEPT ![t] = NoRef]
  /\ UNCHANGED <<cell, ids, refs, job, pending, aborted>>

\* Mutated form: the class is kept for the next call.
CheckException_keeps(t) ==
  /\ Goto(t, "check", "idle")
  /\ aborted' = pending[t]
  /\ UNCHANGED <<cell, ids, refs, job, clazz, pending>>

\* The destructor of the checked context stops the process.
CheckException(t) ==
  /\ Goto(t, "check", "idle")
  /\ clazz'   = [clazz EXCEPT ![t] = NoRef]
  /\ aborted' = pending[t]
  /\ UNCHANGED <<cell, ids, refs, job, pending>>

-----------------------------------------------------------------------------
Step(t) ==
  \/ LoadClass(t) \/ GetClass(t) \/ ExchangeClass(t) \/ DropDuplicate(t)
  \/ LoadMethod(t) \/ GetMethodID(t) \/ StoreMethod(t)
  \/ CallMethod(t) \/ CheckException(t)

Next == \E t \in Threads : Step(t) \/ \E m \in Methods : CallJava(t, m)

Spec == Init /\ [][Next]_vars
-----------------------------------------------------------------------------
(* Properties                                                              *)

TypeOK ==
  /\ cell    \in [Classes -> Refs \cup {NoRef}]
  /\ ids     \subseteq Methods
  /\ refs    \subseteq Refs
  /\ pc      \in [Threads -> Steps]
  /\ job     \in [Threads -> Methods]
  /\ clazz   \in [Threads -> Refs \cup {NoRef}]
  /\ \A t \in Threads : pc[t] = "idle" => clazz[t] = NoRef
  /\ pending \in [Threads -> BOOLEAN]
  /\ aborted \in BOOLEAN

\* The class a thread looks a method up in, or builds an object of, is a
\* reference that exists, whichever thread made it; and a method id in its
\* cell belongs to a class that is still referenced
\* (jni_generator_helper.cpp:28-41, 60, 63).
ClassIsLive ==
  /\ \A t \in Threads :
       pc[t] \in {"lost", "loadId", "getId", "storeId", "call"} => clazz[t] \in refs
  /\ \A m \in ids : cell[ClassOf[m]] \in refs

\* Once the threads that raced for a class have returned, at most one global
\* reference to it is left, the one in the cell: "we take care to only store
\* one global reference" (jni_generator_helper.cpp:19-20).
OneRefStored ==
  \A r \in refs :
    \/ cell[r[2]] = r
    \/ pc[r[1]] \in {"exchange", "lost"} /\ Class(r[1]) = r[2]

\* No thread goes back to its caller, which may make further JNI calls, with
\* an exception of its callback pending (jni_generator_helper.h:160-163).
NoCallWithException ==
  ~aborted => \A t \in Threads : pc[t] # "check" => ~pending[t]

\* The cells implement cells that are filled once.
Once == INSTANCE OnceCell WITH
  Keys <- Classes, Callers <- Threads, Values <- Refs, Empty <- NoRef,
  cell <- cell, result <- clazz

\* Every step of the lookups is a step of the cells filled once, or none.
FilledOnce == Once!Spec
=============================================================================
