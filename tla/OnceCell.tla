------------------------------- MODULE OnceCell -------------------------------
(***************************************************************************)
(* What the lazily filled class cells promise: a cell is filled once, by   *)
(* whichever caller comes first, and every caller is given what is in it.  *)
(***************************************************************************)
CONSTANTS Keys, Callers, Values, Empty

VARIABLES
  cell,    \* what each cell holds
  result   \* what each caller was given by its call under way

vars == <<cell, result>>

Init ==
  /\ cell   = [k \in Keys |-> Empty]
  /\ result = [t \in Callers |-> Empty]

Get(t, k, v) ==
  /\ result[t] = Empty
  /\ cell'   = IF cell[k] = Empty THEN [cell EXCEPT ![k] = v] ELSE cell
  /\ result' = [result EXCEPT ![t] = cell'[k]]

Return(t) ==
  /\ result[t] # Empty
  /\ result' = [result EXCEPT ![t] = Empty]
  /\ UNCHANGED cell

Next ==
  \E t \in Callers :
    \/ Return(t)
    \/ \E k \in Keys, v \in Values : Get(t, k, v)

Spec == Init /\ [][Next]_vars
=============================================================================
