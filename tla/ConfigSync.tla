----------------------------- MODULE ConfigSync -----------------------------
(***************************************************************************)
(* What the configuration channel promises, without saying how: the agent  *)
(* holds, for each half of the configuration, a content the Store really   *)
(* had, and only ever moves to a later one.  It may skip contents (the     *)
(* Watch seam coalesces) and may lag arbitrarily far behind.               *)
(***************************************************************************)
EXTENDS Naturals

CONSTANT Types       \* the halves of the configuration

VARIABLES store,     \* revision of each half at the control plane
          applied    \* revision of each half at the agent

vars == <<store, applied>>

Init == /\ store = [t \in Types |-> 0]
        /\ applied = [t \in Types |-> 0]

Change(t) == /\ store' = [store EXCEPT ![t] = @ + 1]
             /\ UNCHANGED applied

CatchUp(t) == \E r \in applied[t] + 1 .. store[t] :
    /\ applied' = [applied EXCEPT ![t] = r]
    /\ UNCHANGED store

Next == \E t \in Types : Change(t) \/ CatchUp(t)

Spec == Init /\ [][Next]_vars

=============================================================================
