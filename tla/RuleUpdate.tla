----------------------------- MODULE RuleUpdate -----------------------------
(***************************************************************************)
(* What an update of the kernel's policy rules promises to the traffic,    *)
(* without saying how: rules change one at a time, what is added comes     *)
(* before what is removed, an update that ends well leaves every rule it   *)
(* wanted, and one that is refused leaves every rule that was there.       *)
(* Nothing of this holds in a process that saw a write fail half-way, and  *)
(* all of it again in the next one, which inherits the rules but accounts  *)
(* for none of them.                                                       *)
(***************************************************************************)
EXTENDS Naturals

CONSTANTS Keys, Verdicts, None

VARIABLES live,      \* the rules the traffic sees
          old, new,  \* the rules accounted for, and the ones to be installed
          torn,      \* a write of this process has failed half-way
          restarts   \* processes that have died

vars == <<live, old, new, torn, restarts>>

Rules   == [Keys -> Verdicts \union {None}]
Nothing == [k \in Keys |-> None]

Init == live = Nothing /\ old = Nothing /\ new = Nothing /\ torn = FALSE /\ restarts = 0

Installed == \A k \in Keys : new[k] # None => live[k] = new[k]
Removed   == \A k \in Keys : old[k] # None /\ new[k] = None => live[k] = None
Untouched == \A k \in Keys : old[k] # None => live[k] = old[k]

Begin ==
    /\ old = new
    /\ new' \in Rules
    /\ UNCHANGED <<live, old, torn, restarts>>

Add(k) ==
    /\ new[k] # None /\ new[k] # old[k]
    /\ live' = [live EXCEPT ![k] = new[k]]
    /\ UNCHANGED <<old, new, torn, restarts>>

Remove(k) ==
    /\ torn \/ Installed
    /\ old[k] # None /\ new[k] = None
    /\ live' = [live EXCEPT ![k] = None]
    /\ UNCHANGED <<old, new, torn, restarts>>

Finish ==
    /\ torn \/ (Installed /\ Removed)
    /\ old' = new
    /\ UNCHANGED <<live, new, torn, restarts>>

\* Nothing is there to be touched when nothing is accounted for: a seed may end
\* like this, and what it wrote is part of the inheritance.
Refuse ==
    /\ torn \/ Untouched
    /\ new' = old
    /\ UNCHANGED <<live, old, torn, restarts>>

Tear ==
    /\ torn' = TRUE
    /\ new' = old
    /\ UNCHANGED <<live, old, restarts>>

Restart ==
    /\ restarts' = restarts + 1
    /\ old' = Nothing /\ new' = Nothing
    /\ torn' = FALSE
    /\ UNCHANGED live

Next == \/ \E k \in Keys : Add(k) \/ Remove(k)
        \/ Begin \/ Finish \/ Refuse \/ Tear \/ Restart

Spec == Init /\ [][Next]_vars

=============================================================================
