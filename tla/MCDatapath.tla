----------------------------- MODULE MCDatapath -----------------------------
(* Datapath for TLC.                                                        *)
EXTENDS Datapath

CONSTANTS i1, i2, a1, a2, a3, k1, k2, Allow, Deny

NoRules  == [k \in Keys |-> None]
NoIdents == [i \in IDs |-> None]

\* i1 may move between two addresses of its own, i2 may be listed with a bad one.
OwnAddresses == [i \in IDs |-> IF i = i1 THEN {a1, a2} ELSE {a3, BadIP}]

\* A pod's address is given to the next pod.
ReusedAddresses == [i \in IDs |-> {a1}]

FileRules   == {NoRules, [NoRules EXCEPT ![k1] = Allow]}
FileIdents  == {NoIdents, [NoIdents EXCEPT ![i1] = a1]}
EmptyRules  == {NoRules}
EmptyIdents == {NoIdents}
=============================================================================
