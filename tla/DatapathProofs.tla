--------------------------- MODULE DatapathProofs ---------------------------
(***************************************************************************)
(* Proofs about Datapath, for any sets of identities, addresses, keys and  *)
(* verdicts, any seed file and any number of failures and restarts.        *)
(***************************************************************************)
EXTENDS Datapath, TLAPS

\* Where Apply stands: it works off the difference of two snapshots, phase by phase.
PlanInv ==
    /\ pc \in {"idle", "down"} => plan = Done /\ candidate = applied
    /\ pc \in {"down", "seed"} => applied = Empty /\ ~torn
    /\ pc = "seed" => candidate = seed
    /\ plan.identityUpserts \subseteq diff(applied, candidate).identityUpserts
    /\ plan.policyUpserts \subseteq diff(applied, candidate).policyUpserts
    /\ plan.policyDeletes \subseteq diff(applied, candidate).policyDeletes
    /\ plan.identityDeletes \subseteq diff(applied, candidate).identityDeletes
    /\ plan.identityUpserts # {} =>
          /\ plan.policyUpserts = diff(applied, candidate).policyUpserts
          /\ plan.policyDeletes = diff(applied, candidate).policyDeletes
          /\ plan.identityDeletes = diff(applied, candidate).identityDeletes
    /\ plan.policyUpserts # {} =>
          plan.policyDeletes = diff(applied, candidate).policyDeletes

\* An entry from before: the client has never applied its key.
Inherited(k) == applied.policies[k] = None /\ (restarts > 0 \/ seed.policies[k] # None)

\* A rule is the applied one until its syscall, the desired one after it.
RuleInv ==
    ~torn =>
        \A k \in Keys :
            IF \/ applied.policies[k] = candidate.policies[k]
               \/ k \in plan.policyUpserts \union plan.policyDeletes
            THEN policyMap[k] = applied.policies[k] \/ Inherited(k)
            ELSE policyMap[k] = candidate.policies[k]

\* The writer only remembers addresses the identity was listed with.  A listed
\* address is attributed from its upsert on, an applied one until its delete.
IdentityInv ==
    /\ \A i \in IDs : keyByID[i] \in Addresses[i] \union {None}
    /\ Exclusive /\ ~torn =>
         \A i \in IDs :
            /\ candidate.identities[i] \in IPs /\ i \notin plan.identityUpserts =>
                  identityMap[candidate.identities[i]] = i
            /\ /\ applied.identities[i] \in IPs
               /\ candidate.identities[i] # None \/ i \in plan.identityDeletes
               => identityMap[applied.identities[i]] = i

-----------------------------------------------------------------------------

\* The fields of the two kinds of records.
LEMMA SnapshotFields ==
    ASSUME NEW s \in Snapshot
    PROVE  /\ s.policies \in Policies /\ s.identities \in Identities
           /\ \A k \in Keys : s.policies[k] \in Verdicts \union {None}
           /\ \A i \in IDs : s.identities[i] \in Addresses[i] \union {None}
BY DEF Snapshot, Policies, Identities

LEMMA EmptyFields ==
    /\ Empty \in Snapshot
    /\ \A k \in Keys : Empty.policies[k] = None
    /\ \A i \in IDs : Empty.identities[i] = None
BY ConstantsAssumption DEF Empty, Snapshot, Policies, Identities

Plan == [identityUpserts : SUBSET IDs, policyUpserts : SUBSET Keys,
         policyDeletes : SUBSET Keys, identityDeletes : SUBSET IDs]

LEMMA PlanTypes ==
    /\ Done \in Plan
    /\ \A old, next : diff(old, next) \in Plan
BY DEF Done, Plan, diff

LEMMA SeedType ==
    \A s \in [policies : SeedPolicies, identities : SeedIdentities] : s \in Snapshot
BY ConstantsAssumption DEF Snapshot

LEMMA TypeInit == Init => TypeOK
<1> SUFFICES ASSUME Init PROVE TypeOK
  OBVIOUS
<1>1. policyMap \in Policies
  BY DEF Init, Policies
<1>2. seed \in Snapshot
  BY SeedType DEF Init
<1>3. identityMap \in [IPs -> IDs \union {None}] /\ keyByID \in [IDs -> IPs \union {None}]
  BY DEF Init
<1>4. applied \in Snapshot /\ candidate \in Snapshot /\ plan \in Plan
  BY EmptyFields, PlanTypes DEF Init
<1> QED
  BY <1>1, <1>2, <1>3, <1>4 DEF Init, TypeOK, Plan

LEMMA TypeNext ==
    ASSUME TypeOK, PlanInv, [Next]_vars
    PROVE  TypeOK'
<1> USE DEF kernel
<1>1. CASE Startup
  BY <1>1, PlanTypes DEF Startup, TypeOK, Plan
<1>2. ASSUME NEW next \in Snapshot, Receive(next) PROVE TypeOK'
  BY <1>2, PlanTypes DEF Receive, TypeOK, Plan
<1>3. CASE ReceiveCDS
  <2>1. PICK p \in Policies : Receive([applied EXCEPT !.policies = p])
    BY <1>3 DEF ReceiveCDS
  <2>2. [applied EXCEPT !.policies = p] \in Snapshot
    BY DEF TypeOK, Snapshot
  <2> QED
    BY <1>2, <2>1, <2>2
<1>4. CASE ReceiveEDS
  <2>1. PICK d \in Identities : Receive([applied EXCEPT !.identities = d])
    BY <1>4 DEF ReceiveEDS
  <2>2. [applied EXCEPT !.identities = d] \in Snapshot
    BY DEF TypeOK, Snapshot
  <2> QED
    BY <1>2, <2>1, <2>2
<1>5. ASSUME NEW i \in IDs, UpsertIdentity(i) PROVE TypeOK'
  <2>1. candidate.identities[i] \in IPs
    <3>1. candidate.identities[i] # None /\ candidate.identities[i] # BadIP
      BY <1>5 DEF UpsertIdentity, PlanInv, diff
    <3>2. candidate.identities[i] \in IPs \union {BadIP, None}
      BY SnapshotFields DEF TypeOK, Identities
    <3> QED
      BY <3>1, <3>2
  <2> QED
    BY <1>5, <2>1 DEF UpsertIdentity, TypeOK
<1>6. ASSUME NEW k \in Keys, UpsertPolicy(k) PROVE TypeOK'
  BY <1>6, SnapshotFields DEF UpsertPolicy, TypeOK, Policies
<1>7. ASSUME NEW k \in Keys, DeletePolicy(k) PROVE TypeOK'
  BY <1>7 DEF DeletePolicy, TypeOK, Policies
<1>8. ASSUME NEW i \in IDs, DeleteIdentity(i) PROVE TypeOK'
  BY <1>8 DEF DeleteIdentity, TypeOK
<1>9. CASE Commit \/ SeedDone
  BY <1>9 DEF Commit, SeedDone, TypeOK
<1>10. CASE SyscallFails
  <2>1. failures' \in Nat
    BY <1>10 DEF SyscallFails, TypeOK
  <2> QED
    BY <1>10, <2>1, PlanTypes DEF SyscallFails, GiveUp, TypeOK, Plan
<1>11. CASE TranslateFails
  BY <1>11, PlanTypes DEF TranslateFails, GiveUp, TypeOK, Plan
<1>12. CASE Crash
  <2>1. restarts' \in Nat
    BY <1>12 DEF Crash, TypeOK
  <2> QED
    BY <1>12, <2>1, PlanTypes, EmptyFields DEF Crash, TypeOK, Plan
<1>13. CASE UNCHANGED vars
  BY <1>13 DEF vars, TypeOK
<1> QED
  BY <1>1, <1>3, <1>4, <1>5, <1>6, <1>7, <1>8, <1>9, <1>10, <1>11, <1>12, <1>13
     DEF Next, Apply

\* The fields of a difference.
LEMMA DiffFields ==
    ASSUME NEW old, NEW next
    PROVE  /\ \A i \in IDs : i \in diff(old, next).identityUpserts <=>
                 next.identities[i] # None /\ next.identities[i] # old.identities[i]
           /\ \A k \in Keys : k \in diff(old, next).policyUpserts <=>
                 next.policies[k] # None /\ next.policies[k] # old.policies[k]
           /\ \A k \in Keys : k \in diff(old, next).policyDeletes <=>
                 old.policies[k] # None /\ next.policies[k] = None
           /\ \A i \in IDs : i \in diff(old, next).identityDeletes <=>
                 old.identities[i] # None /\ next.identities[i] = None
BY DEF diff

\* One syscall takes one element off one field of the plan.
LEMMA PlanSteps ==
    ASSUME TypeOK
    PROVE  /\ \A i : UpsertIdentity(i) =>
                 /\ plan'.identityUpserts = plan.identityUpserts \ {i}
                 /\ plan'.policyUpserts = plan.policyUpserts
                 /\ plan'.policyDeletes = plan.policyDeletes
                 /\ plan'.identityDeletes = plan.identityDeletes
           /\ \A k : UpsertPolicy(k) =>
                 /\ plan'.identityUpserts = plan.identityUpserts
                 /\ plan'.policyUpserts = plan.policyUpserts \ {k}
                 /\ plan'.policyDeletes = plan.policyDeletes
                 /\ plan'.identityDeletes = plan.identityDeletes
           /\ \A k : DeletePolicy(k) =>
                 /\ plan'.identityUpserts = plan.identityUpserts
                 /\ plan'.policyUpserts = plan.policyUpserts
                 /\ plan'.policyDeletes = plan.policyDeletes \ {k}
                 /\ plan'.identityDeletes = plan.identityDeletes
           /\ \A i : DeleteIdentity(i) =>
                 /\ plan'.identityUpserts = plan.identityUpserts
                 /\ plan'.policyUpserts = plan.policyUpserts
                 /\ plan'.policyDeletes = plan.policyDeletes
                 /\ plan'.identityDeletes = plan.identityDeletes \ {i}
BY DEF TypeOK, UpsertIdentity, UpsertPolicy, DeletePolicy, DeleteIdentity

LEMMA DoneFields ==
    /\ Done.identityUpserts = {} /\ Done.policyUpserts = {}
    /\ Done.policyDeletes = {} /\ Done.identityDeletes = {}
BY DEF Done

LEMMA PlanNext ==
    ASSUME TypeOK, PlanInv, [Next]_vars
    PROVE  PlanInv'
<1> USE DEF kernel
<1>1. CASE Startup
  BY <1>1 DEF Startup, PlanInv
<1>2. ASSUME NEW next, Receive(next) PROVE PlanInv'
  BY <1>2 DEF Receive, PlanInv
<1>3. CASE ReceiveCDS \/ ReceiveEDS
  BY <1>2, <1>3 DEF ReceiveCDS, ReceiveEDS
<1>4. ASSUME NEW i \in IDs, UpsertIdentity(i) PROVE PlanInv'
  <2>1. UNCHANGED <<applied, candidate, pc, seed, torn>> /\ Applying /\ i \in plan.identityUpserts
    BY <1>4 DEF UpsertIdentity
  <2> QED
    BY <1>4, <2>1, PlanSteps DEF PlanInv, Applying
<1>5. ASSUME NEW k \in Keys, UpsertPolicy(k) PROVE PlanInv'
  <2>1. /\ UNCHANGED <<applied, candidate, pc, seed, torn>> /\ Applying
        /\ plan.identityUpserts = {} /\ k \in plan.policyUpserts
    BY <1>5 DEF UpsertPolicy
  <2> QED
    BY <1>5, <2>1, PlanSteps DEF PlanInv, Applying
<1>6. ASSUME NEW k \in Keys, DeletePolicy(k) PROVE PlanInv'
  <2>1. /\ UNCHANGED <<applied, candidate, pc, seed, torn>> /\ Applying
        /\ plan.identityUpserts = {} /\ plan.policyUpserts = {}
    BY <1>6 DEF DeletePolicy
  <2> QED
    BY <1>6, <2>1, PlanSteps DEF PlanInv, Applying
<1>7. ASSUME NEW i \in IDs, DeleteIdentity(i) PROVE PlanInv'
  <2>1. /\ UNCHANGED <<applied, candidate, pc, seed, torn>> /\ Applying
        /\ plan.identityUpserts = {} /\ plan.policyUpserts = {}
    BY <1>7 DEF DeleteIdentity
  <2> QED
    BY <1>7, <2>1, PlanSteps DEF PlanInv, Applying
<1>8. ASSUME plan' = Done, candidate' = applied', pc' \in {"idle", "down"},
             pc' = "down" => applied' = Empty /\ ~torn'
      PROVE  PlanInv'
  BY <1>8, DoneFields DEF PlanInv
<1>9. CASE Commit \/ SeedDone
  BY <1>8, <1>9 DEF Commit, SeedDone
<1>10. CASE SyscallFails \/ TranslateFails
  BY <1>8, <1>10 DEF SyscallFails, TranslateFails, GiveUp, PlanInv
<1>11. CASE Crash
  BY <1>8, <1>11 DEF Crash
<1>12. CASE UNCHANGED vars
  BY <1>12 DEF vars, PlanInv
<1> QED
  BY <1>1, <1>3, <1>4, <1>5, <1>6, <1>7, <1>9, <1>10, <1>11, <1>12 DEF Next, Apply

LEMMA PlanInit == Init => PlanInv
BY DoneFields DEF Init, PlanInv

\* The maps, the client's snapshots and the writer's bookkeeping stay well-formed
\* (writer_linux.go, client.go).
THEOREM TypeCorrect == Spec => []TypeOK
<1>1. Init => TypeOK /\ PlanInv
  BY TypeInit, PlanInit
<1>2. TypeOK /\ PlanInv /\ [Next]_vars => (TypeOK /\ PlanInv)'
  BY TypeNext, PlanNext
<1> QED
  BY <1>1, <1>2, PTL DEF Spec

-----------------------------------------------------------------------------
(* The live rules.                                                          *)

\* At rest, and as long as no policy syscall was made, every rule is the applied
\* one or inherited.
LEMMA RulesUntouched ==
    ASSUME TypeOK, PlanInv, RuleInv, ~torn,
           pc \in {"idle", "down"} \/ plan.identityUpserts # {}
    PROVE  \A k \in Keys : policyMap[k] = applied.policies[k] \/ Inherited(k)
<1> SUFFICES ASSUME NEW k \in Keys
             PROVE  policyMap[k] = applied.policies[k] \/ Inherited(k)
  OBVIOUS
<1>1. \/ applied.policies[k] = candidate.policies[k]
      \/ k \in plan.policyUpserts \union plan.policyDeletes
  BY DiffFields DEF PlanInv
<1> QED
  BY <1>1 DEF RuleInv

LEMMA RuleNext ==
    ASSUME TypeOK, TypeOK', PlanInv, RuleInv, [Next]_vars
    PROVE  RuleInv'
<1> USE DEF kernel
<1>1. CASE UNCHANGED <<policyMap, applied, candidate, seed, torn, restarts,
                       plan.policyUpserts, plan.policyDeletes>>
  BY <1>1 DEF RuleInv, Inherited
<1>2. ASSUME pc = "idle" \/ pc = "down", plan' = diff(applied, candidate'),
             UNCHANGED <<policyMap, applied, seed, torn, restarts>>
      PROVE  RuleInv'
  <2> SUFFICES ASSUME ~torn, NEW k \in Keys
               PROVE  IF \/ applied.policies[k] = candidate'.policies[k]
                         \/ k \in plan'.policyUpserts \union plan'.policyDeletes
                      THEN policyMap[k] = applied.policies[k] \/ Inherited(k)
                      ELSE policyMap[k] = candidate'.policies[k]
    BY <1>2 DEF RuleInv, Inherited
  <2>1. policyMap[k] = applied.policies[k] \/ Inherited(k)
    BY <1>2, RulesUntouched
  <2>2. \/ applied.policies[k] = candidate'.policies[k]
        \/ k \in plan'.policyUpserts \union plan'.policyDeletes
    BY <1>2, DiffFields
  <2> QED
    BY <2>1, <2>2
<1>3. CASE Startup
  <2>1. applied = Empty
    BY <1>3 DEF Startup, PlanInv
  <2> QED
    BY <1>2, <1>3, <2>1 DEF Startup
<1>4. CASE ReceiveCDS \/ ReceiveEDS
  BY <1>2, <1>4 DEF ReceiveCDS, ReceiveEDS, Receive
<1>5. ASSUME NEW i \in IDs, UpsertIdentity(i) \/ DeleteIdentity(i) PROVE RuleInv'
  BY <1>1, <1>5, PlanSteps DEF UpsertIdentity, DeleteIdentity
<1>6. ASSUME NEW k \in Keys, UpsertPolicy(k) PROVE RuleInv'
  <2>1. /\ UNCHANGED <<applied, candidate, seed, torn, restarts>>
        /\ k \in plan.policyUpserts /\ policyMap'[k] = candidate.policies[k]
        /\ \A j \in Keys : j # k => policyMap'[j] = policyMap[j]
    BY <1>6 DEF UpsertPolicy, TypeOK, Policies
  <2>2. /\ plan'.policyUpserts = plan.policyUpserts \ {k}
        /\ plan'.policyDeletes = plan.policyDeletes
    BY <1>6, PlanSteps
  <2>3. /\ applied.policies[k] # candidate.policies[k] /\ k \notin plan.policyDeletes
    BY <2>1, DiffFields DEF PlanInv
  <2> QED
    BY <2>1, <2>2, <2>3 DEF RuleInv, Inherited
<1>7. ASSUME NEW k \in Keys, DeletePolicy(k) PROVE RuleInv'
  <2>1. /\ UNCHANGED <<applied, candidate, seed, torn, restarts>>
        /\ k \in plan.policyDeletes /\ policyMap'[k] = None
        /\ plan.policyUpserts = {}
        /\ \A j \in Keys : j # k => policyMap'[j] = policyMap[j]
    BY <1>7 DEF DeletePolicy, TypeOK, Policies
  <2>2. /\ plan'.policyDeletes = plan.policyDeletes \ {k}
        /\ plan'.policyUpserts = plan.policyUpserts
    BY <1>7, PlanSteps
  <2>3. applied.policies[k] # candidate.policies[k] /\ candidate.policies[k] = None
    BY <2>1, DiffFields DEF PlanInv
  <2> QED
    BY <2>1, <2>2, <2>3 DEF RuleInv, Inherited
<1>8. CASE Commit
  <2>1. /\ UNCHANGED <<policyMap, candidate, seed, torn, restarts, plan>>
        /\ applied' = candidate /\ plan = Done
    BY <1>8 DEF Commit
  <2> QED
    BY <2>1, DoneFields DEF RuleInv, Inherited
<1>9. CASE SeedDone
  <2>1. /\ UNCHANGED <<policyMap, applied, seed, torn, restarts, plan>>
        /\ candidate' = applied /\ plan = Done
        /\ applied = Empty /\ candidate = seed
    BY <1>9 DEF SeedDone, PlanInv
  <2>2. \A k \in Keys : applied.policies[k] = None
    BY <2>1, EmptyFields
  <2> QED
    BY <2>1, <2>2, DoneFields DEF RuleInv, Inherited
<1>10. CASE SyscallFails
  <2>1. /\ UNCHANGED <<policyMap, applied, seed, restarts>>
        /\ candidate' = applied /\ (pc = "seed" \/ torn')
    BY <1>10 DEF SyscallFails, GiveUp, Applying
  <2>2. ASSUME pc = "seed"
        PROVE  \A k \in Keys : policyMap[k] = applied.policies[k] \/ Inherited(k)
    <3>1. applied = Empty /\ candidate = seed /\ ~torn
      BY <2>2 DEF PlanInv
    <3> QED
      BY <3>1, EmptyFields DEF RuleInv, Inherited
  <2> QED
    BY <2>1, <2>2 DEF RuleInv, Inherited
<1>11. CASE TranslateFails
  <2>1. /\ UNCHANGED <<policyMap, applied, seed, torn, restarts>>
        /\ candidate' = applied /\ plan.identityUpserts # {}
    BY <1>11 DEF TranslateFails, GiveUp
  <2>2. ~torn => \A k \in Keys : policyMap[k] = applied.policies[k] \/ Inherited(k)
    BY <2>1, RulesUntouched
  <2> QED
    BY <2>1, <2>2 DEF RuleInv, Inherited
<1>12. CASE Crash
  <2>1. restarts' > 0 /\ applied' = Empty /\ candidate' = Empty
    BY <1>12 DEF Crash, TypeOK
  <2> QED
    BY <2>1, EmptyFields DEF RuleInv, Inherited
<1>13. CASE UNCHANGED vars
  BY <1>1, <1>13 DEF vars
<1> QED
  BY <1>3, <1>4, <1>5, <1>6, <1>7, <1>8, <1>9, <1>10, <1>11, <1>12, <1>13 DEF Next, Apply

LEMMA RuleInit == Init => RuleInv
BY EmptyFields DEF Init, RuleInv, Inherited

\* Through any interleaving of pushes, syscalls, rejected snapshots, seeds and
\* restarts the live rules stay between the applied and the desired ones (D5).
THEOREM LiveRulesBounded == Spec => []LiveSetBounded
<1>1. Init => TypeOK /\ PlanInv /\ RuleInv
  BY TypeInit, PlanInit, RuleInit
<1>2. TypeOK /\ PlanInv /\ RuleInv /\ [Next]_vars => (TypeOK /\ PlanInv /\ RuleInv)'
  BY TypeNext, PlanNext, RuleNext
<1>3. RuleInv => LiveSetBounded
  BY DEF RuleInv, LiveSetBounded, Inherited
<1> QED
  BY <1>1, <1>2, <1>3, PTL DEF Spec

\* Once a rule of the old snapshot is gone, the new snapshot's rules are all in
\* (writer_linux.go:42-56).
THEOREM RemovesComeLast == Spec => []AddsBeforeRemoves
<1>1. Init => TypeOK /\ PlanInv /\ RuleInv
  BY TypeInit, PlanInit, RuleInit
<1>2. TypeOK /\ PlanInv /\ RuleInv /\ [Next]_vars => (TypeOK /\ PlanInv /\ RuleInv)'
  BY TypeNext, PlanNext, RuleNext
<1>3. ASSUME PlanInv, RuleInv PROVE AddsBeforeRemoves
  <2> SUFFICES ASSUME ~torn,
                      NEW g \in Keys, applied.policies[g] # None, policyMap[g] = None,
                      NEW k \in Keys, candidate.policies[k] # None
               PROVE  policyMap[k] = candidate.policies[k]
    BY DEF AddsBeforeRemoves
  <2>1. /\ candidate.policies[g] = None /\ g \notin plan.policyDeletes
        /\ g \in diff(applied, candidate).policyDeletes
    BY <1>3, DiffFields DEF RuleInv, Inherited
  <2>2. plan.policyUpserts = {}
    BY <1>3, <2>1 DEF PlanInv
  <2>3. k \notin plan.policyDeletes
    BY <1>3, DiffFields DEF PlanInv
  <2>4. CASE applied.policies[k] = candidate.policies[k]
    BY <1>3, <2>4 DEF RuleInv, Inherited
  <2>5. CASE applied.policies[k] # candidate.policies[k]
    BY <1>3, <2>2, <2>3, <2>5 DEF RuleInv
  <2> QED
    BY <2>4, <2>5
<1> QED
  BY <1>1, <1>2, <1>3, PTL DEF Spec

-----------------------------------------------------------------------------
(* Attribution of addresses.                                                *)

LEMMA IdentityNext ==
    ASSUME TypeOK, TypeOK', PlanInv, IdentityInv, [Next]_vars
    PROVE  IdentityInv'
<1> USE DEF kernel
<1>1. CASE UNCHANGED <<identityMap, keyByID, applied, candidate, torn,
                       plan.identityUpserts, plan.identityDeletes>>
  BY <1>1 DEF IdentityInv
<1>2. ASSUME pc = "idle" \/ pc = "down", plan' = diff(applied, candidate'),
             UNCHANGED <<identityMap, keyByID, applied, torn>>
      PROVE  IdentityInv'
  <2>1. plan = Done /\ candidate = applied
    BY <1>2 DEF PlanInv
  <2>2. Exclusive /\ ~torn => \A i \in IDs :
          applied.identities[i] \in IPs => identityMap[applied.identities[i]] = i
    BY <2>1, DoneFields DEF IdentityInv
  <2>3. \A i \in IDs : candidate'.identities[i] \in IPs /\ i \notin plan'.identityUpserts
                       => candidate'.identities[i] = applied.identities[i]
    BY <1>2, DiffFields, ConstantsAssumption
  <2> QED
    BY <1>2, <2>2, <2>3 DEF IdentityInv
<1>3. CASE Startup
  <2>1. applied = Empty
    BY <1>3 DEF Startup, PlanInv
  <2> QED
    BY <1>2, <1>3, <2>1 DEF Startup
<1>4. CASE ReceiveCDS \/ ReceiveEDS
  BY <1>2, <1>4 DEF ReceiveCDS, ReceiveEDS, Receive
<1>5. ASSUME NEW i \in IDs, UpsertIdentity(i) PROVE IdentityInv'
  <2> DEFINE a == candidate.identities[i]
  <2>1. /\ UNCHANGED <<applied, candidate, torn>> /\ i \in plan.identityUpserts
        /\ plan'.identityUpserts = plan.identityUpserts \ {i}
        /\ plan'.identityDeletes = plan.identityDeletes
        /\ identityMap' = [identityMap EXCEPT ![a] = i]
        /\ keyByID' = [keyByID EXCEPT ![i] = a]
    BY <1>5, PlanSteps DEF UpsertIdentity
  <2>2. a \in IPs /\ a \in Addresses[i]
    <3>1. a # None /\ a # BadIP
      BY <1>5 DEF UpsertIdentity, PlanInv, diff
    <3>2. a \in IPs \union {BadIP, None} /\ a \in Addresses[i] \union {None}
      BY SnapshotFields DEF TypeOK, Identities
    <3> QED
      BY <3>1, <3>2
  <2>3. /\ identityMap'[a] = i
        /\ \A b \in IPs : b # a => identityMap'[b] = identityMap[b]
    BY <2>1, <2>2 DEF TypeOK
  <2>4. \A j \in IDs : keyByID'[j] \in Addresses[j] \union {None}
    BY <2>1, <2>2 DEF IdentityInv, TypeOK
  <2>5. \A j \in IDs : /\ candidate.identities[j] \in Addresses[j] \union {None}
                       /\ applied.identities[j] \in Addresses[j] \union {None}
    BY SnapshotFields DEF TypeOK
  <2> HIDE DEF a
  <2>6. Exclusive => \A j \in IDs : j # i =>
          /\ candidate.identities[j] \in IPs => candidate.identities[j] # a
          /\ applied.identities[j] \in IPs => applied.identities[j] # a
    BY <2>2, <2>5, ConstantsAssumption DEF Exclusive
  <2>7. candidate.identities[i] = a
    BY DEF a
  <2> QED
    BY <2>1, <2>3, <2>4, <2>6, <2>7 DEF IdentityInv
<1>6. ASSUME NEW k \in Keys, UpsertPolicy(k) \/ DeletePolicy(k) PROVE IdentityInv'
  BY <1>1, <1>6, PlanSteps DEF UpsertPolicy, DeletePolicy
<1>7. ASSUME NEW i \in IDs, DeleteIdentity(i) PROVE IdentityInv'
  <2>1. /\ UNCHANGED <<applied, candidate, torn>> /\ i \in plan.identityDeletes
        /\ plan'.identityUpserts = plan.identityUpserts
        /\ plan'.identityDeletes = plan.identityDeletes \ {i}
        /\ keyByID' = [keyByID EXCEPT ![i] = None]
        /\ \A b \in IPs : b # keyByID[i] => identityMap'[b] = identityMap[b]
    BY <1>7, PlanSteps DEF DeleteIdentity
  <2>2. candidate.identities[i] = None
    BY <2>1, DiffFields DEF PlanInv
  <2>3. \A j \in IDs : keyByID'[j] \in Addresses[j] \union {None}
    BY <2>1 DEF IdentityInv, TypeOK
  <2>4. \A j \in IDs : /\ candidate.identities[j] \in Addresses[j] \union {None}
                       /\ applied.identities[j] \in Addresses[j] \union {None}
    BY SnapshotFields DEF TypeOK
  <2>5. keyByID[i] \in Addresses[i] \union {None}
    BY DEF IdentityInv
  <2>6. Exclusive => \A j \in IDs : j # i =>
          /\ candidate.identities[j] \in IPs => candidate.identities[j] # keyByID[i]
          /\ applied.identities[j] \in IPs => applied.identities[j] # keyByID[i]
    BY <2>4, <2>5, ConstantsAssumption DEF Exclusive
  <2>7. None \notin IPs
    BY ConstantsAssumption
  <2> QED
    BY <2>1, <2>2, <2>3, <2>6, <2>7 DEF IdentityInv
<1>8. CASE Commit
  <2>1. /\ UNCHANGED <<identityMap, keyByID, candidate, torn, plan>>
        /\ applied' = candidate /\ plan = Done
    BY <1>8 DEF Commit
  <2> QED
    BY <2>1, DoneFields DEF IdentityInv
<1>9. ASSUME UNCHANGED <<identityMap, keyByID, torn>>, candidate' = Empty, applied' = Empty
      PROVE  IdentityInv'
  BY <1>9, EmptyFields, ConstantsAssumption DEF IdentityInv
<1>10. CASE SeedDone
  BY <1>9, <1>10 DEF SeedDone, PlanInv
<1>11. ASSUME GiveUp PROVE \A i \in IDs : keyByID'[i] \in Addresses[i] \union {None}
  BY <1>11 DEF GiveUp, IdentityInv
<1>12. CASE SyscallFails
  <2>1. candidate' = applied /\ applied' = applied /\ (pc = "seed" \/ torn')
    BY <1>12 DEF SyscallFails, GiveUp, Applying
  <2>2. pc = "seed" => \A i \in IDs : applied.identities[i] = None
    BY EmptyFields DEF PlanInv
  <2> QED
    BY <1>11, <1>12, <2>1, <2>2, ConstantsAssumption DEF SyscallFails, IdentityInv
<1>13. CASE TranslateFails
  <2>1. /\ UNCHANGED <<identityMap, applied, torn>>
        /\ candidate' = applied /\ plan.identityUpserts # {}
    BY <1>13 DEF TranslateFails, GiveUp
  <2>2. \A i \in IDs : applied.identities[i] # None =>
          candidate.identities[i] # None \/ i \in plan.identityDeletes
    BY <2>1, DiffFields DEF PlanInv
  <2> QED
    BY <1>11, <1>13, <2>1, <2>2, ConstantsAssumption DEF TranslateFails, IdentityInv
<1>14. CASE Crash
  <2>1. \A i \in IDs : keyByID'[i] = None /\ applied'.identities[i] = None
                       /\ candidate'.identities[i] = None
    BY <1>14, EmptyFields DEF Crash
  <2> QED
    BY <2>1, ConstantsAssumption DEF IdentityInv
<1>15. CASE UNCHANGED vars
  BY <1>1, <1>15 DEF vars
<1> QED
  BY <1>3, <1>4, <1>5, <1>6, <1>7, <1>8, <1>10, <1>12, <1>13, <1>14, <1>15 DEF Next, Apply

\* With exclusive addresses, a pod that stays listed keeps its identity in the
\* kernel (writer_linux.go:58-96).
THEOREM PodsKeepTheirIdentity == Spec => []AttributionKept
<1>1. Init => TypeOK /\ PlanInv /\ IdentityInv
  BY TypeInit, PlanInit, EmptyFields, ConstantsAssumption DEF Init, IdentityInv
<1>2. TypeOK /\ PlanInv /\ IdentityInv /\ [Next]_vars => (TypeOK /\ PlanInv /\ IdentityInv)'
  BY TypeNext, PlanNext, IdentityNext
<1>3. IdentityInv => AttributionKept
  BY ConstantsAssumption DEF IdentityInv, AttributionKept
<1> QED
  BY <1>1, <1>2, <1>3, PTL DEF Spec

-----------------------------------------------------------------------------
(* The writer implements RuleUpdate.                                        *)

\* Outside of a torn process the phases of a plan say what is in the kernel.
LEMMA PhaseFacts ==
    ASSUME PlanInv, RuleInv, ~torn
    PROVE  /\ plan.policyUpserts = {} => Update!Installed
           /\ plan.policyUpserts = {} /\ plan.policyDeletes = {} => Update!Removed
<1>1. ASSUME plan.policyUpserts = {}, NEW k \in Keys, candidate.policies[k] # None
      PROVE  policyMap[k] = candidate.policies[k]
  <2>1. k \notin plan.policyDeletes
    BY <1>1, DiffFields DEF PlanInv
  <2> QED
    BY <1>1, <2>1 DEF RuleInv, Inherited
<1>2. ASSUME plan.policyUpserts = {}, plan.policyDeletes = {}, NEW k \in Keys,
             applied.policies[k] # None, candidate.policies[k] = None
      PROVE  policyMap[k] = None
  BY <1>2 DEF RuleInv
<1> QED
  BY <1>1, <1>2 DEF Update!Installed, Update!Removed

LEMMA UpdateStep ==
    ASSUME TypeOK, PlanInv, RuleInv, [Next]_vars
    PROVE  [Update!Next]_(Update!vars)
<1> USE DEF kernel
<1> DEFINE A == applied.policies
           C == candidate.policies
<1>0. /\ A \in Policies /\ C \in Policies
      /\ Empty.policies = Update!Nothing /\ Policies = Update!Rules
  BY SnapshotFields DEF TypeOK, Empty, Update!Nothing, Policies, Update!Rules
<1>1. ASSUME UNCHANGED <<policyMap, applied, candidate, torn, restarts>> PROVE UNCHANGED Update!vars
  BY <1>1 DEF Update!vars
<1>2. CASE Startup
  <2>1. candidate = applied /\ candidate' = seed /\ seed \in Snapshot
        /\ UNCHANGED <<policyMap, applied, torn, restarts>>
    BY <1>2 DEF Startup, PlanInv, TypeOK
  <2>2. seed.policies \in Policies
    BY <2>1, SnapshotFields
  <2> QED
    BY <1>0, <2>1, <2>2 DEF Update!Next, Update!Begin
<1>3. CASE ReceiveCDS
  <2>1. PICK p \in Policies : Receive([applied EXCEPT !.policies = p])
    BY <1>3 DEF ReceiveCDS
  <2>2. candidate = applied /\ candidate'.policies = p /\ UNCHANGED <<policyMap, applied, torn, restarts>>
    BY <2>1 DEF Receive, PlanInv, TypeOK, Snapshot
  <2> QED
    BY <1>0, <2>2 DEF Update!Next, Update!Begin
<1>4. CASE ReceiveEDS
  <2>1. /\ candidate = applied /\ candidate'.policies = applied.policies
        /\ UNCHANGED <<policyMap, applied, torn, restarts>>
    BY <1>4 DEF ReceiveEDS, Receive, PlanInv, TypeOK, Snapshot
  <2> QED
    BY <2>1 DEF Update!vars
<1>5. ASSUME NEW i \in IDs, UpsertIdentity(i) \/ DeleteIdentity(i) PROVE UNCHANGED Update!vars
  BY <1>1, <1>5 DEF UpsertIdentity, DeleteIdentity
<1>6. ASSUME NEW k \in Keys, UpsertPolicy(k) PROVE Update!Add(k)
  <2>1. C[k] # None /\ C[k] # A[k]
    BY <1>6, DiffFields DEF UpsertPolicy, PlanInv
  <2> QED
    BY <1>6, <2>1 DEF UpsertPolicy, Update!Add
<1>7. ASSUME NEW k \in Keys, DeletePolicy(k) PROVE Update!Remove(k)
  <2>1. A[k] # None /\ C[k] = None /\ plan.policyUpserts = {}
    BY <1>7, DiffFields DEF DeletePolicy, PlanInv
  <2>2. torn \/ Update!Installed
    BY <2>1, PhaseFacts
  <2> QED
    BY <1>7, <2>1, <2>2 DEF DeletePolicy, Update!Remove
<1>8. CASE Commit
  <2>1. torn \/ (Update!Installed /\ Update!Removed)
    BY <1>8, PhaseFacts, DoneFields DEF Commit
  <2> QED
    BY <1>8, <2>1 DEF Commit, Update!Finish, Update!Next
<1>9. ASSUME torn \/ Update!Untouched, candidate' = applied,
             UNCHANGED <<policyMap, applied, torn, restarts>>
      PROVE  Update!Refuse
  BY <1>9 DEF Update!Refuse
<1>10. pc = "seed" => Update!Untouched
  BY <1>0 DEF PlanInv, Update!Nothing, Update!Untouched
<1>11. CASE SeedDone
  BY <1>9, <1>10, <1>11 DEF SeedDone, Update!Next
<1>12. CASE SyscallFails
  <2>1. CASE pc = "seed"
    <3>1. torn' = torn
      BY <1>12, <2>1 DEF SyscallFails, TypeOK
    <3>2. candidate' = applied /\ UNCHANGED <<policyMap, applied, restarts>>
      BY <1>12 DEF SyscallFails, GiveUp
    <3> QED
      BY <1>9, <1>10, <2>1, <3>1, <3>2 DEF Update!Next
  <2>2. CASE pc = "apply"
    BY <1>12, <2>2 DEF SyscallFails, GiveUp, Update!Tear, Update!Next
  <2> QED
    BY <1>12, <2>1, <2>2 DEF SyscallFails, Applying
<1>13. CASE TranslateFails
  <2>1. plan.identityUpserts # {} /\ candidate' = applied /\ UNCHANGED <<policyMap, applied, torn, restarts>>
    BY <1>13 DEF TranslateFails, GiveUp
  <2>2. torn \/ Update!Untouched
    BY <2>1, RulesUntouched DEF Inherited, Update!Untouched
  <2> QED
    BY <1>9, <2>1, <2>2 DEF Update!Next
<1>14. CASE Crash
  BY <1>0, <1>14 DEF Crash, Update!Restart, Update!Next
<1>15. CASE UNCHANGED vars
  BY <1>1, <1>15 DEF vars
<1> QED
  BY <1>2, <1>3, <1>4, <1>5, <1>6, <1>7, <1>8, <1>11, <1>12, <1>13, <1>14, <1>15
     DEF Next, Apply, Update!Next

\* Seen by the traffic, the writer's syscalls are an update that adds before it
\* removes, ends with everything installed or is refused before a rule is touched;
\* a syscall that fails half-way voids this until the process ends, not longer
\* (diff.go:5-9, writer_linux.go:42-56).
THEOREM WriterImplementsRuleUpdate == Spec => ImplementsRuleUpdate
<1>1. Init => TypeOK /\ PlanInv /\ RuleInv
  BY TypeInit, PlanInit, RuleInit
<1>2. TypeOK /\ PlanInv /\ RuleInv /\ [Next]_vars => (TypeOK /\ PlanInv /\ RuleInv)'
  BY TypeNext, PlanNext, RuleNext
<1>3. Init => Update!Init
  BY DEF Init, Empty, Update!Init, Update!Nothing
<1>4. TypeOK /\ PlanInv /\ RuleInv /\ [Next]_vars => [Update!Next]_(Update!vars)
  BY UpdateStep
<1> QED
  BY <1>1, <1>2, <1>3, <1>4, PTL DEF Spec, ImplementsRuleUpdate, Update!Spec

-----------------------------------------------------------------------------
(* Acknowledgements.                                                        *)

\* An address that does not parse stays in the plan until the plan is given up.
AddressInv == \A i \in IDs :
    /\ applied.identities[i] # BadIP
    /\ candidate.identities[i] = BadIP => i \in plan.identityUpserts

LEMMA AddressNext ==
    ASSUME TypeOK, PlanInv, AddressInv, [Next]_vars
    PROVE  AddressInv'
<1> USE DEF kernel
<1>1. CASE UNCHANGED <<applied, candidate, plan.identityUpserts>>
  BY <1>1 DEF AddressInv
<1>2. ASSUME plan' = diff(applied, candidate'), UNCHANGED applied PROVE AddressInv'
  BY <1>2, DiffFields, ConstantsAssumption DEF AddressInv
<1>3. CASE Startup \/ ReceiveCDS \/ ReceiveEDS
  <2>1. plan' = diff(applied, candidate') /\ UNCHANGED applied
    <3>1. CASE Startup
      <4>1. applied = Empty BY <3>1 DEF Startup, PlanInv
      <4> QED BY <3>1, <4>1 DEF Startup
    <3>2. CASE ReceiveCDS \/ ReceiveEDS
      BY <3>2 DEF ReceiveCDS, ReceiveEDS, Receive
    <3> QED
      BY <1>3, <3>1, <3>2
  <2> QED
    BY <1>2, <2>1
<1>4. ASSUME NEW i \in IDs, UpsertIdentity(i) PROVE AddressInv'
  <2>1. /\ candidate.identities[i] # BadIP /\ UNCHANGED <<applied, candidate>>
        /\ plan'.identityUpserts = plan.identityUpserts \ {i}
    BY <1>4, PlanSteps DEF UpsertIdentity
  <2> QED
    BY <2>1 DEF AddressInv
<1>5. ASSUME NEW i \in IDs, DeleteIdentity(i) PROVE AddressInv'
  BY <1>1, <1>5, PlanSteps DEF DeleteIdentity
<1>6. ASSUME NEW k \in Keys, UpsertPolicy(k) \/ DeletePolicy(k) PROVE AddressInv'
  BY <1>1, <1>6, PlanSteps DEF UpsertPolicy, DeletePolicy
<1>7. CASE Commit
  <2>1. applied' = candidate /\ candidate' = candidate /\ plan.identityUpserts = {}
    BY <1>7, DoneFields DEF Commit
  <2> QED
    BY <2>1 DEF AddressInv
<1>8. ASSUME candidate' = applied, UNCHANGED applied PROVE AddressInv'
  BY <1>8 DEF AddressInv
<1>9. CASE SeedDone \/ SyscallFails \/ TranslateFails
  BY <1>8, <1>9 DEF SeedDone, SyscallFails, TranslateFails, GiveUp
<1>10. CASE Crash
  <2>1. applied' = Empty /\ candidate' = Empty
    BY <1>10 DEF Crash
  <2> QED
    BY <2>1, EmptyFields, ConstantsAssumption DEF AddressInv
<1>11. CASE UNCHANGED vars
  BY <1>1, <1>11 DEF vars
<1> QED
  BY <1>3, <1>4, <1>5, <1>6, <1>7, <1>9, <1>10, <1>11 DEF Next, Apply

LEMMA AckStep ==
    ASSUME Exclusive, TypeOK, PlanInv, RuleInv, IdentityInv, AddressInv, ~torn, Commit
    PROVE  Update!Installed /\ Attributed
<1>1. plan.policyUpserts = {} /\ plan.identityUpserts = {}
  BY DoneFields DEF Commit
<1>2. Update!Installed
  BY <1>1, PhaseFacts
<1>3. ASSUME NEW i \in IDs, candidate.identities[i] # None
      PROVE  identityMap[candidate.identities[i]] = i
  <2>1. candidate.identities[i] \in IPs \union {BadIP, None}
    BY SnapshotFields DEF TypeOK, Identities
  <2>2. candidate.identities[i] \in IPs
    BY <1>1, <1>3, <2>1 DEF AddressInv
  <2> QED
    BY <1>1, <2>2 DEF IdentityInv
<1> QED
  BY <1>2, <1>3 DEF Attributed

LEMMA AckInv == Spec => [](TypeOK /\ PlanInv /\ RuleInv /\ IdentityInv /\ AddressInv)
<1>1. Init => TypeOK /\ PlanInv /\ RuleInv /\ IdentityInv /\ AddressInv
  BY TypeInit, PlanInit, RuleInit, EmptyFields, ConstantsAssumption
     DEF Init, IdentityInv, AddressInv
<1>2. TypeOK /\ PlanInv /\ RuleInv /\ IdentityInv /\ AddressInv /\ [Next]_vars
        => (TypeOK /\ PlanInv /\ RuleInv /\ IdentityInv /\ AddressInv)'
  BY TypeNext, PlanNext, RuleNext, IdentityNext, AddressNext
<1> QED
  BY <1>1, <1>2, PTL DEF Spec

\* What client.go:5 says of an ACK holds for pods that never share an address, in
\* a process none of whose applies failed half-way: after pushes, rejected
\* snapshots, moves, deletes, seeds and earlier processes' failures alike.
THEOREM AckedIsInstalled ==
    ASSUME Exclusive
    PROVE  Spec => [][~torn /\ Commit => Update!Installed /\ Attributed]_vars
<1>1. TypeOK /\ PlanInv /\ RuleInv /\ IdentityInv /\ AddressInv /\ [Next]_vars
        => [~torn /\ Commit => Update!Installed /\ Attributed]_vars
  BY AckStep
<1> QED
  BY <1>1, AckInv, PTL DEF Spec

\* The very property that re-used addresses violate: it holds of every agent whose
\* pods do not share addresses and whose map syscalls succeed.
THEOREM AcksAreTruthful ==
    ASSUME Exclusive, MaxFailures = 0
    PROVE  Spec => AckMeansInstalled
<1>1. Init => ~torn
  BY DEF Init
<1>2. TypeOK /\ ~torn /\ [Next]_vars => ~torn'
  <2> SUFFICES ASSUME TypeOK, ~torn, [Next]_vars PROVE ~torn'
    OBVIOUS
  <2>1. ~SyscallFails
    BY DEF SyscallFails, TypeOK
  <2>2. ASSUME UNCHANGED torn PROVE ~torn'
    BY <2>2
  <2>3. CASE Crash
    BY <2>3 DEF Crash
  <2> QED
    BY <2>1, <2>2, <2>3
       DEF Next, Apply, Startup, ReceiveCDS, ReceiveEDS, Receive, UpsertIdentity, DeleteIdentity,
           UpsertPolicy, DeletePolicy, Commit, SeedDone, TranslateFails, vars
<1>3. TypeOK /\ PlanInv /\ RuleInv /\ IdentityInv /\ AddressInv /\ ~torn /\ [Next]_vars
        => [Commit => Update!Installed /\ Attributed]_vars
  BY AckStep
<1> QED
  BY <1>1, <1>2, <1>3, AckInv, PTL DEF Spec, AckMeansInstalled

=============================================================================
