------------------------------ MODULE Datapath ------------------------------
(***************************************************************************)
(* The agent's way from a pushed snapshot to the kernel: xds.Client merges *)
(* the push with what it has applied, diffs the two snapshots, and         *)
(* datapath.Writer turns the plan into one bpf map syscall after another.  *)
(* The maps are pinned: they outlive the agent process, the client and the *)
(* writer's bookkeeping do not.  At start-up the YAML policy file goes     *)
(* through the same writer.                                                *)
(*                                                                         *)
(* Data abstraction.  A policy rule key, a verdict and an address are      *)
(* opaque; an identity record is its address.  A snapshot lists a key at   *)
(* most once because the Store keeps it in a Go map, whose iteration order *)
(* also makes the order of the syscalls of one phase arbitrary.            *)
(***************************************************************************)
EXTENDS Naturals

CONSTANTS IDs,          \* numeric identities
          IPs,          \* pod addresses that parse as IPv4
          BadIP,        \* a pod_ipv4 that does not
          Keys,         \* policy rule keys
          Verdicts,     \* policy verdicts
          None,         \* no entry
          Addresses,    \* for each identity, the addresses it is listed with
          SeedPolicies, \* rules the YAML file may hold
          SeedIdentities,
          MaxFailures,  \* bound: map syscalls that fail
          MaxRestarts   \* bound: agent processes that die

Policies   == [Keys -> Verdicts \union {None}]
Identities == {d \in [IDs -> IPs \union {BadIP, None}] :
                  \A i \in IDs : d[i] \in Addresses[i] \union {None}}
Snapshot   == [policies : Policies, identities : Identities]

Empty == [policies |-> [k \in Keys |-> None], identities |-> [i \in IDs |-> None]]

ASSUME ConstantsAssumption ==
    /\ None \notin IDs \union IPs \union Verdicts /\ BadIP \notin IPs /\ None # BadIP
    /\ Addresses \in [IDs -> SUBSET (IPs \union {BadIP})]
    /\ SeedPolicies \subseteq Policies /\ SeedIdentities \subseteq Identities
    /\ MaxFailures \in Nat /\ MaxRestarts \in Nat

VARIABLES
    policyMap,    \* kernel, pinned
    identityMap,  \* kernel, pinned
    keyByID,      \* writer.identityKeyByID
    applied,      \* Client.applied
    candidate,    \* the snapshot being applied
    plan,         \* what Writer.Apply has still to do
    pc,           \* "down", "seed", "idle", "apply"
    seed,         \* the YAML file
    failures,
    restarts,
    torn          \* history: a map syscall of this process failed during an apply

kernel == <<policyMap, identityMap>>
vars == <<policyMap, identityMap, keyByID, applied, candidate, plan, pc, seed,
          failures, restarts, torn>>

-----------------------------------------------------------------------------

\* Fault: an element that is already there is not compared.
diffByPresence(old, next) ==
    [identityUpserts |-> {i \in IDs : next.identities[i] # None /\ old.identities[i] = None},
     policyUpserts   |-> {k \in Keys : next.policies[k] # None /\ old.policies[k] = None},
     policyDeletes   |-> {k \in Keys : old.policies[k] # None /\ next.policies[k] = None},
     identityDeletes |-> {i \in IDs : /\ old.identities[i] # None
                                      /\ next.identities[i] = None}]

\* diff and BuildCommitPlan: upserts are new or changed, deletes are gone.
diff(old, next) ==
    [identityUpserts |-> {i \in IDs : /\ next.identities[i] # None
                                      /\ next.identities[i] # old.identities[i]},
     policyUpserts   |-> {k \in Keys : /\ next.policies[k] # None
                                       /\ next.policies[k] # old.policies[k]},
     policyDeletes   |-> {k \in Keys : old.policies[k] # None /\ next.policies[k] = None},
     identityDeletes |-> {i \in IDs : /\ old.identities[i] # None
                                      /\ next.identities[i] = None}]

Done == [identityUpserts |-> {}, policyUpserts |-> {},
         policyDeletes |-> {}, identityDeletes |-> {}]

Init ==
    /\ policyMap = [k \in Keys |-> None]
    /\ identityMap = [a \in IPs |-> None]
    /\ keyByID = [i \in IDs |-> None]
    /\ applied = Empty
    /\ candidate = Empty
    /\ plan = Done
    /\ pc = "down"
    /\ seed \in [policies : SeedPolicies, identities : SeedIdentities]
    /\ failures = 0
    /\ restarts = 0
    /\ torn = FALSE

\* StartupRunner.Startup: the maps are re-opened, a new writer seeds them.
Startup ==
    /\ pc = "down"
    /\ pc' = "seed"
    /\ candidate' = seed
    /\ plan' = diff(Empty, seed)
    /\ UNCHANGED <<kernel, keyByID, applied, seed, failures, restarts, torn>>

\* A push is merged into the applied snapshot (candidateFor) and diffed.
Receive(next) ==
    /\ pc = "idle"
    /\ pc' = "apply"
    /\ candidate' = next
    /\ plan' = diff(applied, next)
    /\ UNCHANGED <<kernel, keyByID, applied, seed, failures, restarts, torn>>

ReceiveCDS == \E p \in Policies : Receive([applied EXCEPT !.policies = p])
ReceiveEDS == \E d \in Identities : Receive([applied EXCEPT !.identities = d])

-----------------------------------------------------------------------------
(* Writer.Apply: identity upserts, policy upserts, policy deletes, identity *)
(* deletes.                                                                 *)

Applying == pc \in {"seed", "apply"}

UpsertIdentity(i) ==
    /\ Applying
    /\ i \in plan.identityUpserts
    /\ candidate.identities[i] # BadIP
    /\ identityMap' = [identityMap EXCEPT ![candidate.identities[i]] = i]
    /\ keyByID' = [keyByID EXCEPT ![i] = candidate.identities[i]]
    /\ plan' = [plan EXCEPT !.identityUpserts = @ \ {i}]
    /\ UNCHANGED <<policyMap, applied, candidate, pc, seed, failures, restarts, torn>>

\* Fault: UpdateNoExist, an existing rule keeps its verdict.
UpsertPolicyNoExist(k) ==
    /\ Applying
    /\ plan.identityUpserts = {}
    /\ k \in plan.policyUpserts
    /\ policyMap' = [policyMap EXCEPT ![k] = IF @ = None THEN candidate.policies[k] ELSE @]
    /\ plan' = [plan EXCEPT !.policyUpserts = @ \ {k}]
    /\ UNCHANGED <<identityMap, keyByID, applied, candidate, pc, seed, failures, restarts, torn>>

UpsertPolicy(k) ==
    /\ Applying
    /\ plan.identityUpserts = {}
    /\ k \in plan.policyUpserts
    /\ policyMap' = [policyMap EXCEPT ![k] = candidate.policies[k]]
    /\ plan' = [plan EXCEPT !.policyUpserts = @ \ {k}]
    /\ UNCHANGED <<identityMap, keyByID, applied, candidate, pc, seed, failures, restarts, torn>>

\* Fault: removes do not wait for the adds.
DeletePolicyFirst(k) ==
    /\ Applying
    /\ plan.identityUpserts = {}
    /\ k \in plan.policyDeletes
    /\ policyMap' = [policyMap EXCEPT ![k] = None]
    /\ plan' = [plan EXCEPT !.policyDeletes = @ \ {k}]
    /\ UNCHANGED <<identityMap, keyByID, applied, candidate, pc, seed, failures, restarts, torn>>

DeletePolicy(k) ==
    /\ Applying
    /\ plan.identityUpserts = {} /\ plan.policyUpserts = {}
    /\ k \in plan.policyDeletes
    /\ policyMap' = [policyMap EXCEPT ![k] = None]
    /\ plan' = [plan EXCEPT !.policyDeletes = @ \ {k}]
    /\ UNCHANGED <<identityMap, keyByID, applied, candidate, pc, seed, failures, restarts, torn>>

\* An identity this writer never wrote is skipped.
DeleteIdentity(i) ==
    /\ Applying
    /\ plan.identityUpserts = {} /\ plan.policyUpserts = {} /\ plan.policyDeletes = {}
    /\ i \in plan.identityDeletes
    /\ identityMap' = [a \in IPs |-> IF a = keyByID[i] THEN None ELSE identityMap[a]]
    /\ keyByID' = [keyByID EXCEPT ![i] = None]
    /\ plan' = [plan EXCEPT !.identityDeletes = @ \ {i}]
    /\ UNCHANGED <<policyMap, applied, candidate, pc, seed, failures, restarts, torn>>

\* Fault: the ACK does not wait for the removes.
CommitEarly ==
    /\ pc = "apply"
    /\ plan.identityUpserts = {} /\ plan.policyUpserts = {}
    /\ applied' = candidate
    /\ plan' = Done
    /\ pc' = "idle"
    /\ UNCHANGED <<kernel, keyByID, candidate, seed, failures, restarts, torn>>

\* Apply returned nil: an ADS push is committed and ACKed; the seed is not part of
\* what the client believes it applied.
Commit ==
    /\ pc = "apply"
    /\ plan = Done
    /\ applied' = candidate
    /\ pc' = "idle"
    /\ UNCHANGED <<kernel, keyByID, candidate, plan, seed, failures, restarts, torn>>

SeedDone ==
    /\ pc = "seed"
    /\ plan = Done
    /\ candidate' = applied
    /\ pc' = "idle"
    /\ UNCHANGED <<kernel, keyByID, applied, plan, seed, failures, restarts, torn>>

\* Apply returned an error.  The client NACKs and holds applied; what was written
\* stays written.  A failed seed ends the process.
GiveUp ==
    /\ plan' = Done
    /\ candidate' = applied
    /\ pc' = IF pc = "seed" THEN "down" ELSE "idle"
    /\ keyByID' = IF pc = "seed" THEN [i \in IDs |-> None] ELSE keyByID
    /\ UNCHANGED <<kernel, applied, seed, restarts>>

SyscallFails ==
    /\ Applying
    /\ plan # Done
    /\ failures < MaxFailures
    /\ failures' = failures + 1
    /\ torn' = (pc = "apply" \/ torn)
    /\ GiveUp

\* translateIdentity rejects the address before any syscall for it.
TranslateFails ==
    /\ Applying
    /\ \E i \in plan.identityUpserts : candidate.identities[i] = BadIP
    /\ GiveUp
    /\ UNCHANGED <<failures, torn>>

\* The process dies, wherever it is; the pinned maps stay.
Crash ==
    /\ pc # "down"
    /\ restarts < MaxRestarts
    /\ restarts' = restarts + 1
    /\ pc' = "down"
    /\ keyByID' = [i \in IDs |-> None]
    /\ applied' = Empty
    /\ candidate' = Empty
    /\ plan' = Done
    /\ torn' = FALSE
    /\ UNCHANGED <<kernel, seed, failures>>

Apply == \/ \E i \in IDs : UpsertIdentity(i) \/ DeleteIdentity(i)
         \/ \E k \in Keys : UpsertPolicy(k) \/ DeletePolicy(k)
         \/ Commit \/ SeedDone \/ SyscallFails \/ TranslateFails

Next == Startup \/ ReceiveCDS \/ ReceiveEDS \/ Apply \/ Crash

Spec == Init /\ [][Next]_vars

\* Apply runs to its end; nobody owes the agent a push.
FairSpec == Spec /\ WF_vars(Apply)

-----------------------------------------------------------------------------
(* Properties.                                                              *)

\* The two maps and the agent's bookkeeping hold well-formed entries; in particular
\* an address that does not parse never becomes a map key (translate.go:62-78).
TypeOK ==
    /\ policyMap \in Policies
    /\ identityMap \in [IPs -> IDs \union {None}]
    /\ keyByID \in [IDs -> IPs \union {None}]
    /\ applied \in Snapshot /\ candidate \in Snapshot /\ seed \in Snapshot
    /\ plan \in [identityUpserts : SUBSET IDs, policyUpserts : SUBSET Keys,
                 policyDeletes : SUBSET Keys, identityDeletes : SUBSET IDs]
    /\ pc \in {"down", "seed", "idle", "apply"}
    /\ failures \in Nat /\ restarts \in Nat /\ torn \in BOOLEAN

\* Decision D5 (diff.go:5-9, writer_linux.go:42-56): while a plan is applied the
\* live rules stay between the applied and the desired ones.  Only an entry that an
\* earlier process or the YAML file left behind can be outside, and only until the
\* client has once applied its key.
LiveSetBounded ==
    ~torn =>
        \A k \in Keys :
            \/ policyMap[k] \in {applied.policies[k], candidate.policies[k]}
            \/ /\ applied.policies[k] = None
               /\ restarts > 0 \/ seed.policies[k] # None

\* The adds-first order (writer_linux.go:42-56): once a rule has been taken away,
\* everything the new snapshot wants is in the kernel.
AddsBeforeRemoves ==
    ~torn /\ (\E k \in Keys : applied.policies[k] # None /\ policyMap[k] = None) =>
        \A k \in Keys :
            candidate.policies[k] # None => policyMap[k] = candidate.policies[k]

\* No two identities are ever listed with the same address.
Exclusive == \A i, j \in IDs : i # j => Addresses[i] \cap Addresses[j] \cap IPs = {}

\* With exclusive addresses a pod keeps its identity in the kernel as long as the
\* control plane lists it there: through other pods' moves and deletes, rejected
\* snapshots and restarts (client.go:151-190, writer_linux.go:58-96).
AttributionKept ==
    Exclusive /\ ~torn =>
        \A i \in IDs :
            /\ applied.identities[i] \in IPs
            /\ applied.identities[i] = candidate.identities[i]
            => identityMap[applied.identities[i]] = i

\* The writer implements the promise about rules: seen by the traffic, pushes,
\* seeds, rejected snapshots, failed syscalls and restarts only ever add before
\* they remove, finish when all is installed and refuse before a rule is touched
\* (diff.go:5-9, writer_linux.go:42-56, client.go:151-190).
Update == INSTANCE RuleUpdate WITH live <- policyMap, old <- applied.policies,
                                   new <- candidate.policies
ImplementsRuleUpdate == Update!Spec

\* Every address that is listed once is attributed to the identity it is listed for.
Attributed ==
    \A i \in IDs :
        /\ candidate.identities[i] # None
        /\ \A j \in IDs \ {i} : candidate.identities[j] # candidate.identities[i]
        => identityMap[candidate.identities[i]] = i

\* client.go:5: the agent "ACKs only after a snapshot is fully applied": at the ACK
\* every rule of the snapshot is in its map, and every address it lists once is
\* attributed to its identity.
AckMeansInstalled == [][Commit => Update!Installed /\ Attributed]_vars

=============================================================================
