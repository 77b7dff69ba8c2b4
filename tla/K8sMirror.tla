------------------------------ MODULE K8sMirror ------------------------------
(***************************************************************************)
(* The Kubernetes watchers of the control plane: the pod watcher           *)
(* (control/k8s/informers.go) allocates an identity to each annotated pod  *)
(* and stores it; the policy watcher (policy_informer.go) compiles each    *)
(* MeridianPolicy against the pods cached by the other watcher and mirrors *)
(* its rules into the store, keeping a record of the keys it wrote.        *)
(*                                                                         *)
(* The two watchers run in their own goroutines (cmd/meridian-control).    *)
(* The informer updates its cache first and calls the handlers later, in   *)
(* order, so a policy may be compiled against a pod whose handler has not  *)
(* run yet; CompilePolicyRules reads the cache twice, once for the sources *)
(* and once for the selector, and pods may come and go in between.         *)
(*                                                                         *)
(* The registry hands out one number per pod NAME, never twice, and the    *)
(* watchers never release one: the name itself stands for the number.      *)
(***************************************************************************)
EXTENDS Naturals, Sequences, FiniteSets

CONSTANTS
    Pods,          \* pods, a pod being a namespace and a name
    Name(_),       \* the name of a pod, without its namespace
    Spiffe(_),     \* its SPIFFE annotation, or None
    Objects,       \* MeridianPolicy objects
    Specs,         \* the specs they may have, see Spec below
    None,
    Listed,        \* the running pods, in the order the first list has them
    MaxChanges,    \* bound: changes of pods and policies
    MaxFailures    \* bound: failed calls of the store

ASSUME SpecAssumption == \A s \in Specs :
    /\ s.sources # {} /\ s.selects \subseteq Pods
    /\ s.action \in {"Allow", "Deny"}

ASSUME ListedAssumption == Listed \in Seq(Pods)

ASSUME BoundAssumption == MaxChanges \in Nat /\ MaxFailures \in Nat

VARIABLES
    pods,          \* the pod informer's cache
    podQueue,      \* notifications of the pod handlers
    registered,    \* Registry.byName
    identities,    \* Store: the pod whose address an identity carries
    policies,      \* the policy informer's cache
    polQueue,      \* notifications of the policy handlers
    work,          \* the compilation under way, or None
    applied,       \* PolicyWatcher.applied
    rules,         \* Store: the action of a rule, or None
    undeleted,     \* (history) stored keys whose deletion failed
    unrecorded,    \* (history) stored keys a failed put took off the record
    changes, failures

podVars  == <<pods, podQueue, registered, identities>>
ruleVars == <<applied, rules, undeleted, unrecorded>>
vars == <<podVars, policies, polQueue, work, ruleVars, changes, failures>>

Names     == {Name(p) : p \in Pods}
Keys      == Names \X Names
PodStates == {"Absent", "Pending", "Running"}   \* Pending: no PodIP yet
Actions   == {"Allow", "Deny"}
NoRecord  == None

\* A cluster is finite; the absence of a record is not a set of keys.
ASSUME ClusterAssumption == IsFiniteSet(Pods) /\ \A K \in SUBSET Keys : K # None

Stored   == {k \in Keys : rules[k] # None}

PodNote(p, kind, state) == [pod |-> p, kind |-> kind, state |-> state]

\* The first list fills the cache and queues an AddFunc for each pod.
Init ==
    /\ pods = [p \in Pods |-> IF \E i \in 1..Len(Listed) : Listed[i] = p
                              THEN "Running" ELSE "Absent"]
    /\ podQueue = [i \in 1..Len(Listed) |->
                     PodNote(Listed[i], "Upsert", "Running")]
    /\ registered = {}
    /\ identities = [n \in Names |-> None]
    /\ policies = [o \in Objects |-> None]
    /\ polQueue = <<>>
    /\ work = None
    /\ applied = [o \in Objects |-> NoRecord]
    /\ rules = [k \in Keys |-> None]
    /\ undeleted = {}
    /\ unrecorded = {}
    /\ changes = 0
    /\ failures = 0

-----------------------------------------------------------------------------
(* The informers.  A deletion that the watch missed is found at the next   *)
(* relist and delivered as a tombstone, DeletedFinalStateUnknown.          *)

PodChange(p) == \E state \in PodStates \ {pods[p]} :
    /\ changes < MaxChanges
    /\ state = "Pending" => pods[p] = "Absent"
    /\ pods' = [pods EXCEPT ![p] = state]
    /\ \E kind \in IF state = "Absent" THEN {"Delete", "Tombstone"}
                                       ELSE {"Upsert"} :
         podQueue' = Append(podQueue, PodNote(p, kind, state))
    /\ changes' = changes + 1
    /\ UNCHANGED <<registered, identities, policies, polQueue, work, ruleVars,
                   failures>>

\* Every resync period the informer calls UpdateFunc for each cached object,
\* here one at a time and only once the handlers have caught up.
PodResync(p) ==
    /\ pods[p] # "Absent"
    /\ podQueue = <<>>
    /\ podQueue' = Append(podQueue, PodNote(p, "Upsert", pods[p]))
    /\ UNCHANGED <<pods, registered, identities, policies, polQueue, work,
                   ruleVars, changes, failures>>

PolNote(o, kind, spec) == [obj |-> o, kind |-> kind, spec |-> spec]

PolicyChange(o) == \E spec \in (Specs \union {None}) \ {policies[o]} :
    /\ changes < MaxChanges
    /\ policies' = [policies EXCEPT ![o] = spec]
    /\ polQueue' = Append(polQueue, IF spec = None
                                    THEN PolNote(o, "Delete", policies[o])
                                    ELSE PolNote(o, "Upsert", spec))
    /\ changes' = changes + 1
    /\ UNCHANGED <<podVars, work, ruleVars, failures>>

\* A plausible fault: a resync period of zero, which turns resync off.
NoResync(o) == FALSE /\ UNCHANGED vars

PolicyResync(o) ==
    /\ policies[o] # None
    /\ polQueue = <<>> /\ work = None
    /\ polQueue' = Append(polQueue, PolNote(o, "Upsert", policies[o]))
    /\ UNCHANGED <<podVars, policies, work, ruleVars, changes, failures>>

-----------------------------------------------------------------------------
(* The pod watcher.                                                        *)

\* A call of the store that may fail, while the bound lasts.
Calls(ok) == /\ ok \/ failures < MaxFailures
             /\ failures' = failures + (IF ok THEN 0 ELSE 1)

\* A plausible fault: the address of a known name is never written again.
PutNewNames(note) == /\ note.state = "Running" /\ Spiffe(note.pod) # None
                     /\ Name(note.pod) \notin registered

Identified(note) == note.state = "Running" /\ Spiffe(note.pod) # None

onPodAdd == \E ok \in BOOLEAN :
    /\ podQueue # <<>> /\ Head(podQueue).kind = "Upsert"
    /\ LET note == Head(podQueue)
           n    == Name(note.pod)
       IN  IF Identified(note)
           THEN /\ Calls(ok)
                /\ registered' = registered \union {n}
                /\ identities' = IF ok THEN [identities EXCEPT ![n] = note.pod]
                                       ELSE identities
           ELSE ok /\ UNCHANGED <<registered, identities, failures>>
    /\ podQueue' = Tail(podQueue)
    /\ UNCHANGED <<pods, policies, polQueue, work, ruleVars, changes>>

\* A tombstone is not a *corev1.Pod and is ignored; so is an unknown name.
onPodDelete == \E ok \in BOOLEAN :
    /\ podQueue # <<>> /\ Head(podQueue).kind # "Upsert"
    /\ LET note == Head(podQueue)
           n    == Name(note.pod)
       IN  IF note.kind = "Delete" /\ n \in registered
           THEN /\ Calls(ok)
                /\ identities' = IF ok THEN [identities EXCEPT ![n] = None]
                                       ELSE identities
           ELSE ok /\ UNCHANGED <<identities, failures>>
    /\ podQueue' = Tail(podQueue)
    /\ UNCHANGED <<pods, registered, policies, polQueue, work, ruleVars,
                   changes>>

-----------------------------------------------------------------------------
(* CompilePolicyRules and the resolver.                                    *)

\* PodIdentity: a cached pod has the identity registered under its name.
Resolvable == {p \in Pods : pods[p] # "Absent" /\ Name(p) \in registered}

\* ResolveSpiffeID returns the first annotated pod of the cache that has an
\* identity; the cache lists its pods in no particular order.
ResolveSpiffeID(s) == {Name(p) : p \in {q \in Resolvable : Spiffe(q) = s}}

Sources(spec) ==
    {f \in [spec.sources -> Names] : \A s \in spec.sources :
                                        f[s] \in ResolveSpiffeID(s)}

ResolveSelector(spec) == {Name(p) : p \in spec.selects \intersect Resolvable}

\* The keys of the rules: sources times destinations.
RuleKeys(f, dsts) == {f[s] : s \in DOMAIN f} \X dsts

Compilations(spec) ==
    {K \in {RuleKeys(f, ResolveSelector(spec)) : f \in Sources(spec)} : K # {}}

-----------------------------------------------------------------------------
(* The policy watcher.  A handler first resolves the sources (BeginCompile,*)
(* which ends it when one is unknown) and later the selector.              *)

\* A plausible fault: cleaning up what the old spec compiles to now.
RecordRecompiled(note) ==
    IF applied[note.obj] = NoRecord \/ Compilations(note.spec) = {}
    THEN applied[note.obj]
    ELSE CHOOSE K \in Compilations(note.spec) : TRUE

\* onDelete with a record: every recorded key is deleted.
Record(note) == applied[note.obj]

\* DeletePolicy for each key of K: a deletion that fails is logged and the
\* key forgotten.
Delete(K, failed, store) == [k \in Keys |->
    IF k \in K \ failed THEN None ELSE store[k]]

Failing(failed) == /\ Cardinality(failed) + failures <= MaxFailures
                   /\ failures' = failures + Cardinality(failed)

onDeleteRecorded ==
    /\ work = None /\ polQueue # <<>>
    /\ LET note == Head(polQueue) IN
         /\ note.kind = "Delete" /\ applied[note.obj] # NoRecord
         /\ \E failed \in SUBSET Record(note) :
              /\ Failing(failed)
              /\ rules' = Delete(Record(note), failed, rules)
              /\ undeleted' = (undeleted \ Record(note))
                              \union (failed \intersect Stored)
              /\ unrecorded' = unrecorded \ (Record(note) \ failed)
         /\ applied' = [applied EXCEPT ![note.obj] = NoRecord]
    /\ polQueue' = Tail(polQueue)
    /\ UNCHANGED <<podVars, policies, work, changes>>

BeginCompile ==
    /\ work = None /\ polQueue # <<>>
    /\ LET note == Head(polQueue) IN
         /\ note.kind = "Delete" => applied[note.obj] = NoRecord
         /\ IF Sources(note.spec) = {}
            THEN UNCHANGED work
            ELSE \E f \in Sources(note.spec) :
                   work' = [note |-> note, sources |-> f]
    /\ polQueue' = Tail(polQueue)
    /\ UNCHANGED <<podVars, policies, ruleVars, changes, failures>>

\* swapApplied and the clean-up of an upsert: the keys recorded before that
\* the new rules do not have.
Stale(o, K) == (IF applied[o] = NoRecord THEN {} ELSE applied[o]) \ K

onUpsert ==
    /\ work # None /\ work.note.kind = "Upsert"
    /\ LET o   == work.note.obj
           act == work.note.spec.action
           K   == RuleKeys(work.sources, ResolveSelector(work.note.spec))
           old == Stale(o, K)
       IN  IF K = {}
           THEN UNCHANGED <<ruleVars, failures>>
           ELSE \E unput \in SUBSET K, failed \in SUBSET old :
                  LET store == [k \in Keys |-> IF k \in K \ unput THEN act
                                                ELSE rules[k]]
                  IN  /\ Failing(unput \union failed)
                      /\ rules' = Delete(old, failed, store)
                      /\ applied' = [applied EXCEPT ![o] = K \ unput]
                      /\ undeleted' = (undeleted \ (old \union (K \ unput)))
                                      \union (failed \intersect Stored)
                      /\ unrecorded' = ((unrecorded \ (old \union K))
                                         \union (unput \intersect Stored))
    /\ work' = None
    /\ UNCHANGED <<podVars, policies, polQueue, changes>>

\* onDelete without a record: the deleted spec is compiled once more.
onDeleteUnrecorded ==
    /\ work # None /\ work.note.kind = "Delete"
    /\ LET K == RuleKeys(work.sources, ResolveSelector(work.note.spec))
       IN  \E failed \in SUBSET K :
             /\ Failing(failed)
             /\ rules' = Delete(K, failed, rules)
             /\ undeleted' = undeleted \ (K \ failed)
             /\ unrecorded' = unrecorded \ (K \ failed)
    /\ work' = None
    /\ UNCHANGED <<podVars, policies, polQueue, applied, changes>>

-----------------------------------------------------------------------------
Next ==
    \/ \E p \in Pods : PodChange(p) \/ PodResync(p)
    \/ \E o \in Objects : PolicyChange(o) \/ PolicyResync(o)
    \/ onPodAdd \/ onPodDelete
    \/ onDeleteRecorded \/ BeginCompile \/ onUpsert \/ onDeleteUnrecorded

Spec == Init /\ [][Next]_vars

\* The handlers run in goroutines of their own that the Go scheduler does
\* not starve, and every round of the resync timers (30 seconds) covers
\* every cached object.
FairSpec ==
    /\ Spec
    /\ WF_vars(onPodAdd) /\ WF_vars(onPodDelete)
    /\ WF_vars(onDeleteRecorded) /\ WF_vars(BeginCompile)
    /\ WF_vars(onUpsert) /\ WF_vars(onDeleteUnrecorded)
    /\ \A p \in Pods : SF_vars(PodResync(p))
    /\ \A o \in Objects : SF_vars(PolicyResync(o))
-----------------------------------------------------------------------------
(* Properties.                                                             *)

Queued(q, o, kind) == \E i \in 1..Len(q) : q[i].obj = o /\ q[i].kind = kind

\* The types of the watchers' state.
TypeOK ==
    /\ pods \in [Pods -> PodStates]
    /\ registered \subseteq Names
    /\ identities \in [Names -> Pods \union {None}]
    /\ policies \in [Objects -> Specs \union {None}]
    /\ work # None => work.note.spec \in Specs
    /\ applied \in [Objects -> (SUBSET Keys) \union {NoRecord}]
    /\ rules \in [Keys -> Actions \union {None}]
    /\ undeleted \subseteq Keys /\ unrecorded \subseteq Keys
    /\ changes \in 0..MaxChanges /\ failures \in 0..MaxFailures

\* No rule outlives its policy, however far the resolver has drifted since
\* the rule was written: a stored rule is on the record of an object that
\* still exists or whose deletion is queued, unless a call of the store
\* failed on its key (the applied record of policy_informer.go:178-182).
RulesOwned == \A k \in Stored :
    \/ \E o \in Objects :
         /\ applied[o] # NoRecord /\ k \in applied[o]
         /\ policies[o] # None \/ Queued(polQueue, o, "Delete")
    \/ k \in undeleted \union unrecorded

\* Another policy, with the other action, compiles to the key as well.
Contested(o, k) == \E q \in Objects \ {o} :
    /\ policies[q] # None /\ policies[q].action # policies[o].action
    /\ \E K \in Compilations(policies[q]) : k \in K

Mirrored == \A o \in Objects :
    policies[o] # None /\ Compilations(policies[o]) # {} =>
        \E K \in Compilations(policies[o]) : \A k \in K :
            /\ k \in Stored
            /\ rules[k] = policies[o].action \/ Contested(o, k)

\* No two cached pods of different names carry one SPIFFE ID.
OneNameEach == \A p, q \in Pods :
    /\ pods[p] # "Absent" /\ pods[q] # "Absent"
    /\ Spiffe(p) # None /\ Spiffe(p) = Spiffe(q)
    => Name(p) = Name(q)

\* Whatever was skipped because a pod was not known yet, failed in the
\* store, or was deleted or overwritten for another policy with the same key,
\* is in the store in the end: every policy that can be compiled has its
\* rules, with its action.  Only a key that a policy with the other action
\* compiles to as well has the action written last, which changes with every
\* resync.  With replicas of one SPIFFE ID the choice of ResolveSpiffeID
\* changes too and two policies may undo each other for ever.
PoliciesMirrored == <>[](OneNameEach => Mirrored)

Known == \A p \in Pods :
    pods[p] = "Running" /\ Spiffe(p) # None => identities[Name(p)] # None

\* A running pod's name has an identity in the store in the end, also after
\* the deletion of a pod of the same name in another namespace.
PodsKnown == <>[]Known
=============================================================================
