--------------------------- MODULE K8sMirrorProofs ---------------------------
(***************************************************************************)
(* Proofs about K8sMirror, for any finite cluster, any policies, specs and *)
(* first list, and any number of changes and failures of the store.        *)
(***************************************************************************)
EXTENDS K8sMirror, FiniteSetTheorems, TLAPS

PodNotes == [pod : Pods, kind : {"Upsert", "Delete", "Tombstone"}, state : PodStates]
PolNotes == [obj : Objects, kind : {"Upsert", "Delete"}, spec : Specs]

\* TypeOK and the types of what is queued and under way.
Types ==
    /\ TypeOK
    /\ podQueue \in Seq(PodNotes) /\ polQueue \in Seq(PolNotes)
    /\ work # None => /\ work.note \in PolNotes
                      /\ work.sources \in [work.note.spec.sources -> Names]

\* An object that exists or whose deletion has not been handled yet.
Live(o) == policies[o] # None \/ Queued(polQueue, o, "Delete")

\* The i-th notification of q concerns an object that exists, or the deletion
\* of that object is queued behind it.
Covered(q, pol, i) ==
    \/ pol[q[i].obj] # None
    \/ \E j \in i + 1 .. Len(q) : q[j].obj = q[i].obj /\ q[j].kind = "Delete"

UpsertsCovered(q, pol) == \A i \in 1..Len(q) : q[i].kind = "Upsert" => Covered(q, pol, i)

\* A record, and the compilation that will write one, belong to live objects.
RecordsLive ==
    /\ \A o \in Objects : applied[o] # NoRecord => Live(o)
    /\ work # None /\ work.note.kind = "Upsert" => Live(work.note.obj)
    /\ UpsertsCovered(polQueue, policies)

\* A stored rule is on some record, or a call of the store failed on its key.
OnRecord(k) == \E o \in Objects : applied[o] # NoRecord /\ k \in applied[o]
RulesRecorded == \A k \in Stored : OnRecord(k) \/ k \in undeleted \union unrecorded

Inv == Types /\ RecordsLive /\ RulesRecorded

-----------------------------------------------------------------------------
(* Keys *)

LEMMA KeysFinite ==
    ASSUME NEW S, S \subseteq Keys
    PROVE  IsFiniteSet(S) /\ Cardinality(S) \in Nat
  <1> DEFINE name == [p \in Pods |-> Name(p)]
  <1>0. name \in Surjection(Pods, Names) BY DEF Surjection, Names
  <1>1. IsFiniteSet(Names) BY <1>0, ClusterAssumption, FS_Surjection
  <1>2. IsFiniteSet(Keys) BY <1>1, FS_Product DEF Keys
  <1> QED BY <1>2, FS_Subset, FS_CardinalityType

LEMMA FailuresBounded ==
    ASSUME Types, NEW S, S \subseteq Keys, Failing(S)
    PROVE  failures' \in 0..MaxFailures
  <1>1. Cardinality(S) \in Nat BY KeysFinite
  <1> QED BY <1>1, BoundAssumption DEF Failing, Types, TypeOK

\* What is compiled are keys of the cluster.
LEMMA CompiledKeys ==
    ASSUME Types, work # None
    PROVE  /\ RuleKeys(work.sources, ResolveSelector(work.note.spec)) \subseteq Keys
           /\ work.note.obj \in Objects /\ work.note.spec \in Specs
           /\ work.note.spec.action \in Actions
  <1>1. /\ work.note \in PolNotes /\ work.sources \in [work.note.spec.sources -> Names]
    BY DEF Types
  <1>2. {work.sources[s] : s \in DOMAIN work.sources} \subseteq Names BY <1>1
  <1>3. ResolveSelector(work.note.spec) \subseteq Names
    BY DEF ResolveSelector, Resolvable, Names
  <1>4. work.note.obj \in Objects /\ work.note.spec \in Specs BY <1>1 DEF PolNotes
  <1>5. work.note.spec.action \in Actions BY <1>4, SpecAssumption DEF Actions
  <1> QED BY <1>2, <1>3, <1>4, <1>5 DEF RuleKeys, Keys

-----------------------------------------------------------------------------
(* Queues *)

LEMMA Appended ==
    ASSUME NEW q \in Seq(PolNotes), NEW e \in PolNotes
    PROVE  /\ Append(q, e) \in Seq(PolNotes) /\ Len(Append(q, e)) = Len(q) + 1
           /\ Len(q) \in Nat /\ Append(q, e)[Len(q) + 1] = e
           /\ \A i \in 1..Len(q) : Append(q, e)[i] = q[i]
  OBVIOUS

LEMMA Taken ==
    ASSUME NEW q \in Seq(PolNotes), q # <<>>
    PROVE  /\ Tail(q) \in Seq(PolNotes) /\ Len(Tail(q)) = Len(q) - 1
           /\ Len(q) \in Nat \ {0} /\ Head(q) = q[1] /\ Head(q) \in PolNotes
           /\ \A i \in 1..Len(Tail(q)) : Tail(q)[i] = q[i + 1]
  OBVIOUS

\* A notification more leaves what is queued queued.
LEMMA QueuedAppend ==
    ASSUME NEW q \in Seq(PolNotes), NEW e \in PolNotes, NEW o, NEW kind
    PROVE  Queued(Append(q, e), o, kind) <=> Queued(q, o, kind) \/ (e.obj = o /\ e.kind = kind)
  <1> DEFINE r == Append(q, e)
  <1>1. /\ Len(r) = Len(q) + 1 /\ Len(q) \in Nat /\ r[Len(q) + 1] = e
        /\ \A i \in 1..Len(q) : r[i] = q[i]
    BY Appended
  <1> HIDE DEF r
  <1>2. ASSUME Queued(r, o, kind) PROVE Queued(q, o, kind) \/ (e.obj = o /\ e.kind = kind)
    <2>1. PICK i \in 1..Len(r) : r[i].obj = o /\ r[i].kind = kind BY <1>2 DEF Queued
    <2>2. CASE i = Len(q) + 1 BY <1>1, <2>1, <2>2
    <2>3. CASE i # Len(q) + 1
      <3>1. i \in 1..Len(q) BY <1>1, <2>3
      <3> QED BY <1>1, <2>1, <3>1 DEF Queued
    <2> QED BY <2>2, <2>3
  <1>3. ASSUME Queued(q, o, kind) PROVE Queued(r, o, kind)
    <2>1. PICK i \in 1..Len(q) : q[i].obj = o /\ q[i].kind = kind BY <1>3 DEF Queued
    <2>2. i \in 1..Len(r) BY <1>1
    <2> QED BY <1>1, <2>1, <2>2 DEF Queued
  <1>4. ASSUME e.obj = o, e.kind = kind PROVE Queued(r, o, kind)
    <2>1. Len(q) + 1 \in 1..Len(r) BY <1>1
    <2> QED BY <1>1, <1>4, <2>1 DEF Queued
  <1> QED BY <1>2, <1>3, <1>4 DEF r

\* Taking the head loses only what the head was.
LEMMA QueuedTail ==
    ASSUME NEW q \in Seq(PolNotes), q # <<>>, NEW o, NEW kind, Queued(q, o, kind),
           Head(q).obj # o \/ Head(q).kind # kind
    PROVE  Queued(Tail(q), o, kind)
  <1> DEFINE r == Tail(q)
  <1>1. /\ Len(r) = Len(q) - 1 /\ Len(q) \in Nat \ {0} /\ Head(q) = q[1]
        /\ \A i \in 1..Len(r) : r[i] = q[i + 1]
    BY Taken
  <1> HIDE DEF r
  <1>2. PICK i \in 1..Len(q) : q[i].obj = o /\ q[i].kind = kind BY DEF Queued
  <1>3. i # 1 BY <1>1, <1>2
  <1>4. i - 1 \in 1..Len(r) /\ r[i - 1] = q[i] BY <1>1, <1>3
  <1>5. Queued(r, o, kind) BY <1>2, <1>4 DEF Queued
  <1> QED BY <1>5 DEF r

\* A notification more covers the ones before it as they were, and the deletion
\* of an object covers all of that object's.
LEMMA CoveredAppend ==
    ASSUME NEW q \in Seq(PolNotes), NEW pol, UpsertsCovered(q, pol), NEW e \in PolNotes,
           NEW pol2, \A o \in Objects : pol[o] # None => pol2[o] # None \/ (e.obj = o /\ e.kind = "Delete"),
           e.kind = "Upsert" => pol2[e.obj] # None
    PROVE  UpsertsCovered(Append(q, e), pol2)
  <1> DEFINE r == Append(q, e)
  <1>1. /\ Len(r) = Len(q) + 1 /\ Len(q) \in Nat /\ r[Len(q) + 1] = e
        /\ \A i \in 1..Len(q) : r[i] = q[i]
    BY Appended
  <1>2. \A i \in 1..Len(q) : q[i] \in PolNotes OBVIOUS
  <1> HIDE DEF r
  <1>3. ASSUME NEW i \in 1..Len(r), r[i].kind = "Upsert" PROVE Covered(r, pol2, i)
    <2>1. CASE i = Len(q) + 1 BY <1>1, <1>3, <2>1 DEF Covered
    <2>2. CASE i # Len(q) + 1
      <3>1. i \in 1..Len(q) /\ r[i] = q[i] BY <1>1, <2>2
      <3>2. Covered(q, pol, i) /\ q[i].obj \in Objects BY <1>2, <1>3, <3>1 DEF UpsertsCovered, PolNotes
      <3>3. CASE pol[q[i].obj] # None
        <4>1. Len(q) + 1 \in i + 1 .. Len(r) BY <1>1, <3>1
        <4> QED BY <1>1, <3>1, <3>2, <3>3, <4>1 DEF Covered
      <3>4. ASSUME NEW j \in i + 1 .. Len(q), q[j].obj = q[i].obj, q[j].kind = "Delete"
            PROVE  Covered(r, pol2, i)
        <4>1. j \in 1..Len(q) /\ j \in i + 1 .. Len(r) BY <1>1, <3>1
        <4> QED BY <1>1, <3>1, <3>4, <4>1 DEF Covered
      <3> QED BY <3>2, <3>3, <3>4 DEF Covered
    <2> QED BY <2>1, <2>2
  <1>4. UpsertsCovered(r, pol2) BY <1>3 DEF UpsertsCovered
  <1> QED BY <1>4 DEF r

LEMMA CoveredTail ==
    ASSUME NEW q \in Seq(PolNotes), q # <<>>, NEW pol, UpsertsCovered(q, pol)
    PROVE  /\ UpsertsCovered(Tail(q), pol)
           /\ Head(q).kind = "Upsert" =>
                pol[Head(q).obj] # None \/ Queued(Tail(q), Head(q).obj, "Delete")
  <1> DEFINE r == Tail(q)
  <1>1. /\ Len(r) = Len(q) - 1 /\ Len(q) \in Nat \ {0} /\ Head(q) = q[1]
        /\ \A i \in 1..Len(r) : r[i] = q[i + 1]
    BY Taken
  <1> HIDE DEF r
  <1>2. ASSUME NEW i \in 0..Len(r), q[i + 1].kind = "Upsert"
        PROVE  \/ pol[q[i + 1].obj] # None
               \/ \E j \in i + 1 .. Len(r) : r[j].obj = q[i + 1].obj /\ r[j].kind = "Delete"
    <2>1. i + 1 \in 1..Len(q) BY <1>1
    <2>2. Covered(q, pol, i + 1) BY <1>2, <2>1 DEF UpsertsCovered
    <2>3. ASSUME NEW j \in (i + 1) + 1 .. Len(q), q[j].obj = q[i + 1].obj, q[j].kind = "Delete"
          PROVE  \E n \in i + 1 .. Len(r) : r[n].obj = q[i + 1].obj /\ r[n].kind = "Delete"
      <3>1. j - 1 \in i + 1 .. Len(r) /\ j - 1 \in 1..Len(r) /\ r[j - 1] = q[j] BY <1>1
      <3> QED BY <2>3, <3>1
    <2> QED BY <2>2, <2>3 DEF Covered
  <1>3. UpsertsCovered(r, pol)
    <2> SUFFICES ASSUME NEW i \in 1..Len(r), r[i].kind = "Upsert" PROVE Covered(r, pol, i)
      BY DEF UpsertsCovered
    <2>1. r[i] = q[i + 1] /\ i \in 0..Len(r) BY <1>1
    <2> QED BY <1>2, <2>1 DEF Covered
  <1>4. Head(q).kind = "Upsert" => pol[Head(q).obj] # None \/ Queued(r, Head(q).obj, "Delete")
    <2>1. 0 \in 0..Len(r) /\ 0 + 1 = 1 BY <1>1
    <2> QED BY <1>1, <1>2, <2>1 DEF Queued
  <1> QED BY <1>3, <1>4 DEF r

-----------------------------------------------------------------------------
(* The pods *)

LEMMA InitInv == Init => Inv
  <1> SUFFICES ASSUME Init PROVE Inv OBVIOUS
  <1> USE DEF Init
  <1>1. podQueue \in Seq(PodNotes)
    <2>1. Len(Listed) \in Nat /\ \A i \in 1..Len(Listed) : Listed[i] \in Pods
      BY ListedAssumption
    <2>2. \A i \in 1..Len(Listed) : PodNote(Listed[i], "Upsert", "Running") \in PodNotes
      BY <2>1 DEF PodNote, PodNotes, PodStates
    <2> QED BY <2>1, <2>2
  <1>2. polQueue \in Seq(PolNotes) /\ Len(polQueue) = 0 OBVIOUS
  <1>3. Types BY <1>1, <1>2, BoundAssumption DEF Types, TypeOK, PodStates, NoRecord
  <1>4. RecordsLive BY <1>2 DEF RecordsLive, UpsertsCovered, NoRecord
  <1>5. RulesRecorded BY DEF RulesRecorded, Stored
  <1> QED BY <1>3, <1>4, <1>5 DEF Inv

\* The pods touch no policy and no rule.
LEMMA PodStep ==
    ASSUME Inv, UNCHANGED <<policies, polQueue, work, ruleVars>>,
           pods' \in [Pods -> PodStates], podQueue' \in Seq(PodNotes), registered' \subseteq Names,
           identities' \in [Names -> Pods \union {None}],
           changes' \in 0..MaxChanges, failures' \in 0..MaxFailures
    PROVE  Inv'
  <1>1. UNCHANGED <<applied, rules, undeleted, unrecorded>> BY DEF ruleVars
  <1>2. Types' BY <1>1 DEF Inv, Types, TypeOK
  <1>3. RecordsLive'
    BY <1>1 DEF Inv, RecordsLive, Live, Queued, UpsertsCovered, Covered
  <1>4. RulesRecorded' BY <1>1 DEF Inv, RulesRecorded, OnRecord, Stored
  <1> QED BY <1>2, <1>3, <1>4 DEF Inv

LEMMA PodChangeInv ==
    ASSUME Inv, NEW p \in Pods, PodChange(p) \/ PodResync(p)
    PROVE  Inv'
  <1> USE DEF Inv, Types, TypeOK
  <1>1. ASSUME NEW kind \in {"Upsert", "Delete", "Tombstone"}, NEW state \in PodStates,
               podQueue' = Append(podQueue, PodNote(p, kind, state))
        PROVE  podQueue' \in Seq(PodNotes)
    <2>1. PodNote(p, kind, state) \in PodNotes BY DEF PodNote, PodNotes
    <2> QED BY <1>1, <2>1
  <1>2. CASE PodChange(p)
    <2>1. PICK state \in PodStates \ {pods[p]} :
            /\ changes < MaxChanges /\ pods' = [pods EXCEPT ![p] = state]
            /\ \E kind \in IF state = "Absent" THEN {"Delete", "Tombstone"} ELSE {"Upsert"} :
                 podQueue' = Append(podQueue, PodNote(p, kind, state))
            /\ changes' = changes + 1
            /\ UNCHANGED <<registered, identities, policies, polQueue, work, ruleVars, failures>>
      BY <1>2 DEF PodChange
    <2>2. podQueue' \in Seq(PodNotes) BY <1>1, <2>1
    <2>3. pods' \in [Pods -> PodStates] /\ changes' \in 0..MaxChanges BY <2>1, BoundAssumption
    <2> QED BY <2>1, <2>2, <2>3, PodStep
  <1>3. CASE PodResync(p)
    <2>1. podQueue' \in Seq(PodNotes) BY <1>1, <1>3 DEF PodResync
    <2> QED BY <1>3, <2>1, PodStep DEF PodResync
  <1> QED BY <1>2, <1>3

LEMMA PodHandlerInv ==
    ASSUME Inv, onPodAdd \/ onPodDelete
    PROVE  Inv'
  <1> DEFINE note == Head(podQueue)
  <1>1. podQueue \in Seq(PodNotes) /\ podQueue # <<>> BY DEF Inv, Types, onPodAdd, onPodDelete
  <1>2. note \in PodNotes /\ Tail(podQueue) \in Seq(PodNotes) BY <1>1
  <1>3. note.pod \in Pods /\ Name(note.pod) \in Names BY <1>2 DEF PodNotes, Names
  <1>4. ASSUME NEW ok \in BOOLEAN, Calls(ok) PROVE failures' \in 0..MaxFailures
    BY <1>4, BoundAssumption DEF Calls, Inv, Types, TypeOK
  <1> HIDE DEF note
  <1>5. /\ failures' \in 0..MaxFailures /\ registered' \subseteq Names
        /\ identities' \in [Names -> Pods \union {None}]
    <2>1. CASE onPodAdd BY <1>3, <1>4, <2>1 DEF onPodAdd, note, Inv, Types, TypeOK
    <2>2. CASE onPodDelete BY <1>3, <1>4, <2>2 DEF onPodDelete, note, Inv, Types, TypeOK
    <2> QED BY <2>1, <2>2
  <1>6. /\ podQueue' = Tail(podQueue) /\ UNCHANGED <<pods, policies, polQueue, work, ruleVars, changes>>
    BY DEF onPodAdd, onPodDelete
  <1> QED BY <1>2, <1>5, <1>6, PodStep DEF Inv, Types, TypeOK

-----------------------------------------------------------------------------
(* The policies *)

\* A policy that changes is live, also when it is deleted.
LEMMA PolicyChangeInv ==
    ASSUME Inv, NEW o \in Objects, PolicyChange(o)
    PROVE  Inv'
  <1>1. PICK spec \in (Specs \union {None}) \ {policies[o]} :
          /\ changes < MaxChanges /\ policies' = [policies EXCEPT ![o] = spec]
          /\ polQueue' = Append(polQueue, IF spec = None THEN PolNote(o, "Delete", policies[o])
                                                         ELSE PolNote(o, "Upsert", spec))
          /\ changes' = changes + 1
          /\ UNCHANGED <<podVars, work, ruleVars, failures>>
    BY DEF PolicyChange
  <1>2. PICK e : e = IF spec = None THEN PolNote(o, "Delete", policies[o]) ELSE PolNote(o, "Upsert", spec)
    OBVIOUS
  <1>3. polQueue \in Seq(PolNotes) /\ policies \in [Objects -> Specs \union {None}]
    BY DEF Inv, Types, TypeOK
  <1>4. /\ e \in PolNotes /\ e.obj = o
        /\ spec = None => e.kind = "Delete"
        /\ spec # None => e.kind = "Upsert"
    BY <1>2, <1>3 DEF PolNote, PolNotes
  <1>5. polQueue' = Append(polQueue, e) BY <1>1, <1>2
  <1>6. /\ policies' \in [Objects -> Specs \union {None}] /\ policies'[o] = spec
        /\ \A x \in Objects \ {o} : policies'[x] = policies[x]
    BY <1>1, <1>3
  <1>7. UNCHANGED <<pods, podQueue, registered, identities, work, applied, rules, undeleted, unrecorded, failures>>
    BY <1>1 DEF podVars, ruleVars
  <1>8. Types'
    <2>1. polQueue' \in Seq(PolNotes) BY <1>3, <1>4, <1>5, Appended
    <2>2. changes' \in 0..MaxChanges BY <1>1, BoundAssumption DEF Inv, Types, TypeOK
    <2> QED BY <1>6, <1>7, <2>1, <2>2 DEF Inv, Types, TypeOK
  <1>9. ASSUME NEW x \in Objects, Live(x) PROVE Live(x)'
    <2>1. Queued(polQueue', x, "Delete") <=> Queued(polQueue, x, "Delete") \/ (e.obj = x /\ e.kind = "Delete")
      BY <1>3, <1>4, <1>5, QueuedAppend
    <2>2. CASE x = o
      <3>1. spec = None => Queued(polQueue', x, "Delete") BY <1>4, <2>1, <2>2
      <3> QED BY <1>6, <2>2, <3>1 DEF Live, Queued
    <2>3. CASE x # o BY <1>6, <1>9, <2>1, <2>3 DEF Live, Queued
    <2> QED BY <2>2, <2>3
  <1>10. UpsertsCovered(polQueue', policies')
    <2>1. \A x \in Objects : policies[x] # None => policies'[x] # None \/ (e.obj = x /\ e.kind = "Delete")
      BY <1>4, <1>6
    <2>2. e.kind = "Upsert" => policies'[e.obj] # None BY <1>4, <1>6
    <2>3. UpsertsCovered(polQueue, policies) BY DEF Inv, RecordsLive
    <2> QED BY <1>3, <1>4, <1>5, <2>1, <2>2, <2>3, CoveredAppend
  <1>11. RecordsLive'
    <2>1. \A x \in Objects : applied'[x] # NoRecord => Live(x)'
      BY <1>7, <1>9 DEF Inv, RecordsLive
    <2>2. work' # None /\ work'.note.kind = "Upsert" => Live(work.note.obj)'
      BY <1>7, <1>9, CompiledKeys DEF Inv, RecordsLive
    <2> QED BY <1>7, <1>10, <2>1, <2>2 DEF RecordsLive, UpsertsCovered, Covered, NoRecord, Live, Queued
  <1>12. RulesRecorded' BY <1>7 DEF Inv, RulesRecorded, OnRecord, Stored
  <1> QED BY <1>8, <1>11, <1>12 DEF Inv

LEMMA PolicyResyncInv ==
    ASSUME Inv, NEW o \in Objects, PolicyResync(o)
    PROVE  Inv'
  <1>1. PICK e : e = PolNote(o, "Upsert", policies[o]) OBVIOUS
  <1>2. polQueue \in Seq(PolNotes) /\ policies \in [Objects -> Specs \union {None}]
    BY DEF Inv, Types, TypeOK
  <1>3. /\ policies[o] # None /\ polQueue' = Append(polQueue, e)
        /\ UNCHANGED <<pods, podQueue, registered, identities, policies, work, applied, rules, undeleted,
                       unrecorded, changes, failures>>
    BY <1>1 DEF PolicyResync, podVars, ruleVars
  <1>4. e \in PolNotes /\ e.obj = o /\ e.kind = "Upsert" BY <1>1, <1>2, <1>3 DEF PolNote, PolNotes
  <1>5. Types'
    <2>1. polQueue' \in Seq(PolNotes) BY <1>2, <1>3, <1>4, Appended
    <2> QED BY <1>3, <2>1 DEF Inv, Types, TypeOK
  <1>6. ASSUME NEW x, Live(x) PROVE Live(x)'
    <2>1. Queued(polQueue, x, "Delete") => Queued(polQueue', x, "Delete")
      BY <1>2, <1>3, <1>4, QueuedAppend
    <2> QED BY <1>3, <1>6, <2>1 DEF Live, Queued
  <1>7. UpsertsCovered(polQueue', policies)
    BY <1>2, <1>3, <1>4, CoveredAppend DEF Inv, RecordsLive
  <1>8. RecordsLive'
    <2>1. \A x \in Objects : applied'[x] # NoRecord => Live(x)'
      BY <1>3, <1>6 DEF Inv, RecordsLive
    <2>2. work' # None /\ work'.note.kind = "Upsert" => Live(work.note.obj)'
      BY <1>3, <1>6 DEF Inv, RecordsLive
    <2> QED BY <1>3, <1>7, <2>1, <2>2 DEF RecordsLive, UpsertsCovered, Covered, NoRecord, Live, Queued
  <1>9. RulesRecorded' BY <1>3 DEF Inv, RulesRecorded, OnRecord, Stored
  <1> QED BY <1>5, <1>8, <1>9 DEF Inv

\* Taking a notification ends the life of an object at most if it is the deletion
\* of that object; the object of an upsert is live behind it.
LEMMA TakeNote ==
    ASSUME Inv, NEW note, note = Head(polQueue), polQueue # <<>>, polQueue' = Tail(polQueue), UNCHANGED policies
    PROVE  /\ note \in PolNotes /\ polQueue' \in Seq(PolNotes)
           /\ \A o : Live(o) /\ (note.kind = "Delete" => note.obj # o) => Live(o)'
           /\ note.kind = "Upsert" => Live(note.obj)'
           /\ UpsertsCovered(polQueue', policies)
  <1>1. polQueue \in Seq(PolNotes) /\ UpsertsCovered(polQueue, policies)
    BY DEF Inv, Types, RecordsLive
  <1>2. note \in PolNotes /\ polQueue' \in Seq(PolNotes) BY <1>1, Taken
  <1>3. ASSUME NEW o, Live(o), note.kind = "Delete" => note.obj # o PROVE Live(o)'
    <2>1. Queued(polQueue, o, "Delete") => Queued(polQueue', o, "Delete") BY <1>1, <1>3, QueuedTail
    <2> QED BY <1>3, <2>1 DEF Live, Queued
  <1>4. /\ UpsertsCovered(polQueue', policies)
        /\ note.kind = "Upsert" =>
             policies[note.obj] # None \/ Queued(polQueue', note.obj, "Delete")
    BY <1>1, CoveredTail
  <1>5. note.kind = "Upsert" => Live(note.obj)' BY <1>4 DEF Live, Queued
  <1> QED BY <1>2, <1>3, <1>4, <1>5

LEMMA BeginCompileInv ==
    ASSUME Inv, BeginCompile
    PROVE  Inv'
  <1>0. PICK note : note = Head(polQueue) OBVIOUS
  <1>1. /\ work = None /\ polQueue # <<>> /\ polQueue' = Tail(polQueue)
        /\ note.kind = "Delete" => applied[note.obj] = NoRecord
        /\ \/ work' = None
           \/ \E f \in Sources(note.spec) : work' = [note |-> note, sources |-> f]
        /\ UNCHANGED <<pods, podQueue, registered, identities, policies, applied, rules, undeleted,
                       unrecorded, changes, failures>>
    BY <1>0 DEF BeginCompile, podVars, ruleVars
  <1>2. /\ note \in PolNotes /\ polQueue' \in Seq(PolNotes)
        /\ \A o : Live(o) /\ (note.kind = "Delete" => note.obj # o) => Live(o)'
        /\ note.kind = "Upsert" => Live(note.obj)'
        /\ UpsertsCovered(polQueue', policies)
    BY <1>0, <1>1, TakeNote
  <1>3. work' # None => work'.note = note /\ work'.sources \in [note.spec.sources -> Names]
    BY <1>1 DEF Sources
  <1>4. note.spec \in Specs BY <1>2 DEF PolNotes
  <1>5. Types' BY <1>1, <1>2, <1>3, <1>4 DEF Inv, Types, TypeOK
  <1>6. \A o \in Objects : applied'[o] # NoRecord => Live(o)' BY <1>1, <1>2 DEF Inv, RecordsLive
  <1>7. work' # None /\ work'.note.kind = "Upsert" => Live(note.obj)' BY <1>2, <1>3
  <1>8. RecordsLive'
    BY <1>1, <1>2, <1>3, <1>6, <1>7 DEF RecordsLive, UpsertsCovered, Covered, NoRecord, Live, Queued
  <1>9. RulesRecorded' BY <1>1 DEF Inv, RulesRecorded, OnRecord, Stored
  <1> QED BY <1>5, <1>8, <1>9 DEF Inv

-----------------------------------------------------------------------------
(* The rules *)

LEMMA DeleteRecordedInv ==
    ASSUME Inv, onDeleteRecorded
    PROVE  Inv'
  <1>0. PICK note : note = Head(polQueue) OBVIOUS
  <1>00. PICK R : R = applied[note.obj] OBVIOUS
  <1>1. /\ work = None /\ polQueue # <<>> /\ note.kind = "Delete" /\ R # NoRecord
        /\ applied' = [applied EXCEPT ![note.obj] = NoRecord]
        /\ polQueue' = Tail(polQueue)
        /\ UNCHANGED <<pods, podQueue, registered, identities, policies, work, changes>>
    BY <1>0, <1>00 DEF onDeleteRecorded, podVars
  <1>2. PICK failed \in SUBSET R :
          /\ Failing(failed) /\ rules' = Delete(R, failed, rules)
          /\ undeleted' = (undeleted \ R) \union (failed \intersect Stored)
          /\ unrecorded' = unrecorded \ (R \ failed)
    BY <1>0, <1>00 DEF onDeleteRecorded, Record
  <1>3. /\ note \in PolNotes /\ polQueue' \in Seq(PolNotes)
        /\ \A o : Live(o) /\ (note.kind = "Delete" => note.obj # o) => Live(o)'
        /\ UpsertsCovered(polQueue', policies)
    BY <1>0, <1>1, TakeNote
  <1>4. note.obj \in Objects BY <1>3 DEF PolNotes
  <1>5. R \subseteq Keys BY <1>00, <1>1, <1>4 DEF Inv, Types, TypeOK
  <1>6. /\ applied' \in [Objects -> (SUBSET Keys) \union {NoRecord}] /\ applied'[note.obj] = NoRecord
        /\ \A o \in Objects \ {note.obj} : applied'[o] = applied[o]
    BY <1>1, <1>4 DEF Inv, Types, TypeOK
  <1>7. /\ rules' \in [Keys -> Actions \union {None}]
        /\ \A k \in R \ failed : rules'[k] = None
        /\ \A k \in Keys \ (R \ failed) : rules'[k] = rules[k]
    BY <1>2, <1>5 DEF Delete, Inv, Types, TypeOK
  <1>8. Types'
    <2>1. failures' \in 0..MaxFailures BY <1>2, <1>5, FailuresBounded DEF Inv
    <2>2. undeleted' \subseteq Keys /\ unrecorded' \subseteq Keys
      BY <1>2, <1>5 DEF Inv, Types, TypeOK
    <2> QED BY <1>1, <1>3, <1>6, <1>7, <2>1, <2>2 DEF Inv, Types, TypeOK
  <1>9. RecordsLive'
    <2>1. \A o \in Objects : applied'[o] # NoRecord => Live(o)'
      BY <1>3, <1>6 DEF Inv, RecordsLive
    <2> QED BY <1>1, <1>3, <2>1 DEF RecordsLive, UpsertsCovered, Covered, NoRecord, Live, Queued
  <1>10. RulesRecorded'
    <2> SUFFICES ASSUME NEW k \in Keys, rules'[k] # None
                 PROVE  \/ \E o \in Objects : applied'[o] # NoRecord /\ k \in applied'[o]
                        \/ k \in undeleted' \union unrecorded'
      BY DEF RulesRecorded, OnRecord, Stored, NoRecord, Keys, Names
    <2>1. k \notin R \ failed /\ k \in Stored BY <1>7 DEF Stored
    <2>2. CASE k \in failed BY <1>2, <2>1, <2>2
    <2>3. CASE k \notin failed
      <3>1. k \notin R BY <2>1, <2>3
      <3>2. CASE k \in undeleted \union unrecorded BY <1>2, <3>1, <3>2
      <3>3. ASSUME NEW o \in Objects, applied[o] # NoRecord, k \in applied[o]
            PROVE  applied'[o] # NoRecord /\ k \in applied'[o]
        <4>1. o # note.obj BY <1>00, <3>1, <3>3
        <4> QED BY <1>6, <3>3, <4>1
      <3> QED BY <2>1, <3>2, <3>3 DEF Inv, RulesRecorded, OnRecord
    <2> QED BY <2>2, <2>3
  <1> QED BY <1>8, <1>9, <1>10 DEF Inv

LEMMA DeleteUnrecordedInv ==
    ASSUME Inv, onDeleteUnrecorded
    PROVE  Inv'
  <1>0. PICK K : K = RuleKeys(work.sources, ResolveSelector(work.note.spec)) OBVIOUS
  <1>1. /\ work # None /\ work' = None
        /\ UNCHANGED <<pods, podQueue, registered, identities, policies, polQueue, applied, changes>>
    BY DEF onDeleteUnrecorded, podVars
  <1>2. PICK failed \in SUBSET K :
          /\ Failing(failed) /\ rules' = Delete(K, failed, rules)
          /\ undeleted' = undeleted \ (K \ failed) /\ unrecorded' = unrecorded \ (K \ failed)
    BY <1>0 DEF onDeleteUnrecorded
  <1>3. K \subseteq Keys BY <1>0, <1>1, CompiledKeys DEF Inv
  <1>4. /\ rules' \in [Keys -> Actions \union {None}]
        /\ \A k \in K \ failed : rules'[k] = None
        /\ \A k \in Keys \ (K \ failed) : rules'[k] = rules[k]
    BY <1>2, <1>3 DEF Delete, Inv, Types, TypeOK
  <1>5. Types'
    <2>1. failures' \in 0..MaxFailures BY <1>2, <1>3, FailuresBounded DEF Inv
    <2> QED BY <1>1, <1>2, <1>4, <2>1 DEF Inv, Types, TypeOK
  <1>6. RecordsLive'
    BY <1>1 DEF Inv, RecordsLive, UpsertsCovered, Covered, NoRecord, Live, Queued
  <1>7. RulesRecorded'
    <2> SUFFICES ASSUME NEW k \in Keys, rules'[k] # None
                 PROVE  \/ \E o \in Objects : applied[o] # NoRecord /\ k \in applied[o]
                        \/ k \in undeleted' \union unrecorded'
      BY <1>1 DEF RulesRecorded, OnRecord, Stored, NoRecord, Keys, Names
    <2>1. k \notin K \ failed /\ k \in Stored BY <1>4 DEF Stored
    <2> QED BY <1>2, <2>1 DEF Inv, RulesRecorded, OnRecord
  <1> QED BY <1>5, <1>6, <1>7 DEF Inv

LEMMA UpsertInv ==
    ASSUME Inv, onUpsert
    PROVE  Inv'
  <1>0. PICK o : o = work.note.obj OBVIOUS
  <1>00. PICK K : K = RuleKeys(work.sources, ResolveSelector(work.note.spec)) OBVIOUS
  <1>000. PICK act : act = work.note.spec.action OBVIOUS
  <1> DEFINE old == Stale(o, K)
  <1>1. /\ work # None /\ work.note.kind = "Upsert" /\ work' = None
        /\ UNCHANGED <<pods, podQueue, registered, identities, policies, polQueue, changes>>
    BY DEF onUpsert, podVars
  <1>2. K \subseteq Keys /\ o \in Objects /\ act \in Actions
    BY <1>0, <1>00, <1>000, <1>1, CompiledKeys DEF Inv
  <1>3. Live(o) BY <1>0, <1>1 DEF Inv, RecordsLive
  <1>4. CASE K = {}
    <2>1. UNCHANGED <<applied, rules, undeleted, unrecorded, failures>>
      BY <1>00, <1>4 DEF onUpsert, ruleVars
    <2>2. Types' BY <1>1, <2>1 DEF Inv, Types, TypeOK
    <2>3. RecordsLive'
      BY <1>1, <2>1 DEF Inv, RecordsLive, UpsertsCovered, Covered, NoRecord, Live, Queued
    <2>4. RulesRecorded' BY <2>1 DEF Inv, RulesRecorded, OnRecord, Stored
    <2> QED BY <2>2, <2>3, <2>4 DEF Inv
  <1>5. CASE K # {}
    <2>1. PICK unput \in SUBSET K, failed \in SUBSET old :
            /\ Failing(unput \union failed)
            /\ rules' = Delete(old, failed, [k \in Keys |-> IF k \in K \ unput THEN act ELSE rules[k]])
            /\ applied' = [applied EXCEPT ![o] = K \ unput]
            /\ undeleted' = (undeleted \ (old \union (K \ unput))) \union (failed \intersect Stored)
            /\ unrecorded' = ((unrecorded \ (old \union K)) \union (unput \intersect Stored))
      BY <1>0, <1>00, <1>000, <1>5, ZenonT(60) DEF onUpsert
    <2>2. /\ old \subseteq Keys /\ old \intersect K = {}
          /\ \A k : applied[o] # NoRecord /\ k \in applied[o] /\ k \notin K => k \in old
      BY <1>2 DEF Stale, Inv, Types, TypeOK
    <2> HIDE DEF old
    <2>3. K \ unput # NoRecord BY <1>2, ClusterAssumption DEF NoRecord
    <2>4. /\ applied' \in [Objects -> (SUBSET Keys) \union {NoRecord}] /\ applied'[o] = K \ unput
          /\ \A x \in Objects \ {o} : applied'[x] = applied[x]
      BY <1>2, <2>1 DEF Inv, Types, TypeOK
    <2>5. /\ rules' \in [Keys -> Actions \union {None}]
          /\ \A k \in old \ failed : rules'[k] = None
          /\ \A k \in Keys \ (K \ unput) : k \notin old \ failed => rules'[k] = rules[k]
      BY <1>2, <2>1, <2>2 DEF Delete, Inv, Types, TypeOK
    <2>6. Types'
      <3>1. failures' \in 0..MaxFailures BY <1>2, <2>1, <2>2, FailuresBounded DEF Inv
      <3>2. undeleted' \subseteq Keys /\ unrecorded' \subseteq Keys
        BY <1>2, <2>1, <2>2 DEF Inv, Types, TypeOK
      <3> QED BY <1>1, <2>4, <2>5, <3>1, <3>2 DEF Inv, Types, TypeOK
    <2>7. RecordsLive'
      <3>1. \A x \in Objects : applied'[x] # NoRecord => Live(x) BY <1>3, <2>4 DEF Inv, RecordsLive
      <3> QED BY <1>1, <3>1 DEF Inv, RecordsLive, UpsertsCovered, Covered, NoRecord, Live, Queued
    <2>8. RulesRecorded'
      <3> SUFFICES ASSUME NEW k \in Keys, rules'[k] # None
                   PROVE  \/ \E x \in Objects : applied'[x] # NoRecord /\ k \in applied'[x]
                          \/ k \in undeleted' \union unrecorded'
        BY DEF RulesRecorded, OnRecord, Stored, NoRecord, Keys, Names
      <3>1. CASE k \in K \ unput BY <1>2, <2>3, <2>4, <3>1
      <3>2. CASE k \in unput
        <4>1. k \in Stored BY <2>2, <2>5, <3>2 DEF Stored
        <4> QED BY <2>1, <3>2, <4>1
      <3>3. CASE k \in old
        <4>1. k \in failed /\ k \in Stored BY <2>2, <2>5, <3>3 DEF Stored
        <4> QED BY <2>1, <4>1
      <3>4. CASE k \notin K /\ k \notin old
        <4>1. k \in Stored BY <2>5, <3>4 DEF Stored
        <4>2. CASE k \in undeleted \union unrecorded BY <2>1, <3>4, <4>2
        <4>3. ASSUME NEW x \in Objects, applied[x] # NoRecord, k \in applied[x]
              PROVE  applied'[x] # NoRecord /\ k \in applied'[x]
          <5>1. x # o BY <2>2, <3>4, <4>3
          <5> QED BY <2>4, <4>3, <5>1
        <4> QED BY <4>1, <4>2, <4>3 DEF Inv, RulesRecorded, OnRecord
      <3> QED BY <3>1, <3>2, <3>3, <3>4
    <2> QED BY <2>6, <2>7, <2>8 DEF Inv
  <1> QED BY <1>4, <1>5

-----------------------------------------------------------------------------

LEMMA NextInv == Inv /\ [Next]_vars => Inv'
  <1> SUFFICES ASSUME Inv, [Next]_vars PROVE Inv' OBVIOUS
  <1>1. CASE UNCHANGED vars
    <2>1. UNCHANGED <<pods, podQueue, registered, identities, policies, polQueue, work, ruleVars,
                      changes, failures>>
      BY <1>1 DEF vars, podVars
    <2> QED BY <2>1, PodStep DEF Inv, Types, TypeOK
  <1> QED BY <1>1, PodChangeInv, PodHandlerInv, PolicyChangeInv, PolicyResyncInv, BeginCompileInv,
             DeleteRecordedInv, DeleteUnrecordedInv, UpsertInv DEF Next

LEMMA Invariance == Spec => []Inv
  BY InitInv, NextInv, PTL DEF Spec

\* The watchers' state keeps its types; in particular the record of an object
\* only ever holds keys of the cluster.
THEOREM WatchersTyped == Spec => []TypeOK
  <1>1. Inv => TypeOK BY DEF Inv, Types
  <1> QED BY Invariance, <1>1, PTL

\* policy_informer.go:178-182: no rule outlives its policy.  However the pods and
\* the policies change between the two reads of a compilation, and whatever calls
\* of the store fail, a stored rule is on the record of an object that exists or
\* whose deletion is queued, or is one a failed call left.
THEOREM NoRuleOutlives == Spec => []RulesOwned
  <1>1. ASSUME Inv PROVE RulesOwned
    BY <1>1 DEF Inv, RecordsLive, RulesRecorded, OnRecord, Live, RulesOwned
  <1> QED BY Invariance, <1>1, PTL
=============================================================================
