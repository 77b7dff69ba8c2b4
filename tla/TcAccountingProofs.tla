------------------------- MODULE TcAccountingProofs --------------------------
(***************************************************************************)
(* Proofs about TcAccounting, for any number of CPUs, any traffic and      *)
(* steering, and any sizes of the maps and the ring.                       *)
(***************************************************************************)
EXTENDS TcAccounting, FiniteSetTheorems, TLAPS

Metrics == [PACKETS : Nat, DENIED : Nat, ALLOWED : Nat, REDIRECTED : Nat, RINGBUF_DROPPED : Nat]

Types ==
    /\ DOMAIN denied \subseteq Keyed
    /\ \A k \in DOMAIN denied : denied[k].count \in Nat \ {0}
    /\ seen \subseteq FlowKeys
    /\ metrics \in Metrics
    /\ queued \in 0..RingSize /\ consumed \in Nat /\ counted \in Nat
    /\ cpu \in [CPUs -> Runs]
    /\ drops \in [Keyed -> Nat] /\ firsts \in [FlowKeys -> Nat] /\ evicted \subseteq Keyed

\* The maps hold no more than they have room for.
Fits ==
    /\ IsFiniteSet(DOMAIN denied) /\ Cardinality(DOMAIN denied) <= DeniedCap
    /\ IsFiniteSet(seen) /\ Cardinality(seen) <= SeenCap

\* A CPU works on flows that are steered to it.
SteeredRun(c, r) ==
    /\ r.pc \in {"ingress", "egress"} => c \in Steering(flow_key(r.flow))
    /\ r.pc \in {"upsert", "mark"} /\ r.flow \in FlowKeys => c \in Steering(r.flow)

Steered == \A c \in CPUs : SteeredRun(c, cpu[c])

\* What a CPU is about to write into denied_flows_map counts its own drop and
\* never more than the drops there were.
Counts ==
    /\ \A k \in DOMAIN denied : denied[k].count <= drops[k]
    /\ \A c \in CPUs : cpu[c].pc = "upsert" => cpu[c].count <= drops[cpu[c].flow] + 1

OneCpu(k) == k \in FlowKeys /\ Cardinality(Steering(k)) = 1

ExactCounts ==
    \A k \in FlowKeys : OneCpu(k) /\ k \notin evicted =>
        /\ k \in DOMAIN denied => denied[k].count = drops[k]
        /\ k \notin DOMAIN denied => drops[k] = 0
        /\ \A c \in CPUs : cpu[c].pc = "upsert" /\ cpu[c].flow = k => cpu[c].count = drops[k] + 1

\* The CPUs that found the flow unseen and have yet to mark it.
Marking(k) == {c \in CPUs : cpu[c].pc = "mark" /\ cpu[c].flow = k}

Firsts ==
    \A k \in FlowKeys :
        /\ k \notin seen => firsts[k] = 0
        /\ k \in seen => /\ firsts[k] >= 1
                         /\ firsts[k] + Cardinality(Marking(k)) <= Cardinality(Steering(k))

Inv == Types /\ Fits /\ EventsConserved /\ Steered /\ Counts /\ ExactCounts /\ Firsts

-----------------------------------------------------------------------------
(* Runs and keys *)

LookupRuns == [pc : {"ingress", "egress"}, flow : Packets, src : IDs \union {Unknown}, dst : IDs \union {Unknown}]
UpsertRuns == [pc : {"upsert"}, flow : Keyed, count : Nat \ {0},
               why : {"UNKNOWN_IDENTITY", "POLICY_MISS", "POLICY_DENY", "INVALID_ACTION"}]
MarkRuns   == [pc : {"mark"}, flow : FlowKeys]

\* The program counter tells the kind of run.
LEMMA RunKinds ==
    /\ \A r \in Runs : \/ r = Idle \/ r \in LookupRuns \/ r \in UpsertRuns \/ r \in MarkRuns
    /\ Idle \in Runs /\ LookupRuns \subseteq Runs /\ UpsertRuns \subseteq Runs /\ MarkRuns \subseteq Runs
    /\ Idle.pc = "idle"
    /\ \A r \in LookupRuns : r.pc \in {"ingress", "egress"} /\ r.flow \in Packets
                             /\ r.src \in IDs \union {Unknown} /\ r.dst \in IDs \union {Unknown}
    /\ \A r \in UpsertRuns : r.pc = "upsert" /\ r.flow \in Keyed /\ r.count \in Nat \ {0}
    /\ \A r \in MarkRuns : r.pc = "mark" /\ r.flow \in FlowKeys
  BY DEF Runs, Idle, LookupRuns, UpsertRuns, MarkRuns

LEMMA RunOfPc ==
    ASSUME NEW r \in Runs
    PROVE  /\ r.pc \in {"ingress", "egress"} => r \in LookupRuns
           /\ r.pc = "upsert" => r \in UpsertRuns
           /\ r.pc = "mark" => r \in MarkRuns
  BY RunKinds

LEMMA FlowKey ==
    ASSUME NEW f \in Packets
    PROVE  /\ f \in Flows /\ flow_key(f) \in FlowKeys /\ flow_key(f) \in Keyed
  BY AccountingAssumption DEF FlowKeys, Keyed

LEMMA KeysApart == /\ FlowKeys \subseteq Keyed /\ NoFlow \in Keyed /\ NoFlow \notin FlowKeys
                   /\ \A k \in FlowKeys : IsFiniteSet(Steering(k))
  BY AccountingAssumption DEF FlowKeys, Keyed, flow_key

\* One CPU starts another run; the rest stay in theirs.
LEMMA EnterOK ==
    ASSUME Types, NEW c \in CPUs, NEW r \in Runs, Enter(c, r)
    PROVE  /\ cpu' \in [CPUs -> Runs] /\ cpu'[c] = r
           /\ \A d \in CPUs \ {c} : cpu'[d] = cpu[d]
  BY DEF Types, Enter

LEMMA LeaveOK ==
    ASSUME Types, NEW c \in CPUs, Leave(c)
    PROVE  /\ cpu' \in [CPUs -> Runs] /\ cpu'[c] = Idle
           /\ \A d \in CPUs \ {c} : cpu'[d] = cpu[d]
  BY RunKinds DEF Types, Leave

\* metrics_map after one counter went up, and after RINGBUF_DROPPED did too.
LEMMA CountUp ==
    ASSUME NEW x \in Metrics, NEW m \in {"PACKETS", "DENIED", "ALLOWED", "REDIRECTED"},
           NEW y, y = [x EXCEPT ![m] = @ + 1]
    PROVE  /\ y \in Metrics /\ y.RINGBUF_DROPPED = x.RINGBUF_DROPPED
           /\ y.DENIED + y.ALLOWED + y.REDIRECTED
                = x.DENIED + x.ALLOWED + x.REDIRECTED + (IF m = "PACKETS" THEN 0 ELSE 1)
  <1>1. CASE m = "PACKETS" BY <1>1 DEF Metrics
  <1>2. CASE m = "DENIED" BY <1>2 DEF Metrics
  <1>3. CASE m = "ALLOWED" BY <1>3 DEF Metrics
  <1>4. CASE m = "REDIRECTED" BY <1>4 DEF Metrics
  <1> QED BY <1>1, <1>2, <1>3, <1>4

LEMMA LossUp ==
    ASSUME NEW x \in Metrics, NEW y, y = [x EXCEPT !.RINGBUF_DROPPED = @ + 1]
    PROVE  /\ y \in Metrics /\ y.RINGBUF_DROPPED = x.RINGBUF_DROPPED + 1
           /\ y.DENIED = x.DENIED /\ y.ALLOWED = x.ALLOWED /\ y.REDIRECTED = x.REDIRECTED
  BY DEF Metrics

\* Every count comes with an event that is queued or counted as lost.
LEMMA Emits ==
    ASSUME Types, NEW m \in {"PACKETS", "DENIED", "ALLOWED", "REDIRECTED"}, CountAndEmit(m)
    PROVE  /\ metrics' \in Metrics /\ queued' \in 0..RingSize
           /\ queued' + metrics'.RINGBUF_DROPPED = queued + metrics.RINGBUF_DROPPED + 1
           /\ metrics'.DENIED + metrics'.ALLOWED + metrics'.REDIRECTED
                = metrics.DENIED + metrics.ALLOWED + metrics.REDIRECTED + (IF m = "PACKETS" THEN 0 ELSE 1)
  <1> DEFINE up == [metrics EXCEPT ![m] = @ + 1]
  <1>1. metrics \in Metrics /\ queued \in 0..RingSize /\ RingSize \in Nat
    BY AccountingAssumption DEF Types
  <1>2. /\ up \in Metrics /\ up.RINGBUF_DROPPED = metrics.RINGBUF_DROPPED
        /\ up.DENIED + up.ALLOWED + up.REDIRECTED
             = metrics.DENIED + metrics.ALLOWED + metrics.REDIRECTED + (IF m = "PACKETS" THEN 0 ELSE 1)
    BY <1>1, CountUp
  <1>3. metrics.RINGBUF_DROPPED \in Nat BY <1>1 DEF Metrics
  <1>4. CASE queued < RingSize
    <2>1. metrics' = up /\ queued' = queued + 1 BY <1>4 DEF CountAndEmit
    <2> HIDE DEF up
    <2> QED BY <1>1, <1>2, <1>3, <1>4, <2>1
  <1>5. CASE ~(queued < RingSize)
    <2>1. metrics' = [up EXCEPT !.RINGBUF_DROPPED = @ + 1] /\ queued' = queued
      BY <1>5 DEF CountAndEmit
    <2> HIDE DEF up
    <2>2. /\ metrics' \in Metrics /\ metrics'.RINGBUF_DROPPED = up.RINGBUF_DROPPED + 1
          /\ metrics'.DENIED = up.DENIED /\ metrics'.ALLOWED = up.ALLOWED /\ metrics'.REDIRECTED = up.REDIRECTED
      BY <1>2, <2>1, LossUp
    <2> QED BY <1>1, <1>2, <1>3, <2>1, <2>2
  <1> QED BY <1>4, <1>5

-----------------------------------------------------------------------------
(* One step of a CPU that leaves the flow maps alone *)

Sound(c, r) ==
    /\ SteeredRun(c, r)
    /\ r.pc = "upsert" =>
          /\ r.count <= drops[r.flow] + 1
          /\ OneCpu(r.flow) /\ r.flow \notin evicted => r.count = drops[r.flow] + 1
    /\ r.pc = "mark" => r.flow \notin seen

\* Idle and the look-ups promise nothing about the maps.
LEMMA IdleSound == \A c \in CPUs : Sound(c, Idle)
  BY RunKinds DEF Sound, SteeredRun

LEMMA RunChange ==
    ASSUME Inv, NEW c \in CPUs, NEW r \in Runs, Sound(c, r), cpu[c].pc # "mark",
           cpu' \in [CPUs -> Runs], cpu'[c] = r, \A d \in CPUs \ {c} : cpu'[d] = cpu[d],
           UNCHANGED <<denied, seen, drops, firsts, evicted>>
    PROVE  Fits' /\ Steered' /\ Counts' /\ ExactCounts' /\ Firsts'
  <1>1. Fits' BY DEF Inv, Fits
  <1>2. Steered' BY DEF Inv, Steered, Sound
  <1>3. Counts' BY DEF Inv, Counts, Sound
  <1>4. ExactCounts'
    <2> SUFFICES ASSUME NEW k \in FlowKeys, OneCpu(k), k \notin evicted
                 PROVE  /\ k \in DOMAIN denied => denied[k].count = drops[k]
                        /\ k \notin DOMAIN denied => drops[k] = 0
                        /\ \A d \in CPUs : cpu'[d].pc = "upsert" /\ cpu'[d].flow = k
                                           => cpu'[d].count = drops[k] + 1
      BY DEF ExactCounts, OneCpu
    <2> QED BY DEF Inv, ExactCounts, Sound
  <1>5. Firsts'
    <2> SUFFICES ASSUME NEW k \in FlowKeys
                 PROVE  /\ k \notin seen => firsts[k] = 0
                        /\ k \in seen => /\ firsts[k] >= 1
                                         /\ firsts[k] + Cardinality(Marking(k)') <= Cardinality(Steering(k))
      BY DEF Firsts
    <2>1. k \in seen => Marking(k)' = Marking(k) BY DEF Marking, Sound
    <2> QED BY <2>1 DEF Inv, Firsts
  <1> QED BY <1>1, <1>2, <1>3, <1>4, <1>5

\* One more verdict and one more event.
LEMMA Balance ==
    ASSUME NEW x \in Metrics, NEW y \in Metrics, NEW q \in Nat, NEW q1 \in Nat,
           NEW read \in Nat, NEW other \in Nat,
           q + read + x.RINGBUF_DROPPED = x.DENIED + x.ALLOWED + x.REDIRECTED + other,
           q1 + y.RINGBUF_DROPPED = q + x.RINGBUF_DROPPED + 1,
           y.DENIED + y.ALLOWED + y.REDIRECTED = x.DENIED + x.ALLOWED + x.REDIRECTED + 1
    PROVE  q1 + read + y.RINGBUF_DROPPED = y.DENIED + y.ALLOWED + y.REDIRECTED + other
  <1>1. /\ x.RINGBUF_DROPPED \in Nat /\ y.RINGBUF_DROPPED \in Nat
        /\ x.DENIED \in Nat /\ x.ALLOWED \in Nat /\ x.REDIRECTED \in Nat
        /\ y.DENIED \in Nat /\ y.ALLOWED \in Nat /\ y.REDIRECTED \in Nat
    BY DEF Metrics
  <1> QED BY <1>1

LEMMA Conserved ==
    ASSUME Types, EventsConserved, metrics' \in Metrics, queued' \in 0..RingSize,
           queued' + metrics'.RINGBUF_DROPPED = queued + metrics.RINGBUF_DROPPED + 1,
           metrics'.DENIED + metrics'.ALLOWED + metrics'.REDIRECTED
               = metrics.DENIED + metrics.ALLOWED + metrics.REDIRECTED + 1,
           UNCHANGED <<consumed, counted>>
    PROVE  EventsConserved'
  <1>1. /\ metrics \in Metrics /\ queued \in Nat /\ consumed \in Nat /\ counted \in Nat /\ queued' \in Nat
    BY AccountingAssumption DEF Types
  <1>2. consumed' = consumed /\ counted' = counted OBVIOUS
  <1> QED BY <1>1, <1>2, Balance DEF EventsConserved

\* The two identities a program reads.
LEMMA LookupsOK ==
    ASSUME NEW c \in CPUs, NEW f \in Packets, c \in Steering(flow_key(f)),
           NEW pc \in {"ingress", "egress"}, NEW m1 \in IdentityMaps, NEW m2 \in IdentityMaps
    PROVE  Lookups(pc, f, m1, m2) \in Runs /\ Sound(c, Lookups(pc, f, m1, m2))
  <1> DEFINE r == Lookups(pc, f, m1, m2)
  <1>1. f.src \in Addrs /\ f.dst \in Addrs BY FlowKey DEF Flows
  <1>2. m1[f.src] \in IDs \union {Unknown} /\ m2[f.dst] \in IDs \union {Unknown}
    BY <1>1, AccountingAssumption DEF IdentityMap
  <1>3. r \in LookupRuns BY <1>2 DEF LookupRuns, Lookups
  <1>4. r.pc = pc /\ r.flow = f BY DEF Lookups
  <1> HIDE DEF r
  <1>5. Sound(c, r) BY <1>4 DEF Sound, SteeredRun
  <1> QED BY <1>3, <1>5, RunKinds DEF r

LEMMA IngressArriveInv ==
    ASSUME Inv, NEW c \in CPUs, NEW f \in Packets, IngressArrive(c, f)
    PROVE  Inv'
  <1> USE DEF IngressArrive
  <1>1. UNCHANGED <<denied, seen, queued, consumed, drops, firsts, evicted, counted>> BY DEF history
  <1>2. metrics \in Metrics BY DEF Inv, Types
  <1>3. /\ metrics' \in Metrics /\ metrics'.RINGBUF_DROPPED = metrics.RINGBUF_DROPPED
        /\ metrics'.DENIED = metrics.DENIED /\ metrics'.ALLOWED = metrics.ALLOWED
        /\ metrics'.REDIRECTED = metrics.REDIRECTED
    BY <1>2 DEF Metrics
  <1>4. EventsConserved' BY <1>1, <1>3 DEF Inv, EventsConserved
  <1>5. PICK r \in Runs : /\ Sound(c, r) /\ cpu' \in [CPUs -> Runs] /\ cpu'[c] = r
                          /\ \A d \in CPUs \ {c} : cpu'[d] = cpu[d]
    <2>1. CASE f.l4
      <3>1. PICK m1 \in IdentityMaps, m2 \in IdentityMaps : Enter(c, Lookups("ingress", f, m1, m2))
        BY <2>1
      <3> DEFINE r == Lookups("ingress", f, m1, m2)
      <3>2. r \in Runs /\ Sound(c, r) BY LookupsOK
      <3> HIDE DEF r
      <3>3. Enter(c, r) BY <3>1 DEF r
      <3> QED BY <3>2, <3>3, EnterOK DEF Inv
    <2>2. CASE ~f.l4
      BY <2>2, IdleSound, RunKinds DEF Inv, Types
    <2> QED BY <2>1, <2>2
  <1>6. cpu[c].pc # "mark" BY RunKinds
  <1>7. Fits' /\ Steered' /\ Counts' /\ ExactCounts' /\ Firsts' BY <1>1, <1>5, <1>6, RunChange
  <1>8. Types' BY <1>1, <1>3, <1>5 DEF Inv, Types
  <1> QED BY <1>4, <1>7, <1>8 DEF Inv

LEMMA EgressArriveInv ==
    ASSUME Inv, NEW c \in CPUs, NEW f \in Packets, EgressArrive(c, f)
    PROVE  Inv'
  <1> USE DEF EgressArrive
  <1>1. UNCHANGED <<denied, seen, metrics, queued, consumed, drops, firsts, evicted, counted>> BY DEF history
  <1>2. EventsConserved' BY <1>1 DEF Inv, EventsConserved
  <1>3. PICK r \in Runs : /\ Sound(c, r) /\ cpu' \in [CPUs -> Runs] /\ cpu'[c] = r
                          /\ \A d \in CPUs \ {c} : cpu'[d] = cpu[d]
    <2>1. PICK m1 \in IdentityMaps, m2 \in IdentityMaps :
             IF m1[f.src] = Unknown THEN UNCHANGED cpu ELSE Enter(c, Lookups("egress", f, m1, m2))
      OBVIOUS
    <2>2. CASE m1[f.src] # Unknown
      <3> DEFINE r == Lookups("egress", f, m1, m2)
      <3>1. r \in Runs /\ Sound(c, r) BY LookupsOK
      <3> HIDE DEF r
      <3>2. Enter(c, r) BY <2>1, <2>2 DEF r
      <3> QED BY <3>1, <3>2, EnterOK DEF Inv
    <2>3. CASE m1[f.src] = Unknown
      BY <2>1, <2>3, IdleSound, RunKinds DEF Inv, Types
    <2> QED BY <2>2, <2>3
  <1>4. cpu[c].pc # "mark" BY RunKinds
  <1>5. Fits' /\ Steered' /\ Counts' /\ ExactCounts' /\ Firsts' BY <1>1, <1>3, <1>4, RunChange
  <1>6. Types' BY <1>1, <1>3 DEF Inv, Types
  <1> QED BY <1>2, <1>5, <1>6 DEF Inv

-----------------------------------------------------------------------------
(* The verdicts *)

Whys == {"UNKNOWN_IDENTITY", "POLICY_MISS", "POLICY_DENY", "INVALID_ACTION"}

LEMMA Refusals ==
    ASSUME NEW policy, NEW open, NEW src, NEW dst, NEW f,
           enforce_flow(policy, open, src, dst, f, "SHOT").act # "OK"
    PROVE  enforce_flow(policy, open, src, dst, f, "SHOT").why \in Whys
  BY DEF enforce_flow, Decide, Whys

\* The first half of denied_flow_upsert reads a count no higher than the drops.
LEMMA UpsertOK ==
    ASSUME Inv, NEW c \in CPUs, NEW k \in Keyed, NEW why \in Whys,
           k \in FlowKeys => c \in Steering(k)
    PROVE  LET r == [pc |-> "upsert", flow |-> k, count |-> NextCount(k), why |-> why]
           IN r \in Runs /\ Sound(c, r)
  <1> DEFINE n == NextCount(k)
             r == [pc |-> "upsert", flow |-> k, count |-> n, why |-> why]
  <1>1. n \in Nat \ {0} /\ n <= drops[k] + 1 /\ drops[k] \in Nat
    BY DEF NextCount, Inv, Types, Counts
  <1>2. OneCpu(k) /\ k \notin evicted => n = drops[k] + 1
    BY <1>1 DEF NextCount, Inv, ExactCounts, OneCpu
  <1> HIDE DEF n
  <1>3. r \in UpsertRuns BY <1>1 DEF UpsertRuns, Whys
  <1>4. r.pc = "upsert" /\ r.flow = k /\ r.count = n OBVIOUS
  <1> HIDE DEF r
  <1>5. Sound(c, r) BY <1>1, <1>2, <1>4 DEF Sound, SteeredRun
  <1> QED BY <1>3, <1>5, RunKinds DEF r, n

\* A verdict ends the program, counted or not, or enters the update.
LEMMA DecideInv ==
    ASSUME Inv, NEW c \in CPUs, cpu[c].pc # "mark", NEW r \in Runs, Sound(c, r), Enter(c, r),
           UNCHANGED <<denied, seen, consumed, drops, firsts, evicted, counted>>,
           \/ UNCHANGED <<metrics, queued>>
           \/ CountAndEmit("ALLOWED")
           \/ CountAndEmit("REDIRECTED")
    PROVE  Inv'
  <1>1. cpu' \in [CPUs -> Runs] /\ cpu'[c] = r /\ \A d \in CPUs \ {c} : cpu'[d] = cpu[d]
    BY EnterOK DEF Inv
  <1>2. Fits' /\ Steered' /\ Counts' /\ ExactCounts' /\ Firsts' BY <1>1, RunChange
  <1>3. ASSUME NEW m \in {"ALLOWED", "REDIRECTED"}, CountAndEmit(m)
        PROVE  metrics' \in Metrics /\ queued' \in 0..RingSize /\ EventsConserved'
    <2>1. /\ metrics' \in Metrics /\ queued' \in 0..RingSize
          /\ queued' + metrics'.RINGBUF_DROPPED = queued + metrics.RINGBUF_DROPPED + 1
          /\ metrics'.DENIED + metrics'.ALLOWED + metrics'.REDIRECTED
               = metrics.DENIED + metrics.ALLOWED + metrics.REDIRECTED + 1
      BY <1>3, Emits DEF Inv
    <2> QED BY <2>1, Conserved DEF Inv
  <1>4. metrics' \in Metrics /\ queued' \in 0..RingSize /\ EventsConserved'
    <2>1. CASE UNCHANGED <<metrics, queued>> BY <2>1 DEF Inv, Types, EventsConserved
    <2> QED BY <1>3, <2>1
  <1>5. Types' BY <1>1, <1>4 DEF Inv, Types
  <1> QED BY <1>2, <1>4, <1>5 DEF Inv

LEMMA IngressDecideInv ==
    ASSUME Inv, NEW c \in CPUs, IngressDecide(c)
    PROVE  Inv'
  <1>1. UNCHANGED <<denied, seen, consumed, drops, firsts, evicted, counted>>
    BY DEF IngressDecide, history
  <1> DEFINE f == cpu[c].flow
  <1>2. cpu[c] \in LookupRuns /\ cpu[c].pc = "ingress" BY RunOfPc DEF IngressDecide, Inv, Types
  <1>3. f \in Packets /\ cpu[c].pc # "mark" BY <1>2, RunKinds
  <1>4. flow_key(f) \in FlowKeys /\ flow_key(f) \in Keyed BY <1>3, FlowKey
  <1>5. c \in Steering(flow_key(f)) BY <1>2 DEF Inv, Steered, SteeredRun
  <1>6. PICK policy \in PolicyMaps, open \in BOOLEAN :
          LET d == enforce_flow(policy, open, cpu[c].src, cpu[c].dst, f, "SHOT")
          IN CASE d.act # "OK" -> ToUpsert(c, flow_key(f), d.why)
               [] d.why = "ALLOW" /\ f.proto = "tcp" /\ f.syn -> Leave(c) /\ CountAndEmit("ALLOWED")
               [] d.why = "ALLOW" /\ UnseenUdp(f) ->
                      Enter(c, [pc |-> "mark", flow |-> flow_key(f)]) /\ UNCHANGED <<metrics, queued>>
               [] d.why = "REDIRECT" -> Leave(c) /\ CountAndEmit("REDIRECTED")
               [] OTHER -> Leave(c) /\ UNCHANGED <<metrics, queued>>
    BY DEF IngressDecide
  <1> DEFINE d == enforce_flow(policy, open, cpu[c].src, cpu[c].dst, f, "SHOT")
             mark == [pc |-> "mark", flow |-> flow_key(f)]
  <1>7. d.act # "OK" => d.why \in Whys BY Refusals
  <1>8. UnseenUdp(f) => flow_key(f) \notin seen BY DEF UnseenUdp
  <1>9. mark \in MarkRuns /\ mark.pc = "mark" /\ mark.flow = flow_key(f) BY <1>4 DEF MarkRuns
  <1> HIDE DEF d, f, mark
  <1>10. UnseenUdp(f) => mark \in Runs /\ Sound(c, mark)
    BY <1>4, <1>5, <1>8, <1>9, RunKinds DEF Sound, SteeredRun
  <1>11. \/ d.act # "OK" /\ ToUpsert(c, flow_key(f), d.why)
         \/ Leave(c) /\ CountAndEmit("ALLOWED")
         \/ UnseenUdp(f) /\ Enter(c, mark) /\ UNCHANGED <<metrics, queued>>
         \/ Leave(c) /\ CountAndEmit("REDIRECTED")
         \/ Leave(c) /\ UNCHANGED <<metrics, queued>>
    BY <1>6 DEF d, mark
  <1>12. CASE d.act # "OK" /\ ToUpsert(c, flow_key(f), d.why)
    <2> DEFINE r == [pc |-> "upsert", flow |-> flow_key(f), count |-> NextCount(flow_key(f)), why |-> d.why]
    <2>1. r \in Runs /\ Sound(c, r) BY <1>4, <1>5, <1>7, <1>12, UpsertOK
    <2>2. Enter(c, r) /\ UNCHANGED <<metrics, queued>> BY <1>12 DEF ToUpsert
    <2> HIDE DEF r
    <2> QED BY <1>1, <1>3, <2>1, <2>2, DecideInv
  <1>13. CASE UnseenUdp(f) /\ Enter(c, mark) /\ UNCHANGED <<metrics, queued>>
    BY <1>1, <1>3, <1>10, <1>13, DecideInv
  <1>14. ASSUME Leave(c),
                UNCHANGED <<metrics, queued>> \/ CountAndEmit("ALLOWED") \/ CountAndEmit("REDIRECTED")
         PROVE  Inv'
    <2>1. Enter(c, Idle) /\ Idle \in Runs /\ Sound(c, Idle)
      BY <1>14, IdleSound, RunKinds DEF Leave, Enter
    <2> QED BY <1>1, <1>3, <1>14, <2>1, DecideInv
  <1> QED BY <1>11, <1>12, <1>13, <1>14

LEMMA EgressDecideInv ==
    ASSUME Inv, NEW c \in CPUs, EgressDecide(c)
    PROVE  Inv'
  <1>1. UNCHANGED <<denied, seen, consumed, drops, firsts, evicted, counted>>
    BY DEF EgressDecide, history
  <1> DEFINE f == cpu[c].flow
             k == IF f.l4 THEN flow_key(f) ELSE NoFlow
  <1>2. cpu[c] \in LookupRuns /\ cpu[c].pc = "egress" BY RunOfPc DEF EgressDecide, Inv, Types
  <1>3. f \in Packets /\ cpu[c].pc # "mark" BY <1>2, RunKinds
  <1>4. c \in Steering(flow_key(f)) BY <1>2 DEF Inv, Steered, SteeredRun
  <1>5. k \in Keyed /\ (k \in FlowKeys => c \in Steering(k)) BY <1>3, <1>4, FlowKey, KeysApart
  <1>6. \/ ToUpsert(c, k, "POLICY_DENY")
        \/ Leave(c) /\ UNCHANGED <<metrics, queued>>
    BY DEF EgressDecide
  <1> HIDE DEF f, k
  <1>7. CASE ToUpsert(c, k, "POLICY_DENY")
    <2> DEFINE r == [pc |-> "upsert", flow |-> k, count |-> NextCount(k), why |-> "POLICY_DENY"]
    <2>1. r \in Runs /\ Sound(c, r) BY <1>5, UpsertOK DEF Whys
    <2>2. Enter(c, r) /\ UNCHANGED <<metrics, queued>> BY <1>7 DEF ToUpsert
    <2> HIDE DEF r
    <2> QED BY <1>1, <1>3, <2>1, <2>2, DecideInv
  <1>8. CASE Leave(c) /\ UNCHANGED <<metrics, queued>>
    <2>1. Enter(c, Idle) /\ Idle \in Runs /\ Sound(c, Idle)
      BY <1>8, IdleSound, RunKinds DEF Leave, Enter
    <2> QED BY <1>1, <1>3, <1>8, <2>1, DecideInv
  <1> QED BY <1>6, <1>7, <1>8

-----------------------------------------------------------------------------
(* The updates *)

\* The LRU never gives up the key it makes room for.
LEMMA VictimsOK ==
    ASSUME NEW D, IsFiniteSet(D), NEW cap \in Nat \ {0}, Cardinality(D) <= cap, NEW k,
           NEW out \in Victims(D, cap, k)
    PROVE  /\ out \subseteq D /\ k \notin out
           /\ IsFiniteSet((D \ out) \union {k}) /\ Cardinality((D \ out) \union {k}) <= cap
  <1>1. Cardinality(D) \in Nat BY FS_CardinalityType
  <1>2. CASE k \in D
    <2>1. out = {} BY <1>2 DEF Victims
    <2>2. (D \ out) \union {k} = D BY <1>2, <2>1
    <2> QED BY <2>1, <2>2
  <1>3. CASE k \notin D /\ Cardinality(D) < cap
    <2>1. out = {} BY <1>3 DEF Victims
    <2>2. (D \ out) \union {k} = D \union {k} BY <2>1
    <2>3. IsFiniteSet(D \union {k}) /\ Cardinality(D \union {k}) = Cardinality(D) + 1 BY <1>3, FS_AddElement
    <2>4. Cardinality(D \union {k}) <= cap BY <1>1, <1>3, <2>3
    <2> QED BY <2>1, <2>2, <2>3, <2>4
  <1>4. CASE k \notin D /\ ~(Cardinality(D) < cap)
    <2>1. PICK v \in D : out = {v} BY <1>4 DEF Victims
    <2>2. IsFiniteSet(D \ {v}) /\ Cardinality(D \ {v}) = Cardinality(D) - 1 BY FS_RemoveElement
    <2> DEFINE E == D \ {v}
    <2>3. k \notin E BY <1>4
    <2>4. IsFiniteSet(E) /\ Cardinality(E) = Cardinality(D) - 1 BY <2>2
    <2> HIDE DEF E
    <2>5. IsFiniteSet(E \union {k}) /\ Cardinality(E \union {k}) = Cardinality(E) + 1
      BY <2>3, <2>4, FS_AddElement
    <2>6. Cardinality(E \union {k}) <= cap BY <1>1, <2>4, <2>5
    <2> QED BY <1>4, <2>1, <2>5, <2>6 DEF E
  <1> QED BY <1>2, <1>3, <1>4

LEMMA OneCpuOnly ==
    ASSUME NEW k \in FlowKeys, OneCpu(k), NEW c \in Steering(k), NEW d \in Steering(k)
    PROVE  c = d
  <1>1. IsFiniteSet(Steering(k)) BY KeysApart
  <1>2. PICK x : Steering(k) = {x} BY <1>1, FS_Singleton DEF OneCpu
  <1> QED BY <1>2

\* The metric and the event that end both updates.
LEMMA EmitAndLeave ==
    ASSUME Inv, NEW c \in CPUs, NEW m \in {"DENIED", "ALLOWED"}, CountAndEmit(m), Leave(c),
           UNCHANGED <<consumed, counted>>
    PROVE  /\ EventsConserved' /\ metrics' \in Metrics /\ queued' \in 0..RingSize
           /\ cpu' \in [CPUs -> Runs] /\ cpu'[c] = Idle /\ \A d \in CPUs \ {c} : cpu'[d] = cpu[d]
           /\ Steered'
  <1>1. /\ metrics' \in Metrics /\ queued' \in 0..RingSize
        /\ queued' + metrics'.RINGBUF_DROPPED = queued + metrics.RINGBUF_DROPPED + 1
        /\ metrics'.DENIED + metrics'.ALLOWED + metrics'.REDIRECTED
             = metrics.DENIED + metrics.ALLOWED + metrics.REDIRECTED + 1
    BY Emits DEF Inv
  <1>2. EventsConserved' BY <1>1, Conserved DEF Inv
  <1>3. cpu' \in [CPUs -> Runs] /\ cpu'[c] = Idle /\ \A d \in CPUs \ {c} : cpu'[d] = cpu[d]
    BY LeaveOK DEF Inv
  <1>4. Steered' BY <1>3, IdleSound DEF Inv, Steered, Sound
  <1> QED BY <1>1, <1>2, <1>3, <1>4

LEMMA UpsertInv ==
    ASSUME Inv, NEW c \in CPUs, Upsert(c)
    PROVE  Inv'
  <1> DEFINE k == cpu[c].flow
             n == cpu[c].count
  <1>1. CountAndEmit("DENIED") /\ Leave(c) /\ UNCHANGED <<seen, consumed, firsts, counted>> BY DEF Upsert
  <1>2. /\ EventsConserved' /\ metrics' \in Metrics /\ queued' \in 0..RingSize
        /\ cpu' \in [CPUs -> Runs] /\ cpu'[c] = Idle /\ \A d \in CPUs \ {c} : cpu'[d] = cpu[d]
        /\ Steered'
    BY <1>1, EmitAndLeave
  <1>3. cpu[c].pc = "upsert" /\ cpu[c] \in UpsertRuns BY RunOfPc DEF Upsert, Inv, Types
  <1>4. k \in Keyed /\ n \in Nat \ {0} BY <1>3, RunKinds
  <1>5. PICK out \in Victims(DOMAIN denied, DeniedCap, k) :
          /\ denied' = [j \in (DOMAIN denied \ out) \union {k} |->
                          IF j = k THEN [count |-> n, reason |-> cpu[c].why] ELSE denied[j]]
          /\ evicted' = evicted \union out
          /\ drops' = [drops EXCEPT ![k] = @ + 1]
    BY DEF Upsert
  <1>6. n <= drops[k] + 1 /\ (k \in FlowKeys => c \in Steering(k))
    BY <1>3 DEF Inv, Counts, Steered, SteeredRun
  <1>7. OneCpu(k) /\ k \notin evicted => n = drops[k] + 1 BY <1>3 DEF Inv, ExactCounts, OneCpu
  <1> HIDE DEF k, n
  <1>8. /\ out \subseteq DOMAIN denied /\ k \notin out
        /\ IsFiniteSet((DOMAIN denied \ out) \union {k})
        /\ Cardinality((DOMAIN denied \ out) \union {k}) <= DeniedCap
    <2>1. DeniedCap \in Nat \ {0} BY AccountingAssumption
    <2>2. IsFiniteSet(DOMAIN denied) /\ Cardinality(DOMAIN denied) <= DeniedCap BY DEF Inv, Fits
    <2> QED BY <2>1, <2>2, VictimsOK
  <1>9. /\ DOMAIN denied' = (DOMAIN denied \ out) \union {k} /\ denied'[k].count = n
        /\ \A j \in DOMAIN denied' \ {k} : denied'[j] = denied[j]
    BY <1>5
  <1>10. /\ drops \in [Keyed -> Nat] /\ drops' \in [Keyed -> Nat] /\ drops'[k] = drops[k] + 1
         /\ \A j \in Keyed \ {k} : drops'[j] = drops[j]
    BY <1>4, <1>5 DEF Inv, Types
  <1>11. Types'
    <2>1. DOMAIN denied' \subseteq Keyed /\ evicted' \subseteq Keyed
      BY <1>4, <1>5, <1>8, <1>9 DEF Inv, Types
    <2>2. \A j \in DOMAIN denied' : denied'[j].count \in Nat \ {0}
      BY <1>4, <1>9 DEF Inv, Types
    <2> QED BY <1>1, <1>2, <1>10, <2>1, <2>2 DEF Inv, Types
  <1>12. Fits' BY <1>1, <1>8, <1>9 DEF Inv, Fits
  <1>13. Counts'
    <2>1. ASSUME NEW j \in DOMAIN denied' PROVE denied'[j].count <= drops'[j]
      BY <1>6, <1>9, <1>10 DEF Inv, Counts, Types
    <2>2. ASSUME NEW d \in CPUs, cpu'[d].pc = "upsert" PROVE cpu'[d].count <= drops'[cpu'[d].flow] + 1
      <3>1. d # c /\ cpu'[d] = cpu[d] /\ cpu[d] \in UpsertRuns
        BY <1>2, <2>2, RunKinds, RunOfPc DEF Inv, Types
      <3>2. cpu[d].flow \in Keyed /\ cpu[d].count \in Nat /\ cpu[d].count <= drops[cpu[d].flow] + 1
        BY <2>2, <3>1, RunKinds DEF Inv, Counts
      <3>3. drops[cpu[d].flow] <= drops'[cpu[d].flow] /\ drops[cpu[d].flow] \in Nat /\ drops'[cpu[d].flow] \in Nat
        BY <1>10, <3>2
      <3> QED BY <3>1, <3>2, <3>3
    <2> QED BY <2>1, <2>2 DEF Counts
  <1>14. ExactCounts'
    <2> SUFFICES ASSUME NEW j \in FlowKeys, OneCpu(j), j \notin evicted'
                 PROVE  /\ j \in DOMAIN denied' => denied'[j].count = drops'[j]
                        /\ j \notin DOMAIN denied' => drops'[j] = 0
                        /\ \A d \in CPUs : cpu'[d].pc = "upsert" /\ cpu'[d].flow = j
                                           => cpu'[d].count = drops'[j] + 1
      BY DEF ExactCounts, OneCpu
    <2>1. j \notin evicted /\ j \notin out /\ j \in Keyed BY <1>5, KeysApart
    <2>2. CASE j = k
      <3>1. ASSUME NEW d \in CPUs, cpu'[d].pc = "upsert", cpu'[d].flow = k PROVE FALSE
        <4>1. d # c /\ cpu'[d] = cpu[d] BY <1>2, <3>1, RunKinds
        <4>2. d \in Steering(k) BY <2>2, <3>1, <4>1 DEF Inv, Steered, SteeredRun
        <4> QED BY <1>6, <2>2, <4>1, <4>2, OneCpuOnly
      <3> QED BY <1>7, <1>9, <1>10, <2>1, <2>2, <3>1
    <2>3. CASE j # k
      <3>1. j \in DOMAIN denied' <=> j \in DOMAIN denied BY <1>9, <2>1, <2>3
      <3>2. drops'[j] = drops[j] BY <1>10, <2>1, <2>3
      <3>3. ASSUME NEW d \in CPUs, cpu'[d].pc = "upsert", cpu'[d].flow = j
            PROVE  cpu'[d] = cpu[d]
        BY <1>2, <3>3, RunKinds
      <3> QED BY <1>9, <2>1, <2>3, <3>1, <3>2, <3>3 DEF Inv, ExactCounts
    <2> QED BY <2>2, <2>3
  <1>15. Firsts'
    <2>1. \A j : Marking(j)' = Marking(j) BY <1>2, <1>3, RunKinds DEF Marking
    <2> QED BY <1>1, <2>1 DEF Inv, Firsts
  <1> QED BY <1>2, <1>11, <1>12, <1>13, <1>14, <1>15 DEF Inv

LEMMA MarkInv ==
    ASSUME Inv, NEW c \in CPUs, Mark(c)
    PROVE  Inv'
  <1>1. CountAndEmit("ALLOWED") /\ Leave(c) /\ UNCHANGED <<denied, consumed, drops, evicted, counted>>
    BY DEF Mark
  <1>2. /\ EventsConserved' /\ metrics' \in Metrics /\ queued' \in 0..RingSize
        /\ cpu' \in [CPUs -> Runs] /\ cpu'[c] = Idle /\ \A d \in CPUs \ {c} : cpu'[d] = cpu[d]
        /\ Steered'
    BY <1>1, EmitAndLeave
  <1>3. cpu[c].pc = "mark" /\ cpu[c] \in MarkRuns BY RunOfPc DEF Mark, Inv, Types
  <1>4. PICK k \in FlowKeys : k = cpu[c].flow BY <1>3, RunKinds
  <1>5. PICK out \in Victims(seen, SeenCap, k) :
          /\ seen' = (seen \ out) \union {k}
          /\ firsts' = [j \in FlowKeys |-> IF j \in out THEN 0
                                          ELSE IF j = k THEN firsts[j] + 1 ELSE firsts[j]]
    BY <1>4 DEF Mark
  <1>6. c \in Marking(k) BY <1>3, <1>4 DEF Marking
  <1>7. \A j \in FlowKeys : Marking(j) \subseteq Steering(j) BY DEF Marking, Inv, Steered, SteeredRun
  <1>8. Marking(k)' = Marking(k) \ {c} /\ \A j \in FlowKeys \ {k} : Marking(j)' = Marking(j)
    <2>1. Marking(k)' = Marking(k) \ {c} BY <1>2, <1>3, <1>4, RunKinds DEF Marking
    <2>2. ASSUME NEW j \in FlowKeys \ {k} PROVE Marking(j)' = Marking(j)
      BY <1>2, <1>3, <1>4, RunKinds DEF Marking
    <2> QED BY <2>1, <2>2
  <1>9. /\ out \subseteq seen /\ k \notin out
        /\ IsFiniteSet((seen \ out) \union {k}) /\ Cardinality((seen \ out) \union {k}) <= SeenCap
    <2>1. SeenCap \in Nat \ {0} BY AccountingAssumption
    <2>2. IsFiniteSet(seen) /\ Cardinality(seen) <= SeenCap BY DEF Inv, Fits
    <2> QED BY <2>1, <2>2, VictimsOK
  <1>10. firsts \in [FlowKeys -> Nat] /\ seen \subseteq FlowKeys BY DEF Inv, Types
  <1>11. firsts' \in [FlowKeys -> Nat] /\ seen' \subseteq FlowKeys BY <1>4, <1>5, <1>10
  <1>12. Types' BY <1>1, <1>2, <1>11 DEF Inv, Types
  <1>13. Fits' BY <1>1, <1>5, <1>9 DEF Inv, Fits
  <1>14. Counts' BY <1>1, <1>2, RunKinds DEF Inv, Counts
  <1>15. ExactCounts'
    <2> SUFFICES ASSUME NEW j \in FlowKeys, OneCpu(j), j \notin evicted
                 PROVE  /\ j \in DOMAIN denied => denied[j].count = drops[j]
                        /\ j \notin DOMAIN denied => drops[j] = 0
                        /\ \A d \in CPUs : cpu'[d].pc = "upsert" /\ cpu'[d].flow = j
                                           => cpu'[d].count = drops[j] + 1
      BY <1>1 DEF ExactCounts, OneCpu
    <2> QED BY <1>2, RunKinds DEF Inv, ExactCounts
  <1>16. Firsts'
    <2> SUFFICES ASSUME NEW j \in FlowKeys
                 PROVE  /\ j \notin seen' => firsts'[j] = 0
                        /\ j \in seen' => /\ firsts'[j] >= 1
                                          /\ firsts'[j] + Cardinality(Marking(j)') <= Cardinality(Steering(j))
      BY DEF Firsts
    <2>1. CASE j = k
      <3>1. IsFiniteSet(Steering(k)) BY <1>4, KeysApart
      <3>2. /\ IsFiniteSet(Marking(k)) /\ Cardinality(Marking(k)) <= Cardinality(Steering(k))
        BY <1>4, <1>7, <3>1, FS_Subset
      <3>3. Cardinality(Marking(k) \ {c}) = Cardinality(Marking(k)) - 1 BY <1>6, <3>2, FS_RemoveElement
      <3>4. Cardinality(Marking(k)) \in Nat /\ Cardinality(Steering(k)) \in Nat
        BY <3>1, <3>2, FS_CardinalityType
      <3>5. firsts'[k] = firsts[k] + 1 /\ firsts[k] \in Nat /\ k \in seen' BY <1>4, <1>5, <1>9, <1>10
      <3>6. Cardinality(Marking(k)') = Cardinality(Marking(k)) - 1 BY <1>8, <3>3
      <3>7. firsts[k] + Cardinality(Marking(k)) <= Cardinality(Steering(k))
        <4>1. CASE k \in seen BY <1>4, <4>1 DEF Inv, Firsts
        <4>2. CASE k \notin seen
          <5>1. firsts[k] = 0 BY <1>4, <4>2 DEF Inv, Firsts
          <5> QED BY <3>2, <3>4, <5>1
        <4> QED BY <4>1, <4>2
      <3> QED BY <2>1, <3>4, <3>5, <3>6, <3>7
    <2>2. CASE j # k /\ j \in out
      BY <1>5, <2>2
    <2>3. CASE j # k /\ j \notin out
      <3>1. firsts'[j] = firsts[j] /\ (j \in seen' <=> j \in seen) BY <1>5, <2>3
      <3>2. Marking(j)' = Marking(j) BY <1>8, <2>3
      <3> QED BY <3>1, <3>2 DEF Inv, Firsts
    <2> QED BY <2>1, <2>2, <2>3
  <1> QED BY <1>2, <1>12, <1>13, <1>14, <1>15, <1>16 DEF Inv

-----------------------------------------------------------------------------
(* The counter program, the agent, and the theorems *)

\* Nothing but the ring and the metrics changes.
LEMMA RingOnly ==
    ASSUME Inv, UNCHANGED <<denied, seen, cpu, drops, firsts, evicted>>
    PROVE  Fits' /\ Steered' /\ Counts' /\ ExactCounts' /\ Firsts'
  <1>1. Fits' /\ Steered' /\ Counts' BY DEF Inv, Fits, Steered, SteeredRun, Counts
  <1>2. ExactCounts' BY DEF Inv, ExactCounts, OneCpu
  <1>3. Firsts'
    <2>1. \A k : Marking(k)' = Marking(k) BY DEF Marking
    <2> QED BY <2>1 DEF Inv, Firsts
  <1> QED BY <1>1, <1>2, <1>3

LEMMA RingSum ==
    ASSUME NEW x \in Metrics, NEW y \in Metrics, NEW q \in Nat, NEW q1 \in Nat,
           NEW read \in Nat, NEW other \in Nat,
           q + read + x.RINGBUF_DROPPED = x.DENIED + x.ALLOWED + x.REDIRECTED + other,
           q1 + y.RINGBUF_DROPPED = q + x.RINGBUF_DROPPED + 1,
           y.DENIED + y.ALLOWED + y.REDIRECTED = x.DENIED + x.ALLOWED + x.REDIRECTED
    PROVE  q1 + read + y.RINGBUF_DROPPED = y.DENIED + y.ALLOWED + y.REDIRECTED + (other + 1)
  <1>1. /\ x.RINGBUF_DROPPED \in Nat /\ y.RINGBUF_DROPPED \in Nat
        /\ x.DENIED \in Nat /\ x.ALLOWED \in Nat /\ x.REDIRECTED \in Nat
        /\ y.DENIED \in Nat /\ y.ALLOWED \in Nat /\ y.REDIRECTED \in Nat
    BY DEF Metrics
  <1>2. q1 + read + y.RINGBUF_DROPPED = q + read + x.RINGBUF_DROPPED + 1 BY <1>1
  <1> QED BY <1>1, <1>2

LEMMA UnparsedInv ==
    ASSUME Inv, Unparsed
    PROVE  Inv'
  <1>1. /\ metrics' = [metrics EXCEPT !.PACKETS = @ + 1]
        /\ UNCHANGED <<queued, consumed, counted>>
        /\ UNCHANGED <<denied, seen, cpu, drops, firsts, evicted>>
    BY DEF Unparsed, history
  <1>2. metrics \in Metrics BY DEF Inv, Types
  <1>3. /\ metrics' \in Metrics /\ metrics'.RINGBUF_DROPPED = metrics.RINGBUF_DROPPED
        /\ metrics'.DENIED = metrics.DENIED /\ metrics'.ALLOWED = metrics.ALLOWED
        /\ metrics'.REDIRECTED = metrics.REDIRECTED
    BY <1>1, <1>2 DEF Metrics
  <1>4. EventsConserved' BY <1>1, <1>3 DEF Inv, EventsConserved
  <1>5. Types' BY <1>1, <1>3 DEF Inv, Types
  <1> QED BY <1>1, <1>4, <1>5, RingOnly DEF Inv

LEMMA CounterInv ==
    ASSUME Inv, Counter
    PROVE  Inv'
  <1>1. /\ CountAndEmit("PACKETS") /\ counted' = counted + 1 /\ consumed' = consumed
        /\ UNCHANGED <<denied, seen, cpu, drops, firsts, evicted>>
    BY DEF Counter
  <1>2. Fits' /\ Steered' /\ Counts' /\ ExactCounts' /\ Firsts' BY <1>1, RingOnly
  <1>3. /\ metrics' \in Metrics /\ queued' \in 0..RingSize
        /\ queued' + metrics'.RINGBUF_DROPPED = queued + metrics.RINGBUF_DROPPED + 1
        /\ metrics'.DENIED + metrics'.ALLOWED + metrics'.REDIRECTED
             = metrics.DENIED + metrics.ALLOWED + metrics.REDIRECTED + 0
    BY <1>1, Emits DEF Inv
  <1>4. /\ metrics \in Metrics /\ queued \in Nat /\ queued' \in Nat /\ consumed \in Nat /\ counted \in Nat
    BY <1>3, AccountingAssumption DEF Inv, Types
  <1>5. metrics'.DENIED + metrics'.ALLOWED + metrics'.REDIRECTED
             = metrics.DENIED + metrics.ALLOWED + metrics.REDIRECTED
    <2>1. metrics.DENIED \in Nat /\ metrics.ALLOWED \in Nat /\ metrics.REDIRECTED \in Nat
      BY <1>4 DEF Metrics
    <2> QED BY <1>3, <2>1
  <1>6. EventsConserved' BY <1>1, <1>3, <1>4, <1>5, RingSum DEF Inv, EventsConserved
  <1>7. Types' BY <1>1, <1>3, <1>4 DEF Inv, Types
  <1> QED BY <1>2, <1>6, <1>7 DEF Inv

LEMMA ConsumeInv ==
    ASSUME Inv, Consume
    PROVE  Inv'
  <1>1. /\ queued > 0 /\ queued' = queued - 1 /\ consumed' = consumed + 1
        /\ UNCHANGED <<denied, seen, cpu, drops, firsts, evicted>>
        /\ metrics' = metrics /\ counted' = counted
    BY DEF Consume, history
  <1>2. Fits' /\ Steered' /\ Counts' /\ ExactCounts' /\ Firsts' BY <1>1, RingOnly
  <1>3. /\ metrics \in Metrics /\ queued \in Nat /\ queued <= RingSize /\ consumed \in Nat /\ RingSize \in Nat
    BY AccountingAssumption DEF Inv, Types
  <1>4. metrics.RINGBUF_DROPPED \in Nat BY <1>3 DEF Metrics
  <1>5. queued' + consumed' + metrics.RINGBUF_DROPPED = queued + consumed + metrics.RINGBUF_DROPPED
    BY <1>1, <1>3, <1>4
  <1>6. EventsConserved' BY <1>1, <1>5 DEF Inv, EventsConserved
  <1>7. queued' \in 0..RingSize /\ consumed' \in Nat BY <1>1, <1>3
  <1>8. Types' BY <1>1, <1>7 DEF Inv, Types
  <1> QED BY <1>2, <1>6, <1>8 DEF Inv

LEMMA InitInv == Init => Inv
  <1> SUFFICES ASSUME Init PROVE Inv OBVIOUS
  <1> USE DEF Init
  <1>1. DOMAIN denied = {} OBVIOUS
  <1>2. \A c \in CPUs : cpu[c] = Idle /\ cpu[c].pc = "idle" BY DEF Idle
  <1>3. Types BY <1>1, RunKinds, AccountingAssumption DEF Types, Metrics
  <1>4. Fits BY <1>1, FS_EmptySet, AccountingAssumption DEF Fits
  <1>5. Steered /\ Counts BY <1>1, <1>2 DEF Steered, SteeredRun, Counts
  <1>6. ExactCounts BY <1>1, <1>2, KeysApart DEF ExactCounts
  <1>7. Firsts BY DEF Firsts
  <1>8. EventsConserved BY DEF EventsConserved
  <1> QED BY <1>3, <1>4, <1>5, <1>6, <1>7, <1>8 DEF Inv

LEMMA NextInv == Inv /\ [Next]_vars => Inv'
  <1> SUFFICES ASSUME Inv, [Next]_vars PROVE Inv' OBVIOUS
  <1>1. CASE UNCHANGED vars
    <2>1. UNCHANGED <<denied, seen, cpu, drops, firsts, evicted>> BY <1>1 DEF vars
    <2>2. metrics' = metrics /\ queued' = queued /\ consumed' = consumed /\ counted' = counted
      BY <1>1 DEF vars
    <2>3. EventsConserved' BY <2>2 DEF Inv, EventsConserved
    <2>4. Types' BY <2>1, <2>2 DEF Inv, Types
    <2> QED BY <2>1, <2>3, <2>4, RingOnly DEF Inv
  <1> QED
    BY <1>1, IngressArriveInv, EgressArriveInv, IngressDecideInv, EgressDecideInv,
       UpsertInv, MarkInv, UnparsedInv, CounterInv, ConsumeInv DEF Next

LEMMA Invariance == Spec => []Inv
  BY InitInv, NextInv, PTL DEF Spec

\* The flow maps stay within their sizes and the ring within its own.
THEOREM RecordsFit == Spec => []TypeOK
  <1>1. Inv => TypeOK BY DEF Inv, Types, Fits, TypeOK
  <1> QED BY Invariance, <1>1, PTL

\* emit_flow_event: no verdict is counted without an event read, waiting or
\* counted as lost, on any number of CPUs.
THEOREM NoEventLost == Spec => []EventsConserved
  <1>1. Inv => EventsConserved BY DEF Inv
  <1> QED BY Invariance, <1>1, PTL

\* denied_flow_upsert: racing CPUs can lose drops of a flow and never invent
\* one, and a flow that one CPU handles is counted exactly.
THEOREM HonestCounts == Spec => []DenyCountHonest
  <1>1. ASSUME Inv PROVE DenyCountHonest
    BY <1>1 DEF Inv, Counts, ExactCounts, OneCpu, DenyCountHonest
  <1> QED BY Invariance, <1>1, PTL

\* udp_first_sight: at most one report per receiving CPU while the flow is in
\* the map.
THEOREM FirstSights == Spec => []FirstSightBounded
  <1>1. ASSUME Inv, NEW k \in seen PROVE firsts[k] \in 1..Cardinality(Steering(k))
    <2>1. k \in FlowKeys /\ firsts[k] \in Nat /\ firsts[k] >= 1
          /\ firsts[k] + Cardinality(Marking(k)) <= Cardinality(Steering(k))
      BY <1>1 DEF Inv, Types, Firsts
    <2>2. IsFiniteSet(Steering(k)) /\ Marking(k) \subseteq Steering(k)
      BY <1>1, <2>1, KeysApart DEF Inv, Steered, SteeredRun, Marking
    <2>3. Cardinality(Marking(k)) \in Nat /\ Cardinality(Steering(k)) \in Nat
      BY <2>2, FS_Subset, FS_CardinalityType
    <2> QED BY <2>1, <2>3
  <1>2. Inv => FirstSightBounded BY <1>1 DEF FirstSightBounded
  <1> QED BY Invariance, <1>2, PTL
=============================================================================
