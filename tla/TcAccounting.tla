---------------------------- MODULE TcAccounting -----------------------------
(***************************************************************************)
(* The tc programs of one node on several CPUs at once, on traffic that is *)
(* not tunnelled, and the record they leave: denied_flows_map,             *)
(* udp_seen_flows_map, metrics_map and the flow_events ring that the agent *)
(* drains.  A program run is split where another CPU or the agent can come *)
(* between a look-up and the step that uses it: identities, then verdict,  *)
(* then the update of the map whose element was read.  The counter program *)
(* shares the ring and the metrics and keeps no flow.                      *)
(*                                                                         *)
(* The agent rewrites the maps while the programs run (Datapath.tla has    *)
(* the order of its writes), so a look-up sees any map the agent may have  *)
(* written by then, and two look-ups of one program run may see two.       *)
(* metrics_map is per CPU and only added to, so its sum over the CPUs is   *)
(* kept.  Both flow maps are LRU hash maps: inserting into a full one      *)
(* evicts some other element.                                              *)
(***************************************************************************)
EXTENDS Verdict, FiniteSets

CONSTANTS CPUs, Packets,  \* Packets: what arrives
          Steering(_),    \* for each flow_key, the CPUs that may receive it
          NoFlow,         \* the all-zero flow_key
          IdentityMaps, PolicyMaps,   \* what the agent may have written
          DeniedCap,      \* bound: max_entries of denied_flows_map
          SeenCap,        \* bound: max_entries of udp_seen_flows_map
          RingSize,       \* bound: events the ring holds
          MaxArrivals     \* bound: packets that arrive

ASSUME AccountingAssumption ==
    /\ Packets \subseteq Flows
    /\ \A f \in Packets : f.l4 \/ f.port = 0
    /\ \A f \in Packets : LET k == <<f.src, f.dst, f.port, f.proto>>
                          IN k # NoFlow /\ IsFiniteSet(Steering(k))
    /\ IdentityMaps \subseteq IdentityMap /\ PolicyMaps \subseteq PolicyMap
    /\ DeniedCap \in Nat \ {0} /\ SeenCap \in Nat \ {0}
    /\ RingSize \in Nat /\ MaxArrivals \in Nat

VARIABLES
    denied,      \* denied_flows_map: flow -> [count, reason], on its domain
    seen,        \* udp_seen_flows_map
    metrics,     \* metrics_map
    queued,      \* events in the ring
    consumed,    \* events the agent has read
    cpu,         \* the program run each CPU is in
    drops,       \* history: drops of each flow so far
    firsts,      \* history: first sights of each UDP flow while it is in seen
    evicted,     \* history: flows that lost their deny_info to eviction
    counted,     \* history: packets the counter program has reported
    arrived      \* packets that have arrived, for the bound

history == <<drops, firsts, evicted, counted>>
vars    == <<denied, seen, metrics, queued, consumed, cpu,
             drops, firsts, evicted, counted, arrived>>

\* struct flow_key; the source port tells no two flows of the model apart.
flow_key(f) == <<f.src, f.dst, f.port, f.proto>>

FlowKeys == {flow_key(f) : f \in Packets}
Keyed    == FlowKeys \union {NoFlow}

Idle == [pc |-> "idle"]

Init ==
    /\ denied = << >> /\ seen = {}
    /\ metrics = [PACKETS |-> 0, DENIED |-> 0, ALLOWED |-> 0, REDIRECTED |-> 0,
                  RINGBUF_DROPPED |-> 0]
    /\ queued = 0 /\ consumed = 0
    /\ cpu = [c \in CPUs |-> Idle]
    /\ drops = [k \in Keyed |-> 0] /\ firsts = [k \in FlowKeys |-> 0] /\ evicted = {}
    /\ counted = 0 /\ arrived = 0

Leave(c) == cpu' = [cpu EXCEPT ![c] = Idle]
Enter(c, run) == cpu' = [cpu EXCEPT ![c] = run]

-----------------------------------------------------------------------------
\* emit_flow_event and the counter it belongs to; a full ring loses the event.

\* Fault: a full ring goes unnoticed.
CountAndForget(m) ==
    /\ queued' = IF queued < RingSize THEN queued + 1 ELSE queued
    /\ metrics' = [metrics EXCEPT ![m] = @ + 1]

CountAndEmit(m) ==
    IF queued < RingSize
    THEN queued' = queued + 1 /\ metrics' = [metrics EXCEPT ![m] = @ + 1]
    ELSE /\ UNCHANGED queued
         /\ metrics' = [metrics EXCEPT ![m] = @ + 1, !.RINGBUF_DROPPED = @ + 1]

Consume ==
    /\ queued > 0 /\ queued' = queued - 1 /\ consumed' = consumed + 1
    /\ UNCHANGED <<denied, seen, metrics, cpu, history, arrived>>

-----------------------------------------------------------------------------
\* A packet arrives: the identities of both ends are read.

Arrives == arrived < MaxArrivals /\ arrived' = arrived + 1

Lookups(pc, f, m1, m2) == [pc |-> pc, flow |-> f, src |-> m1[f.src], dst |-> m2[f.dst]]

\* Ports that cannot be read end tc_ingress before any verdict.
IngressArrive(c, f) ==
    /\ cpu[c] = Idle /\ Arrives /\ c \in Steering(flow_key(f))
    /\ metrics' = [metrics EXCEPT !.PACKETS = @ + 1]
    /\ IF f.l4
       THEN \E m1, m2 \in IdentityMaps : Enter(c, Lookups("ingress", f, m1, m2))
       ELSE UNCHANGED cpu
    /\ UNCHANGED <<denied, seen, queued, consumed, history>>

\* A frame that is not IPv4, is cut short or cannot be pulled is counted and passes:
\* the early returns of tc_ingress and of the counter program.
Unparsed ==
    /\ Arrives /\ metrics' = [metrics EXCEPT !.PACKETS = @ + 1]
    /\ UNCHANGED <<denied, seen, queued, consumed, cpu, history>>

\* meridian_counter: an event for every IPv4 packet, none of the verdict counters.
Counter ==
    /\ Arrives /\ CountAndEmit("PACKETS")
    /\ counted' = counted + 1
    /\ UNCHANGED <<denied, seen, consumed, cpu, drops, firsts, evicted>>

\* tc_egress counts no packets and lets an unknown source pass.
EgressArrive(c, f) ==
    /\ cpu[c] = Idle /\ Arrives /\ c \in Steering(flow_key(f))
    /\ \E m1, m2 \in IdentityMaps :
          IF m1[f.src] = Unknown THEN UNCHANGED cpu ELSE Enter(c, Lookups("egress", f, m1, m2))
    /\ UNCHANGED <<denied, seen, metrics, queued, consumed, history>>

-----------------------------------------------------------------------------
\* The verdict, and the look-up in the flow map that it leads to.

\* Fault: the count starts over at every drop.
CountRestarts(k) == 1

\* Fault: a new record counts the drops before this one.
CountFromZero(k) == IF k \in DOMAIN denied THEN denied[k].count + 1 ELSE 0

\* denied_flow_upsert, first half.
NextCount(k) == IF k \in DOMAIN denied THEN denied[k].count + 1 ELSE 1

ToUpsert(c, k, why) ==
    /\ Enter(c, [pc |-> "upsert", flow |-> k, count |-> NextCount(k), why |-> why])
    /\ UNCHANGED <<metrics, queued>>

\* Fault: a flow is reported with each of its packets.
EveryUdp(f) == f.proto = "udp"

\* udp_first_sight, first half.
UnseenUdp(f) == f.proto = "udp" /\ flow_key(f) \notin seen

IngressDecide(c) ==
    /\ cpu[c].pc = "ingress"
    /\ \E policy \in PolicyMaps, failopen \in BOOLEAN :
       LET r == cpu[c]  f == r.flow
           d == enforce_flow(policy, failopen, r.src, r.dst, f, "SHOT")
       IN CASE d.act # "OK" -> ToUpsert(c, flow_key(f), d.why)
            [] d.why = "ALLOW" /\ f.proto = "tcp" /\ f.syn -> Leave(c) /\ CountAndEmit("ALLOWED")
            [] d.why = "ALLOW" /\ UnseenUdp(f) ->
                   Enter(c, [pc |-> "mark", flow |-> flow_key(f)]) /\ UNCHANGED <<metrics, queued>>
            [] d.why = "REDIRECT" -> Leave(c) /\ CountAndEmit("REDIRECTED")
            [] OTHER -> Leave(c) /\ UNCHANGED <<metrics, queued>>
    /\ UNCHANGED <<denied, seen, consumed, history, arrived>>

\* Without ports the flow_key of the record stays all zero.
EgressDecide(c) ==
    /\ cpu[c].pc = "egress"
    /\ \E policy \in PolicyMaps : LET r == cpu[c] IN
       IF EgressDenies(policy, r.src, r.dst, r.flow)
       THEN ToUpsert(c, IF r.flow.l4 THEN flow_key(r.flow) ELSE NoFlow, "POLICY_DENY")
       ELSE Leave(c) /\ UNCHANGED <<metrics, queued>>
    /\ UNCHANGED <<denied, seen, consumed, history, arrived>>

-----------------------------------------------------------------------------
\* The update.  victims: what the LRU gives up to make room for key k.

Victims(domain, cap, k) ==
    IF k \in domain \/ Cardinality(domain) < cap THEN {{}} ELSE {{v} : v \in domain}

\* denied_flow_upsert, second half, then the metric and the event.
Upsert(c) ==
    /\ cpu[c].pc = "upsert"
    /\ LET r == cpu[c]  k == r.flow IN
       \E out \in Victims(DOMAIN denied, DeniedCap, k) :
          /\ denied' = [j \in (DOMAIN denied \ out) \union {k} |->
                          IF j = k THEN [count |-> r.count, reason |-> r.why] ELSE denied[j]]
          /\ evicted' = evicted \union out
          /\ drops' = [drops EXCEPT ![k] = @ + 1]
    /\ CountAndEmit("DENIED") /\ Leave(c)
    /\ UNCHANGED <<seen, consumed, firsts, counted, arrived>>

\* udp_first_sight, second half: insert the marker, count the flow.
Mark(c) ==
    /\ cpu[c].pc = "mark"
    /\ LET k == cpu[c].flow IN
       \E out \in Victims(seen, SeenCap, k) :
          /\ seen' = (seen \ out) \union {k}
          /\ firsts' = [j \in FlowKeys |-> IF j \in out THEN 0
                                          ELSE IF j = k THEN firsts[j] + 1 ELSE firsts[j]]
    /\ CountAndEmit("ALLOWED") /\ Leave(c)
    /\ UNCHANGED <<denied, consumed, drops, evicted, counted, arrived>>

-----------------------------------------------------------------------------

Next ==
    \/ \E c \in CPUs, f \in Packets : IngressArrive(c, f) \/ EgressArrive(c, f)
    \/ \E c \in CPUs : IngressDecide(c) \/ EgressDecide(c) \/ Upsert(c) \/ Mark(c)
    \/ Unparsed \/ Counter \/ Consume

Spec == Init /\ [][Next]_vars

-----------------------------------------------------------------------------
(* Properties *)

Runs == {Idle}
    \union [pc : {"ingress", "egress"}, flow : Packets, src : IDs \union {Unknown}, dst : IDs \union {Unknown}]
    \union [pc : {"upsert"}, flow : Keyed, count : Nat \ {0},
            why : {"UNKNOWN_IDENTITY", "POLICY_MISS", "POLICY_DENY", "INVALID_ACTION"}]
    \union [pc : {"mark"}, flow : FlowKeys]

TypeOK ==
    /\ DOMAIN denied \subseteq Keyed /\ \A k \in DOMAIN denied : denied[k].count \in Nat \ {0}
    /\ Cardinality(DOMAIN denied) <= DeniedCap /\ Cardinality(seen) <= SeenCap
    /\ seen \subseteq FlowKeys /\ queued \in 0..RingSize /\ consumed \in Nat
    /\ cpu \in [CPUs -> Runs]

\* Every verdict that is counted has its event, in the ring, read by the agent,
\* or counted as lost (METRIC_RINGBUF_DROPPED), however the CPUs interleave.
EventsConserved ==
    queued + consumed + metrics.RINGBUF_DROPPED
        = metrics.DENIED + metrics.ALLOWED + metrics.REDIRECTED + counted

\* deny_info.count never claims a drop that did not happen; for a flow that one
\* CPU handles and whose record was never evicted it is the number of drops.
DenyCountHonest ==
    \A k \in DOMAIN denied :
        /\ denied[k].count <= drops[k]
        /\ k \in FlowKeys /\ Cardinality(Steering(k)) = 1 /\ k \notin evicted
              => denied[k].count = drops[k]

\* While a UDP flow stays in udp_seen_flows_map it is reported at most once by
\* each CPU that receives it: once in all when it is steered to one.
FirstSightBounded == \A k \in seen : firsts[k] \in 1..Cardinality(Steering(k))
=============================================================================
