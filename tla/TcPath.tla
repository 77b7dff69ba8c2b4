------------------------------- MODULE TcPath --------------------------------
(***************************************************************************)
(* One Geneve frame from the node it leaves (A, tc_egress on the underlay  *)
(* device) to the node it reaches (B, tc_ingress, then the kernel's Geneve *)
(* device), while the agents of both nodes change maps and posture.  The   *)
(* programs keep no state between frames that a verdict depends on, so a   *)
(* behaviour is the way of one frame, begun with any contents of the maps. *)
(*                                                                         *)
(* A bpf helper may fail; h is the one that does, if any:                  *)
(*   "pull"   bpf_skb_pull_data at the top of a program                    *)
(*   "room"   a helper of insert_inner_tlv_room, the frame still intact    *)
(*   "copy"   one after bpf_skb_change_head has moved the frame            *)
(*   "bump"   bump_udp_geneve_lengths, whose result is ignored             *)
(*   "stamp"  stamp_identity_tlv                                           *)
(*   "strip"  strip_meridian_tlv, whose result is ignored                  *)
(***************************************************************************)
EXTENDS Verdict, Geneve

CONSTANTS Frames,        \* frames the kernel of A hands to tc_egress
          IdentityMaps,  \* contents identity_map may have
          PolicyMaps,    \* contents policy_map may have
          Faults         \* helpers that may fail

Nodes == {"A", "B"}
EgressHelpers  == {"none"} \union (Faults \ {"strip"})
IngressHelpers == {"none"} \union (Faults \intersect {"pull", "strip"})
Option == [mine : BOOLEAN, id : IDs \union {Unknown}, words : Nat \ {0}]

Frame == [l3 : BOOLEAN,                 \* Ethernet or one VLAN tag, then IPv4
          link : {14, 18}, ihl : 5..15,
          base : BOOLEAN,               \* the Geneve header is there, version 0
          fit : BOOLEAN,                \* the options lie inside the buffer
          words : 0..63, opts : Seq(Option),
          pay : {"teb", "raw", "slot", "cut"}, v4 : BOOLEAN,
          mac0 : BOOLEAN, mac8 : BOOLEAN, ttl : BOOLEAN,
          flow : Flows, ghost : Flows,
          sum : {"none", "good", "bad"},   \* the outer UDP checksum
          big : BOOLEAN,                \* more than MERIDIAN_STRIP_MAX_LEN inside
          body : {"whole", "damaged"}]

\* The kernel of A makes frames without a Meridian option; opts lists the
\* options that begin inside the option area.
ASSUME FramesAssumption ==
    /\ Frames \subseteq Frame /\ Frames # {}
    /\ \A f \in Frames : /\ f.body = "whole" /\ f.sum # "bad"
                         /\ f.pay # "cut" /\ f.words <= 61
                         /\ \A i \in DOMAIN f.opts : /\ ~f.opts[i].mine
                                                    /\ Offset(f.opts, i - 1) < f.words
ASSUME MapsAssumption ==
    /\ IdentityMaps \subseteq IdentityMap /\ PolicyMaps \subseteq PolicyMap
    /\ Faults \subseteq {"pull", "room", "copy", "bump", "stamp", "strip"}

VARIABLES
    identity,   \* per node, identity_map
    policy,     \* per node, policy_map
    failopen,   \* per node, MERIDIAN_CFG_FALLOPEN_UNKNOWN of runtime_config_map
    at,         \* where the frame is
    frame,      \* the frame as it is now
    trip        \* what happened to it on the way

maps == <<identity, policy, failopen>>
vars == <<identity, policy, failopen, at, frame, trip>>

\* sent: the frame as the kernel made it; known: what A's identity_map said of
\* the address it came from when tc_egress ran; stamp: the identity A wrote;
\* openA, openB: a posture that let it pass; src, why: what tc_ingress decided
\* on; faults: helpers that failed; end: what became of it.
Departure(f) == [sent |-> f, known |-> Unknown, stamp |-> Unknown, openA |-> FALSE, openB |-> FALSE,
                 src |-> Unknown, why |-> "none", faults |-> {}, end |-> "none"]

Failing(h) == trip.faults \union ({h} \ {"none"})

Init ==
    /\ identity \in [Nodes -> IdentityMaps]
    /\ policy \in [Nodes -> PolicyMaps]
    /\ failopen \in [Nodes -> BOOLEAN]
    /\ at = "egress" /\ frame \in Frames /\ trip = Departure(frame)

-----------------------------------------------------------------------------
(* tc_egress on node A *)

\* The base header, the option length and the option walk are in order.
Framed(f) == /\ f.base /\ f.words <= MaxOptWords /\ f.fit
             /\ \E n \in 0..MaxOpts : parse_geneve_option_count(f, n)

FlowOf(f)     == parse_ipv4_in_geneve_payload(f) # "none"
SrcAt(n, f)   == identity[n][ReadFlow(f).src]
DstAt(n, f)   == identity[n][ReadFlow(f).dst]
Reserved(f)   == parse_ipv4_in_geneve_payload(f) = "at8"

DeniedAtA(f) == EgressDenies(policy["A"], SrcAt("A", f), DstAt("A", f), ReadFlow(f))

\* The gotos to encap_fail, in the order of the code.
EncapFails(f, h) ==
    \/ ~Framed(f)
    \/ /\ FlowOf(f)
       /\ \/ ~ReadFlow(f).l4
          \/ SrcAt("A", f) = Unknown
          \/ /\ ~DeniedAtA(f)
             /\ \/ parse_geneve_option_count(f, MaxOpts)
                \/ ~Reserved(f) /\ (~RoomFits(f) \/ h \in {"room", "copy"})
                \/ h = "stamp"

\* What a helper that failed half-way has done to the frame.
HalfWritten(f, h) ==
    IF EncapFails(f, "none") \/ h = "room" THEN f
    ELSE IF h = "copy" THEN [f EXCEPT !.l3 = FALSE, !.body = "damaged"]
    ELSE IF Reserved(f) /\ f.pay = "slot" THEN f
    ELSE [f EXCEPT !.pay = IF Reserved(f) THEN @ ELSE IF @ = "raw" THEN "slot" ELSE "cut",
                   !.body = "damaged", !.sum = Rewritten(@)]

\* A frame the program cannot read, or whose payload is not IPv4, goes on as it is.
EgressPasses(h) ==
    /\ at = "egress"
    /\ h = "pull" \/ ~frame.l3 \/ (Framed(frame) /\ ~FlowOf(frame))
    /\ at' = "wire" /\ trip' = [trip EXCEPT !.faults = Failing(h)]
    /\ UNCHANGED <<maps, frame>>

\* Fault: a frame that cannot be stamped is always sent on.
EgressAlwaysOpen(h) ==
    /\ at = "egress" /\ h # "pull" /\ frame.l3 /\ EncapFails(frame, h)
    /\ at' = "wire" /\ frame' = HalfWritten(frame, h)
    /\ trip' = [trip EXCEPT !.openA = failopen["A"], !.faults = Failing(h)]
    /\ UNCHANGED maps

\* encap_fail: fail-open sends the frame on without the option, else it is dropped.
EgressEncapFail(h) ==
    /\ at = "egress" /\ h # "pull" /\ frame.l3 /\ EncapFails(frame, h)
    /\ IF failopen["A"] THEN at' = "wire" /\ frame' = HalfWritten(frame, h)
                        ELSE at' = "done" /\ UNCHANGED frame
    /\ trip' = [trip EXCEPT !.known = identity["A"][frame.flow.src],
                            !.openA = failopen["A"], !.faults = Failing(h),
                            !.end = IF failopen["A"] THEN "none" ELSE "encap_fail"]
    /\ UNCHANGED maps

Stampable(f) == Framed(f) /\ FlowOf(f) /\ ReadFlow(f).l4 /\ SrcAt("A", f) # Unknown

EgressDrops(h) ==
    /\ at = "egress" /\ h # "pull" /\ frame.l3 /\ Stampable(frame) /\ DeniedAtA(frame)
    /\ at' = "done" /\ trip' = [trip EXCEPT !.end = "denied_a"]
    /\ UNCHANGED <<maps, frame>>

\* Otherwise the option is written, into the reserved slot or into new room.
EgressStamps(h) ==
    /\ at = "egress" /\ h # "pull" /\ frame.l3 /\ Stampable(frame) /\ ~DeniedAtA(frame)
    /\ ~EncapFails(frame, h)
    /\ LET id == SrcAt("A", frame) IN
       /\ frame' = IF Reserved(frame) THEN StampSlot(frame, id)
                   ELSE StampRoom(frame, id, h # "bump")
       /\ trip' = [trip EXCEPT !.stamp = id, !.faults = Failing(h)]
    /\ at' = "wire" /\ UNCHANGED maps

-----------------------------------------------------------------------------
(* tc_ingress on node B *)

\* try_parse_geneve_inner
Peels(f) == f.base /\ f.words <= MaxOptWords /\ f.fit /\ FlowOf(f)

Readable(f) == f.l3 /\ Peels(f) /\ ReadFlow(f).l4

\* Everything the parsers cannot make sense of is passed on unexamined.
IngressPasses(h) ==
    /\ at = "wire" /\ (h = "pull" \/ ~Readable(frame))
    /\ at' = "kernel"
    /\ trip' = [trip EXCEPT !.why = "unread", !.faults = Failing(h)]
    /\ UNCHANGED <<maps, frame>>

\* The identity option wins over identity_map.
Source(f) == IF HasIdentity(f) THEN parse_geneve_identity(f) ELSE SrcAt("B", f)

\* Segments after the client's SYN are not looked up again.
Established(f) == ReadFlow(f).proto = "tcp" /\ Source(f) # Unknown /\ ~ReadFlow(f).syn

Decision(f) ==
    IF Established(f) THEN Decide("OK", "ESTABLISHED")
    ELSE enforce_flow(policy["B"], failopen["B"], Source(f), DstAt("B", f), ReadFlow(f), "STOLEN")

Stripped(f, h) == IF HasIdentity(f) /\ ~f.big /\ h # "strip" THEN strip_meridian_tlv(f) ELSE f

IngressDecides(h) ==
    /\ at = "wire" /\ h # "pull" /\ Readable(frame)
    /\ LET d == Decision(frame) IN
       /\ IF d.act = "OK" THEN at' = "kernel" /\ frame' = Stripped(frame, h)
                          ELSE at' = "done" /\ UNCHANGED frame
       /\ trip' = [trip EXCEPT !.src = Source(frame), !.why = d.why,
                               !.openB = d.why = "FAILOPEN",
                               !.faults = Failing(h),
                               !.end = IF d.act = "OK" THEN "none" ELSE "denied_b"]
    /\ UNCHANGED maps

\* The kernel of B verifies a checksum that is there, and its Geneve device
\* refuses a frame that still carries options.
Decapsulate ==
    /\ at = "kernel" /\ at' = "done"
    /\ trip' = [trip EXCEPT !.end =
                  IF /\ frame.l3 /\ frame.base /\ frame.fit
                     /\ frame.words = 0 /\ frame.sum # "bad"
                  THEN "delivered" ELSE "kernel_drop"]
    /\ UNCHANGED <<maps, frame>>

-----------------------------------------------------------------------------
(* The agents *)

SetPosture(n) == /\ failopen' = [failopen EXCEPT ![n] = ~@]
                 /\ UNCHANGED <<identity, policy, at, frame, trip>>

SetIdentities(n) == /\ \E m \in IdentityMaps : identity' = [identity EXCEPT ![n] = m]
                    /\ UNCHANGED <<policy, failopen, at, frame, trip>>

SetPolicies(n) == /\ \E m \in PolicyMaps : policy' = [policy EXCEPT ![n] = m]
                  /\ UNCHANGED <<identity, failopen, at, frame, trip>>

Agent == /\ at # "done"
         /\ \E n \in Nodes : SetPosture(n) \/ SetIdentities(n) \/ SetPolicies(n)

TcEgress  == \E h \in EgressHelpers :
                EgressPasses(h) \/ EgressEncapFail(h) \/ EgressDrops(h) \/ EgressStamps(h)
TcIngress == \E h \in IngressHelpers : IngressPasses(h) \/ IngressDecides(h)

Next == TcEgress \/ TcIngress \/ Decapsulate \/ Agent

Spec == Init /\ [][Next]_vars

-----------------------------------------------------------------------------
(* Properties *)

TypeOK ==
    /\ identity \in [Nodes -> IdentityMap] /\ policy \in [Nodes -> PolicyMap]
    /\ failopen \in [Nodes -> BOOLEAN]
    /\ at \in {"egress", "wire", "kernel", "done"} /\ frame \in Frame
    /\ trip.sent \in Frames /\ trip.stamp \in IDs \union {Unknown}

\* A frame that carries a flow both programs can read.
CarriesFlow(f) == f.l3 /\ HeaderAt(f) # "none" /\ Unambiguous(f) /\ f.flow.l4

\* ADR-0005: a flow arrives whole and without an identity only if the node it left was
\* fail-open when the option could not be written and the node it reached was
\* fail-open when it was decided, whatever the agents change in between.
UnidentifiedNeedsBothOpen ==
    /\ trip.end = "delivered" /\ frame.body = "whole"
    /\ CarriesFlow(trip.sent) /\ "pull" \notin trip.faults /\ trip.src = Unknown
    => trip.openA /\ trip.openB

\* ADR-0002: what B enforces on is the identity A wrote, not what B's own
\* identity_map says of the address.  The option and what was there before have
\* to fit the six words that leave room for it in the eight tc_ingress reads.
StampedIsDecoded ==
    /\ at \in {"kernel", "done"} /\ trip.why # "none" /\ trip.stamp # Unknown
    /\ CarriesFlow(trip.sent) /\ trip.sent.words <= MaxOptWords - OptWords
    /\ "pull" \notin trip.faults
    => trip.src = trip.stamp

\* What the reference evaluator says at node n of a flow from identity src.
Reference(n, src, f) ==
    Evaluate(policy[n], failopen[n], src, DstAt(n, f), ReadFlow(f), "INGRESS")

\* ADR-0001: with the same rules and posture tc_ingress passes every flow the
\* reference evaluator does not deny; one that the evaluator denies it passes only
\* as a later segment of a TCP connection, which it does not look up; and
\* tc_egress drops no flow that the evaluator would let pass.
KernelMatchesReference ==
    /\ at = "wire" /\ Readable(frame) /\ Evaluable(policy["B"]) =>
         LET ok  == Decision(frame).act = "OK"
             ref == Reference("B", Source(frame), frame) # "DENY"
         IN (ref => ok) /\ (ok => ref \/ Established(frame))
    /\ at = "egress" /\ DeniedAtA(frame) => Reference("A", SrcAt("A", frame), frame) = "DENY"

\* The kernel's own frames carry no options.
Plain(f) == f.opts = << >> /\ f.words = 0

\* tc_ingress.c, strip_meridian_tlv: a frame that was admitted reaches the
\* workload as it was sent, unless it is too long to strip, a helper failed, or
\* it was stamped under an outer UDP checksum, which no program brings up to date.
AdmittedArrivesWhole ==
    /\ at = "done" /\ trip.why \in {"ALLOW", "REDIRECT", "ESTABLISHED"}
    /\ CarriesFlow(trip.sent) /\ Plain(trip.sent) /\ ~trip.sent.big
    /\ trip.sent.base /\ trip.sent.fit /\ trip.faults = {}
    /\ trip.sent.sum = "none" \/ trip.stamp = Unknown
    => trip.end = "delivered" /\ frame.body = "whole"

\* encap_fail has taken a frame of a source that A knows.
KnownRefused == /\ trip.end = "encap_fail" \/ trip.openA
                /\ trip.faults = {} /\ trip.known # Unknown

\* An outer header of at most 48 bytes, 44 behind a VLAN tag, or a reserved slot.
HasRoom(f) == f.pay = "slot" \/ f.ihl <= IF f.link = 14 THEN 12 ELSE 11

\* tc_egress.c, encap_fail: a plain flow of a source that A knows is refused
\* exactly when its outer IPv4 options leave no room for the identity option.
KnownSourcesAreStamped ==
    LET f == trip.sent IN
    CarriesFlow(f) /\ f.base /\ f.fit /\ Plain(f) =>
        /\ KnownRefused => ~HasRoom(f)
        /\ trip.stamp # Unknown => HasRoom(f)
=============================================================================
