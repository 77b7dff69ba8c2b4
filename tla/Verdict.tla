------------------------------- MODULE Verdict -------------------------------
(***************************************************************************)
(* How a flow is decided: the lookups of meridian_helpers.h, enforce_flow  *)
(* of tc_ingress.c, the deny-only look-up of tc_egress.c, and the pure-Go  *)
(* evaluator of internal/reference that the kernel programs must agree     *)
(* with.  A module of operators; the programs that use them keep the maps. *)
(*                                                                         *)
(* Data abstraction.  A flow carries what a policy key is made of: its two *)
(* addresses, the destination port and the protocol; l4 says that its      *)
(* ports lie inside the buffer (parse_l4_ports), syn that it opens a TCP   *)
(* connection (is_tcp_connection_open).  A policy map is a function on all *)
(* keys with "ABSENT" where the hash map has no element.                   *)
(***************************************************************************)
EXTENDS Naturals

CONSTANTS Addrs,      \* IPv4 addresses
          IDs,        \* numeric identities; 0 is not one of them
          Ports,      \* destination ports
          Protos      \* IP protocols: "tcp", "udp" and others

Unknown == 0          \* wire.IdentityUnknown, MERIDIAN's identity 0

Actions    == {"ALLOW", "DENY", "REDIRECT"}
MapActions == Actions \union {"INVALID", "ABSENT"}
Directions == {"INGRESS", "EGRESS"}
Keys       == IDs \X IDs \X Ports \X Protos \X Directions

IdentityMap == [Addrs -> IDs \union {Unknown}]
PolicyMap   == [Keys -> MapActions]

Flows == [src : Addrs, dst : Addrs, port : Ports, proto : Protos,
          syn : BOOLEAN, l4 : BOOLEAN]

ASSUME IdentityAssumption == IDs \subseteq Nat \ {Unknown}

policy_key(src, dst, f, dir) == <<src, dst, f.port, f.proto, dir>>

-----------------------------------------------------------------------------

Decisions == [act : {"OK", "SHOT", "STOLEN"},
              why : {"FAILOPEN", "UNKNOWN_IDENTITY", "POLICY_MISS", "ALLOW",
                     "POLICY_DENY", "REDIRECT", "INVALID_ACTION"}]

Decide(act, why) == [act |-> act, why |-> why]

\* Fault: a flow without a rule is let through.
EnforceAllowsMiss(policy, open, src, dst, f, deny) ==
    IF Unknown \in {src, dst}
    THEN IF open THEN Decide("OK", "FAILOPEN") ELSE Decide("SHOT", "UNKNOWN_IDENTITY")
    ELSE LET v == policy[policy_key(src, dst, f, "INGRESS")] IN
         IF v = "DENY" THEN Decide(deny, "POLICY_DENY") ELSE Decide("OK", "ALLOW")

\* The posture for an unknown identity comes first, then the exact match.
enforce_flow(policy, open, src, dst, f, deny) ==
    IF Unknown \in {src, dst}
    THEN IF open THEN Decide("OK", "FAILOPEN") ELSE Decide("SHOT", "UNKNOWN_IDENTITY")
    ELSE LET v == policy[policy_key(src, dst, f, "INGRESS")] IN
         CASE v = "ABSENT"   -> Decide("SHOT", "POLICY_MISS")
           [] v = "ALLOW"    -> Decide("OK", "ALLOW")
           [] v = "DENY"     -> Decide(deny, "POLICY_DENY")
           [] v = "REDIRECT" -> Decide("OK", "REDIRECT")
           [] OTHER          -> Decide("SHOT", "INVALID_ACTION")

\* tc_egress drops only what a rule denies.
EgressDenies(policy, src, dst, f) ==
    /\ src # Unknown /\ dst # Unknown
    /\ policy[policy_key(src, dst, f, "INGRESS")] = "DENY"

-----------------------------------------------------------------------------

\* NewEvaluator refuses a rule whose action it does not know.
Evaluable(policy) == \A k \in DOMAIN policy : policy[k] # "INVALID"

\* MapEvaluator.Evaluate, for one direction; open is UnknownIdentityFailOpen.
Evaluate(rules, open, src, dst, f, dir) ==
    IF src = Unknown \/ dst = Unknown
    THEN IF open THEN "ALLOW" ELSE "DENY"
    ELSE LET k == policy_key(src, dst, f, dir) IN
         IF rules[k] # "ABSENT" THEN rules[k] ELSE "DENY"
=============================================================================
