--------------------------- MODULE MCTcAccounting ----------------------------
(***************************************************************************)
(* TcAccounting on two CPUs.  The flow to port 2 always reaches the same   *)
(* CPU, the others reach either.                                           *)
(***************************************************************************)
EXTENDS TcAccounting, TLC

CONSTANTS a, b, c1, c2, noFlow

MCPkt(port, proto, syn, l4) ==
    [src |-> a, dst |-> b, port |-> port, proto |-> proto, syn |-> syn, l4 |-> l4]

MCPackets == {MCPkt(1, "tcp", TRUE, TRUE), MCPkt(1, "tcp", FALSE, TRUE),
              MCPkt(1, "udp", FALSE, TRUE), MCPkt(2, "udp", FALSE, TRUE), MCPkt(0, "tcp", FALSE, FALSE)}

MCSteering(k) == IF k[3] = 2 THEN {c1} ELSE {c1, c2}

MCKnown == (a :> 1) @@ (b :> 2)

MCPolicy(tcp, udp) ==
    [k \in Keys |-> CASE k[5] = "EGRESS" \/ k[1] # 1 \/ k[2] # 2 -> "ABSENT"
                      [] k[4] = "tcp" -> tcp
                      [] OTHER -> udp]

MCIdentityMaps == {MCKnown, [MCKnown EXCEPT ![b] = Unknown]}
MCPolicyMaps   == {MCPolicy("DENY", "ALLOW"), MCPolicy("ALLOW", "ABSENT"), MCPolicy("REDIRECT", "INVALID")}
=============================================================================
