------------------------------ MODULE MCSockmap ------------------------------
(***************************************************************************)
(* Sockmap with a client and its server on the node, a second connection   *)
(* of that server to a client elsewhere, whose socket shares the server's  *)
(* key, and a pair whose server socket has its address to itself.          *)
(***************************************************************************)
EXTENDS Sockmap, TLC

MCSock(ip, port, rip, rport, role) ==
    [ip |-> ip, port |-> port, rip |-> rip, rport |-> rport, role |-> role]

MCPair(ip, port, rip, rport) ==
    LET c == MCSock(ip, port, rip, rport, "client") IN {c, Peer(c)}

MCSocks == MCPair("c1", 1001, "web", 80) \union MCPair("c2", 1002, "db", 90)
              \union {MCSock("web", 80, "out", 1003, "server")}

\* Two messages from the shared server to its client and from the other client to
\* the lone server, one the other way at the shared one.
MCSends(s) == CASE s.ip = "web" /\ s.rip = "c1" -> 2 [] s.ip = "c2" -> 2
                [] s.ip = "c1" -> 1 [] OTHER -> 0

MCIdentity(c2) == ("c1" :> 1) @@ ("c2" :> c2) @@ ("web" :> 3) @@ ("db" :> 3) @@ ("out" :> c2)
MCIdentityMaps == {MCIdentity(0), MCIdentity(2)}

MCVerdict(action, flags) == [action |-> action, flags |-> flags]
Eligible == MCVerdict("ALLOW", {"SOCKMAP_ELIGIBLE"})

MCRules(v1, v2) == [k \in {1, 2} \X {3} \X {80, 90} \X {"INGRESS", "EGRESS"} |->
                      IF k[1] = 1 THEN v1 ELSE v2]
MCPolicyMaps == {MCRules(Eligible, Eligible), MCRules(MCVerdict("ALLOW", {"L7_REQUIRED"}), Eligible)}
=============================================================================
