------------------------------ MODULE MCTcPath -------------------------------
(* TcPath for TLC: kernel frames and the frames of the program tests, each  *)
(* one deviation away from a plain one, two maps of each kind.              *)
EXTENDS TcPath

MCFlow(p, open, ports) == [src |-> "pod1", dst |-> "pod2", port |-> 80, proto |-> p,
                           syn |-> open, l4 |-> ports]

Syn  == MCFlow("tcp", TRUE, TRUE)
Data == MCFlow("tcp", FALSE, TRUE)
Dgm  == MCFlow("udp", FALSE, TRUE)

KernelFrame(f) ==
    [l3 |-> TRUE, link |-> 14, ihl |-> 5, base |-> TRUE, fit |-> TRUE, words |-> 0,
     opts |-> << >>, pay |-> "teb", v4 |-> TRUE, mac0 |-> FALSE, mac8 |-> FALSE,
     ttl |-> FALSE, flow |-> f, ghost |-> [f EXCEPT !.src = "elsewhere", !.proto = "udp"],
     sum |-> "none", big |-> FALSE, body |-> "whole"]

With(os, w) == [KernelFrame(Syn) EXCEPT !.opts = os, !.words = w]

MCFrames ==
    {KernelFrame(f) : f \in {Syn, Data, Dgm, MCFlow("tcp", FALSE, FALSE)}}
    \union
    {[KernelFrame(Syn) EXCEPT !.ihl = 12],                \* the last that has room
     [KernelFrame(Syn) EXCEPT !.ihl = 13],
     [KernelFrame(Syn) EXCEPT !.link = 18, !.ihl = 11],   \* the last behind a tag
     [KernelFrame(Syn) EXCEPT !.link = 18, !.ihl = 12],
     [KernelFrame(Syn) EXCEPT !.sum = "good"],
     [KernelFrame(Syn) EXCEPT !.pay = "slot", !.sum = "good"],
     [KernelFrame(Syn) EXCEPT !.l3 = FALSE],
     [KernelFrame(Syn) EXCEPT !.base = FALSE],
     [KernelFrame(Syn) EXCEPT !.v4 = FALSE],              \* ARP, IPv6
     [KernelFrame(Syn) EXCEPT !.mac8 = TRUE],
     [KernelFrame(Data) EXCEPT !.big = TRUE],
     [KernelFrame(Syn) EXCEPT !.pay = "raw", !.ttl = TRUE],
     [KernelFrame(Syn) EXCEPT !.pay = "slot"],
     [KernelFrame(Syn) EXCEPT !.pay = "slot", !.ttl = TRUE],
     With(<<Foreign(2), Foreign(2), Foreign(2)>>, 6),
     With(<<Foreign(1), Foreign(1), Foreign(1), Foreign(1)>>, 4),
     With(<<Foreign(3), Foreign(4)>>, 7),                 \* nine words once stamped
     With(<<Foreign(4)>>, 3),                             \* option overruns the area
     [With(<<Foreign(2)>>, 2) EXCEPT !.fit = FALSE]}

MCIdentityMaps == {[a \in Addrs |-> CASE a = "pod1" -> i [] a = "pod2" -> 2 [] OTHER -> 0] :
                      i \in {0, 1, 3}}
MCRules(v, w) == [k \in Keys |-> IF k[5] = "EGRESS" THEN "ABSENT"
                                 ELSE CASE k[1] = 1 -> v [] k[1] = 3 -> w [] OTHER -> "ABSENT"]
MCPolicyMaps == {MCRules("ALLOW", "REDIRECT"), MCRules("DENY", "ABSENT")}
MCAddrs == {"pod1", "pod2", "elsewhere"}
=============================================================================
