------------------------------- MODULE Sockmap -------------------------------
(***************************************************************************)
(* The intra-node fast path: sock_ops.c puts the sockets of eligible flows *)
(* into sockhash when they are established, sk_msg.c redirects what such a *)
(* socket sends to the socket found under the address it sends to.         *)
(*                                                                         *)
(* A socket is [ip, port, rip, rport, role]; its peer has the addresses    *)
(* swapped and may be on another node (not in Socks).  No address pair is  *)
(* used twice: the kernel holds one back after its end.  The agent may     *)
(* change identity_map and policy_map at any time, so each establishment   *)
(* finds one of the contents they may have.                                *)
(*                                                                         *)
(* The kernel's part: a socket runs sk_msg while it is a value of sockhash;*)
(* one that leaves the map, because it closes or because its key is given  *)
(* to another socket, loses its ingress queue; a reader empties the        *)
(* ingress queue before what came by TCP.                                  *)
(***************************************************************************)
EXTENDS Naturals, Sequences, FiniteSets, Functions

CONSTANTS Socks,          \* the TCP sockets of the node
          IDs, Unknown,   \* identities; Unknown is identity 0
          IdentityMaps,   \* functions from addresses to IDs \union {Unknown}
          PolicyMaps,     \* functions from policy keys to verdicts
          MaxEntries,     \* bound: max_entries of sockhash
          MaxSends(_)     \* bound: messages each socket sends

Roles == {"client", "server"}
Local(s)  == <<s.ip, s.port>>
Remote(s) == <<s.rip, s.rport>>
Peer(s)   == [ip |-> s.rip, port |-> s.rport, rip |-> s.ip, rport |-> s.port,
              role |-> IF s.role = "client" THEN "server" ELSE "client"]
Here(s)   == s \in Socks

ASSUME SockmapAssumption ==
    /\ \A s \in Socks : s.role \in Roles /\ Peer(Peer(s)) = s
    /\ \A s, t \in Socks : Remote(t) = Local(s) => Here(Peer(t))   \* an address has one node
    /\ Unknown \notin IDs
    /\ MaxEntries \in Nat /\ \A s \in Socks : MaxSends(s) \in Nat

Miss == [action |-> "MISS", flags |-> {}]

VARIABLES
    life,               \* per socket: "new", "syn" (half open), "open", "closed"
    sockhash,           \* address -> socket, on its domain
    gate,               \* history: the verdict its establishment found
    sent,               \* messages each socket has sent
    tcp,                \* per socket: messages that reach it by TCP
    ingress,            \* per socket: messages redirected to it
    received,           \* per socket: what its owner has read
    lost,               \* history: messages that went with a queue
    used                \* history: the paths each socket's messages took

vars == <<life, sockhash, gate, sent, tcp, ingress, received, lost, used>>

Members == {sockhash[k] : k \in DOMAIN sockhash}

Init ==
    /\ life = [s \in Socks |-> "new"] /\ sockhash = << >>
    /\ gate = [s \in Socks |-> Miss] /\ sent = [s \in Socks |-> 0]
    /\ tcp = [s \in Socks |-> << >>] /\ ingress = tcp /\ received = tcp
    /\ lost = {} /\ used = {}

-----------------------------------------------------------------------------
(* sock_ops.c *)

meridian_identity_of(identity, a) == IF a \in DOMAIN identity THEN identity[a] ELSE Unknown

meridian_policy_lookup(policy, src, dst, port, dir) ==
    LET k == <<src, dst, port, dir>> IN IF k \in DOMAIN policy THEN policy[k] ELSE Miss

\* Fault: any ALLOW will do.
AnyAllow(v) == v.action = "ALLOW"

meridian_verdict_sockmap_eligible(v) ==
    v.action = "ALLOW" /\ "SOCKMAP_ELIGIBLE" \in v.flags

\* What the program finds: the active end looks up EGRESS, the passive end INGRESS,
\* for the same flow.
FlowVerdict(s, identity, policy) ==
    LET c == IF s.role = "client" THEN s ELSE Peer(s)   \* the flow as its client sees it
        src == meridian_identity_of(identity, c.ip)
        dst == meridian_identity_of(identity, c.rip)
    IN IF Unknown \in {src, dst} THEN Miss
       ELSE meridian_policy_lookup(policy, src, dst, c.rport,
                                   IF s.role = "client" THEN "EGRESS" ELSE "INGRESS")

\* Fault: the socket is stored under the address it talks to.
KeyIsRemote(s) == Remote(s)

sock_key(s) == Local(s)

\* bpf_sock_hash_update: replaces what the key held; a full map takes no new key.
Room(k) == k \in DOMAIN sockhash \/ Cardinality(DOMAIN sockhash) < MaxEntries

try_insert(s, v) ==
    LET k == sock_key(s) IN
    IF meridian_verdict_sockmap_eligible(v) /\ Room(k)
    THEN /\ sockhash' = [j \in DOMAIN sockhash \union {k} |-> IF j = k THEN s ELSE sockhash[j]]
         /\ LET old == IF k \in DOMAIN sockhash THEN {sockhash[k]} ELSE {} IN
            /\ ingress' = [t \in Socks |-> IF t \in old THEN << >> ELSE ingress[t]]
            /\ lost' = lost \union UNION {Range(ingress[t]) : t \in old}
    ELSE UNCHANGED <<sockhash, ingress, lost>>

\* BPF_SOCK_OPS_ACTIVE_ESTABLISHED_CB
ActiveEstablished(s) ==
    /\ s.role = "client" /\ life[s] = "new"
    /\ life' = [t \in Socks |-> IF t = s THEN "open" ELSE IF t = Peer(s) THEN "syn" ELSE life[t]]
    /\ \E identity \in IdentityMaps, policy \in PolicyMaps :
       LET v == FlowVerdict(s, identity, policy) IN
       try_insert(s, v) /\ gate' = [gate EXCEPT ![s] = v]
    /\ UNCHANGED <<tcp, sent, received, used>>

\* BPF_SOCK_OPS_PASSIVE_ESTABLISHED_CB
PassiveEstablished(s) ==
    /\ s.role = "server" /\ life[s] = IF Here(Peer(s)) THEN "syn" ELSE "new"
    /\ life' = [life EXCEPT ![s] = "open"]
    /\ \E identity \in IdentityMaps, policy \in PolicyMaps :
       LET v == FlowVerdict(s, identity, policy) IN
       try_insert(s, v) /\ gate' = [gate EXCEPT ![s] = v]
    /\ UNCHANGED <<tcp, sent, received, used>>

-----------------------------------------------------------------------------
(* sk_msg.c, and the kernel around it *)

\* Fault: a message that finds nobody in the map is dropped.
DropOnMiss(s, m) == UNCHANGED <<tcp, ingress, used, lost>>

\* The normal path.  A closed peer takes nothing; one elsewhere is not followed.
SendByTcp(s, m) ==
    /\ IF Here(Peer(s)) /\ life[Peer(s)] \in {"syn", "open"}
       THEN tcp' = [tcp EXCEPT ![Peer(s)] = Append(@, m)] /\ UNCHANGED lost
       ELSE UNCHANGED tcp /\ lost' = lost \union {m}
    /\ used' = used \union {<<s, "tcp">>}
    /\ UNCHANGED ingress

Hit(s) == s \in Members /\ Remote(s) \in DOMAIN sockhash

\* A hit arms the redirect to whatever socket the key now holds.
meridian_sk_msg(s, m) ==
    /\ ingress' = [ingress EXCEPT ![sockhash[Remote(s)]] = Append(@, m)]
    /\ used' = used \union {<<s, "sockhash">>}
    /\ UNCHANGED <<tcp, lost>>

\* Fault: the first message of a socket is let pass, to be looked at elsewhere.
SendFirstPasses(s) ==
    /\ life[s] = "open" /\ sent[s] < MaxSends(s)
    /\ sent' = [sent EXCEPT ![s] = @ + 1]
    /\ LET m == <<s, sent[s] + 1>> IN
       IF Hit(s) /\ sent[s] > 0 THEN meridian_sk_msg(s, m) ELSE SendByTcp(s, m)
    /\ UNCHANGED <<life, sockhash, gate, received>>

Send(s) ==
    /\ life[s] = "open" /\ sent[s] < MaxSends(s)
    /\ sent' = [sent EXCEPT ![s] = @ + 1]
    /\ LET m == <<s, sent[s] + 1>> IN IF Hit(s) THEN meridian_sk_msg(s, m) ELSE SendByTcp(s, m)
    /\ UNCHANGED <<life, sockhash, gate, received>>

Receive(s) ==
    /\ life[s] = "open" /\ ingress[s] \o tcp[s] # << >>
    /\ received' = [received EXCEPT ![s] = Append(@, Head(ingress[s] \o tcp[s]))]
    /\ IF ingress[s] # << >>
       THEN ingress' = [ingress EXCEPT ![s] = Tail(@)] /\ UNCHANGED tcp
       ELSE tcp' = [tcp EXCEPT ![s] = Tail(@)] /\ UNCHANGED ingress
    /\ UNCHANGED <<life, sockhash, gate, sent, lost, used>>

\* Closing takes the socket out of sockhash and throws its queues away.
Close(s) ==
    /\ life[s] \in {"syn", "open"} /\ life' = [life EXCEPT ![s] = "closed"]
    /\ LET keys == {k \in DOMAIN sockhash : sockhash[k] # s} IN
       sockhash' = [k \in keys |-> sockhash[k]]
    /\ tcp' = [tcp EXCEPT ![s] = << >>] /\ ingress' = [ingress EXCEPT ![s] = << >>]
    /\ lost' = lost \union Range(tcp[s] \o ingress[s])
    /\ UNCHANGED <<gate, sent, received, used>>

-----------------------------------------------------------------------------

Next ==
    \E s \in Socks : \/ ActiveEstablished(s) \/ PassiveEstablished(s)
                        \/ Send(s) \/ Receive(s) \/ Close(s)

Spec == Init /\ [][Next]_vars

-----------------------------------------------------------------------------
(* Properties *)

Messages == UNION {{s} \X (1..MaxSends(s)) : s \in Socks}

TypeOK ==
    /\ life \in [Socks -> {"new", "syn", "open", "closed"}]
    /\ Cardinality(DOMAIN sockhash) <= MaxEntries /\ Range(sockhash) \subseteq Socks
    /\ \A s \in Socks : sent[s] \in 0..MaxSends(s)
    /\ \A s \in Socks : Range(tcp[s] \o ingress[s] \o received[s]) \subseteq Messages
    /\ lost \subseteq Messages /\ used \subseteq Socks \X {"tcp", "sockhash"}

\* sk_msg.c: the key a sender computes is the one its target was stored under,
\* so a redirected message only ever waits at an open socket that is bound to
\* the address the sender addressed, although entries come, go and are replaced.
RedirectsToAddressed ==
    \A s \in Socks : \A m \in Range(ingress[s]) : Remote(m[1]) = Local(s) /\ life[s] = "open"

\* sockmap_integrity_test.go: a flow denied at establish never redirects, even
\* if the policy turns eligible later.
IneligibleNeverRedirects ==
    \A s \in Socks : <<s, "sockhash">> \in used =>
        gate[s].action = "ALLOW" /\ "SOCKMAP_ELIGIBLE" \in gate[s].flags

Queue(p, s) == CASE p = "tcp" -> tcp[s] [] p = "ingress" -> ingress[s] [] p = "read" -> received[s]
Places      == {"tcp", "ingress", "read"} \X Socks

\* ADR-0007, fall-through: no message vanishes because the map lacks an entry.
MissFallsThrough ==
    \A s \in Socks : \A n \in 1..sent[s] :
        <<s, n>> \in lost \/ \E c \in Places : <<s, n>> \in Range(Queue(c[1], c[2]))

\* No message is in two places, or in one place twice.
NeverTwice ==
    \A c \in Places : \A i \in DOMAIN Queue(c[1], c[2]) :
    \A d \in Places : \A j \in DOMAIN Queue(d[1], d[2]) :
        Queue(c[1], c[2])[i] = Queue(d[1], d[2])[j] => c = d /\ i = j

\* Hits, misses, evictions and closes neither lose a message silently nor
\* deliver it twice: it waits in one queue, or has been read once, or went with
\* the queue of a socket that closed or lost its key, and then is read by nobody.
MessagesConserved ==
    /\ MissFallsThrough /\ NeverTwice
    /\ \A c \in Places : Range(Queue(c[1], c[2])) \intersect lost = {}

\* The peer's messages, from the first one on, without gaps.
InOrder(q, s) == q = [i \in 1..Len(q) |-> <<Peer(s), i>>]

Sole(s) == \A t \in Socks : Local(t) = Local(s) => t = s

\* The two paths of sk_msg.c keep a stream in order and complete, at an address no
\* other socket is bound to.  A client reads what its server sent even if the
\* server's entry is evicted half-way and it goes on by TCP: the client was in the
\* map before the server could send, so no server ever changes from TCP to the
\* redirect.  A client may, and what its server reads is in order as long as
\* the client has used one path only.
SoleStreamsInOrder ==
    \A s \in Socks :
        Sole(s) /\ (s.role = "client" \/ ~({Peer(s)} \X {"tcp", "sockhash"} \subseteq used))
        => InOrder(received[s], s)

\* sk_msg.c: "redirect the message to the destination peer socket".
RedirectsReachPeer == \A s \in Socks : \A m \in Range(ingress[s]) : m[1] = Peer(s)
=============================================================================
