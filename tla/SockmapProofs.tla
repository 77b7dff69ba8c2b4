---------------------------- MODULE SockmapProofs ----------------------------
(***************************************************************************)
(* Proofs about Sockmap, for any sockets of the node, any contents of the  *)
(* maps, and any size of sockhash.                                         *)
(***************************************************************************)
EXTENDS Sockmap, FiniteSetTheorems, SequenceTheorems, TLAPS

\* What the gate of sock_ops.c lets into the map.
Plain(v) == v.action = "ALLOW" /\ "SOCKMAP_ELIGIBLE" \in v.flags

Types ==
    /\ life \in [Socks -> {"new", "syn", "open", "closed"}]
    /\ \A k \in DOMAIN sockhash : sockhash[k] \in Socks
    /\ IsFiniteSet(DOMAIN sockhash) /\ Cardinality(DOMAIN sockhash) <= MaxEntries
    /\ DOMAIN gate = Socks /\ gate = [s \in Socks |-> gate[s]]
    /\ sent \in [Socks -> Nat] /\ \A s \in Socks : sent[s] <= MaxSends(s)
    /\ tcp \in [Socks -> Seq(Messages)] /\ ingress \in [Socks -> Seq(Messages)]
    /\ received \in [Socks -> Seq(Messages)]
    /\ lost \subseteq Messages /\ used \subseteq Socks \X {"tcp", "sockhash"}

\* A server of the node stays as it was until its client connects.
ServersWait ==
    \A s \in Socks : s.role = "client" /\ life[s] = "new" /\ Here(Peer(s)) => life[Peer(s)] = "new"

\* A member of sockhash is open, stored under its own address and was gated.
MembersGated ==
    \A k \in DOMAIN sockhash :
        Local(sockhash[k]) = k /\ life[sockhash[k]] = "open" /\ Plain(gate[sockhash[k]])

\* A socket that redirected has passed its gate for good.
RedirectorsGated ==
    \A s \in Socks : <<s, "sockhash">> \in used => life[s] \in {"open", "closed"} /\ Plain(gate[s])

Inv == Types /\ ServersWait /\ MembersGated /\ RedirectorsGated /\ RedirectsToAddressed /\ MissFallsThrough

-----------------------------------------------------------------------------
(* Queues *)

LEMMA RangeSub == ASSUME NEW S, NEW q \in Seq(S) PROVE Range(q) \subseteq S
  BY DEF Range

LEMMA AppendRange ==
    ASSUME NEW S, NEW q \in Seq(S), NEW m \in S
    PROVE  Append(q, m) \in Seq(S) /\ Range(Append(q, m)) = Range(q) \union {m}
  <1> DEFINE r == Append(q, m)
  <1>1. /\ r \in Seq(S) /\ DOMAIN r = 1..(Len(q) + 1) /\ r[Len(q) + 1] = m
        /\ DOMAIN q = 1..Len(q) /\ Len(q) \in Nat
        /\ \A i \in 1..Len(q) : r[i] = q[i]
    OBVIOUS
  <1> HIDE DEF r
  <1>2. \A i : i \in 1..(Len(q) + 1) <=> i \in 1..Len(q) \/ i = Len(q) + 1 BY <1>1
  <1>3. Range(r) \subseteq Range(q) \union {m} BY <1>1, <1>2 DEF Range
  <1>4. Range(q) \union {m} \subseteq Range(r) BY <1>1, <1>2 DEF Range
  <1> QED BY <1>1, <1>3, <1>4 DEF r

LEMMA TailRange ==
    ASSUME NEW S, NEW q \in Seq(S), q # << >>
    PROVE  Head(q) \in S /\ Tail(q) \in Seq(S) /\ Range(q) = {Head(q)} \union Range(Tail(q))
  <1> DEFINE r == Tail(q)
  <1>1. /\ r \in Seq(S) /\ Head(q) = q[1] /\ q[1] \in S /\ Len(q) \in Nat /\ Len(q) >= 1
        /\ DOMAIN q = 1..Len(q) /\ DOMAIN r = 1..(Len(q) - 1)
        /\ \A i \in 1..(Len(q) - 1) : r[i] = q[i + 1]
    OBVIOUS
  <1> HIDE DEF r
  <1>2. ASSUME NEW x \in Range(r) PROVE x \in Range(q)
    <2>1. PICK i \in 1..(Len(q) - 1) : x = r[i] BY <1>1 DEF Range
    <2>2. i + 1 \in DOMAIN q /\ x = q[i + 1] BY <1>1, <2>1
    <2> QED BY <2>2 DEF Range
  <1>3. ASSUME NEW x \in Range(q), x # q[1] PROVE x \in Range(r)
    <2>1. PICK i \in 1..Len(q) : x = q[i] BY <1>1 DEF Range
    <2>2. i # 1 BY <1>3, <2>1
    <2>3. i - 1 \in DOMAIN r /\ x = r[i - 1] BY <1>1, <2>1, <2>2
    <2> QED BY <2>3 DEF Range
  <1>4. q[1] \in Range(q) BY <1>1 DEF Range
  <1> QED BY <1>1, <1>2, <1>3, <1>4 DEF r

LEMMA ConcatRange ==
    ASSUME NEW S, NEW p \in Seq(S), NEW q \in Seq(S)
    PROVE  p \o q \in Seq(S) /\ Range(p \o q) = Range(p) \union Range(q)
  <1> DEFINE r == p \o q
  <1>1. /\ r \in Seq(S) /\ Len(p) \in Nat /\ Len(q) \in Nat
        /\ DOMAIN p = 1..Len(p) /\ DOMAIN q = 1..Len(q) /\ DOMAIN r = 1..(Len(p) + Len(q))
        /\ \A i \in 1..(Len(p) + Len(q)) : r[i] = IF i <= Len(p) THEN p[i] ELSE q[i - Len(p)]
    OBVIOUS
  <1> HIDE DEF r
  <1>2. ASSUME NEW x \in Range(r) PROVE x \in Range(p) \union Range(q)
    <2>1. PICK i \in 1..(Len(p) + Len(q)) : x = r[i] BY <1>1 DEF Range
    <2>2. CASE i <= Len(p)
      <3>1. i \in DOMAIN p /\ x = p[i] BY <1>1, <2>1, <2>2
      <3> QED BY <3>1 DEF Range
    <2>3. CASE ~(i <= Len(p))
      <3>1. i - Len(p) \in DOMAIN q /\ x = q[i - Len(p)] BY <1>1, <2>1, <2>3
      <3> QED BY <3>1 DEF Range
    <2> QED BY <2>2, <2>3
  <1>3. ASSUME NEW x \in Range(p) PROVE x \in Range(r)
    <2>1. PICK i \in 1..Len(p) : x = p[i] BY <1>1 DEF Range
    <2>2. i \in DOMAIN r /\ x = r[i] BY <1>1, <2>1
    <2> QED BY <2>2 DEF Range
  <1>4. ASSUME NEW x \in Range(q) PROVE x \in Range(r)
    <2>1. PICK i \in 1..Len(q) : x = q[i] BY <1>1 DEF Range
    <2> DEFINE j == Len(p) + i
    <2>2. j \in 1..(Len(p) + Len(q)) /\ ~(j <= Len(p)) /\ j - Len(p) = i BY <1>1, <2>1
    <2> HIDE DEF j
    <2>3. r[j] = q[i] BY <1>1, <2>2
    <2> QED BY <1>1, <2>1, <2>2, <2>3 DEF Range
  <1> QED BY <1>1, <1>2, <1>3, <1>4 DEF r

LEMMA HeadConcat ==
    ASSUME NEW S, NEW p \in Seq(S), NEW q \in Seq(S), p # << >>
    PROVE  Head(p \o q) = Head(p)
  <1>1. Len(p) \in Nat \ {0} /\ Len(q) \in Nat OBVIOUS
  <1>2. 1 \in 1..(Len(p) + Len(q)) /\ 1 <= Len(p) BY <1>1
  <1>3. (p \o q)[1] = p[1] BY <1>2, ConcatProperties
  <1> QED BY <1>3

LEMMA EmptyRange == << >> \in Seq(Messages) /\ Range(<< >>) = {}
  BY DEF Range

\* Where a message can be.
At(m, t) == m \in Range(tcp[t]) \/ m \in Range(ingress[t]) \/ m \in Range(received[t])

Kept(m) == m \in lost \/ \E t \in Socks : At(m, t)

LEMMA InQueues ==
    ASSUME NEW a \in Seq(Messages), NEW b \in Seq(Messages), NEW c \in Seq(Messages), NEW m
    PROVE  m \in Range(a \o b \o c) <=> m \in Range(a) \/ m \in Range(b) \/ m \in Range(c)
  <1> DEFINE ab == a \o b
  <1>1. ab \in Seq(Messages) /\ Range(ab) = Range(a) \union Range(b) BY ConcatRange
  <1> HIDE DEF ab
  <1>2. Range(ab \o c) = Range(ab) \union Range(c) BY <1>1, ConcatRange
  <1> QED BY <1>1, <1>2 DEF ab

LEMMA PlaceMeans ==
    ASSUME NEW m
    PROVE  (\E c \in Places : m \in Range(Queue(c[1], c[2]))) <=> \E t \in Socks : At(m, t)
  <1>1. ASSUME NEW t \in Socks, At(m, t) PROVE \E c \in Places : m \in Range(Queue(c[1], c[2]))
    <2>1. /\ <<"tcp", t>> \in Places /\ <<"ingress", t>> \in Places /\ <<"read", t>> \in Places
      BY DEF Places
    <2> QED BY <1>1, <2>1 DEF At, Queue
  <1>2. ASSUME NEW c \in Places, m \in Range(Queue(c[1], c[2])) PROVE \E t \in Socks : At(m, t)
    <2>1. c[2] \in Socks /\ c[1] \in {"tcp", "ingress", "read"} BY DEF Places
    <2> QED BY <1>2, <2>1 DEF At, Queue
  <1> QED BY <1>1, <1>2

LEMMA KeptMeans ==
    MissFallsThrough <=> \A s \in Socks : \A n \in 1..sent[s] : Kept(<<s, n>>)
  BY PlaceMeans DEF MissFallsThrough, Kept

LEMMA KeptMeansNext ==
    (MissFallsThrough <=> \A s \in Socks : \A n \in 1..sent[s] : Kept(<<s, n>>))'
  BY KeptMeans, PTL

\* No step forgets a message when nothing new is sent.
LEMMA StillKept ==
    ASSUME Inv, Types', UNCHANGED sent, \A m : Kept(m) => Kept(m)'
    PROVE  MissFallsThrough'
  <1>1. \A s \in Socks : \A n \in 1..sent[s] : Kept(<<s, n>>) BY KeptMeans DEF Inv
  <1>2. \A s \in Socks : \A n \in 1..sent'[s] : Kept(<<s, n>>)' BY <1>1
  <1> QED BY <1>2, KeptMeansNext

-----------------------------------------------------------------------------
(* Establishment *)

LEMMA PeerRole ==
    ASSUME NEW s \in Socks
    PROVE  /\ Peer(Peer(s)) = s /\ Peer(s).role # s.role /\ Peer(s).role \in Roles
           /\ s.role = "server" => Peer(s).role = "client"
           /\ s.role = "client" => Peer(s).role = "server"
  <1>1. s.role \in Roles /\ Peer(Peer(s)) = s BY SockmapAssumption
  <1>2. Peer(s).role = IF s.role = "client" THEN "server" ELSE "client" BY DEF Peer
  <1> QED BY <1>1, <1>2 DEF Roles

\* What both establishments share: s, not in the map before, opens; no other
\* socket leaves "open" or "closed".
LEMMA EstablishInv ==
    ASSUME Inv, NEW s \in Socks, life[s] \in {"new", "syn"},
           life' \in [Socks -> {"new", "syn", "open", "closed"}], life'[s] = "open", ServersWait',
           \A t \in Socks \ {s} : life[t] \in {"open", "closed"} => life'[t] = life[t],
           NEW v, meridian_verdict_sockmap_eligible(v) => Plain(v),
           try_insert(s, v), gate' = [gate EXCEPT ![s] = v],
           UNCHANGED <<tcp, sent, received, used>>
    PROVE  Inv'
  <1> DEFINE k == Local(s)
             old == IF k \in DOMAIN sockhash THEN {sockhash[k]} ELSE {}
             in == meridian_verdict_sockmap_eligible(v) /\ Room(k)
  <1>1. /\ \A j \in DOMAIN sockhash : sockhash[j] \in Socks /\ sockhash[j] # s
        /\ \A j \in DOMAIN sockhash : life'[sockhash[j]] = "open"
    BY DEF Inv, Types, MembersGated
  <1>2. DOMAIN gate' = Socks /\ gate'[s] = v /\ (\A t \in Socks \ {s} : gate'[t] = gate[t])
        /\ gate' = [t \in Socks |-> gate'[t]]
    BY DEF Inv, Types
  <1>3. CASE in
    <2>1. /\ sockhash' = [j \in DOMAIN sockhash \union {k} |-> IF j = k THEN s ELSE sockhash[j]]
          /\ ingress' = [t \in Socks |-> IF t \in old THEN << >> ELSE ingress[t]]
          /\ lost' = lost \union UNION {Range(ingress[t]) : t \in old}
      BY <1>3 DEF try_insert, sock_key
    <2>2. Plain(v) BY <1>3
    <2>3. old \subseteq Socks BY <1>1
    <2>4. /\ DOMAIN sockhash' = DOMAIN sockhash \union {k} /\ sockhash'[k] = s
          /\ \A j \in DOMAIN sockhash \ {k} : sockhash'[j] = sockhash[j]
      BY <2>1
    <2>5. IsFiniteSet(DOMAIN sockhash') /\ Cardinality(DOMAIN sockhash') <= MaxEntries
      <3>1. IsFiniteSet(DOMAIN sockhash) /\ Cardinality(DOMAIN sockhash) <= MaxEntries
        BY DEF Inv, Types
      <3>2. Cardinality(DOMAIN sockhash) \in Nat /\ MaxEntries \in Nat
        BY <3>1, FS_CardinalityType, SockmapAssumption
      <3>3. /\ IsFiniteSet(DOMAIN sockhash \union {k})
            /\ Cardinality(DOMAIN sockhash \union {k}) =
                 IF k \in DOMAIN sockhash THEN Cardinality(DOMAIN sockhash) ELSE Cardinality(DOMAIN sockhash) + 1
        BY <3>1, FS_AddElement
      <3>4. k \in DOMAIN sockhash \/ Cardinality(DOMAIN sockhash) < MaxEntries BY <1>3 DEF Room
      <3>5. Cardinality(DOMAIN sockhash \union {k}) <= MaxEntries BY <3>1, <3>2, <3>3, <3>4
      <3> QED BY <2>4, <3>3, <3>5
    <2> HIDE DEF old, k
    <2>6. ingress' \in [Socks -> Seq(Messages)] BY <2>1, EmptyRange DEF Inv, Types
    <2>7. lost' \subseteq Messages
      <3>1. \A t \in old : Range(ingress[t]) \subseteq Messages BY <2>3, RangeSub DEF Inv, Types
      <3> QED BY <2>1, <3>1 DEF Inv, Types
    <2>8. Types'
      <3>1. \A j \in DOMAIN sockhash' : sockhash'[j] \in Socks BY <1>1, <2>4
      <3> QED BY <1>2, <2>5, <2>6, <2>7, <3>1 DEF Inv, Types
    <2>9. MembersGated'
      <3> SUFFICES ASSUME NEW j \in DOMAIN sockhash'
                   PROVE  /\ Local(sockhash'[j]) = j /\ life'[sockhash'[j]] = "open"
                          /\ Plain(gate'[sockhash'[j]])
        BY DEF MembersGated, Local, Plain
      <3>1. CASE j = k BY <1>2, <2>2, <2>4, <3>1 DEF k
      <3>2. CASE j # k
        <4>1. j \in DOMAIN sockhash /\ sockhash'[j] = sockhash[j] BY <2>4, <3>2
        <4> QED BY <1>1, <1>2, <4>1 DEF Inv, MembersGated
      <3> QED BY <3>1, <3>2
    <2>10. RedirectsToAddressed'
      <3> SUFFICES ASSUME NEW t \in Socks, NEW m \in Range(ingress'[t])
                   PROVE  Remote(m[1]) = Local(t) /\ life'[t] = "open"
        BY DEF RedirectsToAddressed, Remote, Local
      <3>1. t \notin old /\ m \in Range(ingress[t]) BY <2>1, EmptyRange
      <3> QED BY <3>1 DEF Inv, RedirectsToAddressed
    <2>11. ASSUME NEW m, Kept(m) PROVE Kept(m)'
      <3>1. CASE m \in lost BY <2>1, <3>1 DEF Kept
      <3>2. ASSUME NEW t \in Socks, At(m, t) PROVE Kept(m)'
        <4>1. CASE m \in Range(ingress[t]) /\ t \in old BY <2>1, <4>1 DEF Kept
        <4>2. CASE m \in Range(ingress[t]) /\ t \notin old BY <2>1, <4>2 DEF Kept, At
        <4>3. CASE m \notin Range(ingress[t])
          <5>1. At(m, t)' BY <3>2, <4>3 DEF At
          <5> QED BY <5>1 DEF Kept
        <4> QED BY <4>1, <4>2, <4>3
      <3> QED BY <2>11, <3>1, <3>2 DEF Kept
    <2>12. MissFallsThrough' BY <2>8, <2>11, StillKept
    <2>13. RedirectorsGated' BY <1>2 DEF Inv, RedirectorsGated
    <2> QED BY <2>8, <2>9, <2>10, <2>12, <2>13 DEF Inv
  <1>4. CASE ~in
    <2>1. UNCHANGED <<sockhash, ingress, lost>> BY <1>4 DEF try_insert, sock_key
    <2>2. Types' BY <1>2, <2>1 DEF Inv, Types
    <2>3. MembersGated' BY <1>1, <1>2, <2>1 DEF Inv, MembersGated
    <2>4. RedirectsToAddressed' BY <2>1 DEF Inv, RedirectsToAddressed
    <2>5. \A m : Kept(m) => Kept(m)' BY <2>1 DEF Kept, At
    <2>6. MissFallsThrough' BY <2>2, <2>5, StillKept
    <2>7. RedirectorsGated' BY <1>2 DEF Inv, RedirectorsGated
    <2> QED BY <2>2, <2>3, <2>4, <2>6, <2>7 DEF Inv
  <1> QED BY <1>3, <1>4

LEMMA ActiveInv ==
    ASSUME Inv, NEW s \in Socks, ActiveEstablished(s)
    PROVE  Inv'
  <1>1. /\ s.role = "client" /\ life[s] = "new" /\ UNCHANGED <<tcp, sent, received, used>>
        /\ life' = [t \in Socks |-> IF t = s THEN "open" ELSE IF t = Peer(s) THEN "syn" ELSE life[t]]
    BY DEF ActiveEstablished
  <1>2. PICK identity \in IdentityMaps, policy \in PolicyMaps :
          /\ try_insert(s, FlowVerdict(s, identity, policy))
          /\ gate' = [gate EXCEPT ![s] = FlowVerdict(s, identity, policy)]
    BY DEF ActiveEstablished
  <1> DEFINE v == FlowVerdict(s, identity, policy)
  <1>3. meridian_verdict_sockmap_eligible(v) => Plain(v) BY DEF meridian_verdict_sockmap_eligible, Plain
  <1>4. life' \in [Socks -> {"new", "syn", "open", "closed"}] /\ life'[s] = "open"
    BY <1>1 DEF Inv, Types
  <1>5. \A t \in Socks \ {s} : life[t] \in {"open", "closed"} => life'[t] = life[t]
    BY <1>1 DEF Inv, ServersWait, Here
  <1>6. ServersWait'
    <2> SUFFICES ASSUME NEW t \in Socks, t.role = "client", life'[t] = "new", Here(Peer(t))
                 PROVE  life'[Peer(t)] = "new"
      BY DEF ServersWait, Here, Peer
    <2>1. t # s /\ t # Peer(s) /\ life[t] = "new" BY <1>1, PeerRole
    <2>2. Peer(t) # s /\ Peer(t) # Peer(s) BY <1>1, <2>1, PeerRole
    <2>3. life[Peer(t)] = "new" BY <2>1 DEF Inv, ServersWait
    <2> QED BY <1>1, <2>2, <2>3 DEF Here
  <1> HIDE DEF v
  <1> QED BY <1>1, <1>2, <1>3, <1>4, <1>5, <1>6, EstablishInv DEF v

LEMMA PassiveInv ==
    ASSUME Inv, NEW s \in Socks, PassiveEstablished(s)
    PROVE  Inv'
  <1>1. /\ s.role = "server" /\ life[s] \in {"new", "syn"} /\ UNCHANGED <<tcp, sent, received, used>>
        /\ Here(Peer(s)) => life[s] = "syn"
        /\ life' = [life EXCEPT ![s] = "open"]
    BY DEF PassiveEstablished
  <1>2. PICK identity \in IdentityMaps, policy \in PolicyMaps :
          /\ try_insert(s, FlowVerdict(s, identity, policy))
          /\ gate' = [gate EXCEPT ![s] = FlowVerdict(s, identity, policy)]
    BY DEF PassiveEstablished
  <1> DEFINE v == FlowVerdict(s, identity, policy)
  <1>3. meridian_verdict_sockmap_eligible(v) => Plain(v) BY DEF meridian_verdict_sockmap_eligible, Plain
  <1>4. life' \in [Socks -> {"new", "syn", "open", "closed"}] /\ life'[s] = "open"
    BY <1>1 DEF Inv, Types
  <1>5. \A t \in Socks \ {s} : life'[t] = life[t] BY <1>1 DEF Inv, Types
  <1>6. ServersWait'
    <2> SUFFICES ASSUME NEW t \in Socks, t.role = "client", life'[t] = "new", Here(Peer(t))
                 PROVE  life'[Peer(t)] = "new"
      BY DEF ServersWait, Here, Peer
    <2>1. t # s /\ life[t] = "new" BY <1>1, <1>5
    <2>2. life[Peer(t)] = "new" /\ Peer(t) \in Socks BY <2>1 DEF Inv, ServersWait, Here
    <2>3. Peer(t) # s BY <1>1, <2>2, PeerRole DEF Here
    <2> QED BY <1>5, <2>2, <2>3
  <1> HIDE DEF v
  <1> QED BY <1>1, <1>2, <1>3, <1>4, <1>5, <1>6, EstablishInv DEF v

-----------------------------------------------------------------------------
(* Sending, receiving, closing *)

LEMMA SendInv ==
    ASSUME Inv, NEW s \in Socks, Send(s)
    PROVE  Inv'
  <1>0. PICK n : n = sent[s] + 1 OBVIOUS
  <1> DEFINE m == <<s, n>>
  <1>1. /\ life[s] = "open" /\ sent[s] < MaxSends(s) /\ sent' = [sent EXCEPT ![s] = n]
        /\ UNCHANGED <<life, sockhash, gate, received>>
        /\ IF Hit(s) THEN meridian_sk_msg(s, m) ELSE SendByTcp(s, m)
    BY <1>0 DEF Send
  <1>2. sent[s] \in Nat /\ MaxSends(s) \in Nat BY SockmapAssumption DEF Inv, Types
  <1>3. n \in 1..MaxSends(s) /\ n \in Nat BY <1>0, <1>1, <1>2
  <1>4. m \in Messages /\ m[1] = s BY <1>3 DEF Messages
  <1>5. /\ sent' \in [Socks -> Nat] /\ sent'[s] = n /\ \A t \in Socks \ {s} : sent'[t] = sent[t]
        /\ \A t \in Socks : sent'[t] <= MaxSends(t)
    BY <1>1, <1>3 DEF Inv, Types
  <1>6. ServersWait' /\ MembersGated'
    BY <1>1 DEF Inv, ServersWait, MembersGated, Here, Peer, Local, Plain
  <1> HIDE DEF m
  <1>7. /\ tcp' \in [Socks -> Seq(Messages)] /\ ingress' \in [Socks -> Seq(Messages)]
        /\ lost' \subseteq Messages /\ used' \subseteq Socks \X {"tcp", "sockhash"}
        /\ \A x : Kept(x) => Kept(x)'
        /\ Kept(m)'
        /\ RedirectorsGated' /\ RedirectsToAddressed'
    <2>1. CASE Hit(s)
      <3> DEFINE t == sockhash[Remote(s)]
                 q == ingress[t]
                 q1 == Append(q, m)
      <3>1. /\ ingress' = [ingress EXCEPT ![t] = q1]
            /\ used' = used \union {<<s, "sockhash">>} /\ UNCHANGED <<tcp, lost>>
        BY <1>1, <2>1 DEF meridian_sk_msg
      <3>2. t \in Socks /\ Local(t) = Remote(s) /\ life[t] = "open"
        BY <2>1 DEF Hit, Inv, Types, MembersGated
      <3>3. Plain(gate[s]) BY <2>1 DEF Hit, Members, Inv, MembersGated
      <3>4. q \in Seq(Messages) BY <3>2 DEF Inv, Types
      <3>5. q1 \in Seq(Messages) /\ Range(q1) = Range(q) \union {m} BY <1>4, <3>4, AppendRange
      <3> HIDE DEF q1
      <3>6. /\ ingress' \in [Socks -> Seq(Messages)] /\ ingress'[t] = q1
            /\ \A u \in Socks \ {t} : ingress'[u] = ingress[u]
        BY <3>1, <3>2, <3>5 DEF Inv, Types
      <3>7. RedirectsToAddressed'
        <4> SUFFICES ASSUME NEW u \in Socks, NEW x \in Range(ingress'[u])
                     PROVE  Remote(x[1]) = Local(u) /\ life[u] = "open"
          BY <1>1 DEF RedirectsToAddressed, Remote, Local
        <4>1. CASE u = t /\ x = m BY <1>4, <3>2, <4>1
        <4>2. CASE x \in Range(ingress[u]) BY <4>2 DEF Inv, RedirectsToAddressed
        <4> QED BY <3>5, <3>6, <4>1, <4>2
      <3>8. RedirectorsGated'
        <4> SUFFICES ASSUME NEW u \in Socks, <<u, "sockhash">> \in used'
                     PROVE  life[u] \in {"open", "closed"} /\ Plain(gate[u])
          BY <1>1 DEF RedirectorsGated, Plain
        <4>1. u = s \/ <<u, "sockhash">> \in used BY <3>1
        <4> QED BY <1>1, <3>3, <4>1 DEF Inv, RedirectorsGated
      <3>9. ASSUME NEW x, Kept(x) PROVE Kept(x)'
        <4>1. CASE x \in lost BY <3>1, <4>1 DEF Kept
        <4>2. ASSUME NEW u \in Socks, At(x, u) PROVE At(x, u)'
          BY <1>1, <3>1, <3>5, <3>6, <4>2 DEF At
        <4> QED BY <3>9, <4>1, <4>2 DEF Kept
      <3>10. Kept(m)'
        <4>1. m \in Range(ingress'[t]) BY <3>5, <3>6
        <4> HIDE DEF t
        <4>2. PICK u \in Socks : m \in Range(ingress'[u]) BY <3>2, <4>1
        <4> QED BY <4>2 DEF Kept, At
      <3>11. used' \subseteq Socks \X {"tcp", "sockhash"} BY <3>1 DEF Inv, Types
      <3>12. tcp' \in [Socks -> Seq(Messages)] /\ lost' \subseteq Messages BY <3>1 DEF Inv, Types
      <3> QED BY <3>6, <3>7, <3>8, <3>9, <3>10, <3>11, <3>12
    <2>2. CASE ~Hit(s)
      <3> DEFINE p == Peer(s)
      <3>1. /\ IF Here(p) /\ life[p] \in {"syn", "open"}
               THEN tcp' = [tcp EXCEPT ![p] = Append(@, m)] /\ UNCHANGED lost
               ELSE UNCHANGED tcp /\ lost' = lost \union {m}
            /\ used' = used \union {<<s, "tcp">>} /\ ingress' = ingress
        BY <1>1, <2>2 DEF SendByTcp
      <3>2. used' \subseteq Socks \X {"tcp", "sockhash"} BY <3>1 DEF Inv, Types
      <3>3. ingress' \in [Socks -> Seq(Messages)] /\ RedirectsToAddressed'
        BY <1>1, <3>1 DEF Inv, Types, RedirectsToAddressed, Remote, Local
      <3>4. RedirectorsGated'
        <4> SUFFICES ASSUME NEW u \in Socks, <<u, "sockhash">> \in used'
                     PROVE  life[u] \in {"open", "closed"} /\ Plain(gate[u])
          BY <1>1 DEF RedirectorsGated, Plain
        <4>1. <<u, "sockhash">> \in used BY <3>1
        <4> QED BY <4>1 DEF Inv, RedirectorsGated
      <3>5. CASE Here(p) /\ life[p] \in {"syn", "open"}
        <4> DEFINE q == tcp[p]
                   q1 == Append(q, m)
        <4>1. tcp' = [tcp EXCEPT ![p] = q1] /\ lost' = lost BY <3>1, <3>5
        <4>2. p \in Socks BY <3>5 DEF Here
        <4>3. q \in Seq(Messages) BY <4>2 DEF Inv, Types
        <4>4. q1 \in Seq(Messages) /\ Range(q1) = Range(q) \union {m} BY <1>4, <4>3, AppendRange
        <4> HIDE DEF q1, p
        <4>5. /\ tcp' \in [Socks -> Seq(Messages)] /\ tcp'[p] = q1
              /\ \A u \in Socks \ {p} : tcp'[u] = tcp[u]
          BY <4>1, <4>2, <4>4 DEF Inv, Types
        <4>6. ASSUME NEW x, Kept(x) PROVE Kept(x)'
          <5>1. CASE x \in lost BY <4>1, <5>1 DEF Kept
          <5>2. ASSUME NEW u \in Socks, At(x, u) PROVE At(x, u)'
            BY <1>1, <3>1, <4>4, <4>5, <5>2 DEF At
          <5> QED BY <4>6, <5>1, <5>2 DEF Kept
        <4>7. Kept(m)'
          <5>1. PICK u \in Socks : m \in Range(tcp'[u]) BY <4>2, <4>4, <4>5
          <5> QED BY <5>1 DEF Kept, At
        <4>8. lost' \subseteq Messages BY <4>1 DEF Inv, Types
        <4> QED BY <3>2, <3>3, <3>4, <4>5, <4>6, <4>7, <4>8
      <3>6. CASE ~(Here(p) /\ life[p] \in {"syn", "open"})
        <4>1. tcp' = tcp /\ lost' = lost \union {m} BY <3>1, <3>6
        <4>2. \A x : Kept(x) => Kept(x)' BY <1>1, <3>1, <4>1 DEF Kept, At
        <4>3. Kept(m)' BY <4>1 DEF Kept
        <4>4. tcp' \in [Socks -> Seq(Messages)] /\ lost' \subseteq Messages BY <1>4, <4>1 DEF Inv, Types
        <4> QED BY <3>2, <3>3, <3>4, <4>2, <4>3, <4>4
      <3> QED BY <3>5, <3>6
    <2> QED BY <2>1, <2>2
  <1>8. Types'
    <2>1. /\ life' = life /\ sockhash' = sockhash /\ gate' = gate /\ received' = received BY <1>1
    <2> HIDE <1>1, <1>6
    <2> QED BY <1>5, <1>7, <2>1 DEF Inv, Types
  <1>9. MissFallsThrough'
    <2>1. \A t \in Socks : \A i \in 1..sent[t] : Kept(<<t, i>>) BY KeptMeans DEF Inv
    <2>2. ASSUME NEW t \in Socks, NEW i \in 1..sent'[t] PROVE Kept(<<t, i>>)'
      <3>1. CASE t = s /\ i = n BY <1>7, <3>1 DEF m
      <3>2. CASE ~(t = s /\ i = n)
        <4>1. i \in 1..sent[t] BY <1>0, <1>2, <1>3, <1>5, <2>2, <3>2
        <4> QED BY <1>7, <2>1, <4>1
      <3> QED BY <3>1, <3>2
    <2> QED BY <1>8, <2>2, KeptMeansNext
  <1> QED BY <1>6, <1>7, <1>8, <1>9 DEF Inv

LEMMA ReceiveInv ==
    ASSUME Inv, NEW s \in Socks, Receive(s)
    PROVE  Inv'
  <1> DEFINE i == ingress[s]
             t == tcp[s]
             r == received[s]
  <1>1. /\ i \o t # << >> /\ received' = [received EXCEPT ![s] = Append(r, Head(i \o t))]
        /\ IF i # << >> THEN ingress' = [ingress EXCEPT ![s] = Tail(i)] /\ UNCHANGED tcp
                        ELSE tcp' = [tcp EXCEPT ![s] = Tail(t)] /\ UNCHANGED ingress
        /\ UNCHANGED <<life, sockhash, gate, sent, lost, used>>
    BY DEF Receive
  <1>2. i \in Seq(Messages) /\ t \in Seq(Messages) /\ r \in Seq(Messages) BY DEF Inv, Types
  <1>3. ServersWait' /\ MembersGated' /\ RedirectorsGated'
    BY <1>1 DEF Inv, ServersWait, MembersGated, RedirectorsGated, Here, Peer, Local, Plain
  <1>4. CASE i # << >>
    <2>1. Head(i) \in Messages /\ Tail(i) \in Seq(Messages) /\ Range(i) = {Head(i)} \union Range(Tail(i))
      BY <1>2, <1>4, TailRange
    <2>2. Head(i \o t) = Head(i) BY <1>2, <1>4, HeadConcat
    <2> DEFINE r1 == Append(r, Head(i))
               i1 == Tail(i)
    <2>3. r1 \in Seq(Messages) /\ Range(r1) = Range(r) \union {Head(i)} BY <1>2, <2>1, AppendRange
    <2>4. /\ received' = [received EXCEPT ![s] = r1] /\ ingress' = [ingress EXCEPT ![s] = i1] /\ tcp' = tcp
      BY <1>1, <1>4, <2>2
    <2>5. i1 \in Seq(Messages) /\ Range(i) = {Head(i)} \union Range(i1) BY <2>1
    <2> HIDE DEF r1, i1
    <2>6. /\ received' \in [Socks -> Seq(Messages)] /\ ingress' \in [Socks -> Seq(Messages)]
          /\ received'[s] = r1 /\ ingress'[s] = i1
          /\ \A u \in Socks \ {s} : received'[u] = received[u] /\ ingress'[u] = ingress[u]
      BY <2>3, <2>4, <2>5 DEF Inv, Types
    <2>7. Types' BY <1>1, <2>4, <2>6 DEF Inv, Types
    <2>8. RedirectsToAddressed'
      <3> SUFFICES ASSUME NEW u \in Socks, NEW x \in Range(ingress'[u])
                   PROVE  Remote(x[1]) = Local(u) /\ life[u] = "open"
        BY <1>1 DEF RedirectsToAddressed, Remote, Local
      <3>1. x \in Range(ingress[u]) BY <2>5, <2>6
      <3> QED BY <3>1 DEF Inv, RedirectsToAddressed
    <2>9. ASSUME NEW x, Kept(x) PROVE Kept(x)'
      <3>1. CASE x \in lost BY <1>1, <3>1 DEF Kept
      <3>2. ASSUME NEW u \in Socks, At(x, u) PROVE At(x, u)'
        BY <2>3, <2>4, <2>5, <2>6, <3>2 DEF At
      <3> QED BY <2>9, <3>1, <3>2 DEF Kept
    <2>10. MissFallsThrough' BY <1>1, <2>7, <2>9, StillKept
    <2> QED BY <1>3, <2>7, <2>8, <2>10 DEF Inv
  <1>5. CASE i = << >>
    <2>0. i \o t = t /\ t # << >> BY <1>1, <1>2, <1>5
    <2>1. Head(t) \in Messages /\ Tail(t) \in Seq(Messages) /\ Range(t) = {Head(t)} \union Range(Tail(t))
      BY <1>2, <2>0, TailRange
    <2> DEFINE r1 == Append(r, Head(t))
               t1 == Tail(t)
    <2>3. r1 \in Seq(Messages) /\ Range(r1) = Range(r) \union {Head(t)} BY <1>2, <2>1, AppendRange
    <2>4. /\ received' = [received EXCEPT ![s] = r1] /\ tcp' = [tcp EXCEPT ![s] = t1] /\ ingress' = ingress
      BY <1>1, <1>5, <2>0
    <2>5. t1 \in Seq(Messages) /\ Range(t) = {Head(t)} \union Range(t1) BY <2>1
    <2> HIDE DEF r1, t1
    <2>6. /\ received' \in [Socks -> Seq(Messages)] /\ tcp' \in [Socks -> Seq(Messages)]
          /\ received'[s] = r1 /\ tcp'[s] = t1
          /\ \A u \in Socks \ {s} : received'[u] = received[u] /\ tcp'[u] = tcp[u]
      BY <2>3, <2>4, <2>5 DEF Inv, Types
    <2>7. Types' BY <1>1, <2>4, <2>6 DEF Inv, Types
    <2>8. RedirectsToAddressed' BY <1>1, <2>4 DEF Inv, RedirectsToAddressed, Remote, Local
    <2>9. ASSUME NEW x, Kept(x) PROVE Kept(x)'
      <3>1. CASE x \in lost BY <1>1, <3>1 DEF Kept
      <3>2. ASSUME NEW u \in Socks, At(x, u) PROVE At(x, u)'
        BY <2>3, <2>4, <2>5, <2>6, <3>2 DEF At
      <3> QED BY <2>9, <3>1, <3>2 DEF Kept
    <2>10. MissFallsThrough' BY <1>1, <2>7, <2>9, StillKept
    <2> QED BY <1>3, <2>7, <2>8, <2>10 DEF Inv
  <1> QED BY <1>4, <1>5

LEMMA CloseInv ==
    ASSUME Inv, NEW s \in Socks, Close(s)
    PROVE  Inv'
  <1> DEFINE keys == {k \in DOMAIN sockhash : sockhash[k] # s}
             none == << >>
  <1>1. /\ life[s] \in {"syn", "open"} /\ life' = [life EXCEPT ![s] = "closed"]
        /\ sockhash' = [k \in keys |-> sockhash[k]]
        /\ tcp' = [tcp EXCEPT ![s] = none] /\ ingress' = [ingress EXCEPT ![s] = none]
        /\ lost' = lost \union Range(tcp[s] \o ingress[s])
        /\ UNCHANGED <<gate, sent, received, used>>
    BY DEF Close
  <1>2. DOMAIN sockhash' = keys /\ keys \subseteq DOMAIN sockhash
        /\ \A k \in keys : sockhash'[k] = sockhash[k] /\ sockhash[k] # s
    BY <1>1
  <1>3. IsFiniteSet(DOMAIN sockhash') /\ Cardinality(DOMAIN sockhash') <= MaxEntries
    <2>1. IsFiniteSet(DOMAIN sockhash) /\ Cardinality(DOMAIN sockhash) <= MaxEntries BY DEF Inv, Types
    <2>2. IsFiniteSet(keys) /\ Cardinality(keys) <= Cardinality(DOMAIN sockhash) BY <2>1, <1>2, FS_Subset
    <2>3. Cardinality(keys) \in Nat /\ Cardinality(DOMAIN sockhash) \in Nat /\ MaxEntries \in Nat
      BY <2>1, <2>2, FS_CardinalityType, SockmapAssumption
    <2> HIDE DEF keys
    <2> QED BY <1>2, <2>1, <2>2, <2>3
  <1> HIDE DEF keys
  <1>4. /\ life' \in [Socks -> {"new", "syn", "open", "closed"}] /\ life'[s] = "closed"
        /\ \A t \in Socks \ {s} : life'[t] = life[t]
    BY <1>1 DEF Inv, Types
  <1>5. /\ none \in Seq(Messages) /\ Range(none) = {} BY EmptyRange
  <1> HIDE DEF none
  <1>6. /\ tcp' \in [Socks -> Seq(Messages)] /\ ingress' \in [Socks -> Seq(Messages)]
        /\ tcp'[s] = none /\ ingress'[s] = none
        /\ \A t \in Socks \ {s} : tcp'[t] = tcp[t] /\ ingress'[t] = ingress[t]
    BY <1>1, <1>5 DEF Inv, Types
  <1>7. /\ Range(tcp[s] \o ingress[s]) = Range(tcp[s]) \union Range(ingress[s])
        /\ Range(tcp[s]) \subseteq Messages /\ Range(ingress[s]) \subseteq Messages
    BY ConcatRange, RangeSub DEF Inv, Types
  <1>8. Types'
    <2>1. lost' \subseteq Messages BY <1>1, <1>7 DEF Inv, Types
    <2>2. \A k \in DOMAIN sockhash' : sockhash'[k] \in Socks BY <1>2 DEF Inv, Types
    <2> QED BY <1>1, <1>3, <1>4, <1>6, <2>1, <2>2 DEF Inv, Types
  <1>9. ServersWait'
    <2> SUFFICES ASSUME NEW t \in Socks, t.role = "client", life'[t] = "new", Here(Peer(t))
                 PROVE  life'[Peer(t)] = "new"
      BY DEF ServersWait, Here, Peer
    <2>1. life[t] = "new" BY <1>4
    <2>2. life[Peer(t)] = "new" /\ Peer(t) \in Socks BY <2>1 DEF Inv, ServersWait, Here
    <2> QED BY <1>1, <1>4, <2>2
  <1>10. MembersGated'
    <2> SUFFICES ASSUME NEW k \in keys
                 PROVE  /\ Local(sockhash[k]) = k /\ life'[sockhash[k]] = "open" /\ Plain(gate[sockhash[k]])
      BY <1>1, <1>2 DEF MembersGated, Local, Plain
    <2> QED BY <1>2, <1>4 DEF Inv, Types, MembersGated
  <1>11. RedirectorsGated' BY <1>1, <1>4 DEF Inv, RedirectorsGated, Plain
  <1>12. RedirectsToAddressed'
    <2> SUFFICES ASSUME NEW u \in Socks, NEW x \in Range(ingress'[u])
                 PROVE  Remote(x[1]) = Local(u) /\ life'[u] = "open"
      BY DEF RedirectsToAddressed, Remote, Local
    <2>1. u # s /\ x \in Range(ingress[u]) BY <1>5, <1>6
    <2> QED BY <1>4, <2>1 DEF Inv, RedirectsToAddressed
  <1>13. ASSUME NEW x, Kept(x) PROVE Kept(x)'
    <2>1. CASE x \in lost BY <1>1, <2>1 DEF Kept
    <2>2. ASSUME NEW u \in Socks, At(x, u) PROVE Kept(x)'
      <3>1. CASE u = s /\ x \notin Range(received[s]) BY <1>1, <1>7, <2>2, <3>1 DEF At, Kept
      <3>2. CASE x \in Range(received[u]) BY <1>1, <3>2 DEF At, Kept
      <3>3. CASE u # s
        <4>1. At(x, u)' BY <1>1, <1>6, <2>2, <3>3 DEF At
        <4> QED BY <4>1 DEF Kept
      <3> QED BY <3>1, <3>2, <3>3
    <2> QED BY <1>13, <2>1, <2>2 DEF Kept
  <1>14. MissFallsThrough' BY <1>1, <1>8, <1>13, StillKept
  <1> QED BY <1>8, <1>9, <1>10, <1>11, <1>12, <1>14 DEF Inv

-----------------------------------------------------------------------------

LEMMA InitInv == Init => Inv
  <1> SUFFICES ASSUME Init PROVE Inv OBVIOUS
  <1> USE DEF Init
  <1>1. DOMAIN sockhash = {} OBVIOUS
  <1>2. Types BY <1>1, EmptyRange, FS_EmptySet, SockmapAssumption DEF Types
  <1>3. ServersWait /\ MembersGated /\ RedirectorsGated
    BY <1>1 DEF ServersWait, MembersGated, RedirectorsGated, Here
  <1>4. RedirectsToAddressed BY EmptyRange DEF RedirectsToAddressed
  <1>5. MissFallsThrough
    <2>1. \A s \in Socks : 1..sent[s] = {} OBVIOUS
    <2> QED BY <2>1 DEF MissFallsThrough
  <1> QED BY <1>2, <1>3, <1>4, <1>5 DEF Inv

LEMMA NextInv == Inv /\ [Next]_vars => Inv'
  <1> SUFFICES ASSUME Inv, [Next]_vars PROVE Inv' OBVIOUS
  <1>1. CASE UNCHANGED vars
    <2> USE <1>1 DEF vars
    <2>1. Types' BY DEF Inv, Types
    <2>2. ServersWait' /\ MembersGated' /\ RedirectorsGated' /\ RedirectsToAddressed'
      BY DEF Inv, ServersWait, MembersGated, RedirectorsGated, RedirectsToAddressed,
             Here, Peer, Local, Remote, Plain
    <2>3. MissFallsThrough' BY DEF Inv, MissFallsThrough, Queue
    <2> QED BY <2>1, <2>2, <2>3 DEF Inv
  <1> QED BY <1>1, ActiveInv, PassiveInv, SendInv, ReceiveInv, CloseInv DEF Next

LEMMA Invariance == Spec => []Inv
  BY InitInv, NextInv, PTL DEF Spec

\* sockhash never outgrows its size and holds sockets of the node.
THEOREM SockhashFits == Spec => []TypeOK
  <1>1. ASSUME Inv PROVE TypeOK
    <2>1. \A s \in Socks : Range(tcp[s] \o ingress[s] \o received[s]) \subseteq Messages
      <3> SUFFICES ASSUME NEW s \in Socks, NEW m \in Range(tcp[s] \o ingress[s] \o received[s])
                   PROVE  m \in Messages
        OBVIOUS
      <3>1. m \in Range(tcp[s]) \/ m \in Range(ingress[s]) \/ m \in Range(received[s])
        BY <1>1, InQueues DEF Inv, Types
      <3> QED BY <1>1, <3>1, RangeSub DEF Inv, Types
    <2>2. Range(sockhash) \subseteq Socks BY <1>1 DEF Inv, Types, Range
    <2>3. \A s \in Socks : sent[s] \in 0..MaxSends(s) BY <1>1, SockmapAssumption DEF Inv, Types
    <2> QED BY <1>1, <2>1, <2>2, <2>3 DEF Inv, Types, TypeOK
  <1> QED BY Invariance, <1>1, PTL

\* sk_msg.c: a redirected message waits at an open socket of the address the
\* sender addressed.
THEOREM RedirectsLand == Spec => []RedirectsToAddressed
  <1>1. Inv => RedirectsToAddressed BY DEF Inv
  <1> QED BY Invariance, <1>1, PTL

\* ADR-0007: no flow that needs L7 or mTLS, or was not allowed when it was
\* established, ever takes the shortcut.
THEOREM OnlyEligible == Spec => []IneligibleNeverRedirects
  <1>1. Inv => IneligibleNeverRedirects BY DEF Inv, RedirectorsGated, Plain, IneligibleNeverRedirects
  <1> QED BY Invariance, <1>1, PTL

-----------------------------------------------------------------------------
(* Streams: what one path delivers is in order *)

\* q holds the messages of s's peer from the one after n on, without gaps.
From(q, s, n) == \A i \in 1..Len(q) : q[i] = <<Peer(s), n + i>>

OnePath(s) == ~({Peer(s)} \X {"tcp", "sockhash"} \subseteq used)

\* Nothing has reached a socket that was never opened, nor has its peer begun.
Fresh ==
    \A s \in Socks : life[s] = "new" =>
        /\ sent[s] = 0 /\ tcp[s] = << >> /\ ingress[s] = << >> /\ received[s] = << >>
        /\ Here(Peer(s)) => life[Peer(s)] = "new"

\* The streams that are in order.
Ordered(s) == s.role = "client" \/ OnePath(s)

\* A path that was not used has nothing under way.  In an ordered stream what was
\* read, what waits in the ingress queue and what came by TCP are, one after the
\* other, the peer's messages, and all of them unless the socket has closed.
Stream(s) ==
    /\ <<Peer(s), "tcp">> \notin used => tcp[s] = << >>
    /\ <<Peer(s), "sockhash">> \notin used => ingress[s] = << >>
    /\ Ordered(s) =>
         /\ From(received[s], s, 0)
         /\ From(ingress[s], s, Len(received[s]))
         /\ From(tcp[s], s, Len(received[s]) + Len(ingress[s]))
         /\ Here(Peer(s)) /\ life[s] # "closed" =>
              Len(received[s]) + Len(tcp[s]) + Len(ingress[s]) = sent[Peer(s)]

Streams == \A s \in Socks : Sole(s) => Stream(s)

\* A socket that has sent was established.
Began == \A u \in Socks : <<u, "tcp">> \in used => life[u] \in {"open", "closed"}

\* A server that has once sent to a client by TCP redirects to it no more.
NoReturn ==
    \A s \in Socks : Sole(s) /\ s.role = "client" /\ <<Peer(s), "tcp">> \in used => ~Hit(Peer(s))

StreamInv == Inv /\ Fresh /\ Streams /\ Began /\ NoReturn

LEMMA OnePathMeans ==
    ASSUME NEW s
    PROVE  /\ OnePath(s) <=> <<Peer(s), "tcp">> \notin used \/ <<Peer(s), "sockhash">> \notin used
           /\ OnePath(s)' <=> <<Peer(s), "tcp">> \notin used' \/ <<Peer(s), "sockhash">> \notin used'
  <1>1. {Peer(s)} \X {"tcp", "sockhash"} = {<<Peer(s), "tcp">>, <<Peer(s), "sockhash">>} OBVIOUS
  <1> QED BY <1>1 DEF OnePath, Peer

LEMMA OrderedMeans ==
    ASSUME NEW s
    PROVE  /\ Ordered(s) <=> \/ s.role = "client" \/ <<Peer(s), "tcp">> \notin used
                             \/ <<Peer(s), "sockhash">> \notin used
           /\ Ordered(s)' <=> \/ s.role = "client" \/ <<Peer(s), "tcp">> \notin used'
                              \/ <<Peer(s), "sockhash">> \notin used'
  BY OnePathMeans DEF Ordered

LEMMA EmptyFrom == ASSUME NEW s, NEW n PROVE From(<< >>, s, n)
  <1>1. Len(<< >>) = 0 OBVIOUS
  <1> QED BY <1>1 DEF From

LEMMA AppendFrom ==
    ASSUME NEW s, NEW n \in Nat, NEW q \in Seq(Messages), From(q, s, n),
           NEW m \in Messages, m = <<Peer(s), n + (Len(q) + 1)>>
    PROVE  From(Append(q, m), s, n) /\ Len(Append(q, m)) = Len(q) + 1
  <1> DEFINE r == Append(q, m)
  <1>1. /\ Len(r) = Len(q) + 1 /\ r[Len(q) + 1] = m /\ Len(q) \in Nat
        /\ \A i \in 1..Len(q) : r[i] = q[i]
    OBVIOUS
  <1> HIDE DEF r
  <1>2. ASSUME NEW i \in 1..Len(r) PROVE r[i] = <<Peer(s), n + i>>
    <2>1. CASE i = Len(q) + 1 BY <1>1, <2>1
    <2>2. CASE i # Len(q) + 1
      <3>1. i \in 1..Len(q) BY <1>1, <2>2
      <3> QED BY <1>1, <3>1 DEF From
    <2> QED BY <2>1, <2>2
  <1>3. From(r, s, n) BY <1>2 DEF From
  <1> QED BY <1>1, <1>3 DEF r

LEMMA TailFrom ==
    ASSUME NEW s, NEW n \in Nat, NEW q \in Seq(Messages), q # << >>, From(q, s, n)
    PROVE  /\ Head(q) = <<Peer(s), n + 1>> /\ From(Tail(q), s, n + 1)
           /\ Len(q) \in Nat /\ Len(q) >= 1 /\ Len(Tail(q)) = Len(q) - 1
  <1> DEFINE r == Tail(q)
  <1>1. /\ Head(q) = q[1] /\ Len(q) \in Nat /\ Len(q) >= 1 /\ Len(r) = Len(q) - 1
        /\ \A i \in 1..Len(r) : r[i] = q[i + 1]
    OBVIOUS
  <1> HIDE DEF r
  <1>2. ASSUME NEW i \in 1..Len(r) PROVE r[i] = <<Peer(s), (n + 1) + i>>
    <2>1. i + 1 \in 1..Len(q) /\ n + (i + 1) = (n + 1) + i BY <1>1
    <2>2. q[i + 1] = <<Peer(s), n + (i + 1)>> BY <2>1 DEF From
    <2> QED BY <1>1, <2>1, <2>2
  <1>3. Head(q) = <<Peer(s), n + 1>>
    <2>1. 1 \in 1..Len(q) BY <1>1
    <2> QED BY <1>1, <2>1 DEF From
  <1>4. From(r, s, n + 1) BY <1>2 DEF From
  <1> QED BY <1>1, <1>3, <1>4 DEF r

\* Only the peer of a socket that is alone at its address can address it.
LEMMA SoleSender ==
    ASSUME NEW s \in Socks, Sole(s), NEW u \in Socks, Remote(u) = Local(s) \/ Peer(u) = s
    PROVE  u = Peer(s)
  <1>1. CASE Peer(u) = s BY <1>1, PeerRole
  <1>2. CASE Remote(u) = Local(s)
    <2>1. Peer(u) \in Socks BY <1>2, SockmapAssumption DEF Here
    <2>2. Local(Peer(u)) = Remote(u) BY DEF Local, Remote, Peer
    <2>3. Peer(u) = s BY <1>2, <2>1, <2>2 DEF Sole
    <2> QED BY <2>3, PeerRole
  <1> QED BY <1>1, <1>2

\* A step that touches neither the stream nor its socket's end.
LEMMA SameStream ==
    ASSUME NEW s \in Socks, Stream(s),
           tcp'[s] = tcp[s], ingress'[s] = ingress[s], received'[s] = received[s],
           life'[s] # "closed" => life[s] # "closed",
           Here(Peer(s)) => sent'[Peer(s)] = sent[Peer(s)],
           <<Peer(s), "tcp">> \in used' <=> <<Peer(s), "tcp">> \in used,
           <<Peer(s), "sockhash">> \in used' <=> <<Peer(s), "sockhash">> \in used
    PROVE  Stream(s)'
  <1>1. Ordered(s)' <=> Ordered(s) BY OrderedMeans
  <1> QED BY <1>1 DEF Stream, From, Here, Peer

LEMMA FreshNext ==
    ASSUME StreamInv, Next
    PROVE  Fresh'
  <1> SUFFICES ASSUME NEW t \in Socks, life'[t] = "new"
               PROVE  /\ sent'[t] = 0 /\ tcp'[t] = << >> /\ ingress'[t] = << >> /\ received'[t] = << >>
                      /\ Here(Peer(t)) => life'[Peer(t)] = "new"
    BY DEF Fresh, Here, Peer
  <1>1. /\ life \in [Socks -> {"new", "syn", "open", "closed"}] /\ DOMAIN sent = Socks
        /\ DOMAIN tcp = Socks /\ DOMAIN ingress = Socks /\ DOMAIN received = Socks
    BY DEF StreamInv, Inv, Types
  <1>2. ASSUME life[t] = "new"
        PROVE  /\ sent[t] = 0 /\ tcp[t] = << >> /\ ingress[t] = << >> /\ received[t] = << >>
               /\ Peer(t) \in Socks => life[Peer(t)] = "new"
    BY <1>2 DEF StreamInv, Fresh, Here
  <1>3. ASSUME NEW s \in Socks, ActiveEstablished(s) \/ PassiveEstablished(s) PROVE
          /\ life[t] = "new" /\ UNCHANGED <<tcp, sent, received>>
          /\ Here(Peer(t)) => life'[Peer(t)] = "new"
    <2>1. CASE ActiveEstablished(s)
      <3>1. /\ life' = [x \in Socks |-> IF x = s THEN "open" ELSE IF x = Peer(s) THEN "syn" ELSE life[x]]
            /\ UNCHANGED <<tcp, sent, received>>
        BY <2>1 DEF ActiveEstablished
      <3>2. t # s /\ t # Peer(s) /\ life[t] = "new" BY <3>1
      <3>3. Peer(t) # s /\ Peer(t) # Peer(s) BY <3>2, PeerRole
      <3> QED BY <1>2, <3>1, <3>2, <3>3 DEF Here
    <2>2. CASE PassiveEstablished(s)
      <3>1. /\ life' = [life EXCEPT ![s] = "open"] /\ UNCHANGED <<tcp, sent, received>>
            /\ Here(Peer(s)) => life[s] = "syn"
        BY <2>2 DEF PassiveEstablished
      <3>2. t # s /\ life[t] = "new" BY <1>1, <3>1
      <3>3. ASSUME Peer(t) = s PROVE FALSE
        <4>1. Peer(s) = t BY <3>3, PeerRole
        <4>2. life[s] = "syn" /\ life[s] = "new" BY <1>2, <3>1, <3>2, <3>3, <4>1 DEF Here
        <4> QED BY <4>2
      <3> QED BY <1>1, <1>2, <3>1, <3>2, <3>3 DEF Here
    <2> QED BY <1>3, <2>1, <2>2
  <1>4. ASSUME NEW s \in Socks, NEW v, try_insert(s, v), ingress[t] = << >> PROVE ingress'[t] = << >>
    BY <1>4 DEF try_insert
  <1>5. ASSUME NEW s \in Socks, ActiveEstablished(s) \/ PassiveEstablished(s) PROVE ingress'[t] = << >>
    <2>1. life[t] = "new" BY <1>3, <1>5
    <2>2. \E v : try_insert(s, v) BY <1>5 DEF ActiveEstablished, PassiveEstablished
    <2> QED BY <1>2, <1>4, <2>1, <2>2
  <1>6. ASSUME NEW s \in Socks, Send(s)
        PROVE  /\ sent'[t] = 0 /\ tcp'[t] = << >> /\ ingress'[t] = << >> /\ received'[t] = << >>
               /\ Here(Peer(t)) => life'[Peer(t)] = "new"
    <2> DEFINE m == <<s, sent[s] + 1>>
    <2>1. /\ life[s] = "open" /\ sent' = [sent EXCEPT ![s] = sent[s] + 1]
          /\ UNCHANGED <<life, sockhash, gate, received>>
          /\ IF Hit(s) THEN meridian_sk_msg(s, m) ELSE SendByTcp(s, m)
      BY <1>6 DEF Send
    <2>2. life[t] = "new" /\ t # s BY <2>1
    <2> HIDE DEF m
    <2>3. CASE Hit(s)
      <3>1. /\ ingress' = [ingress EXCEPT ![sockhash[Remote(s)]] = Append(@, m)] /\ tcp' = tcp
        BY <2>1, <2>3 DEF meridian_sk_msg
      <3>2. t # sockhash[Remote(s)] BY <2>2, <2>3 DEF Hit, StreamInv, Inv, MembersGated
      <3> QED BY <1>1, <1>2, <2>1, <2>2, <3>1, <3>2 DEF Here
    <2>4. CASE ~Hit(s)
      <3>1. /\ IF Here(Peer(s)) /\ life[Peer(s)] \in {"syn", "open"}
               THEN tcp' = [tcp EXCEPT ![Peer(s)] = Append(@, m)] ELSE tcp' = tcp
            /\ ingress' = ingress
        BY <2>1, <2>4 DEF SendByTcp
      <3>2. tcp'[t] = tcp[t] BY <1>1, <2>2, <3>1
      <3> QED BY <1>1, <1>2, <2>1, <2>2, <3>1, <3>2 DEF Here
    <2> QED BY <2>3, <2>4
  <1>7. ASSUME NEW s \in Socks, Receive(s) \/ Close(s)
        PROVE  /\ sent'[t] = 0 /\ tcp'[t] = << >> /\ ingress'[t] = << >> /\ received'[t] = << >>
               /\ Here(Peer(t)) => life'[Peer(t)] = "new"
    <2>1. /\ life[s] # "new" /\ life'[s] # "new" /\ UNCHANGED sent
          /\ \A x \in Socks \ {s} : /\ life'[x] = life[x] /\ tcp'[x] = tcp[x]
                                    /\ ingress'[x] = ingress[x] /\ received'[x] = received[x]
      BY <1>1, <1>7 DEF Receive, Close
    <2>2. t # s /\ life[t] = "new" BY <2>1
    <2>3. Peer(t) \in Socks => Peer(t) # s BY <1>2, <2>1, <2>2
    <2> QED BY <1>2, <2>1, <2>2, <2>3 DEF Here
  <1> QED BY <1>2, <1>3, <1>5, <1>6, <1>7 DEF Next

\* An establishment replaces no socket that is alone at its address.
LEMMA EstablishStream ==
    ASSUME StreamInv, NEW s \in Socks, ActiveEstablished(s) \/ PassiveEstablished(s),
           NEW t \in Socks, Sole(t)
    PROVE  Stream(t)'
  <1>1. /\ UNCHANGED <<tcp, sent, received, used>> /\ life[s] \in {"new", "syn"}
    BY DEF ActiveEstablished, PassiveEstablished
  <1>2. PICK v : try_insert(s, v) BY DEF ActiveEstablished, PassiveEstablished
  <1>3. ingress'[t] = ingress[t]
    <2>1. CASE UNCHANGED ingress BY <2>1
    <2>2. CASE ~UNCHANGED ingress
      <3>1. ingress' = [x \in Socks |-> IF x \in (IF Local(s) \in DOMAIN sockhash
                                                  THEN {sockhash[Local(s)]} ELSE {})
                                       THEN << >> ELSE ingress[x]]
        BY <1>2, <2>2 DEF try_insert, sock_key
      <3>2. ASSUME Local(s) \in DOMAIN sockhash PROVE sockhash[Local(s)] # t
        <4>1. Local(sockhash[Local(s)]) = Local(s) /\ life[sockhash[Local(s)]] = "open"
          BY <3>2 DEF StreamInv, Inv, MembersGated
        <4>2. sockhash[Local(s)] # s BY <1>1, <4>1
        <4> QED BY <4>1, <4>2 DEF Sole
      <3> QED BY <3>1, <3>2
    <2> QED BY <2>1, <2>2
  <1>4. life[t] = "closed" => life'[t] = "closed"
    <2>1. CASE ActiveEstablished(s)
      <3>1. life' = [x \in Socks |-> IF x = s THEN "open" ELSE IF x = Peer(s) THEN "syn" ELSE life[x]]
        BY <2>1 DEF ActiveEstablished
      <3>2. life[s] = "new" BY <2>1 DEF ActiveEstablished
      <3>3. t = Peer(s) => life[t] = "new" BY <3>2 DEF StreamInv, Fresh, Here
      <3> QED BY <3>1, <3>2, <3>3
    <2>2. CASE PassiveEstablished(s)
      <3>1. life' = [life EXCEPT ![s] = "open"] BY <2>2 DEF PassiveEstablished
      <3> QED BY <1>1, <3>1 DEF StreamInv, Inv, Types
    <2> QED BY <2>1, <2>2
  <1>5. Stream(t) BY DEF StreamInv, Streams
  <1> QED BY <1>1, <1>3, <1>4, <1>5, SameStream

LEMMA CloseStream ==
    ASSUME StreamInv, NEW s \in Socks, Close(s), NEW t \in Socks, Sole(t)
    PROVE  Stream(t)'
  <1>1. /\ DOMAIN tcp = Socks /\ DOMAIN ingress = Socks /\ DOMAIN life = Socks
        /\ received[t] \in Seq(Messages) /\ Len(received[t]) \in Nat
    BY DEF StreamInv, Inv, Types
  <1>2. Stream(t) BY DEF StreamInv, Streams
  <1>3. /\ life' = [life EXCEPT ![s] = "closed"] /\ UNCHANGED <<gate, sent, received, used>>
        /\ tcp' = [tcp EXCEPT ![s] = << >>] /\ ingress' = [ingress EXCEPT ![s] = << >>]
    BY DEF Close
  <1>4. CASE t # s BY <1>1, <1>2, <1>3, <1>4, SameStream
  <1>5. CASE t = s
    <2>1. tcp'[t] = << >> /\ ingress'[t] = << >> /\ life'[t] = "closed" BY <1>1, <1>3, <1>5
    <2>2. /\ From(<< >>, t, Len(received[t]))
          /\ From(<< >>, t, Len(received[t]) + Len(<< >>))
      BY EmptyFrom
    <2>3. Ordered(t)' <=> Ordered(t) BY <1>3, OrderedMeans
    <2> QED BY <1>2, <1>3, <2>1, <2>2, <2>3 DEF Stream, From, Peer
  <1> QED BY <1>4, <1>5

LEMMA SendStream ==
    ASSUME StreamInv, NEW u \in Socks, Send(u), NEW s \in Socks, Sole(s)
    PROVE  Stream(s)'
  <1>0. PICK n : n = sent[u] + 1 OBVIOUS
  <1> DEFINE m == <<u, n>>
             r == received[s]
  <1>1. /\ life[u] = "open" /\ sent[u] < MaxSends(u) /\ sent' = [sent EXCEPT ![u] = n]
        /\ UNCHANGED <<life, sockhash, gate, received>>
        /\ IF Hit(u) THEN meridian_sk_msg(u, m) ELSE SendByTcp(u, m)
    BY <1>0 DEF Send
  <1>2. /\ DOMAIN tcp = Socks /\ DOMAIN ingress = Socks /\ DOMAIN sent = Socks
        /\ tcp[s] \in Seq(Messages) /\ ingress[s] \in Seq(Messages) /\ r \in Seq(Messages)
        /\ sent[u] \in Nat /\ MaxSends(u) \in Nat
    BY SockmapAssumption DEF StreamInv, Inv, Types
  <1>3. m \in Messages
    <2>1. n \in 1..MaxSends(u) BY <1>0, <1>1, <1>2
    <2> QED BY <2>1 DEF Messages
  <1>4. Stream(s) BY DEF StreamInv, Streams
  <1>5. Len(r) \in Nat /\ Len(tcp[s]) \in Nat /\ Len(ingress[s]) \in Nat BY <1>2
  <1> HIDE DEF m, r
  <1>6. CASE u # Peer(s)
    <2>1. tcp'[s] = tcp[s] /\ ingress'[s] = ingress[s]
      <3>1. CASE Hit(u)
        <4>1. ingress' = [ingress EXCEPT ![sockhash[Remote(u)]] = Append(@, m)] /\ tcp' = tcp
          BY <1>1, <3>1 DEF meridian_sk_msg
        <4>2. Local(sockhash[Remote(u)]) = Remote(u) BY <3>1 DEF Hit, StreamInv, Inv, MembersGated
        <4>3. sockhash[Remote(u)] # s BY <1>6, <4>2, SoleSender
        <4> QED BY <1>2, <4>1, <4>3
      <3>2. CASE ~Hit(u)
        <4>1. /\ IF Here(Peer(u)) /\ life[Peer(u)] \in {"syn", "open"}
                 THEN tcp' = [tcp EXCEPT ![Peer(u)] = Append(@, m)] ELSE tcp' = tcp
              /\ ingress' = ingress
          BY <1>1, <3>2 DEF SendByTcp
        <4>2. Peer(u) # s BY <1>6, SoleSender
        <4> QED BY <1>2, <4>1, <4>2
      <3> QED BY <3>1, <3>2
    <2>2. used' \in {used \union {<<u, "tcp">>}, used \union {<<u, "sockhash">>}}
      BY <1>1 DEF meridian_sk_msg, SendByTcp
    <2>3. /\ <<Peer(s), "tcp">> \in used' <=> <<Peer(s), "tcp">> \in used
          /\ <<Peer(s), "sockhash">> \in used' <=> <<Peer(s), "sockhash">> \in used
      BY <1>6, <2>2
    <2>4. Here(Peer(s)) => sent'[Peer(s)] = sent[Peer(s)] BY <1>1, <1>2, <1>6 DEF Here
    <2> QED BY <1>1, <1>4, <2>1, <2>3, <2>4, SameStream
  <1>7. CASE u = Peer(s)
    <2>1. Here(Peer(s)) /\ Peer(u) = s BY <1>7, PeerRole DEF Here
    <2>2. life[s] # "new" BY <1>1, <1>7, <2>1 DEF StreamInv, Fresh
    <2>3. received'[s] = r /\ life'[s] = life[s] /\ sent'[Peer(s)] = n
      BY <1>1, <1>2, <1>7 DEF r
    <2>4. CASE Hit(u)
      <3> DEFINE q == ingress[s]
                 q1 == Append(q, m)
      <3>1. /\ ingress' = [ingress EXCEPT ![sockhash[Remote(u)]] = Append(@, m)]
            /\ used' = used \union {<<u, "sockhash">>} /\ tcp' = tcp
        BY <1>1, <2>4 DEF meridian_sk_msg
      <3>2. sockhash[Remote(u)] = s /\ life[s] = "open"
        <4>1. /\ sockhash[Remote(u)] \in Socks /\ Local(sockhash[Remote(u)]) = Remote(u)
              /\ life[sockhash[Remote(u)]] = "open"
          BY <2>4 DEF Hit, StreamInv, Inv, Types, MembersGated
        <4>2. Remote(u) = Local(s) BY <2>1 DEF Remote, Local, Peer
        <4> QED BY <4>1, <4>2 DEF Sole
      <3>3. ingress'[s] = q1 /\ tcp'[s] = tcp[s] BY <1>2, <3>1, <3>2
      <3>4. <<Peer(s), "sockhash">> \in used' /\ (<<Peer(s), "tcp">> \in used' <=> <<Peer(s), "tcp">> \in used)
        BY <1>7, <3>1
      <3>5. ASSUME Ordered(s)'
            PROVE  /\ From(r, s, 0) /\ From(tcp[s], s, Len(r) + Len(q1)) /\ From(q1, s, Len(r))
                   /\ Len(r) + Len(tcp[s]) + Len(q1) = n
        <4>1. <<Peer(s), "tcp">> \notin used /\ Ordered(s)
          BY <1>7, <2>4, <3>4, <3>5, OrderedMeans DEF StreamInv, NoReturn
        <4>2. tcp[s] = << >> /\ Len(tcp[s]) = 0 BY <1>4, <4>1 DEF Stream
        <4>3. /\ From(r, s, 0) /\ From(q, s, Len(r))
              /\ Len(r) + Len(tcp[s]) + Len(q) = sent[u]
          BY <1>4, <1>7, <2>1, <3>2, <4>1 DEF Stream, r
        <4>6. From(tcp[s], s, Len(r) + Len(q1)) BY <4>2, EmptyFrom
        <4>4. m = <<Peer(s), Len(r) + (Len(q) + 1)>> BY <1>0, <1>5, <1>7, <4>2, <4>3 DEF m
        <4>5. From(q1, s, Len(r)) /\ Len(q1) = Len(q) + 1
          BY <1>2, <1>3, <1>5, <4>3, <4>4, AppendFrom
        <4> HIDE DEF q1
        <4> QED BY <1>0, <1>5, <4>2, <4>3, <4>5, <4>6
      <3> HIDE DEF q1
      <3> QED BY <1>4, <1>7, <2>3, <3>3, <3>4, <3>5 DEF Stream, From, Peer
    <2>5. CASE ~Hit(u)
      <3> DEFINE q == tcp[s]
                 q1 == Append(q, m)
      <3>1. /\ IF life[s] \in {"syn", "open"} THEN tcp' = [tcp EXCEPT ![s] = q1] ELSE tcp' = tcp
            /\ used' = used \union {<<u, "tcp">>} /\ ingress' = ingress
        BY <1>1, <2>1, <2>5 DEF SendByTcp, Here
      <3>2. <<Peer(s), "tcp">> \in used' /\ (<<Peer(s), "sockhash">> \in used' <=> <<Peer(s), "sockhash">> \in used)
        BY <1>7, <3>1
      <3>3. Ordered(s)' => Ordered(s) BY <3>2, OrderedMeans
      <3>4. CASE life[s] \in {"syn", "open"}
        <4>1. tcp'[s] = q1 BY <1>2, <3>1, <3>4
        <4>2. ASSUME Ordered(s)'
              PROVE  /\ From(r, s, 0) /\ From(ingress[s], s, Len(r))
                     /\ From(q1, s, Len(r) + Len(ingress[s]))
                     /\ Len(r) + Len(q1) + Len(ingress[s]) = n
          <5>1. Ordered(s) BY <3>3, <4>2
          <5> DEFINE b == Len(r) + Len(ingress[s])
          <5>2. /\ From(r, s, 0) /\ From(ingress[s], s, Len(r)) /\ From(q, s, b)
                /\ Len(r) + Len(q) + Len(ingress[s]) = sent[u]
            BY <1>4, <1>7, <2>1, <3>4, <5>1 DEF Stream, r
          <5>3. b \in Nat /\ n = b + (Len(q) + 1)
            <6>1. PICK x \in Nat, y \in Nat, z \in Nat : x = Len(r) /\ y = Len(q) /\ z = Len(ingress[s])
              BY <1>5
            <6>2. x + y + z = sent[u] BY <5>2, <6>1
            <6>3. x + z \in Nat /\ n = x + z + (y + 1) BY <1>0, <6>2
            <6> QED BY <6>1, <6>3
          <5>4. m = <<Peer(s), b + (Len(q) + 1)>> BY <1>7, <5>3 DEF m
          <5>5. From(q1, s, b) /\ Len(q1) = Len(q) + 1
            <6> HIDE DEF b
            <6> QED BY <1>2, <1>3, <5>2, <5>3, <5>4, AppendFrom
          <5>6. Len(r) + Len(q1) + Len(ingress[s]) = n
            <6>1. PICK x \in Nat, y \in Nat, z \in Nat : x = Len(r) /\ y = Len(q) /\ z = Len(ingress[s])
              BY <1>5
            <6>2. n = x + z + (y + 1) BY <5>3, <6>1
            <6>3. Len(q1) = y + 1 BY <5>5, <6>1
            <6>4. x + (y + 1) + z = n BY <6>2
            <6> HIDE DEF q, q1
            <6> QED BY <6>1, <6>3, <6>4
          <5> HIDE DEF q1
          <5> QED BY <5>2, <5>5, <5>6
        <4> HIDE DEF q1
        <4> QED BY <1>4, <1>7, <2>3, <3>1, <3>2, <4>1, <4>2 DEF Stream, From, Peer
      <3>5. CASE life[s] \notin {"syn", "open"}
        <4>1. life[s] = "closed" BY <2>2, <3>5 DEF StreamInv, Inv, Types
        <4>2. tcp'[s] = tcp[s] /\ ingress'[s] = ingress[s] BY <3>1, <3>5
        <4> HIDE DEF q1
        <4> QED BY <1>4, <2>3, <3>2, <3>3, <4>1, <4>2 DEF Stream, From, Peer, r
      <3> QED BY <3>4, <3>5
    <2> QED BY <2>4, <2>5
  <1> QED BY <1>6, <1>7

\* A step between the queues of s that keeps their order and their total.
LEMMA MovedStream ==
    ASSUME NEW s \in Socks, Stream(s), UNCHANGED <<life, sent, used>>, Ordered(s)' <=> Ordered(s),
           NEW r, NEW t, NEW i, received'[s] = r, tcp'[s] = t, ingress'[s] = i,
           <<Peer(s), "tcp">> \notin used => t = << >>,
           <<Peer(s), "sockhash">> \notin used => i = << >>,
           Ordered(s) =>
             /\ From(r, s, 0) /\ From(t, s, Len(r) + Len(i)) /\ From(i, s, Len(r))
             /\ Len(r) + Len(t) + Len(i) = Len(received[s]) + Len(tcp[s]) + Len(ingress[s])
    PROVE  Stream(s)'
  <1>1. /\ <<Peer(s), "tcp">> \notin used' => tcp'[s] = << >>
        /\ <<Peer(s), "sockhash">> \notin used' => ingress'[s] = << >>
    OBVIOUS
  <1>2. ASSUME Ordered(s)
        PROVE  /\ From(received'[s], s, 0) /\ From(ingress'[s], s, Len(received'[s]))
               /\ From(tcp'[s], s, Len(received'[s]) + Len(ingress'[s]))
    BY <1>2
  <1>3. ASSUME Ordered(s), Here(Peer(s)), life'[s] # "closed"
        PROVE  Len(received'[s]) + Len(tcp'[s]) + Len(ingress'[s]) = sent'[Peer(s)]
    <2>1. Len(received[s]) + Len(tcp[s]) + Len(ingress[s]) = sent[Peer(s)] BY <1>3 DEF Stream
    <2> QED BY <1>3, <2>1
  <1> QED BY <1>1, <1>2, <1>3 DEF Stream, From, Here, Peer

LEMMA ReceiveStream ==
    ASSUME StreamInv, NEW u \in Socks, Receive(u), NEW s \in Socks, Sole(s)
    PROVE  Stream(s)'
  <1> DEFINE i == ingress[s]
             t == tcp[s]
             r == received[s]
  <1>1. /\ DOMAIN tcp = Socks /\ DOMAIN ingress = Socks /\ DOMAIN received = Socks
        /\ i \in Seq(Messages) /\ t \in Seq(Messages) /\ r \in Seq(Messages)
    BY DEF StreamInv, Inv, Types
  <1>2. Stream(s) BY DEF StreamInv, Streams
  <1>3. UNCHANGED <<life, sockhash, gate, sent, lost, used>> BY DEF Receive
  <1>4. Ordered(s)' <=> Ordered(s) BY <1>3, OrderedMeans
  <1>5. Len(r) \in Nat /\ Len(i) \in Nat /\ Len(t) \in Nat BY <1>1
  <1>6. CASE s # u
    <2>1. tcp'[s] = tcp[s] /\ ingress'[s] = ingress[s] /\ received'[s] = received[s]
      BY <1>1, <1>6 DEF Receive
    <2> QED BY <1>2, <1>3, <2>1, SameStream
  <1>7. CASE s = u
    <2>1. /\ i \o t # << >> /\ received' = [received EXCEPT ![s] = Append(r, Head(i \o t))]
          /\ IF i # << >> THEN ingress' = [ingress EXCEPT ![s] = Tail(i)] /\ UNCHANGED tcp
                          ELSE tcp' = [tcp EXCEPT ![s] = Tail(t)] /\ UNCHANGED ingress
      BY <1>7 DEF Receive
    <2>2. CASE i # << >>
      <3> DEFINE h == Head(i)
                 i1 == Tail(i)
                 r1 == Append(r, h)
      <3>1. Head(i \o t) = h /\ h \in Messages BY <1>1, <2>2, HeadConcat, TailRange
      <3>2. received'[s] = r1 /\ ingress'[s] = i1 /\ tcp'[s] = t BY <1>1, <2>1, <2>2, <3>1
      <3>3. <<Peer(s), "sockhash">> \in used BY <1>2, <2>2 DEF Stream
      <3>4. ASSUME Ordered(s)
            PROVE  /\ From(r1, s, 0) /\ From(t, s, Len(r1) + Len(i1)) /\ From(i1, s, Len(r1))
                   /\ Len(r1) + Len(t) + Len(i1) = Len(r) + Len(t) + Len(i)
        <4>1. From(r, s, 0) /\ From(i, s, Len(r)) /\ From(t, s, Len(r) + Len(i))
          BY <1>2, <3>4 DEF Stream
        <4>3. /\ h = <<Peer(s), Len(r) + 1>> /\ From(i1, s, Len(r) + 1)
              /\ Len(i) >= 1 /\ Len(i1) = Len(i) - 1
          BY <1>1, <1>5, <2>2, <4>1, TailFrom
        <4>4. h = <<Peer(s), 0 + (Len(r) + 1)>> BY <1>5, <4>3
        <4>5. From(r1, s, 0) /\ Len(r1) = Len(r) + 1 BY <1>1, <3>1, <4>1, <4>4, AppendFrom
        <4> HIDE DEF i, t, r, h, i1, r1
        <4>6. Len(r1) + Len(i1) = Len(r) + Len(i) BY <1>5, <4>3, <4>5
        <4> QED BY <1>5, <4>1, <4>3, <4>5, <4>6
      <3>5. <<Peer(s), "tcp">> \notin used => t = << >> BY <1>2 DEF Stream
      <3> HIDE DEF h, i1, r1
      <3> QED BY <1>2, <1>3, <1>4, <3>2, <3>3, <3>4, <3>5, MovedStream
    <2>3. CASE i = << >>
      <3> DEFINE h == Head(t)
                 t1 == Tail(t)
                 r1 == Append(r, h)
      <3>1. i \o t = t /\ t # << >> BY <1>1, <2>1, <2>3
      <3>2. h \in Messages BY <1>1, <3>1, TailRange
      <3>3. received'[s] = r1 /\ tcp'[s] = t1 /\ ingress'[s] = i BY <1>1, <2>1, <2>3, <3>1
      <3>4. <<Peer(s), "tcp">> \in used BY <1>2, <3>1 DEF Stream
      <3>5. ASSUME Ordered(s)
            PROVE  /\ From(r1, s, 0) /\ From(t1, s, Len(r1) + Len(i)) /\ From(i, s, Len(r1))
                   /\ Len(r1) + Len(t1) + Len(i) = Len(r) + Len(t) + Len(i)
        <4>6. Len(i) = 0 BY <2>3
        <4>1. From(r, s, 0) /\ From(t, s, Len(r))
          <5>1. From(r, s, 0) /\ From(t, s, Len(r) + Len(i)) BY <1>2, <3>5 DEF Stream
          <5> HIDE DEF i, t, r
          <5>2. Len(r) + Len(i) = Len(r) BY <1>5, <4>6
          <5> QED BY <5>1, <5>2
        <4>2. /\ h = <<Peer(s), Len(r) + 1>> /\ From(t1, s, Len(r) + 1)
              /\ Len(t) >= 1 /\ Len(t1) = Len(t) - 1
          BY <1>1, <1>5, <3>1, <4>1, TailFrom
        <4>3. h = <<Peer(s), 0 + (Len(r) + 1)>> BY <1>5, <4>2
        <4>4. From(r1, s, 0) /\ Len(r1) = Len(r) + 1 BY <1>1, <3>2, <4>1, <4>3, AppendFrom
        <4>5. From(i, s, Len(r1)) BY <2>3, EmptyFrom
        <4> HIDE DEF i, t, r, h, t1, r1
        <4>7. Len(r1) + Len(i) = Len(r) + 1 BY <1>5, <4>4, <4>6
        <4> QED BY <1>5, <4>2, <4>4, <4>5, <4>7
      <3>6. <<Peer(s), "sockhash">> \notin used => i = << >> BY <1>2 DEF Stream
      <3> HIDE DEF h, t1, r1
      <3> QED BY <1>2, <1>3, <1>4, <3>3, <3>4, <3>5, <3>6, MovedStream
    <2> QED BY <2>2, <2>3
  <1> QED BY <1>6, <1>7

LEMMA StreamInit == Init => StreamInv
  <1> SUFFICES ASSUME Init PROVE StreamInv OBVIOUS
  <1>1. \A s \in Socks : tcp[s] = << >> /\ ingress[s] = << >> /\ received[s] = << >> /\ sent[s] = 0
    BY DEF Init
  <1>2. Len(<< >>) = 0 OBVIOUS
  <1>3. Fresh BY <1>1 DEF Init, Fresh, Here
  <1>4. Streams
    <2> SUFFICES ASSUME NEW s \in Socks PROVE Stream(s) BY DEF Streams
    <2>1. Here(Peer(s)) => sent[Peer(s)] = 0 BY <1>1 DEF Here
    <2>2. From(<< >>, s, 0) BY EmptyFrom
    <2>3. /\ From(received[s], s, 0) /\ From(ingress[s], s, Len(received[s]))
          /\ From(tcp[s], s, Len(received[s]) + Len(ingress[s]))
      BY <1>1, EmptyFrom
    <2>4. Len(received[s]) = 0 /\ Len(tcp[s]) = 0 /\ Len(ingress[s]) = 0 BY <1>1, <1>2
    <2>5. Here(Peer(s)) => Len(received[s]) + Len(tcp[s]) + Len(ingress[s]) = sent[Peer(s)]
      BY <2>1, <2>4
    <2> QED BY <1>1, <2>3, <2>5 DEF Stream
  <1>5. Began /\ NoReturn BY DEF Init, Began, NoReturn
  <1> QED BY <1>3, <1>4, <1>5, InitInv DEF StreamInv

\* A socket is established before it sends, and stays so.
LEMMA BeganNext == ASSUME StreamInv, Next PROVE Began'
  <1> SUFFICES ASSUME NEW t \in Socks, <<t, "tcp">> \in used' PROVE life'[t] \in {"open", "closed"}
    BY DEF Began
  <1>1. life \in [Socks -> {"new", "syn", "open", "closed"}] BY DEF StreamInv, Inv, Types
  <1>2. <<t, "tcp">> \in used => life[t] \in {"open", "closed"} BY DEF StreamInv, Began
  <1>3. ASSUME NEW s \in Socks, ActiveEstablished(s) PROVE life'[t] \in {"open", "closed"}
    <2>1. /\ life' = [x \in Socks |-> IF x = s THEN "open" ELSE IF x = Peer(s) THEN "syn" ELSE life[x]]
          /\ life[s] = "new" /\ used' = used
      BY <1>3 DEF ActiveEstablished
    <2>2. t = Peer(s) => life[t] = "new" BY <2>1 DEF StreamInv, Fresh, Here
    <2> QED BY <1>2, <2>1, <2>2
  <1>4. ASSUME NEW s \in Socks, PassiveEstablished(s) PROVE life'[t] \in {"open", "closed"}
    BY <1>1, <1>2, <1>4 DEF PassiveEstablished
  <1>5. ASSUME NEW s \in Socks, Send(s) PROVE life'[t] \in {"open", "closed"}
    <2>1. /\ life[s] = "open" /\ life' = life
          /\ used' \in {used \union {<<s, "tcp">>}, used \union {<<s, "sockhash">>}}
      BY <1>5 DEF Send, meridian_sk_msg, SendByTcp
    <2> QED BY <1>2, <2>1
  <1>6. ASSUME NEW s \in Socks, Receive(s) \/ Close(s) PROVE life'[t] \in {"open", "closed"}
    BY <1>1, <1>2, <1>6 DEF Receive, Close
  <1> QED BY <1>3, <1>4, <1>5, <1>6 DEF Next

\* The only establishments that could let a server redirect to a client are its own
\* and the client's, and both are over when it sends.
LEMMA NoReturnNext == ASSUME StreamInv, Next PROVE NoReturn'
  <1> SUFFICES ASSUME NEW s \in Socks, Sole(s), s.role = "client", <<Peer(s), "tcp">> \in used',
                      Hit(Peer(s))'
               PROVE  FALSE
    BY DEF NoReturn, Sole, Local
  <1> DEFINE u == Peer(s)
  <1>1. u \in Members' /\ Local(s) \in DOMAIN sockhash'
    BY DEF Hit, Members, Remote, Local, Peer
  <1>2. ASSUME <<u, "tcp">> \in used
        PROVE  /\ u \in Socks /\ life[u] \in {"open", "closed"} /\ life[s] # "new"
               /\ u \notin Members \/ Local(s) \notin DOMAIN sockhash
    <2>1. u \in Socks BY <1>2 DEF StreamInv, Inv, Types
    <2>2. life[u] \in {"open", "closed"} BY <1>2, <2>1 DEF StreamInv, Began
    <2>3. life[s] # "new" BY <2>1, <2>2 DEF StreamInv, Fresh, Here
    <2>4. ~Hit(u) BY <1>2 DEF StreamInv, NoReturn
    <2> QED BY <2>1, <2>2, <2>3, <2>4 DEF Hit, Remote, Local, Peer
  <1>3. ASSUME NEW x \in Socks, ActiveEstablished(x) \/ PassiveEstablished(x) PROVE FALSE
    <2>1. life[x] \in {"new", "syn"} /\ used' = used /\ (x.role = "client" => life[x] = "new")
      BY <1>3 DEF ActiveEstablished, PassiveEstablished
    <2>2. PICK v : try_insert(x, v) BY <1>3 DEF ActiveEstablished, PassiveEstablished
    <2>3. <<u, "tcp">> \in used BY <2>1
    <2>4. x # u /\ x # s BY <1>2, <2>1, <2>3
    <2>5. Local(x) # Local(s) BY <2>4 DEF Sole
    <2>6. sockhash' = sockhash \/
          sockhash' = [j \in DOMAIN sockhash \union {Local(x)} |->
                         IF j = Local(x) THEN x ELSE sockhash[j]]
      BY <2>2 DEF try_insert, sock_key
    <2>7. Local(s) \in DOMAIN sockhash BY <1>1, <2>5, <2>6
    <2>8. u \in Members BY <1>1, <2>4, <2>6 DEF Members
    <2> QED BY <1>2, <2>3, <2>7, <2>8
  <1>4. ASSUME NEW x \in Socks, Send(x) PROVE FALSE
    <2>1. /\ sockhash' = sockhash
          /\ \/ Hit(x) /\ used' = used \union {<<x, "sockhash">>}
             \/ ~Hit(x) /\ used' = used \union {<<x, "tcp">>}
      BY <1>4 DEF Send, meridian_sk_msg, SendByTcp
    <2>2. u \in Members /\ Local(s) \in DOMAIN sockhash BY <1>1, <2>1 DEF Members
    <2>3. Hit(u) BY <2>2 DEF Hit, Remote, Local, Peer
    <2>4. <<u, "tcp">> \in used BY <2>1, <2>3
    <2> QED BY <1>2, <2>2, <2>4
  <1>5. ASSUME NEW x \in Socks, Receive(x) PROVE FALSE
    <2>1. sockhash' = sockhash /\ used' = used BY <1>5 DEF Receive
    <2> QED BY <1>1, <1>2, <2>1 DEF Members
  <1>6. ASSUME NEW x \in Socks, Close(x) PROVE FALSE
    <2>1. /\ used' = used /\ DOMAIN sockhash' \subseteq DOMAIN sockhash
          /\ \A k \in DOMAIN sockhash' : sockhash'[k] = sockhash[k]
      BY <1>6 DEF Close
    <2> QED BY <1>1, <1>2, <2>1 DEF Members
  <1> QED BY <1>3, <1>4, <1>5, <1>6 DEF Next

LEMMA StreamNext == StreamInv /\ [Next]_vars => StreamInv'
  <1> SUFFICES ASSUME StreamInv, [Next]_vars PROVE StreamInv' OBVIOUS
  <1>1. Inv' BY NextInv DEF StreamInv
  <1>2. CASE Next
    <2>1. Fresh' BY <1>2, FreshNext
    <2>2. ASSUME NEW s \in Socks, Sole(s) PROVE Stream(s)'
      BY <1>2, <2>2, EstablishStream, CloseStream, SendStream, ReceiveStream DEF Next
    <2>3. Streams' BY <2>2 DEF Streams, Sole, Local
    <2> QED BY <1>1, <1>2, <2>1, <2>3, BeganNext, NoReturnNext DEF StreamInv
  <1>3. CASE UNCHANGED vars
    <2>1. Fresh' BY <1>3 DEF vars, StreamInv, Fresh, Here, Peer
    <2>2. ASSUME NEW s \in Socks, Sole(s) PROVE Stream(s)'
      BY <1>3, <2>2, SameStream DEF vars, StreamInv, Streams
    <2>3. Streams' BY <2>2 DEF Streams, Sole, Local
    <2>4. Began' BY <1>3 DEF vars, StreamInv, Began
    <2>5. NoReturn' BY <1>3 DEF vars, StreamInv, NoReturn, Hit, Members, Sole, Local, Peer, Remote
    <2> QED BY <1>1, <2>1, <2>3, <2>4, <2>5 DEF StreamInv
  <1> QED BY <1>2, <1>3

\* sk_msg.c: at an address no other socket is bound to, a client reads its server's
\* messages in order and without gaps on whichever path they came, and a server
\* its client's as long as they came on one, whatever other sockets come, go, are
\* evicted from the map or fall through in the meantime.
THEOREM StreamsInOrder == Spec => []SoleStreamsInOrder
  <1>1. ASSUME StreamInv PROVE SoleStreamsInOrder
    <2> SUFFICES ASSUME NEW s \in Socks, Sole(s), Ordered(s) PROVE InOrder(received[s], s)
      BY DEF SoleStreamsInOrder, Ordered, OnePath
    <2>1. From(received[s], s, 0) BY <1>1 DEF StreamInv, Streams, Stream
    <2>2. received[s] \in Seq(Messages) BY <1>1 DEF StreamInv, Inv, Types
    <2>3. received[s] = [i \in 1..Len(received[s]) |-> received[s][i]] BY <2>2
    <2>4. \A i \in 1..Len(received[s]) : received[s][i] = <<Peer(s), i>> BY <2>1, <2>2 DEF From
    <2> QED BY <2>3, <2>4 DEF InOrder
  <1> QED BY StreamInit, StreamNext, <1>1, PTL DEF Spec

\* sk_msg.c: where every socket has an address of its own, a redirected message
\* waits at the peer of its sender, as the comment of the program says.  Sockets
\* that share their server's address are what the violation needs.
THEOREM SolePeersAreReached ==
    ASSUME \A s \in Socks : Sole(s)
    PROVE  Spec => []RedirectsReachPeer
  <1>1. ASSUME Inv PROVE RedirectsReachPeer
    <2> SUFFICES ASSUME NEW s \in Socks, NEW m \in Range(ingress[s]) PROVE m[1] = Peer(s)
      BY DEF RedirectsReachPeer
    <2>1. m \in Messages BY <1>1, RangeSub DEF Inv, Types
    <2>2. m[1] \in Socks BY <2>1 DEF Messages
    <2>3. Remote(m[1]) = Local(s) BY <1>1 DEF Inv, RedirectsToAddressed
    <2> QED BY <2>2, <2>3, SoleSender
  <1> QED BY Invariance, <1>1, PTL

-----------------------------------------------------------------------------
(* Conservation: no message is ever in two places *)

\* No two cells of a family of queues hold the same message, no cell holds one
\* twice, and none is a member of L.
Distinct(f) ==
    \A c, d \in DOMAIN f : \A i \in 1..Len(f[c]), j \in 1..Len(f[d]) :
        f[c][i] = f[d][j] => c = d /\ i = j
Apart(f, L) == \A c \in DOMAIN f : \A i \in 1..Len(f[c]) : f[c][i] \notin L

LEMMA RangeMeans ==
    ASSUME NEW S, NEW q \in Seq(S), NEW x
    PROVE  x \in Range(q) <=> \E i \in 1..Len(q) : q[i] = x
  BY DEF Range

LEMMA SameCell ==
    ASSUME NEW f, Distinct(f), NEW c \in DOMAIN f, NEW d \in DOMAIN f,
           NEW i \in 1..Len(f[c]), NEW j \in 1..Len(f[d]), f[c][i] = f[d][j]
    PROVE  c = d /\ i = j
  BY DEF Distinct

LEMMA DropDistinct ==
    ASSUME NEW f \in [Places -> Seq(Messages)], NEW g \in [Places -> Seq(Messages)],
           NEW D \in SUBSET Places, NEW L, NEW M,
           \A c \in Places : g[c] = IF c \in D THEN << >> ELSE f[c],
           \A x \in M : x \in L \/ \E c \in D : x \in Range(f[c]),
           Distinct(f), Apart(f, L)
    PROVE  Distinct(g) /\ Apart(g, M)
  <1>0. DOMAIN f = Places /\ DOMAIN g = Places OBVIOUS
  <1>1. ASSUME NEW c \in Places, NEW i \in 1..Len(g[c]) PROVE c \notin D /\ g[c] = f[c]
    <2>1. c \in D => Len(g[c]) = 0 OBVIOUS
    <2> QED BY <1>1, <2>1
  <1>2. Distinct(g) BY <1>0, <1>1 DEF Distinct
  <1>3. ASSUME NEW c \in Places, NEW i \in 1..Len(g[c]), g[c][i] \in M PROVE FALSE
    <2>1. c \notin D /\ i \in 1..Len(f[c]) /\ f[c][i] = g[c][i] BY <1>1
    <2>2. f[c][i] \notin L BY <1>0, <2>1 DEF Apart
    <2>3. PICK d \in D : f[c][i] \in Range(f[d]) BY <1>3, <2>1, <2>2
    <2>4. PICK j \in 1..Len(f[d]) : f[d][j] = f[c][i] BY <2>3, RangeMeans
    <2>5. c = d BY <1>0, <2>1, <2>4 DEF Distinct
    <2> QED BY <2>1, <2>5
  <1> QED BY <1>0, <1>2, <1>3 DEF Apart

LEMMA AppendDistinct ==
    ASSUME NEW f \in [Places -> Seq(Messages)], NEW g \in [Places -> Seq(Messages)], NEW d \in Places,
           NEW m \in Messages, NEW L, m \notin L,
           \A c \in Places : m \notin Range(f[c]),
           g[d] = Append(f[d], m), \A c \in Places : c # d => g[c] = f[c],
           Distinct(f), Apart(f, L)
    PROVE  Distinct(g) /\ Apart(g, L)
  <1>0. DOMAIN f = Places /\ DOMAIN g = Places OBVIOUS
  <1>1. ASSUME NEW c \in Places, NEW i \in 1..Len(g[c])
        PROVE  \/ i \in 1..Len(f[c]) /\ g[c][i] = f[c][i] /\ g[c][i] # m
               \/ c = d /\ i = Len(f[d]) + 1 /\ g[c][i] = m
    <2>1. i \in 1..Len(f[c]) => f[c][i] # m BY RangeMeans
    <2>2. c # d => g[c] = f[c] OBVIOUS
    <2>3. c = d => g[c] = Append(f[d], m) OBVIOUS
    <2>4. f[d] \in Seq(Messages) /\ Len(f[d]) \in Nat OBVIOUS
    <2>5. CASE c = d
      <3>1. Len(g[c]) = Len(f[d]) + 1 BY <2>3, <2>4, <2>5
      <3>2. CASE i = Len(f[d]) + 1 BY <2>3, <2>4, <2>5, <3>2
      <3>3. CASE i # Len(f[d]) + 1
        <4>1. i \in 1..Len(f[d]) BY <2>4, <3>1, <3>3
        <4>2. g[c][i] = f[d][i] BY <2>3, <2>4, <2>5, <4>1
        <4> QED BY <2>1, <2>5, <4>1, <4>2
      <3> QED BY <3>2, <3>3
    <2> QED BY <1>1, <2>1, <2>2, <2>5
  <1>2. Distinct(g) BY <1>0, <1>1 DEF Distinct
  <1>3. Apart(g, L) BY <1>0, <1>1 DEF Apart
  <1> QED BY <1>2, <1>3

LEMMA MoveDistinct ==
    ASSUME NEW f \in [Places -> Seq(Messages)], NEW g \in [Places -> Seq(Messages)],
           NEW p \in Places, NEW d \in Places, p # d, f[p] # << >>, NEW L,
           g[p] = Tail(f[p]), g[d] = Append(f[d], Head(f[p])),
           \A c \in Places : c # p /\ c # d => g[c] = f[c],
           Distinct(f), Apart(f, L)
    PROVE  Distinct(g) /\ Apart(g, L)
  <1> DEFINE h == [f EXCEPT ![p] = Tail(f[p])]
             m == Head(f[p])
  <1>0. /\ DOMAIN f = Places /\ f[p] \in Seq(Messages) /\ Len(f[p]) \in Nat /\ Len(f[p]) >= 1
        /\ m = f[p][1] /\ m \in Messages /\ Tail(f[p]) \in Seq(Messages) /\ Len(Tail(f[p])) = Len(f[p]) - 1
        /\ \A i \in 1..(Len(f[p]) - 1) : Tail(f[p])[i] = f[p][i + 1]
    OBVIOUS
  <1>1. /\ h \in [Places -> Seq(Messages)] /\ h[p] = Tail(f[p])
        /\ \A c \in Places : c # p => h[c] = f[c]
    BY <1>0
  <1>2. g[d] = Append(h[d], m) /\ \A c \in Places : c # d => g[c] = h[c] BY <1>1
  <1> HIDE DEF h, m
  \* Where an element of h is in f.
  <1> DEFINE shift(c, i) == IF c = p THEN i + 1 ELSE i
  <1>3. ASSUME NEW c \in Places, NEW i \in 1..Len(h[c])
        PROVE  shift(c, i) \in 1..Len(f[c]) /\ h[c][i] = f[c][shift(c, i)]
    <2>1. CASE c = p
      <3>1. i \in 1..(Len(f[p]) - 1) BY <1>0, <1>1, <2>1
      <3>2. i + 1 \in 1..Len(f[p]) BY <1>0, <3>1
      <3>3. h[c][i] = f[p][i + 1] BY <1>0, <1>1, <2>1, <3>1
      <3> QED BY <2>1, <3>2, <3>3
    <2>2. CASE c # p BY <1>1, <2>2
    <2> QED BY <2>1, <2>2
  <1>4. Distinct(h)
    <2> SUFFICES ASSUME NEW c \in Places, NEW e \in Places, NEW i \in 1..Len(h[c]), NEW j \in 1..Len(h[e]),
                        h[c][i] = h[e][j]
                 PROVE  c = e /\ i = j
      BY <1>1 DEF Distinct
    <2>0. /\ shift(c, i) \in 1..Len(f[c]) /\ shift(e, j) \in 1..Len(f[e])
          /\ f[c][shift(c, i)] = f[e][shift(e, j)]
      BY <1>3
    <2>1. c = e /\ shift(c, i) = shift(e, j)
      <3>1. PICK k, l : k = shift(c, i) /\ l = shift(e, j) OBVIOUS
      <3>2. k \in 1..Len(f[c]) /\ l \in 1..Len(f[e]) /\ f[c][k] = f[e][l] BY <2>0, <3>1
      <3> HIDE DEF shift
      <3>3. c \in DOMAIN f /\ e \in DOMAIN f BY <1>0
      <3>4. c = e /\ k = l
        <4> HIDE DEF h, m
        <4> QED BY <3>2, <3>3 DEF Distinct
      <3> QED BY <3>1, <3>4
    <2>2. Len(h[c]) \in Nat /\ Len(h[e]) \in Nat BY <1>1
    <2> QED BY <2>1, <2>2
  <1>5. Apart(h, L)
    <2> SUFFICES ASSUME NEW c \in Places, NEW i \in 1..Len(h[c]) PROVE h[c][i] \notin L
      BY <1>1 DEF Apart
    <2>1. PICK k \in 1..Len(f[c]) : h[c][i] = f[c][k] BY <1>3
    <2> HIDE DEF shift
    <2> QED BY <1>0, <2>1 DEF Apart
  <1>6. ASSUME NEW c \in Places, m \in Range(h[c]) PROVE FALSE
    <2>1. PICK i \in 1..Len(h[c]) : h[c][i] = m BY <1>1, <1>6, RangeMeans
    <2>0. shift(c, i) \in 1..Len(f[c]) /\ f[c][shift(c, i)] = f[p][1] /\ 1 \in 1..Len(f[p])
      BY <1>0, <1>3, <2>1
    <2> HIDE DEF shift
    <2>2. c = p /\ shift(c, i) = 1 BY <1>0, <2>0 DEF Distinct
    <2> USE DEF shift
    <2>3. Len(h[c]) \in Nat BY <1>1
    <2> QED BY <2>2, <2>3
  <1>7. m \notin L BY <1>0 DEF Apart
  <1>8. m \in Messages /\ h \in [Places -> Seq(Messages)] /\ \A c \in Places : m \notin Range(h[c]) BY <1>0, <1>1, <1>6
  <1> HIDE DEF shift
  <1> QED BY <1>2, <1>4, <1>5, <1>7, <1>8, AppendDistinct

\* The queues of the node as one family, and the messages sent so far.
Q == [c \in Places |-> Queue(c[1], c[2])]
Spent == UNION {{s} \X (1..sent[s]) : s \in Socks}

OnceInv ==
    /\ Distinct(Q) /\ Apart(Q, lost)
    /\ lost \subseteq Spent /\ \A c \in Places : Range(Q[c]) \subseteq Spent

\* The cells of the family are the queues of the sockets.
Family ==
    /\ Q \in [Places -> Seq(Messages)]
    /\ \A s \in Socks :
         Q[<<"tcp", s>>] = tcp[s] /\ Q[<<"ingress", s>>] = ingress[s] /\ Q[<<"read", s>>] = received[s]

LEMMA PlaceKinds ==
    /\ \A s \in Socks : {<<"tcp", s>>, <<"ingress", s>>, <<"read", s>>} \subseteq Places
    /\ \A c \in Places : \E s \in Socks : c = <<"tcp", s>> \/ c = <<"ingress", s>> \/ c = <<"read", s>>
  BY DEF Places

LEMMA FamilyHolds == Types => Family
  <1> SUFFICES ASSUME Types PROVE Family OBVIOUS
  <1>1. \A s \in Socks :
          Q[<<"tcp", s>>] = tcp[s] /\ Q[<<"ingress", s>>] = ingress[s] /\ Q[<<"read", s>>] = received[s]
    BY PlaceKinds DEF Q, Queue
  <1>2. \A s \in Socks : tcp[s] \in Seq(Messages) /\ ingress[s] \in Seq(Messages)
                         /\ received[s] \in Seq(Messages)
    BY DEF Types
  <1>3. ASSUME NEW c \in Places PROVE Q[c] \in Seq(Messages)
    <2>1. PICK s \in Socks : c = <<"tcp", s>> \/ c = <<"ingress", s>> \/ c = <<"read", s>> BY PlaceKinds
    <2>2. Q[c] = tcp[s] \/ Q[c] = ingress[s] \/ Q[c] = received[s] BY <1>1, <2>1
    <2> QED BY <1>2, <2>2
  <1>4. Q = [c \in Places |-> Q[c]] BY DEF Q
  <1> QED BY <1>1, <1>3, <1>4 DEF Family

LEMMA FamilyNext == (Types => Family)'
  BY FamilyHolds, PTL

\* Queues are thrown away.
LEMMA DropOnce ==
    ASSUME Types, Types', OnceInv, UNCHANGED sent, NEW D \in SUBSET Places,
           \A c \in Places : Q'[c] = IF c \in D THEN << >> ELSE Q[c],
           \A x \in lost' : x \in lost \/ \E c \in D : x \in Range(Q[c])
    PROVE  OnceInv'
  <1>1. Q \in [Places -> Seq(Messages)] /\ Q' \in [Places -> Seq(Messages)]
    BY FamilyHolds, FamilyNext DEF Family
  <1>2. Distinct(Q') /\ Apart(Q', lost') BY <1>1, DropDistinct DEF OnceInv
  <1>3. Spent' = Spent BY DEF Spent
  <1>4. lost' \subseteq Spent BY DEF OnceInv
  <1>5. \A c \in Places : Range(Q'[c]) \subseteq Spent BY EmptyRange DEF OnceInv
  <1> QED BY <1>2, <1>3, <1>4, <1>5 DEF OnceInv, Distinct, Apart

\* A message is sent.
LEMMA SpentNext ==
    ASSUME Types, NEW s \in Socks, sent' = [sent EXCEPT ![s] = @ + 1]
    PROVE  /\ Spent \subseteq Spent' /\ <<s, sent[s] + 1>> \in Spent' /\ <<s, sent[s] + 1>> \notin Spent
  <1>1. /\ sent[s] \in Nat /\ sent'[s] = sent[s] + 1 /\ \A t \in Socks : t # s => sent'[t] = sent[t]
    BY DEF Types
  <1>2. \A t \in Socks : 1..sent[t] \subseteq 1..sent'[t] BY <1>1 DEF Types
  <1>3. Spent \subseteq Spent' BY <1>2 DEF Spent
  <1>4. sent[s] + 1 \in 1..sent'[s] /\ sent[s] + 1 \notin 1..sent[s] BY <1>1
  <1> QED BY <1>3, <1>4 DEF Spent

LEMMA AppendOnce ==
    ASSUME Types, Types', OnceInv, NEW d \in Places, NEW m \in Messages,
           m \notin Spent, m \in Spent', Spent \subseteq Spent', UNCHANGED lost,
           Q'[d] = Append(Q[d], m), \A c \in Places : c # d => Q'[c] = Q[c]
    PROVE  OnceInv'
  <1>1. Q \in [Places -> Seq(Messages)] /\ Q' \in [Places -> Seq(Messages)]
    BY FamilyHolds, FamilyNext DEF Family
  <1>2. m \notin lost /\ \A c \in Places : m \notin Range(Q[c]) BY DEF OnceInv
  <1>3. Distinct(Q') /\ Apart(Q', lost) BY <1>1, <1>2, AppendDistinct DEF OnceInv
  <1>4. Range(Q'[d]) = Range(Q[d]) \union {m} BY <1>1, AppendRange
  <1>5. \A c \in Places : Range(Q'[c]) \subseteq Spent' BY <1>4 DEF OnceInv
  <1>6. lost' \subseteq Spent' BY DEF OnceInv
  <1> QED BY <1>3, <1>5, <1>6 DEF OnceInv, Distinct, Apart

\* A message is read.
LEMMA MoveOnce ==
    ASSUME Types, Types', OnceInv, UNCHANGED <<sent, lost>>, NEW p \in Places, NEW d \in Places, p # d,
           Q[p] # << >>, Q'[p] = Tail(Q[p]), Q'[d] = Append(Q[d], Head(Q[p])),
           \A c \in Places : c # p /\ c # d => Q'[c] = Q[c]
    PROVE  OnceInv'
  <1>1. Q \in [Places -> Seq(Messages)] /\ Q' \in [Places -> Seq(Messages)]
    BY FamilyHolds, FamilyNext DEF Family
  <1>0. Distinct(Q) /\ Apart(Q, lost) BY DEF OnceInv
  <1>3. Distinct(Q') /\ Apart(Q', lost) BY <1>0, <1>1, MoveDistinct
  <1>4. Head(Q[p]) \in Range(Q[p]) /\ Range(Q'[p]) \subseteq Range(Q[p]) /\ Head(Q[p]) \in Messages
    BY <1>1, TailRange
  <1>5. Range(Q'[d]) = Range(Q[d]) \union {Head(Q[p])} BY <1>1, <1>4, AppendRange
  <1>6. Spent' = Spent BY DEF Spent
  <1>7. \A c \in Places : Range(Q'[c]) \subseteq Spent BY <1>4, <1>5 DEF OnceInv
  <1>8. lost' \subseteq Spent BY DEF OnceInv
  <1> QED BY <1>3, <1>6, <1>7, <1>8 DEF OnceInv, Distinct, Apart

\* The messages a step reports lost were never queued.
LEMMA LoseOnce ==
    ASSUME Types, Types', OnceInv, NEW m, m \notin Spent, m \in Spent', Spent \subseteq Spent',
           lost' = lost \union {m}, Q' = Q
    PROVE  OnceInv'
  <1>1. \A c \in Places : m \notin Range(Q[c]) BY DEF OnceInv
  <1>2. Apart(Q, lost')
    <2>1. DOMAIN Q = Places /\ \A c \in Places : Q[c] \in Seq(Messages)
      BY FamilyHolds DEF Family
    <2>2. \A c \in Places : \A i \in 1..Len(Q[c]) : Q[c][i] # m BY <1>1, <2>1, RangeMeans
    <2> QED BY <2>1, <2>2 DEF OnceInv, Apart
  <1>3. lost' \subseteq Spent' /\ \A c \in Places : Range(Q[c]) \subseteq Spent' BY DEF OnceInv
  <1> QED BY <1>2, <1>3 DEF OnceInv, Distinct, Apart

LEMMA EstablishOnce ==
    ASSUME Types, Types', OnceInv, NEW s \in Socks, NEW v, try_insert(s, v),
           UNCHANGED <<tcp, sent, received>>
    PROVE  OnceInv'
  <1> DEFINE k == Local(s)
             old == IF k \in DOMAIN sockhash THEN {sockhash[k]} ELSE {}
             D == {"ingress"} \X old
  <1>0. Family /\ Family' BY FamilyHolds, FamilyNext
  <1>1. CASE meridian_verdict_sockmap_eligible(v) /\ Room(k)
    <2>1. /\ ingress' = [t \in Socks |-> IF t \in old THEN << >> ELSE ingress[t]]
          /\ lost' = lost \union UNION {Range(ingress[t]) : t \in old}
      BY <1>1 DEF try_insert, sock_key
    <2>2. old \subseteq Socks BY DEF Types
    <2> HIDE DEF old, k
    <2>3. D \in SUBSET Places BY <2>2 DEF Places
    <2>4. ASSUME NEW c \in Places PROVE Q'[c] = IF c \in D THEN << >> ELSE Q[c]
      <3>1. PICK t \in Socks : c = <<"tcp", t>> \/ c = <<"ingress", t>> \/ c = <<"read", t>>
        BY PlaceKinds
      <3>2. CASE c = <<"ingress", t>> BY <1>0, <2>1, <3>2 DEF Family
      <3>3. CASE c = <<"tcp", t>> BY <1>0, <3>3 DEF Family
      <3>4. CASE c = <<"read", t>> BY <1>0, <3>4 DEF Family
      <3> QED BY <3>1, <3>2, <3>3, <3>4
    <2>5. ASSUME NEW x \in lost', x \notin lost PROVE \E c \in D : x \in Range(Q[c])
      <3>1. PICK t \in old : x \in Range(ingress[t]) BY <2>1, <2>5
      <3>2. <<"ingress", t>> \in D /\ Q[<<"ingress", t>>] = ingress[t] BY <1>0, <2>2 DEF Family
      <3> QED BY <3>1, <3>2
    <2> HIDE DEF D
    <2> QED BY <2>3, <2>4, <2>5, DropOnce
  <1>2. CASE ~(meridian_verdict_sockmap_eligible(v) /\ Room(k))
    <2>1. UNCHANGED <<ingress, lost>> BY <1>2 DEF try_insert, sock_key
    <2>2. Q' = Q BY <2>1 DEF Q, Queue
    <2>3. PICK D0 \in SUBSET Places : D0 = {} OBVIOUS
    <2> QED BY <2>1, <2>2, <2>3, DropOnce
  <1> QED BY <1>1, <1>2

LEMMA SendOnce ==
    ASSUME Types, Types', OnceInv, NEW s \in Socks, Send(s)
    PROVE  OnceInv'
  <1>0. Family /\ Family' BY FamilyHolds, FamilyNext
  <1> DEFINE m == <<s, sent[s] + 1>>
  <1>1. /\ sent[s] < MaxSends(s) /\ sent' = [sent EXCEPT ![s] = @ + 1] /\ received' = received
        /\ IF Hit(s) THEN meridian_sk_msg(s, m) ELSE SendByTcp(s, m)
    BY DEF Send
  <1>2. Spent \subseteq Spent' /\ m \in Spent' /\ m \notin Spent BY <1>1, SpentNext
  <1>3. m \in Messages
    <2>1. sent[s] \in Nat /\ MaxSends(s) \in Nat BY SockmapAssumption DEF Types
    <2>2. sent[s] + 1 \in 1..MaxSends(s) BY <1>1, <2>1
    <2> QED BY <2>2 DEF Messages
  <1> HIDE DEF m
  <1>4. CASE Hit(s)
    <2> DEFINE t == sockhash[Remote(s)]
               d == <<"ingress", t>>
    <2>1. ingress' = [ingress EXCEPT ![t] = Append(@, m)] /\ UNCHANGED <<tcp, lost>>
      BY <1>1, <1>4 DEF meridian_sk_msg
    <2>2. t \in Socks BY <1>4 DEF Hit, Types
    <2> HIDE DEF t
    <2>3. /\ ingress'[t] = Append(ingress[t], m) /\ \A u \in Socks : u # t => ingress'[u] = ingress[u]
      BY <2>1, <2>2 DEF Types
    <2>4. d \in Places /\ Q'[d] = Append(Q[d], m) BY <1>0, <2>2, <2>3, PlaceKinds DEF Family
    <2>5. ASSUME NEW c \in Places, c # d PROVE Q'[c] = Q[c]
      <3>1. PICK u \in Socks : c = <<"tcp", u>> \/ c = <<"ingress", u>> \/ c = <<"read", u>>
        BY PlaceKinds
      <3>2. CASE c = <<"ingress", u>> BY <1>0, <2>3, <2>5, <3>2 DEF Family
      <3>3. CASE c = <<"tcp", u>> BY <1>0, <1>1, <2>1, <3>3 DEF Family
      <3>4. CASE c = <<"read", u>> BY <1>0, <1>1, <2>1, <3>4 DEF Family
      <3> QED BY <3>1, <3>2, <3>3, <3>4
    <2> HIDE DEF d
    <2> QED BY <1>2, <1>3, <2>1, <2>4, <2>5, AppendOnce
  <1>5. CASE ~Hit(s) /\ Here(Peer(s)) /\ life[Peer(s)] \in {"syn", "open"}
    <2> DEFINE t == Peer(s)
               d == <<"tcp", t>>
    <2>1. tcp' = [tcp EXCEPT ![t] = Append(@, m)] /\ UNCHANGED <<ingress, lost>>
      BY <1>1, <1>5 DEF SendByTcp
    <2>2. t \in Socks BY <1>5 DEF Here
    <2> HIDE DEF t
    <2>3. /\ tcp'[t] = Append(tcp[t], m) /\ \A u \in Socks : u # t => tcp'[u] = tcp[u]
      BY <2>1, <2>2 DEF Types
    <2>4. d \in Places /\ Q'[d] = Append(Q[d], m) BY <1>0, <2>2, <2>3, PlaceKinds DEF Family
    <2>5. ASSUME NEW c \in Places, c # d PROVE Q'[c] = Q[c]
      <3>1. PICK u \in Socks : c = <<"tcp", u>> \/ c = <<"ingress", u>> \/ c = <<"read", u>>
        BY PlaceKinds
      <3>2. CASE c = <<"tcp", u>> BY <1>0, <2>3, <2>5, <3>2 DEF Family
      <3>3. CASE c = <<"ingress", u>> BY <1>0, <1>1, <2>1, <3>3 DEF Family
      <3>4. CASE c = <<"read", u>> BY <1>0, <1>1, <2>1, <3>4 DEF Family
      <3> QED BY <3>1, <3>2, <3>3, <3>4
    <2> HIDE DEF d
    <2> QED BY <1>2, <1>3, <2>1, <2>4, <2>5, AppendOnce
  <1>6. CASE ~Hit(s) /\ ~(Here(Peer(s)) /\ life[Peer(s)] \in {"syn", "open"})
    <2>1. UNCHANGED <<tcp, ingress>> /\ lost' = lost \union {m} BY <1>1, <1>6 DEF SendByTcp
    <2>2. Q' = Q BY <1>1, <2>1 DEF Q, Queue
    <2> QED BY <1>2, <2>1, <2>2, LoseOnce
  <1> QED BY <1>4, <1>5, <1>6

LEMMA ReceiveOnce ==
    ASSUME Types, Types', OnceInv, NEW s \in Socks, Receive(s)
    PROVE  OnceInv'
  <1>0. Family /\ Family' BY FamilyHolds, FamilyNext
  <1> DEFINE i == ingress[s]
             t == tcp[s]
             d == <<"read", s>>
  <1>1. /\ i \o t # << >> /\ received' = [received EXCEPT ![s] = Append(@, Head(i \o t))]
        /\ IF i # << >> THEN ingress' = [ingress EXCEPT ![s] = Tail(@)] /\ UNCHANGED tcp
                        ELSE tcp' = [tcp EXCEPT ![s] = Tail(@)] /\ UNCHANGED ingress
        /\ UNCHANGED <<sent, lost>>
    BY DEF Receive
  <1>2. i \in Seq(Messages) /\ t \in Seq(Messages) BY DEF Types
  <1>3. /\ received'[s] = Append(received[s], Head(i \o t))
        /\ \A u \in Socks : u # s => received'[u] = received[u]
    BY <1>1 DEF Types
  <1>4. d \in Places /\ Q[d] = received[s] /\ Q'[d] = received'[s] BY <1>0, PlaceKinds DEF Family
  <1>5. CASE i # << >>
    <2> DEFINE p == <<"ingress", s>>
    <2>1. Head(i \o t) = Head(i) BY <1>2, <1>5, HeadConcat
    <2>2. /\ ingress'[s] = Tail(i) /\ tcp' = tcp /\ \A u \in Socks : u # s => ingress'[u] = ingress[u]
      BY <1>1, <1>5 DEF Types
    <2>3. p \in Places /\ p # d /\ Q[p] = i /\ Q'[p] = Tail(i) BY <1>0, <2>2, PlaceKinds DEF Family
    <2>4. ASSUME NEW c \in Places, c # p, c # d PROVE Q'[c] = Q[c]
      <3>1. PICK u \in Socks : c = <<"tcp", u>> \/ c = <<"ingress", u>> \/ c = <<"read", u>>
        BY PlaceKinds
      <3>2. CASE c = <<"tcp", u>> BY <1>0, <2>2, <3>2 DEF Family
      <3>3. CASE c = <<"ingress", u>> BY <1>0, <2>2, <2>4, <3>3 DEF Family
      <3>4. CASE c = <<"read", u>> BY <1>0, <1>3, <2>4, <3>4 DEF Family
      <3> QED BY <3>1, <3>2, <3>3, <3>4
    <2>5. Q[p] # << >> /\ Q'[p] = Tail(Q[p]) /\ Q'[d] = Append(Q[d], Head(Q[p]))
      BY <1>3, <1>4, <1>5, <2>1, <2>3
    <2> HIDE DEF p, d
    <2> QED BY <1>1, <1>4, <2>3, <2>4, <2>5, MoveOnce
  <1>6. CASE i = << >>
    <2> DEFINE p == <<"tcp", s>>
    <2>1. i \o t = t /\ t # << >> BY <1>1, <1>2, <1>6
    <2>2. /\ tcp'[s] = Tail(t) /\ ingress' = ingress /\ \A u \in Socks : u # s => tcp'[u] = tcp[u]
      BY <1>1, <1>6 DEF Types
    <2>3. p \in Places /\ p # d /\ Q[p] = t /\ Q'[p] = Tail(t) BY <1>0, <2>2, PlaceKinds DEF Family
    <2>4. ASSUME NEW c \in Places, c # p, c # d PROVE Q'[c] = Q[c]
      <3>1. PICK u \in Socks : c = <<"tcp", u>> \/ c = <<"ingress", u>> \/ c = <<"read", u>>
        BY PlaceKinds
      <3>2. CASE c = <<"tcp", u>> BY <1>0, <2>2, <2>4, <3>2 DEF Family
      <3>3. CASE c = <<"ingress", u>> BY <1>0, <2>2, <3>3 DEF Family
      <3>4. CASE c = <<"read", u>> BY <1>0, <1>3, <2>4, <3>4 DEF Family
      <3> QED BY <3>1, <3>2, <3>3, <3>4
    <2>5. Q[p] # << >> /\ Q'[p] = Tail(Q[p]) /\ Q'[d] = Append(Q[d], Head(Q[p]))
      BY <1>3, <1>4, <2>1, <2>3
    <2> HIDE DEF p, d
    <2> QED BY <1>1, <1>4, <2>3, <2>4, <2>5, MoveOnce
  <1> QED BY <1>5, <1>6

LEMMA CloseOnce ==
    ASSUME Types, Types', OnceInv, NEW s \in Socks, Close(s)
    PROVE  OnceInv'
  <1>0. Family /\ Family' BY FamilyHolds, FamilyNext
  <1> DEFINE D == {<<"tcp", s>>, <<"ingress", s>>}
  <1>1. /\ tcp' = [tcp EXCEPT ![s] = << >>] /\ ingress' = [ingress EXCEPT ![s] = << >>]
        /\ lost' = lost \union Range(tcp[s] \o ingress[s]) /\ UNCHANGED <<sent, received>>
    BY DEF Close
  <1>2. /\ tcp'[s] = << >> /\ \A u \in Socks : u # s => tcp'[u] = tcp[u]
        /\ ingress'[s] = << >> /\ \A u \in Socks : u # s => ingress'[u] = ingress[u]
    BY <1>1 DEF Types
  <1>3. D \in SUBSET Places BY PlaceKinds
  <1>4. ASSUME NEW c \in Places PROVE Q'[c] = IF c \in D THEN << >> ELSE Q[c]
    <2>1. PICK u \in Socks : c = <<"tcp", u>> \/ c = <<"ingress", u>> \/ c = <<"read", u>>
      BY PlaceKinds
    <2>2. CASE c = <<"tcp", u>> BY <1>0, <1>2, <2>2 DEF Family
    <2>3. CASE c = <<"ingress", u>> BY <1>0, <1>2, <2>3 DEF Family
    <2>4. CASE c = <<"read", u>> BY <1>0, <1>1, <2>4 DEF Family
    <2> QED BY <2>1, <2>2, <2>3, <2>4
  <1>5. ASSUME NEW x \in lost' PROVE x \in lost \/ \E c \in D : x \in Range(Q[c])
    <2>1. tcp[s] \in Seq(Messages) /\ ingress[s] \in Seq(Messages) BY DEF Types
    <2>2. x \in lost \/ x \in Range(tcp[s]) \/ x \in Range(ingress[s]) BY <1>1, <2>1, ConcatRange
    <2>3. Q[<<"tcp", s>>] = tcp[s] /\ Q[<<"ingress", s>>] = ingress[s] BY <1>0 DEF Family
    <2> QED BY <2>2, <2>3
  <1> HIDE DEF D
  <1> QED BY <1>1, <1>3, <1>4, <1>5, DropOnce

LEMMA OnceNext == Inv /\ OnceInv /\ [Next]_vars => OnceInv'
  <1> SUFFICES ASSUME Inv, OnceInv, [Next]_vars PROVE OnceInv' OBVIOUS
  <1>1. Types /\ Types' BY NextInv DEF Inv
  <1>2. CASE UNCHANGED vars
    <2>1. Q' = Q /\ Spent' = Spent /\ lost' = lost BY <1>2 DEF vars, Q, Queue, Spent
    <2> QED BY <2>1 DEF OnceInv, Distinct, Apart
  <1>3. ASSUME NEW s \in Socks, ActiveEstablished(s) \/ PassiveEstablished(s) PROVE OnceInv'
    <2>1. PICK v : try_insert(s, v) BY <1>3 DEF ActiveEstablished, PassiveEstablished
    <2>2. UNCHANGED <<tcp, sent, received>> BY <1>3 DEF ActiveEstablished, PassiveEstablished
    <2> QED BY <1>1, <2>1, <2>2, EstablishOnce
  <1> QED BY <1>1, <1>2, <1>3, SendOnce, ReceiveOnce, CloseOnce DEF Next

\* Whatever hits, misses, evictions and closes do to the map, every message sent
\* is in one place: one queue, what was read, or what went with a queue; so a
\* reader sees it at most once, and never after it was given up.
THEOREM EachMessageOnce == Spec => []MessagesConserved
  <1>1. Init => OnceInv
    <2> SUFFICES ASSUME Init PROVE OnceInv OBVIOUS
    <2>1. Family BY InitInv, FamilyHolds DEF Inv
    <2>2. \A c \in Places : Q[c] = << >>
      <3>1. \A s \in Socks : tcp[s] = << >> /\ ingress[s] = << >> /\ received[s] = << >> BY DEF Init
      <3> QED BY <2>1, <3>1, PlaceKinds DEF Family
    <2>3. DOMAIN Q = Places BY DEF Q
    <2> QED BY <2>2, <2>3, EmptyRange DEF OnceInv, Distinct, Apart, Init
  <1>2. ASSUME Inv, OnceInv PROVE MessagesConserved
    <2>1. Family BY <1>2, FamilyHolds DEF Inv
    <2>2. /\ DOMAIN Q = Places /\ \A c \in Places : Q[c] = Queue(c[1], c[2])
          /\ \A c \in Places : Q[c] \in Seq(Messages) /\ DOMAIN Q[c] = 1..Len(Q[c])
      BY <2>1 DEF Q, Family
    <2>3. MissFallsThrough BY <1>2 DEF Inv
    <2>4. NeverTwice
      <3> SUFFICES ASSUME NEW c \in Places, NEW i \in DOMAIN Q[c], NEW d \in Places, NEW j \in DOMAIN Q[d],
                          Q[c][i] = Q[d][j]
                   PROVE  c = d /\ i = j
        BY <2>2 DEF NeverTwice
      <3>1. i \in 1..Len(Q[c]) /\ j \in 1..Len(Q[d]) BY <2>2
      <3> QED BY <1>2, <2>1, <2>2, <3>1, SameCell DEF OnceInv, Family
    <2>5. ASSUME NEW c \in Places, NEW x \in Range(Queue(c[1], c[2])) PROVE x \notin lost
      <3>1. PICK i \in 1..Len(Q[c]) : Q[c][i] = x BY <2>2, <2>5, RangeMeans
      <3> QED BY <1>2, <2>2, <3>1 DEF OnceInv, Apart
    <2> QED BY <2>3, <2>4, <2>5 DEF MessagesConserved
  <1> QED BY <1>1, <1>2, InitInv, NextInv, OnceNext, PTL DEF Spec
=============================================================================
