---------------------------- MODULE TcPathProofs -----------------------------
(***************************************************************************)
(* Proofs about TcPath, for any frames the kernel makes, any contents the  *)
(* agents write into the maps, and any set of helpers that may fail.       *)
(***************************************************************************)
EXTENDS TcPath, TLAPS

IdOr0 == IDs \union {Unknown}

-----------------------------------------------------------------------------
(* The verdicts *)

\* A policy key of two known identities is a key of the map.
LEMMA PolicyKey ==
    ASSUME NEW src \in IDs, NEW dst \in IDs, NEW f \in Flows, NEW dir \in Directions
    PROVE  policy_key(src, dst, f, dir) \in Keys
  BY DEF policy_key, Keys, Flows

\* enforce_flow passes what Evaluate does not deny.
LEMMA Agree ==
    ASSUME NEW rules \in PolicyMap, NEW open \in BOOLEAN, NEW f \in Flows,
           NEW src \in IdOr0, NEW dst \in IdOr0
    PROVE  LET ok == enforce_flow(rules, open, src, dst, f, "STOLEN").act = "OK" IN
           \/ ok <=> Evaluate(rules, open, src, dst, f, "INGRESS") # "DENY"
           \/ ~Evaluable(rules)
  <1> DEFINE k == policy_key(src, dst, f, "INGRESS")
  <1>1. CASE Unknown \in {src, dst}
    BY <1>1 DEF enforce_flow, Evaluate, Decide
  <1>2. CASE Unknown \notin {src, dst}
    <2>1. k \in Keys BY <1>2, PolicyKey DEF IdOr0, Directions
    <2>2. rules[k] \in MapActions /\ k \in DOMAIN rules BY <2>1 DEF PolicyMap
    <2> HIDE DEF k
    <2>3. Evaluable(rules) => rules[k] # "INVALID" BY <2>2 DEF Evaluable
    <2> QED
      BY <1>2, <2>2, <2>3
         DEF enforce_flow, Evaluate, Decide, MapActions, Actions, k
  <1> QED BY <1>1, <1>2

\* Evaluate denies what tc_egress denies.
LEMMA DenyAgree ==
    ASSUME NEW rules, NEW open, NEW src, NEW dst, NEW f, EgressDenies(rules, src, dst, f)
    PROVE  Evaluate(rules, open, src, dst, f, "INGRESS") = "DENY"
  BY DEF EgressDenies, Evaluate

\* Without a source identity only fail-open passes a flow.
LEMMA UnknownSource ==
    ASSUME NEW rules, NEW open, NEW dst, NEW f,
           enforce_flow(rules, open, Unknown, dst, f, "STOLEN").act = "OK"
    PROVE  enforce_flow(rules, open, Unknown, dst, f, "STOLEN").why = "FAILOPEN"
  BY DEF enforce_flow, Decide

-----------------------------------------------------------------------------
(* Frames *)

\* A frame as the kernel of A makes it.
LEMMA Made ==
    ASSUME NEW f \in Frames
    PROVE  /\ f \in Frame /\ f.words \in Nat /\ f.words <= 61 /\ f.body = "whole" /\ f.pay # "cut"
           /\ f.sum # "bad" /\ f.opts \in Seq(Option) /\ Len(f.opts) \in Nat
           /\ \A i \in 1..Len(f.opts) : ~f.opts[i].mine /\ f.opts[i].words \in Nat
  <1>1. f \in Frame /\ f.body = "whole" /\ f.sum # "bad" /\ f.pay # "cut" /\ f.words <= 61
    BY FramesAssumption
  <1>2. f.opts \in Seq(Option) BY <1>1 DEF Frame
  <1>3. \A i \in 1..Len(f.opts) : f.opts[i] \in Option BY <1>2
  <1>4. \A i \in 1..Len(f.opts) : f.opts[i].words \in Nat BY <1>3 DEF Option
  <1>5. \A i \in 1..Len(f.opts) : ~f.opts[i].mine BY <1>2, FramesAssumption
  <1>6. Len(f.opts) \in Nat BY <1>2
  <1>7. f.words \in Nat
    <2>1. f.words \in 0..63 BY <1>1 DEF Frame
    <2> QED BY <2>1
  <1> QED BY <1>1, <1>2, <1>4, <1>5, <1>6, <1>7

\* Where no byte of the payload misleads it, the parser finds the header.
LEMMA Found ==
    ASSUME NEW f \in Frame, Unambiguous(f), HeaderAt(f) # "none"
    PROVE  FlowOf(f) /\ ReadFlow(f) = f.flow /\ (Reserved(f) <=> f.pay = "slot")
  BY DEF Frame, Unambiguous, HeaderAt, FlowOf, ReadFlow, Reserved,
         parse_ipv4_in_geneve_payload, LooksLikeIPv4At0, LooksLikeIPv4At8

\* What is the same in a frame and in one made from it.
Alike(g, f) ==
    /\ g.l3 = f.l3 /\ g.link = f.link /\ g.ihl = f.ihl /\ g.base = f.base
    /\ g.fit = f.fit /\ g.v4 = f.v4 /\ g.mac0 = f.mac0 /\ g.mac8 = f.mac8
    /\ g.ttl = f.ttl /\ g.flow = f.flow /\ g.ghost = f.ghost /\ g.big = f.big
    /\ f.sum = "none" => g.sum = "none"

LEMMA AddOptionOK ==
    ASSUME NEW f \in Frame, f.words <= 61, NEW id \in IdOr0
    PROVE  LET g == AddOption(f, id) IN
           /\ g \in Frame /\ Alike(g, f) /\ g.words = f.words + 2
           /\ g.opts = Append(f.opts, Mine(id)) /\ g.pay = f.pay /\ g.body = f.body
  <1> DEFINE q == Append(f.opts, Mine(id))
             n == f.words + 2
             s == Rewritten(f.sum)
  <1>1. Mine(id) \in Option BY DEF Mine, Option, OptWords, IdOr0
  <1>2. q \in Seq(Option) BY <1>1 DEF Frame
  <1>3. n \in 0..63
    <2>1. f.words \in 0..63 BY DEF Frame
    <2> QED BY <2>1
  <1>4. AddOption(f, id) = [f EXCEPT !.opts = q, !.words = n, !.sum = s]
    BY DEF AddOption, OptWords
  <1>a. s \in {"none", "bad"} /\ (f.sum = "none" => s = "none") BY DEF Rewritten
  <1> HIDE DEF q, n, s
  <1>5. [f EXCEPT !.opts = q, !.words = n, !.sum = s] \in Frame BY <1>2, <1>3, <1>a DEF Frame
  <1>6. Alike([f EXCEPT !.opts = q, !.words = n, !.sum = s], f) BY <1>a DEF Frame, Alike
  <1> QED BY <1>4, <1>5, <1>6 DEF Frame, q, n

\* Writing the option: the frame stays one, with two option words more.
LEMMA StampOK ==
    ASSUME NEW f \in Frame, f.words <= 61, NEW id \in IdOr0, NEW bumped \in BOOLEAN
    PROVE  LET g == IF Reserved(f) THEN StampSlot(f, id) ELSE StampRoom(f, id, bumped) IN
           /\ g \in Frame /\ Alike(g, f) /\ g.words = f.words + 2
           /\ g.opts = Append(f.opts, Mine(id))
           /\ ~Reserved(f) => g.pay = f.pay /\ (bumped => g.body = f.body)
           /\ Reserved(f) /\ f.pay = "slot" => g.pay = "raw" /\ g.body = f.body
  <1> DEFINE a == AddOption(f, id)
  <1>1. /\ a \in Frame /\ Alike(a, f) /\ a.words = f.words + 2
        /\ a.opts = Append(f.opts, Mine(id)) /\ a.pay = f.pay /\ a.body = f.body
    BY AddOptionOK
  <1>2. StampSlot(f, id) = [a EXCEPT !.pay  = IF f.pay = "slot" THEN "raw" ELSE "cut",
                                     !.body = IF f.pay = "slot" THEN @ ELSE "damaged"]
    BY DEF StampSlot
  <1>3. StampRoom(f, id, bumped) = [a EXCEPT !.body = IF bumped THEN @ ELSE "damaged"]
    BY DEF StampRoom
  <1> HIDE DEF a
  <1>4. CASE Reserved(f)
    <2>1. StampSlot(f, id) \in Frame BY <1>1, <1>2 DEF Frame
    <2>2. Alike(StampSlot(f, id), a) BY <1>1, <1>2 DEF Frame, Alike
    <2>3. Alike(StampSlot(f, id), f) BY <1>1, <2>2 DEF Alike
    <2> QED BY <1>1, <1>2, <1>4, <2>1, <2>3 DEF Frame
  <1>5. CASE ~Reserved(f)
    <2>1. StampRoom(f, id, bumped) \in Frame BY <1>1, <1>3 DEF Frame
    <2>2. Alike(StampRoom(f, id, bumped), a) BY <1>1, <1>3 DEF Frame, Alike
    <2>3. Alike(StampRoom(f, id, bumped), f) BY <1>1, <2>2 DEF Alike
    <2> QED BY <1>1, <1>3, <1>5, <2>1, <2>3 DEF Frame
  <1> QED BY <1>4, <1>5

\* A frame the kernel made carries no identity option.
LEMMA NoIdentity ==
    ASSUME NEW f \in Frames, NEW g, g.opts = f.opts
    PROVE  ~HasIdentity(g)
  <1>1. \A i \in 1..Len(f.opts) : ~f.opts[i].mine
    BY Made
  <1> QED BY <1>1 DEF HasIdentity, IdentityAt, MaxOpts

\* At most three options fill the area, and they are all there are.
LEMMA OptionsCounted ==
    ASSUME NEW f \in Frames, Framed(f), ~parse_geneve_option_count(f, MaxOpts)
    PROVE  Len(f.opts) \in 0..3 /\ Offset(f.opts, Len(f.opts)) = f.words
  <1>1. PICK n \in 0..3 : n <= Len(f.opts) /\ Offset(f.opts, n) = f.words
    BY DEF Framed, parse_geneve_option_count, MaxOpts
  <1>2. f.opts \in Seq(Option) /\ f.words \in Nat /\ Len(f.opts) \in Nat
    BY Made
  <1>3. ASSUME Len(f.opts) # n PROVE FALSE
    <2>1. n + 1 \in DOMAIN f.opts BY <1>1, <1>2, <1>3
    <2>2. Offset(f.opts, n) < f.words
      <3>1. Offset(f.opts, (n + 1) - 1) < f.words BY <2>1, FramesAssumption
      <3>2. (n + 1) - 1 = n BY <1>1
      <3> QED BY <3>1, <3>2
    <2> QED BY <1>1, <1>2, <2>2
  <1> QED BY <1>1, <1>2, <1>3

\* What tc_egress appended is what tc_ingress finds.
LEMMA IdentityFound ==
    ASSUME NEW f \in Frames, Len(f.opts) \in 0..3, Offset(f.opts, Len(f.opts)) = f.words,
           NEW id \in IDs, NEW g \in Frame, g.opts = Append(f.opts, Mine(id)),
           g.words = f.words + 2
    PROVE  HasIdentity(g) /\ parse_geneve_identity(g) = id
  <1> DEFINE n == Len(f.opts)
  <1>1. /\ f.opts \in Seq(Option) /\ f.words \in Nat
        /\ \A i \in 1..n : ~f.opts[i].mine /\ f.opts[i].words \in Nat
    BY Made
  <1>2. /\ Len(g.opts) = n + 1 /\ g.opts[n + 1] = Mine(id)
        /\ \A i \in 1..n : g.opts[i] = f.opts[i]
    BY <1>1
  <1>a. n \in 0..3 OBVIOUS
  <1> HIDE DEF n
  <1>3. Mine(id).mine /\ Mine(id).words = 2 /\ Mine(id).id = id BY DEF Mine, OptWords
  <1>4. Offset(g.opts, n + 1) = f.words + 2
    <2>1. CASE n = 0 BY <1>1, <1>2, <1>3, <2>1 DEF Offset, SizeOf, n
    <2>2. CASE n = 1 BY <1>1, <1>2, <1>3, <2>2 DEF Offset, SizeOf, n
    <2>3. CASE n = 2 BY <1>1, <1>2, <1>3, <2>3 DEF Offset, SizeOf, n
    <2>4. CASE n = 3 BY <1>1, <1>2, <1>3, <2>4 DEF Offset, SizeOf, n
    <2> QED BY <2>1, <2>2, <2>3, <2>4 DEF n
  <1>5. n + 1 \in 1..MaxOpts BY <1>a DEF MaxOpts
  <1>6. IdentityAt(g, n + 1)
    BY <1>1, <1>2, <1>3, <1>4, <1>5 DEF IdentityAt, n
  <1>7. \A i \in 1..MaxOpts : IdentityAt(g, i) => i = n + 1
    BY <1>1, <1>2, <1>3, <1>5 DEF IdentityAt, n
  <1>8. (CHOOSE i \in 1..MaxOpts : IdentityAt(g, i)) = n + 1
    BY <1>5, <1>6, <1>7
  <1> QED BY <1>2, <1>3, <1>5, <1>6, <1>8 DEF HasIdentity, parse_geneve_identity

-----------------------------------------------------------------------------
(* The inductive invariant: types, and for each place what is true of a    *)
(* frame that is there.                                                    *)

Whys == {"none", "unread", "ESTABLISHED", "FAILOPEN", "UNKNOWN_IDENTITY", "POLICY_MISS",
         "ALLOW", "POLICY_DENY", "REDIRECT", "INVALID_ACTION"}
Ends == {"none", "encap_fail", "denied_a", "denied_b", "delivered", "kernel_drop"}

Trips == [sent : Frames, known : IdOr0, stamp : IdOr0, openA : BOOLEAN, openB : BOOLEAN,
          src : IdOr0, why : Whys, faults : SUBSET Faults, end : Ends]

Types ==
    /\ identity \in [Nodes -> IdentityMap] /\ policy \in [Nodes -> PolicyMap]
    /\ failopen \in [Nodes -> BOOLEAN]
    /\ at \in {"egress", "wire", "kernel", "done"} /\ frame \in Frame /\ trip \in Trips
    /\ frame.flow = trip.sent.flow

AtEgress == at = "egress" => frame \in Frames /\ trip = Departure(frame)

\* A frame that carries a flow and that no program gave up on.
Plausible == CarriesFlow(trip.sent) /\ "pull" \notin trip.faults

\* The identity A wrote is the one the frame yields.
CarriesStamp ==
    /\ Alike(frame, trip.sent) /\ frame.words = trip.sent.words + 2
    /\ frame.base /\ frame.fit
    /\ HasIdentity(frame) /\ parse_geneve_identity(frame) = trip.stamp
    /\ Unambiguous(frame) /\ HeaderAt(frame) # "none"
    /\ trip.faults = {} => frame.body = "whole"

\* On the wire a frame has its stamp, or a fail-open node sent it without.
AtWire == at = "wire" =>
    /\ trip.src = Unknown /\ trip.why = "none" /\ trip.end = "none" /\ ~trip.openB
    /\ Plausible /\ trip.stamp # Unknown => CarriesStamp
    /\ Plausible /\ trip.stamp = Unknown =>
         /\ trip.openA
         /\ frame.body = "whole" => frame = trip.sent
         /\ trip.faults = {} => frame.body = "whole"

Deliverable == /\ frame.l3 /\ frame.base /\ frame.fit
               /\ frame.words = 0 /\ frame.sum # "bad"

Decoded == Plausible /\ trip.stamp # Unknown /\ trip.sent.words <= 6 => trip.src = trip.stamp

Opened == Plausible /\ trip.src = Unknown /\ frame.body = "whole" => trip.openA /\ trip.openB

Admitted == trip.why \in {"ALLOW", "REDIRECT", "ESTABLISHED"}

Ordinary == /\ CarriesFlow(trip.sent) /\ Plain(trip.sent) /\ ~trip.sent.big
            /\ trip.sent.base /\ trip.sent.fit /\ trip.faults = {}
            /\ trip.sent.sum = "none" \/ trip.stamp = Unknown

AtKernel == at = "kernel" =>
    /\ trip.end = "none" /\ Decoded
    /\ Deliverable => Opened
    /\ Admitted /\ Ordinary => Deliverable /\ frame.body = "whole"

AtDone == at = "done" =>
    /\ trip.why # "none" => Decoded
    /\ trip.end = "delivered" => Opened
    /\ Admitted /\ Ordinary => trip.end = "delivered" /\ frame.body = "whole"

Inv == Types /\ AtEgress /\ AtWire /\ AtKernel /\ AtDone /\ KnownSourcesAreStamped

-----------------------------------------------------------------------------

\* The maps always say something of an address.
LEMMA SrcDst ==
    ASSUME Types, NEW n \in Nodes, NEW f \in Frame
    PROVE  SrcAt(n, f) \in IdOr0 /\ DstAt(n, f) \in IdOr0 /\ ReadFlow(f) \in Flows
  <1>1. f.flow \in Flows /\ f.ghost \in Flows BY DEF Frame
  <1>2. ReadFlow(f) \in Flows BY <1>1 DEF ReadFlow
  <1>3. ReadFlow(f).src \in Addrs /\ ReadFlow(f).dst \in Addrs BY <1>2 DEF Flows
  <1>4. identity[n] \in IdentityMap BY DEF Types
  <1> QED BY <1>2, <1>3, <1>4 DEF SrcAt, DstAt, IdentityMap, IdOr0

\* What tc_egress did stays recorded for the rest of the way.
LEMMA KnownKept ==
    ASSUME KnownSourcesAreStamped, trip'.sent = trip.sent, trip'.stamp = trip.stamp,
           trip'.openA = trip.openA, trip'.known = trip.known,
           trip.faults \subseteq trip'.faults, trip'.end # "encap_fail"
    PROVE  KnownSourcesAreStamped'
  <1>1. KnownRefused' => KnownRefused BY DEF KnownRefused
  <1> QED BY <1>1 DEF KnownSourcesAreStamped

LEMMA InitInv == Init => Inv
  <1> SUFFICES ASSUME Init PROVE Inv OBVIOUS
  <1>1. /\ identity \in [Nodes -> IdentityMap] /\ policy \in [Nodes -> PolicyMap]
        /\ failopen \in [Nodes -> BOOLEAN]
    BY MapsAssumption DEF Init
  <1>2. at = "egress" /\ frame \in Frames /\ frame \in Frame /\ trip = Departure(frame)
    BY Made DEF Init
  <1>3. trip \in Trips /\ trip.sent = frame
    BY <1>2 DEF Departure, Trips, IdOr0, Whys, Ends
  <1>4. KnownSourcesAreStamped
    BY <1>2 DEF Departure, KnownSourcesAreStamped, KnownRefused
  <1> QED BY <1>1, <1>2, <1>3, <1>4 DEF Inv, Types, AtEgress, AtWire, AtKernel, AtDone

\* The agents change maps, not the frame.
LEMMA AgentInv == Inv /\ Agent => Inv'
  <1> SUFFICES ASSUME Inv, Agent PROVE Inv' OBVIOUS
  <1>1. UNCHANGED <<at, frame, trip>>
    BY DEF Agent, SetPosture, SetIdentities, SetPolicies
  <1>2. /\ identity' \in [Nodes -> IdentityMap] /\ policy' \in [Nodes -> PolicyMap]
        /\ failopen' \in [Nodes -> BOOLEAN]
    <2>1. PICK n \in Nodes : SetPosture(n) \/ SetIdentities(n) \/ SetPolicies(n)
      BY DEF Agent
    <2>2. CASE SetPosture(n) BY <2>2 DEF SetPosture, Inv, Types
    <2>3. CASE SetIdentities(n) BY <2>3, MapsAssumption DEF SetIdentities, Inv, Types
    <2>4. CASE SetPolicies(n) BY <2>4, MapsAssumption DEF SetPolicies, Inv, Types
    <2> QED BY <2>1, <2>2, <2>3, <2>4
  <1>3. Types' BY <1>1, <1>2 DEF Inv, Types
  <1>4. AtEgress' BY <1>1 DEF Inv, AtEgress
  <1>5. AtWire' BY <1>1 DEF Inv, AtWire, Plausible, CarriesStamp
  <1>6. AtKernel'
    BY <1>1 DEF Inv, AtKernel, Decoded, Opened, Admitted, Ordinary, Plausible, Deliverable
  <1>7. AtDone'
    BY <1>1 DEF Inv, AtDone, Decoded, Opened, Admitted, Ordinary, Plausible
  <1>8. KnownSourcesAreStamped' BY <1>1 DEF Inv, KnownSourcesAreStamped, KnownRefused
  <1> QED BY <1>3, <1>4, <1>5, <1>6, <1>7, <1>8 DEF Inv

\* The kernel of B delivers what it can decapsulate.
LEMMA DecapsulateInv == Inv /\ Decapsulate => Inv'
  <1> SUFFICES ASSUME Inv, Decapsulate PROVE Inv' OBVIOUS
  <1> DEFINE e == IF Deliverable THEN "delivered" ELSE "kernel_drop"
  <1>1. /\ at = "kernel" /\ at' = "done" /\ trip' = [trip EXCEPT !.end = e]
        /\ UNCHANGED <<identity, policy, failopen, frame>>
    BY DEF Decapsulate, maps, Deliverable
  <1>2. e \in Ends BY DEF Ends
  <1>3. trip \in Trips BY DEF Inv, Types
  <1> HIDE DEF e
  <1>4. /\ trip' \in Trips /\ trip'.end = e /\ trip'.sent = trip.sent
        /\ trip'.stamp = trip.stamp /\ trip'.openA = trip.openA /\ trip'.openB = trip.openB
        /\ trip'.src = trip.src /\ trip'.why = trip.why /\ trip'.faults = trip.faults
        /\ trip'.known = trip.known
    BY <1>1, <1>2, <1>3 DEF Trips
  <1>5. Types' BY <1>1, <1>4 DEF Inv, Types
  <1>6. AtKernel BY DEF Inv
  <1>7. e = IF Deliverable THEN "delivered" ELSE "kernel_drop" BY DEF e
  <1>8. AtDone'
    BY <1>1, <1>4, <1>6, <1>7
       DEF AtKernel, AtDone, Decoded, Opened, Admitted, Ordinary, Plausible
  <1>9. KnownSourcesAreStamped' BY <1>4, <1>7, KnownKept DEF Inv
  <1> QED BY <1>1, <1>5, <1>8, <1>9 DEF Inv, AtEgress, AtWire, AtKernel

-----------------------------------------------------------------------------
(* tc_egress *)

LEMMA EgressPassesInv ==
    ASSUME Inv, NEW h \in EgressHelpers, EgressPasses(h)
    PROVE  Inv'
  <1>1. /\ at = "egress" /\ at' = "wire" /\ frame \in Frames /\ trip = Departure(frame)
        /\ trip' = [trip EXCEPT !.faults = Failing(h)]
        /\ UNCHANGED <<identity, policy, failopen, frame>>
    BY DEF EgressPasses, maps, Inv, AtEgress
  <1>2. trip \in Trips /\ frame \in Frame BY DEF Inv, Types
  <1>3. Failing(h) \in SUBSET Faults BY <1>2 DEF Failing, EgressHelpers, Trips
  <1>4. /\ trip' \in Trips /\ trip'.faults = Failing(h) /\ trip'.sent = frame
        /\ trip'.stamp = Unknown /\ trip'.src = Unknown /\ trip'.why = "none"
        /\ trip'.end = "none" /\ ~trip'.openB /\ ~trip'.openA
    BY <1>1, <1>2, <1>3 DEF Trips, Departure
  <1>5. Types' BY <1>1, <1>2, <1>4 DEF Inv, Types
  <1>6. ~Plausible'
    <2>1. CASE h = "pull" BY <1>4, <2>1 DEF Plausible, Failing
    <2>2. CASE ~frame.l3 BY <1>1, <1>4, <2>2 DEF Plausible, CarriesFlow
    <2>3. CASE ~FlowOf(frame)
      BY <1>1, <1>2, <1>4, <2>3, Found DEF Plausible, CarriesFlow
    <2> QED BY <2>1, <2>2, <2>3 DEF EgressPasses
  <1>7. AtWire' BY <1>4, <1>6 DEF AtWire
  <1>8. KnownSourcesAreStamped' BY <1>4 DEF KnownSourcesAreStamped, KnownRefused
  <1> QED BY <1>1, <1>5, <1>7, <1>8 DEF Inv, AtEgress, AtKernel, AtDone

\* A helper that fails half-way leaves a frame, and a whole one only if it
\* has not touched it.
LEMMA HalfWrittenOK ==
    ASSUME NEW f \in Frame, NEW h
    PROVE  /\ HalfWritten(f, h) \in Frame /\ HalfWritten(f, h).flow = f.flow
           /\ CarriesFlow(f) /\ HalfWritten(f, h).body = "whole" => HalfWritten(f, h) = f
           /\ EncapFails(f, "none") => HalfWritten(f, h) = f
  <1> DEFINE g1 == [f EXCEPT !.l3 = FALSE, !.body = "damaged"]
             p  == IF Reserved(f) THEN f.pay ELSE IF f.pay = "raw" THEN "slot" ELSE "cut"
             s  == Rewritten(f.sum)
             g2 == [f EXCEPT !.pay = p, !.body = "damaged", !.sum = s]
  <1>1. g1 \in Frame /\ g1.flow = f.flow /\ g1.body = "damaged" BY DEF Frame
  <1>2. p \in {"teb", "raw", "slot", "cut"} BY DEF Frame
  <1>3. s \in {"none", "bad"} BY DEF Rewritten
  <1>4. g2 \in Frame /\ g2.flow = f.flow /\ g2.body = "damaged"
    <2> HIDE DEF p, s
    <2> QED BY <1>2, <1>3 DEF Frame
  <1>5. HalfWritten(f, h) =
          IF EncapFails(f, "none") \/ h = "room" THEN f
          ELSE IF h = "copy" THEN g1
          ELSE IF Reserved(f) /\ f.pay = "slot" THEN f ELSE g2
    BY DEF HalfWritten
  <1> HIDE DEF g1, g2
  <1> QED BY <1>1, <1>4, <1>5

\* What the two guards of insert_inner_tlv_room come to for a frame without options.
LEMMA RoomLimit ==
    ASSUME NEW f \in Frame, CarriesFlow(f), Plain(f)
    PROVE  HasRoom(f) <=> Reserved(f) \/ RoomFits(f)
  <1>1. Reserved(f) <=> f.pay = "slot" BY Found DEF CarriesFlow
  <1>2. f.ihl \in 5..15 /\ f.link \in {14, 18} BY DEF Frame
  <1>3. RoomFits(f) <=> 4 * f.ihl + 16 <= 64 /\ f.link + 4 * f.ihl + 16 <= 80
    <2>1. f.words = 0 BY DEF Plain
    <2>2. f.ihl \in Nat /\ f.link \in Nat BY <1>2
    <2>3. RoomOff(f) = f.link + 4 * f.ihl + 16 BY <2>1, <2>2 DEF RoomOff
    <2>4. RoomOff(f) - f.link = 4 * f.ihl + 16 BY <2>2, <2>3
    <2> QED BY <2>3, <2>4 DEF RoomFits, MaxShift, MaxRoomOff
  <1>4. CASE f.link = 14 BY <1>1, <1>2, <1>3, <1>4 DEF HasRoom
  <1>5. CASE f.link = 18 BY <1>1, <1>2, <1>3, <1>5 DEF HasRoom
  <1> QED BY <1>2, <1>4, <1>5

\* A plain frame with a known source and room for the option is stamped.
LEMMA NoEncapFail ==
    ASSUME NEW f \in Frame, CarriesFlow(f), Plain(f), f.base, f.fit, HasRoom(f),
           identity["A"][f.flow.src] # Unknown
    PROVE  ~EncapFails(f, "none")
  <1>1. FlowOf(f) /\ ReadFlow(f) = f.flow BY Found DEF CarriesFlow
  <1>2. Len(f.opts) = 0 /\ f.words = 0 BY DEF Plain
  <1>3. parse_geneve_option_count(f, 0)
    BY <1>2 DEF parse_geneve_option_count, Offset, MaxOpts
  <1>4. Framed(f) BY <1>2, <1>3 DEF Framed, MaxOpts, MaxOptWords
  <1>5. ~parse_geneve_option_count(f, MaxOpts)
    BY <1>2 DEF parse_geneve_option_count, MaxOpts
  <1>6. SrcAt("A", f) # Unknown /\ ReadFlow(f).l4 BY <1>1 DEF SrcAt, CarriesFlow
  <1> QED BY <1>4, <1>5, <1>6, RoomLimit DEF EncapFails

LEMMA EgressEncapFailInv ==
    ASSUME Inv, NEW h \in EgressHelpers, EgressEncapFail(h)
    PROVE  Inv'
  <1> DEFINE k == identity["A"][frame.flow.src]
             o == failopen["A"]
             e == IF o THEN "none" ELSE "encap_fail"
  <1>1. /\ at = "egress" /\ frame \in Frames /\ trip = Departure(frame)
        /\ trip' = [trip EXCEPT !.known = k, !.openA = o, !.faults = Failing(h), !.end = e]
        /\ IF o THEN at' = "wire" /\ frame' = HalfWritten(frame, h)
                ELSE at' = "done" /\ frame' = frame
        /\ EncapFails(frame, h)
        /\ UNCHANGED <<identity, policy, failopen>>
    BY DEF EgressEncapFail, maps, Inv, AtEgress
  <1>2. trip \in Trips /\ frame \in Frame /\ frame.body = "whole"
    BY <1>1, Made DEF Inv, Types
  <1>3. Failing(h) \in SUBSET Faults /\ (Failing(h) = {} => h = "none")
    BY <1>1, <1>2 DEF Failing, EgressHelpers, Trips
  <1>4. k \in IdOr0
    <2>1. frame.flow.src \in Addrs BY <1>2 DEF Frame, Flows
    <2> QED BY <2>1 DEF Inv, Types, Nodes, IdentityMap, IdOr0
  <1>5. o \in BOOLEAN /\ e \in Ends BY DEF Inv, Types, Nodes, Ends
  <1>6. k = identity["A"][frame.flow.src] /\ (o => e = "none") /\ (~o => e = "encap_fail")
    OBVIOUS
  <1> HIDE DEF k, o, e
  <1>7. /\ trip' \in Trips /\ trip'.faults = Failing(h) /\ trip'.sent = frame
        /\ trip'.stamp = Unknown /\ trip'.src = Unknown /\ trip'.why = "none"
        /\ trip'.end = e /\ ~trip'.openB /\ trip'.openA = o /\ trip'.known = k
    BY <1>1, <1>2, <1>3, <1>4, <1>5 DEF Trips, Departure
  <1>8. Types'
    <2>1. frame' \in Frame /\ frame'.flow = frame.flow BY <1>1, <1>2, HalfWrittenOK
    <2>2. at' \in {"egress", "wire", "kernel", "done"} BY <1>1
    <2> QED BY <1>1, <1>7, <2>1, <2>2 DEF Inv, Types
  <1>11. KnownSourcesAreStamped'
    <2> SUFFICES ASSUME KnownRefused', CarriesFlow(frame), frame.base, frame.fit,
                        Plain(frame), HasRoom(frame)
                 PROVE  FALSE
      BY <1>7 DEF KnownSourcesAreStamped
    <2>1. trip'.faults = {} /\ trip'.known # Unknown BY DEF KnownRefused
    <2>2. EncapFails(frame, "none") BY <1>1, <1>3, <1>7, <2>1
    <2> QED BY <1>2, <1>6, <1>7, <2>1, <2>2, NoEncapFail
  <1>9. CASE o
    <2>1. trip'.faults = {} => frame' = frame
      BY <1>1, <1>2, <1>3, <1>7, <1>9, HalfWrittenOK
    <2>2. Plausible' /\ frame'.body = "whole" => frame' = trip'.sent
      BY <1>1, <1>2, <1>7, <1>9, HalfWrittenOK DEF Plausible
    <2>3. AtWire' BY <1>2, <1>6, <1>7, <1>9, <2>1, <2>2 DEF AtWire
    <2> QED BY <1>1, <1>8, <1>9, <1>11, <2>3 DEF Inv, AtEgress, AtKernel, AtDone
  <1>10. CASE ~o
    <2>1. AtDone' BY <1>6, <1>7, <1>10 DEF AtDone, Admitted
    <2> QED BY <1>1, <1>8, <1>10, <1>11, <2>1 DEF Inv, AtEgress, AtKernel, AtWire
  <1> QED BY <1>5, <1>9, <1>10

LEMMA EgressDropsInv ==
    ASSUME Inv, NEW h \in EgressHelpers, EgressDrops(h)
    PROVE  Inv'
  <1>1. /\ at = "egress" /\ at' = "done" /\ trip = Departure(frame)
        /\ trip' = [trip EXCEPT !.end = "denied_a"]
        /\ UNCHANGED <<identity, policy, failopen, frame>>
    BY DEF EgressDrops, maps, Inv, AtEgress
  <1>2. trip \in Trips BY DEF Inv, Types
  <1>3. /\ trip' \in Trips /\ trip'.end = "denied_a" /\ trip'.why = "none"
        /\ trip'.sent = trip.sent /\ trip'.stamp = Unknown /\ ~trip'.openA
    BY <1>1, <1>2 DEF Trips, Departure, Ends
  <1>4. Types' BY <1>1, <1>3 DEF Inv, Types
  <1>5. AtDone' BY <1>3 DEF AtDone, Admitted
  <1>6. KnownSourcesAreStamped' BY <1>3 DEF KnownSourcesAreStamped, KnownRefused
  <1> QED BY <1>1, <1>4, <1>5, <1>6 DEF Inv, AtEgress, AtKernel, AtWire

\* The payload of a stamped frame is as easy to find as before.
LEMMA StampedFound ==
    ASSUME NEW f \in Frame, NEW g \in Frame, Alike(g, f), Unambiguous(f), HeaderAt(f) # "none",
           g.pay = IF f.pay = "slot" THEN "raw" ELSE f.pay
    PROVE  Unambiguous(g) /\ HeaderAt(g) # "none"
  BY DEF Alike, Unambiguous, HeaderAt, Frame

LEMMA EgressStampsInv ==
    ASSUME Inv, NEW h \in EgressHelpers, EgressStamps(h)
    PROVE  Inv'
  <1> DEFINE id == SrcAt("A", frame)
             b  == h # "bump"
  <1>1. /\ at = "egress" /\ at' = "wire" /\ frame \in Frames /\ trip = Departure(frame)
        /\ trip' = [trip EXCEPT !.stamp = id, !.faults = Failing(h)]
        /\ frame' = IF Reserved(frame) THEN StampSlot(frame, id) ELSE StampRoom(frame, id, b)
        /\ Stampable(frame) /\ ~EncapFails(frame, h) /\ ~DeniedAtA(frame)
        /\ UNCHANGED <<identity, policy, failopen>>
    BY DEF EgressStamps, maps, Inv, AtEgress
  <1>2. trip \in Trips /\ frame \in Frame /\ frame.body = "whole" /\ frame.words <= 61
    BY <1>1, Made DEF Inv, Types
  <1>3. /\ Failing(h) \in SUBSET Faults /\ (Failing(h) = {} => b)
    BY <1>1, <1>2 DEF Failing, EgressHelpers, Trips, Departure
  <1>4. id \in IDs /\ id \in IdOr0 /\ id # Unknown
    BY <1>1, <1>2, SrcDst DEF Stampable, Inv, Nodes, IdOr0
  <1>5. b \in BOOLEAN OBVIOUS
  <1> HIDE DEF id, b
  <1>6. /\ trip' \in Trips /\ trip'.faults = Failing(h) /\ trip'.sent = frame
        /\ trip'.stamp = id /\ trip'.src = Unknown /\ trip'.why = "none"
        /\ trip'.end = "none" /\ ~trip'.openB /\ ~trip'.openA
    BY <1>1, <1>2, <1>3, <1>4 DEF Trips, Departure
  <1>7. /\ frame' \in Frame /\ Alike(frame', frame) /\ frame'.words = frame.words + 2
        /\ frame'.opts = Append(frame.opts, Mine(id))
        /\ ~Reserved(frame) => frame'.pay = frame.pay /\ (b => frame'.body = frame.body)
        /\ Reserved(frame) /\ frame.pay = "slot" => frame'.pay = "raw" /\ frame'.body = frame.body
    BY <1>1, <1>2, <1>4, <1>5, StampOK
  <1>8. Types' BY <1>1, <1>6, <1>7 DEF Inv, Types, Alike
  <1>9. HasIdentity(frame') /\ parse_geneve_identity(frame') = id
    <2>1. Framed(frame) /\ ~parse_geneve_option_count(frame, MaxOpts)
      BY <1>1 DEF Stampable, EncapFails
    <2> QED BY <1>1, <1>4, <1>7, <2>1, OptionsCounted, IdentityFound
  <1>10. ASSUME Plausible' PROVE CarriesStamp'
    <2>1. CarriesFlow(frame) BY <1>6, <1>10 DEF Plausible
    <2>2. Reserved(frame) <=> frame.pay = "slot" BY <1>2, <2>1, Found DEF CarriesFlow
    <2>3. frame'.pay = IF frame.pay = "slot" THEN "raw" ELSE frame.pay BY <1>7, <2>2
    <2>4. Unambiguous(frame') /\ HeaderAt(frame') # "none"
      BY <1>2, <1>7, <2>1, <2>3, StampedFound DEF CarriesFlow
    <2>5. frame'.base /\ frame'.fit BY <1>1, <1>7 DEF Stampable, Framed, Alike
    <2>6. trip'.faults = {} => frame'.body = "whole" BY <1>2, <1>3, <1>6, <1>7, <2>2
    <2> QED BY <1>6, <1>7, <1>9, <2>4, <2>5, <2>6 DEF CarriesStamp
  <1>11. AtWire' BY <1>4, <1>6, <1>10 DEF AtWire
  <1>12. KnownSourcesAreStamped'
    <2>1. ~KnownRefused' BY <1>6 DEF KnownRefused
    <2>2. Reserved(frame) \/ RoomFits(frame) BY <1>1 DEF EncapFails, Stampable
    <2>3. CarriesFlow(frame) /\ Plain(frame) => HasRoom(frame) BY <1>2, <2>2, RoomLimit
    <2> QED BY <1>6, <2>1, <2>3 DEF KnownSourcesAreStamped
  <1> QED BY <1>1, <1>8, <1>11, <1>12 DEF Inv, AtEgress, AtKernel, AtDone

-----------------------------------------------------------------------------
(* tc_ingress *)

\* tc_ingress reads a stamped frame whose options fit the eight words.
LEMMA StampedReadable ==
    ASSUME Types, CarriesStamp, CarriesFlow(trip.sent), trip.sent.words <= 6
    PROVE  Readable(frame)
  <1>1. frame \in Frame /\ trip.sent \in Frames BY DEF Types, Trips
  <1>2. frame.words <= 8 BY <1>1, Made DEF CarriesStamp
  <1>3. FlowOf(frame) /\ ReadFlow(frame) = frame.flow BY <1>1, Found DEF CarriesStamp
  <1>4. frame.l3 /\ frame.flow.l4 BY DEF CarriesStamp, CarriesFlow, Alike
  <1> QED BY <1>2, <1>3, <1>4 DEF CarriesStamp, Readable, Peels, MaxOptWords

LEMMA IngressPassesInv ==
    ASSUME Inv, NEW h \in IngressHelpers, IngressPasses(h)
    PROVE  Inv'
  <1>1. /\ at = "wire" /\ at' = "kernel" /\ (h = "pull" \/ ~Readable(frame))
        /\ trip' = [trip EXCEPT !.why = "unread", !.faults = Failing(h)]
        /\ UNCHANGED <<identity, policy, failopen, frame>>
    BY DEF IngressPasses, maps
  <1>2. trip \in Trips /\ frame \in Frame /\ AtWire /\ Types BY DEF Inv, Types
  <1>3. Failing(h) \in SUBSET Faults /\ trip.faults \subseteq Failing(h)
        /\ (h = "pull" => "pull" \in Failing(h))
    BY <1>1, <1>2 DEF Failing, IngressHelpers, Trips
  <1>4. /\ trip' \in Trips /\ trip'.faults = Failing(h) /\ trip'.sent = trip.sent
        /\ trip'.stamp = trip.stamp /\ trip'.src = trip.src /\ trip'.why = "unread"
        /\ trip'.end = trip.end /\ trip'.openA = trip.openA /\ trip'.openB = trip.openB
        /\ trip'.known = trip.known
    BY <1>1, <1>2, <1>3 DEF Trips, Whys
  <1>5. Types' BY <1>1, <1>4 DEF Inv, Types
  <1>6. Plausible' => Plausible /\ ~Readable(frame) BY <1>1, <1>3, <1>4 DEF Plausible
  <1>7. trip.sent \in Frames BY <1>2 DEF Trips
  <1>8. Decoded'
    BY <1>1, <1>2, <1>4, <1>6, StampedReadable DEF Decoded, AtWire, Plausible
  <1>9. ASSUME Deliverable', Plausible', frame.body = "whole" PROVE FALSE
    <2>1. frame.l3 /\ frame.base /\ frame.fit /\ frame.words = 0 BY <1>1, <1>9 DEF Deliverable
    <2>2. CASE trip.stamp # Unknown
      <3>1. frame.words = trip.sent.words + 2 BY <1>1, <1>2, <1>6, <1>9, <2>2 DEF AtWire, CarriesStamp
      <3> QED BY <1>7, <2>1, <3>1, Made
    <2>3. CASE trip.stamp = Unknown
      <3>1. frame = trip.sent BY <1>1, <1>2, <1>6, <1>9, <2>3 DEF AtWire
      <3>2. CarriesFlow(frame) BY <1>6, <1>9, <3>1 DEF Plausible
      <3>3. FlowOf(frame) /\ ReadFlow(frame).l4 BY <1>2, <3>2, Found DEF CarriesFlow
      <3> QED BY <1>6, <1>9, <2>1, <3>3 DEF Readable, Peels, MaxOptWords
    <2> QED BY <2>2, <2>3
  <1>10. Deliverable' => Opened' BY <1>1, <1>9 DEF Opened
  <1>11. AtKernel' BY <1>1, <1>2, <1>4, <1>8, <1>10 DEF AtKernel, AtWire, Admitted
  <1>12. trip'.end # "encap_fail" BY <1>1, <1>2, <1>4 DEF AtWire
  <1>13. KnownSourcesAreStamped' BY <1>3, <1>4, <1>12, KnownKept DEF Inv
  <1> QED BY <1>1, <1>5, <1>11, <1>13 DEF Inv, AtEgress, AtWire, AtDone

\* Stripping leaves a frame; a lone identity option goes without a trace.
LEMMA StrippedOK ==
    ASSUME NEW f \in Frame, NEW h
    PROVE  LET g == Stripped(f, h) IN
           /\ g \in Frame /\ Alike(g, f)
           /\ ~HasIdentity(f) => g = f
           /\ HasIdentity(f) /\ ~f.big /\ h # "strip" /\ f.words = 2 =>
                g.words = 0 /\ g.body = f.body
  <1> DEFINE g == strip_meridian_tlv(f)
             q == << >>
             n == 0
             b == IF f.words = OptWords THEN f.body ELSE "damaged"
             s == Rewritten(f.sum)
  <1>a. q \in Seq(Option) OBVIOUS
  <1>b. b \in {"whole", "damaged"} BY DEF Frame
  <1>c. n \in 0..63 OBVIOUS
  <1>d. s \in {"none", "bad"} /\ (f.sum = "none" => s = "none") BY DEF Rewritten
  <1>2. g \in Frame
    <2>1. g = [f EXCEPT !.opts = q, !.words = n, !.sum = s, !.body = b]
      BY DEF strip_meridian_tlv
    <2> HIDE DEF g, q, n, b, s
    <2> QED BY <1>a, <1>b, <1>c, <1>d, <2>1 DEF Frame
  <1>3. Alike(g, f) BY <1>d DEF strip_meridian_tlv, Frame, Alike
  <1>4. f.words = 2 => g.words = 0 /\ g.body = f.body
    BY DEF strip_meridian_tlv, Frame, OptWords
  <1>5. Alike(f, f) BY DEF Alike
  <1>6. Stripped(f, h) = IF HasIdentity(f) /\ ~f.big /\ h # "strip" THEN g ELSE f
    BY DEF Stripped
  <1> HIDE DEF g
  <1> QED BY <1>2, <1>3, <1>4, <1>5, <1>6

\* The source tc_ingress decides on is an identity or unknown.
LEMMA SourceOK ==
    ASSUME Types, NEW f \in Frame
    PROVE  Source(f) \in IdOr0
  <1>1. CASE HasIdentity(f)
    <2>1. \E i \in 1..MaxOpts : IdentityAt(f, i) BY <1>1 DEF HasIdentity
    <2> DEFINE i == CHOOSE j \in 1..MaxOpts : IdentityAt(f, j)
    <2>2. i \in 1..MaxOpts /\ IdentityAt(f, i) BY <2>1
    <2>3. parse_geneve_identity(f) = f.opts[i].id BY <1>1 DEF parse_geneve_identity
    <2> HIDE DEF i
    <2>4. f.opts \in Seq(Option) BY DEF Frame
    <2>5. i \in 1..Len(f.opts) BY <2>2, <2>4 DEF IdentityAt
    <2>6. f.opts[i] \in Option BY <2>4, <2>5
    <2> QED BY <1>1, <2>3, <2>6 DEF Source, Option, IdOr0
  <1>2. CASE ~HasIdentity(f)
    BY <1>2, SrcDst DEF Source, Nodes
  <1> QED BY <1>1, <1>2

\* What tc_ingress passes, and what it passes without a source.
LEMMA DecisionOK ==
    ASSUME NEW f
    PROVE  LET d == Decision(f) IN
           /\ d.why \in Whys \ {"none", "unread"}
           /\ d.why \in {"ALLOW", "REDIRECT", "ESTABLISHED"} => d.act = "OK"
           /\ Source(f) = Unknown /\ d.act = "OK" => d.why = "FAILOPEN"
  <1> DEFINE src == Source(f)
             dst == DstAt("B", f)
             w   == ReadFlow(f)
  <1>1. CASE Established(f)
    BY <1>1 DEF Decision, Decide, Established, Whys
  <1>2. CASE ~Established(f)
    <2>1. Decision(f) = enforce_flow(policy["B"], failopen["B"], src, dst, w, "STOLEN")
      BY <1>2 DEF Decision
    <2> HIDE DEF src, dst, w
    <2>2. /\ Decision(f).why \in Whys \ {"none", "unread"}
          /\ Decision(f).why \in {"ALLOW", "REDIRECT", "ESTABLISHED"} => Decision(f).act = "OK"
      BY <2>1 DEF enforce_flow, Decide, Whys
    <2>3. src = Unknown /\ Decision(f).act = "OK" => Decision(f).why = "FAILOPEN"
      BY <2>1, UnknownSource
    <2> QED BY <2>2, <2>3 DEF src
  <1> QED BY <1>1, <1>2

LEMMA IngressDecidesInv ==
    ASSUME Inv, NEW h \in IngressHelpers, IngressDecides(h)
    PROVE  Inv'
  <1> DEFINE d  == Decision(frame)
             sr == Source(frame)
             w  == d.why
             ob == d.why = "FAILOPEN"
             e  == IF d.act = "OK" THEN "none" ELSE "denied_b"
  <1>1. /\ at = "wire" /\ h # "pull" /\ Readable(frame)
        /\ trip' = [trip EXCEPT !.src = sr, !.why = w, !.openB = ob,
                                !.faults = Failing(h), !.end = e]
        /\ IF d.act = "OK" THEN at' = "kernel" /\ frame' = Stripped(frame, h)
                           ELSE at' = "done" /\ frame' = frame
        /\ UNCHANGED <<identity, policy, failopen>>
    BY DEF IngressDecides, maps
  <1>2. trip \in Trips /\ frame \in Frame /\ AtWire /\ Types BY DEF Inv, Types
  <1>3. /\ Failing(h) \in SUBSET Faults /\ trip.faults \subseteq Failing(h)
        /\ (Failing(h) = {} => trip.faults = {} /\ h # "strip")
    BY <1>1, <1>2 DEF Failing, IngressHelpers, Trips
  <1>4. sr \in IdOr0 BY <1>2, SourceOK
  <1>5. /\ w \in Whys \ {"none", "unread"} /\ e \in Ends /\ ob \in BOOLEAN
        /\ w \in {"ALLOW", "REDIRECT", "ESTABLISHED"} => d.act = "OK"
        /\ sr = Unknown /\ d.act = "OK" => ob
        /\ d.act = "OK" => e = "none"
        /\ d.act # "OK" => e = "denied_b"
    BY DecisionOK DEF Ends
  <1>6. sr = IF HasIdentity(frame) THEN parse_geneve_identity(frame) ELSE SrcAt("B", frame)
    BY DEF Source
  <1> HIDE DEF d, sr, w, ob, e
  <1>7. /\ trip' \in Trips /\ trip'.faults = Failing(h) /\ trip'.sent = trip.sent
        /\ trip'.stamp = trip.stamp /\ trip'.src = sr /\ trip'.why = w
        /\ trip'.end = e /\ trip'.openA = trip.openA /\ trip'.openB = ob
        /\ trip'.known = trip.known
    BY <1>1, <1>2, <1>3, <1>4, <1>5 DEF Trips
  <1>14. KnownSourcesAreStamped' BY <1>3, <1>5, <1>7, KnownKept DEF Inv
  <1>8. Types'
    <2>1. frame' \in Frame /\ frame'.flow = frame.flow
      BY <1>1, <1>2, StrippedOK DEF Alike
    <2>2. at' \in {"egress", "wire", "kernel", "done"} BY <1>1
    <2> QED BY <1>1, <1>7, <2>1, <2>2 DEF Inv, Types
  <1>9. Plausible' => Plausible BY <1>3, <1>7 DEF Plausible
  <1>10. Plausible /\ trip.stamp # Unknown => sr = trip.stamp
    BY <1>1, <1>2, <1>6 DEF AtWire, CarriesStamp
  <1>11. Decoded' BY <1>7, <1>9, <1>10 DEF Decoded
  <1>12. CASE d.act = "OK"
    <2>1. Opened'
      BY <1>1, <1>2, <1>5, <1>7, <1>9, <1>10, <1>12 DEF Opened, AtWire
    <2>2. ASSUME Ordinary' PROVE Deliverable' /\ frame'.body = "whole"
      <3>1. /\ CarriesFlow(trip.sent) /\ Plain(trip.sent) /\ ~trip.sent.big
            /\ trip.sent.base /\ trip.sent.fit /\ trip.faults = {} /\ h # "strip"
            /\ trip.sent.sum = "none" \/ trip.stamp = Unknown
        BY <1>3, <1>7, <2>2 DEF Ordinary
      <3>2. Plausible BY <3>1 DEF Plausible
      <3>3. frame' = Stripped(frame, h) BY <1>1, <1>12
      <3>4. CASE trip.stamp # Unknown
        <4>1. CarriesStamp BY <1>1, <1>2, <3>2, <3>4 DEF AtWire
        <4>2. frame.words = 2 /\ frame.body = "whole" /\ ~frame.big /\ frame.l3
          BY <3>1, <4>1 DEF CarriesStamp, Plain, Alike, CarriesFlow
        <4>3. frame'.words = 0 /\ frame'.body = "whole" /\ Alike(frame', frame)
          BY <1>2, <3>1, <3>3, <4>1, <4>2, StrippedOK DEF CarriesStamp
        <4>4. frame'.sum = "none" BY <3>1, <3>4, <4>1, <4>3 DEF CarriesStamp, Alike
        <4> QED BY <4>1, <4>2, <4>3, <4>4 DEF Deliverable, Alike, CarriesStamp
      <3>5. CASE trip.stamp = Unknown
        <4>1. frame = trip.sent /\ frame.body = "whole"
          BY <1>1, <1>2, <3>1, <3>2, <3>5 DEF AtWire
        <4>2. trip.sent \in Frames BY <1>2 DEF Trips
        <4>3. frame' = frame BY <1>2, <3>3, <4>1, <4>2, NoIdentity, StrippedOK
        <4>4. frame.sum # "bad" BY <4>1, <4>2, Made
        <4> QED BY <3>1, <4>1, <4>3, <4>4 DEF Deliverable, Plain, CarriesFlow
      <3> QED BY <3>4, <3>5
    <2>3. AtKernel' BY <1>5, <1>7, <1>11, <1>12, <2>1, <2>2 DEF AtKernel
    <2> QED BY <1>1, <1>8, <1>12, <1>14, <2>3 DEF Inv, AtEgress, AtWire, AtDone
  <1>13. CASE d.act # "OK"
    <2>1. AtDone' BY <1>5, <1>7, <1>11, <1>13 DEF AtDone, Admitted
    <2> QED BY <1>1, <1>8, <1>13, <1>14, <2>1 DEF Inv, AtEgress, AtWire, AtKernel
  <1> QED BY <1>12, <1>13

-----------------------------------------------------------------------------

LEMMA NextInv == Inv /\ [Next]_vars => Inv'
  <1> SUFFICES ASSUME Inv, [Next]_vars PROVE Inv' OBVIOUS
  <1>1. CASE TcEgress
    BY <1>1, EgressPassesInv, EgressEncapFailInv, EgressDropsInv, EgressStampsInv DEF TcEgress
  <1>2. CASE TcIngress
    BY <1>2, IngressPassesInv, IngressDecidesInv DEF TcIngress
  <1>3. CASE Decapsulate BY <1>3, DecapsulateInv
  <1>4. CASE Agent BY <1>4, AgentInv
  <1>5. CASE UNCHANGED vars
    <2>1. UNCHANGED <<identity, policy, failopen, at, frame, trip>> BY <1>5 DEF vars
    <2>2. Types' BY <2>1 DEF Inv, Types
    <2>3. AtEgress' BY <2>1 DEF Inv, AtEgress
    <2>4. AtWire' BY <2>1 DEF Inv, AtWire, Plausible, CarriesStamp
    <2>5. AtKernel'
      BY <2>1 DEF Inv, AtKernel, Decoded, Opened, Admitted, Ordinary, Plausible, Deliverable
    <2>6. AtDone'
      BY <2>1 DEF Inv, AtDone, Decoded, Opened, Admitted, Ordinary, Plausible
    <2>7. KnownSourcesAreStamped' BY <2>1 DEF Inv, KnownSourcesAreStamped, KnownRefused
    <2> QED BY <2>2, <2>3, <2>4, <2>5, <2>6, <2>7 DEF Inv
  <1> QED BY <1>1, <1>2, <1>3, <1>4, <1>5 DEF Next

LEMMA Invariance == Spec => []Inv
  BY InitInv, NextInv, PTL DEF Spec

\* The frame stays one the parsers' types describe, through stamp and strip.
THEOREM TypesHold == Spec => []TypeOK
  <1>1. Inv => TypeOK BY DEF Inv, Types, Trips, IdOr0, TypeOK
  <1> QED BY Invariance, <1>1, PTL

\* ADR-0005: a flow that arrives whole and without an identity left a node
\* that was fail-open and was decided by one that was.
THEOREM BothOpen == Spec => []UnidentifiedNeedsBothOpen
  <1>1. Inv => UnidentifiedNeedsBothOpen
    BY DEF Inv, Types, AtEgress, AtWire, AtKernel, AtDone, Opened, Plausible,
           UnidentifiedNeedsBothOpen, Departure
  <1> QED BY Invariance, <1>1, PTL

\* ADR-0002: tc_ingress enforces on the identity tc_egress wrote.
THEOREM DecodesTheStamp == Spec => []StampedIsDecoded
  <1>1. Inv => StampedIsDecoded
    BY DEF Inv, AtKernel, AtDone, Decoded, Plausible, StampedIsDecoded, MaxOptWords, OptWords
  <1> QED BY Invariance, <1>1, PTL

\* strip_meridian_tlv: an admitted plain frame arrives as it was sent, if no
\* outer UDP checksum covers it or no option was written into it.
THEOREM ArrivesWhole == Spec => []AdmittedArrivesWhole
  <1>1. Inv => AdmittedArrivesWhole
    BY DEF Inv, AtDone, Admitted, Ordinary, AdmittedArrivesWhole
  <1> QED BY Invariance, <1>1, PTL

\* encap_fail: a plain flow of a known source is refused exactly when an outer
\* header of more than 48 bytes, 44 behind a VLAN tag, leaves no room.
THEOREM KnownStamped == Spec => []KnownSourcesAreStamped
  BY Invariance, PTL DEF Inv

\* ADR-0001: tc_ingress passes what the reference evaluator does not deny and
\* else only later segments of a connection; tc_egress drops what it denies.
THEOREM MatchesReference == Spec => []KernelMatchesReference
  <1>1. ASSUME Inv PROVE KernelMatchesReference
    <2>1. /\ Types /\ frame \in Frame /\ Unknown \in IdOr0
          /\ \A n \in Nodes : policy[n] \in PolicyMap /\ failopen[n] \in BOOLEAN
      BY <1>1 DEF Inv, Types, IdOr0
    <2>2. \A n \in Nodes : /\ SrcAt(n, frame) \in IdOr0 /\ DstAt(n, frame) \in IdOr0
                           /\ ReadFlow(frame) \in Flows
      BY <2>1, SrcDst
    <2>3. Source(frame) \in IdOr0 BY <2>1, SourceOK
    <2>4. ASSUME Evaluable(policy["B"]) PROVE
            LET ok  == Decision(frame).act = "OK"
                ref == Reference("B", Source(frame), frame) # "DENY"
            IN (ref => ok) /\ (ok => ref \/ Established(frame))
      <3>1. CASE Established(frame) BY <3>1 DEF Decision, Decide
      <3>2. CASE ~Established(frame)
        <4>1. Decision(frame) = enforce_flow(policy["B"], failopen["B"], Source(frame),
                                             DstAt("B", frame), ReadFlow(frame), "STOLEN")
          BY <3>2 DEF Decision
        <4> QED BY <2>1, <2>2, <2>3, <2>4, <4>1, Agree DEF Reference, Nodes
      <3> QED BY <3>1, <3>2
    <2>5. DeniedAtA(frame) => Reference("A", SrcAt("A", frame), frame) = "DENY"
      BY <2>1, <2>2, DenyAgree DEF DeniedAtA, Reference, Nodes
    <2> QED BY <2>4, <2>5 DEF KernelMatchesReference
  <1> QED BY Invariance, <1>1, PTL
=============================================================================
