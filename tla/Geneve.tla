------------------------------- MODULE Geneve --------------------------------
(***************************************************************************)
(* A frame as tc_egress and tc_ingress take it apart: the Geneve options,  *)
(* the search for the inner IPv4 header (meridian_parse.h), making room    *)
(* for the identity option and taking it out again.                        *)
(*                                                                         *)
(* Data abstraction.  A frame records what the parsers branch on.  Lengths *)
(* of headers and options are kept in the code's units because the bounds  *)
(* on them meet; payload bytes are not kept, only what the bytes at the    *)
(* two offsets the parser probes look like:                                *)
(*   mac0, mac8   byte 0 / byte 8 of an inner Ethernet header (a byte of   *)
(*                the destination / source MAC) reads as version 4, IHL>=5 *)
(*   ttl          byte 8 of the inner IPv4 header, its TTL, does           *)
(*   ghost        the flow that is read when the parser stops at an offset *)
(*                where there is no header                                 *)
(*   sum          the outer UDP checksum: "none" when the field is zero    *)
(***************************************************************************)
EXTENDS Naturals, Sequences

OptWords    == 2      \* MERIDIAN_GENEVE_OPT_WORDS
MaxOpts     == 4      \* MERIDIAN_MAX_GENEVE_OPTS
MaxOptWords == 8      \* MERIDIAN_MAX_GENEVE_OPT_WORDS
MaxShift    == 64     \* insert_inner_tlv_room
MaxRoomOff  == 80     \* insert_inner_tlv_room

\* One Geneve option: the Meridian identity option, or somebody else's.
Mine(id)   == [mine |-> TRUE, id |-> id, words |-> OptWords]
Foreign(w) == [mine |-> FALSE, id |-> 0, words |-> w]

-----------------------------------------------------------------------------
\* The option area.  The walks unroll MaxOpts iterations, so do these sums.

SizeOf(opts, i) == IF i <= Len(opts) THEN opts[i].words ELSE 0

Offset(opts, n) == (IF n >= 1 THEN SizeOf(opts, 1) ELSE 0)
                 + (IF n >= 2 THEN SizeOf(opts, 2) ELSE 0)
                 + (IF n >= 3 THEN SizeOf(opts, 3) ELSE 0)
                 + (IF n >= 4 THEN SizeOf(opts, 4) ELSE 0)

\* parse_geneve_option_count succeeds with n: n options fill the area exactly.
parse_geneve_option_count(f, n) ==
    n \in 0..MaxOpts /\ n <= Len(f.opts) /\ Offset(f.opts, n) = f.words

\* Fault: the walk looks at one option less.
IdentityAtOneLess(f, i) ==
    /\ i \in 1..(MaxOpts - 1) /\ i <= Len(f.opts)
    /\ Offset(f.opts, i) <= f.words
    /\ f.opts[i].mine
    /\ \A j \in 1..(i - 1) : ~f.opts[j].mine

\* parse_geneve_identity finds the identity option at i.
IdentityAt(f, i) ==
    /\ i \in 1..MaxOpts /\ i <= Len(f.opts)
    /\ Offset(f.opts, i) <= f.words
    /\ f.opts[i].mine
    /\ \A j \in 1..(i - 1) : ~f.opts[j].mine

HasIdentity(f) == \E i \in 1..MaxOpts : IdentityAt(f, i)

parse_geneve_identity(f) ==
    IF HasIdentity(f) THEN f.opts[CHOOSE i \in 1..MaxOpts : IdentityAt(f, i)].id ELSE 0

-----------------------------------------------------------------------------
\* The inner header.  pay is what follows the options: "teb" the kernel's
\* inner Ethernet frame, "raw" an IPv4 header, "slot" eight reserved bytes
\* and an IPv4 header, "cut" a payload whose first eight bytes are lost.

LooksLikeIPv4At0(f) == f.pay \in {"raw", "cut"} \/ (f.pay = "teb" /\ f.mac0)
LooksLikeIPv4At8(f) ==
    \/ f.pay = "slot"
    \/ f.pay = "raw" /\ f.ttl
    \/ f.pay = "teb" /\ f.mac8

\* parse_ipv4_in_geneve_payload: the first of three probes that succeeds.
parse_ipv4_in_geneve_payload(f) ==
    IF LooksLikeIPv4At8(f) THEN "at8"
    ELSE IF LooksLikeIPv4At0(f) THEN "at0"
    ELSE IF f.pay = "teb" /\ f.v4 THEN "eth"
    ELSE "none"

\* Where the header really is.
HeaderAt(f) == CASE f.pay = "teb" /\ f.v4 -> "eth"
                 [] f.pay = "raw"         -> "at0"
                 [] f.pay = "slot"        -> "at8"
                 [] OTHER                 -> "none"

ReadFlow(f) == IF parse_ipv4_in_geneve_payload(f) = HeaderAt(f) THEN f.flow ELSE f.ghost

\* The bytes of the payload leave no doubt about where the header is.
Unambiguous(f) == IF f.pay = "teb" THEN ~f.mac0 /\ ~f.mac8 ELSE ~f.ttl

-----------------------------------------------------------------------------
\* Writing the option.

RoomOff(f) == f.link + 4 * f.ihl + 16 + 4 * f.words

\* Fault: the buffer the headers are copied through is not taken into account.
RoomOfShift(f) == RoomOff(f) - f.link <= MaxShift

\* insert_inner_tlv_room: the guards before the frame is touched.
RoomFits(f) == RoomOff(f) - f.link <= MaxShift /\ RoomOff(f) <= MaxRoomOff

\* The outer UDP checksum of a datagram that has been rewritten.  Nothing here
\* repairs one: stamp_identity_tlv and strip_meridian_tlv leave it alone, and
\* bump_udp_geneve_lengths hands bpf_l4_csum_replace the offset of the UDP header,
\* so the difference of the lengths goes into the source port.
Rewritten(s) == IF s = "none" THEN "none" ELSE "bad"

AddOption(f, id) == [f EXCEPT !.opts = Append(@, Mine(id)), !.words = @ + OptWords,
                              !.sum = Rewritten(@)]

\* stamp_identity_tlv into the reserved slot; without a slot it overwrites.
StampSlot(f, id) ==
    [AddOption(f, id) EXCEPT !.pay  = IF f.pay = "slot" THEN "raw" ELSE "cut",
                             !.body = IF f.pay = "slot" THEN @ ELSE "damaged"]

\* insert_inner_tlv_room, bump_udp_geneve_lengths and stamp_identity_tlv;
\* when the lengths are not bumped the frame claims eight bytes less.
StampRoom(f, id, bumped) ==
    [AddOption(f, id) EXCEPT !.body = IF bumped THEN @ ELSE "damaged"]

\* Fault: the option words stay in the Geneve header.
StripKeepsWords(f) == [f EXCEPT !.opts = << >>]

\* strip_meridian_tlv moves the payload up by one identity option and clears
\* the option length: what other options took stays in front of the payload.
strip_meridian_tlv(f) ==
    [f EXCEPT !.opts  = << >>, !.words = 0, !.sum = Rewritten(@),
              !.body  = IF f.words = OptWords THEN @ ELSE "damaged"]
=============================================================================
