# Meridian: TLA+ models, checks and proofs

Meridian is an eBPF service mesh. A control plane holds identities and compiled L4
policies and streams them over ADS to one agent per node. The agent writes them into
pinned kernel maps that the tc and socket programs consult for every packet, and runs a
node proxy for the flows that need mTLS or L7 policy. This directory models the system in
TLA+, checks the models with TLC on small instances, and proves the central properties
with TLAPS for all instances.

`PROJECT.json` lists the components, the runs, the mapping from definitions to source
lines, the hazards, the findings and the theorems.

## Inventory

| Part | State | Operations | Correct when |
|---|---|---|---|
| Store (`control/store/memory.go`) | identities, policies, watcher channels of capacity 1 | put/delete (commit, unlock, notify), list, watch | a watcher that re-reads on every wake-up ends with the current content |
| ADS server (`control/ads`) | per stream: subscriptions, per-type sent/acked version, outstanding nonce | subscribe, ACK, NACK, stale, push on change | no change is lost; the accepted version describes what the agent runs |
| ADS client (`agent/xds`) | applied snapshot, accepted versions | receive, diff, apply, commit, ACK/NACK, reconnect | applies only contents the Store had, never goes back, ACKs what it runs |
| Datapath writer (`agent/datapath`) | address remembered per identity; two kernel maps | four phases of map syscalls | every intermediate state is between two snapshots |
| Start-up (`agent/supervisor`, `agent/config`, `agent/bpfobj`) | pinned maps, schema sentinel, YAML seed | open or reopen pins, seed, attach | kernel state survives; a version mismatch refuses to start |
| Link watcher and attachment (`agent/linkwatch`, `agent/attach`) | attached links | reconcile, subscribe, attach, detach | every matching link ends up attached |
| tc programs (`bpf/tc_ingress.c`, `tc_egress.c`, `counter.c`) | identity, policy and flow maps, metrics, event ring, Geneve option | parse, look up, decide, stamp, strip, record | the receiver enforces on the identity the sender wrote; the posture rules the rest; the record is true |
| Socket programs (`bpf/sock_ops.c`, `sk_msg.c`) | sockhash | gate, insert, redirect | only eligible flows take the fast path, and nothing sent is lost or misdelivered |
| Registry, REST, Kubernetes watchers (`control/identity`, `rest`, `k8s`) | id by name, rules applied per object | allocate, release, compile, upsert, delete | the Store holds exactly the rules of the live objects |
| Compiler, codec (`control/compiler.go`, `cc2`) | none | compile, encode, decode | compiled rules agree with the reference evaluator |
| CA, bootstrap (`control/ca`, `cmd/meridian-agent`) | key and certificate files | issue, exchange a token, save, load | a crash leaves a usable or a re-bootstrappable state |
| SVID manager, store, Workload API (`agent/svid`, `workloadapi`) | current SVID, subscribers | issue, rotate, retry, force, push | near expiry nothing stale is served; watchers see the latest |
| Node proxy (`proxy`) | breakers per destination, tunnels | authorise, dial, relay, account | denied flows are not relayed; a breaker recovers |
| Telemetry, admin, CLI | subscribers, windows, counters | consume, aggregate, broadcast | consumers never block the datapath |

The parts interact through the Store's Watch channel (control plane), one gRPC stream per
agent, the writer's map syscalls, the pinned maps (shared with the kernel programs), the
post-apply hook (client to proxy resolver) and the SVID store's subscriptions.

Hard to test are: a notification between two steps of a push, ACKs that cross a newer
push, a stream that breaks between commit and ACK, a syscall that fails inside a plan, a
process that dies over pinned maps, an address that changes owner, late results at the
circuit breaker, a rotation that fails near expiry, link events around the reconcile scan,
maps that change between two look-ups of one packet, a helper that fails half-way through
rewriting a frame, two CPUs in the same LRU element, a sockhash key that changes owner, a
pod that goes between two reads of the informer's cache.

## Modules

### ConfigSync, AdsStream: the configuration channel

`AdsStream` composes the Store, one stream handler of the ADS server, the gRPC stream and
the agent's client. A half of the configuration (CDS: policies, EDS: identities) is
abstracted to its revision, the number of mutations committed to it: that is what the
properties tell apart. `Mutate` and `Notify` are separate steps because `Memory` notifies
after its unlock. `ReadResources` and `SendResponse` are separate because `push` lists the
Store before it stamps a version. `SendAck` and `PostApply` are separate because the client runs its
hook after the ACK has gone out, so the server may take the ACK first. A broken stream resets the server's per-stream state and
loses what is in flight towards the server; the agent may still handle responses that had
reached it. LDS and RDS are never subscribed to by the agent and are left out, as is the
length of the reconnect backoff.

`ConfigSync` is what the channel promises: each half of the agent's configuration is one
the Store really had, and it only moves forward. `AdsStream` implements it with the
identity mapping on `store` and `applied`.

### RuleUpdate, Datapath: from a snapshot to the kernel

`Datapath` models `candidateFor`, `diff`, `Writer.Apply` with one step per map syscall in
any order inside a phase (snapshots come from Go map iteration), the commit, a failing
syscall at any point, an address that does not parse, the YAML seed through the same
writer, and the death of the process at any point. The two maps are pinned and survive;
the client's snapshot and the writer's address table do not. Rule keys, verdicts and
addresses are opaque; which addresses an identity may be listed with is a constant, so the
same module covers fixed, moving, reused and malformed addresses. The variable `torn` is history:
a map syscall of the running process failed inside an apply. What that leaves behind ends with
the process, since the next one accounts for nothing it finds.

`RuleUpdate` is what the writer promises about rules to the traffic that is judged by them: they
change one at a time, nothing of the old snapshot goes before all of the new one is in, an update
finishes only when it is installed, and a refused one leaves every accounted rule. `Datapath`
implements it with `live`, `old` and `new` mapped to the policy map and to the policies of the
applied and the candidate snapshot. A process that is torn is free of the promise until it is
replaced.

### OutboundProxy: breakers and connections

`OutboundProxy` has one process per intercepted connection (`OutboundHandler.handle`) and
one breaker per upstream (`circuit_breaker.go`). A breaker call is one step, since it holds
the mutex; the dial, the peer check and the tunnel lie between `Allow` and the recorded
outcome, so outcomes arrive late and in any order. `openedAt` is kept as the time since,
capped at `ResetAfter`. The variables `probe`, `sinceProbe` and `run` are history: the code
does not know which connection was its probe.

### SvidRotation: the node's certificate

`SvidRotation` models the loop of `SVIDManager.Start`, the `Store` it writes, callers of
`ForceRotate` that may give up before or after the loop takes their request, `GetSVID` as a
read and a later check, and the Workload API streams. An SVID is its age in ticks. The
control plane dates it at some moment of the Sign call, so it may have aged when it is
stored. Timers are urgent: a tick is long compared with scheduling delays. The clocks of
agent and control plane are assumed equal. A stream's SVID is only known to be the latest
or an old one. A first issue that fails ends the manager (`FirstIssueFails`), as in the
code. The TLS callbacks of the proxy read the current SVID whatever its age and change
nothing; they are left out.

### Verdict, Geneve, TcPath: one packet between two nodes

`Verdict` has the decision: the policy key, `enforce_flow` of `tc_ingress.c`, the look-up
`tc_egress.c` drops on, and `Evaluate`, the reference evaluator of the control plane.
`Geneve` has the tunnel header: the option walk, where the inner IPv4 header is found
(directly, behind an Ethernet header, or behind the eight reserved bytes), `RoomFits`,
both ways of writing the identity option, finding it and stripping it. Frames are
abstracted to what those parsers tell apart: header lengths in words, the list of options,
whether the bytes at the two places where an IPv4 header is looked for happen to look
like one (`mac0`, `mac8`, `ttl`; `ghost` is the flow misread there), and whether the outer UDP
checksum is zero, right or wrong (`sum`). That a patched source port could make a wrong sum right
by chance is left out.

`TcPath` composes them: one frame goes through `tc_egress` on A, the wire, `tc_ingress` on B
and B's Geneve device (external: it refuses frames with options left on them or with a wrong
outer checksum), while the
agents change identities, policies and posture between the programs. Any one helper of each
program may fail at each place where the code calls one (`Faults`); `HalfWritten` says what
the frame then looks like. The programs keep nothing between frames that a verdict depends
on, so one frame begun with any map contents is the general case. The frames are those a
kernel makes, never one that carries Meridian's option already.

### TcAccounting: the record the programs leave

`TcAccounting` runs `tc_ingress`, `tc_egress` and `counter` on several CPUs over shared LRU
maps, per-CPU metrics and a bounded ring. A run is split where another CPU or the agent may
come between a look-up and its use: `denied_flow_upsert` and `udp_first_sight` read an
element and later write it. The maps of the agent may differ from one look-up to the next
inside one run. It covers traffic outside the tunnel; the record of `encap_fail` and of
tunnelled frames is made by the same functions and is not modelled again. Timestamps and
byte counts are left out. The increment of a metric and the reserve of the ring that follows it
are one step: the metrics are per CPU, so no other CPU writes what lies between them, but a reader
of the metrics may see a verdict whose event is not yet in the ring. The LRU maps evict only when
full, while the kernel, which evicts in batches, may do so a little earlier; the properties speak of
an element from its insertion to its eviction, whenever that comes.

### Sockmap: the socket fast path

`Sockmap` has the sockets of one node, the gate of `sock_ops.c` at both establishment
callbacks, the insertion under the local address with the bound of the map, and `sk_msg.c`
with its look-up by the remote address. The queues of TCP and of the sockmap, and what
happens to them when a socket closes or loses its key, are the kernel's (external). Identity
and policy maps may change before each establishment.

### AgentStartup: pins, posture, seed, attachment, link watcher

`AgentStartup` is the process from start to end, any number of times: `preparePinDir`, load,
schema check, stamp, for each of the two loads of a start; then posture, seed, attachment to
the static interface, `Reconcile`, the netlink subscription with its buffer, attach and
detach per event, resubscription after an overflow, shutdown. It may fail or crash at each
step; between two processes the build may change and the pin directory may be wiped. A map
is known by the schema version that created it, a filter by the process that put it there.
The agent's other loads (`counter`, `tc_egress`, `sock_ops`, `sk_msg`) run the same three
functions on the same directory and are not repeated.

### K8sMirror: the Kubernetes watchers

`K8sMirror` has both informers' caches and queues, the handlers of the pod and the policy
watcher, the registry's `Allocate` as they use it, the resolver that reads the pod cache
twice in one compilation, the `applied` record, failing Store calls, tombstones and resyncs.
A rule key is a pair of identity names; ports and protocols only multiply keys. The Store calls
of one handler are one step, with any of them failing: the other watcher touches identities only,
so it neither reads nor writes a rule between them. What holds of the rules, such as `RulesOwned`,
is therefore said of the moments between two handlers, not of a reader of the Store that comes
between two calls.

Each `MC` module gives the constants of one of these modules for TLC.

## Runs

| Run | Shows |
|---|---|
| `ads` | two changes, two streams, two failed applies: no update is lost between mutation, Watch and push (`NoLostUpdate`); if the newest push is ACKed, the agent runs it, and the proxy resolver too unless the handler that sent the ACK is still on its way to the hook (`AckMeansApplied`); the channel implements `ConfigSync`; the agent converges to the final content of each half unless it refused it (`Converges`), the proxy resolver follows (`ProxyCatchesUp`) |
| `datapath_safety` | two rules, two identities, a seed, a failed syscall and a restart: the live rules stay between two snapshots (`LiveSetBounded`), nothing is removed before everything is added (`AddsBeforeRemoves`), a pod listed all along keeps its identity (`AttributionKept`), and the writer implements `RuleUpdate` (`ImplementsRuleUpdate`) |
| `outbound` | three connections to one upstream (breakers are independent): `HalfOpenHasProbe`, `ProbesSpaced`, `TripsOnlyOnRun`; with busy workloads no breaker stays open (`NeverOpenForever`) |
| `svid` | a caller of `ForceRotate`, a reader, a stream, outages at any time: `HealthyNeverNear`, `ForcedIsFresh`, `NoCallerStranded`; while Sign calls succeed `GetSVID` refuses nobody except for a copy that a rotation has replaced since it was read (`HealthyIsServed`); a fresh SVID for ever after the last outage (`RotationRecovers`); an SVID for every open stream, and the latest one put into its channel again and again while rotations go on (`StreamGetsSVID`) |
| `tc_path` | an unidentified flow arrives only through two fail-open nodes (`UnidentifiedNeedsBothOpen`); B enforces on what A wrote (`StampedIsDecoded`); what is admitted arrives as it was sent, unless it was stamped under an outer UDP checksum (`AdmittedArrivesWhole`); a known source is refused exactly when its outer header, over 48 bytes or 44 behind a VLAN tag, leaves no room (`KnownSourcesAreStamped`); `tc_ingress` passes all that the reference evaluator passes and beyond that only later TCP segments, and `tc_egress` drops only what the evaluator denies (`KernelMatchesReference`) |
| `tc_accounting` | each counted verdict has its event or a counted loss (`EventsConserved`); deny counts claim no drop that did not happen and are exact on one CPU (`DenyCountHonest`); a UDP flow is first seen at most once per CPU (`FirstSightBounded`) |
| `sockmap` | a redirected message waits only at an open socket with the addressed address (`RedirectsToAddressed`); only sockets that passed the gate redirect (`IneligibleNeverRedirects`); hits, misses, evictions and closes leave every message in one place, so none vanishes and none is read twice (`MessagesConserved`); at an address of its own a client reads its server's messages in order over both paths, a server its client's over either one (`SoleStreamsInOrder`) |
| `startup` | no process gets past the sentinel on maps of another layout (`AdoptedLayoutsMatch`); its program sees no packet before posture and seed are written (`AttachedIsSeeded`); every veth the watcher can hear of is attached (`WatchedVethsAttached`, `VethsGetAttached`) |
| `k8s` | no rule outlives its policy unless a Store call failed on it (`RulesOwned`); with resyncs every policy that compiles has its rules, with its action unless a policy of the other action has the key too (`PoliciesMirrored`) and every running pod its identity (`PodsKnown`) in the end |
| `datapath_address_reuse` | violated without any failure: the delete of an address's old owner removes its new owner |
| `sockmap_peer` | violated: two accepted sockets of one server have one sockhash key, and the second gets what is sent to the first |
| `agent_missed_veth` | violated: a veth that comes between the scan and the subscription is missed |

The violated runs each state a sentence of the documentation or of a comment that the code
does not keep; the findings in `PROJECT.json` quote it. `tc_path` and `tc_accounting` may
stop when the frame has arrived or the packets are used up, `sockmap` when all sockets are
closed, so deadlock is not checked there.

## Further disagreements

Between the code and its documentation, not kept as runs. The paths of documents are under
`src/docs/`, of code under `src/`.

Found as counterexamples of these models:

* the ADS server's `ackedVersion` lags behind what the agent accepted
  (`internal/control/ads/versioning.go:94`; line 36 says "latest version the client ACKed
  (last-known-good)"), and it pushes a new version of a type while the previous one is
  un-ACKed (`ARCHITECTURE.md:131` says "the server won't advance an un-ACKed version");
* a failed map syscall is not rolled back (`internal/agent/datapath/writer_linux.go:42`;
  `adr/0008-xds-wire-contract.md:138`: "A mid-apply error rolls back to the prior
  byte-identical kernel state and NACKs"), and after it a push equal to the last applied
  snapshot is an empty diff and is ACKed over the rules left in the kernel;
* rules of a previous process survive the ACK of a snapshot without them
  (`internal/agent/xds/runner.go:145`; `subsystems/03-control-plane.md:73`: "agents atomically
  swap only fully-received ACKed snapshots");
* an identity that moves keeps its old address in the kernel, and a snapshot refused for one
  unparsable address leaves the identities written before it;
* a late outcome reopens the breaker under a probe and a second probe follows
  (`circuit_breaker.go:104`; line 83: "Only one probe at a time; subsequent callers are
  rejected."); a tunnel from before the trip closes an open breaker, and a probe whose tunnel
  does not end keeps its breaker half-open;
* one rotation that fails at 2/3 of the lifetime is retried at 8/9, after the near-expiry line
  at 5/6 (`manager.go:130`; `ARCHITECTURE.md:133`: "RETRY across the 8 h window"), and TLS
  handshakes are given the SVID at any age (same line: "Near-expiry serves **no** SVID, never a
  stale one");
* a Workload API stream whose channel is full misses a rotation, as the comment of `Store.Set`
  admits and the comment of `FetchX509SVID` does not; it shows the old SVID until a later rotation
  (`internal/agent/workloadapi/server.go:5`: "an update on every SVID rotation");
* a frame stamped under a non-zero outer UDP checksum is dropped by the other node's kernel:
  `bpf_l4_csum_replace` is given the offset of the UDP header, which is its source port, and not
  of the checksum (`bpf/tc_egress.c:236`), the bytes of the option are not added to the sum at all,
  and `strip_meridian_tlv` does not touch it. The comment at line 232 has only the zero checksum of
  "Kernel Geneve often" in view (`AdmittedArrivesWhole` asks for it);
* `tc_ingress` passes later segments of TCP connections without a look-up
  (`bpf/tc_ingress.c:538`), also those the evaluator denies, for instance after the rule was
  removed or, under fail-closed, to an unknown destination; `adr/0001-unknown-identity-posture.md:87`
  says "Both implementations MUST produce the same verdict for the same flow under the same flag
  state." (`KernelMatchesReference` allows this one difference);
* a plain frame of a known source behind more than 48 bytes of outer IPv4 header, 44 with a VLAN
  tag, is treated as one that cannot be stamped (`bpf/tc_egress.c:161`; `KnownSourcesAreStamped`).

Met while translating the code; each is the reason for a side condition of a property:

* a kernel frame whose inner MAC addresses look like an IPv4 header is misread, so it is not
  stamped as the flow it carries (`bpf/include/meridian_parse.h:62`; `Unambiguous`);
* `tc_egress` accepts seven words of options and stamps them to nine, of which `tc_ingress`
  reads at most eight (`StampedIsDecoded` asks for six); stripping a frame with other options
  leaves their bytes in front of the payload (`AdmittedArrivesWhole` asks for plain frames);
* a failing first `bpf_skb_pull_data` passes the frame without a metric, while ADR-0005 says
  the metric "increments on every failure"; ports that are cut off pass at ingress, while
  ADR-0001 says "not as implicit allow"; ingress answers `TC_ACT_STOLEN` inside the tunnel and
  `TC_ACT_SHOT` outside it, where ADR-0002 says `TC_ACT_SHOT`; a redirect at the socket layer is only counted,
  while ADR-0007 speaks of a flow event; later fragments are read as if they had ports;
* two CPUs in one element lose a drop from the count (`bpf/include/meridian_types.h:182`: "drops
  for this flow_key since LRU insertion"), and its `last_ns` may go back (`DenyCountHonest`);
* data a client sends before and after its server's socket joins sockhash takes two paths, and
  what is redirected may overtake what went by TCP
  (`test/integration/sockmap_integrity_test.go:40`: "byte-for-byte identical";
  `SoleStreamsInOrder`). From server to client this cannot happen. An entry also outlives a policy change, as ADR-0007 says;
* `bpf/include/meridian_helpers.h:67` says that flows that need L7 or mTLS "are all ineligible",
  but the gate looks at ALLOW and the SOCKMAP bit only, and neither the REST server's
  `validatePolicyRule` nor the YAML loader refuses the combination; the compiler's and the
  evaluator's `flagMask` shift constants that are shifted already, so they refuse the real
  SOCKMAP bit as unknown (`Compile` has no caller outside tests);
* `internal/agent/bpfobj/schema.go:17` calls the unstamped case "only reachable" after a crash;
  a failed load leads there too. `ARCHITECTURE.md:129` says "Shutdown deliberately leaves" the
  TC filters, but `Close` detaches the static interface, and a failed attach detaches what an
  earlier process left. `udp_seen_flows_map` is not pinned;
* Kubernetes: a source named by its SPIFFE ID is resolved to one of its replicas
  (`internal/control/k8s/pod_resolver.go:75`; `crd.go:81`: "Sources are SPIFFE IDs allowed (or
  denied) as traffic sources."; `OneNameEach`); a failed `PutPolicy` takes a stored key off the
  record, so that a later delete leaks it, and a failed `DeletePolicy` is only logged
  (`RulesOwned`); a key two policies share is deleted with the first of them and comes back at a
  resync; two policies that give one key different actions overwrite each other at every resync, so
  that the last write decides; pod tombstones are ignored; identities go by pod name without namespace, while
  `subsystems/03-control-plane.md:75` says "Bind on podUID".

## Bounds

Counters are bounded only by the guards and capacities named in the modules' `CONSTANTS`.

* `ads`: two changes and two streams let a change fall before, inside and after a push and a
  reconnect happen with messages of the first stream in flight; two failures give a NACK
  followed by a NACK and by a success. The safety part is proved for all bounds.
* `datapath_safety`: two rules and two identities give plans with all four phases and a failure
  or a crash between any two syscalls; an identity that moves, and an address that does not
  parse.
* `outbound`: three connections give a probe, a late success and a late failure at the same
  breaker; a threshold and a window of 2 tell "one" from "enough".
* `svid`: a lifetime of 10 ticks puts the rotation at 6 and near expiry at 9, with a Sign call
  of up to one tick; one caller is enough for a reply that crosses a time-out. Ages are capped
  at the lifetime, the failure history at 2.
* `tc_path`: twenty-three frames, a plain kernel frame and frames one deviation away from it, on
  both sides of each limit of the parsers (IP header length with and without a VLAN tag, option
  words, option count, frame length), with and without an outer checksum; three identity maps, two policy maps, one failing helper per program.
* `tc_accounting`: two CPUs, flow maps of 2 and 1 elements and a ring of 1, so that four packets
  overflow each of them; one flow that stays on a CPU and flows that do not.
* `sockmap`: a client and its server, a socket of that server for a client of another node, so
  that the server's key changes owner, and a pair whose server has its address to itself; a map of
  two entries, so that an insertion fails. The server sends two messages to its client and the
  other client two to its server, so that order is at stake; both take the redirect, TCP, and one
  after the other.
* `startup`: three schema versions tell "older" from "mine" twice; three maps allow a load that
  fails between two of them; two veths and a buffer of three updates overflow.
* `k8s`: three pods, two with one name in two namespaces and two with one SPIFFE ID, two policy
  objects that share a key, three changes and one failed Store call.

## Fairness

`AdsStream`: `WF(Notify)`, the writer goroutine that committed reaches its notify call;
`WF(Server)`, `WF(Client)`, the stream loop and the client loop are goroutines that are
scheduled whenever they can run, and the client reconnects for ever. Nothing is assumed of
mutations, broken streams or failures. `Datapath` (only for its violated run): `WF(Apply)`, an
apply that started runs on. `OutboundProxy`: time passes and a goroutine leaves
`Allow`, the dial and the check (TCP gives up in the end); tunnels may live for ever.
`BusySpec`, only for `NeverOpenForever`, adds what the workloads must do: tunnels end and
connections to every upstream keep coming. `SvidRotation`: time passes, the loop runs when it
can, and a stream's goroutine takes what its channel holds; nothing is assumed of the control
plane, of callers or of clients. `AgentStartup`: `WF(Watch)`, the watcher's goroutine goes on
while the process lives; nothing is assumed of links, of failures or of restarts.
`K8sMirror`: weak fairness for each step of the two handler goroutines, strong fairness for the
resync of each object, since the informer's timer comes back for ever while other events may
keep a handler busy.

## Proofs

All theorems are about `Spec`, without fairness, and hold for every value of the constants
that the named `ASSUME`s admit. The type invariant of every module with state is proved; TLC
checks it too in `tc_accounting` and `startup`.

`AdsStreamProofs`, for all bounds:

* `TypeCorrect`;
* `NoUpdateIsLost`: `NoLostUpdate` is inductive with `ControlInv` (what each loop's
  position says about its variables) and `ReadInv` (a list that went stale between read
  and send has a wake-up pending);
* `ChannelImplementsConfigSync`: the refinement; it needs `RevInv`, that contents in flight are
  ordered by age between the applied and the current one;
* `AckIsTruthful`: the invariant `IInv` adds `VersionInv`, `NonceInv` (nonces go round the
  stream in order, so a request on its way back is older than every response not yet
  answered) and `AckInv` (an ACK of the outstanding push on its way back is true, with the same
  allowance for a hook that has not run).

`DatapathProofs`, for all sets of identities, addresses, keys and verdicts, any seed and any
number of failures and restarts:

* `TypeCorrect`, `LiveRulesBounded`, `RemovesComeLast`, `PodsKeepTheirIdentity`. `PlanInv` says
  that the plan is the rest of the difference between two snapshots and that the phases are worked
  off in order; `RuleInv` and `IdentityInv` say what each map holds before and after the syscall
  for an element. These three safety statements are about processes that are not torn: in one that
  is they do not hold (see the disagreements);
* `WriterImplementsRuleUpdate`: the refinement, action by action (`UpdateStep`). `PhaseFacts` turns
  the phase the plan has reached into the guards of `RuleUpdate`: before the first delete all is
  installed, at the commit all is removed as well;
* `AckedIsInstalled`, `AcksAreTruthful`: the positive side of the run `datapath_address_reuse`.
  The property violated there holds when no address is ever listed for two identities
  (`Exclusive`, a hypothesis, not an assumption of the module) and the process is not torn; so a
  reused address is the one cause of that violation besides a failed syscall. `AddressInv` says
  that an address that does not parse stays in the plan, so that a snapshot with one is never
  committed.

`NodeProxyProofs` has the two state machines of a node proxy and extends both modules; that is why
the definitions of `OutboundProxy` are called `ProxyInit`, `ProxyNext`, `ProxySpec` and so on.

* For any number of connections and upstreams and every threshold and window: `BreakersTyped`,
  `ProbeUnderWay` (inductive by itself), `ProbesAreSpaced` (`SpacingInv`: the last probe is at
  least as old as the window that is running), `TripsAreEarned` (`RunInv`: the error count never
  exceeds the run of failures).
* For every lifetime that holds eight Sign calls and the backdating (`ConstantsAssumption`; 24 h,
  30 s and 5 min in the code): `TypeCorrect`, `HealthyStaysClear`, `ForcedRotationsAreServed`,
  `CallersAreAnswered`, `ServedThroughRotation`, an action property that rests on
  `HealthyStaysClear` and on `HaveIssued`, that an SVID was issued before one is read. `WindowInv` is the arithmetic: age plus timer never exceeds
  2/3 of the lifetime plus the age an SVID may have when it is stored. `CallersInv` joins
  `NoCallerStranded` and `ForcedIsFresh` with `RequestInv`: the loop has a request only while it
  works, and between `Set` and the reply its caller has a new SVID.

`TcPathProofs`, for all frames a kernel makes (`FramesAssumption`), all map contents and every
set of failing helpers: `TypesHold`, `BothOpen`, `DecodesTheStamp`, `ArrivesWhole`,
`KnownStamped`, `MatchesReference`. The invariant says, place by place, what is known of the
frame: untouched at egress (`AtEgress`); on the wire either carrying the stamp where the option
walk of `tc_ingress` finds it (`CarriesStamp`) or let through by an open posture (`AtWire`);
behind `tc_ingress` decided on that stamp and without options (`AtKernel`, `AtDone`). The lemmas
`StampOK`, `IdentityFound`, `StrippedOK` are about the operators of `Geneve`: what is written is
found, and stripping undoes it. `RoomLimit` is the arithmetic of `KnownStamped`: the two limits of
`insert_inner_tlv_room` meet at 12 words of outer header, 11 behind a tag. `MatchesReference` follows
from the operators of `Verdict` and from `Decision`, the whole of what `tc_ingress` decides.

`TcAccountingProofs`, for any number of CPUs, packets and capacities: `RecordsFit`,
`NoEventLost`, `HonestCounts`, `FirstSights`. Counting needs what each CPU holds between its
read and its write: `Counts` (the number about to be written exceeds the drops by at most the
one under way), `ExactCounts` (on a flow of one CPU it is exact), `Firsts` (the first sights so
far and the CPUs about to add one are no more than the CPUs the flow is steered to).

`SockmapProofs`, for all sets of sockets, map sizes and map contents:

* `SockhashFits`, `RedirectsLand`, `OnlyEligible`. `MembersGated` says that an entry is an open
  socket under its own address that passed the gate;
* `EachMessageOnce`: `OnceInv` takes all queues of the node as one family and says that no two
  positions of it hold the same message (`Distinct`), none holds a lost one (`Apart`), and
  everything in it was sent, so that the next message is new. The lemmas `DropDistinct`,
  `AppendDistinct`, `MoveDistinct` say this of emptying, extending and moving between queues, and
  each action is one of these;
* `StreamsInOrder`: `Stream` says that what was read, followed by what waits in the ingress queue and
  by what came by TCP, is the sender's messages from the first to the last without a gap, and
  `Fresh` that nothing has reached, or been sent by, a socket that was never opened. `NoReturn` is
  why a client may read from both paths: once its server has sent by TCP it never finds the client
  in the map again, since both were established before (`Began`);
* `SolePeersAreReached`: the positive side of the run `sockmap_peer`. The property violated there
  holds when every socket has its address to itself.

`AgentStartupProofs`, for any maps, versions, veths and buffer: `StartupTyped`, `LayoutsMatch`
(`LayoutInv`: a stamp is the version of all pinned maps, and an unstamped directory with pins in
it is never adopted), `SeededFirst` (`SeedInv`), `VethsAttached` (`WatchInv`: what is queued about
an existing veth ends with its arrival, and one with nothing queued is attached).

`K8sMirrorProofs`, for any finite set of pods, any policies and any number of changes and failed
Store calls: `WatchersTyped`, `NoRuleOutlives`. `RulesOwned` is not inductive: `RecordsLive` adds
that the object of a running compilation exists or its deletion is queued, and that behind every
queued upsert of an object that is gone there is its deletion, so that no handler puts a record
back after the last word on it; `RulesRecorded` says that a stored key is on a record. `ClusterAssumption` says that a cluster has
finitely many pods, and that the value standing for "no record" is no set of keys.

Only model-checked is liveness (`Converges`, `ProxyCatchesUp`, `NeverOpenForever`,
`RotationRecovers`, `StreamGetsSVID`, `VethsGetAttached`, `PoliciesMirrored`, `PodsKnown`), since
the prover does not handle fairness. Every safety property of a passing run has its theorem.

## Not modelled

* The etcd store: the shipped control plane constructs `Memory` only.
* REST API, certificate issuance, wire codec: one decision and one call per request, which are
  mutations or environments of the models; decoding and X.509 are I/O and library code.
* The registry's 32-bit counter, which would have to wrap, and `Release`, which only tests call.
* The bootstrap of node credentials: straight-line file I/O. A crash between its two writes
  leaves a new key beside a missing or expired certificate, and the next start bootstraps again.
* The policy compiler: `Compile` has no caller outside tests. The flags of a verdict, which no
  verdict depends on, and the limit on the number of rules.
* The inbound proxy: one decision per connection against an immutable snapshot; the freshness
  of that snapshot is `ProxyCatchesUp`.
* tproxy rules: commands of `ip` and `iptables`, whose partial effects those tools decide.
* What becomes of flow events behind the ring (broadcaster, aggregation), metrics, tracing,
  admin server, CLI: they do not influence the mesh.
* A Store whose rules and identities belong together: the halves are revisions in `AdsStream` and
  opaque in `Datapath`, so that a rule may reach the kernel before the identities it names
  (ADR-0008) is not expressed.
* Byte layouts, JSON, TLS, HTTP and netlink transport, generated bindings.

`bpf/include/vmlinux.h` is 161,674 of the 163,624 lines under `bpf/`. It is generated from the
kernel and declares types without behaviour, so no definition models it. Of the other files
there, some 1,950 lines, about two thirds are modelled; what is left is includes, licence and
layout comments, and map declarations without behaviour.
