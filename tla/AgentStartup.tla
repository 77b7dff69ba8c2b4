----------------------------- MODULE AgentStartup ----------------------------
(***************************************************************************)
(* The agent process from its start to its end, any number of times: it    *)
(* opens or creates the pinned maps (bpfobj), writes the posture, seeds    *)
(* the maps and attaches tc_ingress to the static interface (supervisor,   *)
(* attach), then attaches it to every pod veth that comes (linkwatch).     *)
(* The process may fail or crash at every step; pins, filters and links    *)
(* belong to the kernel and stay.  While it is down the build may change   *)
(* and an operator may wipe the pin directory.                             *)
(*                                                                         *)
(* Data abstraction.  A map is known by the schema version of the build    *)
(* that created it; a filter by the process that installed it, this one    *)
(* ("mine") or an earlier one ("old").  Both loads of a start, the one of  *)
(* seedFallOpenPosture and the one of Startup, run the same steps.         *)
(***************************************************************************)
EXTENDS Naturals, Sequences

CONSTANTS Maps,         \* the maps that are pinned by name
          Versions,     \* schema versions of the builds; 0 is "unstamped"
          Veths,        \* names pod veths may have
          Iface,        \* the static interface, always there
          UpdateBuffer  \* bound: link updates the subscription holds

ASSUME StartupAssumption ==
    Versions \subseteq Nat \ {0} /\ UpdateBuffer \in Nat \ {0} /\ Iface \notin Veths

VARIABLES
    build,      \* schemaVersion of the binary
    pc, round,  \* where the process is; which of its two loads it is in
    pre,        \* preExisting, taken by preparePinDir
    pinned,     \* per map, the version that created it, 0 when not pinned
    progPin,    \* the program pin, a file of the same directory
    stamp,      \* schema_sentinel_map[0]
    posture,    \* who wrote runtime_config_map last: "old" or "mine"
    seeded,     \* this process has applied its policy file
    links,      \* the veths that exist
    filter,     \* per interface, whose filter is on it
    work,       \* names listed by Reconcile and not attached yet
    open,       \* the netlink subscription delivers
    events,     \* updates received and not handled yet
    unheard,    \* history: veths that came after the list, before the subscription
    failed      \* history: veths whose last attach failed

disk == <<pinned, progPin, stamp, posture>>
net  == <<links, filter, unheard, failed>>
watch == <<work, open, events>>
vars == <<build, pc, round, pre, pinned, progPin, stamp, posture, seeded, links, filter,
          work, open, events, unheard, failed>>

Ifaces   == Veths \union {Iface}
Loading  == {"prepare", "load", "check"}
Watching == {"list", "attach_all", "watch"}

Init ==
    /\ build \in Versions /\ pc = "down" /\ round = 1 /\ pre = FALSE
    /\ pinned = [m \in Maps |-> 0] /\ progPin = FALSE /\ stamp = 0 /\ posture = "old"
    /\ seeded = FALSE /\ links \in SUBSET Veths /\ filter = [i \in Ifaces |-> "none"]
    /\ work = {} /\ open = FALSE /\ events = << >> /\ unheard = {} /\ failed = {}

\* The process ends; what it installed is now an earlier process's.
Exit(kept) ==
    /\ pc' = "down" /\ seeded' = FALSE
    /\ filter' = [i \in Ifaces |-> IF kept[i] = "mine" THEN "old" ELSE kept[i]]
    /\ work' = {} /\ open' = FALSE /\ events' = << >> /\ unheard' = {} /\ failed' = {}

Fail == Exit(filter) /\ UNCHANGED <<build, round, pre, links>>

-----------------------------------------------------------------------------
(* bpfobj: LoadTcIngress, run twice *)

Start ==
    /\ pc = "down" /\ pc' = "prepare" /\ round' = 1
    /\ posture' = "old"
    /\ UNCHANGED <<build, pre, pinned, progPin, stamp, seeded, net, watch>>

Populated == progPin \/ \E m \in Maps : pinned[m] # 0

preparePinDir ==
    /\ pc = "prepare" /\ pc' = "load" /\ pre' = Populated
    /\ UNCHANGED <<build, round, disk, seeded, net, watch>>

\* LoadTcIngressObjects re-opens what is pinned and creates the rest.  When it
\* fails, or the process dies in it, some of the new pins are there.
Created(new) == pinned' = [m \in Maps |-> IF m \in new THEN build ELSE pinned[m]]
Missing == {m \in Maps : pinned[m] = 0}

LoadObjects ==
    /\ pc = "load" /\ pc' = "check" /\ Created(Missing)
    /\ UNCHANGED <<build, round, pre, progPin, stamp, posture, seeded, net, watch>>

LoadFails ==
    /\ pc = "load" /\ \E new \in SUBSET Missing : Created(new)
    /\ Fail /\ UNCHANGED <<progPin, stamp, posture>>

\* Fault: the second load goes straight to the attach.
CheckedUnseeded == pc' = IF round = 1 THEN "posture" ELSE "attach"

Checked == pc' = IF round = 1 THEN "posture" ELSE "seed"

\* Fault: an unstamped sentinel is stamped on a re-open too.
StampUnstamped ==
    /\ pc = "check"
    /\ \/ stamp = 0 /\ stamp' = build
       \/ stamp = build /\ UNCHANGED stamp
    /\ Checked
    /\ UNCHANGED <<build, round, pre, pinned, progPin, posture, seeded, net, watch>>

\* reconcileSchema: stamp a fresh set, adopt one that carries this version.
reconcileSchema ==
    /\ pc = "check"
    /\ \/ ~pre /\ stamp' = build
       \/ pre /\ stamp = build /\ UNCHANGED stamp
    /\ Checked
    /\ UNCHANGED <<build, round, pre, pinned, progPin, posture, seeded, net, watch>>

\* ErrPartialPinSet, another version, or a map operation that fails.
SchemaRefused == pc = "check" /\ Fail /\ UNCHANGED disk

-----------------------------------------------------------------------------
(* seedFallOpenPosture and StartupRunner.Startup *)

seedRuntimeConfig ==
    /\ pc = "posture" /\ posture' = "mine"
    /\ pc' = "prepare" /\ round' = 2
    /\ UNCHANGED <<build, pre, pinned, progPin, stamp, seeded, net, watch>>

PostureFails == pc = "posture" /\ Fail /\ UNCHANGED disk

SeedState ==
    /\ pc = "seed" /\ pc' = "attach" /\ seeded' = TRUE
    /\ UNCHANGED <<build, round, pre, disk, net, watch>>

SeedFails == pc = "seed" /\ Fail /\ UNCHANGED disk

AttachStatic ==
    /\ pc = "attach" /\ pc' = "list" /\ progPin' = TRUE
    /\ filter' = [filter EXCEPT ![Iface] = "mine"]
    /\ UNCHANGED <<build, round, pre, pinned, stamp, posture, seeded, links, unheard, failed, watch>>

\* Detach deletes by filter name, so an earlier process's filter goes as well.
Detaches(i) == {filter, [filter EXCEPT ![i] = "none"]}

\* The cleanup after a failed attach detaches.
AttachStaticFails ==
    /\ pc = "attach" /\ progPin' \in {progPin, TRUE}
    /\ \E kept \in Detaches(Iface) : Exit(kept)
    /\ UNCHANGED <<build, round, pre, links, pinned, stamp, posture>>

\* StartupRuntime.Close, at a signal or when linkwatch.Run returns an error.
Close ==
    /\ pc \in Watching
    /\ \E kept \in Detaches(Iface) : Exit(kept)
    /\ UNCHANGED <<build, round, pre, links, disk>>

-----------------------------------------------------------------------------
(* linkwatch.Run *)

\* Fault: the veths the agent attached before are not listed again.
ReconcileNew ==
    /\ pc = "list" /\ pc' = "attach_all"
    /\ work' = {l \in links : filter[l] = "none"} /\ unheard' = {} /\ failed' = {}
    /\ UNCHANGED <<build, round, pre, disk, seeded, links, filter, open, events>>

Reconcile ==
    /\ pc = "list" /\ pc' = "attach_all" /\ work' = links /\ unheard' = {} /\ failed' = {}
    /\ UNCHANGED <<build, round, pre, disk, seeded, links, filter, open, events>>

\* EnsureAttached pins the program, whose pin AttachStatic has left, and replaces
\* the filter; a link that is gone, or a netlink call that fails, is reported and left.
EnsureAttached(l) ==
    \/ /\ l \in links /\ filter' = [filter EXCEPT ![l] = "mine"]
       /\ unheard' = unheard \ {l} /\ failed' = failed \ {l}
    \/ UNCHANGED <<filter, unheard>> /\ failed' = failed \union {l}

AttachOne(l) ==
    /\ pc = "attach_all" /\ l \in work /\ work' = work \ {l}
    /\ EnsureAttached(l)
    /\ UNCHANGED <<build, pc, round, pre, disk, seeded, links, open, events>>

Events ==
    /\ pc = "attach_all" /\ work = {} /\ pc' = "watch" /\ open' = TRUE /\ events' = << >>
    /\ UNCHANGED <<build, round, pre, disk, seeded, net, work>>

Detach(l) ==
    /\ filter' \in Detaches(l)
    /\ UNCHANGED <<unheard, failed>>

HandleEvent ==
    /\ pc = "watch" /\ events # << >> /\ events' = Tail(events)
    /\ LET ev == Head(events) IN
       IF ev.type = "added" THEN EnsureAttached(ev.name) ELSE Detach(ev.name)
    /\ UNCHANGED <<build, pc, round, pre, disk, seeded, links, work, open>>

\* Fault: the watcher ends with its stream.
WatcherEnds == FALSE /\ UNCHANGED vars

\* The stream was reset and what it had delivered is handled: start over.
Resubscribe ==
    /\ pc = "watch" /\ events = << >> /\ ~open /\ pc' = "list"
    /\ UNCHANGED <<build, round, pre, disk, seeded, net, watch>>

-----------------------------------------------------------------------------
(* The kernel, the cluster and the operator *)

\* Fault: the buffer takes one more.
NotifyOneMore(type, l) ==
    IF open /\ Len(events) <= UpdateBuffer
    THEN events' = Append(events, [type |-> type, name |-> l]) /\ UNCHANGED open
    ELSE open' = FALSE /\ UNCHANGED events

\* An update the buffer has no room for ends the stream (ENOBUFS).
Notify(type, l) ==
    IF open /\ Len(events) < UpdateBuffer
    THEN events' = Append(events, [type |-> type, name |-> l]) /\ UNCHANGED open
    ELSE open' = FALSE /\ UNCHANGED events

Unheard(l) == unheard' = IF pc = "attach_all" THEN unheard \union {l} ELSE unheard \ {l}

AddLink(l) ==
    /\ l \notin links /\ links' = links \union {l} /\ Notify("added", l) /\ Unheard(l)
    /\ failed' = failed \ {l}
    /\ UNCHANGED <<build, pc, round, pre, disk, seeded, filter, work>>

\* RTM_NEWLINK also reports a change of a link.
ChangeLink(l) ==
    /\ l \in links /\ open /\ Notify("added", l)
    /\ UNCHANGED <<build, pc, round, pre, disk, seeded, net, work>>

RemoveLink(l) ==
    /\ l \in links /\ links' = links \ {l} /\ Notify("removed", l)
    /\ filter' = [filter EXCEPT ![l] = "none"] /\ unheard' = unheard \ {l} /\ failed' = failed \ {l}
    /\ UNCHANGED <<build, pc, round, pre, disk, seeded, work>>

Crash == pc # "down" /\ Fail /\ UNCHANGED disk

Upgrade ==
    /\ pc = "down" /\ build' \in Versions \ {build}
    /\ UNCHANGED <<pc, round, pre, disk, seeded, net, watch>>

WipePins ==
    /\ pc = "down" /\ pinned' = [m \in Maps |-> 0] /\ progPin' = FALSE /\ stamp' = 0
    /\ UNCHANGED <<build, pc, round, pre, posture, seeded, net, watch>>

Startup == \/ Start \/ preparePinDir \/ LoadObjects \/ LoadFails \/ reconcileSchema \/ SchemaRefused
           \/ seedRuntimeConfig \/ PostureFails \/ SeedState \/ SeedFails
           \/ AttachStatic \/ AttachStaticFails
Watch == Reconcile \/ (\E l \in Veths : AttachOne(l)) \/ Events \/ HandleEvent \/ Resubscribe
World == Crash \/ Upgrade \/ WipePins \/ \E l \in Veths : AddLink(l) \/ RemoveLink(l) \/ ChangeLink(l)

Next == Startup \/ Watch \/ Close \/ World

Spec == Init /\ [][Next]_vars

\* The watcher goroutine keeps running while the process does.
FairSpec == Spec /\ WF_vars(Watch)

-----------------------------------------------------------------------------
(* Properties *)

TypeOK ==
    /\ build \in Versions /\ round \in {1, 2} /\ pre \in BOOLEAN
    /\ pc \in {"down", "posture", "seed", "attach"} \union Loading \union Watching
    /\ pinned \in [Maps -> Versions \union {0}] /\ stamp \in Versions \union {0}
    /\ progPin \in BOOLEAN /\ posture \in {"old", "mine"} /\ seeded \in BOOLEAN
    /\ links \subseteq Veths /\ filter \in [Ifaces -> {"none", "old", "mine"}]
    /\ work \subseteq Veths /\ open \in BOOLEAN /\ Len(events) <= UpdateBuffer
    /\ \A i \in DOMAIN events : events[i] \in [type : {"added", "removed"}, name : Veths]
    /\ unheard \subseteq Veths /\ failed \subseteq Veths

\* schema.go: whatever crashes, failures, upgrades and wipes came before, a build
\* that gets past the sentinel uses only maps of its own layout.
AdoptedLayoutsMatch ==
    pc \in {"posture", "seed", "attach"} \union Watching => \A m \in Maps : pinned[m] = build

\* main.go: the posture and the policy of this process are in the maps before its
\* program sees a packet, on any interface.
AttachedIsSeeded ==
    (\E i \in Ifaces : filter[i] = "mine") => posture = "mine" /\ seeded

\* run.go: a veth that was there for the list or came while the stream delivered
\* carries this process's program once the updates are handled, however often
\* it, or another one of its name, came and went.
WatchedVethsAttached ==
    pc = "watch" /\ open /\ events = << >> =>
        \A l \in links \ (unheard \union failed) : filter[l] = "mine"

\* runner.go: as long as the process lives, a veth is attached in the end, also
\* after the stream has overflowed, unless it came unheard or an attach failed.
VethsGetAttached ==
    \A l \in Veths :
        (l \in links /\ pc \in Watching) ~>
        \/ filter[l] = "mine" \/ l \notin links
        \/ l \in unheard \union failed \/ pc \notin Watching

\* ARCHITECTURE.md: "full veth scan before subscribing to netlink - closes the
\* missed-event race": no veth is missed.
NoVethMissed ==
    pc = "watch" /\ open /\ events = << >> => \A l \in links \ failed : filter[l] = "mine"
=============================================================================
