------------------------- MODULE AgentStartupProofs -------------------------
(***************************************************************************)
(* Proofs about AgentStartup, for any maps, builds, veths and any size of  *)
(* the update buffer: layouts are adopted only when they match, nothing is *)
(* attached before it is seeded, and no heard veth is left out.            *)
(***************************************************************************)
EXTENDS AgentStartup, TLAPS

-----------------------------------------------------------------------------
(* Which layouts a build adopts *)

\* A stamped pin set is of one layout throughout, the stamped one; a set that
\* was found empty holds, once loaded, only maps this build has created.
LayoutInv ==
    /\ build \in Nat \ {0}
    /\ stamp # 0 => \A m \in Maps : pinned[m] = stamp
    /\ pc = "load" /\ ~pre => \A m \in Maps : pinned[m] = 0
    /\ pc = "check" /\ ~pre => \A m \in Maps : pinned[m] = build
    /\ AdoptedLayoutsMatch

LEMMA LayoutInit == Init => LayoutInv
  BY StartupAssumption DEF Init, LayoutInv, AdoptedLayoutsMatch, Watching

\* A process that ends adopts nothing.
LEMMA LayoutExit ==
    ASSUME LayoutInv, pc' = "down", UNCHANGED <<build, pinned, stamp>>
    PROVE  LayoutInv'
  BY DEF LayoutInv, AdoptedLayoutsMatch, Watching

\* So does a step that keeps the pins and stays after the check.
LEMMA LayoutStay ==
    ASSUME LayoutInv, UNCHANGED <<build, pinned, stamp>>,
           pc' \in {pc, "prepare", "down"} \/ pc \in {"posture", "seed", "attach"} \union Watching,
           pc' = pc => pre' = pre,
           pc' # pc => pc' \notin {"load", "check"}
    PROVE  LayoutInv'
  BY DEF LayoutInv, AdoptedLayoutsMatch, Watching

LEMMA LayoutNext == LayoutInv /\ [Next]_vars => LayoutInv'
  <1> SUFFICES ASSUME LayoutInv, [Next]_vars PROVE LayoutInv'
    OBVIOUS
  <1> USE DEF Watching
  <1>1. CASE Start
    BY <1>1, LayoutStay DEF Start
  <1>2. CASE preparePinDir
    BY <1>2 DEF preparePinDir, disk, Populated, LayoutInv, AdoptedLayoutsMatch
  <1>3. CASE LoadObjects
    BY <1>3 DEF LoadObjects, Created, Missing, LayoutInv, AdoptedLayoutsMatch
  <1>4. CASE LoadFails
    BY <1>4 DEF LoadFails, Created, Missing, Fail, Exit, LayoutInv, AdoptedLayoutsMatch
  <1>5. CASE reconcileSchema
    BY <1>5 DEF reconcileSchema, Checked, LayoutInv, AdoptedLayoutsMatch
  <1>6. CASE SchemaRefused \/ PostureFails \/ SeedFails \/ Crash
    BY <1>6, LayoutExit DEF SchemaRefused, PostureFails, SeedFails, Crash, Fail, Exit, disk
  <1>7. CASE seedRuntimeConfig
    BY <1>7, LayoutStay DEF seedRuntimeConfig
  <1>8. CASE SeedState
    BY <1>8, LayoutStay DEF SeedState, disk
  <1>9. CASE AttachStatic
    BY <1>9, LayoutStay DEF AttachStatic
  <1>10. CASE AttachStaticFails \/ Close
    BY <1>10, LayoutExit DEF AttachStaticFails, Close, Exit, disk
  <1>11. CASE Watch
    BY <1>11, LayoutStay DEF Watch, Reconcile, AttachOne, Events, HandleEvent, Resubscribe, disk
  <1>12. CASE Upgrade
    BY <1>12, StartupAssumption DEF Upgrade, disk, LayoutInv, AdoptedLayoutsMatch
  <1>13. CASE WipePins
    BY <1>13 DEF WipePins, LayoutInv, AdoptedLayoutsMatch
  <1>14. ASSUME NEW l \in Veths, AddLink(l) \/ RemoveLink(l) \/ ChangeLink(l)
         PROVE  LayoutInv'
    BY <1>14, LayoutStay DEF AddLink, RemoveLink, ChangeLink, disk
  <1>15. CASE UNCHANGED vars
    BY <1>15 DEF vars, LayoutInv, AdoptedLayoutsMatch
  <1> QED
    BY <1>1, <1>2, <1>3, <1>4, <1>5, <1>6, <1>7, <1>8, <1>9, <1>10, <1>11, <1>12, <1>13,
       <1>14, <1>15 DEF Next, Startup, World

\* schema.go: a build that gets past the sentinel uses only maps of its own
\* layout, after any history of crashes, failed loads, upgrades and wipes.
THEOREM LayoutsMatch == Spec => []AdoptedLayoutsMatch
  <1>1. LayoutInv => AdoptedLayoutsMatch BY DEF LayoutInv
  <1> QED BY LayoutInit, LayoutNext, <1>1, PTL DEF Spec

-----------------------------------------------------------------------------
(* Nothing is attached before it is seeded *)

\* The second load runs with the posture written, the attach with the policy
\* applied as well, and only a watching process has filters of its own.
SeedInv ==
    /\ pc # "down" /\ round = 2 => posture = "mine"
    /\ pc = "posture" => round = 1
    /\ pc \in {"seed", "attach"} \union Watching => round = 2
    /\ pc \in {"attach"} \union Watching => seeded
    /\ \A i \in Ifaces : filter[i] = "mine" => pc \in Watching
    /\ filter \in [Ifaces -> {"none", "old", "mine"}]
    /\ round \in {1, 2}

LEMMA SeedInit == Init => SeedInv
  BY DEF Init, SeedInv, Watching

LEMMA SeedNext == SeedInv /\ [Next]_vars => SeedInv'
  <1> SUFFICES ASSUME SeedInv, [Next]_vars PROVE SeedInv'
    OBVIOUS
  <1> USE DEF Watching, net, disk
  <1>1. CASE Start \/ preparePinDir \/ LoadObjects \/ reconcileSchema
    BY <1>1 DEF Start, preparePinDir, LoadObjects, reconcileSchema, Checked, SeedInv
  <1>2. CASE LoadFails \/ SchemaRefused \/ PostureFails \/ SeedFails \/ Crash
    <2>1. pc' = "down" /\ filter' \in [Ifaces -> {"none", "old"}] /\ round' = round
      BY <1>2 DEF LoadFails, SchemaRefused, PostureFails, SeedFails, Crash, Fail, Exit, SeedInv
    <2> QED BY <2>1 DEF SeedInv
  <1>3. CASE seedRuntimeConfig \/ SeedState
    BY <1>3 DEF seedRuntimeConfig, SeedState, SeedInv
  <1>4. CASE AttachStatic
    BY <1>4 DEF AttachStatic, SeedInv, Ifaces
  <1>5. CASE AttachStaticFails \/ Close
    <2>1. PICK kept \in Detaches(Iface) : Exit(kept)
      BY <1>5 DEF AttachStaticFails, Close
    <2>2. kept \in [Ifaces -> {"none", "old", "mine"}]
      BY <2>1 DEF Detaches, SeedInv
    <2>3. pc' = "down" /\ filter' \in [Ifaces -> {"none", "old"}]
      BY <2>1, <2>2 DEF Exit
    <2>4. round' = round
      BY <1>5 DEF AttachStaticFails, Close
    <2> QED BY <2>3, <2>4 DEF SeedInv
  <1>6. ASSUME NEW l \in Veths, EnsureAttached(l), pc \in Watching, pc' = pc,
               UNCHANGED <<posture, round, seeded>>
        PROVE  SeedInv'
    BY <1>6 DEF EnsureAttached, SeedInv, Ifaces
  <1>7. CASE Reconcile \/ Events \/ Resubscribe
    BY <1>7 DEF Reconcile, Events, Resubscribe, SeedInv
  <1>8. ASSUME NEW l \in Veths, AttachOne(l) PROVE SeedInv'
    BY <1>8, <1>6 DEF AttachOne
  <1>9. CASE HandleEvent
    <2>1. /\ pc = "watch" /\ UNCHANGED <<pc, posture, round, seeded>>
          /\ filter' \in [Ifaces -> {"none", "old", "mine"}]
      <3>1. CASE Head(events).type = "added"
        BY <1>9, <3>1 DEF HandleEvent, EnsureAttached, SeedInv
      <3>2. CASE Head(events).type # "added"
        BY <1>9, <3>2 DEF HandleEvent, Detach, Detaches, SeedInv
      <3> QED BY <3>1, <3>2
    <2> QED BY <2>1 DEF SeedInv
  <1>10. CASE Upgrade \/ WipePins
    BY <1>10 DEF Upgrade, WipePins, SeedInv
  <1>11. ASSUME NEW l \in Veths, AddLink(l) \/ RemoveLink(l) \/ ChangeLink(l)
         PROVE  SeedInv'
    BY <1>11 DEF AddLink, RemoveLink, ChangeLink, SeedInv, Ifaces
  <1>12. CASE UNCHANGED vars
    BY <1>12 DEF vars, SeedInv
  <1> QED
    BY <1>1, <1>2, <1>3, <1>4, <1>5, <1>7, <1>8, <1>9, <1>10, <1>11, <1>12
       DEF Next, Startup, Watch, World

\* main.go: the posture and the policy of a process are in the maps before
\* any filter of that process sees a packet.
THEOREM SeededFirst == Spec => []AttachedIsSeeded
  <1>1. SeedInv => AttachedIsSeeded BY DEF SeedInv, AttachedIsSeeded, Watching
  <1> QED BY SeedInit, SeedNext, <1>1, PTL DEF Spec
-----------------------------------------------------------------------------
(* Every heard veth is attached *)

Event == [type : {"added", "removed"}, name : Veths]

\* No queued update is about l; the last one about l says it is there.
NoneAbout(q, l) == \A i \in 1..Len(q) : q[i].name # l
LastAdded(q, l) == \E i \in 1..Len(q) :
    /\ q[i].name = l /\ q[i].type = "added"
    /\ \A j \in i + 1 .. Len(q) : q[j].name # l

\* While the stream delivers, what is queued about an existing veth ends
\* with its arrival, and one with nothing queued is attached; while the list
\* is worked off, what is neither left on it nor unheard is attached.
WatchInv ==
    /\ events \in Seq(Event)
    /\ links \subseteq Veths
    /\ open => pc = "watch"
    /\ filter \in [Ifaces -> {"none", "old", "mine"}]
    /\ pc = "attach_all" =>
         \A l \in links \ (unheard \union failed \union work) : filter[l] = "mine"
    /\ open => \A l \in links : NoneAbout(events, l) \/ LastAdded(events, l)
    /\ open => \A l \in links \ (unheard \union failed) :
                 NoneAbout(events, l) => filter[l] = "mine"

\* Appending an update changes what is last about its own veth only.
LEMMA Appended ==
    ASSUME NEW q \in Seq(Event), NEW e \in Event, NEW l \in Veths
    PROVE  /\ Append(q, e) \in Seq(Event)
           /\ e.name = l => ~NoneAbout(Append(q, e), l)
           /\ e.name = l /\ e.type = "added" => LastAdded(Append(q, e), l)
           /\ e.name # l => NoneAbout(Append(q, e), l) = NoneAbout(q, l)
           /\ e.name # l /\ LastAdded(q, l) => LastAdded(Append(q, e), l)
  <1> DEFINE r == Append(q, e)
  <1>1. /\ r \in Seq(Event) /\ Len(r) = Len(q) + 1 /\ r[Len(q) + 1] = e
        /\ Len(q) \in Nat
        /\ \A i \in 1..Len(q) : r[i] = q[i]
    OBVIOUS
  <1> HIDE DEF r
  <1>2. e.name = l => ~NoneAbout(r, l)
    BY <1>1 DEF NoneAbout
  <1>3. e.name = l /\ e.type = "added" => LastAdded(r, l)
    BY <1>1 DEF LastAdded
  <1>4. e.name # l => NoneAbout(r, l) = NoneAbout(q, l)
    BY <1>1 DEF NoneAbout
  <1>5. e.name # l /\ LastAdded(q, l) => LastAdded(r, l)
    BY <1>1 DEF LastAdded
  <1> QED BY <1>1, <1>2, <1>3, <1>4, <1>5 DEF r

\* Taking the head keeps the last update, unless it was the only one.
LEMMA Taken ==
    ASSUME NEW q \in Seq(Event), q # << >>, NEW l \in Veths
    PROVE  /\ Tail(q) \in Seq(Event) /\ Head(q) \in Event
           /\ NoneAbout(q, l) => NoneAbout(Tail(q), l) /\ Head(q).name # l
           /\ LastAdded(q, l) => \/ LastAdded(Tail(q), l)
                                 \/ /\ Head(q).name = l /\ Head(q).type = "added"
                                    /\ NoneAbout(Tail(q), l)
           /\ Head(q).name # l /\ NoneAbout(Tail(q), l) => NoneAbout(q, l)
  <1> DEFINE r == Tail(q)
  <1>1. /\ r \in Seq(Event) /\ Len(r) = Len(q) - 1 /\ Len(q) \in Nat \ {0}
        /\ Head(q) = q[1] /\ Head(q) \in Event
        /\ \A i \in 1..Len(r) : r[i] = q[i + 1]
    OBVIOUS
  <1> HIDE DEF r
  <1>2. NoneAbout(q, l) => NoneAbout(r, l) /\ Head(q).name # l
    BY <1>1 DEF NoneAbout
  <1>3. ASSUME LastAdded(q, l)
        PROVE  \/ LastAdded(r, l)
               \/ Head(q).name = l /\ Head(q).type = "added" /\ NoneAbout(r, l)
    <2>1. PICK i \in 1..Len(q) : /\ q[i].name = l /\ q[i].type = "added"
                                 /\ \A j \in i + 1 .. Len(q) : q[j].name # l
      BY <1>3 DEF LastAdded
    <2>2. CASE i = 1
      BY <1>1, <2>1, <2>2 DEF NoneAbout
    <2>3. CASE i # 1
      <3>1. i - 1 \in 1..Len(r) /\ r[i - 1] = q[i] BY <1>1, <2>3
      <3>2. \A j \in i .. Len(r) : r[j].name # l BY <1>1, <2>1
      <3> QED BY <3>1, <3>2, <2>1 DEF LastAdded
    <2> QED BY <2>2, <2>3
  <1>4. Head(q).name # l /\ NoneAbout(r, l) => NoneAbout(q, l)
    <2> SUFFICES ASSUME Head(q).name # l, NoneAbout(r, l), NEW i \in 1..Len(q)
                 PROVE  q[i].name # l
      BY DEF NoneAbout
    <2>1. CASE i = 1 BY <1>1, <2>1
    <2>2. CASE i # 1
      <3>1. i - 1 \in 1..Len(r) /\ r[i - 1] = q[i] BY <1>1, <2>2
      <3> QED BY <3>1 DEF NoneAbout
    <2> QED BY <2>1, <2>2
  <1> QED BY <1>1, <1>2, <1>3, <1>4 DEF r
LEMMA WatchInit == Init => WatchInv
  BY DEF Init, WatchInv, NoneAbout

\* A process that ends hears nothing.
LEMMA WatchExit ==
    ASSUME WatchInv, NEW kept \in [Ifaces -> {"none", "old", "mine"}], Exit(kept),
           links' = links
    PROVE  WatchInv'
  BY DEF WatchInv, Exit, NoneAbout

\* A step that leaves the veths and the stream alone and does not go on to
\* work off a list.
LEMMA WatchStay ==
    ASSUME WatchInv, UNCHANGED <<events, links, open, unheard, failed, work>>,
           filter' \in [Ifaces -> {"none", "old", "mine"}],
           \A l \in Veths : filter'[l] = filter[l],
           pc' = pc \/ (pc # "watch" /\ pc' # "attach_all")
    PROVE  WatchInv'
  BY DEF WatchInv

\* An attach makes its veth attached or failed, and touches no other.
LEMMA Attached ==
    ASSUME WatchInv, NEW l \in Veths, EnsureAttached(l)
    PROVE  /\ filter' \in [Ifaces -> {"none", "old", "mine"}]
           /\ l \in failed' \/ filter'[l] = "mine"
           /\ \A k \in Veths \ {l} : /\ filter'[k] = filter[k]
                                     /\ (k \in unheard') = (k \in unheard)
                                     /\ (k \in failed') = (k \in failed)
  BY DEF EnsureAttached, WatchInv, Ifaces

\* An update that is queued, or finds no room and ends the stream.
LEMMA Notified ==
    ASSUME WatchInv, NEW l \in Veths, NEW type \in {"added", "removed"},
           Notify(type, l)
    PROVE  /\ events' \in Seq(Event)
           /\ open' => open /\ events' = Append(events, [type |-> type, name |-> l])
           /\ open' = open \/ ~open'
  <1> DEFINE e == [type |-> type, name |-> l]
  <1>1. e \in Event BY DEF Event
  <1> HIDE DEF e
  <1>2. CASE open /\ Len(events) < UpdateBuffer
    <2>1. events' = Append(events, e) /\ open' = open BY <1>2 DEF Notify, e
    <2> QED BY <1>1, <1>2, <2>1, Appended DEF WatchInv, e
  <1>3. CASE ~(open /\ Len(events) < UpdateBuffer)
    BY <1>3 DEF Notify, WatchInv
  <1> QED BY <1>2, <1>3

\* What a queued update does to the updates about an existing veth.
LEMMA QueuedUpdate ==
    ASSUME WatchInv, NEW e \in Event, open, events' = Append(events, e), NEW k \in Veths,
           k = e.name => e.type = "added", k # e.name => k \in links
    PROVE  /\ NoneAbout(events', k) \/ LastAdded(events', k)
           /\ NoneAbout(events', k) => k # e.name /\ NoneAbout(events, k)
  <1>1. events \in Seq(Event) BY DEF WatchInv
  <1>2. CASE k = e.name
    BY <1>1, <1>2, Appended
  <1>3. CASE k # e.name
    <2>1. NoneAbout(events, k) \/ LastAdded(events, k) BY <1>3 DEF WatchInv
    <2>2. NoneAbout(events', k) = NoneAbout(events, k) BY <1>1, <1>3, Appended
    <2>3. LastAdded(events, k) => LastAdded(events', k) BY <1>1, <1>3, Appended
    <2> QED BY <1>3, <2>1, <2>2, <2>3
  <1> QED BY <1>2, <1>3

LEMMA WatchAddLink ==
    ASSUME WatchInv, NEW l \in Veths, AddLink(l)
    PROVE  WatchInv'
  <1> DEFINE e == [type |-> "added", name |-> l]
  <1>1. e \in Event /\ e.name = l /\ e.type = "added" BY DEF Event
  <1>2. events' \in Seq(Event) /\ (open' => open /\ events' = Append(events, e))
    BY Notified DEF AddLink
  <1> HIDE DEF e
  <1>3. /\ links' = links \union {l} /\ pc' = pc /\ filter' = filter /\ work' = work
        /\ failed' = failed \ {l}
        /\ unheard' = IF pc = "attach_all" THEN unheard \union {l} ELSE unheard \ {l}
    BY DEF AddLink, Unheard
  <1>4. ASSUME open', NEW k \in links'
        PROVE  NoneAbout(events', k) \/ LastAdded(events', k)
    BY <1>1, <1>2, <1>3, <1>4, QueuedUpdate DEF WatchInv
  <1>5. ASSUME open', NEW k \in links' \ (unheard' \union failed'), NoneAbout(events', k)
        PROVE  filter'[k] = "mine"
    <2>1. k # l /\ NoneAbout(events, k) BY <1>1, <1>2, <1>3, <1>5, QueuedUpdate DEF WatchInv
    <2>2. pc = "watch" BY <1>2, <1>5 DEF WatchInv
    <2> QED BY <1>2, <1>3, <1>5, <2>1, <2>2 DEF WatchInv
  <1> QED BY <1>2, <1>3, <1>4, <1>5 DEF WatchInv

LEMMA WatchChangeLink ==
    ASSUME WatchInv, NEW l \in Veths, ChangeLink(l)
    PROVE  WatchInv'
  <1> DEFINE e == [type |-> "added", name |-> l]
  <1>1. e \in Event /\ e.name = l /\ e.type = "added" BY DEF Event
  <1>2. events' \in Seq(Event) /\ (open' => open /\ events' = Append(events, e))
    BY Notified DEF ChangeLink
  <1> HIDE DEF e
  <1>3. UNCHANGED <<links, pc, filter, work, unheard, failed>> /\ open
    BY DEF ChangeLink, net
  <1>4. ASSUME open', NEW k \in links'
        PROVE  NoneAbout(events', k) \/ LastAdded(events', k)
    BY <1>1, <1>2, <1>3, <1>4, QueuedUpdate DEF WatchInv
  <1>5. ASSUME open', NEW k \in links' \ (unheard' \union failed'), NoneAbout(events', k)
        PROVE  filter'[k] = "mine"
    <2>1. NoneAbout(events, k) BY <1>1, <1>2, <1>3, <1>5, QueuedUpdate DEF WatchInv
    <2> QED BY <1>3, <1>5, <2>1 DEF WatchInv
  <1> QED BY <1>2, <1>3, <1>4, <1>5 DEF WatchInv

LEMMA WatchRemoveLink ==
    ASSUME WatchInv, NEW l \in Veths, RemoveLink(l)
    PROVE  WatchInv'
  <1> DEFINE e == [type |-> "removed", name |-> l]
  <1>1. e \in Event /\ e.name = l BY DEF Event
  <1>2. events' \in Seq(Event) /\ (open' => open /\ events' = Append(events, e))
    BY Notified DEF RemoveLink
  <1> HIDE DEF e
  <1>3. /\ links' = links \ {l} /\ pc' = pc /\ work' = work
        /\ filter' = [filter EXCEPT ![l] = "none"]
        /\ unheard' = unheard \ {l} /\ failed' = failed \ {l}
    BY DEF RemoveLink
  <1>4. ASSUME open', NEW k \in links'
        PROVE  NoneAbout(events', k) \/ LastAdded(events', k)
    BY <1>1, <1>2, <1>3, <1>4, QueuedUpdate DEF WatchInv
  <1>5. ASSUME open', NEW k \in links' \ (unheard' \union failed'), NoneAbout(events', k)
        PROVE  filter'[k] = "mine"
    <2>1. k # l /\ NoneAbout(events, k) BY <1>1, <1>2, <1>3, <1>5, QueuedUpdate DEF WatchInv
    <2> QED BY <1>2, <1>3, <1>5, <2>1 DEF WatchInv
  <1> QED BY <1>2, <1>3, <1>4, <1>5 DEF WatchInv, Ifaces

LEMMA WatchHandleEvent ==
    ASSUME WatchInv, HandleEvent
    PROVE  WatchInv'
  <1>1. /\ pc = "watch" /\ events # << >> /\ events' = Tail(events)
        /\ UNCHANGED <<pc, links, open, work>>
    BY DEF HandleEvent
  <1> DEFINE l == Head(events).name
  <1>2. l \in Veths /\ Head(events) \in Event /\ events' \in Seq(Event)
    <2>1. Head(events) \in Event /\ events' \in Seq(Event) BY <1>1 DEF WatchInv
    <2> QED BY <2>1 DEF Event
  <1>3. filter' \in [Ifaces -> {"none", "old", "mine"}]
    BY <1>2, Attached DEF HandleEvent, Detach, Detaches, WatchInv
  <1>4. ASSUME Head(events).type = "added" PROVE l \in failed' \/ filter'[l] = "mine"
    BY <1>2, <1>4, Attached DEF HandleEvent
  <1>5. \A k \in Veths \ {l} : /\ filter'[k] = filter[k]
                               /\ (k \in unheard') = (k \in unheard)
                               /\ (k \in failed') = (k \in failed)
    BY <1>2, Attached DEF HandleEvent, Detach, Detaches, WatchInv, Ifaces
  <1>6. ASSUME open', NEW k \in links'
        PROVE  NoneAbout(events', k) \/ LastAdded(events', k)
    BY <1>1, <1>6, Taken DEF WatchInv
  <1>7. ASSUME open', NEW k \in links' \ (unheard' \union failed'), NoneAbout(events', k)
        PROVE  filter'[k] = "mine"
    <2>1. k \in Veths BY <1>1 DEF WatchInv
    <2>2. CASE k # l
      <3>1. NoneAbout(events, k) BY <1>1, <1>7, <2>1, <2>2, Taken DEF WatchInv
      <3> QED BY <1>1, <1>5, <1>7, <2>1, <2>2, <3>1 DEF WatchInv
    <2>3. CASE k = l
      <3>1. ~NoneAbout(events, k) BY <1>1, <2>1, <2>3, Taken DEF WatchInv
      <3>2. LastAdded(events, k) BY <1>1, <1>7, <3>1 DEF WatchInv
      <3>3. ~LastAdded(Tail(events), k) BY <1>1, <1>7 DEF LastAdded, NoneAbout
      <3>4. Head(events).type = "added" BY <1>1, <2>1, <3>2, <3>3, Taken DEF WatchInv
      <3> QED BY <1>4, <1>7, <2>3, <3>4
    <2> QED BY <2>2, <2>3
  <1> QED BY <1>1, <1>2, <1>3, <1>6, <1>7 DEF WatchInv

LEMMA WatchNext == WatchInv /\ [Next]_vars => WatchInv'
  <1> SUFFICES ASSUME WatchInv, [Next]_vars PROVE WatchInv'
    OBVIOUS
  <1>1. CASE \/ Start \/ preparePinDir \/ LoadObjects \/ reconcileSchema
             \/ seedRuntimeConfig \/ SeedState \/ Upgrade \/ WipePins
    <2>1. /\ UNCHANGED <<events, links, open, unheard, failed, work, filter>>
          /\ pc' = pc \/ (pc # "watch" /\ pc' # "attach_all")
      BY <1>1 DEF Start, preparePinDir, LoadObjects, reconcileSchema, Checked,
         seedRuntimeConfig, SeedState, Upgrade, WipePins, net, watch
    <2> QED BY <2>1, WatchStay DEF WatchInv
  <1>2. CASE LoadFails \/ SchemaRefused \/ PostureFails \/ SeedFails \/ Crash
    BY <1>2, WatchExit DEF LoadFails, SchemaRefused, PostureFails, SeedFails, Crash, Fail, WatchInv
  <1>3. CASE AttachStatic
    <2>1. /\ UNCHANGED <<events, links, open, unheard, failed, work>>
          /\ pc = "attach" /\ pc' = "list"
          /\ filter' = [filter EXCEPT ![Iface] = "mine"]
      BY <1>3 DEF AttachStatic, watch
    <2> QED BY <2>1, WatchStay, StartupAssumption DEF WatchInv, Ifaces
  <1>4. CASE AttachStaticFails \/ Close
    <2>1. PICK kept \in Detaches(Iface) : Exit(kept)
      BY <1>4 DEF AttachStaticFails, Close
    <2>2. kept \in [Ifaces -> {"none", "old", "mine"}]
      BY <2>1 DEF Detaches, WatchInv
    <2>3. links' = links BY <1>4 DEF AttachStaticFails, Close
    <2> QED BY <2>1, <2>2, <2>3, WatchExit
  <1>5. CASE Reconcile
    BY <1>5 DEF Reconcile, WatchInv
  <1>6. ASSUME NEW l \in Veths, AttachOne(l) PROVE WatchInv'
    <2>1. /\ pc = "attach_all" /\ pc' = pc /\ work' = work \ {l}
          /\ UNCHANGED <<links, open, events>> /\ EnsureAttached(l)
      BY <1>6 DEF AttachOne
    <2>2. ASSUME NEW k \in links' \ (unheard' \union failed' \union work')
          PROVE  filter'[k] = "mine"
      BY <2>1, Attached DEF WatchInv
    <2> QED BY <2>1, <2>2, Attached DEF WatchInv
  <1>7. CASE Events
    BY <1>7 DEF Events, net, WatchInv, NoneAbout
  <1>8. CASE HandleEvent
    BY <1>8, WatchHandleEvent
  <1>9. CASE Resubscribe
    BY <1>9 DEF Resubscribe, net, watch, WatchInv
  <1>10. ASSUME NEW l \in Veths, AddLink(l) \/ RemoveLink(l) \/ ChangeLink(l)
         PROVE  WatchInv'
    BY <1>10, WatchAddLink, WatchRemoveLink, WatchChangeLink
  <1>11. CASE UNCHANGED vars
    BY <1>11 DEF vars, WatchInv
  <1> QED
    BY <1>1, <1>2, <1>3, <1>4, <1>5, <1>6, <1>7, <1>8, <1>9, <1>10, <1>11
       DEF Next, Startup, Watch, World

\* run.go: a veth that was listed, or came while the stream delivered, carries
\* this process's program once the queued updates are handled.
THEOREM VethsAttached == Spec => []WatchedVethsAttached
  <1>1. WatchInv => WatchedVethsAttached
    BY DEF WatchInv, WatchedVethsAttached, NoneAbout
  <1> QED BY WatchInit, WatchNext, <1>1, PTL DEF Spec
-----------------------------------------------------------------------------
(* The types, and the bound on the updates the subscription holds *)

TypeInv == TypeOK /\ events \in Seq(Event)

\* What the types say of the queue.
QueueOK(q) ==
    /\ q \in Seq(Event) /\ Len(q) <= UpdateBuffer
    /\ \A i \in DOMAIN q : q[i] \in [type : {"added", "removed"}, name : Veths]

LEMMA QueueTyped ==
    ASSUME NEW q \in Seq(Event), Len(q) <= UpdateBuffer
    PROVE  QueueOK(q)
  <1>1. DOMAIN q = 1..Len(q) /\ \A i \in 1..Len(q) : q[i] \in Event OBVIOUS
  <1> QED BY <1>1 DEF QueueOK, Event

LEMMA EmptyQueue == QueueOK(<< >>)
  <1>1. << >> \in Seq(Event) /\ Len(<< >>) = 0 OBVIOUS
  <1>2. 0 <= UpdateBuffer BY StartupAssumption
  <1> QED BY <1>1, <1>2, QueueTyped

LEMMA TypeInit == Init => TypeInv
  <1> SUFFICES ASSUME Init PROVE TypeInv OBVIOUS
  <1>1. events = << >> BY DEF Init
  <1>2. QueueOK(events) BY <1>1, EmptyQueue
  <1> QED BY <1>2 DEF Init, QueueOK, TypeInv, TypeOK

\* A process that ends, with what its Detach left of the filters.
LEMMA TypeExit ==
    ASSUME TypeInv, NEW kept \in [Ifaces -> {"none", "old", "mine"}], Exit(kept),
           UNCHANGED <<build, round, pre, links>>, progPin' \in BOOLEAN,
           pinned' \in [Maps -> Versions \union {0}], UNCHANGED <<stamp, posture>>
    PROVE  TypeInv'
  <1>1. events' = << >> BY DEF Exit
  <1>2. QueueOK(events)' BY <1>1, EmptyQueue DEF QueueOK
  <1>3. /\ filter' \in [Ifaces -> {"none", "old", "mine"}] /\ pc' = "down"
        /\ seeded' = FALSE /\ work' = {} /\ open' = FALSE /\ unheard' = {} /\ failed' = {}
    BY DEF Exit
  <1> QED BY <1>2, <1>3 DEF QueueOK, TypeInv, TypeOK

\* A step that leaves the queue alone.
LEMMA TypeKeepsQueue ==
    ASSUME TypeInv, UNCHANGED events
    PROVE  QueueOK(events)'
  BY DEF QueueOK, TypeInv, TypeOK

\* An update is queued only while there is room for it.
LEMMA TypeNotified ==
    ASSUME TypeInv, NEW l \in Veths, NEW type \in {"added", "removed"}, Notify(type, l)
    PROVE  QueueOK(events)' /\ open' \in BOOLEAN
  <1> DEFINE e == [type |-> type, name |-> l]
  <1>1. e \in Event BY DEF Event
  <1>2. events \in Seq(Event) /\ Len(events) \in Nat BY DEF TypeInv
  <1> HIDE DEF e
  <1>3. CASE open /\ Len(events) < UpdateBuffer
    <2>1. events' = Append(events, e) /\ open' = open BY <1>3 DEF Notify, e
    <2>2. events' \in Seq(Event) /\ Len(events') = Len(events) + 1 BY <1>1, <1>2, <2>1
    <2>3. Len(events') <= UpdateBuffer BY <1>2, <1>3, <2>2, StartupAssumption
    <2>4. QueueOK(events)' BY <2>2, <2>3, QueueTyped DEF QueueOK
    <2> QED BY <2>1, <2>4 DEF TypeInv, TypeOK
  <1>4. CASE ~(open /\ Len(events) < UpdateBuffer)
    BY <1>4, TypeKeepsQueue DEF Notify
  <1> QED BY <1>3, <1>4

\* The filters and the history an attach or a detach leaves.
LEMMA TypeAttached ==
    ASSUME TypeInv, NEW l \in Veths, EnsureAttached(l) \/ Detach(l)
    PROVE  /\ filter' \in [Ifaces -> {"none", "old", "mine"}]
           /\ unheard' \subseteq Veths /\ failed' \subseteq Veths
  BY DEF EnsureAttached, Detach, Detaches, TypeInv, TypeOK, Ifaces

LEMMA TypeNext == TypeInv /\ [Next]_vars => TypeInv'
  <1> SUFFICES ASSUME TypeInv, [Next]_vars PROVE TypeInv'
    OBVIOUS
  <1> USE DEF Loading, Watching, QueueOK
  <1>1. CASE Start \/ preparePinDir \/ seedRuntimeConfig \/ SeedState
    BY <1>1, TypeKeepsQueue DEF Start, preparePinDir, seedRuntimeConfig, SeedState, Populated,
       disk, net, watch, TypeInv, TypeOK
  <1>2. CASE LoadObjects
    BY <1>2, TypeKeepsQueue DEF LoadObjects, Created, net, watch, TypeInv, TypeOK
  <1>3. CASE reconcileSchema
    BY <1>3, TypeKeepsQueue DEF reconcileSchema, Checked, net, watch, TypeInv, TypeOK
  <1>4. CASE LoadFails
    <2>1. pinned' \in [Maps -> Versions \union {0}]
      BY <1>4 DEF LoadFails, Created, TypeInv, TypeOK
    <2>2. filter \in [Ifaces -> {"none", "old", "mine"}] /\ progPin \in BOOLEAN
      BY DEF TypeInv, TypeOK
    <2> QED BY <1>4, <2>1, <2>2, TypeExit DEF LoadFails, Fail
  <1>5. CASE SchemaRefused \/ PostureFails \/ SeedFails \/ Crash
    <2>1. /\ filter \in [Ifaces -> {"none", "old", "mine"}] /\ progPin \in BOOLEAN
          /\ pinned \in [Maps -> Versions \union {0}]
      BY DEF TypeInv, TypeOK
    <2> QED BY <1>5, <2>1, TypeExit DEF SchemaRefused, PostureFails, SeedFails, Crash, Fail, disk
  <1>6. CASE AttachStatic
    BY <1>6, TypeKeepsQueue DEF AttachStatic, watch, Ifaces, TypeInv, TypeOK
  <1>7. CASE AttachStaticFails \/ Close
    <2>1. PICK kept \in Detaches(Iface) : Exit(kept)
      BY <1>7 DEF AttachStaticFails, Close
    <2>2. kept \in [Ifaces -> {"none", "old", "mine"}]
      BY <2>1 DEF Detaches, TypeInv, TypeOK, Ifaces
    <2>3. /\ UNCHANGED <<build, round, pre, links>> /\ progPin' \in BOOLEAN
          /\ pinned' \in [Maps -> Versions \union {0}] /\ UNCHANGED <<stamp, posture>>
      BY <1>7 DEF AttachStaticFails, Close, disk, TypeInv, TypeOK
    <2> QED BY <2>1, <2>2, <2>3, TypeExit
  <1>8. CASE Reconcile \/ Resubscribe
    BY <1>8, TypeKeepsQueue DEF Reconcile, Resubscribe, disk, net, watch, TypeInv, TypeOK
  <1>9. ASSUME NEW l \in Veths, AttachOne(l) PROVE TypeInv'
    <2>1. /\ filter' \in [Ifaces -> {"none", "old", "mine"}]
          /\ unheard' \subseteq Veths /\ failed' \subseteq Veths
      BY <1>9, TypeAttached DEF AttachOne
    <2> QED BY <1>9, <2>1, TypeKeepsQueue DEF AttachOne, disk, TypeInv, TypeOK
  <1>10. CASE Events
    <2>1. events' = << >> BY <1>10 DEF Events
    <2>2. QueueOK(events)' BY <2>1, EmptyQueue DEF QueueOK
    <2> QED BY <1>10, <2>2 DEF Events, disk, net, TypeInv, TypeOK
  <1>11. CASE HandleEvent
    <2>1. events \in Seq(Event) /\ events # << >> BY <1>11 DEF HandleEvent, TypeInv
    <2>2. /\ Head(events) \in Event /\ Tail(events) \in Seq(Event)
          /\ Len(Tail(events)) = Len(events) - 1 /\ Len(events) \in Nat
      BY <2>1
    <2>3. events' = Tail(events) BY <1>11 DEF HandleEvent
    <2>4. Len(events') <= UpdateBuffer BY <2>2, <2>3, StartupAssumption DEF TypeInv, TypeOK
    <2>5. QueueOK(events)' BY <2>2, <2>3, <2>4, QueueTyped DEF QueueOK
    <2>6. Head(events).name \in Veths BY <2>2 DEF Event
    <2>7. /\ filter' \in [Ifaces -> {"none", "old", "mine"}]
          /\ unheard' \subseteq Veths /\ failed' \subseteq Veths
      BY <1>11, <2>6, TypeAttached DEF HandleEvent
    <2> QED BY <1>11, <2>5, <2>7 DEF HandleEvent, disk, TypeInv, TypeOK
  <1>12. CASE Upgrade
    BY <1>12, TypeKeepsQueue DEF Upgrade, disk, net, watch, TypeInv, TypeOK
  <1>13. CASE WipePins
    BY <1>13, TypeKeepsQueue DEF WipePins, net, watch, TypeInv, TypeOK
  <1>14. ASSUME NEW l \in Veths, AddLink(l) PROVE TypeInv'
    BY <1>14, TypeNotified DEF AddLink, Unheard, disk, TypeInv, TypeOK
  <1>15. ASSUME NEW l \in Veths, ChangeLink(l) PROVE TypeInv'
    BY <1>15, TypeNotified DEF ChangeLink, disk, net, TypeInv, TypeOK
  <1>16. ASSUME NEW l \in Veths, RemoveLink(l) PROVE TypeInv'
    BY <1>16, TypeNotified DEF RemoveLink, disk, Ifaces, TypeInv, TypeOK
  <1>17. CASE UNCHANGED vars
    BY <1>17, TypeKeepsQueue DEF vars, TypeInv, TypeOK
  <1> QED
    BY <1>1, <1>2, <1>3, <1>4, <1>5, <1>6, <1>7, <1>8, <1>9, <1>10, <1>11, <1>12, <1>13,
       <1>14, <1>15, <1>16, <1>17 DEF Next, Startup, Watch, World

\* The subscription never holds more updates than its buffer, and every piece of
\* the process's and the kernel's state keeps its type.
THEOREM StartupTyped == Spec => []TypeOK
  <1>1. TypeInv => TypeOK BY DEF TypeInv
  <1> QED BY TypeInit, TypeNext, <1>1, PTL DEF Spec
=============================================================================
