------------------------------ MODULE AdsStream ------------------------------
(***************************************************************************)
(* The configuration channel of Meridian: the in-memory Store of the       *)
(* control plane, its coalescing Watch channel, the ADS server's stream    *)
(* loop with its per-type version/nonce bookkeeping, the bidirectional     *)
(* gRPC stream, and the agent's ADS client that applies every push and     *)
(* ACKs or NACKs it.  One agent is modelled: server streams share nothing  *)
(* but the Store.                                                          *)
(*                                                                         *)
(* Data abstraction.  The content of one half of the Store (CDS: policies, *)
(* EDS: identities) is the number of mutations committed to that half, its *)
(* revision; a snapshot of a half is its revision.  Nonces and versions    *)
(* are the decimal counters of the code; 0 stands for the empty string.    *)
(* LDS and RDS are never subscribed to by the agent and are left out.      *)
(***************************************************************************)
EXTENDS Naturals, Sequences

CONSTANTS MaxChanges,   \* bound: mutations committed to the Store
          MaxStreams,   \* bound: ADS streams the agent opens
          MaxFailures   \* bound: datapath Apply calls that fail

ASSUME BoundsAssumption ==
    MaxChanges \in Nat /\ MaxStreams \in Nat /\ MaxFailures \in Nat

Types == {"CDS", "EDS"}

\* The channels the agent consumes.
subscribeTypes == <<"CDS", "EDS">>

\* pushAll goes through pushOrder (CDS, EDS, then the two types nobody
\* subscribes to) and skips the types without a subscription.
pushOrder(S) == (IF "CDS" \in S THEN <<"CDS">> ELSE <<>>)
                \o (IF "EDS" \in S THEN <<"EDS">> ELSE <<>>)

VARIABLES
    \* control plane: Store
    store,        \* revision of each half of Memory
    unnotified,   \* writers that committed and unlocked but have not notified
    \* control plane: one run of Server.handle
    watch,        \* an event sits in this stream's Watch channel (capacity 1)
    srvPc,        \* "none": no handler; "select"; "read"/"send": inside push
    subscribed,   \* type_urls with a subscription on this stream
    toPush,       \* types the current push or pushAll has still to send
    resources,    \* what resourcesFor read for Head(toPush), when srvPc = "send"
    ts,           \* streamState.byType
    nonceSeq,     \* streamState.nonceSeq
    pushed,       \* history: the content of the last push of each type
    \* the gRPC stream
    conn,         \* "down", "open", "closing": broken, not yet seen by the agent
    toAgent,      \* responses in flight
    toServer,     \* requests in flight
    streams,      \* streams opened so far
    \* agent: xds.Client
    cliPc,        \* "recv", "apply", "ack", "post", "nack": where Client.handle is
    resp,         \* the response being handled
    applied,      \* Client.applied
    accepted,     \* Client.accepted
    resolver,     \* identities the proxy's SPIFFE resolver was last given
    failures      \* Apply calls that failed so far

storeVars  == <<store, unnotified>>
serverVars == <<srvPc, subscribed, toPush, resources, ts, nonceSeq, pushed>>
clientVars == <<cliPc, resp, applied, accepted, resolver, failures>>
vars == <<storeVars, watch, serverVars, conn, toAgent, toServer, streams,
          clientVars>>

-----------------------------------------------------------------------------

TypeState == [sentVersion : Nat, ackedVersion : Nat,
              lastNonce : Nat, hasOutstanding : BOOLEAN]
Response  == [type : Types, version : Nat, nonce : Nat, rev : Nat]
Request   == [type : Types, version : Nat, nonce : Nat, error : BOOLEAN]

NewTypeState == [sentVersion |-> 0, ackedVersion |-> 0,
                 lastNonce |-> 0, hasOutstanding |-> FALSE]
NoResponse == [type |-> "CDS", version |-> 0, nonce |-> 0, rev |-> 0]
Subscription(t) == [type |-> t, version |-> 0, nonce |-> 0, error |-> FALSE]

Init ==
    /\ store = [t \in Types |-> 0]
    /\ unnotified = 0
    /\ watch = FALSE
    /\ srvPc = "none"
    /\ subscribed = {}
    /\ toPush = <<>>
    /\ resources = 0
    /\ ts = [t \in Types |-> NewTypeState]
    /\ nonceSeq = 0
    /\ pushed = [t \in Types |-> 0]
    /\ conn = "down"
    /\ toAgent = <<>>
    /\ toServer = <<>>
    /\ streams = 0
    /\ cliPc = "recv"
    /\ resp = NoResponse
    /\ applied = [t \in Types |-> 0]
    /\ accepted = [t \in Types |-> 0]
    /\ resolver = 0
    /\ failures = 0

-----------------------------------------------------------------------------
(* Store: Memory commits under its lock and notifies after releasing it.   *)

\* PutIdentity, DeleteIdentity, PutPolicy, DeletePolicy up to the Unlock.
Mutate(t) ==
    /\ store["CDS"] + store["EDS"] < MaxChanges
    /\ store' = [store EXCEPT ![t] = @ + 1]
    /\ unnotified' = unnotified + 1
    /\ UNCHANGED <<watch, serverVars, conn, toAgent, toServer, streams, clientVars>>

\* Fault: watchBuffer = 0, an event finds a receiver only in the select.
NotifyUnbuffered ==
    /\ unnotified > 0
    /\ unnotified' = unnotified - 1
    /\ watch' = (watch \/ srvPc = "select")
    /\ UNCHANGED <<store, serverVars, conn, toAgent, toServer, streams, clientVars>>

\* Memory.notify: a non-blocking send to every registered channel.
Notify ==
    /\ unnotified > 0
    /\ unnotified' = unnotified - 1
    /\ watch' = (watch \/ srvPc # "none")
    /\ UNCHANGED <<store, serverVars, conn, toAgent, toServer, streams, clientVars>>

-----------------------------------------------------------------------------
(* The stream's life.                                                      *)

\* runStream opens the stream and sends its subscriptions.
OpenStream ==
    /\ conn = "down"
    /\ streams < MaxStreams
    /\ conn' = "open"
    /\ streams' = streams + 1
    /\ toServer' = [i \in DOMAIN subscribeTypes |-> Subscription(subscribeTypes[i])]
    /\ UNCHANGED <<storeVars, watch, serverVars, toAgent, clientVars>>

\* Server.handle starts: a fresh streamState, and Watch before the first read.
AcceptStream ==
    /\ conn = "open"
    /\ srvPc = "none"
    /\ srvPc' = "select"
    /\ UNCHANGED <<storeVars, watch, subscribed, toPush, resources, ts, nonceSeq,
                   pushed, conn, toAgent, toServer, streams, clientVars>>

\* The transport fails or the handler returns: the server's per-stream state is
\* dropped, Watch unregisters the channel, requests in flight are lost.  The
\* agent may still read responses that had reached it.
BreakStream ==
    /\ conn = "open"
    /\ streams < MaxStreams
    /\ conn' = "closing"
    /\ srvPc' = "none"
    /\ watch' = FALSE
    /\ subscribed' = {}
    /\ toPush' = <<>>
    /\ resources' = 0
    /\ ts' = [t \in Types |-> NewTypeState]
    /\ nonceSeq' = 0
    /\ pushed' = [t \in Types |-> 0]
    /\ toServer' = <<>>
    /\ UNCHANGED <<storeVars, toAgent, streams, clientVars>>

\* Recv reports the broken stream: Run holds last-known-good and reconnects.
RecvFails ==
    /\ conn = "closing"
    /\ cliPc = "recv"
    /\ conn' = "down"
    /\ toAgent' = <<>>
    /\ UNCHANGED <<storeVars, watch, serverVars, toServer, streams, clientVars>>

-----------------------------------------------------------------------------
(* Server.handle: one select loop; push reads the Store, then sends.       *)

\* Fault: the nonce is not compared with the outstanding one.
classifyAnyNonce(s, req) ==
    IF req.nonce = 0 THEN "initial"
    ELSE IF ~s.hasOutstanding THEN "stale"
    ELSE IF req.error THEN "nack" ELSE "ack"

\* streamState.classify.
classify(s, req) ==
    IF req.nonce = 0 THEN "initial"
    ELSE IF ~s.hasOutstanding \/ req.nonce # s.lastNonce THEN "stale"
    ELSE IF req.error THEN "nack" ELSE "ack"

settle(s, kind) ==
    [s EXCEPT !.hasOutstanding = FALSE,
              !.lastNonce = 0,
              !.ackedVersion = IF kind = "ack" THEN s.sentVersion ELSE @]

\* streamState.preparePush.
preparePush(s, nonce) ==
    [s EXCEPT !.sentVersion = @ + 1, !.lastNonce = nonce, !.hasOutstanding = TRUE]

\* Fault: the subscription is answered but not remembered.
OnSubscribeOnce ==
    /\ srvPc = "select"
    /\ toServer # <<>>
    /\ classify(ts[Head(toServer).type], Head(toServer)) = "initial"
    /\ toServer' = Tail(toServer)
    /\ toPush' = <<Head(toServer).type>>
    /\ srvPc' = "read"
    /\ UNCHANGED <<storeVars, watch, subscribed, resources, ts, nonceSeq, pushed,
                   conn, toAgent, streams, clientVars>>

\* onRequest, ackInitial: subscribe and push the type.
OnSubscribe ==
    /\ srvPc = "select"
    /\ toServer # <<>>
    /\ classify(ts[Head(toServer).type], Head(toServer)) = "initial"
    /\ toServer' = Tail(toServer)
    /\ subscribed' = subscribed \union {Head(toServer).type}
    /\ toPush' = <<Head(toServer).type>>
    /\ srvPc' = "read"
    /\ UNCHANGED <<storeVars, watch, resources, ts, nonceSeq, pushed, conn,
                   toAgent, streams, clientVars>>

\* onRequest, ackAck and ackNack: the outstanding push is settled, no re-push.
OnSettle ==
    /\ srvPc = "select"
    /\ toServer # <<>>
    /\ LET req  == Head(toServer)
           kind == classify(ts[req.type], req)
       IN  /\ kind \in {"ack", "nack"}
           /\ ts' = [ts EXCEPT ![req.type] = settle(@, kind)]
    /\ toServer' = Tail(toServer)
    /\ UNCHANGED <<storeVars, watch, srvPc, subscribed, toPush, resources,
                   nonceSeq, pushed, conn, toAgent, streams, clientVars>>

\* onRequest, ackStale: ignored.
OnStale ==
    /\ srvPc = "select"
    /\ toServer # <<>>
    /\ classify(ts[Head(toServer).type], Head(toServer)) = "stale"
    /\ toServer' = Tail(toServer)
    /\ UNCHANGED <<storeVars, watch, serverVars, conn, toAgent, streams, clientVars>>

\* The select loop takes the Watch event and starts pushAll.
OnWatch ==
    /\ srvPc = "select"
    /\ watch
    /\ watch' = FALSE
    /\ toPush' = pushOrder(subscribed)
    /\ srvPc' = IF subscribed = {} THEN "select" ELSE "read"
    /\ UNCHANGED <<storeVars, subscribed, resources, ts, nonceSeq, pushed, conn,
                   toAgent, toServer, streams, clientVars>>

\* push, first half: resourcesFor lists the Store under its read lock.
ReadResources ==
    /\ srvPc = "read"
    /\ resources' = store[Head(toPush)]
    /\ srvPc' = "send"
    /\ UNCHANGED <<storeVars, watch, subscribed, toPush, ts, nonceSeq, pushed,
                   conn, toAgent, toServer, streams, clientVars>>

\* push, second half: preparePush stamps version and nonce, Send.
SendResponse ==
    LET t == Head(toPush) IN
    /\ srvPc = "send"
    /\ nonceSeq' = nonceSeq + 1
    /\ ts' = [ts EXCEPT ![t] = preparePush(@, nonceSeq + 1)]
    /\ toAgent' = Append(toAgent, [type |-> t, version |-> ts[t].sentVersion + 1,
                                   nonce |-> nonceSeq + 1, rev |-> resources])
    /\ pushed' = [pushed EXCEPT ![t] = resources]
    /\ toPush' = Tail(toPush)
    /\ srvPc' = IF Len(toPush) = 1 THEN "select" ELSE "read"
    /\ resources' = 0
    /\ UNCHANGED <<storeVars, watch, subscribed, conn, toServer, streams, clientVars>>

-----------------------------------------------------------------------------
(* xds.Client.handle.                                                      *)

Recv ==
    /\ conn # "down"
    /\ cliPc = "recv"
    /\ toAgent # <<>>
    /\ resp' = Head(toAgent)
    /\ toAgent' = Tail(toAgent)
    /\ cliPc' = "apply"
    /\ UNCHANGED <<storeVars, watch, serverVars, conn, toServer, streams,
                   applied, accepted, resolver, failures>>

\* candidateFor, diff and writer.Apply succeed; commit precedes the ACK.
ApplyOk ==
    /\ cliPc = "apply"
    /\ applied' = [applied EXCEPT ![resp.type] = resp.rev]
    /\ accepted' = [accepted EXCEPT ![resp.type] = resp.version]
    /\ cliPc' = "ack"
    /\ UNCHANGED <<storeVars, watch, serverVars, conn, toAgent, toServer, streams,
                   resp, resolver, failures>>

\* Fault: a failed apply forgets the applied half.
ApplyFailsForgets ==
    /\ cliPc = "apply"
    /\ failures < MaxFailures
    /\ failures' = failures + 1
    /\ cliPc' = "nack"
    /\ applied' = [applied EXCEPT ![resp.type] = 0]
    /\ UNCHANGED <<storeVars, watch, serverVars, conn, toAgent, toServer, streams,
                   resp, accepted, resolver>>

\* A decode, contract or map-write error: applied and accepted are held.
ApplyFails ==
    /\ cliPc = "apply"
    /\ failures < MaxFailures
    /\ failures' = failures + 1
    /\ cliPc' = "nack"
    /\ UNCHANGED <<storeVars, watch, serverVars, conn, toAgent, toServer, streams,
                   resp, applied, accepted, resolver>>

\* Send returns nil; on a stream the agent does not yet know is broken the
\* request is lost.
Deliver(req) ==
    toServer' = IF conn = "open" THEN Append(toServer, req) ELSE toServer

\* The ACK: the control plane may act on it before postApply has run.
SendAck ==
    /\ cliPc = "ack"
    /\ conn # "down"
    /\ Deliver([type |-> resp.type, version |-> resp.version,
                nonce |-> resp.nonce, error |-> FALSE])
    /\ cliPc' = "post"
    /\ resp' = NoResponse
    /\ UNCHANGED <<storeVars, watch, serverVars, conn, toAgent, streams,
                   applied, accepted, resolver, failures>>

\* Fault: the hook runs and the resolver keeps its table.
PostApplyDropped ==
    /\ cliPc = "post"
    /\ cliPc' = "recv"
    /\ UNCHANGED <<storeVars, watch, serverVars, conn, toAgent, toServer, streams,
                   resp, applied, accepted, resolver, failures>>

\* postApply, after the Send of an ACK returned nil: the proxy's resolver gets
\* the whole set of applied identities, whichever half the push was of.
PostApply ==
    /\ cliPc = "post"
    /\ resolver' = applied["EDS"]
    /\ cliPc' = "recv"
    /\ UNCHANGED <<storeVars, watch, serverVars, conn, toAgent, toServer, streams,
                   resp, applied, accepted, failures>>

\* The NACK carries the last accepted version; postApply does not run.
SendNack ==
    /\ cliPc = "nack"
    /\ conn # "down"
    /\ Deliver([type |-> resp.type, version |-> accepted[resp.type],
                nonce |-> resp.nonce, error |-> TRUE])
    /\ cliPc' = "recv"
    /\ resp' = NoResponse
    /\ UNCHANGED <<storeVars, watch, serverVars, conn, toAgent, streams,
                   applied, accepted, resolver, failures>>

\* Send fails: handle returns before postApply, runStream ends.
SendFails ==
    /\ cliPc \in {"ack", "nack"}
    /\ conn = "closing"
    /\ conn' = "down"
    /\ toAgent' = <<>>
    /\ cliPc' = "recv"
    /\ resp' = NoResponse
    /\ UNCHANGED <<storeVars, watch, serverVars, toServer, streams,
                   applied, accepted, resolver, failures>>

-----------------------------------------------------------------------------

Server == \/ AcceptStream \/ OnSubscribe \/ OnSettle \/ OnStale \/ OnWatch
          \/ ReadResources \/ SendResponse

Client == \/ OpenStream \/ Recv \/ RecvFails \/ ApplyOk \/ ApplyFails
          \/ SendAck \/ PostApply \/ SendNack \/ SendFails

\* Everything delivered and handled: both loops block until the next change.
Idle ==
    /\ unnotified = 0 /\ ~watch
    /\ conn = "open" /\ srvPc = "select" /\ cliPc = "recv"
    /\ toAgent = <<>> /\ toServer = <<>>
    /\ UNCHANGED vars

Next == \/ \E t \in Types : Mutate(t)
        \/ Notify
        \/ BreakStream
        \/ Server
        \/ Client
        \/ Idle

Spec == Init /\ [][Next]_vars

\* The writer goroutine, the stream loop and the client loop are each
\* scheduled; nobody owes the system a mutation, a broken stream or a failure.
Fairness == WF_vars(Notify) /\ WF_vars(Server) /\ WF_vars(Client)

FairSpec == Spec /\ Fairness

-----------------------------------------------------------------------------
(* Properties.                                                             *)

\* Every variable keeps the type its Go field has.
TypeOK ==
    /\ store \in [Types -> Nat]
    /\ unnotified \in Nat
    /\ watch \in BOOLEAN
    /\ srvPc \in {"none", "select", "read", "send"}
    /\ subscribed \subseteq Types
    /\ toPush \in Seq(Types)
    /\ resources \in Nat
    /\ ts \in [Types -> TypeState]
    /\ nonceSeq \in Nat
    /\ pushed \in [Types -> Nat]
    /\ conn \in {"down", "open", "closing"}
    /\ toAgent \in Seq(Response)
    /\ toServer \in Seq(Request)
    /\ streams \in Nat
    /\ cliPc \in {"recv", "apply", "ack", "post", "nack"}
    /\ resp \in Response
    /\ applied \in [Types -> Nat]
    /\ accepted \in [Types -> Nat]
    /\ resolver \in Nat
    /\ failures \in Nat

\* The push in progress will still send the current content of t.
WillPush(t) ==
    \E i \in DOMAIN toPush :
        toPush[i] = t /\ (i > 1 \/ srvPc = "read" \/ resources = store[t])

\* The coalescing Watch seam loses no change (doc.go:33-37): whenever the last
\* push of a subscribed type is not the Store's current content, a wake-up is
\* buffered, a writer has yet to notify, or the running push will pick it up.
NoLostUpdate ==
    \A t \in subscribed :
        pushed[t] # store[t] => watch \/ unnotified > 0 \/ WillPush(t)

\* What an ACK tells the control plane (versioning.go:80-105): when the accepted
\* version of a type is its latest pushed version, the agent holds exactly the
\* content of that push.  The ACK goes out before postApply (client.go:179-188),
\* so it says of the proxy's resolver only that it has been given the identities
\* unless the hook of an ACKed push is still to run.
AckMeansApplied ==
    \A t \in Types :
        ts[t].sentVersion > 0 /\ ts[t].ackedVersion = ts[t].sentVersion =>
            /\ applied[t] = pushed[t]
            /\ t = "EDS" => resolver = pushed[t] \/ cliPc = "post"

\* The channel implements its promise: the agent never runs a content the Store
\* did not have and never goes back to an earlier one, through coalesced events,
\* failed applies, broken streams and reconnects.
Sync == INSTANCE ConfigSync WITH Types <- Types, store <- store, applied <- applied
ImplementsConfigSync == Sync!Spec

\* The latest content of t was pushed on this stream and the agent refused it:
\* the server holds last-known-good and re-pushes only on the next change.
Rejected(t) ==
    /\ pushed[t] = store[t]
    /\ ~ts[t].hasOutstanding
    /\ ts[t].ackedVersion < ts[t].sentVersion

\* Once changes and failures stop, the agent ends up with the current content of
\* each half, except a half whose current content it has NACKed.
Converges == \A t \in Types : <>[](applied[t] = store[t] \/ Rejected(t))

\* An ACK lost with its stream costs the proxy nothing in the end: its resolver
\* ends up with the applied identities unless the agent refuses everything.
ProxyCatchesUp == <>[](resolver = applied["EDS"] \/ \A t \in Types : Rejected(t))

=============================================================================
