---------------------------- MODULE OutboundProxy ----------------------------
(***************************************************************************)
(* The outbound side of the node proxy: the goroutines of                  *)
(* OutboundHandler.handle (internal/proxy/outbound.go), one per intercepted *)
(* connection, and the circuit breaker of each upstream node               *)
(* (internal/proxy/circuit_breaker.go).                                    *)
(*                                                                         *)
(* Every call of a breaker is atomic: it runs under its mutex.  Between    *)
(* Allow and the call that records the outcome lie the dial, the check of  *)
(* the peer and the whole life of the tunnel, so outcomes arrive late and  *)
(* in any order.  Time is counted in ticks; openedAt is kept as the time   *)
(* that has passed since, which Allow only compares with ResetAfter and    *)
(* which is therefore capped there.                                        *)
(***************************************************************************)
EXTENDS Naturals

CONSTANTS
    Conns,      \* connections that may be handled at the same time
    Upstreams,  \* addresses of destination nodes
    Threshold,  \* consecutive errors before opening
    ResetAfter  \* ticks to stay open before a probe

ASSUME ProxyAssumption == Threshold \in Nat \ {0} /\ ResetAfter \in Nat \ {0}

VARIABLES
    state,              \* closed, open or half (CBState)
    consecutiveErrors,
    openFor,            \* time since openedAt
    conn,               \* where the goroutine of a connection is
    upstream,           \* the address the connection goes to
    probe,              \* it was let through by a breaker that was open
    sinceProbe,         \* history: time since the last probe was let through
    run                 \* history: failures recorded since the last success

breakers == <<state, consecutiveErrors, openFor>>
proxyVars == <<state, consecutiveErrors, openFor, conn, upstream, probe, sinceProbe, run>>

AtMost(n, bound) == IF n <= bound THEN n ELSE bound

-----------------------------------------------------------------------------
\* A breaker is made closed, on the first connection to its address.
ProxyInit ==
    /\ state = [u \in Upstreams |-> "closed"]
    /\ consecutiveErrors = [u \in Upstreams |-> 0]
    /\ openFor = [u \in Upstreams |-> ResetAfter]
    /\ conn = [c \in Conns |-> "idle"]
    /\ upstream \in [Conns -> Upstreams]
    /\ probe = [c \in Conns |-> FALSE]
    /\ sinceProbe = [u \in Upstreams |-> ResetAfter]
    /\ run = [u \in Upstreams |-> 0]

-----------------------------------------------------------------------------
(* CircuitBreaker *)

\* Fault: a success does not clear the error count.
RecordSuccessKeepingErrors(u) ==
    /\ consecutiveErrors' = consecutiveErrors
    /\ state' = [state EXCEPT ![u] = "closed"]
    /\ run' = [run EXCEPT ![u] = 0]
    /\ UNCHANGED openFor

RecordSuccess(u) ==
    /\ consecutiveErrors' = [consecutiveErrors EXCEPT ![u] = 0]
    /\ state' = [state EXCEPT ![u] = "closed"]
    /\ run' = [run EXCEPT ![u] = 0]
    /\ UNCHANGED openFor

\* Fault: only a trip from closed notes the time.
RecordFailureKeepingTime(u) ==
    LET errors == consecutiveErrors[u] + 1
        opens  == state[u] = "half" \/ errors >= Threshold
    IN  /\ consecutiveErrors' = [consecutiveErrors EXCEPT ![u] = IF opens THEN 0 ELSE errors]
        /\ state' = [state EXCEPT ![u] = IF opens THEN "open" ELSE @]
        /\ openFor' = [openFor EXCEPT ![u] = IF opens /\ state[u] = "closed" THEN 0 ELSE @]
        /\ run' = [run EXCEPT ![u] = AtMost(@ + 1, Threshold)]

RecordFailure(u) ==
    LET errors == consecutiveErrors[u] + 1
        opens  == state[u] = "half" \/ errors >= Threshold
    IN  /\ consecutiveErrors' = [consecutiveErrors EXCEPT ![u] = IF opens THEN 0 ELSE errors]
        /\ state' = [state EXCEPT ![u] = IF opens THEN "open" ELSE @]
        /\ openFor' = [openFor EXCEPT ![u] = IF opens THEN 0 ELSE @]
        /\ run' = [run EXCEPT ![u] = AtMost(@ + 1, Threshold)]

-----------------------------------------------------------------------------
(* OutboundHandler.handle *)

\* A connection arrives and its original destination is known.  (When Resolve
\* fails the connection is closed before anything is touched.)
Resolve(c, u) ==
    /\ conn[c] = "idle"
    /\ conn' = [conn EXCEPT ![c] = "allow"]
    /\ upstream' = [upstream EXCEPT ![c] = u]
    /\ UNCHANGED <<breakers, probe, sinceProbe, run>>

\* Allow with the breaker closed.
AllowClosed(c) ==
    /\ conn[c] = "allow" /\ state[upstream[c]] = "closed"
    /\ conn' = [conn EXCEPT ![c] = "dial"]
    /\ probe' = [probe EXCEPT ![c] = FALSE]
    /\ UNCHANGED <<breakers, upstream, sinceProbe, run>>

\* Allow with the reset window over: the caller is the probe.
AllowProbe(c) ==
    LET u == upstream[c] IN
    /\ conn[c] = "allow" /\ state[u] = "open" /\ openFor[u] >= ResetAfter
    /\ state' = [state EXCEPT ![u] = "half"]
    /\ conn' = [conn EXCEPT ![c] = "dial"]
    /\ probe' = [probe EXCEPT ![c] = TRUE]
    /\ sinceProbe' = [sinceProbe EXCEPT ![u] = 0]
    /\ UNCHANGED <<consecutiveErrors, openFor, upstream, run>>

\* Fault: a connection that was turned away counts as a failure.
RejectCounted(c) ==
    LET u == upstream[c] IN
    /\ conn[c] = "allow"
    /\ state[u] = "half" \/ (state[u] = "open" /\ openFor[u] < ResetAfter)
    /\ RecordFailure(u)
    /\ conn' = [conn EXCEPT ![c] = "idle"]
    /\ UNCHANGED <<upstream, probe, sinceProbe>>

\* Allow returns ErrCircuitOpen and the connection is closed.
Reject(c) ==
    LET u == upstream[c] IN
    /\ conn[c] = "allow"
    /\ state[u] = "half" \/ (state[u] = "open" /\ openFor[u] < ResetAfter)
    /\ conn' = [conn EXCEPT ![c] = "idle"]
    /\ UNCHANGED <<breakers, upstream, probe, sinceProbe, run>>

\* The TCP and TLS connection to the remote proxy stands.
Dial(c) ==
    /\ conn[c] = "dial"
    /\ conn' = [conn EXCEPT ![c] = "verify"]
    /\ UNCHANGED <<breakers, upstream, probe, sinceProbe, run>>

DialFails(c) ==
    /\ conn[c] = "dial"
    /\ RecordFailure(upstream[c])
    /\ conn' = [conn EXCEPT ![c] = "idle"]
    /\ UNCHANGED <<upstream, probe, sinceProbe>>

\* The peer's SPIFFE ID is the expected one, or none is known for the identity.
Verify(c) ==
    /\ conn[c] = "verify"
    /\ conn' = [conn EXCEPT ![c] = "copy"]
    /\ UNCHANGED <<breakers, upstream, probe, sinceProbe, run>>

\* Fault: a refused peer closes the connection without recording anything.
VerifyFailsUnrecorded(c) ==
    /\ conn[c] = "verify"
    /\ conn' = [conn EXCEPT ![c] = "idle"]
    /\ UNCHANGED <<breakers, upstream, probe, sinceProbe, run>>

\* The peer has no SPIFFE ID, or not the one registered for the identity.
VerifyFails(c) ==
    /\ conn[c] = "verify"
    /\ RecordFailure(upstream[c])
    /\ conn' = [conn EXCEPT ![c] = "idle"]
    /\ UNCHANGED <<upstream, probe, sinceProbe>>

\* One direction of the tunnel ends, with EOF or because it was closed.
CopyEnds(c) ==
    /\ conn[c] = "copy"
    /\ RecordSuccess(upstream[c])
    /\ conn' = [conn EXCEPT ![c] = "idle"]
    /\ UNCHANGED <<upstream, probe, sinceProbe>>

\* One direction of the tunnel breaks.
CopyFails(c) ==
    /\ conn[c] = "copy"
    /\ RecordFailure(upstream[c])
    /\ conn' = [conn EXCEPT ![c] = "idle"]
    /\ UNCHANGED <<upstream, probe, sinceProbe>>

\* Time passes.
ProxyTick ==
    /\ openFor' = [u \in Upstreams |-> AtMost(openFor[u] + 1, ResetAfter)]
    /\ sinceProbe' = [u \in Upstreams |-> AtMost(sinceProbe[u] + 1, ResetAfter)]
    /\ UNCHANGED <<state, consecutiveErrors, conn, upstream, probe, run>>

\* What the goroutine of c does before its tunnel stands, and while it does.
Connect(c) ==
    \/ AllowClosed(c) \/ AllowProbe(c) \/ Reject(c)
    \/ Dial(c) \/ DialFails(c)
    \/ Verify(c) \/ VerifyFails(c)

Tunnel(c) == CopyEnds(c) \/ CopyFails(c)

ProxyNext ==
    \/ \E c \in Conns : Connect(c) \/ Tunnel(c) \/ \E u \in Upstreams : Resolve(c, u)
    \/ ProxyTick

ProxySpec == ProxyInit /\ [][ProxyNext]_proxyVars

\* Time passes and no goroutine stays in Allow, in the dial (TCP gives up in
\* the end) or in the check.  How long a tunnel lives is up to the workloads.
FairProxySpec ==
    /\ ProxySpec
    /\ WF_proxyVars(ProxyTick)
    /\ \A c \in Conns : WF_proxyVars(Connect(c))

\* Tunnels end, and workloads keep connecting to every upstream.
BusySpec ==
    /\ FairProxySpec
    /\ \A c \in Conns : WF_proxyVars(Tunnel(c))
    /\ \A u \in Upstreams : SF_proxyVars(\E c \in Conns : Resolve(c, u))

-----------------------------------------------------------------------------
(* Properties *)

ProxyTypeOK ==
    /\ state \in [Upstreams -> {"closed", "open", "half"}]
    /\ consecutiveErrors \in [Upstreams -> 0 .. Threshold - 1]
    /\ openFor \in [Upstreams -> 0 .. ResetAfter]
    /\ conn \in [Conns -> {"idle", "allow", "dial", "verify", "copy"}]
    /\ upstream \in [Conns -> Upstreams]
    /\ probe \in [Conns -> BOOLEAN]
    /\ sinceProbe \in [Upstreams -> 0 .. ResetAfter]
    /\ run \in [Upstreams -> 0 .. Threshold]

\* Connections whose outcome is still to be recorded.
InFlight(u) == {c \in Conns : upstream[c] = u /\ conn[c] \in {"dial", "verify", "copy"}}

\* A breaker that turns everyone away as half-open has a probe under way that
\* will decide it: no path through handle from Allow forgets to record an outcome,
\* and no late outcome of an older connection leaves it half-open (outbound.go,
\* the returns of handle after Allow).
HalfOpenHasProbe ==
    \A u \in Upstreams : state[u] = "half" => \E c \in InFlight(u) : probe[c]

\* Between two probes of the same upstream lies at least ResetAfter, also when
\* late failures of older connections reopen the breaker around the first one
\* (circuit_breaker.go RecordFailure, which restarts the window).
ProbesSpaced ==
    [][\A u \in Upstreams :
         state[u] = "open" /\ state'[u] = "half" => sinceProbe[u] >= ResetAfter]_proxyVars

\* A closed breaker trips only on Threshold failures in a row: errors recorded
\* while it was open, or before the last success, do not add up
\* (circuit_breaker.go consecutiveErrors).
TripsOnlyOnRun ==
    [][\A u \in Upstreams :
         state[u] = "closed" /\ state'[u] = "open" => run'[u] >= Threshold]_proxyVars

\* With workloads that keep connecting and tunnels that end, a breaker never stays
\* open: late failures cannot push the window away for ever (circuit_breaker.go
\* Allow and RecordFailure).
NeverOpenForever == \A u \in Upstreams : []<>(state[u] # "open")

=============================================================================
