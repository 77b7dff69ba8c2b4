---------------------------- MODULE SvidRotation ----------------------------
(***************************************************************************)
(* The life of the node's SVID: the rotation loop of SVIDManager           *)
(* (internal/agent/svid/manager.go), the Store it writes (svid/store.go),  *)
(* the callers of ForceRotate and GetSVID, and the streams of the Workload *)
(* API (internal/agent/workloadapi/server.go).  The proxy's TLS callbacks  *)
(* take the current SVID as it is.                                         *)
(*                                                                         *)
(* An SVID is abstracted to its age in ticks.  Timers are urgent: time     *)
(* does not pass while a timer is due, nor while a Sign call has used up   *)
(* the HTTP client's timeout.  A subscriber's copy of an SVID is only      *)
(* known to be the latest one or an old one.                               *)
(***************************************************************************)
EXTENDS Integers

CONSTANTS
    Callers,    \* requests to POST /cert/rotate that may run at once
    Readers,    \* callers of GetSVID
    Watchers,   \* Workload API streams
    None,
    TTL,        \* ticks an SVID is valid from its issue (SVIDTTL)
    ClockSkew,  \* ticks that NotBefore is backdated
    MaxSign,    \* ticks a Sign call may take
    Backoff     \* ticks to wait after a failed Sign

ASSUME ConstantsAssumption ==
    /\ TTL \in Nat /\ ClockSkew \in Nat /\ MaxSign \in Nat /\ Backoff \in Nat
    /\ 8 * MaxSign + ClockSkew <= TTL /\ TTL > 0
    /\ None \notin Callers

VARIABLES
    pc,         \* where the rotation loop is
    timer,      \* ticks until the armed timer fires
    signing,    \* ticks that the Sign call has taken
    req,        \* the caller whose request is being served, None if none waits
    issued,     \* the Store holds an SVID
    age,        \* the age of the Store's current SVID
    up,         \* the control plane can be reached and signs
    caller,     \* callers of ForceRotate
    reader,     \* callers of GetSVID
    watcher,    \* subscribers: registered, channel, SVID last received
    failed      \* history: Sign failures since the current SVID was issued

loopVars == <<pc, timer, signing, req>>
vars == <<pc, timer, signing, req, issued, age, up, caller, reader, watcher, failed>>

Min2(m, n) == IF m <= n THEN m ELSE n

-----------------------------------------------------------------------------
(* Rotation arithmetic *)

Remaining(a) == TTL - a

\* Less than 1/6 of the lifetime NotBefore .. NotAfter remains.
nearExpiry(a) == 6 * Remaining(a) < TTL + ClockSkew

\* Fault: the rotation is due at the expiry.
nextRotateDelayLate(a) == Remaining(a)

\* 2/3 of the time that remains.
nextRotateDelay(a) == (2 * Remaining(a)) \div 3

-----------------------------------------------------------------------------
Init ==
    /\ pc = "start" /\ timer = 0 /\ signing = 0 /\ req = None
    /\ issued = FALSE /\ age = 0
    /\ up \in BOOLEAN
    /\ caller = [k \in Callers |-> [pc |-> "idle", fresh |-> FALSE]]
    /\ reader = [r \in Readers |-> [pc |-> "idle", age |-> 0]]
    /\ watcher = [w \in Watchers |-> [on |-> FALSE, buf |-> "none", held |-> "none"]]
    /\ failed = 0

-----------------------------------------------------------------------------
(* Store *)

\* A subscriber when the Store gets a new SVID: a full channel is skipped.
Notified(w) ==
    [w EXCEPT !.buf  = IF ~w.on THEN "none" ELSE IF @ = "none" THEN "latest" ELSE "old",
              !.held = IF @ = "none" THEN "none" ELSE "old"]

\* Set: replace the SVID and notify.  The control plane dated the SVID at some
\* moment of the Sign call.
Set ==
    /\ issued' = TRUE
    /\ age' \in 0 .. signing
    /\ failed' = 0
    /\ watcher' = [w \in Watchers |-> Notified(watcher[w])]

\* The loop's answer to the request it serves, if its caller still waits.
Reply(result) ==
    caller' = [k \in Callers |->
                 IF k = req THEN [caller[k] EXCEPT !.pc = result] ELSE caller[k]]

-----------------------------------------------------------------------------
(* SVIDManager.Start *)

\* The first issue succeeds; the loop arms its timer.
FirstIssue ==
    /\ pc = "start" /\ up
    /\ Set
    /\ pc' = "wait" /\ timer' = nextRotateDelay(age')
    /\ UNCHANGED <<signing, req, up, caller, reader>>

\* The first issue fails: Start returns the error.
FirstIssueFails ==
    /\ pc = "start" /\ ~up
    /\ pc' = "stopped"
    /\ UNCHANGED <<timer, signing, req, issued, age, up, caller, reader, watcher, failed>>

\* The rotation timer fires.
TimerFires ==
    /\ pc = "wait" /\ timer = 0
    /\ pc' = "issue" /\ signing' = 0
    /\ UNCHANGED <<timer, req, issued, age, up, caller, reader, watcher, failed>>

\* The loop receives a forced rotation and stops its timer.
TakeForce(k) ==
    /\ pc = "wait" /\ caller[k].pc = "offer"
    /\ pc' = "issue" /\ signing' = 0 /\ req' = k
    /\ caller' = [caller EXCEPT ![k].pc = "await"]
    /\ UNCHANGED <<timer, issued, age, up, reader, watcher, failed>>

\* Sign succeeds: Set.  Requests made before it are from now on served by a new SVID.
IssueOk ==
    /\ pc = "issue" /\ up
    /\ Set
    /\ caller' = [k \in Callers |->
                    [caller[k] EXCEPT !.fresh = @ \/ caller[k].pc \in {"offer", "await"}]]
    /\ pc' = "reply"
    /\ UNCHANGED <<timer, signing, req, up, reader>>

\* The reply, and the timer for the new SVID.
ReplyOk ==
    /\ pc = "reply"
    /\ Reply("ok")
    /\ pc' = "wait" /\ timer' = nextRotateDelay(age) /\ req' = None
    /\ UNCHANGED <<signing, issued, age, up, reader, watcher, failed>>

\* Fault: a caller is told of success whatever came of the Sign call.
IssueFailsRepliesOk ==
    /\ pc = "issue" /\ ~up
    /\ Reply("ok")
    /\ pc' = "backoff" /\ timer' = Backoff /\ req' = None
    /\ failed' = Min2(failed + 1, 2)
    /\ UNCHANGED <<signing, issued, age, up, reader, watcher>>

\* Fault: a failed rotation ends the loop.
IssueFailsForGood ==
    /\ pc = "issue" /\ ~up
    /\ Reply("err")
    /\ pc' = "stopped" /\ timer' = Backoff /\ req' = None
    /\ failed' = Min2(failed + 1, 2)
    /\ UNCHANGED <<signing, issued, age, up, reader, watcher>>

\* Fault: the error is logged and the caller is not told.
IssueFailsSilent ==
    /\ pc = "issue" /\ ~up
    /\ pc' = "backoff" /\ timer' = Backoff /\ req' = None
    /\ failed' = Min2(failed + 1, 2)
    /\ UNCHANGED <<signing, issued, age, up, caller, reader, watcher>>

\* Sign fails: reply, and a fixed pause in which no request is taken.
IssueFails ==
    /\ pc = "issue" /\ ~up
    /\ Reply("err")
    /\ pc' = "backoff" /\ timer' = Backoff /\ req' = None
    /\ failed' = Min2(failed + 1, 2)
    /\ UNCHANGED <<signing, issued, age, up, reader, watcher>>

\* The pause is over: the loop goes round and computes its delay anew.
Resume ==
    /\ pc = "backoff" /\ timer = 0
    /\ pc' = "wait" /\ timer' = nextRotateDelay(age)
    /\ UNCHANGED <<signing, req, issued, age, up, caller, reader, watcher, failed>>

\* The agent shuts down: the loop returns from either of its waits.
Cancel ==
    /\ pc \in {"wait", "backoff"}
    /\ pc' = "done"
    /\ UNCHANGED <<timer, signing, req, issued, age, up, caller, reader, watcher, failed>>

-----------------------------------------------------------------------------
(* ForceRotate, GetSVID *)

ForceRotate(k) ==
    /\ caller[k].pc = "idle"
    /\ caller' = [caller EXCEPT ![k] = [pc |-> "offer", fresh |-> FALSE]]
    /\ UNCHANGED <<loopVars, issued, age, up, reader, watcher, failed>>

\* The caller's context ends, before the loop took the request or after; in the
\* second case the reply will go to a channel nobody reads.
ForceTimesOut(k) ==
    /\ caller[k].pc \in {"offer", "await"}
    /\ caller' = [caller EXCEPT ![k].pc = "err"]
    /\ req' = IF req = k THEN None ELSE req
    /\ UNCHANGED <<pc, timer, signing, issued, age, up, reader, watcher, failed>>

ForceReturns(k) ==
    /\ caller[k].pc \in {"ok", "err"}
    /\ caller' = [caller EXCEPT ![k].pc = "idle"]
    /\ UNCHANGED <<loopVars, issued, age, up, reader, watcher, failed>>

\* GetSVID, first half: read the current SVID; without one it fails.
GetSVID(r) ==
    /\ reader[r].pc # "have"
    /\ reader' = [reader EXCEPT
         ![r] = IF issued THEN [pc |-> "have", age |-> age] ELSE [pc |-> "idle", age |-> 0]]
    /\ UNCHANGED <<loopVars, issued, age, up, caller, watcher, failed>>

\* Fault: the check refuses from the time on at which the rotation is due.
CheckSVIDEarly(r) ==
    /\ reader[r].pc = "have"
    /\ reader' = [reader EXCEPT
         ![r] = [pc |-> IF 3 * Remaining(reader[r].age) < TTL + ClockSkew THEN "idle" ELSE "served",
                 age |-> 0]]
    /\ UNCHANGED <<loopVars, issued, age, up, caller, watcher, failed>>

\* GetSVID, second half: nearExpiry on the SVID that was read.
CheckSVID(r) ==
    /\ reader[r].pc = "have"
    /\ reader' = [reader EXCEPT
         ![r] = [pc |-> IF nearExpiry(reader[r].age) THEN "idle" ELSE "served", age |-> 0]]
    /\ UNCHANGED <<loopVars, issued, age, up, caller, watcher, failed>>

-----------------------------------------------------------------------------
(* The Workload API *)

\* Fault: a new subscriber waits for the next rotation.
SubscribeEmpty(w) ==
    /\ ~watcher[w].on
    /\ watcher' = [watcher EXCEPT ![w] = [on |-> TRUE, buf |-> "none", held |-> "none"]]
    /\ UNCHANGED <<loopVars, issued, age, up, caller, reader, failed>>

\* A stream opens: the channel starts with the current SVID, if there is one.
Subscribe(w) ==
    /\ ~watcher[w].on
    /\ watcher' = [watcher EXCEPT
         ![w] = [on |-> TRUE, buf |-> IF issued THEN "latest" ELSE "none", held |-> "none"]]
    /\ UNCHANGED <<loopVars, issued, age, up, caller, reader, failed>>

\* FetchX509SVID receives from its channel and sends to the workload.
Push(w) ==
    /\ watcher[w].on /\ watcher[w].buf # "none"
    /\ watcher' = [watcher EXCEPT ![w].held = watcher[w].buf, ![w].buf = "none"]
    /\ UNCHANGED <<loopVars, issued, age, up, caller, reader, failed>>

Unsubscribe(w) ==
    /\ watcher[w].on
    /\ watcher' = [watcher EXCEPT ![w] = [on |-> FALSE, buf |-> "none", held |-> "none"]]
    /\ UNCHANGED <<loopVars, issued, age, up, caller, reader, failed>>

-----------------------------------------------------------------------------
\* The control plane goes away or comes back.
Reachability ==
    /\ up' = ~up
    /\ UNCHANGED <<loopVars, issued, age, caller, reader, watcher, failed>>

Tick ==
    /\ pc \in {"wait", "backoff"} => timer > 0
    /\ pc \in {"start", "issue"} => signing < MaxSign
    /\ pc # "reply"
    /\ timer' = IF pc \in {"wait", "backoff"} THEN timer - 1 ELSE timer
    /\ signing' = IF pc \in {"start", "issue"} THEN signing + 1 ELSE signing
    /\ age' = IF issued THEN Min2(age + 1, TTL) ELSE age
    /\ reader' = [r \in Readers |->
                    IF reader[r].pc = "have" THEN [reader[r] EXCEPT !.age = Min2(@ + 1, TTL)]
                                             ELSE reader[r]]
    /\ UNCHANGED <<pc, req, issued, up, caller, watcher, failed>>

Loop ==
    \/ FirstIssue \/ FirstIssueFails
    \/ TimerFires \/ (\E k \in Callers : TakeForce(k))
    \/ IssueOk \/ ReplyOk \/ IssueFails \/ Resume

Next ==
    \/ Loop
    \/ \E k \in Callers : ForceRotate(k) \/ ForceTimesOut(k) \/ ForceReturns(k)
    \/ \E r \in Readers : GetSVID(r) \/ CheckSVID(r)
    \/ \E w \in Watchers : Subscribe(w) \/ Push(w) \/ Unsubscribe(w)
    \/ Cancel \/ Reachability \/ Tick

Spec == Init /\ [][Next]_vars

\* Time passes, the loop's goroutine runs when it can, and a stream's goroutine
\* takes what its channel holds.
FairSpec ==
    /\ Spec
    /\ WF_vars(Loop) /\ WF_vars(Tick)
    /\ \A w \in Watchers : WF_vars(Push(w))

-----------------------------------------------------------------------------
(* Properties *)

TypeOK ==
    /\ pc \in {"start", "wait", "issue", "reply", "backoff", "stopped", "done"}
    /\ timer \in 0 .. Backoff + TTL /\ signing \in 0 .. MaxSign
    /\ req \in Callers \cup {None}
    /\ issued \in BOOLEAN /\ age \in 0 .. TTL /\ up \in BOOLEAN
    /\ caller \in [Callers -> [pc : {"idle", "offer", "await", "ok", "err"}, fresh : BOOLEAN]]
    /\ reader \in [Readers -> [pc : {"idle", "have", "served"}, age : 0 .. TTL]]
    /\ watcher \in [Watchers -> [on : BOOLEAN, buf : {"none", "latest", "old"},
                                 held : {"none", "latest", "old"}]]
    /\ failed \in 0 .. 2

\* While the agent runs and no Sign call has failed, the current SVID never gets near its expiry, with
\* the time a call may take and with any number of forced rotations
\* (manager.go Start: make-before-break).
HealthyNeverNear == issued /\ pc # "done" /\ failed = 0 => ~nearExpiry(age)

\* Rotation never takes the SVID away from its users: there is one from the first
\* issue on, and GetSVID refuses the one it read only if a Sign call has failed
\* since, the agent stops, or the loop has replaced it between the read and the
\* check (manager.go Start: make-before-break; GetSVID reads, then checks).
HealthyIsServed ==
    [][/\ issued => issued'
       /\ \A r \in Readers :
            reader[r].pc = "have" /\ reader'[r].pc = "idle"
            => failed > 0 \/ pc = "done" \/ reader[r].age # age]_vars

\* A ForceRotate that reports success was served by a rotation that happened after
\* the call (manager.go ForceRotate and the loop's replies).
ForcedIsFresh == \A k \in Callers : caller[k].pc = "ok" => caller[k].fresh

\* The loop owes an answer to exactly the callers that wait for one: the one it
\* works for, and only while it works (manager.go rotateRequest).
NoCallerStranded ==
    \A k \in Callers : caller[k].pc = "await" <=> (req = k /\ pc \in {"issue", "reply"})

\* Once the control plane stays reachable, the SVID is fresh for ever, unless the
\* manager never got a first one or the agent shuts down (manager.go Start: retry
\* and re-computed delay).
Fresh == issued /\ 6 * Remaining(age) >= TTL + ClockSkew
NeverStarted == pc = "stopped" /\ ~issued
RotationRecovers == <>[]up => (<>[]Fresh \/ <>[]NeverStarted \/ <>(pc = "done"))

\* A stream that stays open gets an SVID once there is one, whether it opens before
\* or after the first issue (store.go Subscribe).  And one that missed a rotation
\* because its channel was full is not left behind: while rotations go on, the
\* latest SVID is put into its channel again and again (store.go Set).
StreamGetsSVID ==
    \A w \in Watchers :
        /\ watcher[w].on /\ issued ~> watcher[w].held # "none" \/ ~watcher[w].on
        /\ <>[](up /\ watcher[w].on) =>
             []<>(watcher[w].buf = "latest") \/ <>[]NeverStarted \/ <>(pc = "done")

=============================================================================
