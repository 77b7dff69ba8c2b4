-------------------------- MODULE NodeProxyProofs --------------------------
(***************************************************************************)
(* Proofs about the two state machines of a node proxy.  SvidRotation: for *)
(* every lifetime, clock skew, pause and time limit of a Sign call that    *)
(* satisfy its ConstantsAssumption, and for any number of callers, readers *)
(* and streams.  OutboundProxy: for any number of connections and          *)
(* upstreams, any threshold and any reset window.                          *)
(***************************************************************************)
EXTENDS OutboundProxy, SvidRotation, TLAPS

USE DEF Min2

\* The delay that nextRotateDelay computes is at most 2/3 of what remains.
LEMMA DelayBound ==
    ASSUME NEW a \in 0 .. TTL
    PROVE  /\ nextRotateDelay(a) \in 0 .. TTL
           /\ 3 * nextRotateDelay(a) <= 2 * (TTL - a)
  BY ConstantsAssumption DEF nextRotateDelay, Remaining

-----------------------------------------------------------------------------
(* Types *)

\* The parts of TypeOK, grouped by who changes them.
LoopOK ==
    /\ pc \in {"start", "wait", "issue", "reply", "backoff", "stopped", "done"}
    /\ timer \in 0 .. Backoff + TTL /\ signing \in 0 .. MaxSign
    /\ req \in Callers \cup {None}
    /\ issued \in BOOLEAN /\ age \in 0 .. TTL /\ up \in BOOLEAN
    /\ failed \in 0 .. 2

CallerOK ==
    caller \in [Callers -> [pc : {"idle", "offer", "await", "ok", "err"}, fresh : BOOLEAN]]

ReaderOK ==
    reader \in [Readers -> [pc : {"idle", "have", "served"}, age : 0 .. TTL]]

WatcherOK ==
    watcher \in [Watchers -> [on : BOOLEAN, buf : {"none", "latest", "old"},
                              held : {"none", "latest", "old"}]]

LEMMA TypeParts == TypeOK <=> LoopOK /\ CallerOK /\ ReaderOK /\ WatcherOK
  BY DEF TypeOK, LoopOK, CallerOK, ReaderOK, WatcherOK

\* Set stores an SVID that is younger than the Sign call that got it.
LEMMA SetOK ==
    ASSUME LoopOK, WatcherOK, Set
    PROVE  age' \in 0 .. TTL /\ age' <= MaxSign /\ failed' = 0 /\ issued' = TRUE /\ WatcherOK'
  <1>1. age' \in 0 .. TTL /\ age' <= MaxSign /\ failed' = 0 /\ issued' = TRUE
    BY ConstantsAssumption DEF LoopOK, Set
  <1>2. WatcherOK'
    BY DEF WatcherOK, Set, Notified
  <1> QED BY <1>1, <1>2

LEMMA TypeNext == TypeOK /\ [Next]_vars => TypeOK'
  <1> SUFFICES ASSUME LoopOK, CallerOK, ReaderOK, WatcherOK, [Next]_vars
               PROVE  LoopOK' /\ CallerOK' /\ ReaderOK' /\ WatcherOK'
    BY DEF TypeOK, LoopOK, CallerOK, ReaderOK, WatcherOK
  <1>1. CASE FirstIssue
    <2>0. age' \in 0 .. TTL /\ failed' = 0 /\ issued' = TRUE BY <1>1, SetOK DEF FirstIssue
    <2>1. nextRotateDelay(age') \in 0 .. TTL BY <2>0, DelayBound
    <2>2. LoopOK' BY <1>1, <2>0, <2>1, ConstantsAssumption DEF FirstIssue, LoopOK
    <2> QED BY <1>1, <2>2, SetOK DEF FirstIssue, CallerOK, ReaderOK
  <1>2. CASE FirstIssueFails
    BY <1>2 DEF FirstIssueFails, LoopOK, CallerOK, ReaderOK, WatcherOK
  <1>3. CASE TimerFires
    BY <1>3, ConstantsAssumption DEF TimerFires, LoopOK, CallerOK, ReaderOK, WatcherOK
  <1>4. ASSUME NEW k \in Callers, TakeForce(k) PROVE LoopOK' /\ CallerOK' /\ ReaderOK' /\ WatcherOK'
    BY <1>4, ConstantsAssumption DEF TakeForce, LoopOK, CallerOK, ReaderOK, WatcherOK
  <1>5. CASE IssueOk
    <2>0. age' \in 0 .. TTL /\ failed' = 0 /\ issued' = TRUE BY <1>5, SetOK DEF IssueOk
    <2>1. LoopOK' BY <1>5, <2>0, ConstantsAssumption DEF IssueOk, LoopOK
    <2>2. CallerOK' BY <1>5 DEF IssueOk, CallerOK
    <2> QED BY <1>5, <2>1, <2>2, SetOK DEF IssueOk, ReaderOK
  <1>6. CASE ReplyOk
    <2>1. nextRotateDelay(age) \in 0 .. TTL BY DelayBound DEF LoopOK
    <2>2. LoopOK' BY <1>6, <2>1, ConstantsAssumption DEF ReplyOk, LoopOK
    <2> QED BY <1>6, <2>2 DEF ReplyOk, Reply, CallerOK, ReaderOK, WatcherOK
  <1>7. CASE IssueFails
    <2>1. LoopOK' BY <1>7, ConstantsAssumption DEF IssueFails, LoopOK
    <2> QED BY <1>7, <2>1 DEF IssueFails, Reply, CallerOK, ReaderOK, WatcherOK
  <1>8. CASE Resume
    <2>1. nextRotateDelay(age) \in 0 .. TTL BY DelayBound DEF LoopOK
    <2>2. LoopOK' BY <1>8, <2>1, ConstantsAssumption DEF Resume, LoopOK
    <2> QED BY <1>8, <2>2 DEF Resume, CallerOK, ReaderOK, WatcherOK
  <1>9. ASSUME NEW k \in Callers, ForceRotate(k) \/ ForceTimesOut(k) \/ ForceReturns(k)
        PROVE  LoopOK' /\ CallerOK' /\ ReaderOK' /\ WatcherOK'
    <2>a. ASSUME ForceRotate(k) PROVE CallerOK'
      <3> DEFINE made == [pc |-> "offer", fresh |-> FALSE]
      <3>1. made \in [pc : {"idle", "offer", "await", "ok", "err"}, fresh : BOOLEAN]
        OBVIOUS
      <3>2. caller' = [caller EXCEPT ![k] = made] BY <2>a DEF ForceRotate
      <3> HIDE DEF made
      <3> QED BY <3>1, <3>2 DEF CallerOK
    <2>b. ASSUME ForceTimesOut(k) PROVE CallerOK' BY <2>b DEF ForceTimesOut, CallerOK
    <2>c. ASSUME ForceReturns(k) PROVE CallerOK' BY <2>c DEF ForceReturns, CallerOK
    <2>1. CallerOK' BY <1>9, <2>a, <2>b, <2>c
    <2>2. LoopOK' BY <1>9 DEF ForceRotate, ForceTimesOut, ForceReturns, loopVars, LoopOK
    <2>3. ReaderOK' /\ WatcherOK'
      BY <1>9 DEF ForceRotate, ForceTimesOut, ForceReturns, ReaderOK, WatcherOK
    <2> QED BY <2>1, <2>2, <2>3
  <1>10. ASSUME NEW r \in Readers, GetSVID(r) \/ CheckSVID(r)
         PROVE  LoopOK' /\ CallerOK' /\ ReaderOK' /\ WatcherOK'
    <2>1. ReaderOK' BY <1>10, ConstantsAssumption DEF GetSVID, CheckSVID, LoopOK, ReaderOK
    <2> QED BY <1>10, <2>1 DEF GetSVID, CheckSVID, loopVars, LoopOK, CallerOK, WatcherOK
  <1>11. ASSUME NEW w \in Watchers, Subscribe(w) \/ Push(w) \/ Unsubscribe(w)
         PROVE  LoopOK' /\ CallerOK' /\ ReaderOK' /\ WatcherOK'
    <2>a. ASSUME Subscribe(w) PROVE WatcherOK'
      <3> DEFINE new == [on |-> TRUE, buf |-> IF issued THEN "latest" ELSE "none", held |-> "none"]
      <3>1. new \in [on : BOOLEAN, buf : {"none", "latest", "old"}, held : {"none", "latest", "old"}]
        OBVIOUS
      <3>2. watcher' = [watcher EXCEPT ![w] = new] BY <2>a DEF Subscribe
      <3> HIDE DEF new
      <3> QED BY <3>1, <3>2 DEF WatcherOK
    <2>b. ASSUME Push(w) PROVE WatcherOK' BY <2>b DEF Push, WatcherOK
    <2>c. ASSUME Unsubscribe(w) PROVE WatcherOK'
      <3> DEFINE gone == [on |-> FALSE, buf |-> "none", held |-> "none"]
      <3>1. gone \in [on : BOOLEAN, buf : {"none", "latest", "old"}, held : {"none", "latest", "old"}]
        OBVIOUS
      <3>2. watcher' = [watcher EXCEPT ![w] = gone] BY <2>c DEF Unsubscribe
      <3> HIDE DEF gone
      <3> QED BY <3>1, <3>2 DEF WatcherOK
    <2>1. WatcherOK' BY <1>11, <2>a, <2>b, <2>c
    <2> QED BY <1>11, <2>1 DEF Subscribe, Push, Unsubscribe, loopVars, LoopOK, CallerOK, ReaderOK
  <1>12. CASE Cancel \/ Reachability
    BY <1>12 DEF Cancel, Reachability, loopVars, LoopOK, CallerOK, ReaderOK, WatcherOK
  <1>13. CASE Tick
    <2>1. LoopOK' BY <1>13, ConstantsAssumption DEF Tick, LoopOK
    <2>2. ReaderOK' BY <1>13, ConstantsAssumption DEF Tick, ReaderOK
    <2> QED BY <1>13, <2>1, <2>2 DEF Tick, CallerOK, WatcherOK
  <1>14. CASE UNCHANGED vars
    BY <1>14 DEF vars, LoopOK, CallerOK, ReaderOK, WatcherOK
  <1> QED
    BY <1>1, <1>2, <1>3, <1>4, <1>5, <1>6, <1>7, <1>8, <1>9, <1>10, <1>11, <1>12, <1>13, <1>14
    DEF Next, Loop

LEMMA TypeInit == Init => TypeOK
  <1> SUFFICES ASSUME Init PROVE LoopOK /\ CallerOK /\ ReaderOK /\ WatcherOK
    BY TypeParts
  <1>a. /\ timer \in 0 .. Backoff + TTL /\ signing \in 0 .. MaxSign
        /\ age \in 0 .. TTL /\ failed \in 0 .. 2
    BY ConstantsAssumption DEF Init
  <1>b. issued \in BOOLEAN /\ up \in BOOLEAN BY Zenon DEF Init
  <1>1. LoopOK BY <1>a, <1>b DEF Init, LoopOK
  <1>2. CallerOK BY DEF Init, CallerOK
  <1>3. ReaderOK BY ConstantsAssumption DEF Init, ReaderOK
  <1>4. WatcherOK BY DEF Init, WatcherOK
  <1> QED BY <1>1, <1>2, <1>3, <1>4

\* Every variable keeps its type: the timer never goes below zero and never beyond
\* what nextRotateDelay and the pause allow (manager.go Start).
THEOREM TypeCorrect == Spec => []TypeOK
  BY TypeInit, TypeNext, PTL DEF Spec

-----------------------------------------------------------------------------
(* The rotation window *)

\* While nothing failed, the rotation is due when at most 2/3 of the lifetime and
\* the delay of one call have passed, and a call adds at most its own time.
WindowInv ==
    /\ pc \in {"start", "stopped"} => ~issued
    /\ pc = "backoff" => failed > 0
    /\ pc = "reply" => age <= MaxSign
    /\ pc = "wait" /\ failed = 0 => 3 * (age + timer) <= 2 * TTL + MaxSign
    /\ pc = "issue" /\ failed = 0 => 3 * (age - signing) <= 2 * TTL + MaxSign

LEMMA WindowInit == Init => WindowInv
  BY DEF Init, WindowInv

LEMMA WindowNext == TypeOK /\ WindowInv /\ [Next]_vars => WindowInv'
  <1> SUFFICES ASSUME LoopOK, WatcherOK, WindowInv, [Next]_vars
               PROVE  WindowInv'
    BY TypeParts
  <1>1. CASE FirstIssue
    <2>1. age' \in 0 .. TTL /\ age' <= MaxSign BY <1>1, SetOK DEF FirstIssue
    <2>2. 3 * timer' <= 2 * (TTL - age') /\ timer' \in 0 .. TTL
      BY <1>1, <2>1, DelayBound DEF FirstIssue
    <2> QED BY <1>1, <2>1, <2>2, ConstantsAssumption DEF FirstIssue, WindowInv
  <1>2. CASE FirstIssueFails
    BY <1>2 DEF FirstIssueFails, WindowInv
  <1>3. CASE TimerFires
    BY <1>3, ConstantsAssumption DEF TimerFires, WindowInv, LoopOK
  <1>4. ASSUME NEW k \in Callers, TakeForce(k) PROVE WindowInv'
    BY <1>4, ConstantsAssumption DEF TakeForce, WindowInv, LoopOK
  <1>5. CASE IssueOk
    BY <1>5, SetOK DEF IssueOk, WindowInv
  <1>6. CASE ReplyOk
    <2>1. 3 * timer' <= 2 * (TTL - age) /\ timer' \in 0 .. TTL
      BY <1>6, DelayBound DEF ReplyOk, LoopOK
    <2> QED BY <1>6, <2>1, ConstantsAssumption DEF ReplyOk, WindowInv, LoopOK
  <1>7. CASE IssueFails
    BY <1>7 DEF IssueFails, WindowInv, LoopOK
  <1>8. CASE Resume
    BY <1>8 DEF Resume, WindowInv, LoopOK
  <1>9. ASSUME NEW k \in Callers, ForceRotate(k) \/ ForceTimesOut(k) \/ ForceReturns(k)
        PROVE  WindowInv'
    BY <1>9 DEF ForceRotate, ForceTimesOut, ForceReturns, loopVars, WindowInv
  <1>10. ASSUME NEW r \in Readers, GetSVID(r) \/ CheckSVID(r) PROVE WindowInv'
    BY <1>10 DEF GetSVID, CheckSVID, loopVars, WindowInv
  <1>11. ASSUME NEW w \in Watchers, Subscribe(w) \/ Push(w) \/ Unsubscribe(w)
         PROVE  WindowInv'
    BY <1>11 DEF Subscribe, Push, Unsubscribe, loopVars, WindowInv
  <1>12. CASE Cancel \/ Reachability
    BY <1>12 DEF Cancel, Reachability, loopVars, WindowInv
  <1>13. CASE Tick
    BY <1>13, ConstantsAssumption DEF Tick, WindowInv, LoopOK
  <1>14. CASE UNCHANGED vars
    BY <1>14 DEF vars, WindowInv
  <1> QED
    BY <1>1, <1>2, <1>3, <1>4, <1>5, <1>6, <1>7, <1>8, <1>9, <1>10, <1>11, <1>12, <1>13, <1>14
    DEF Next, Loop

LEMMA WindowSuffices == TypeOK /\ WindowInv => HealthyNeverNear
  BY ConstantsAssumption, TypeParts DEF WindowInv, LoopOK, HealthyNeverNear, nearExpiry, Remaining

\* As long as Sign calls succeed, the SVID never enters the last sixth of its
\* lifetime, provided eight calls and the backdating fit into a lifetime
\* (manager.go rotateFraction, nearExpiryFraction).
THEOREM HealthyStaysClear == Spec => []HealthyNeverNear
  <1>1. Init => TypeOK /\ WindowInv BY TypeInit, WindowInit
  <1>2. TypeOK /\ WindowInv /\ [Next]_vars => (TypeOK /\ WindowInv)' BY TypeNext, WindowNext
  <1> QED BY <1>1, <1>2, WindowSuffices, PTL DEF Spec

-----------------------------------------------------------------------------
(* Forced rotations *)

\* The loop serves one request at a time, and between Set and the reply its caller
\* has a new SVID to be told of.
RequestInv ==
    /\ pc \notin {"issue", "reply"} => req = None
    /\ pc = "reply" => \A k \in Callers : req = k => caller[k].fresh

CallersInv == NoCallerStranded /\ ForcedIsFresh /\ RequestInv

LEMMA CallersInit == Init => CallersInv
  BY DEF Init, CallersInv, NoCallerStranded, ForcedIsFresh, RequestInv

LEMMA CallersNext == TypeOK /\ CallersInv /\ [Next]_vars => CallersInv'
  <1> USE DEF CallersInv, NoCallerStranded, ForcedIsFresh, RequestInv
  <1> SUFFICES ASSUME LoopOK, CallerOK, CallersInv, [Next]_vars
               PROVE  CallersInv'
    BY TypeParts
  <1>0. None \notin Callers BY ConstantsAssumption
  <1>1. CASE FirstIssue \/ FirstIssueFails \/ TimerFires \/ Resume \/ Cancel
    BY <1>0, <1>1 DEF FirstIssue, FirstIssueFails, TimerFires, Resume, Cancel
  <1>2. ASSUME NEW k \in Callers, TakeForce(k) PROVE CallersInv'
    BY <1>0, <1>2 DEF TakeForce, CallerOK
  <1>3. CASE IssueOk
    BY <1>0, <1>3 DEF IssueOk, CallerOK
  <1>4. CASE ReplyOk
    BY <1>0, <1>4 DEF ReplyOk, Reply, CallerOK
  <1>5. CASE IssueFails
    BY <1>0, <1>5 DEF IssueFails, Reply, CallerOK
  <1>6. ASSUME NEW k \in Callers, ForceRotate(k) \/ ForceReturns(k) PROVE CallersInv'
    BY <1>0, <1>6 DEF ForceRotate, ForceReturns, loopVars, CallerOK
  <1>7. ASSUME NEW k \in Callers, ForceTimesOut(k) PROVE CallersInv'
    BY <1>0, <1>7 DEF ForceTimesOut, CallerOK
  <1>8. ASSUME NEW r \in Readers, GetSVID(r) \/ CheckSVID(r) PROVE CallersInv'
    BY <1>8 DEF GetSVID, CheckSVID, loopVars
  <1>9. ASSUME NEW w \in Watchers, Subscribe(w) \/ Push(w) \/ Unsubscribe(w)
        PROVE  CallersInv'
    BY <1>9 DEF Subscribe, Push, Unsubscribe, loopVars
  <1>10. CASE Reachability \/ Tick
    BY <1>10 DEF Reachability, Tick, loopVars
  <1>11. CASE UNCHANGED vars
    BY <1>11 DEF vars
  <1> QED
    BY <1>1, <1>2, <1>3, <1>4, <1>5, <1>6, <1>7, <1>8, <1>9, <1>10, <1>11
    DEF Next, Loop

LEMMA CallersInvariance == Spec => []CallersInv
  <1>1. Init => TypeOK /\ CallersInv BY TypeInit, CallersInit
  <1>2. TypeOK /\ CallersInv /\ [Next]_vars => (TypeOK /\ CallersInv)' BY TypeNext, CallersNext
  <1> QED BY <1>1, <1>2, PTL DEF Spec

\* A forced rotation that reports success was followed by a new SVID (manager.go
\* ForceRotate and the replies of Start).
THEOREM ForcedRotationsAreServed == Spec => []ForcedIsFresh
  <1>1. CallersInv => ForcedIsFresh BY DEF CallersInv
  <1> QED BY <1>1, CallersInvariance, PTL

\* Nobody waits for a loop that works for somebody else or for nobody, whoever
\* gave up in between (manager.go rotateRequest).
THEOREM CallersAreAnswered == Spec => []NoCallerStranded
  <1>1. CallersInv => NoCallerStranded BY DEF CallersInv
  <1> QED BY <1>1, CallersInvariance, PTL

-----------------------------------------------------------------------------
(* GetSVID *)

\* What a reader holds was in the Store.
HaveIssued == \A r \in Readers : reader[r].pc = "have" => issued

\* Only GetSVID itself moves a reader; nothing takes the Store's SVID away.
LEMMA ReaderStep ==
    ASSUME TypeOK, [Next]_vars, NEW r \in Readers
    PROVE  /\ issued => issued'
           /\ \/ reader'[r].pc = reader[r].pc
              \/ GetSVID(r) \/ CheckSVID(r)
  <1>0. ReaderOK BY TypeParts
  <1>1. ASSUME NEW q \in Readers, GetSVID(q) \/ CheckSVID(q)
        PROVE  issued' = issued /\ (q # r => reader'[r].pc = reader[r].pc)
    BY <1>0, <1>1 DEF GetSVID, CheckSVID, ReaderOK
  <1>2. CASE Tick
    BY <1>0, <1>2 DEF Tick, ReaderOK
  <1>3. CASE Loop
    BY <1>3 DEF Loop, FirstIssue, FirstIssueFails, TimerFires, TakeForce, IssueOk,
                ReplyOk, IssueFails, Resume, Set
  <1>4. ASSUME NEW k \in Callers, ForceRotate(k) \/ ForceTimesOut(k) \/ ForceReturns(k)
        PROVE  reader' = reader /\ issued' = issued
    BY <1>4 DEF ForceRotate, ForceTimesOut, ForceReturns
  <1>5. ASSUME NEW w \in Watchers, Subscribe(w) \/ Push(w) \/ Unsubscribe(w)
        PROVE  reader' = reader /\ issued' = issued
    BY <1>5 DEF Subscribe, Push, Unsubscribe
  <1>6. CASE Cancel \/ Reachability
    BY <1>6 DEF Cancel, Reachability
  <1>7. CASE UNCHANGED vars
    BY <1>7 DEF vars
  <1> QED BY <1>1, <1>2, <1>3, <1>4, <1>5, <1>6, <1>7 DEF Next

LEMMA HaveNext == TypeOK /\ HaveIssued /\ [Next]_vars => HaveIssued'
  <1> SUFFICES ASSUME TypeOK, HaveIssued, [Next]_vars, NEW r \in Readers, reader'[r].pc = "have"
               PROVE  issued'
    BY DEF HaveIssued
  <1>0. ReaderOK BY TypeParts
  <1>1. CASE reader'[r].pc = reader[r].pc BY <1>1, ReaderStep DEF HaveIssued
  <1>2. CASE GetSVID(r) BY <1>0, <1>2 DEF GetSVID, ReaderOK
  <1>3. CASE CheckSVID(r) BY <1>0, <1>3 DEF CheckSVID, ReaderOK
  <1> QED BY <1>1, <1>2, <1>3, ReaderStep

\* A reader that is refused holds an SVID near expiry, and the current one is not.
LEMMA RefusedStep ==
    ASSUME TypeOK, HealthyNeverNear, HaveIssued, [Next]_vars, NEW r \in Readers,
           reader[r].pc = "have", reader'[r].pc = "idle"
    PROVE  failed > 0 \/ pc = "done" \/ reader[r].age # age
  <1>0. ReaderOK /\ LoopOK BY TypeParts
  <1>1. CheckSVID(r) BY ReaderStep DEF GetSVID
  <1>2. nearExpiry(reader[r].age) BY <1>0, <1>1 DEF CheckSVID, ReaderOK
  <1>3. issued BY DEF HaveIssued
  <1>4. failed = 0 \/ failed > 0 BY <1>0 DEF LoopOK
  <1> QED BY <1>2, <1>3, <1>4 DEF HealthyNeverNear

\* Make-before-break: while Sign calls succeed, GetSVID refuses nothing but an
\* SVID that was replaced between its read and its check (manager.go Start, GetSVID).
THEOREM ServedThroughRotation == Spec => HealthyIsServed
  <1>1. Init => HaveIssued BY DEF Init, HaveIssued
  <1>2. Spec => []HaveIssued BY <1>1, HaveNext, TypeCorrect, PTL DEF Spec
  <1>3. TypeOK /\ [Next]_vars => (issued => issued')
    BY DEF Next, Loop, FirstIssue, FirstIssueFails, TimerFires, TakeForce, IssueOk, ReplyOk,
           IssueFails, Resume, Set, ForceRotate, ForceTimesOut, ForceReturns, GetSVID, CheckSVID,
           Subscribe, Push, Unsubscribe, Cancel, Reachability, Tick, vars
  <1>4. TypeOK /\ HealthyNeverNear /\ HaveIssued /\ [Next]_vars =>
          [/\ issued => issued'
           /\ \A r \in Readers : reader[r].pc = "have" /\ reader'[r].pc = "idle"
                                 => failed > 0 \/ pc = "done" \/ reader[r].age # age]_vars
    BY <1>3, RefusedStep
  <1> QED BY <1>2, <1>4, TypeCorrect, HealthyStaysClear, PTL DEF Spec, HealthyIsServed

-----------------------------------------------------------------------------
(* The circuit breakers of the outbound proxy *)

USE ProxyAssumption

\* An open breaker opened after its last probe was let through.
SpacingInv == \A u \in Upstreams : state[u] = "open" => openFor[u] <= sinceProbe[u]

\* The errors a closed breaker has counted were recorded in a row.
RunInv == \A u \in Upstreams : state[u] = "closed" => consecutiveErrors[u] <= run[u]

\* The outcome of a connection to u, good or bad, as far as breakers go.
Outcome(u) == RecordSuccess(u) \/ RecordFailure(u)

-----------------------------------------------------------------------------
LEMMA AtMostBound ==
    ASSUME NEW n \in Nat, NEW b \in Nat
    PROVE  AtMost(n + 1, b) \in 0 .. b
BY DEF AtMost

LEMMA AtMostMonotone ==
    ASSUME NEW m \in Nat, NEW n \in Nat, NEW b \in Nat, m <= n
    PROVE  AtMost(m + 1, b) <= AtMost(n + 1, b)
BY DEF AtMost

\* What recording an outcome does to the types.
LEMMA OutcomeTypes ==
    ASSUME ProxyTypeOK, NEW u \in Upstreams, Outcome(u)
    PROVE  /\ state' \in [Upstreams -> {"closed", "open", "half"}]
           /\ consecutiveErrors' \in [Upstreams -> 0 .. Threshold - 1]
           /\ openFor' \in [Upstreams -> 0 .. ResetAfter]
           /\ run' \in [Upstreams -> 0 .. Threshold]
<1>1. CASE RecordSuccess(u)
  BY <1>1 DEF RecordSuccess, ProxyTypeOK
<1>2. CASE RecordFailure(u)
  <2>1. consecutiveErrors[u] \in 0 .. Threshold - 1 /\ run[u] \in 0 .. Threshold
    BY DEF ProxyTypeOK
  <2>2. AtMost(run[u] + 1, Threshold) \in 0 .. Threshold
    BY <2>1, AtMostBound
  <2>3. run' \in [Upstreams -> 0 .. Threshold]
    BY <1>2, <2>2 DEF RecordFailure, ProxyTypeOK
  <2>4. consecutiveErrors' \in [Upstreams -> 0 .. Threshold - 1]
    BY <1>2, <2>1 DEF RecordFailure, ProxyTypeOK
  <2>5. state' \in [Upstreams -> {"closed", "open", "half"}]
    BY <1>2 DEF RecordFailure, ProxyTypeOK
  <2>6. openFor' \in [Upstreams -> 0 .. ResetAfter]
    BY <1>2 DEF RecordFailure, ProxyTypeOK
  <2> QED
    BY <2>3, <2>4, <2>5, <2>6
<1> QED
  BY <1>1, <1>2 DEF Outcome

\* A step that records the outcome of a connection ends it.
Settles(c) == DialFails(c) \/ VerifyFails(c) \/ CopyEnds(c) \/ CopyFails(c)

LEMMA SettlesFacts ==
    ASSUME ProxyTypeOK, NEW c \in Conns, Settles(c)
    PROVE  /\ upstream[c] \in Upstreams /\ Outcome(upstream[c])
           /\ conn[c] \in {"dial", "verify", "copy"}
           /\ conn' = [conn EXCEPT ![c] = "idle"]
           /\ UNCHANGED <<upstream, probe, sinceProbe>>
BY DEF ProxyTypeOK, Settles, DialFails, VerifyFails, CopyEnds,
       CopyFails, Outcome

\* The steps of a goroutine that touch no breaker.
Proceeds(c) == AllowClosed(c) \/ Reject(c) \/ Dial(c) \/ Verify(c)

LEMMA BreakerTypeNext ==
    ASSUME ProxyTypeOK, [ProxyNext]_proxyVars
    PROVE  ProxyTypeOK'
<1>1. ASSUME NEW c \in Conns, Settles(c) PROVE ProxyTypeOK'
  BY <1>1, SettlesFacts, OutcomeTypes DEF ProxyTypeOK
<1>2. ASSUME NEW c \in Conns, Proceeds(c) PROVE ProxyTypeOK'
  BY <1>2 DEF Proceeds, AllowClosed, Reject, Dial,
           Verify, ProxyTypeOK, breakers
<1>3. ASSUME NEW c \in Conns, AllowProbe(c) PROVE ProxyTypeOK'
  BY <1>3 DEF AllowProbe, ProxyTypeOK
<1>4. ASSUME NEW c \in Conns, NEW u \in Upstreams, Resolve(c, u) PROVE ProxyTypeOK'
  BY <1>4 DEF Resolve, ProxyTypeOK, breakers
<1>5. CASE ProxyTick
  <2>1. \A u \in Upstreams : /\ AtMost(openFor[u] + 1, ResetAfter) \in 0 .. ResetAfter
                             /\ AtMost(sinceProbe[u] + 1, ResetAfter) \in 0 .. ResetAfter
    BY AtMostBound DEF ProxyTypeOK
  <2> QED
    BY <1>5, <2>1 DEF ProxyTick, ProxyTypeOK
<1>6. CASE UNCHANGED proxyVars
  BY <1>6 DEF proxyVars, ProxyTypeOK
<1> QED
  BY <1>1, <1>2, <1>3, <1>4, <1>5, <1>6
     DEF ProxyNext, Connect, Tunnel, Settles, Proceeds

LEMMA BreakerTypeInit == ASSUME ProxyInit PROVE ProxyTypeOK
BY DEF ProxyInit, ProxyTypeOK

\* Every variable keeps its type; in particular the error count of a breaker
\* stays below its threshold (circuit_breaker.go RecordFailure).
THEOREM BreakersTyped == ProxySpec => []ProxyTypeOK
<1>1. ProxyTypeOK /\ [ProxyNext]_proxyVars => ProxyTypeOK'
  BY BreakerTypeNext
<1> QED
  BY <1>1, BreakerTypeInit, PTL DEF ProxySpec

-----------------------------------------------------------------------------
(* A half-open breaker has a probe under way. *)

LEMMA ProbeNext ==
    ASSUME ProxyTypeOK, HalfOpenHasProbe, [ProxyNext]_proxyVars
    PROVE  HalfOpenHasProbe'
<1> SUFFICES ASSUME NEW u \in Upstreams, state'[u] = "half"
             PROVE  \E c \in Conns : /\ upstream'[c] = u /\ probe'[c]
                                     /\ conn'[c] \in {"dial", "verify", "copy"}
  BY DEF HalfOpenHasProbe, InFlight
<1> DEFINE Probe(c) == upstream[c] = u /\ probe[c] /\ conn[c] \in {"dial", "verify", "copy"}
<1>0. state[u] = "half" => \E c \in Conns : Probe(c)
  BY DEF HalfOpenHasProbe, InFlight
<1>1. ASSUME NEW c \in Conns, Settles(c)
      PROVE  \E d \in Conns : /\ upstream'[d] = u /\ probe'[d]
                              /\ conn'[d] \in {"dial", "verify", "copy"}
  <2>1. u # upstream[c] /\ state[u] = "half"
    BY <1>1, SettlesFacts DEF Outcome, RecordSuccess, RecordFailure, ProxyTypeOK
  <2>2. PICK d \in Conns : Probe(d)
    BY <2>1, <1>0
  <2>3. d # c
    BY <2>1, <2>2
  <2> QED
    BY <1>1, <2>2, <2>3, SettlesFacts DEF ProxyTypeOK
<1>2. ASSUME NEW c \in Conns, Proceeds(c)
      PROVE  \E d \in Conns : /\ upstream'[d] = u /\ probe'[d]
                              /\ conn'[d] \in {"dial", "verify", "copy"}
  <2>1. state[u] = "half" /\ UNCHANGED upstream
    BY <1>2 DEF Proceeds, AllowClosed, Reject, Dial,
           Verify, breakers
  <2>2. PICK d \in Conns : Probe(d)
    BY <2>1, <1>0
  <2>3. d = c => conn'[d] \in {"verify", "copy"} /\ UNCHANGED probe
    BY <1>2, <2>2 DEF Proceeds, AllowClosed, Reject, Dial,
           Verify, ProxyTypeOK
  <2>4. d # c => conn'[d] = conn[d] /\ probe'[d] = probe[d]
    BY <1>2 DEF Proceeds, AllowClosed, Reject, Dial,
           Verify, ProxyTypeOK
  <2> QED
    BY <2>1, <2>2, <2>3, <2>4
<1>3. ASSUME NEW c \in Conns, AllowProbe(c)
      PROVE  \E d \in Conns : /\ upstream'[d] = u /\ probe'[d]
                              /\ conn'[d] \in {"dial", "verify", "copy"}
  <2>1. CASE u = upstream[c]
    <3>1. conn'[c] = "dial" /\ probe'[c] /\ upstream'[c] = u
      BY <1>3, <2>1 DEF AllowProbe, ProxyTypeOK
    <3> QED
      BY <3>1
  <2>2. CASE u # upstream[c]
    <3>1. state[u] = "half"
      BY <1>3, <2>2 DEF AllowProbe, ProxyTypeOK
    <3>2. PICK d \in Conns : Probe(d)
      BY <3>1, <1>0
    <3> QED
      BY <1>3, <2>2, <3>2 DEF AllowProbe, ProxyTypeOK
  <2> QED
    BY <2>1, <2>2
<1>4. ASSUME NEW c \in Conns, NEW v \in Upstreams, Resolve(c, v)
      PROVE  \E d \in Conns : /\ upstream'[d] = u /\ probe'[d]
                              /\ conn'[d] \in {"dial", "verify", "copy"}
  <2>1. PICK d \in Conns : Probe(d)
    BY <1>4, <1>0 DEF Resolve, breakers
  <2>2. d # c
    BY <1>4, <2>1 DEF Resolve
  <2> QED
    BY <1>4, <2>1, <2>2 DEF Resolve, ProxyTypeOK
<1>5. CASE ProxyTick \/ UNCHANGED proxyVars
  BY <1>0, <1>5 DEF ProxyTick, proxyVars
<1> QED
  BY <1>1, <1>2, <1>3, <1>4, <1>5 DEF ProxyNext, Connect, Tunnel, Settles, Proceeds

\* A breaker that rejects as half-open always has a probe in flight whose
\* outcome will be recorded (outbound.go handle).
THEOREM ProbeUnderWay == ProxySpec => []HalfOpenHasProbe
<1>1. ProxyInit => HalfOpenHasProbe
  BY DEF ProxyInit, HalfOpenHasProbe
<1>2. HalfOpenHasProbe /\ ProxyTypeOK /\ [ProxyNext]_proxyVars => HalfOpenHasProbe'
  BY ProbeNext
<1> QED
  BY <1>1, <1>2, BreakersTyped, PTL DEF ProxySpec

-----------------------------------------------------------------------------
(* Probes are spaced, and breakers trip on runs of failures. *)

LEMMA SpacingNext ==
    ASSUME ProxyTypeOK, SpacingInv, [ProxyNext]_proxyVars
    PROVE  SpacingInv'
<1> SUFFICES ASSUME NEW u \in Upstreams, state'[u] = "open"
             PROVE  openFor'[u] <= sinceProbe'[u]
  BY DEF SpacingInv
<1>0. /\ openFor[u] \in Nat /\ sinceProbe[u] \in Nat
      /\ state[u] = "open" => openFor[u] <= sinceProbe[u]
  BY DEF ProxyTypeOK, SpacingInv
<1>1. ASSUME NEW c \in Conns, Settles(c) PROVE openFor'[u] <= sinceProbe'[u]
  <2>1. Outcome(upstream[c]) /\ upstream[c] \in Upstreams /\ UNCHANGED sinceProbe
    BY <1>1, SettlesFacts
  <2>2. openFor'[u] = 0 \/ (state[u] = "open" /\ openFor'[u] = openFor[u])
    BY <2>1 DEF Outcome, RecordSuccess, RecordFailure, ProxyTypeOK
  <2> QED
    BY <1>0, <2>1, <2>2
<1>2. ASSUME NEW c \in Conns, Proceeds(c) PROVE openFor'[u] <= sinceProbe'[u]
  BY <1>0, <1>2 DEF Proceeds, AllowClosed, Reject, Dial,
           Verify, breakers
<1>3. ASSUME NEW c \in Conns, AllowProbe(c) PROVE openFor'[u] <= sinceProbe'[u]
  <2>1. u # upstream[c]
    BY <1>3 DEF AllowProbe, ProxyTypeOK
  <2>2. state[u] = "open" /\ openFor'[u] = openFor[u] /\ sinceProbe'[u] = sinceProbe[u]
    BY <1>3, <2>1 DEF AllowProbe, ProxyTypeOK
  <2> QED
    BY <1>0, <2>2
<1>4. ASSUME NEW c \in Conns, NEW v \in Upstreams, Resolve(c, v)
      PROVE  openFor'[u] <= sinceProbe'[u]
  BY <1>0, <1>4 DEF Resolve, breakers
<1>5. CASE ProxyTick
  <2>1. AtMost(openFor[u] + 1, ResetAfter) <= AtMost(sinceProbe[u] + 1, ResetAfter)
    BY <1>0, <1>5, AtMostMonotone DEF ProxyTick
  <2> QED
    BY <1>5, <2>1 DEF ProxyTick
<1>6. CASE UNCHANGED proxyVars
  BY <1>0, <1>6 DEF proxyVars
<1> QED
  BY <1>1, <1>2, <1>3, <1>4, <1>5, <1>6
     DEF ProxyNext, Connect, Tunnel, Settles, Proceeds

\* Probes of one upstream are at least ResetAfter apart, whatever late outcomes
\* do to the breaker in between (circuit_breaker.go Allow and RecordFailure).
THEOREM ProbesAreSpaced == ProxySpec => ProbesSpaced
<1>1. ProxyInit => SpacingInv
  BY DEF ProxyInit, SpacingInv
<1>2. SpacingInv /\ ProxyTypeOK /\ [ProxyNext]_proxyVars => SpacingInv'
  BY SpacingNext
<1>3. ProxyTypeOK /\ SpacingInv /\ [ProxyNext]_proxyVars =>
        [\A u \in Upstreams :
           state[u] = "open" /\ state'[u] = "half" => sinceProbe[u] >= ResetAfter]_proxyVars
  <2> SUFFICES ASSUME ProxyTypeOK, SpacingInv, [ProxyNext]_proxyVars, NEW u \in Upstreams,
                      state[u] = "open", state'[u] = "half"
               PROVE  sinceProbe[u] >= ResetAfter
    OBVIOUS
  <2>1. PICK c \in Conns : AllowProbe(c) /\ upstream[c] = u
    <3>1. ASSUME NEW c \in Conns, Settles(c) PROVE FALSE
      BY <3>1, SettlesFacts DEF Outcome, RecordSuccess, RecordFailure, ProxyTypeOK
    <3>2. ASSUME NEW c \in Conns, AllowProbe(c) PROVE upstream[c] = u
      BY <3>2 DEF AllowProbe, ProxyTypeOK
    <3>3. ASSUME NEW c \in Conns, Proceeds(c) PROVE FALSE
      BY <3>3 DEF Proceeds, AllowClosed, Reject, Dial,
           Verify, breakers
    <3>4. ASSUME NEW c \in Conns, NEW v \in Upstreams, Resolve(c, v) PROVE FALSE
      BY <3>4 DEF Resolve, breakers
    <3>5. ~ProxyTick /\ ~UNCHANGED proxyVars
      BY DEF ProxyTick, proxyVars
    <3> QED
      BY <3>1, <3>2, <3>3, <3>4, <3>5 DEF ProxyNext, Connect, Tunnel, Settles, Proceeds
  <2>2. openFor[u] >= ResetAfter
    BY <2>1 DEF AllowProbe
  <2> QED
    BY <2>2 DEF SpacingInv, ProxyTypeOK
<1> QED
  BY <1>1, <1>2, <1>3, BreakersTyped, PTL DEF ProxySpec, ProbesSpaced

LEMMA RunNext ==
    ASSUME ProxyTypeOK, RunInv, [ProxyNext]_proxyVars
    PROVE  /\ RunInv'
           /\ \A u \in Upstreams :
                 state[u] = "closed" /\ state'[u] = "open" => run'[u] >= Threshold
<1>1. ASSUME NEW c \in Conns, Settles(c), NEW u \in Upstreams
      PROVE  /\ state'[u] = "closed" => consecutiveErrors'[u] <= run'[u]
             /\ state[u] = "closed" /\ state'[u] = "open" => run'[u] >= Threshold
  <2>0. /\ consecutiveErrors[u] \in Nat /\ consecutiveErrors[u] < Threshold
        /\ run[u] \in Nat /\ run[u] <= Threshold
        /\ state[u] = "closed" => consecutiveErrors[u] <= run[u]
    BY DEF ProxyTypeOK, RunInv
  <2>1. upstream[c] \in Upstreams /\ Outcome(upstream[c])
    BY <1>1, SettlesFacts
  <2>2. CASE u # upstream[c]
    BY <2>0, <2>1, <2>2 DEF Outcome, RecordSuccess, RecordFailure, ProxyTypeOK
  <2>3. CASE u = upstream[c] /\ RecordSuccess(u)
    BY <2>0, <2>3 DEF RecordSuccess, ProxyTypeOK
  <2>4. CASE u = upstream[c] /\ RecordFailure(u)
    <3>1. run'[u] = AtMost(run[u] + 1, Threshold)
      BY <2>4 DEF RecordFailure, ProxyTypeOK
    <3>2. state[u] = "closed" => consecutiveErrors[u] + 1 <= run'[u]
      BY <2>0, <3>1 DEF AtMost
    <3>3. state'[u] = "closed" =>
            state[u] = "closed" /\ consecutiveErrors'[u] = consecutiveErrors[u] + 1
      BY <2>4 DEF RecordFailure, ProxyTypeOK
    <3>4. state[u] = "closed" /\ state'[u] = "open" => consecutiveErrors[u] + 1 >= Threshold
      BY <2>4 DEF RecordFailure, ProxyTypeOK
    <3>5. run'[u] \in Nat
      BY <2>0, <3>1 DEF AtMost
    <3> QED
      BY <2>0, <3>2, <3>3, <3>4, <3>5
  <2> QED
    BY <2>1, <2>2, <2>3, <2>4 DEF Outcome
<1>2. ASSUME NEW c \in Conns, Proceeds(c) PROVE UNCHANGED <<state, consecutiveErrors, run>>
  BY <1>2 DEF Proceeds, AllowClosed, Reject, Dial,
           Verify, breakers
<1>3. ASSUME NEW c \in Conns, NEW v \in Upstreams, Resolve(c, v)
      PROVE  UNCHANGED <<state, consecutiveErrors, run>>
  BY <1>3 DEF Resolve, breakers
<1>4. CASE ProxyTick \/ UNCHANGED proxyVars
  BY <1>4 DEF ProxyTick, proxyVars, RunInv
<1>5. CASE UNCHANGED <<state, consecutiveErrors, run>>
  BY <1>5 DEF RunInv
<1>6. ASSUME NEW c \in Conns, AllowProbe(c), NEW u \in Upstreams
      PROVE  /\ state'[u] = "closed" => consecutiveErrors'[u] <= run'[u]
             /\ state[u] = "closed" /\ state'[u] = "open" => run'[u] >= Threshold
  <2>1. state'[u] = state[u] \/ state'[u] = "half"
    BY <1>6 DEF AllowProbe, ProxyTypeOK
  <2> QED
    BY <1>6, <2>1 DEF AllowProbe, RunInv
<1> QED
  BY <1>1, <1>2, <1>3, <1>4, <1>5, <1>6
     DEF ProxyNext, Connect, Tunnel, Settles, Proceeds, RunInv

\* Only Threshold failures in a row trip a closed breaker (circuit_breaker.go
\* RecordFailure and RecordSuccess).
THEOREM TripsAreEarned == ProxySpec => TripsOnlyOnRun
<1>1. ProxyInit => RunInv
  BY DEF ProxyInit, RunInv
<1>2. RunInv /\ ProxyTypeOK /\ [ProxyNext]_proxyVars => RunInv'
  BY RunNext
<1>3. ProxyTypeOK /\ RunInv /\ [ProxyNext]_proxyVars =>
        [\A u \in Upstreams :
           state[u] = "closed" /\ state'[u] = "open" => run'[u] >= Threshold]_proxyVars
  BY RunNext
<1> QED
  BY <1>1, <1>2, <1>3, BreakersTyped, PTL DEF ProxySpec, TripsOnlyOnRun
============================================================================
