--------------------------- MODULE AdsStreamProofs ---------------------------
(***************************************************************************)
(* Proofs about AdsStream, for all bounds: the type invariant, that no     *)
(* Store change is lost, what an ACK means, and that the channel           *)
(* implements ConfigSync.                                                  *)
(***************************************************************************)
EXTENDS AdsStream, SequenceTheorems, TLAPS

\* Where each loop is fixes what its variables hold.
ControlInv ==
    /\ srvPc = "none" =>
          /\ subscribed = {}
          /\ watch = FALSE
          /\ nonceSeq = 0
          /\ ts = [t \in Types |-> NewTypeState]
    /\ srvPc \in {"none", "select"} => toPush = <<>>
    /\ srvPc \in {"read", "send"} => toPush # <<>>
    /\ conn # "open" => srvPc = "none" /\ toServer = <<>>
    /\ conn = "down" => toAgent = <<>> /\ cliPc = "recv"

\* A resource list that went stale between its read and its send is followed by
\* another wake-up.
ReadInv ==
    srvPc = "send" =>
        resources = store[Head(toPush)] \/ watch \/ unnotified > 0

\* Contents in flight are ordered by age, between the applied and the current one.
RevInv ==
    /\ \A t \in Types : applied[t] <= store[t]
    /\ \A i \in DOMAIN toAgent :
          /\ applied[toAgent[i].type] <= toAgent[i].rev
          /\ toAgent[i].rev <= store[toAgent[i].type]
    /\ \A i, j \in DOMAIN toAgent :
          i < j /\ toAgent[i].type = toAgent[j].type => toAgent[i].rev <= toAgent[j].rev
    /\ cliPc = "apply" =>
          /\ applied[resp.type] <= resp.rev
          /\ resp.rev <= store[resp.type]
          /\ \A i \in DOMAIN toAgent :
                toAgent[i].type = resp.type => resp.rev <= toAgent[i].rev
    /\ srvPc = "send" =>
          /\ applied[Head(toPush)] <= resources
          /\ resources <= store[Head(toPush)]
          /\ \A i \in DOMAIN toAgent :
                toAgent[i].type = Head(toPush) => toAgent[i].rev <= resources
          /\ cliPc = "apply" /\ resp.type = Head(toPush) => resp.rev <= resources

\* The version bookkeeping of one type.
VersionInv ==
    \A t \in Types :
        /\ ts[t].ackedVersion <= ts[t].sentVersion
        /\ ts[t].hasOutstanding => ts[t].ackedVersion < ts[t].sentVersion
        /\ ts[t].lastNonce <= nonceSeq

\* On a live stream nonces go round in order: the requests on their way back
\* carry older nonces than the response being handled, which is older than the
\* ones still to be received.  A pending response belongs to an outstanding push.
NonceInv ==
    conn = "open" =>
        /\ \A i \in DOMAIN toAgent :
              /\ toAgent[i].nonce > 0
              /\ toAgent[i].nonce <= ts[toAgent[i].type].lastNonce
              /\ ts[toAgent[i].type].hasOutstanding
              /\ toAgent[i].nonce = ts[toAgent[i].type].lastNonce =>
                    toAgent[i].rev = pushed[toAgent[i].type]
              /\ cliPc \notin {"recv", "post"} => resp.nonce < toAgent[i].nonce
              /\ \A j \in DOMAIN toServer : toServer[j].nonce < toAgent[i].nonce
        /\ \A i, j \in DOMAIN toAgent : i < j => toAgent[i].nonce < toAgent[j].nonce
        /\ cliPc \notin {"recv", "post"} =>
              /\ resp.nonce > 0
              /\ resp.nonce <= ts[resp.type].lastNonce
              /\ ts[resp.type].hasOutstanding
              /\ resp.nonce = ts[resp.type].lastNonce => resp.rev = pushed[resp.type]
              /\ \A j \in DOMAIN toServer : toServer[j].nonce < resp.nonce
        /\ cliPc = "ack" => applied[resp.type] = resp.rev
        /\ \A j \in DOMAIN toServer : toServer[j].nonce <= nonceSeq

\* An ACK of the outstanding push on its way back tells the truth, of the resolver
\* once the hook has run.
AckInv ==
    \A j \in DOMAIN toServer :
        LET req == toServer[j] IN
        /\ req.nonce # 0 /\ ~req.error /\ req.nonce = ts[req.type].lastNonce
        => /\ applied[req.type] = pushed[req.type]
           /\ req.type = "EDS" => resolver = pushed[req.type] \/ cliPc = "post"

\* The inductive invariant behind AckMeansApplied.
IInv == /\ TypeOK /\ ControlInv /\ VersionInv /\ NonceInv /\ AckInv
        /\ AckMeansApplied

-----------------------------------------------------------------------------

\* The initial values of the records have their types.
LEMMA RecordTypes ==
    /\ NewTypeState \in TypeState
    /\ NoResponse \in Response
    /\ \A t \in Types : Subscription(t) \in Request
BY DEF NewTypeState, TypeState, NoResponse, Response, Subscription, Request, Types

\* settle and preparePush keep the type of a typeState.
LEMMA TypeStateOps ==
    ASSUME NEW s \in TypeState, NEW n \in Nat, NEW kind
    PROVE  /\ settle(s, kind) \in TypeState
           /\ preparePush(s, n) \in TypeState
           /\ s.sentVersion + 1 \in Nat
<1>1. settle(s, kind) \in TypeState
  BY Zenon DEF settle, TypeState
<1>2. s.sentVersion + 1 \in Nat
  BY DEF TypeState
<1>3. preparePush(s, n) \in TypeState
  BY Zenon, <1>2 DEF preparePush, TypeState
<1> QED
  BY <1>1, <1>2, <1>3

\* A sequence of one element has an empty tail.
LEMMA TailEmpty ==
    ASSUME NEW S, NEW q \in Seq(S), q # <<>>
    PROVE  Tail(q) = <<>> <=> Len(q) = 1
<1>1. Tail(q) \in Seq(S) /\ Len(Tail(q)) = Len(q) - 1
  BY HeadTailProperties
<1>2. Tail(q) = <<>> <=> Len(Tail(q)) = 0
  BY Zenon, <1>1, EmptySeq
<1>3. Len(q) \in Nat
  BY LenProperties
<1> QED
  BY <1>1, <1>2, <1>3

\* pushAll pushes exactly the subscribed types.
LEMMA PushOrderFacts ==
    ASSUME NEW S \in SUBSET Types
    PROVE  /\ pushOrder(S) \in Seq(Types)
           /\ \A t \in S : \E i \in DOMAIN pushOrder(S) : pushOrder(S)[i] = t
           /\ S = {} <=> pushOrder(S) = <<>>
<1> DEFINE c == IF "CDS" \in S THEN <<"CDS">> ELSE <<>>
           e == IF "EDS" \in S THEN <<"EDS">> ELSE <<>>
<1>1. c \in Seq(Types) /\ e \in Seq(Types)
  <2>1. <<>> \in Seq(Types)
    BY EmptySeq
  <2>2. <<"CDS">> \in Seq(Types) /\ <<"EDS">> \in Seq(Types)
    BY DEF Types
  <2> QED
    BY <2>1, <2>2
<1>2. /\ "CDS" \in S => Len(c) = 1 /\ c[1] = "CDS"
      /\ "EDS" \in S => Len(e) = 1 /\ e[1] = "EDS"
  OBVIOUS
<1>3. S = {} <=> (c = <<>> /\ e = <<>>)
  <2>1. S = {} <=> "CDS" \notin S /\ "EDS" \notin S
    BY DEF Types
  <2>2. c = <<>> <=> "CDS" \notin S
    BY <1>2, EmptySeq
  <2>3. e = <<>> <=> "EDS" \notin S
    BY <1>2, EmptySeq
  <2> QED
    BY <2>1, <2>2, <2>3
<1>4. pushOrder(S) = c \o e
  BY DEF pushOrder
<1> HIDE DEF c, e
<1>5. "CDS" \in S => 1 \in DOMAIN (c \o e) /\ (c \o e)[1] = "CDS"
  BY <1>1, <1>2, ConcatProperties, LenProperties
<1>6. "EDS" \in S => Len(c) + 1 \in DOMAIN (c \o e) /\ (c \o e)[Len(c) + 1] = "EDS"
  BY <1>1, <1>2, ConcatProperties, LenProperties
<1>7. c \o e \in Seq(Types) /\ (c \o e = <<>> <=> c = <<>> /\ e = <<>>)
  BY <1>1, ConcatProperties, ConcatEqualIffEmpty
<1> QED
  BY <1>3, <1>4, <1>5, <1>6, <1>7 DEF Types

LEMMA TypeInit == Init => TypeOK
<1> SUFFICES ASSUME Init PROVE TypeOK
  OBVIOUS
<1>1. ts \in [Types -> TypeState]
  BY RecordTypes DEF Init
<1>2. resp \in Response
  BY RecordTypes DEF Init
<1>3. watch \in BOOLEAN /\ subscribed \subseteq Types
  BY Zenon DEF Init
<1>4. /\ toPush \in Seq(Types) /\ toAgent \in Seq(Response)
      /\ toServer \in Seq(Request)
  BY DEF Init
<1> QED
  BY <1>1, <1>2, <1>3, <1>4 DEF Init, TypeOK

\* Every step keeps every variable in its type.
LEMMA TypeNext ==
    ASSUME TypeOK, ControlInv, [Next]_vars PROVE TypeOK'
<1> USE DEF TypeOK, storeVars, serverVars, clientVars
<1>1. ASSUME NEW t \in Types, Mutate(t) PROVE TypeOK'
  <2>1. store' \in [Types -> Nat] /\ unnotified' \in Nat
    <3> HIDE DEF TypeOK
    <3>1. store \in [Types -> Nat] /\ unnotified \in Nat
      BY DEF TypeOK
    <3>2. store' = [store EXCEPT ![t] = store[t] + 1] /\ unnotified' = unnotified + 1
      BY <1>1 DEF Mutate
    <3>3. store[t] + 1 \in Nat
      BY <3>1
    <3> QED
      BY <3>1, <3>2, <3>3
  <2> QED
    BY Zenon, <1>1, <2>1 DEF Mutate
<1>2. CASE Notify
  <2>1. watch' \in BOOLEAN
    BY <1>2, Zenon DEF Notify
  <2>2. unnotified' \in Nat
    BY <1>2 DEF Notify
  <2> QED
    BY <1>2, <2>1, <2>2 DEF Notify
<1>3. CASE OpenStream
  <2>1. toServer' \in Seq(Request)
    BY <1>3, RecordTypes DEF OpenStream, subscribeTypes, Types
  <2> QED
    BY <1>3, <2>1 DEF OpenStream
<1>4. CASE AcceptStream
  BY <1>4 DEF AcceptStream
<1>5. CASE BreakStream
  <2>1. ts' \in [Types -> TypeState]
    BY <1>5, RecordTypes DEF BreakStream
  <2>2. pushed' \in [Types -> Nat] /\ watch' \in BOOLEAN /\ subscribed' \subseteq Types
    BY Zenon, <1>5 DEF BreakStream
  <2>3. toPush' \in Seq(Types) /\ toServer' \in Seq(Request)
    BY <1>5 DEF BreakStream
  <2> QED
    BY <1>5, <2>1, <2>2, <2>3 DEF BreakStream
<1>6. CASE RecvFails
  BY <1>6 DEF RecvFails
<1>7. CASE OnSubscribe
  <2>1. Head(toServer) \in Request /\ toServer' \in Seq(Request)
    BY <1>7, HeadTailProperties DEF OnSubscribe
  <2>2. Head(toServer).type \in Types
    BY <2>1 DEF Request
  <2>3. subscribed' \subseteq Types /\ toPush' \in Seq(Types)
    BY <1>7, <2>2 DEF OnSubscribe
  <2> QED
    BY <1>7, <2>1, <2>3 DEF OnSubscribe
<1>8. CASE OnSettle
  <2>1. Head(toServer) \in Request /\ toServer' \in Seq(Request)
    BY <1>8, HeadTailProperties DEF OnSettle
  <2>2. Head(toServer).type \in Types
    BY <2>1 DEF Request
  <2>3. ts' \in [Types -> TypeState]
    BY <1>8, <2>2, TypeStateOps DEF OnSettle
  <2> QED
    BY <1>8, <2>1, <2>3 DEF OnSettle
<1>9. CASE OnStale
  <2>1. toServer' \in Seq(Request)
    BY <1>9, HeadTailProperties DEF OnStale
  <2> QED
    BY <1>9, <2>1 DEF OnStale
<1>10. CASE OnWatch
  <2>1. toPush' \in Seq(Types)
    BY <1>10, PushOrderFacts DEF OnWatch
  <2> QED
    BY Zenon, <1>10, <2>1 DEF OnWatch
<1>11. CASE ReadResources
  <2>1. Head(toPush) \in Types
    BY <1>11, HeadTailProperties DEF ReadResources, ControlInv
  <2> QED
    BY <1>11, <2>1 DEF ReadResources
<1>12. CASE SendResponse
  <2> DEFINE t == Head(toPush)
  <2>1. t \in Types /\ Tail(toPush) \in Seq(Types)
    BY <1>12, HeadTailProperties DEF SendResponse, ControlInv
  <2>2. ts[t] \in TypeState /\ nonceSeq + 1 \in Nat
    BY <2>1
  <2>3. ts' \in [Types -> TypeState]
    <3>1. preparePush(ts[t], nonceSeq + 1) \in TypeState
      BY Zenon, <2>2, TypeStateOps
    <3> QED
      BY <1>12, <2>1, <3>1 DEF SendResponse
  <2>4. [type |-> t, version |-> ts[t].sentVersion + 1,
         nonce |-> nonceSeq + 1, rev |-> resources] \in Response
    <3>1. ts[t].sentVersion + 1 \in Nat
      BY Zenon, <2>2, TypeStateOps
    <3> QED
      BY <2>1, <2>2, <3>1 DEF Response
  <2>5. toAgent' \in Seq(Response)
    BY <1>12, <2>4 DEF SendResponse
  <2>6. nonceSeq' \in Nat /\ pushed' \in [Types -> Nat]
    BY <1>12, <2>1 DEF SendResponse
  <2> QED
    BY Zenon, <1>12, <2>1, <2>3, <2>5, <2>6 DEF SendResponse
<1>13. CASE Recv
  <2>1. resp' \in Response /\ toAgent' \in Seq(Response)
    BY <1>13, HeadTailProperties DEF Recv
  <2> QED
    BY <1>13, <2>1 DEF Recv
<1>14. CASE ApplyOk
  BY <1>14 DEF ApplyOk, Response
<1>15. CASE ApplyFails
  BY <1>15 DEF ApplyFails
<1>16. CASE SendAck
  <2>1. [type |-> resp.type, version |-> resp.version,
         nonce |-> resp.nonce, error |-> FALSE] \in Request
    BY DEF Response, Request
  <2>2. toServer' \in Seq(Request)
    BY <1>16, <2>1 DEF SendAck, Deliver
  <2>3. resp' \in Response
    BY <1>16, RecordTypes DEF SendAck
  <2> QED
    BY <1>16, <2>2, <2>3 DEF SendAck
<1>17. CASE SendNack
  <2>1. [type |-> resp.type, version |-> accepted[resp.type],
         nonce |-> resp.nonce, error |-> TRUE] \in Request
    BY DEF Response, Request
  <2>2. toServer' \in Seq(Request)
    BY <1>17, <2>1 DEF SendNack, Deliver
  <2>3. resp' \in Response
    BY <1>17, RecordTypes DEF SendNack
  <2> QED
    BY <1>17, <2>2, <2>3 DEF SendNack
<1>18. CASE SendFails
  <2>1. resp' \in Response
    BY <1>18, RecordTypes DEF SendFails
  <2> QED
    BY <1>18, <2>1 DEF SendFails
<1>19. CASE PostApply
  BY <1>19 DEF PostApply, Types
<1>20. CASE UNCHANGED vars
  BY <1>20 DEF vars
<1> QED
  BY Zenon, <1>1, <1>2, <1>3, <1>4, <1>5, <1>6, <1>7, <1>8, <1>9, <1>10, <1>11, <1>12,
     <1>13, <1>14, <1>15, <1>16, <1>17, <1>18, <1>19, <1>20 DEF Next, Server, Client, Idle

\* The loops and the stream keep to their control states.
LEMMA ControlNext ==
    ASSUME TypeOK, ControlInv, [Next]_vars PROVE ControlInv'
<1> USE DEF ControlInv, storeVars, serverVars, clientVars
<1>1. ASSUME NEW t \in Types, Mutate(t) PROVE ControlInv'
  BY <1>1 DEF Mutate
<1>2. CASE Notify
  BY Zenon, <1>2 DEF Notify
<1>3. CASE OpenStream
  BY <1>3 DEF OpenStream
<1>4. CASE Server
  <2>1. CASE AcceptStream
    BY <2>1 DEF AcceptStream
  <2>2. CASE OnSubscribe
    BY <2>2 DEF OnSubscribe
  <2>3. CASE OnSettle
    BY <2>3 DEF OnSettle
  <2>4. CASE OnStale
    BY <2>4 DEF OnStale
  <2>5. CASE OnWatch
    BY Zenon, <2>5, PushOrderFacts DEF OnWatch, TypeOK
  <2>6. CASE ReadResources
    BY <2>6 DEF ReadResources
  <2>7. CASE SendResponse
    <3>1. Tail(toPush) = <<>> <=> Len(toPush) = 1
      <4>1. toPush \in Seq(Types) /\ toPush # <<>>
        BY <2>7 DEF SendResponse, TypeOK
      <4> QED
        BY <4>1, TailEmpty
    <3> QED
      BY <2>7, <3>1 DEF SendResponse
  <2> QED
    BY Zenon, <1>4, <2>1, <2>2, <2>3, <2>4, <2>5, <2>6, <2>7 DEF Server
<1>5. CASE BreakStream
  BY <1>5 DEF BreakStream
<1>6. CASE Client
  BY Zenon, <1>6 DEF Client, OpenStream, Recv, RecvFails, ApplyOk, ApplyFails, SendAck,
              PostApply, SendNack, SendFails, Deliver, TypeOK
<1>7. CASE UNCHANGED vars
  BY <1>7 DEF vars
<1> QED
  BY Zenon, <1>1, <1>2, <1>4, <1>5, <1>6, <1>7 DEF Next, Idle

LEMMA ControlInit == Init => ControlInv
BY DEF Init, ControlInv

\* Type correctness of the configuration channel.
THEOREM TypeCorrect == Spec => []TypeOK
BY TypeInit, TypeNext, ControlInit, ControlNext, PTL DEF Spec

-----------------------------------------------------------------------------
(* No lost update.                                                         *)

LEMMA ReadNext ==
    ASSUME TypeOK, ControlInv, ReadInv, [Next]_vars PROVE ReadInv'
<1> USE DEF ReadInv, storeVars, serverVars, clientVars
<1>1. ASSUME NEW t \in Types, Mutate(t) PROVE ReadInv'
  BY <1>1 DEF Mutate, TypeOK
<1>2. CASE Notify
  BY Zenon, <1>2 DEF Notify
<1>3. CASE Server
  BY <1>3 DEF Server, AcceptStream, OnSubscribe, OnSettle, OnStale, OnWatch,
              ReadResources, SendResponse
<1>4. CASE BreakStream
  BY <1>4 DEF BreakStream
<1>5. CASE Client
  BY <1>5 DEF Client, OpenStream, Recv, RecvFails, ApplyOk, ApplyFails, SendAck,
              PostApply, SendNack, SendFails
<1>6. CASE UNCHANGED vars
  BY <1>6 DEF vars
<1> QED
  BY <1>1, <1>2, <1>3, <1>4, <1>5, <1>6 DEF Next, Idle

LEMMA NoLostUpdateNext ==
    ASSUME TypeOK, ControlInv, ReadInv, NoLostUpdate, [Next]_vars
    PROVE  NoLostUpdate'
<1> SUFFICES ASSUME NEW t \in subscribed', pushed'[t] # store'[t]
             PROVE  watch' \/ unnotified' > 0 \/ WillPush(t)'
  BY DEF NoLostUpdate
<1> USE DEF storeVars, serverVars, clientVars
<1>1. ASSUME NEW u \in Types, Mutate(u) PROVE unnotified' > 0
  BY <1>1 DEF Mutate, TypeOK
<1>2. CASE Notify
  BY Zenon, <1>2 DEF Notify, ControlInv
<1>3. CASE AcceptStream
  BY <1>3 DEF AcceptStream, ControlInv
<1>4. CASE OnSubscribe
  <2>1. CASE t = Head(toServer).type
    <3>1. toPush' = <<t>> /\ srvPc' = "read"
      BY <1>4, <2>1 DEF OnSubscribe
    <3>2. 1 \in DOMAIN toPush' /\ toPush'[1] = t
      BY <3>1
    <3> QED
      BY <3>1, <3>2 DEF WillPush
  <2>2. CASE t # Head(toServer).type
    <3>1. t \in subscribed /\ pushed[t] # store[t] /\ toPush = <<>>
      BY Zenon, <1>4, <2>2 DEF OnSubscribe, ControlInv
    <3>2. ~WillPush(t)
      BY <3>1 DEF WillPush
    <3> QED
      BY Zenon, <1>4, <3>1, <3>2 DEF NoLostUpdate, OnSubscribe
  <2> QED
    BY <2>1, <2>2
<1>5. CASE OnSettle \/ OnStale
  <2>1. UNCHANGED <<store, unnotified, watch, srvPc, subscribed, toPush, pushed, resources>>
    BY <1>5 DEF OnSettle, OnStale
  <2>2. WillPush(t)' = WillPush(t)
    BY Zenon, <2>1 DEF WillPush
  <2> QED
    BY Zenon, <2>1, <2>2 DEF NoLostUpdate
<1>6. CASE OnWatch
  <2>1. PICK i \in DOMAIN pushOrder(subscribed) : pushOrder(subscribed)[i] = t
    BY Zenon, <1>6, PushOrderFacts DEF OnWatch, TypeOK
  <2>2. toPush' = pushOrder(subscribed) /\ srvPc' = "read"
    BY <1>6 DEF OnWatch
  <2> QED
    BY <2>1, <2>2 DEF WillPush
<1>7. CASE ReadResources
  <2>1. t \in subscribed /\ pushed[t] # store[t]
    BY <1>7 DEF ReadResources
  <2>2. CASE WillPush(t)
    <3>1. PICK i \in DOMAIN toPush : toPush[i] = t
      BY <2>2 DEF WillPush
    <3>2. CASE i = 1
      <4>1. resources' = store'[t]
        BY <1>7, <3>1, <3>2 DEF ReadResources, TypeOK
      <4> QED
        BY <1>7, <3>1, <4>1 DEF ReadResources, WillPush
    <3>3. CASE i > 1
      BY <1>7, <3>1, <3>3 DEF ReadResources, WillPush
    <3> QED
      BY <3>2, <3>3, LenProperties DEF TypeOK
  <2> QED
    BY <1>7, <2>1, <2>2 DEF NoLostUpdate, ReadResources
<1>8. CASE SendResponse
  <2>0. /\ Head(toPush) \in Types /\ Tail(toPush) \in Seq(Types)
        /\ Len(Tail(toPush)) = Len(toPush) - 1
        /\ \A i \in 1 .. Len(Tail(toPush)) : Tail(toPush)[i] = toPush[i + 1]
        /\ Len(toPush) \in Nat
    BY <1>8, HeadTailProperties, LenProperties DEF SendResponse, ControlInv, TypeOK
  <2>1. ASSUME NEW i \in DOMAIN toPush, i > 1, toPush[i] = t PROVE WillPush(t)'
    <3>1. i - 1 \in DOMAIN Tail(toPush) /\ Tail(toPush)[i - 1] = t
      <4>1. i \in 1 .. Len(toPush)
        BY <1>8, LenProperties DEF TypeOK
      <4>2. i - 1 \in 1 .. Len(Tail(toPush))
        BY <4>1, <2>0, <2>1
      <4>3. DOMAIN Tail(toPush) = 1 .. Len(Tail(toPush))
        BY <2>0, LenProperties
      <4> QED
        BY <4>1, <4>2, <4>3, <2>0, <2>1
    <3>2. Len(toPush) # 1
      BY <2>0, <2>1, LenProperties DEF TypeOK
    <3> QED
      BY <1>8, <3>1, <3>2 DEF SendResponse, WillPush
  <2>2. CASE t = Head(toPush)
    <3>1. pushed'[t] = resources /\ store' = store
      BY <1>8, <2>0, <2>2 DEF SendResponse, TypeOK
    <3> QED
      BY <1>8, <2>2, <3>1 DEF SendResponse, ReadInv
  <2>3. CASE t # Head(toPush)
    <3>1. t \in subscribed /\ pushed[t] # store[t]
      BY <1>8, <2>0, <2>3 DEF SendResponse, TypeOK
    <3>2. CASE WillPush(t)
      <4>1. PICK i \in DOMAIN toPush : toPush[i] = t
        BY <3>2 DEF WillPush
      <4>2. i > 1
        BY <4>1, <2>3, LenProperties DEF TypeOK
      <4> QED
        BY <2>1, <4>1, <4>2
    <3> QED
      BY <1>8, <3>1, <3>2 DEF NoLostUpdate, SendResponse
  <2> QED
    BY <2>2, <2>3
<1>9. CASE BreakStream
  BY <1>9 DEF BreakStream
<1>10. CASE Client
  <2>1. /\ UNCHANGED <<store, unnotified, watch, subscribed, pushed, toPush>>
        /\ UNCHANGED <<srvPc, resources>>
    BY <1>10 DEF Client, OpenStream, Recv, RecvFails, ApplyOk, ApplyFails, SendAck,
                 PostApply, SendNack, SendFails
  <2> QED
    BY <2>1 DEF NoLostUpdate, WillPush
<1>11. CASE UNCHANGED vars
  BY Zenon, <1>11 DEF vars, NoLostUpdate, WillPush
<1> QED
  BY <1>1, <1>2, <1>3, <1>4, <1>5, <1>6, <1>7, <1>8, <1>9, <1>10, <1>11
     DEF Next, Server, Idle

\* Every change of the Store reaches every subscribed stream: the coalescing
\* Watch channel never leaves a stream behind without a pending wake-up.
THEOREM NoUpdateIsLost == Spec => []NoLostUpdate
<1>1. Init => TypeOK /\ ControlInv /\ ReadInv /\ NoLostUpdate
  BY TypeInit, ControlInit DEF Init, ReadInv, NoLostUpdate
<1>2. TypeOK /\ ControlInv /\ ReadInv /\ NoLostUpdate /\ [Next]_vars
      => (TypeOK /\ ControlInv /\ ReadInv /\ NoLostUpdate)'
  BY TypeNext, ControlNext, ReadNext, NoLostUpdateNext
<1> QED
  BY <1>1, <1>2, PTL DEF Spec

-----------------------------------------------------------------------------
(* The agent never goes back.                                              *)

\* What can be read off a response in flight.
LEMMA ResponseFields ==
    ASSUME TypeOK
    PROVE  /\ \A i \in DOMAIN toAgent :
                 toAgent[i].type \in Types /\ toAgent[i].rev \in Nat /\ toAgent[i].nonce \in Nat
           /\ resp.type \in Types /\ resp.rev \in Nat /\ resp.nonce \in Nat
           /\ DOMAIN toAgent = 1 .. Len(toAgent) /\ Len(toAgent) \in Nat
<1>1. DOMAIN toAgent = 1 .. Len(toAgent) /\ Len(toAgent) \in Nat
  BY LenProperties DEF TypeOK
<1>2. \A i \in DOMAIN toAgent : toAgent[i] \in Response
  BY <1>1, ElementOfSeq DEF TypeOK
<1>3. resp \in Response
  BY DEF TypeOK
<1> QED
  BY Zenon, <1>1, <1>2, <1>3 DEF Response

LEMMA RevNext ==
    ASSUME TypeOK, TypeOK', ControlInv, RevInv, [Next]_vars PROVE RevInv'
<1> USE DEF storeVars, serverVars, clientVars
<1>0. ASSUME NEW q \in {"read", "send"}, srvPc = q PROVE Head(toPush) \in Types
  BY <1>0, HeadTailProperties DEF ControlInv, TypeOK
<1>1. ASSUME NEW t \in Types, Mutate(t) PROVE RevInv'
  <2>1. \A u \in Types : store[u] \in Nat /\ store'[u] \in Nat /\ store[u] <= store'[u]
    <3>1. store \in [Types -> Nat] /\ store' = [store EXCEPT ![t] = @ + 1]
      BY <1>1 DEF Mutate, TypeOK
    <3> QED
      BY <3>1
  <2>2. /\ \A u \in Types : applied[u] \in Nat
        /\ resources \in Nat
        /\ UNCHANGED <<applied, toAgent, cliPc, resp, srvPc, toPush, resources>>
    BY <1>1 DEF Mutate, TypeOK
  <2> QED
    <3>1. \A u \in Types, n \in Nat : n <= store[u] => n <= store'[u]
      BY <2>1
    <3>2. \A i \in DOMAIN toAgent : toAgent[i].rev <= store'[toAgent[i].type]
      BY <3>1, ResponseFields DEF RevInv
    <3>3. \A u \in Types : applied[u] <= store'[u]
      BY <2>2, <3>1 DEF RevInv
    <3>4. cliPc = "apply" => resp.rev <= store'[resp.type]
      BY <3>1, ResponseFields DEF RevInv
    <3>5. srvPc = "send" => resources <= store'[Head(toPush)]
      BY <2>2, <3>1, <1>0 DEF RevInv
    <3> QED
      BY <2>2, <3>2, <3>3, <3>4, <3>5 DEF RevInv
<1>2. CASE Notify
  BY <1>2 DEF Notify, RevInv
<1>3. CASE AcceptStream \/ OnSubscribe \/ OnSettle \/ OnStale \/ OnWatch
  BY Zenon, <1>3 DEF AcceptStream, OnSubscribe, OnSettle, OnStale, OnWatch, RevInv
<1>4. CASE ReadResources
  <2>0. srvPc = "read" /\ store \in [Types -> Nat]
    BY <1>4 DEF ReadResources, TypeOK
  <2>1. /\ Head(toPush) \in Types /\ resources' = store[Head(toPush)]
        /\ store[Head(toPush)] \in Nat
        /\ UNCHANGED <<applied, store, toAgent, cliPc, resp, toPush>>
    <3>1. Head(toPush) \in Types
      BY <2>0, <1>0
    <3>2. /\ resources' = store[Head(toPush)]
          /\ UNCHANGED <<applied, store, toAgent, cliPc, resp, toPush>>
      BY <1>4 DEF ReadResources
    <3> QED
      BY <2>0, <3>1, <3>2
  <2>2. /\ applied[Head(toPush)] <= resources'
        /\ resources' <= store[Head(toPush)]
    BY <2>1 DEF RevInv
  <2>3. \A i \in DOMAIN toAgent :
          toAgent[i].type = Head(toPush) => toAgent[i].rev <= resources'
    BY <2>1 DEF RevInv
  <2>4. cliPc = "apply" /\ resp.type = Head(toPush) => resp.rev <= resources'
    BY <2>1 DEF RevInv
  <2> QED
    BY Zenon, <2>1, <2>2, <2>3, <2>4 DEF RevInv
<1>5. CASE SendResponse
  <2> DEFINE t == Head(toPush)
             m == [type |-> t, version |-> ts[t].sentVersion + 1,
                   nonce |-> nonceSeq + 1, rev |-> resources]
  <2>1. m \in Response
    <3>1. toAgent' = Append(toAgent, m) /\ toAgent' \in Seq(Response)
      BY <1>5 DEF SendResponse, TypeOK
    <3>2. t \in Types /\ ts[t] \in TypeState /\ nonceSeq + 1 \in Nat /\ resources \in Nat
      BY <1>5, <1>0 DEF SendResponse, TypeOK
    <3>3. ts[t].sentVersion + 1 \in Nat
      BY Zenon, <3>2, TypeStateOps
    <3> QED
      BY <3>2, <3>3 DEF Response
  <2>2. /\ DOMAIN toAgent' = 1 .. Len(toAgent) + 1
        /\ \A i \in DOMAIN toAgent : toAgent'[i] = toAgent[i]
        /\ toAgent'[Len(toAgent) + 1] = m
    <3>1. toAgent' = Append(toAgent, m) /\ toAgent \in Seq(Response)
      BY <1>5 DEF SendResponse, TypeOK
    <3> HIDE DEF m
    <3> QED
      BY <2>1, <3>1, AppendProperties, LenProperties
  <2>3. m.type = t /\ m.rev = resources
    OBVIOUS
  <2>4. /\ UNCHANGED <<applied, store, cliPc, resp>>
        /\ srvPc = "send" /\ srvPc' # "send"
    BY <1>5 DEF SendResponse
  <2> HIDE DEF m
  <2>5. \A i \in DOMAIN toAgent' : i \in DOMAIN toAgent \/ i = Len(toAgent) + 1
    BY <2>2, ResponseFields
  <2>6. \A i \in DOMAIN toAgent' :
          /\ applied[toAgent'[i].type] <= toAgent'[i].rev
          /\ toAgent'[i].rev <= store[toAgent'[i].type]
          /\ cliPc = "apply" /\ toAgent'[i].type = resp.type => resp.rev <= toAgent'[i].rev
    BY <2>2, <2>3, <2>4, <2>5 DEF RevInv
  <2>7. \A i, j \in DOMAIN toAgent' :
          i < j /\ toAgent'[i].type = toAgent'[j].type => toAgent'[i].rev <= toAgent'[j].rev
    BY <2>2, <2>3, <2>4, <2>5, ResponseFields DEF RevInv
  <2> QED
    BY <2>4, <2>6, <2>7 DEF RevInv
<1>6. CASE BreakStream
  BY <1>6 DEF BreakStream, RevInv
<1>7. CASE RecvFails \/ SendFails
  BY <1>7, SMTT(30) DEF RecvFails, SendFails, RevInv
<1>8. CASE OpenStream \/ ApplyFails \/ SendAck \/ PostApply \/ SendNack
  BY Zenon, <1>8 DEF OpenStream, ApplyFails, SendAck, PostApply, SendNack, RevInv
<1>9. CASE Recv
  <2>1. /\ resp' = toAgent[1] /\ 1 \in DOMAIN toAgent
        /\ DOMAIN toAgent' = 1 .. Len(toAgent) - 1
        /\ \A i \in DOMAIN toAgent' : i + 1 \in DOMAIN toAgent /\ toAgent'[i] = toAgent[i + 1]
    BY <1>9, HeadTailProperties, LenProperties, EmptySeq DEF Recv, TypeOK
  <2>2. UNCHANGED <<applied, store, srvPc, toPush, resources>>
    BY <1>9 DEF Recv
  <2>3. \A i, j \in DOMAIN toAgent' : i < j <=> i + 1 < j + 1
    BY <2>1, ResponseFields
  <2>4. \A i \in DOMAIN toAgent' : 1 < i + 1
    BY <2>1, ResponseFields
  <2> QED
    BY <2>1, <2>2, <2>3, <2>4, SMTT(30) DEF RevInv
<1>10. CASE ApplyOk
  <2>1. /\ applied'[resp.type] = resp.rev
        /\ \A t \in Types : t # resp.type => applied'[t] = applied[t]
        /\ UNCHANGED <<store, toAgent, srvPc, toPush, resources, resp>>
        /\ cliPc = "apply" /\ cliPc' = "ack"
    BY <1>10, ResponseFields DEF ApplyOk, TypeOK
  <2> QED
    BY <2>1, <1>0, ResponseFields DEF RevInv
<1>11. CASE UNCHANGED vars
  BY <1>11 DEF vars, RevInv
<1> QED
  BY <1>1, <1>2, <1>3, <1>4, <1>5, <1>6, <1>7, <1>8, <1>9, <1>10, <1>11
     DEF Next, Server, Client, Idle

\* The detailed channel implements its promise: the agent only ever moves to a
\* later content that the Store really had.
THEOREM ChannelImplementsConfigSync == Spec => ImplementsConfigSync
<1>1. Init => Sync!Init
  BY DEF Init, Sync!Init
<1>2. ASSUME TypeOK, RevInv, [Next]_vars PROVE [Sync!Next]_(Sync!vars)
  <2> USE DEF storeVars, serverVars, clientVars, Sync!vars
  <2>1. ASSUME NEW t \in Types, Mutate(t) PROVE Sync!Change(t)
    BY <2>1 DEF Mutate, Sync!Change
  <2>2. CASE ApplyOk
    <3>1. resp.type \in Types /\ resp.rev \in Nat /\ applied[resp.type] \in Nat
      BY <1>2, ResponseFields DEF TypeOK
    <3>2. applied[resp.type] <= resp.rev /\ resp.rev <= store[resp.type]
      BY <1>2, <2>2 DEF ApplyOk, RevInv
    <3>3. CASE applied[resp.type] = resp.rev
      BY <1>2, <2>2, <3>3, <3>1 DEF ApplyOk, TypeOK
    <3>4. CASE applied[resp.type] # resp.rev
      <4>1. resp.rev \in applied[resp.type] + 1 .. store[resp.type]
        BY <1>2, <3>1, <3>2, <3>4 DEF TypeOK
      <4>2. Sync!CatchUp(resp.type)
        BY Zenon, <2>2, <4>1 DEF ApplyOk, Sync!CatchUp
      <4> QED
        BY <3>1, <4>2 DEF Sync!Next
    <3> QED
      BY <3>3, <3>4
  <2>3. CASE Notify \/ BreakStream \/ Server \/ Idle
    BY Zenon, <2>3 DEF Notify, BreakStream, Server, AcceptStream, OnSubscribe, OnSettle,
                OnStale, OnWatch, ReadResources, SendResponse, Idle, vars
  <2>4. CASE \/ OpenStream \/ Recv \/ RecvFails \/ ApplyFails
              \/ SendAck \/ PostApply \/ SendNack \/ SendFails
    BY Zenon, <2>4 DEF OpenStream, Recv, RecvFails, ApplyFails, SendAck, PostApply,
                       SendNack, SendFails
  <2>5. CASE UNCHANGED vars
    BY <2>5 DEF vars
  <2> QED
    BY <1>2, <2>1, <2>2, <2>3, <2>4, <2>5 DEF Next, Client, Sync!Next
<1>3. Init => TypeOK /\ ControlInv /\ RevInv
  BY TypeInit, ControlInit, SMTT(30) DEF Init, RevInv, Types
<1>4. TypeOK /\ ControlInv /\ RevInv /\ [Next]_vars => (TypeOK /\ ControlInv /\ RevInv)'
  BY TypeNext, ControlNext, RevNext
<1> QED
  BY <1>1, <1>2, <1>3, <1>4, PTL DEF Spec, ImplementsConfigSync, Sync!Spec

-----------------------------------------------------------------------------
(* What an ACK means.                                                      *)

\* The fields that settle writes.
LEMMA SettleFields ==
    ASSUME NEW s \in TypeState, NEW kind \in {"ack", "nack"}
    PROVE  /\ settle(s, kind).sentVersion = s.sentVersion
           /\ settle(s, kind).ackedVersion \in {s.ackedVersion, s.sentVersion}
           /\ kind = "nack" => settle(s, kind).ackedVersion = s.ackedVersion
           /\ settle(s, kind).lastNonce = 0
           /\ settle(s, kind).hasOutstanding = FALSE
BY DEF settle, TypeState

\* The fields that preparePush writes.
LEMMA PushFields ==
    ASSUME NEW s \in TypeState, NEW n \in Nat
    PROVE  /\ preparePush(s, n).sentVersion = s.sentVersion + 1
           /\ preparePush(s, n).ackedVersion = s.ackedVersion
           /\ preparePush(s, n).lastNonce = n
           /\ preparePush(s, n).hasOutstanding = TRUE
BY DEF preparePush, TypeState

\* The counters of a typeState are natural numbers.
LEMMA TypeStateNat ==
    ASSUME NEW s \in TypeState
    PROVE  s.sentVersion \in Nat /\ s.ackedVersion \in Nat /\ s.lastNonce \in Nat
BY DEF TypeState

\* What can be read off a request in flight.
LEMMA RequestFields ==
    ASSUME TypeOK
    PROVE  /\ DOMAIN toServer = 1 .. Len(toServer) /\ Len(toServer) \in Nat
           /\ \A j \in DOMAIN toServer :
                 toServer[j].type \in Types /\ toServer[j].nonce \in Nat
<1>1. DOMAIN toServer = 1 .. Len(toServer) /\ Len(toServer) \in Nat
  BY LenProperties DEF TypeOK
<1>2. \A j \in DOMAIN toServer : toServer[j] \in Request
  BY <1>1, ElementOfSeq DEF TypeOK
<1> QED
  BY <1>1, <1>2 DEF Request

\* A request taken off the queue: what remains, and what it was.
LEMMA TakeRequest ==
    ASSUME TypeOK, toServer # <<>>, toServer' = Tail(toServer)
    PROVE  /\ 1 \in DOMAIN toServer /\ Head(toServer) = toServer[1]
           /\ \A j \in DOMAIN toServer' :
                 j + 1 \in DOMAIN toServer /\ toServer'[j] = toServer[j + 1]
BY HeadTailProperties, LenProperties, EmptySeq DEF TypeOK

\* A settled push: its request carried the nonce of the outstanding push.
LEMMA SettleFacts ==
    ASSUME TypeOK, OnSettle
    PROVE  LET req  == toServer[1]
               kind == classify(ts[req.type], req)
           IN  /\ kind \in {"ack", "nack"}
               /\ req.type \in Types
               /\ ts[req.type].hasOutstanding
               /\ req.nonce # 0 /\ req.nonce = ts[req.type].lastNonce
               /\ kind = "ack" => ~req.error
               /\ ts'[req.type] = settle(ts[req.type], kind)
               /\ \A t \in Types : t # req.type => ts'[t] = ts[t]
<1>1. toServer # <<>> /\ toServer' = Tail(toServer)
  BY DEF OnSettle
<1>2. 1 \in DOMAIN toServer /\ Head(toServer) = toServer[1] /\ toServer[1].type \in Types
  BY <1>1, TakeRequest, RequestFields
<1> QED
  BY <1>2 DEF OnSettle, classify, TypeOK

\* A sent push: the typeState of its type, and nothing else, moves on.
LEMMA PushFacts ==
    ASSUME TypeOK, ControlInv, SendResponse
    PROVE  LET t == Head(toPush) IN
           /\ t \in Types
           /\ ts'[t] = preparePush(ts[t], nonceSeq + 1)
           /\ \A u \in Types : u # t => ts'[u] = ts[u] /\ pushed'[u] = pushed[u]
           /\ pushed'[t] = resources
           /\ nonceSeq + 1 \in Nat /\ nonceSeq' = nonceSeq + 1 /\ nonceSeq < nonceSeq'
           /\ \A u \in Types : ts[u] \in TypeState
<1>1. Head(toPush) \in Types
  BY HeadTailProperties DEF ControlInv, TypeOK, SendResponse
<1> QED
  BY <1>1 DEF SendResponse, TypeOK

LEMMA VersionNext ==
    ASSUME TypeOK, ControlInv, VersionInv, [Next]_vars PROVE VersionInv'
<1> USE DEF storeVars, serverVars, clientVars
<1>1. CASE OnSettle
  <2> DEFINE r == toServer[1].type
  <2>1. nonceSeq' = nonceSeq /\ nonceSeq \in Nat
    BY <1>1 DEF OnSettle, TypeOK
  <2>2. \A t \in Types : t # r => ts'[t] = ts[t]
    BY <1>1, SettleFacts
  <2>3. PICK kind \in {"ack", "nack"} :
          r \in Types /\ ts'[r] = settle(ts[r], kind) /\ ts[r] \in TypeState
    BY <1>1, SettleFacts DEF TypeOK
  <2>4. /\ ts'[r].sentVersion = ts[r].sentVersion
        /\ ts'[r].ackedVersion \in {ts[r].ackedVersion, ts[r].sentVersion}
        /\ ts'[r].lastNonce = 0 /\ ts'[r].hasOutstanding = FALSE
        /\ ts[r].sentVersion \in Nat
    <3> HIDE DEF r
    <3>1. /\ settle(ts[r], kind).sentVersion = ts[r].sentVersion
          /\ settle(ts[r], kind).ackedVersion \in {ts[r].ackedVersion, ts[r].sentVersion}
          /\ settle(ts[r], kind).lastNonce = 0
          /\ settle(ts[r], kind).hasOutstanding = FALSE
      BY Zenon, <2>3, SettleFields
    <3>2. ts[r].sentVersion \in Nat
      BY <2>3, TypeStateNat
    <3> QED
      BY Zenon, <2>3, <3>1, <3>2
  <2> HIDE DEF r
  <2>5. /\ ts'[r].ackedVersion <= ts'[r].sentVersion
        /\ ~ts'[r].hasOutstanding /\ ts'[r].lastNonce <= nonceSeq'
    BY <2>1, <2>3, <2>4, SMTT(30) DEF VersionInv
  <2> QED
    BY <2>1, <2>2, <2>5 DEF VersionInv
<1>2. CASE SendResponse
  <2> DEFINE t == Head(toPush)
  <2>1. /\ t \in Types /\ ts[t] \in TypeState /\ nonceSeq' \in Nat
        /\ ts'[t] = preparePush(ts[t], nonceSeq')
        /\ \A u \in Types : u # t => ts'[u] = ts[u]
        /\ \A u \in Types : ts[u] \in TypeState
    BY Zenon, <1>2, PushFacts DEF TypeOK
  <2>0. nonceSeq' = nonceSeq + 1 /\ nonceSeq \in Nat
    BY <1>2, PushFacts DEF TypeOK
  <2>2. /\ ts'[t].sentVersion = ts[t].sentVersion + 1
        /\ ts'[t].ackedVersion = ts[t].ackedVersion
        /\ ts'[t].lastNonce = nonceSeq'
        /\ ts[t].sentVersion \in Nat /\ ts[t].ackedVersion \in Nat
    <3>1. ts[t] \in TypeState /\ nonceSeq' \in Nat
      BY <2>1
    <3>2. /\ preparePush(ts[t], nonceSeq').sentVersion = ts[t].sentVersion + 1
          /\ preparePush(ts[t], nonceSeq').ackedVersion = ts[t].ackedVersion
          /\ preparePush(ts[t], nonceSeq').lastNonce = nonceSeq'
      BY Zenon, <3>1, PushFields
    <3>3. ts[t].sentVersion \in Nat /\ ts[t].ackedVersion \in Nat
      BY <3>1, TypeStateNat
    <3> QED
      BY <2>1, <3>2, <3>3
  <2> HIDE DEF t
  <2>3. /\ ts'[t].ackedVersion < ts'[t].sentVersion
        /\ ts'[t].lastNonce <= nonceSeq'
    BY <2>0, <2>1, <2>2 DEF VersionInv
  <2>4. \A u \in Types : ts[u].lastNonce \in Nat
    BY <2>1, TypeStateNat
  <2>5. \A u \in Types : u # t => ts'[u].lastNonce <= nonceSeq'
    BY <2>0, <2>1, <2>4 DEF VersionInv
  <2>6. ts'[t].ackedVersion <= ts'[t].sentVersion
    BY <2>0, <2>1, <2>2 DEF VersionInv
  <2> QED
    BY <2>1, <2>3, <2>5, <2>6 DEF VersionInv
<1>3. CASE BreakStream
  BY <1>3 DEF BreakStream, VersionInv, NewTypeState
<1>4. CASE UNCHANGED <<ts, nonceSeq>>
  BY <1>4 DEF VersionInv
<1>5. ASSUME NEW t \in Types, Mutate(t) PROVE UNCHANGED <<ts, nonceSeq>>
  BY <1>5 DEF Mutate
<1>6. CASE Notify \/ Idle \/ UNCHANGED vars
  BY <1>6, <1>4 DEF Notify, Idle, vars
<1>7. CASE AcceptStream \/ OnSubscribe \/ OnStale \/ OnWatch \/ ReadResources
  BY <1>7, <1>4 DEF AcceptStream, OnSubscribe, OnStale, OnWatch, ReadResources
<1>8. CASE Client
  BY <1>8, <1>4 DEF Client, OpenStream, Recv, RecvFails, ApplyOk, ApplyFails,
                    SendAck, PostApply, SendNack, SendFails
<1> QED
  BY <1>1, <1>2, <1>3, <1>4, <1>5, <1>6, <1>7, <1>8 DEF Next, Server

\* A response taken off the queue.
LEMMA TakeResponse ==
    ASSUME TypeOK, Recv
    PROVE  /\ resp' = toAgent[1] /\ 1 \in DOMAIN toAgent
           /\ \A i \in DOMAIN toAgent' :
                 /\ i + 1 \in DOMAIN toAgent /\ toAgent'[i] = toAgent[i + 1]
                 /\ 1 < i + 1
           /\ \A i, j \in DOMAIN toAgent' : i < j => i + 1 < j + 1
<1>1. /\ resp' = toAgent[1] /\ 1 \in DOMAIN toAgent
      /\ DOMAIN toAgent' = 1 .. Len(toAgent) - 1
      /\ \A i \in DOMAIN toAgent' : i + 1 \in DOMAIN toAgent /\ toAgent'[i] = toAgent[i + 1]
  BY HeadTailProperties, LenProperties, EmptySeq DEF Recv, TypeOK
<1> QED
  BY <1>1, ResponseFields

\* A request put on the queue of a live stream.
LEMMA PutRequest ==
    ASSUME TypeOK, NEW req \in Request, conn = "open", Deliver(req)
    PROVE  \A j \in DOMAIN toServer' :
              \/ j \in DOMAIN toServer /\ toServer'[j] = toServer[j]
              \/ toServer'[j] = req
<1>1. /\ toServer' = Append(toServer, req) /\ toServer \in Seq(Request)
      /\ Len(toServer) \in Nat
  BY LenProperties DEF Deliver, TypeOK
<1>2. toServer' \in Seq(Request) /\ Len(toServer') = Len(toServer) + 1
  BY <1>1, AppendProperties
<1>3. DOMAIN toServer' = 1 .. Len(toServer) + 1 /\ DOMAIN toServer = 1 .. Len(toServer)
  BY <1>1, <1>2, LenProperties
<1> QED
  BY <1>1, <1>3, AppendProperties

\* The response that a push puts on the queue.
LEMMA PutResponse ==
    ASSUME TypeOK, ControlInv, SendResponse
    PROVE  /\ DOMAIN toAgent' = 1 .. Len(toAgent) + 1
           /\ \A i \in DOMAIN toAgent : toAgent'[i] = toAgent[i]
           /\ toAgent'[Len(toAgent) + 1].type = Head(toPush)
           /\ toAgent'[Len(toAgent) + 1].nonce = nonceSeq'
           /\ toAgent'[Len(toAgent) + 1].rev = resources
           /\ \A i \in DOMAIN toAgent' : i \in DOMAIN toAgent \/ i = Len(toAgent) + 1
<1> DEFINE t == Head(toPush)
           m == [type |-> t, version |-> ts[t].sentVersion + 1,
                 nonce |-> nonceSeq + 1, rev |-> resources]
<1>1. t \in Types /\ ts[t] \in TypeState /\ nonceSeq + 1 \in Nat /\ resources \in Nat
  BY PushFacts DEF TypeOK
<1>2. m \in Response
  <2>1. ts[t].sentVersion + 1 \in Nat
    BY <1>1, TypeStateOps
  <2> QED
    BY <1>1, <2>1 DEF Response
<1>3. m.type = t /\ m.nonce = nonceSeq' /\ m.rev = resources
  BY DEF SendResponse
<1>4. toAgent' = Append(toAgent, m) /\ toAgent \in Seq(Response)
  BY DEF SendResponse, TypeOK
<1> HIDE DEF m
<1>5. /\ DOMAIN toAgent' = 1 .. Len(toAgent) + 1
      /\ \A i \in DOMAIN toAgent : toAgent'[i] = toAgent[i]
      /\ toAgent'[Len(toAgent) + 1] = m
  BY <1>2, <1>4, AppendProperties, LenProperties
<1> QED
  BY <1>3, <1>5, ResponseFields

LEMMA NonceNext ==
    ASSUME TypeOK, TypeOK', ControlInv, VersionInv, NonceInv, [Next]_vars
    PROVE  NonceInv'
<1> USE DEF storeVars, serverVars, clientVars
<1>1. CASE UNCHANGED <<conn, toAgent, toServer, cliPc, resp, ts, pushed, applied, nonceSeq>>
  BY Zenon, <1>1 DEF NonceInv
<1>2. CASE conn' # "open"
  BY Zenon, <1>2 DEF NonceInv
<1>3. CASE OpenStream
  <2>1. toAgent' = <<>> /\ cliPc' = "recv"
    BY <1>3 DEF OpenStream, ControlInv
  <2>2. \A j \in DOMAIN toServer' : toServer'[j].nonce = 0
    BY <1>3 DEF OpenStream, subscribeTypes, Subscription
  <2>3. nonceSeq' \in Nat
    BY DEF TypeOK
  <2> QED
    BY <2>1, <2>2, <2>3, SMTT(30) DEF NonceInv
<1>4. CASE OnSubscribe \/ OnStale
  <2>1. /\ toServer # <<>> /\ toServer' = Tail(toServer)
        /\ UNCHANGED <<conn, toAgent, cliPc, resp, ts, pushed, applied, nonceSeq>>
    BY <1>4 DEF OnSubscribe, OnStale
  <2>2. \A j \in DOMAIN toServer' :
          j + 1 \in DOMAIN toServer /\ toServer'[j] = toServer[j + 1]
    BY <2>1, TakeRequest
  <2> SUFFICES ASSUME conn = "open" PROVE NonceInv'
    BY Zenon, <2>1 DEF NonceInv
  <2>3. \A j \in DOMAIN toServer' : toServer'[j].nonce <= nonceSeq
    BY Zenon, <2>2 DEF NonceInv
  <2>4. \A i \in DOMAIN toAgent, j \in DOMAIN toServer' :
          toServer'[j].nonce < toAgent[i].nonce
    BY Zenon, <2>2 DEF NonceInv
  <2>5. cliPc \notin {"recv", "post"} => \A j \in DOMAIN toServer' : toServer'[j].nonce < resp.nonce
    BY Zenon, <2>2 DEF NonceInv
  <2> QED
    BY Zenon, <2>1, <2>3, <2>4, <2>5 DEF NonceInv
<1>5. CASE OnSettle
  <2> DEFINE r == toServer[1].type
  <2>1. /\ toServer # <<>> /\ toServer' = Tail(toServer)
        /\ UNCHANGED <<conn, toAgent, cliPc, resp, pushed, applied, nonceSeq>>
    BY Zenon, <1>5 DEF OnSettle
  <2>2. /\ 1 \in DOMAIN toServer
        /\ \A j \in DOMAIN toServer' :
              j + 1 \in DOMAIN toServer /\ toServer'[j] = toServer[j + 1]
    BY <2>1, TakeRequest
  <2>3. /\ toServer[1].nonce = ts[r].lastNonce
        /\ \A t \in Types : t # r => ts'[t] = ts[t]
    BY <1>5, SettleFacts
  <2>a. toServer[1].nonce \in Nat
    BY <2>2, RequestFields
  <2> HIDE DEF r
  <2> SUFFICES ASSUME conn = "open" PROVE NonceInv'
    BY Zenon, <2>1 DEF NonceInv
  <2>4. \A i \in DOMAIN toAgent : ts'[toAgent[i].type] = ts[toAgent[i].type]
    <3> TAKE i \in DOMAIN toAgent
    <3>1. /\ toServer[1].nonce < toAgent[i].nonce
          /\ toAgent[i].nonce <= ts[toAgent[i].type].lastNonce
      BY Zenon, <2>2 DEF NonceInv
    <3>2. toAgent[i].type \in Types /\ toAgent[i].nonce \in Nat
      BY ResponseFields
    <3>3. toAgent[i].type # r
      BY <2>a, <2>3, <3>1, <3>2
    <3> QED
      BY <2>3, <3>2, <3>3
  <2>5. cliPc \notin {"recv", "post"} => ts'[resp.type] = ts[resp.type]
    <3> HAVE cliPc \notin {"recv", "post"}
    <3>1. /\ toServer[1].nonce < resp.nonce
          /\ resp.nonce <= ts[resp.type].lastNonce
      BY Zenon, <2>2 DEF NonceInv
    <3>2. resp.type \in Types /\ resp.nonce \in Nat
      BY ResponseFields
    <3>3. resp.type # r
      BY <2>a, <2>3, <3>1, <3>2
    <3> QED
      BY <2>3, <3>2, <3>3
  <2>6. \A j \in DOMAIN toServer' : toServer'[j].nonce <= nonceSeq
    BY Zenon, <2>2 DEF NonceInv
  <2>7. \A i \in DOMAIN toAgent, j \in DOMAIN toServer' :
          toServer'[j].nonce < toAgent[i].nonce
    BY Zenon, <2>2 DEF NonceInv
  <2>8. cliPc \notin {"recv", "post"} => \A j \in DOMAIN toServer' : toServer'[j].nonce < resp.nonce
    BY Zenon, <2>2 DEF NonceInv
  <2> QED
    BY Zenon, <2>1, <2>4, <2>5, <2>6, <2>7, <2>8 DEF NonceInv
<1>6. CASE SendResponse
  <2> DEFINE t == Head(toPush)
             n == nonceSeq'
  <2>1. /\ t \in Types
        /\ ts'[t].lastNonce = n /\ ts'[t].hasOutstanding = TRUE
        /\ \A u \in Types : u # t => ts'[u] = ts[u] /\ pushed'[u] = pushed[u]
        /\ pushed'[t] = resources
        /\ n \in Nat /\ n > 0
        /\ \A u \in Types : ts[u].lastNonce \in Nat /\ ts[u].lastNonce < n
    <3>1. /\ t \in Types /\ ts[t] \in TypeState
          /\ ts'[t] = preparePush(ts[t], n)
          /\ \A u \in Types : u # t => ts'[u] = ts[u] /\ pushed'[u] = pushed[u]
          /\ pushed'[t] = resources
          /\ \A u \in Types : ts[u] \in TypeState
      BY Zenon, <1>6, PushFacts
    <3>2. n \in Nat /\ n = nonceSeq + 1 /\ nonceSeq \in Nat
      BY <1>6, PushFacts DEF TypeOK
    <3>3. \A u \in Types : ts[u].lastNonce \in Nat
      BY Zenon, <3>1, TypeStateNat
    <3>4. \A u \in Types : ts[u].lastNonce < n
      BY <3>2, <3>3 DEF VersionInv
    <3>5. preparePush(ts[t], n).lastNonce = n /\ preparePush(ts[t], n).hasOutstanding = TRUE
      BY Zenon, <3>1, <3>2, PushFields
    <3>6. n > 0
      BY <3>2
    <3> QED
      BY <3>1, <3>2, <3>3, <3>4, <3>5, <3>6
  <2>2. /\ UNCHANGED <<conn, toServer, cliPc, resp, applied>>
        /\ nonceSeq < n /\ nonceSeq \in Nat
    BY <1>6, PushFacts DEF SendResponse, TypeOK
  <2>3. /\ \A i \in DOMAIN toAgent : toAgent'[i] = toAgent[i]
        /\ toAgent'[Len(toAgent) + 1].type = t
        /\ toAgent'[Len(toAgent) + 1].nonce = n
        /\ toAgent'[Len(toAgent) + 1].rev = resources
        /\ \A i \in DOMAIN toAgent' : i \in DOMAIN toAgent \/ i = Len(toAgent) + 1
    BY <1>6, PutResponse
  <2> HIDE DEF t, n
  <2> SUFFICES ASSUME conn = "open" PROVE NonceInv'
    BY Zenon, <2>2 DEF NonceInv
  <2>4. \A i \in DOMAIN toAgent :
          /\ toAgent[i].nonce < n
          /\ toAgent[i].nonce <= ts'[toAgent[i].type].lastNonce
          /\ ts'[toAgent[i].type].hasOutstanding
          /\ toAgent[i].nonce = ts'[toAgent[i].type].lastNonce =>
                toAgent[i].rev = pushed'[toAgent[i].type]
    <3> TAKE i \in DOMAIN toAgent
    <3>1. toAgent[i].type \in Types /\ toAgent[i].nonce \in Nat
      BY ResponseFields
    <3>2. /\ toAgent[i].nonce <= ts[toAgent[i].type].lastNonce
          /\ ts[toAgent[i].type].hasOutstanding
          /\ toAgent[i].nonce = ts[toAgent[i].type].lastNonce =>
                toAgent[i].rev = pushed[toAgent[i].type]
      BY Zenon DEF NonceInv
    <3>3. CASE toAgent[i].type = t
      BY <2>1, <3>1, <3>2, <3>3
    <3>4. CASE toAgent[i].type # t
      BY <2>1, <3>1, <3>2, <3>4
    <3> QED
      BY <3>3, <3>4
  <2>5. cliPc \notin {"recv", "post"} =>
          /\ resp.nonce < n
          /\ resp.nonce <= ts'[resp.type].lastNonce
          /\ ts'[resp.type].hasOutstanding
          /\ resp.nonce = ts'[resp.type].lastNonce => resp.rev = pushed'[resp.type]
    <3>1. resp.type \in Types /\ resp.nonce \in Nat
      BY ResponseFields
    <3>2. cliPc \notin {"recv", "post"} =>
            /\ resp.nonce <= ts[resp.type].lastNonce
            /\ ts[resp.type].hasOutstanding
            /\ resp.nonce = ts[resp.type].lastNonce => resp.rev = pushed[resp.type]
      BY DEF NonceInv
    <3>3. CASE resp.type = t
      BY <2>1, <3>1, <3>2, <3>3
    <3>4. CASE resp.type # t
      BY <2>1, <3>1, <3>2, <3>4
    <3> QED
      BY <3>3, <3>4
  <2>6. \A j \in DOMAIN toServer : toServer[j].nonce < n /\ toServer[j].nonce <= n
    <3>1. \A j \in DOMAIN toServer : toServer[j].nonce <= nonceSeq
      BY Zenon DEF NonceInv
    <3>2. \A j \in DOMAIN toServer : toServer[j].nonce \in Nat
      BY RequestFields
    <3> QED
      BY <2>1, <2>2, <3>1, <3>2
  <2>7. \A i \in DOMAIN toAgent' :
          /\ toAgent'[i].nonce > 0
          /\ toAgent'[i].nonce <= ts'[toAgent'[i].type].lastNonce
          /\ ts'[toAgent'[i].type].hasOutstanding
          /\ toAgent'[i].nonce = ts'[toAgent'[i].type].lastNonce =>
                toAgent'[i].rev = pushed'[toAgent'[i].type]
          /\ cliPc \notin {"recv", "post"} => resp.nonce < toAgent'[i].nonce
          /\ \A j \in DOMAIN toServer : toServer[j].nonce < toAgent'[i].nonce
    <3> SUFFICES ASSUME NEW i \in DOMAIN toAgent' 
                 PROVE  /\ toAgent'[i].nonce > 0
                        /\ toAgent'[i].nonce <= ts'[toAgent'[i].type].lastNonce
                        /\ ts'[toAgent'[i].type].hasOutstanding
                        /\ toAgent'[i].nonce = ts'[toAgent'[i].type].lastNonce =>
                              toAgent'[i].rev = pushed'[toAgent'[i].type]
                        /\ cliPc \notin {"recv", "post"} => resp.nonce < toAgent'[i].nonce
                        /\ \A j \in DOMAIN toServer : toServer[j].nonce < toAgent'[i].nonce
      OBVIOUS
    <3>1. CASE i \in DOMAIN toAgent
      <4>1. toAgent'[i] = toAgent[i]
        BY <3>1, <2>3
      <4>2. /\ toAgent[i].nonce > 0
            /\ cliPc \notin {"recv", "post"} => resp.nonce < toAgent[i].nonce
            /\ \A j \in DOMAIN toServer : toServer[j].nonce < toAgent[i].nonce
        BY <3>1 DEF NonceInv
      <4>3. /\ toAgent[i].nonce <= ts'[toAgent[i].type].lastNonce
            /\ ts'[toAgent[i].type].hasOutstanding
            /\ toAgent[i].nonce = ts'[toAgent[i].type].lastNonce =>
                  toAgent[i].rev = pushed'[toAgent[i].type]
        BY <3>1, <2>4
      <4> QED
        BY <4>1, <4>2, <4>3
    <3>2. CASE i = Len(toAgent) + 1
      <4>1. /\ toAgent'[i].type = t /\ toAgent'[i].nonce = n
            /\ toAgent'[i].rev = resources
        BY <3>2, <2>3
      <4>2. /\ n > 0 /\ n \in Nat /\ n <= ts'[t].lastNonce
            /\ ts'[t].hasOutstanding /\ pushed'[t] = resources
        BY <2>1
      <4> QED
        BY <4>1, <4>2, <2>5, <2>6
    <3> QED
      BY Zenon, <2>3, <3>1, <3>2
  <2>8. \A i, j \in DOMAIN toAgent' : i < j => toAgent'[i].nonce < toAgent'[j].nonce
    <3>1. \A i, j \in DOMAIN toAgent : i < j => toAgent[i].nonce < toAgent[j].nonce
      BY Zenon DEF NonceInv
    <3>2. DOMAIN toAgent = 1 .. Len(toAgent) /\ Len(toAgent) \in Nat
      BY ResponseFields
    <3> TAKE i, j \in DOMAIN toAgent'
    <3> HAVE i < j
    <3>3. i \in DOMAIN toAgent
      BY <2>3, <3>2
    <3>4. CASE j \in DOMAIN toAgent
      BY <2>3, <3>1, <3>3, <3>4
    <3>5. CASE j = Len(toAgent) + 1
      BY <2>3, <2>4, <3>3, <3>5
    <3> QED
      BY <2>3, <3>4, <3>5
  <2>9. nonceSeq' = n
    BY DEF n
  <2> QED
    BY Zenon, <2>2, <2>5, <2>6, <2>7, <2>8, <2>9 DEF NonceInv
<1>7. CASE Recv
  <2>1. /\ UNCHANGED <<conn, toServer, ts, pushed, applied, nonceSeq>>
        /\ cliPc' = "apply"
    BY <1>7 DEF Recv
  <2>2. /\ resp' = toAgent[1] /\ 1 \in DOMAIN toAgent
        /\ \A i \in DOMAIN toAgent' :
              /\ i + 1 \in DOMAIN toAgent /\ toAgent'[i] = toAgent[i + 1]
              /\ 1 < i + 1
        /\ \A i, j \in DOMAIN toAgent' : i < j => i + 1 < j + 1
    BY <1>7, TakeResponse
  <2> SUFFICES ASSUME conn = "open" PROVE NonceInv'
    BY Zenon, <2>1 DEF NonceInv
  <2>3. \A i \in DOMAIN toAgent' :
          /\ toAgent'[i].nonce > 0
          /\ toAgent'[i].nonce <= ts[toAgent'[i].type].lastNonce
          /\ ts[toAgent'[i].type].hasOutstanding
          /\ toAgent'[i].nonce = ts[toAgent'[i].type].lastNonce =>
                toAgent'[i].rev = pushed[toAgent'[i].type]
          /\ resp'.nonce < toAgent'[i].nonce
          /\ \A j \in DOMAIN toServer : toServer[j].nonce < toAgent'[i].nonce
    <3> TAKE i \in DOMAIN toAgent'
    <3>1. i + 1 \in DOMAIN toAgent /\ toAgent'[i] = toAgent[i + 1] /\ 1 < i + 1
      BY <2>2
    <3>2. toAgent[1].nonce < toAgent[i + 1].nonce
      BY Zenon, <2>2, <3>1 DEF NonceInv
    <3>3. /\ toAgent[i + 1].nonce > 0
          /\ toAgent[i + 1].nonce <= ts[toAgent[i + 1].type].lastNonce
          /\ ts[toAgent[i + 1].type].hasOutstanding
          /\ toAgent[i + 1].nonce = ts[toAgent[i + 1].type].lastNonce =>
                toAgent[i + 1].rev = pushed[toAgent[i + 1].type]
          /\ \A j \in DOMAIN toServer : toServer[j].nonce < toAgent[i + 1].nonce
      BY Zenon, <3>1 DEF NonceInv
    <3> QED
      BY Zenon, <2>2, <3>1, <3>2, <3>3
  <2>4. \A i, j \in DOMAIN toAgent' : i < j => toAgent'[i].nonce < toAgent'[j].nonce
    BY <2>2 DEF NonceInv
  <2>5. /\ resp'.nonce > 0
        /\ resp'.nonce <= ts[resp'.type].lastNonce
        /\ ts[resp'.type].hasOutstanding
        /\ resp'.nonce = ts[resp'.type].lastNonce => resp'.rev = pushed[resp'.type]
        /\ \A j \in DOMAIN toServer : toServer[j].nonce < resp'.nonce
    BY Zenon, <2>2 DEF NonceInv
  <2>6. \A j \in DOMAIN toServer : toServer[j].nonce <= nonceSeq
    BY DEF NonceInv
  <2> QED
    BY Zenon, <2>1, <2>3, <2>4, <2>5, <2>6 DEF NonceInv
<1>8. CASE ApplyOk
  <2>1. /\ UNCHANGED <<conn, toAgent, toServer, resp, ts, pushed, nonceSeq>>
        /\ cliPc = "apply" /\ cliPc' = "ack" /\ applied'[resp.type] = resp.rev
    BY <1>8, ResponseFields DEF ApplyOk, TypeOK
  <2> QED
    BY Zenon, <2>1 DEF NonceInv
<1>9. CASE ApplyFails
  BY Zenon, <1>9 DEF ApplyFails, NonceInv
<1>10. ASSUME NEW req \in Request, req.nonce = resp.nonce, cliPc \notin {"recv", "post"},
              conn = "open", Deliver(req), cliPc' \in {"recv", "post"},
              UNCHANGED <<conn, toAgent, ts, pushed, applied, nonceSeq>>
       PROVE  NonceInv'
  <2>1. \A j \in DOMAIN toServer' :
          \/ j \in DOMAIN toServer /\ toServer'[j] = toServer[j]
          \/ toServer'[j] = req
    BY <1>10, PutRequest
  <2>2. ts[resp.type].lastNonce \in Nat /\ nonceSeq \in Nat
    BY Zenon, ResponseFields, TypeStateNat DEF TypeOK
  <2>3. resp.nonce <= nonceSeq
    <3>1. resp.nonce <= ts[resp.type].lastNonce
      BY Zenon, <1>10 DEF NonceInv
    <3>2. resp.type \in Types /\ resp.nonce \in Nat
      BY ResponseFields
    <3>3. ts[resp.type].lastNonce <= nonceSeq
      BY <3>2 DEF VersionInv
    <3> QED
      BY <2>2, <3>1, <3>2, <3>3
  <2> QED
    BY Zenon, <1>10, <2>1, <2>3 DEF NonceInv
<1>11. CASE SendAck
  <2>1. CASE conn = "open"
    <3> DEFINE req == [type |-> resp.type, version |-> resp.version,
                       nonce |-> resp.nonce, error |-> FALSE]
    <3>1. req \in Request /\ req.nonce = resp.nonce
      BY DEF TypeOK, Response, Request
    <3>2. /\ Deliver(req) /\ cliPc' \in {"recv", "post"} /\ cliPc \notin {"recv", "post"}
          /\ UNCHANGED <<conn, toAgent, ts, pushed, applied, nonceSeq>>
      BY <1>11 DEF SendAck
    <3> HIDE DEF req
    <3> QED
      BY <1>10, <2>1, <3>1, <3>2
  <2> QED
    BY <1>2, <1>11, <2>1 DEF SendAck
<1>12. CASE SendNack
  <2>1. CASE conn = "open"
    <3> DEFINE req == [type |-> resp.type, version |-> accepted[resp.type],
                       nonce |-> resp.nonce, error |-> TRUE]
    <3>1. req \in Request /\ req.nonce = resp.nonce
      BY DEF TypeOK, Response, Request
    <3>2. /\ Deliver(req) /\ cliPc' \in {"recv", "post"} /\ cliPc \notin {"recv", "post"}
          /\ UNCHANGED <<conn, toAgent, ts, pushed, applied, nonceSeq>>
      BY Zenon, <1>12 DEF SendNack
    <3> HIDE DEF req
    <3> QED
      BY <1>10, <2>1, <3>1, <3>2
  <2> QED
    BY <1>2, <1>12, <2>1 DEF SendNack
<1>13. CASE BreakStream \/ RecvFails \/ SendFails
  BY <1>2, <1>13 DEF BreakStream, RecvFails, SendFails
<1>14. CASE AcceptStream \/ OnWatch \/ ReadResources
  BY <1>1, <1>14 DEF AcceptStream, OnWatch, ReadResources
<1>15. CASE Notify \/ Idle \/ UNCHANGED vars
  BY <1>1, <1>15 DEF Notify, Idle, vars
<1>16. ASSUME NEW t \in Types, Mutate(t) PROVE NonceInv'
  BY <1>1, <1>16 DEF Mutate
<1>17. CASE PostApply
  BY Zenon, <1>17 DEF PostApply, NonceInv
<1> QED
  BY <1>3, <1>4, <1>5, <1>6, <1>7, <1>8, <1>9, <1>11, <1>12, <1>13, <1>14, <1>15,
     <1>16, <1>17 DEF Next, Server, Client

LEMMA AckNext ==
    ASSUME TypeOK, TypeOK', ControlInv, VersionInv, NonceInv, AckInv, [Next]_vars
    PROVE  AckInv'
<1> USE DEF storeVars, serverVars, clientVars
<1>1. CASE /\ UNCHANGED <<toServer, ts, pushed, applied, resolver>>
           /\ cliPc = "post" => cliPc' = "post"
  BY Zenon, <1>1 DEF AckInv
<1>2. CASE toServer' = <<>>
  <2>1. DOMAIN toServer' = {}
    BY <1>2
  <2> QED
    BY Zenon, <2>1 DEF AckInv
<1>3. CASE OpenStream
  <2>1. \A j \in DOMAIN toServer' : toServer'[j].nonce = 0
    BY <1>3 DEF OpenStream, subscribeTypes, Subscription
  <2> QED
    BY <2>1 DEF AckInv
<1>4. CASE OnSubscribe \/ OnStale
  <2>1. /\ toServer # <<>> /\ toServer' = Tail(toServer)
        /\ UNCHANGED <<ts, pushed, applied, resolver, cliPc>>
    BY <1>4 DEF OnSubscribe, OnStale
  <2>2. \A j \in DOMAIN toServer' :
          j + 1 \in DOMAIN toServer /\ toServer'[j] = toServer[j + 1]
    BY <2>1, TakeRequest
  <2> QED
    BY <2>1, <2>2 DEF AckInv
<1>5. CASE OnSettle
  <2> DEFINE r == toServer[1].type
             kind == classify(ts[r], toServer[1])
  <2>1. /\ toServer # <<>> /\ toServer' = Tail(toServer)
        /\ UNCHANGED <<pushed, applied, resolver, cliPc>>
    BY Zenon, <1>5 DEF OnSettle
  <2>2. \A j \in DOMAIN toServer' :
          /\ j + 1 \in DOMAIN toServer /\ toServer'[j] = toServer[j + 1]
          /\ toServer[j + 1].type \in Types
    BY <2>1, TakeRequest, RequestFields
  <2>3. /\ r \in Types /\ ts'[r] = settle(ts[r], kind) /\ ts[r] \in TypeState
        /\ kind \in {"ack", "nack"}
        /\ \A t \in Types : t # r => ts'[t] = ts[t]
    BY Zenon, <1>5, SettleFacts DEF TypeOK
  <2>4. ts'[r].lastNonce = 0
    <3>1. settle(ts[r], kind).lastNonce = 0
      BY Zenon, <2>3, SettleFields
    <3> QED
      BY Zenon, <2>3, <3>1
  <2> HIDE DEF r, kind
  <2> QED
    BY <2>1, <2>2, <2>3, <2>4, SMTT(30) DEF AckInv
<1>6. CASE SendResponse
  <2> DEFINE t == Head(toPush)
  <2>1. /\ t \in Types /\ ts'[t].lastNonce = nonceSeq + 1
        /\ \A u \in Types : u # t => ts'[u] = ts[u] /\ pushed'[u] = pushed[u]
    <3>1. /\ t \in Types /\ ts'[t] = preparePush(ts[t], nonceSeq + 1)
          /\ ts[t] \in TypeState /\ nonceSeq + 1 \in Nat
          /\ \A u \in Types : u # t => ts'[u] = ts[u] /\ pushed'[u] = pushed[u]
      BY Zenon, <1>6, PushFacts DEF TypeOK
    <3>2. preparePush(ts[t], nonceSeq + 1).lastNonce = nonceSeq + 1
      BY Zenon, <3>1, PushFields
    <3> QED
      BY <3>1, <3>2
  <2>2. UNCHANGED <<toServer, applied, resolver, cliPc>>
    BY <1>6 DEF SendResponse
  <2>3. conn = "open"
    BY <1>6 DEF SendResponse, ControlInv
  <2>4. \A j \in DOMAIN toServer : toServer[j].nonce # nonceSeq + 1 /\ toServer[j].type \in Types
    <3>1. \A j \in DOMAIN toServer : toServer[j].nonce <= nonceSeq
      BY <2>3 DEF NonceInv
    <3>2. nonceSeq \in Nat
      BY DEF TypeOK
    <3> QED
      BY <3>1, <3>2, RequestFields
  <2> HIDE DEF t
  <2>5. ASSUME NEW j \in DOMAIN toServer,
                toServer[j].nonce = ts'[toServer[j].type].lastNonce
         PROVE  /\ ts'[toServer[j].type] = ts[toServer[j].type]
                /\ pushed'[toServer[j].type] = pushed[toServer[j].type]
    BY Zenon, <2>1, <2>4, <2>5
  <2> QED
    BY Zenon, <2>2, <2>5 DEF AckInv
<1>7. CASE ApplyOk
  <2>1. /\ UNCHANGED <<toServer, ts, pushed, resolver>> /\ cliPc \notin {"recv", "post"}
        /\ \A t \in Types : t # resp.type => applied'[t] = applied[t]
    BY <1>7 DEF ApplyOk, TypeOK
  <2>2. CASE toServer = <<>>
    BY <1>2, <2>1, <2>2
  <2>3. CASE toServer # <<>>
    <3>1. conn = "open"
      BY <2>3 DEF ControlInv, TypeOK
    <3>2. \A j \in DOMAIN toServer :
            toServer[j].type = resp.type => toServer[j].nonce # ts[resp.type].lastNonce
      <4>1. /\ resp.nonce <= ts[resp.type].lastNonce
            /\ \A j \in DOMAIN toServer : toServer[j].nonce < resp.nonce
        BY <2>1, <3>1 DEF NonceInv
      <4>2. ts[resp.type].lastNonce \in Nat
        BY Zenon, ResponseFields, TypeStateNat DEF TypeOK
      <4> QED
        BY <4>1, <4>2, ResponseFields, RequestFields
    <3> QED
      BY Zenon, <2>1, <3>2, RequestFields DEF AckInv
  <2> QED
    BY <2>2, <2>3
<1>8. CASE SendAck
  <2> DEFINE req == [type |-> resp.type, version |-> resp.version,
                     nonce |-> resp.nonce, error |-> FALSE]
  <2>1. /\ Deliver(req) /\ cliPc = "ack" /\ cliPc' = "post"
        /\ UNCHANGED <<ts, pushed, applied>>
    BY <1>8 DEF SendAck
  <2>2. CASE conn = "open"
    <3>1. /\ req \in Request /\ req.nonce = resp.nonce /\ req.type = resp.type
      BY DEF TypeOK, Response, Request
    <3> HIDE DEF req
    <3>2. \A j \in DOMAIN toServer' :
            \/ j \in DOMAIN toServer /\ toServer'[j] = toServer[j]
            \/ toServer'[j] = req
      BY Zenon, <2>1, <2>2, <3>1, PutRequest
    <3>3. resp.nonce = ts[resp.type].lastNonce => applied[resp.type] = pushed[resp.type]
      BY Zenon, <2>1, <2>2 DEF NonceInv
    <3> QED
      BY Zenon, <2>1, <3>1, <3>2, <3>3 DEF AckInv
  <2>3. CASE conn # "open"
    BY <1>2, <2>1, <2>3 DEF Deliver, ControlInv
  <2> QED
    BY <2>2, <2>3
<1>9. CASE SendNack
  <2> DEFINE req == [type |-> resp.type, version |-> accepted[resp.type],
                     nonce |-> resp.nonce, error |-> TRUE]
  <2>1. Deliver(req) /\ cliPc = "nack" /\ UNCHANGED <<ts, pushed, applied, resolver>>
    BY <1>9 DEF SendNack
  <2>2. CASE conn = "open"
    <3>1. req \in Request /\ req.error
      BY DEF TypeOK, Response, Request
    <3> HIDE DEF req
    <3>2. \A j \in DOMAIN toServer' :
            \/ j \in DOMAIN toServer /\ toServer'[j] = toServer[j]
            \/ toServer'[j] = req
      BY <2>1, <2>2, <3>1, PutRequest
    <3> QED
      BY Zenon, <2>1, <3>1, <3>2 DEF AckInv
  <2>3. CASE conn # "open"
    BY <1>2, <2>1, <2>3 DEF Deliver, ControlInv
  <2> QED
    BY <2>2, <2>3
<1>10. CASE BreakStream
  BY <1>2, <1>10 DEF BreakStream
<1>11. CASE AcceptStream \/ OnWatch \/ ReadResources
  BY <1>1, <1>11 DEF AcceptStream, OnWatch, ReadResources
<1>12. CASE Recv \/ RecvFails \/ ApplyFails \/ SendFails
  BY <1>1, <1>12 DEF Recv, RecvFails, ApplyFails, SendFails
<1>13. CASE Notify \/ Idle \/ UNCHANGED vars
  BY <1>1, <1>13 DEF Notify, Idle, vars
<1>14. ASSUME NEW t \in Types, Mutate(t) PROVE AckInv'
  BY <1>1, <1>14 DEF Mutate
<1>15. CASE PostApply
  <2>1. UNCHANGED <<toServer, ts, pushed, applied>> /\ resolver' = applied["EDS"]
    BY <1>15 DEF PostApply
  <2> QED
    BY Zenon, <2>1 DEF AckInv
<1> QED
  BY <1>3, <1>4, <1>5, <1>6, <1>7, <1>8, <1>9, <1>10, <1>11, <1>12, <1>13, <1>14, <1>15
     DEF Next, Server, Client

LEMMA AckMeansAppliedNext ==
    ASSUME TypeOK, TypeOK', ControlInv, VersionInv, NonceInv, AckInv, AckMeansApplied,
           [Next]_vars
    PROVE  AckMeansApplied'
<1> USE DEF storeVars, serverVars, clientVars
<1>1. CASE /\ UNCHANGED <<ts, pushed, applied, resolver>>
           /\ cliPc = "post" => cliPc' = "post"
  BY <1>1 DEF AckMeansApplied
<1>2. CASE OnSettle
  <2> DEFINE r == toServer[1].type
             kind == classify(ts[r], toServer[1])
  <2>1. UNCHANGED <<pushed, applied, resolver, cliPc>> /\ toServer # <<>>
    BY <1>2 DEF OnSettle
  <2>2. /\ r \in Types /\ ts'[r] = settle(ts[r], kind) /\ ts[r] \in TypeState
        /\ kind \in {"ack", "nack"} /\ ts[r].hasOutstanding
        /\ \A t \in Types : t # r => ts'[t] = ts[t]
    BY Zenon, <1>2, SettleFacts DEF TypeOK
  <2>3. /\ toServer[1].nonce # 0 /\ toServer[1].nonce = ts[r].lastNonce
        /\ kind = "ack" => ~toServer[1].error
    BY Zenon, <1>2, SettleFacts
  <2>4. 1 \in DOMAIN toServer
    BY <1>2, TakeRequest DEF OnSettle
  <2>5. kind = "ack" => /\ applied[r] = pushed[r]
                        /\ r = "EDS" => resolver = pushed[r] \/ cliPc = "post"
    BY <2>3, <2>4 DEF AckInv
  <2>6. kind = "nack" => ts'[r].ackedVersion # ts'[r].sentVersion
    <3>1. kind = "nack" => /\ settle(ts[r], kind).ackedVersion = ts[r].ackedVersion
                           /\ settle(ts[r], kind).sentVersion = ts[r].sentVersion
      BY Zenon, <2>2, SettleFields
    <3>2. ts[r].ackedVersion < ts[r].sentVersion
      BY <2>2 DEF VersionInv
    <3>3. ts[r].ackedVersion \in Nat /\ ts[r].sentVersion \in Nat
      BY <2>2, TypeStateNat
    <3>4. ts[r].ackedVersion # ts[r].sentVersion
      BY <3>2, <3>3
    <3> QED
      BY Zenon, <2>2, <3>1, <3>4
  <2> HIDE DEF r, kind
  <2> QED
    BY <2>1, <2>2, <2>5, <2>6 DEF AckMeansApplied
<1>3. CASE SendResponse
  <2> DEFINE t == Head(toPush)
  <2>1. /\ t \in Types /\ ts'[t] = preparePush(ts[t], nonceSeq + 1)
        /\ ts[t] \in TypeState /\ nonceSeq + 1 \in Nat
        /\ \A u \in Types : u # t => ts'[u] = ts[u] /\ pushed'[u] = pushed[u]
    BY Zenon, <1>3, PushFacts DEF TypeOK
  <2>2. ts'[t].ackedVersion # ts'[t].sentVersion
    <3>1. /\ preparePush(ts[t], nonceSeq + 1).ackedVersion = ts[t].ackedVersion
          /\ preparePush(ts[t], nonceSeq + 1).sentVersion = ts[t].sentVersion + 1
      BY Zenon, <2>1, PushFields
    <3>2. ts[t].ackedVersion \in Nat /\ ts[t].sentVersion \in Nat
      BY <2>1, TypeStateNat
    <3>3. ts[t].ackedVersion <= ts[t].sentVersion
      BY <2>1 DEF VersionInv
    <3>4. ts[t].ackedVersion # ts[t].sentVersion + 1
      BY <3>2, <3>3
    <3> QED
      BY <2>1, <3>1, <3>4
  <2>3. UNCHANGED <<applied, resolver, cliPc>>
    BY <1>3 DEF SendResponse
  <2> HIDE DEF t
  <2> QED
    BY <2>1, <2>2, <2>3 DEF AckMeansApplied
<1>4. CASE ApplyOk
  <2>1. /\ UNCHANGED <<ts, pushed, resolver>> /\ cliPc = "apply" /\ resp.type \in Types
        /\ \A t \in Types : t # resp.type => applied'[t] = applied[t]
    BY Zenon, <1>4, ResponseFields DEF ApplyOk, TypeOK
  <2>2. ts[resp.type].sentVersion > 0 => ts[resp.type].ackedVersion # ts[resp.type].sentVersion
    <3>1. ts[resp.type].ackedVersion \in Nat /\ ts[resp.type].sentVersion \in Nat
      BY <2>1, TypeStateNat DEF TypeOK
    <3>2. CASE conn = "open"
      <4>1. ts[resp.type].hasOutstanding
        BY Zenon, <2>1, <3>2 DEF NonceInv
      <4>2. ts[resp.type].ackedVersion < ts[resp.type].sentVersion
        BY <2>1, <4>1 DEF VersionInv
      <4> QED
        BY <3>1, <4>2
    <3>3. CASE conn # "open"
      <4>1. ts[resp.type] = NewTypeState
        BY <2>1, <3>3 DEF ControlInv
      <4> QED
        BY <4>1 DEF NewTypeState
    <3> QED
      BY <3>2, <3>3
  <2> QED
    BY <2>1, <2>2 DEF AckMeansApplied
<1>5. CASE SendAck
  <2>1. UNCHANGED <<ts, pushed, applied>> /\ cliPc' = "post"
    BY <1>5 DEF SendAck
  <2> QED
    BY <2>1 DEF AckMeansApplied
<1>6. CASE BreakStream
  <2>1. \A t \in Types : ts'[t].sentVersion = 0
    BY <1>6 DEF BreakStream, NewTypeState
  <2> QED
    BY <2>1 DEF AckMeansApplied
<1>7. CASE AcceptStream \/ OnSubscribe \/ OnStale \/ OnWatch \/ ReadResources
  BY Zenon, <1>1, <1>7 DEF AcceptStream, OnSubscribe, OnStale, OnWatch, ReadResources
<1>8. CASE OpenStream \/ Recv \/ RecvFails \/ ApplyFails \/ SendNack \/ SendFails
  BY Zenon, <1>1, <1>8 DEF OpenStream, Recv, RecvFails, ApplyFails, SendNack, SendFails
<1>9. CASE Notify \/ Idle \/ UNCHANGED vars
  BY <1>1, <1>9 DEF Notify, Idle, vars
<1>10. ASSUME NEW t \in Types, Mutate(t) PROVE AckMeansApplied'
  BY <1>1, <1>10 DEF Mutate
<1>11. CASE PostApply
  <2>1. UNCHANGED <<ts, pushed, applied>> /\ resolver' = applied["EDS"]
    BY <1>11 DEF PostApply
  <2> QED
    BY <2>1 DEF AckMeansApplied
<1> QED
  BY <1>2, <1>3, <1>4, <1>5, <1>6, <1>7, <1>8, <1>9, <1>10, <1>11 DEF Next, Server, Client

\* An ACKed latest push is the content the agent runs, and its proxy too unless the
\* hook after an ACK is still to run, whatever the interleaving of late ACKs,
\* coalesced pushes, NACKs and reconnects (versioning.go classify, client.go handle).
THEOREM AckIsTruthful == Spec => []AckMeansApplied
<1>1. Init => IInv
  <2> SUFFICES ASSUME Init PROVE IInv
    OBVIOUS
  <2>1. TypeOK /\ ControlInv
    BY TypeInit, ControlInit
  <2>2. VersionInv /\ AckMeansApplied
    BY DEF Init, VersionInv, AckMeansApplied, NewTypeState
  <2>3. NonceInv
    BY Zenon DEF Init, NonceInv
  <2>4. AckInv
    <3>1. DOMAIN toServer = {}
      BY DEF Init
    <3> QED
      BY Zenon, <3>1 DEF AckInv
  <2> QED
    BY <2>1, <2>2, <2>3, <2>4 DEF IInv
<1>2. IInv /\ [Next]_vars => IInv'
  BY TypeNext, ControlNext, VersionNext, NonceNext, AckNext, AckMeansAppliedNext DEF IInv
<1>3. IInv => AckMeansApplied
  BY DEF IInv
<1> QED
  BY <1>1, <1>2, <1>3, PTL DEF Spec

=============================================================================
