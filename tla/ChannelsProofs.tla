--------------------------- MODULE ChannelsProofs ---------------------------
(***************************************************************************)
(* Proofs about Channels, for every number of Channel objects, channel     *)
(* numbers and openings.                                                   *)
(***************************************************************************)
EXTENDS Channels, TLAPS

-----------------------------------------------------------------------------
(* Types *)

\* processReply throws one of the exceptions of rmqcxx, or nothing for a normal
\* reply only
LEMMA ThrownType ==
    ASSUME NEW reply \in Replies
    PROVE  /\ Thrown(reply) \in Exceptions \cup {"none"}
           /\ Thrown(reply) = "none" <=> reply = "normal"
BY DEF Thrown, Replies, Exceptions

\* the number chosen for an object or a call that has none is a channel number
LEMMA SomeId == (CHOOSE id \in Ids : TRUE) \in Ids
BY ChannelsAssumption

\* what a variable without a Channel holds is a value of its type
LEMMA NoChannelType ==
    /\ NoChannel \in ChannelObjects
    /\ NoChannel.alive = FALSE /\ NoChannel.moved = FALSE /\ NoChannel.opening = 0
<1>1. 0 \in 0..MaxOpens
  BY ChannelsAssumption
<1> QED BY <1>1, SomeId DEF NoChannel, ChannelObjects

\* the answers of the broker are replies the library knows
LEMMA AnswersType ==
    ASSUME NEW id \in Ids
    PROVE  Answers(id) \subseteq Replies /\ OpenReplies(id) \subseteq Replies
BY DEF Answers, OpenReplies, Replies

\* an answer leaves the broker's side well typed, and never opens a channel
LEMMA AnsweredEffect ==
    ASSUME BrokerTypeOK, NEW id \in Ids, NEW reply \in Replies, Answered(id, reply)
    PROVE  /\ session' \in {"none", "open", "lost"}
           /\ channel' \in [Ids -> 0..MaxOpens]
           /\ closing' \subseteq Ids
           /\ \A i \in Ids : channel'[i] # 0 => channel'[i] = channel[i]
<1>0. 0 \in 0..MaxOpens
  BY ChannelsAssumption
<1>1. session' \in {"none", "open", "lost"} /\ closing' \subseteq Ids
  BY DEF BrokerTypeOK, Answered
<1>2. CASE reply \in {"connectionClose", "library"}
  BY <1>0, <1>1, <1>2 DEF Answered, AllClosed
<1>3. CASE reply = "channelClose"
  <2>1. channel' = [channel EXCEPT ![id] = 0]
    BY <1>3 DEF Answered
  <2> QED BY <1>0, <1>1, <2>1 DEF BrokerTypeOK
<1>4. CASE reply \notin {"connectionClose", "library", "channelClose"}
  BY <1>1, <1>4 DEF Answered, BrokerTypeOK
<1> QED BY <1>2, <1>3, <1>4

-----------------------------------------------------------------------------
(* The type invariant *)

\* what a call of Channel or Connection throws and records is typed
LEMMA CallRecordType ==
    ASSUME NEW kind \in CallKinds, NEW id \in Ids,
           NEW own \in Replies \cup {"sent", "failed"},
           NEW thrown \in Exceptions \cup {"none"}, NEW number \in Ids \cup {0}
    PROVE  [kind |-> kind, id |-> id, own |-> own, thrown |-> thrown,
            channel |-> number] \in CallRecords
BY DEF CallRecords

\* so is what the other operations record
LEMMA NoCallType ==
    ASSUME NEW kind \in CallKinds, NEW thrown \in Exceptions \cup {"none"}
    PROVE  /\ NoCall \in CallRecords
           /\ [NoCall EXCEPT !.kind = kind] \in CallRecords
           /\ [NoCall EXCEPT !.kind = kind, !.thrown = thrown] \in CallRecords
BY SomeId DEF NoCall, CallRecords, CallKinds, Replies

\* A step of the connection or of the broker alone keeps the types.
LEMMA SessionTypes ==
    ASSUME TypeOK,
           \/ \E id \in Ids : BrokerClosesChannel(id)
           \/ SessionEnds \/ Connect \/ Disconnect \/ Consume
    PROVE  TypeOK'
<1> USE DEF TypeOK
<1>0. 0 \in 0..MaxOpens /\ AllClosed \in [Ids -> 0..MaxOpens]
  BY ChannelsAssumption DEF AllClosed
<1>1. ASSUME NEW id \in Ids, BrokerClosesChannel(id) PROVE TypeOK'
  BY <1>0, <1>1 DEF BrokerClosesChannel, BrokerTypeOK, ObjectsTypeOK
<1>2. CASE SessionEnds
  BY <1>0, <1>2 DEF SessionEnds, BrokerTypeOK, ObjectsTypeOK
<1>3. CASE Connect
  <2>1. BrokerTypeOK'
    BY <1>0, <1>3 DEF Connect, BrokerTypeOK
  <2>2. ObjectsTypeOK' /\ last' \in Replies /\ terminated' \in BOOLEAN
    BY <1>3 DEF Connect, ObjectsTypeOK, Replies
  <2>3. call' \in CallRecords
    <3>1. "connect" \in CallKinds /\ ConnectFailures \subseteq Exceptions
      BY DEF CallKinds, ConnectFailures
    <3> QED BY <1>3, <3>1, NoCallType DEF Connect
  <2> QED BY <2>1, <2>2, <2>3
<1>4. CASE Disconnect
  <2>1. BrokerTypeOK' /\ ObjectsTypeOK'
    BY <1>0, <1>4 DEF Disconnect, BrokerTypeOK, ObjectsTypeOK
  <2>2. call' \in CallRecords
    <3>1. "disconnect" \in CallKinds /\ "none" \in Exceptions \cup {"none"}
      BY DEF CallKinds
    <3> QED BY <1>4, <3>1, NoCallType DEF Disconnect
  <2> QED BY <1>4, <2>1, <2>2 DEF Disconnect
<1>5. CASE Consume
  <2>1. BrokerTypeOK' /\ ObjectsTypeOK'
    BY <1>5 DEF Consume, BrokerTypeOK, ObjectsTypeOK
  <2>2. call' \in CallRecords
    <3>1. PICK id \in Ids :
            call' = [kind |-> "consume", id |-> id, own |-> "channelClose",
                     thrown |-> "ChannelCloseException", channel |-> id]
      BY <1>5 DEF Consume, BrokerTypeOK
    <3> QED BY <3>1 DEF CallRecords, CallKinds, Replies, Exceptions
  <2> QED BY <1>5, <2>1, <2>2 DEF Consume
<1> QED BY <1>1, <1>2, <1>3, <1>4, <1>5

\* Opening, moving and destroying channels keeps the types.
LEMMA ObjectTypes ==
    ASSUME TypeOK, NEW h \in Handles,
           \/ \E id \in Ids : Open(h, id)
           \/ \E g \in Handles : Move(h, g)
           \/ Destroy(h)
    PROVE  TypeOK'
<1> USE DEF TypeOK
<1>0. 0 \in 0..MaxOpens
  BY ChannelsAssumption
<1>1. ASSUME NEW id \in Ids, Open(h, id) PROVE TypeOK'
  <2>1. PICK reply \in OpenReplies(id) :
          /\ last' = reply
          /\ call' = [kind |-> "open", id |-> id, own |-> reply,
                      thrown |-> Thrown(reply), channel |-> ThrownChannel]
          /\ IF Thrown(reply) = "none" THEN OpenSucceeds(h, id)
                                      ELSE OpenFails(h, id, reply)
    BY <1>1 DEF Open
  <2>2. reply \in Replies
    BY AnswersType
  <2>3. reused' \subseteq Ids
    BY <1>1 DEF Open, ObjectsTypeOK
  <2>4. CASE Thrown(reply) = "none"
    <3>1. opens' \in 1..MaxOpens
      BY <1>1, <2>1, <2>4, ChannelsAssumption, SMT
         DEF Open, CanOpen, OpenSucceeds, BrokerTypeOK
    <3>2. opens' \in 0..MaxOpens /\ opens' # 0
      BY <3>1, ChannelsAssumption, SMT
    <3>3. BrokerTypeOK'
      BY <1>1, <2>1, <2>4, <3>2 DEF Open, OpenSucceeds, BrokerTypeOK
    <3>4. /\ Opened(id) \in ChannelObjects
          /\ Opened(id).alive = TRUE /\ Opened(id).opening # 0
      BY <3>2 DEF Opened, ChannelObjects
    <3>5. ObjectsTypeOK'
      BY <2>1, <2>4, <2>3, <3>4 DEF OpenSucceeds, ObjectsTypeOK
    <3> QED BY <1>1, <2>1, <2>2, <3>3, <3>5, ThrownType, CallRecordType
            DEF Open, CallKinds, ThrownChannel
  <2>5. CASE Thrown(reply) # "none"
    <3>1. BrokerTypeOK'
      BY <1>1, <2>1, <2>2, <2>5, AnsweredEffect DEF Open, OpenFails, BrokerTypeOK
    <3>2. ObjectsTypeOK'
      BY <2>1, <2>5, <2>3 DEF OpenFails, ObjectsTypeOK
    <3> QED BY <1>1, <2>1, <2>2, <3>1, <3>2, ThrownType, CallRecordType
            DEF Open, CallKinds, ThrownChannel
  <2> QED BY <2>4, <2>5
<1>2. ASSUME NEW g \in Handles, Move(h, g) PROVE TypeOK'
  <2>1. handle' = [handle EXCEPT ![g] = [handle[h] EXCEPT !.moved = FALSE],
                                 ![h].moved = TRUE]
    BY <1>2 DEF Move
  <2>2. BrokerTypeOK'
    BY <1>2 DEF Move, BrokerTypeOK, broker
  <2>3. ObjectsTypeOK'
    <3>1. handle[h] \in ChannelObjects /\ handle[h].alive
      BY <1>2 DEF Move, ObjectsTypeOK
    <3>2. /\ [handle[h] EXCEPT !.moved = FALSE] \in ChannelObjects
          /\ [handle[h] EXCEPT !.moved = TRUE] \in ChannelObjects
      BY <3>1, Zenon DEF ChannelObjects
    <3>3. /\ [handle[h] EXCEPT !.moved = FALSE].alive = handle[h].alive
          /\ [handle[h] EXCEPT !.moved = FALSE].opening = handle[h].opening
          /\ [handle[h] EXCEPT !.moved = TRUE].alive = handle[h].alive
          /\ [handle[h] EXCEPT !.moved = TRUE].opening = handle[h].opening
      BY <3>1 DEF ChannelObjects
    <3>4. h # g
      BY <1>2 DEF Move
    <3>5. handle' = [i \in Handles |->
                       IF i = h THEN [handle[h] EXCEPT !.moved = TRUE]
                       ELSE IF i = g THEN [handle[h] EXCEPT !.moved = FALSE]
                       ELSE handle[i]]
      BY <2>1, <3>4 DEF ObjectsTypeOK
    <3>6. handle' \in [Handles -> ChannelObjects]
      BY <3>2, <3>5 DEF ObjectsTypeOK
    <3>7. \A i \in Handles : handle'[i].alive <=> handle'[i].opening # 0
      BY <3>3, <3>5 DEF ObjectsTypeOK
    <3> QED BY <1>2, <3>6, <3>7 DEF Move, ObjectsTypeOK
  <2>4. call' \in CallRecords
    <3>1. "move" \in CallKinds /\ "none" \in Exceptions \cup {"none"}
      BY DEF CallKinds
    <3> QED BY <1>2, <3>1, NoCallType DEF Move
  <2> QED BY <1>2, <2>2, <2>3, <2>4 DEF Move
<1>3. CASE Destroy(h)
  <2>1. BrokerTypeOK'
    BY <1>0, <1>3 DEF Destroy, BrokerTypeOK
  <2>2. handle' \in [Handles -> ChannelObjects]
    BY <1>3, NoChannelType DEF Destroy, ObjectsTypeOK
  <2>3. \A g \in Handles : handle'[g].alive <=> handle'[g].opening # 0
    BY <1>3, NoChannelType DEF Destroy, ObjectsTypeOK
  <2>4. pools' \subseteq Ids
    BY <1>3 DEF Destroy, ObjectsTypeOK, ChannelObjects
  <2>5. call' \in CallRecords
    <3>1. "destroy" \in CallKinds /\ "none" \in Exceptions \cup {"none"}
      BY DEF CallKinds
    <3> QED BY <1>3, <3>1, NoCallType DEF Destroy
  <2> QED BY <1>3, <2>1, <2>2, <2>3, <2>4, <2>5 DEF Destroy, ObjectsTypeOK
<1> QED BY <1>1, <1>2, <1>3

\* The calls made on a channel keep the types.
LEMMA CallTypes ==
    ASSUME TypeOK, NEW h \in Handles,
           \/ Sync(h) \/ ExchangeCall(h)
           \/ \E kind \in AsyncCalls : Async(h, kind)
    PROVE  TypeOK'
<1> USE DEF TypeOK
<1> DEFINE id == handle[h].id
<1>0. id \in Ids
  BY DEF ObjectsTypeOK, ChannelObjects
<1> HIDE DEF id
<1>1. CASE Sync(h)
  <2>1. PICK reply \in Answers(id) :
          /\ Answered(id, reply)
          /\ last' = reply
          /\ call' = [kind |-> "sync", id |-> id, own |-> reply,
                      thrown |-> Thrown(reply), channel |-> ThrownChannel]
    BY <1>1 DEF Sync, id
  <2>2. reply \in Replies
    BY <1>0, AnswersType
  <2>3. BrokerTypeOK'
    BY <1>0, <1>1, <2>1, <2>2, AnsweredEffect DEF Sync, BrokerTypeOK
  <2>4. ObjectsTypeOK' /\ terminated' \in BOOLEAN
    BY <1>1 DEF Sync, ObjectsTypeOK, ReleaseOnChannel
  <2>5. call' \in CallRecords
    BY <1>0, <2>1, <2>2, ThrownType, CallRecordType DEF CallKinds, ThrownChannel
  <2> QED BY <2>1, <2>2, <2>3, <2>4, <2>5
<1>2. CASE ExchangeCall(h)
  <2>1. PICK reply \in Answers(id) :
          /\ Answered(id, reply)
          /\ last' = reply
          /\ call' = [kind |-> "exchange", id |-> id, own |-> reply,
                      thrown |-> "none", channel |-> 0]
          /\ terminated' = (Thrown(reply) # "none")
    BY <1>2 DEF ExchangeCall, id
  <2>2. reply \in Replies
    BY <1>0, AnswersType
  <2>3. BrokerTypeOK'
    BY <1>0, <1>2, <2>1, <2>2, AnsweredEffect DEF ExchangeCall, BrokerTypeOK
  <2>4. ObjectsTypeOK'
    BY <1>2 DEF ExchangeCall, ObjectsTypeOK, ReleaseOnChannel
  <2>5. call' \in CallRecords
    BY <1>0, <2>1, <2>2, CallRecordType DEF CallKinds
  <2> QED BY <2>1, <2>2, <2>3, <2>4, <2>5
<1>3. ASSUME NEW kind \in AsyncCalls, Async(h, kind) PROVE TypeOK'
  <2>1. PICK status \in {"sent", "failed"} :
          call' = [kind |-> kind, id |-> id, own |-> status,
                   thrown |-> IF Thrown(last) # "none" THEN Thrown(last)
                              ELSE IF kind = "publish" /\ status # "sent"
                                   THEN "ChannelException" ELSE "none",
                   channel |-> ThrownChannel]
    BY <1>3 DEF Async, id
  <2>2. BrokerTypeOK' /\ ObjectsTypeOK'
    BY <1>3 DEF Async, broker, BrokerTypeOK, ObjectsTypeOK, ReleaseOnChannel
  <2>3. call'.thrown \in Exceptions \cup {"none"}
    BY <2>1, ThrownType DEF Exceptions
  <2>4. call' \in CallRecords
    BY <1>0, <2>1, <2>3 DEF CallRecords, CallKinds, ThrownChannel
  <2> QED BY <1>3, <2>2, <2>4 DEF Async
<1> QED BY <1>1, <1>2, <1>3

\* a program that has not connected yet
LEMMA InitTypes == Init => TypeOK
<1> SUFFICES ASSUME Init PROVE TypeOK
  OBVIOUS
<1>1. BrokerTypeOK
  BY ChannelsAssumption DEF Init, BrokerTypeOK, AllClosed
<1>2. ObjectsTypeOK
  BY NoChannelType DEF Init, ObjectsTypeOK
<1>3. call \in CallRecords
  BY SomeId DEF Init, NoCall, CallRecords, CallKinds, Replies
<1> QED BY <1>1, <1>2, <1>3 DEF Init, TypeOK, Replies

\* every step keeps the types
LEMMA StepTypes == TypeOK /\ [Next]_vars => TypeOK'
<1> SUFFICES ASSUME TypeOK, [Next]_vars PROVE TypeOK'
  OBVIOUS
<1>1. CASE Next
  BY <1>1, SessionTypes, ObjectTypes, CallTypes DEF Next
<1>2. CASE UNCHANGED vars
  BY <1>2 DEF vars, broker, TypeOK, BrokerTypeOK, ObjectsTypeOK
<1> QED BY <1>1, <1>2

\* The type invariant: in particular an object exists only for an opening that
\* succeeded.
THEOREM TypeCorrect == Spec => []TypeOK
BY InitTypes, StepTypes, PTL DEF Spec

-----------------------------------------------------------------------------
(* Who closes what *)

Ownership == DistinctNumbers /\ OpenChannelsHaveClosers /\ UsedChannelsHoldNoReplies

\* A step that touches no object, opens no channel and decodes no reply that
\* stays keeps the ownership of channels.
LEMMA SameObjects ==
    ASSUME Ownership, handle' = handle, reused' = reused \/ Closers = {},
           \A i \in Ids : channel'[i] # 0 => channel'[i] = channel[i],
           pools' \subseteq pools
    PROVE  Ownership'
BY DEF Ownership, DistinctNumbers, OpenChannelsHaveClosers, UsedChannelsHoldNoReplies,
       Closers

\* Steps of the connection and of the broker keep the ownership of channels.
LEMMA SessionOwnership ==
    ASSUME OwnershipInv,
           \/ \E id \in Ids : BrokerClosesChannel(id)
           \/ SessionEnds \/ Connect \/ Disconnect \/ Consume
    PROVE  Ownership'
<1>1. Ownership
  BY DEF OwnershipInv, Ownership
<1>2. handle' = handle /\ pools' \subseteq pools
  BY DEF BrokerClosesChannel, SessionEnds, Connect, Disconnect, Consume
<1>4. reused' = reused \/ Closers = {}
  BY DEF BrokerClosesChannel, SessionEnds, Connect, Disconnect, Consume, Closers
<1>3. \A i \in Ids : channel'[i] # 0 => channel'[i] = channel[i]
  BY DEF BrokerClosesChannel, SessionEnds, Connect, Disconnect, Consume, AllClosed,
         OwnershipInv, TypeOK, BrokerTypeOK
<1> QED BY <1>1, <1>2, <1>3, <1>4, SameObjects

\* Calls on a channel keep the ownership of channels, whatever they throw.
LEMMA CallOwnership ==
    ASSUME OwnershipInv, NEW h \in Handles,
           \/ Sync(h) \/ ExchangeCall(h)
           \/ \E kind \in AsyncCalls : Async(h, kind)
    PROVE  Ownership'
<1>0. handle[h].id \in Ids /\ TypeOK /\ BrokerTypeOK
  BY DEF OwnershipInv, TypeOK, ObjectsTypeOK, ChannelObjects
<1>1. Ownership
  BY DEF OwnershipInv, Ownership
<1>2. handle' = handle /\ pools' \subseteq pools /\ reused' = reused
  BY DEF Sync, ExchangeCall, Async, ReleaseOnChannel
<1>3. \A i \in Ids : channel'[i] # 0 => channel'[i] = channel[i]
  <2>1. CASE \E kind \in AsyncCalls : Async(h, kind)
    BY <2>1 DEF Async, broker
  <2>2. CASE Sync(h) \/ ExchangeCall(h)
    <3>1. PICK reply \in Answers(handle[h].id) : Answered(handle[h].id, reply)
      BY <2>2 DEF Sync, ExchangeCall
    <3> QED BY <1>0, <3>1, AnswersType, AnsweredEffect
  <2> QED BY <2>1, <2>2
<1> QED BY <1>1, <1>2, <1>3, SameObjects

\* An object that is opened is one more that will close, and has the number and
\* the opening.
LEMMA OpenEffect ==
    ASSUME TypeOK, NEW h \in Handles, NEW id \in Ids, CanOpen(h), OpenSucceeds(h, id)
    PROVE  /\ h \notin Closers /\ Closers' = Closers \cup {h}
           /\ handle'[h].id = id /\ handle'[h].opening = opens'
           /\ \A i \in Closers : handle'[i] = handle[i]
<1>1. /\ handle'[h] = Opened(id)
      /\ \A i \in Handles \ {h} : handle'[i] = handle[i]
  BY DEF OpenSucceeds, TypeOK, ObjectsTypeOK
<1>2. /\ Opened(id).alive /\ ~Opened(id).moved
      /\ Opened(id).id = id /\ Opened(id).opening = opens'
  BY DEF Opened
<1>3. h \notin Closers
  BY DEF CanOpen, Closers
<1> QED BY <1>1, <1>2, <1>3 DEF Closers

\* A move takes the number and the opening from one object to another.
LEMMA MoveEffect ==
    ASSUME TypeOK, NEW h \in Handles, NEW g \in Handles, Move(h, g)
    PROVE  /\ h \in Closers /\ g \notin Closers /\ h # g
           /\ Closers' = (Closers \ {h}) \cup {g}
           /\ handle'[g].id = handle[h].id /\ handle'[g].opening = handle[h].opening
           /\ \A i \in Closers \ {h} : handle'[i] = handle[i]
<1>1. h \in Closers /\ g \notin Closers /\ h # g
  BY DEF Move, Closers
<1>2. handle[h] \in ChannelObjects
  BY DEF TypeOK, ObjectsTypeOK
<1>3. handle' = [handle EXCEPT ![g] = [handle[h] EXCEPT !.moved = FALSE],
                               ![h].moved = TRUE]
  BY DEF Move
<1>4. /\ handle'[g] = [handle[h] EXCEPT !.moved = FALSE]
      /\ handle'[h] = [handle[h] EXCEPT !.moved = TRUE]
      /\ \A i \in Handles \ {g, h} : handle'[i] = handle[i]
  BY <1>1, <1>3 DEF TypeOK, ObjectsTypeOK
<1>5. /\ handle'[g].alive /\ ~handle'[g].moved /\ handle'[h].moved
      /\ handle'[g].id = handle[h].id /\ handle'[g].opening = handle[h].opening
  BY <1>1, <1>2, <1>4 DEF ChannelObjects, Closers
<1>6. Closers' = (Closers \ {h}) \cup {g}
  BY <1>1, <1>4, <1>5 DEF Closers
<1>7. \A i \in Closers \ {h} : handle'[i] = handle[i]
  BY <1>1, <1>4 DEF Closers
<1> QED BY <1>1, <1>5, <1>6, <1>7

\* A destructor leaves the others as they are.
LEMMA DestroyEffect ==
    ASSUME TypeOK, NEW h \in Handles, Destroy(h)
    PROVE  /\ Closers' = Closers \ {h}
           /\ \A i \in Closers' : handle'[i] = handle[i]
<1>1. /\ handle'[h] = NoChannel
      /\ \A i \in Handles \ {h} : handle'[i] = handle[i]
  BY DEF Destroy, TypeOK, ObjectsTypeOK
<1> QED BY <1>1, NoChannelType DEF Closers

\* A constructor that succeeds makes its object the closer of the channel it
\* opened; one that throws leaves a reply for a number that no object has, or
\* that is recorded as opened twice.
LEMMA OpenOwnership ==
    ASSUME OwnershipInv, NEW h \in Handles, NEW id \in Ids, Open(h, id)
    PROVE  Ownership'
<1>0. TypeOK /\ BrokerTypeOK /\ ObjectsTypeOK /\ Ownership
  BY DEF OwnershipInv, TypeOK, Ownership
<1>1. /\ ~handle[h].alive /\ reused \subseteq reused'
      /\ \A g \in Closers : handle[g].id = id => id \in reused'
  BY DEF Open, CanOpen
<1>2. CASE OpenSucceeds(h, id)
  <2>1. /\ h \notin Closers /\ Closers' = Closers \cup {h}
        /\ handle'[h].id = id /\ handle'[h].opening = opens'
        /\ \A i \in Closers : handle'[i] = handle[i]
    BY <1>0, <1>2, OpenEffect DEF Open
  <2>2. channel' = [channel EXCEPT ![id] = opens']
    BY <1>2 DEF OpenSucceeds
  <2>3. /\ channel'[id] = opens'
        /\ \A i \in Ids \ {id} : channel'[i] = channel[i]
    BY <1>0, <2>2 DEF BrokerTypeOK
  <2>4. DistinctNumbers'
    BY <1>0, <1>1, <2>1 DEF Ownership, DistinctNumbers
  <2>5. OpenChannelsHaveClosers'
    <3> SUFFICES ASSUME NEW i \in Ids, channel'[i] # 0
                 PROVE  \E g \in Closers' : /\ handle'[g].id = i
                                            /\ handle'[g].opening = channel'[i]
      BY DEF OpenChannelsHaveClosers
    <3>1. CASE i = id
      BY <2>1, <2>3, <3>1
    <3>2. CASE i # id
      <4>1. PICK g \in Closers : handle[g].id = i /\ handle[g].opening = channel[i]
        BY <1>0, <2>3, <3>2 DEF Ownership, OpenChannelsHaveClosers
      <4> QED BY <2>1, <2>3, <3>2, <4>1
    <3> QED BY <3>1, <3>2
  <2>6. UsedChannelsHoldNoReplies'
    BY <1>2 DEF OpenSucceeds, UsedChannelsHoldNoReplies
  <2> QED BY <2>4, <2>5, <2>6 DEF Ownership
<1>3. CASE \E reply \in OpenReplies(id) : OpenFails(h, id, reply)
  <2>1. PICK reply \in OpenReplies(id) : OpenFails(h, id, reply)
    BY <1>3
  <2>2. \A i \in Ids : channel'[i] # 0 => channel'[i] = channel[i]
    BY <1>0, <2>1, AnswersType, AnsweredEffect DEF OpenFails
  <2>3. handle' = handle /\ pools' \subseteq pools \cup {id}
    BY <2>1 DEF OpenFails
  <2>4. Closers' = Closers
    BY <2>3 DEF Closers
  <2>5. DistinctNumbers' /\ OpenChannelsHaveClosers'
    BY <1>0, <1>1, <2>2, <2>3, <2>4
       DEF Ownership, DistinctNumbers, OpenChannelsHaveClosers
  <2>6. UsedChannelsHoldNoReplies'
    BY <1>0, <1>1, <2>3, <2>4 DEF Ownership, UsedChannelsHoldNoReplies
  <2> QED BY <2>5, <2>6 DEF Ownership
<1> QED BY <1>2, <1>3 DEF Open

\* A move hands the channel over: the variable moved into closes it, the one
\* moved from no longer does.
LEMMA MoveOwnership ==
    ASSUME OwnershipInv, NEW h \in Handles, NEW g \in Handles, Move(h, g)
    PROVE  Ownership'
<1>0. TypeOK /\ Ownership
  BY DEF OwnershipInv, Ownership
<1>1. /\ h \in Closers /\ g \notin Closers /\ h # g
      /\ Closers' = (Closers \ {h}) \cup {g}
      /\ handle'[g].id = handle[h].id /\ handle'[g].opening = handle[h].opening
      /\ \A i \in Closers \ {h} : handle'[i] = handle[i]
  BY <1>0, MoveEffect
<1>2. channel' = channel /\ pools' = pools /\ reused' = reused
  BY DEF Move, broker
<1>3. \A i \in Closers' \ {g} : i \in Closers \ {h} /\ handle'[i] = handle[i]
  BY <1>1
<1>4. DistinctNumbers'
  BY <1>0, <1>1, <1>2, <1>3 DEF Ownership, DistinctNumbers
<1>5. OpenChannelsHaveClosers'
  <2> SUFFICES ASSUME NEW i \in Ids, channel[i] # 0
               PROVE  \E c \in Closers' : /\ handle'[c].id = i
                                          /\ handle'[c].opening = channel[i]
    BY <1>2 DEF OpenChannelsHaveClosers
  <2>1. PICK c \in Closers : handle[c].id = i /\ handle[c].opening = channel[i]
    BY <1>0 DEF Ownership, OpenChannelsHaveClosers
  <2>2. CASE c = h
    BY <1>1, <2>1, <2>2
  <2>3. CASE c # h
    BY <1>1, <1>3, <2>1, <2>3
  <2> QED BY <2>2, <2>3
<1>6. UsedChannelsHoldNoReplies'
  BY <1>0, <1>1, <1>2, <1>3 DEF Ownership, UsedChannelsHoldNoReplies
<1> QED BY <1>4, <1>5, <1>6 DEF Ownership

\* A destructor closes one channel, and what it leaves undone is for a number that
\* no other object has, or that was opened twice.
LEMMA DestroyOwnership ==
    ASSUME OwnershipInv, NEW h \in Handles, Destroy(h)
    PROVE  Ownership'
<1>0. TypeOK /\ BrokerTypeOK /\ ObjectsTypeOK /\ Ownership
  BY DEF OwnershipInv, TypeOK, Ownership
<1>1. /\ Closers' = Closers \ {h}
      /\ \A i \in Closers' : handle'[i] = handle[i]
  BY <1>0, DestroyEffect
<1>2. reused' = reused /\ \A i \in Closers' : i \in Closers /\ handle'[i] = handle[i]
  BY <1>1 DEF Destroy
<1>3. DistinctNumbers'
  BY <1>0, <1>2 DEF Ownership, DistinctNumbers
<1>4. CASE handle[h].moved
  <2>1. channel' = channel /\ pools' = pools /\ h \notin Closers
    BY <1>4 DEF Destroy, Closers
  <2>2. OpenChannelsHaveClosers'
    BY <1>0, <1>1, <1>2, <2>1 DEF Ownership, OpenChannelsHaveClosers
  <2>3. UsedChannelsHoldNoReplies'
    BY <1>0, <1>2, <2>1 DEF Ownership, UsedChannelsHoldNoReplies
  <2> QED BY <1>3, <2>2, <2>3 DEF Ownership
<1>5. CASE ~handle[h].moved
  <2>1. /\ channel' = [channel EXCEPT ![handle[h].id] = 0]
        /\ pools' \subseteq pools \cup {handle[h].id}
        /\ h \in Closers
    BY <1>5 DEF Destroy, Closers
  <2>2. \A i \in Closers' : handle[i].id = handle[h].id => handle[i].id \in reused
    BY <1>0, <1>1, <2>1 DEF Ownership, DistinctNumbers
  <2>3. OpenChannelsHaveClosers'
    <3> SUFFICES ASSUME NEW i \in Ids, channel'[i] # 0
                 PROVE  \E c \in Closers' : /\ handle'[c].id = i
                                            /\ handle'[c].opening = channel'[i]
      BY DEF OpenChannelsHaveClosers
    <3>1. i # handle[h].id /\ channel'[i] = channel[i]
      BY <1>0, <2>1 DEF BrokerTypeOK
    <3>2. PICK c \in Closers : handle[c].id = i /\ handle[c].opening = channel[i]
      BY <1>0, <3>1 DEF Ownership, OpenChannelsHaveClosers
    <3> QED BY <1>1, <1>2, <3>1, <3>2
  <2>4. UsedChannelsHoldNoReplies'
    BY <1>0, <1>2, <2>1, <2>2 DEF Ownership, UsedChannelsHoldNoReplies
  <2> QED BY <1>3, <2>3, <2>4 DEF Ownership
<1> QED BY <1>4, <1>5

\* The inductive invariant: objects that close share no number unless it was opened
\* twice, open channels have such an object, and no reply stays for another number.
THEOREM OwnershipInvariant == Spec => []OwnershipInv
<1>1. Init => OwnershipInv
  <2> SUFFICES ASSUME Init, TypeOK PROVE OwnershipInv
    BY InitTypes
  <2>1. Closers = {}
    BY NoChannelType DEF Init, Closers
  <2> QED BY <2>1 DEF Init, OwnershipInv, DistinctNumbers, OpenChannelsHaveClosers,
                      UsedChannelsHoldNoReplies, AllClosed
<1>2. OwnershipInv /\ [Next]_vars => OwnershipInv'
  <2> SUFFICES ASSUME OwnershipInv, [Next]_vars PROVE Ownership'
    BY StepTypes DEF OwnershipInv, Ownership
  <2>1. CASE Next
    BY <2>1, SessionOwnership, CallOwnership, OpenOwnership, MoveOwnership,
       DestroyOwnership DEF Next
  <2>2. CASE UNCHANGED vars
    BY <2>2, SameObjects DEF vars, broker, OwnershipInv, Ownership
  <2> QED BY <2>1, <2>2
<1> QED BY <1>1, <1>2, PTL DEF Spec

\* No decoded reply stays behind on a channel that an object still uses, even
\* after calls that threw, unless its number was opened twice.
THEOREM RepliesReleased == Spec => []UsedChannelsHoldNoReplies
<1>1. OwnershipInv => UsedChannelsHoldNoReplies
  BY DEF OwnershipInv
<1>2. Spec => []OwnershipInv
  BY OwnershipInvariant
<1> QED BY <1>1, <1>2, PTL

-----------------------------------------------------------------------------
(* Channels do what ChannelPromise says *)

\* the steps of the broker, and the calls that leave the objects alone
Elsewhere == \/ \E id \in Ids : BrokerClosesChannel(id)
             \/ SessionEnds \/ Disconnect \/ Consume
             \/ \E h \in Handles : \/ Sync(h) \/ ExchangeCall(h)
                                   \/ \E kind \in AsyncCalls : Async(h, kind)
             \/ \E h \in Handles, id \in Ids :
                  Open(h, id) /\ \E reply \in OpenReplies(id) : OpenFails(h, id, reply)

\* They open nothing, and a connection ends when all objects are gone.
LEMMA ElsewhereEffect ==
    ASSUME TypeOK, Elsewhere
    PROVE  /\ handle' = handle /\ opens' = opens
           /\ conn' = conn \/ Closers = {}
           /\ \A i \in Ids : channel'[i] # 0 => channel'[i] = channel[i]
<1>0. BrokerTypeOK /\ \A h \in Handles : handle[h].id \in Ids
  BY DEF TypeOK, ObjectsTypeOK, ChannelObjects
<1>1. CASE (\E id \in Ids : BrokerClosesChannel(id)) \/ SessionEnds \/ Consume
  <2>1. UNCHANGED <<handle, opens, conn>>
    BY <1>1 DEF BrokerClosesChannel, SessionEnds, Consume
  <2>2. \A i \in Ids : channel'[i] # 0 => channel'[i] = channel[i]
    BY <1>0, <1>1 DEF BrokerClosesChannel, SessionEnds, Consume, AllClosed, BrokerTypeOK
  <2> QED BY <2>1, <2>2
<1>2. CASE Disconnect
  BY <1>2 DEF Disconnect, AllClosed, Closers
<1>3. ASSUME NEW h \in Handles, NEW kind \in AsyncCalls, Async(h, kind)
      PROVE  UNCHANGED <<handle, opens, conn, channel>>
  BY <1>3 DEF Async, broker
<1>4. ASSUME NEW h \in Handles, Sync(h) \/ ExchangeCall(h)
      PROVE  /\ UNCHANGED <<handle, opens, conn>>
             /\ \A i \in Ids : channel'[i] # 0 => channel'[i] = channel[i]
  <2>1. UNCHANGED <<handle, opens, conn>>
    BY <1>4 DEF Sync, ExchangeCall
  <2>2. PICK reply \in Answers(handle[h].id) : Answered(handle[h].id, reply)
    BY <1>4 DEF Sync, ExchangeCall
  <2> QED BY <1>0, <2>1, <2>2, AnswersType, AnsweredEffect
<1>5. ASSUME NEW h \in Handles, NEW id \in Ids, Open(h, id),
             NEW reply \in OpenReplies(id), OpenFails(h, id, reply)
      PROVE  /\ UNCHANGED <<handle, opens, conn>>
             /\ \A i \in Ids : channel'[i] # 0 => channel'[i] = channel[i]
  <2>1. UNCHANGED <<handle, opens, conn>> /\ Answered(id, reply)
    BY <1>5 DEF Open, OpenFails
  <2> QED BY <1>0, <2>1, AnswersType, AnsweredEffect
<1> QED BY <1>1, <1>2, <1>3, <1>4, <1>5 DEF Elsewhere

\* Whatever else happens begins a connection, or concerns one object.
LEMMA StepKinds ==
    ASSUME Next
    PROVE  \/ Elsewhere
           \/ Connect
           \/ \E h \in Handles, id \in Ids : Open(h, id) /\ OpenSucceeds(h, id)
           \/ \E h, g \in Handles : Move(h, g)
           \/ \E h \in Handles : Destroy(h)
<1>1. ASSUME NEW h \in Handles, NEW id \in Ids, Open(h, id)
      PROVE  OpenSucceeds(h, id) \/ \E reply \in OpenReplies(id) : OpenFails(h, id, reply)
  BY <1>1 DEF Open
<1> QED BY <1>1 DEF Next, Elsewhere

\* A destructor closes the number of its object, and that of one moved from none.
LEMMA DestroyCloses ==
    ASSUME TypeOK, NEW h \in Handles, Destroy(h)
    PROVE  \A i \in Ids : channel'[i] = IF h \in Closers /\ i = handle[h].id
                                        THEN 0 ELSE channel[i]
<1>1. CASE handle[h].moved
  BY <1>1 DEF Destroy, Closers
<1>2. CASE ~handle[h].moved
  <2>1. h \in Closers /\ channel' = [channel EXCEPT ![handle[h].id] = 0]
    BY <1>2 DEF Destroy, Closers
  <2> QED BY <2>1 DEF TypeOK, BrokerTypeOK
<1> QED BY <1>1, <1>2

Openings == DistinctOpenings /\ LastIsOpen /\ ObjectsNeedConnection

\* A new opening is later than all others, and those pass from one object to one.
\* What is open under a number is the last of its openings.
LEMMA OpeningsStep ==
    ASSUME TypeOK, Openings, [Next]_vars
    PROVE  Openings'
<1> USE DEF Openings, DistinctOpenings, LastIsOpen, ObjectsNeedConnection
<1>0. /\ opens \in Nat
      /\ \A h \in Handles : handle[h].opening \in Nat /\ handle[h].id \in Ids
      /\ channel \in [Ids -> Nat]
  BY DEF TypeOK, BrokerTypeOK, ObjectsTypeOK, ChannelObjects
<1>1. ASSUME handle' = handle, opens' = opens, conn' = conn \/ Closers = {},
             \A i \in Ids : channel'[i] # 0 => channel'[i] = channel[i]
      PROVE  Openings'
  <2>1. Closers' = Closers /\ Closers \subseteq Handles
    BY <1>1 DEF Closers
  <2> QED BY <1>0, <1>1, <2>1
<1>2. CASE Elsewhere
  BY <1>1, <1>2, ElsewhereEffect
<1>3. CASE Connect
  <2>1. Closers' = {}
    BY <1>3 DEF Connect, Closers
  <2> QED BY <2>1
<1>4. ASSUME NEW h \in Handles, NEW id \in Ids, Open(h, id), OpenSucceeds(h, id)
      PROVE  Openings'
  <2>1. /\ h \notin Closers /\ Closers' = Closers \cup {h}
        /\ handle'[h].id = id /\ handle'[h].opening = opens'
        /\ \A i \in Closers : handle'[i] = handle[i]
    BY <1>4, OpenEffect DEF Open
  <2>2. /\ opens' = opens + 1 /\ conn' = "open"
        /\ channel' = [channel EXCEPT ![id] = opens']
    BY <1>4 DEF Open, CanOpen, OpenSucceeds
  <2>3. \A i \in Closers : handle'[i].opening <= opens
    BY <2>1
  <2>4. \A i \in Closers : handle'[i].opening \in Nat
    BY <1>0, <2>1 DEF Closers
  <2>5. \A i \in Closers' : handle'[i].opening <= opens'
    BY <1>0, <2>1, <2>2, <2>3, <2>4
  <2>6. \A i \in Closers : handle'[i].opening # handle'[h].opening
    BY <1>0, <2>1, <2>2, <2>3, <2>4
  <2>7. \A i, j \in Closers' : handle'[i].opening = handle'[j].opening => i = j
    BY <2>1, <2>6
  <2>8. \A i \in Ids : channel'[i] = IF i = id THEN opens' ELSE channel[i]
    BY <1>0, <2>2
  <2>9. ASSUME NEW i \in Closers', channel'[handle'[i].id] # 0
        PROVE  handle'[i].opening <= channel'[handle'[i].id]
    <3>1. handle'[i].id \in Ids
      BY <1>0, <2>1 DEF Closers
    <3>2. CASE handle'[i].id = id
      BY <2>5, <2>8, <3>2
    <3>3. CASE handle'[i].id # id
      BY <2>1, <2>8, <2>9, <3>1, <3>3
    <3> QED BY <3>2, <3>3
  <2> QED BY <2>2, <2>5, <2>7, <2>9
<1>5. ASSUME NEW h \in Handles, NEW g \in Handles, Move(h, g) PROVE Openings'
  <2>1. /\ h \in Closers /\ g \notin Closers /\ h # g
        /\ Closers' = (Closers \ {h}) \cup {g}
        /\ handle'[g].id = handle[h].id /\ handle'[g].opening = handle[h].opening
        /\ \A i \in Closers \ {h} : handle'[i] = handle[i]
    BY <1>5, MoveEffect
  <2>2. opens' = opens /\ conn' = "open" /\ channel' = channel
    BY <1>5 DEF Move, broker
  <2> QED BY <2>1, <2>2
<1>6. ASSUME NEW h \in Handles, Destroy(h) PROVE Openings'
  <2>1. Closers' = Closers \ {h} /\ \A i \in Closers' : handle'[i] = handle[i]
    BY <1>6, DestroyEffect
  <2>2. opens' = opens /\ conn' = "open"
    BY <1>6 DEF Destroy
  <2>3. \A i \in Ids : channel'[i] # 0 => channel'[i] = channel[i]
    BY <1>6, DestroyCloses
  <2> QED BY <1>0, <2>1, <2>2, <2>3 DEF Closers
<1>7. CASE UNCHANGED vars
  BY <1>1, <1>7 DEF vars, broker
<1> QED BY <1>2, <1>3, <1>4, <1>5, <1>6, <1>7, StepKinds

\* The inductive invariant of the promise: neither numbers nor openings are shared.
THEOREM PromiseInvariant == Spec => []PromiseInv
<1>1. Init => Openings
  <2> SUFFICES ASSUME Init PROVE Openings
    OBVIOUS
  <2>1. Closers = {}
    BY NoChannelType DEF Init, Closers
  <2> QED BY <2>1 DEF Openings, DistinctOpenings, LastIsOpen, ObjectsNeedConnection
<1>2. TypeOK /\ Openings /\ [Next]_vars => Openings'
  BY OpeningsStep
<1>3. Spec => []Openings
  BY <1>1, <1>2, TypeCorrect, PTL DEF Spec
<1>4. OwnershipInv /\ Openings => PromiseInv
  BY DEF PromiseInv, Openings
<1> QED BY <1>3, <1>4, OwnershipInvariant, PTL

\* A channel that is open at the broker has an object whose destructor will close
\* it, through moves, failures and the reuse of numbers, and only one whose it is.
THEOREM OneCloser == Spec => []OneCloserPerChannel
<1>1. ASSUME PromiseInv, NEW id \in Ids, channel[id] # 0
      PROVE  \E h \in Closers :
                /\ handle[h].id = id /\ handle[h].opening = channel[id]
                /\ \A g \in Closers \ {h} :
                     handle[g].id = id => handle[g].opening < channel[id]
  <2>1. PICK h \in Closers : handle[h].id = id /\ handle[h].opening = channel[id]
    BY <1>1 DEF PromiseInv, OwnershipInv, OpenChannelsHaveClosers
  <2>2. ASSUME NEW g \in Closers \ {h}, handle[g].id = id
        PROVE  handle[g].opening < channel[id]
    <3>1. handle[g].opening \in Nat /\ channel[id] \in Nat
      BY <1>1 DEF PromiseInv, OwnershipInv, TypeOK, BrokerTypeOK, ObjectsTypeOK,
                  ChannelObjects, Closers
    <3>2. handle[g].opening # channel[id]
      BY <1>1, <2>1, <2>2 DEF PromiseInv, DistinctOpenings
    <3>3. handle[g].opening <= channel[id]
      BY <1>1, <2>2 DEF PromiseInv, LastIsOpen
    <3> QED BY <3>1, <3>2, <3>3
  <2> QED BY <2>1, <2>2
<1>2. PromiseInv => OneCloserPerChannel
  BY <1>1 DEF OneCloserPerChannel
<1> QED BY <1>2, PromiseInvariant, PTL

\* No destructor closes a channel that was opened before that of its object, and
\* one opened later only under a number that the program used twice.
THEOREM DestructorsSpareOlder == Spec => DestructorsCloseNothingOlder
<1>1. ASSUME PromiseInv, NEW h \in Handles, NEW id \in Ids, Destroy(h),
             channel'[id] # channel[id]
      PROVE  /\ h \in Closers
             /\ \/ channel[id] = handle[h].opening
                \/ id \in reused /\ channel[id] > handle[h].opening
  <2>0. TypeOK
    BY <1>1 DEF PromiseInv, OwnershipInv
  <2>1. h \in Closers /\ id = handle[h].id /\ channel[id] # 0
    BY <1>1, <2>0, DestroyCloses
  <2>2. handle[h].opening <= channel[id]
    BY <1>1, <2>1 DEF PromiseInv, LastIsOpen
  <2>3. CASE channel[id] # handle[h].opening
    <3>1. PICK c \in Closers : handle[c].id = id /\ handle[c].opening = channel[id]
      BY <1>1, <2>1 DEF PromiseInv, OwnershipInv, OpenChannelsHaveClosers
    <3>2. id \in reused
      BY <1>1, <2>1, <2>3, <3>1 DEF PromiseInv, OwnershipInv, DistinctNumbers
    <3>3. handle[h].opening \in Nat /\ channel[id] \in Nat
      BY <2>0 DEF TypeOK, BrokerTypeOK, ObjectsTypeOK, ChannelObjects
    <3> QED BY <2>1, <2>2, <2>3, <3>2, <3>3
  <2> QED BY <2>1, <2>3
<1>2. PromiseInv =>
        [\A h \in Handles, id \in Ids :
           Destroy(h) /\ channel'[id] # channel[id]
             => /\ h \in Closers
                /\ \/ channel[id] = handle[h].opening
                   \/ id \in reused /\ channel[id] > handle[h].opening]_vars
  BY <1>1
<1> QED BY <1>2, PromiseInvariant, PTL DEF DestructorsCloseNothingOlder

\* the owners of all openings, as ChannelPromise has them
Owners == [n \in 1..MaxOpens |-> OwnersOf(n)]

\* Where the objects stay, so do the owners.
LEMMA SameOwners ==
    ASSUME Closers' = Closers, \A i \in Closers : handle'[i].opening = handle[i].opening
    PROVE  Owners' = Owners
BY DEF Owners, OwnersOf

\* Openings that only go away are lost.
LEMMA LoseStep ==
    ASSUME opens' = opens, Owners' = Owners,
           \A i \in Ids : channel'[i] # 0 => channel'[i] = channel[i]
    PROVE  Promise!Lose
<1>1. OpenOpenings' \subseteq OpenOpenings
  BY DEF OpenOpenings
<1> QED BY <1>1 DEF Promise!Lose, Owners

\* A connection begins with nothing open and nobody to close it.
LEMMA ConnectRestarts ==
    ASSUME PromiseInv, Connect
    PROVE  Promise!Restart
<1>1. Closers = {} /\ Closers' = {} /\ channel' = channel /\ opens' = 0
  BY DEF Connect, Closers, PromiseInv, ObjectsNeedConnection
<1>2. Owners' = Owners /\ \A n \in 1..MaxOpens : OwnersOf(n) = {}
  BY <1>1 DEF Owners, OwnersOf
<1>3. OpenOpenings = {}
  BY <1>1 DEF OpenOpenings, PromiseInv, OwnershipInv, OpenChannelsHaveClosers
<1>4. OpenOpenings' = OpenOpenings
  BY <1>1 DEF OpenOpenings
<1> QED BY <1>1, <1>2, <1>3, <1>4 DEF Promise!Restart, Owners

\* A constructor that succeeds gets the next opening, whatever number it has.
LEMMA OpenGets ==
    ASSUME PromiseInv, NEW h \in Handles, NEW id \in Ids, Open(h, id), OpenSucceeds(h, id)
    PROVE  Promise!Get(h)
<1>0. TypeOK /\ BrokerTypeOK /\ MaxOpens \in Nat
  BY ChannelsAssumption DEF PromiseInv, OwnershipInv, TypeOK
<1>1. /\ h \notin Closers /\ Closers' = Closers \cup {h}
      /\ handle'[h].id = id /\ handle'[h].opening = opens'
      /\ \A i \in Closers : handle'[i] = handle[i]
  BY <1>0, OpenEffect DEF Open
<1>2. /\ opens < MaxOpens /\ opens' = opens + 1 /\ opens \in Nat
      /\ channel' = [channel EXCEPT ![id] = opens']
  BY <1>0 DEF Open, CanOpen, OpenSucceeds, BrokerTypeOK
<1>3. opens' \in 1..MaxOpens
  BY <1>0, <1>2
<1>4. \A i \in Closers : handle[i].opening # opens'
  <2>1. \A i \in Closers : handle[i].opening <= opens /\ handle[i].opening \in Nat
    BY <1>0 DEF PromiseInv, DistinctOpenings, Closers, TypeOK, ObjectsTypeOK, ChannelObjects
  <2> QED BY <1>2, <2>1
<1>5. \A n \in 1..MaxOpens : OwnersOf(n)' = IF n = opens' THEN {h} ELSE OwnersOf(n)
  BY <1>1, <1>4 DEF OwnersOf
<1>6. Owners' = [Owners EXCEPT ![opens'] = {h}]
  BY <1>3, <1>5 DEF Owners
<1>7. \A n \in 1..MaxOpens : h \notin Owners[n]
  BY <1>1 DEF Owners, OwnersOf
<1>8. OpenOpenings' = OpenOpenings \cup {opens'}
  <2>1. channel[id] = 0
    <3>1. PICK reply \in OpenReplies(id) : Thrown(reply) = "none" \/ OpenFails(h, id, reply)
      BY DEF Open
    <3>2. ~OpenFails(h, id, reply)
      BY <1>2 DEF OpenFails
    <3>3. reply = "normal"
      BY <3>1, <3>2, AnswersType, ThrownType
    <3> QED BY <3>3 DEF OpenReplies
  <2>2. \A i \in Ids : channel'[i] = IF i = id THEN opens' ELSE channel[i]
    BY <1>0, <1>2 DEF BrokerTypeOK
  <2>3. opens' # 0
    BY <1>2
  <2> QED BY <2>1, <2>2, <2>3 DEF OpenOpenings
<1> QED BY <1>2, <1>6, <1>7, <1>8 DEF Promise!Get, Owners

\* the opening of an object that will close it
LEMMA OpeningType ==
    ASSUME TypeOK, NEW h \in Closers
    PROVE  handle[h].opening \in 1..MaxOpens
<1>1. /\ handle[h].opening \in 0..MaxOpens /\ handle[h].opening # 0 /\ MaxOpens \in Nat
  BY ChannelsAssumption DEF Closers, TypeOK, ObjectsTypeOK, ChannelObjects
<1> QED BY <1>1

\* A move passes the opening on.
LEMMA MovePasses ==
    ASSUME PromiseInv, NEW h \in Handles, NEW g \in Handles, Move(h, g)
    PROVE  Promise!Pass(h, g, handle[h].opening)
<1> DEFINE n == handle[h].opening
<1>0. TypeOK
  BY DEF PromiseInv, OwnershipInv
<1>1. /\ h \in Closers /\ g \notin Closers /\ h # g
      /\ Closers' = (Closers \ {h}) \cup {g}
      /\ handle'[g].opening = n
      /\ \A i \in Closers \ {h} : handle'[i] = handle[i]
  BY <1>0, MoveEffect
<1>2. n \in 1..MaxOpens
  BY <1>0, <1>1, OpeningType
<1>3. \A i \in Closers : handle[i].opening = n => i = h
  BY <1>1 DEF PromiseInv, DistinctOpenings
<1> HIDE DEF n
<1>4. OwnersOf(n) = {h}
  BY <1>1, <1>3 DEF OwnersOf, n
<1>5. \A m \in 1..MaxOpens : OwnersOf(m)' = IF m = n THEN {g} ELSE OwnersOf(m)
  BY <1>1, <1>3 DEF OwnersOf, n
<1>6. Owners' = [Owners EXCEPT ![n] = {g}]
  BY <1>2, <1>5 DEF Owners
<1>7. Owners[n] = {h} /\ \A m \in 1..MaxOpens : g \notin Owners[m]
  BY <1>1, <1>2, <1>4 DEF Owners, OwnersOf
<1>8. opens' = opens /\ OpenOpenings' = OpenOpenings
  BY DEF Move, broker, OpenOpenings
<1> QED BY <1>1, <1>6, <1>7, <1>8 DEF Promise!Pass, Owners, n

\* Two numbers never have the same opening, and what is open has an owner.
LEMMA OpenIsDistinct ==
    ASSUME PromiseInv, NEW h \in Closers, NEW i \in Ids, NEW j \in Ids, channel[i] # 0
    PROVE  /\ channel[i] = channel[j] => i = j
           /\ channel[i] = handle[h].opening => i = handle[h].id
<1>1. PICK c \in Closers : handle[c].id = i /\ handle[c].opening = channel[i]
  BY DEF PromiseInv, OwnershipInv, OpenChannelsHaveClosers
<1>2. CASE channel[i] = channel[j]
  <2>1. PICK d \in Closers : handle[d].id = j /\ handle[d].opening = channel[j]
    BY <1>2 DEF PromiseInv, OwnershipInv, OpenChannelsHaveClosers
  <2>2. c = d
    BY <1>1, <1>2, <2>1 DEF PromiseInv, DistinctOpenings
  <2> QED BY <1>1, <1>2, <2>1, <2>2 DEF PromiseInv, DistinctOpenings
<1> QED BY <1>1, <1>2 DEF PromiseInv, DistinctOpenings

\* The destructor of an owner closes its opening, or, if that is lost already, a
\* later one of the same number.
LEMMA DestroyEndsOpening ==
    ASSUME PromiseInv, NEW h \in Closers, Destroy(h)
    PROVE  \/ Promise!Close(handle[h].opening)
           \/ \E m \in 1..MaxOpens : Promise!CloseLater(handle[h].opening, m)
<1> DEFINE n == handle[h].opening
           id == handle[h].id
           m == channel[id]
<1>0. TypeOK /\ OwnershipInv /\ h \in Handles /\ id \in Ids
  BY DEF PromiseInv, OwnershipInv, Closers, TypeOK, ObjectsTypeOK, ChannelObjects
<1>1. Closers' = Closers \ {h} /\ \A i \in Closers' : handle'[i] = handle[i]
  BY <1>0, DestroyEffect
<1>2. n \in 1..MaxOpens /\ n \in Nat \ {0} /\ m \in 0..MaxOpens /\ MaxOpens \in Nat
  <2>1. MaxOpens \in Nat /\ m \in 0..MaxOpens
    BY <1>0, ChannelsAssumption DEF TypeOK, BrokerTypeOK
  <2>2. n \in 1..MaxOpens
    BY <1>0, OpeningType
  <2> HIDE DEF n, m
  <2> QED BY <2>1, <2>2
<1>3. \A i \in Closers : handle[i].opening = n => i = h
  BY DEF PromiseInv, DistinctOpenings
<1>4. \A i \in Ids : channel'[i] = IF i = id THEN 0 ELSE channel[i]
  BY <1>0, DestroyCloses
<1>5. \A i \in Ids : channel[i] # 0 => (channel[i] \in {m, n} => i = id)
  BY <1>0, OpenIsDistinct
<1>6. m # 0 => n <= m
  BY DEF PromiseInv, LastIsOpen
<1>7. \A k \in 1..MaxOpens : OwnersOf(k)' = IF k = n THEN {} ELSE OwnersOf(k)
  BY <1>1, <1>3 DEF OwnersOf
<1>8. OwnersOf(n) # {}
  BY DEF OwnersOf
<1>9. opens' = opens
  BY DEF Destroy
<1> HIDE DEF n, m, id
<1>10. Owners' = [Owners EXCEPT ![n] = {}] /\ Owners[n] # {}
  BY <1>2, <1>7, <1>8 DEF Owners
<1>11. OpenOpenings' = OpenOpenings \ {m}
  <2>1. ASSUME NEW x \in OpenOpenings' PROVE x \in OpenOpenings \ {m}
    <3>1. PICK i \in Ids : x = channel'[i] /\ x # 0
      BY DEF OpenOpenings
    <3>2. i # id /\ x = channel[i]
      BY <1>4, <3>1
    <3>3. x # m
      BY <1>5, <3>1, <3>2
    <3> QED BY <3>1, <3>2, <3>3 DEF OpenOpenings
  <2>2. ASSUME NEW x \in OpenOpenings \ {m} PROVE x \in OpenOpenings'
    <3>1. PICK i \in Ids : x = channel[i] /\ x # 0
      BY DEF OpenOpenings
    <3>2. channel'[i] = x
      BY <1>4, <2>2, <3>1 DEF m
    <3> QED BY <3>1, <3>2 DEF OpenOpenings
  <2> QED BY <2>1, <2>2
<1>12. CASE m = n \/ m = 0
  <2>1. OpenOpenings' = OpenOpenings \ {n}
    <3>1. CASE m = n
      BY <1>11, <3>1
    <3>2. CASE m = 0
      <4>1. n \notin OpenOpenings
        BY <1>2, <1>5, <3>2 DEF OpenOpenings, m
      <4>2. 0 \notin OpenOpenings
        BY DEF OpenOpenings
      <4> QED BY <1>11, <3>2, <4>1, <4>2
    <3> QED BY <1>12, <3>1, <3>2
  <2>2. Promise!Close(n)
    BY <1>9, <1>10, <2>1 DEF Promise!Close, Owners
  <2> QED BY <2>2 DEF n
<1>13. CASE m # n /\ m # 0
  <2>1. m > n /\ m \in 1..MaxOpens
    BY <1>2, <1>6, <1>13
  <2>2. m \in OpenOpenings
    BY <1>0, <1>13 DEF OpenOpenings, m
  <2>3. n \notin OpenOpenings
    BY <1>2, <1>5, <1>13 DEF OpenOpenings, m
  <2>4. Promise!CloseLater(n, m)
    BY <1>9, <1>10, <1>11, <2>1, <2>2, <2>3 DEF Promise!CloseLater, Owners
  <2> QED BY <2>1, <2>4 DEF n
<1> QED BY <1>12, <1>13

\* A step is one of the promise, or none.
LEMMA PromiseStep == PromiseInv /\ [Next]_vars => [Promise!Next]_Promise!vars
<1> SUFFICES ASSUME PromiseInv, [Next]_vars PROVE [Promise!Next]_Promise!vars
  OBVIOUS
<1>0. TypeOK /\ OwnershipInv
  BY DEF PromiseInv, OwnershipInv
<1>1. CASE Elsewhere
  <2>1. Promise!Lose
    BY <1>0, <1>1, ElsewhereEffect, SameOwners, LoseStep DEF Closers
  <2> QED BY <2>1 DEF Promise!Next
<1>2. CASE Connect
  BY <1>2, ConnectRestarts DEF Promise!Next
<1>3. ASSUME NEW h \in Handles, NEW id \in Ids, Open(h, id), OpenSucceeds(h, id)
      PROVE  Promise!Next
  BY <1>3, OpenGets DEF Promise!Next
<1>4. ASSUME NEW h \in Handles, NEW g \in Handles, Move(h, g) PROVE Promise!Next
  <2>1. handle[h].opening \in 1..MaxOpens
    BY <1>0, <1>4, MoveEffect, OpeningType
  <2>2. Promise!Pass(h, g, handle[h].opening)
    BY <1>4, MovePasses
  <2> QED BY <2>1, <2>2 DEF Promise!Next
<1>5. ASSUME NEW h \in Handles, Destroy(h) PROVE Promise!Next
  <2>1. CASE h \in Closers
    <3>1. handle[h].opening \in 1..MaxOpens
      BY <1>0, <2>1, OpeningType
    <3>2. \/ Promise!Close(handle[h].opening)
          \/ \E m \in 1..MaxOpens : Promise!CloseLater(handle[h].opening, m)
      BY <1>5, <2>1, DestroyEndsOpening
    <3> QED BY <3>1, <3>2 DEF Promise!Next
  <2>2. CASE h \notin Closers
    <3>1. Closers' = Closers /\ \A i \in Closers : handle'[i] = handle[i]
      BY <1>0, <1>5, <2>2, DestroyEffect
    <3>2. opens' = opens /\ \A i \in Ids : channel'[i] = channel[i]
      BY <1>0, <1>5, <2>2, DestroyCloses DEF Destroy
    <3>3. Promise!Lose
      BY <3>1, <3>2, SameOwners, LoseStep
    <3> QED BY <3>3 DEF Promise!Next
  <2> QED BY <2>1, <2>2
<1>6. CASE UNCHANGED vars
  <2>1. UNCHANGED <<opens, OpenOpenings>> /\ Owners' = Owners
    BY <1>6 DEF vars, broker, OpenOpenings, Owners, OwnersOf, Closers
  <2> QED BY <2>1 DEF Promise!vars, Owners
<1> QED BY <1>1, <1>2, <1>3, <1>4, <1>5, <1>6, StepKinds

\* Channels pass openings on and close them as values would: each has one object,
\* from the constructor to the destructor, however numbers are used again.
THEOREM PromiseOfChannels == Spec => KeepsChannelPromise
<1>1. Init => Promise!Init
  <2> SUFFICES ASSUME Init PROVE Promise!Init
    OBVIOUS
  <2>1. Closers = {}
    BY NoChannelType DEF Init, Closers
  <2>2. \A n \in 1..MaxOpens : OwnersOf(n) = {}
    BY <2>1 DEF OwnersOf
  <2>3. OpenOpenings = {}
    BY DEF Init, AllClosed, OpenOpenings
  <2> QED BY <2>2, <2>3 DEF Promise!Init, Init
<1> QED BY <1>1, PromiseStep, PromiseInvariant, PTL DEF Spec, KeepsChannelPromise, Promise!Spec

=============================================================================
