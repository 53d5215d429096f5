------------------------- MODULE AdvConsumerProofs -------------------------
(***************************************************************************)
(* Proofs about AdvConsumer, for any number of threads, messages and       *)
(* connections: the type invariant, the mutual exclusion on both queues,   *)
(* what an acknowledgement settles, that a delivery has one holder, how    *)
(* many ids are left over from ended connections, and how many messages    *)
(* are lost to them.                                                       *)
(***************************************************************************)
EXTENDS AdvConsumer, FiniteSetTheorems, TLAPS

USE AdvConsumerAssumption

-----------------------------------------------------------------------------
(* The types *)

\* A message is not the empty hand.
LEMMA ItemsAreRecords == \A i \in Items : i # <<>>
BY DEF Items

\* The tag of one more delivery is within the deliveries.
LEMMA OneMore ==
  ASSUME NEW n \in Nat, NEW S, S \subseteq 1..n
  PROVE  S \cup {n + 1} \subseteq 1..(n + 1)
OBVIOUS

\* What the broker waits for is a message it delivered.
LEMMA UnackedAreDelivered ==
  BrokerTypeOK => \A tag \in unacked : delivered[tag] \in Messages
BY DEF BrokerTypeOK

\* A broker that takes its messages back waits for no tag.
LEMMA RequeueType ==
  BrokerTypeOK /\ Requeue => ready' \subseteq Messages /\ unacked' = {}
<1> SUFFICES ASSUME BrokerTypeOK, Requeue
             PROVE  ready' \subseteq Messages /\ unacked' = {}
  OBVIOUS
<1> QED BY UnackedAreDelivered DEF BrokerTypeOK, Requeue

\* The flags stay Boolean.
LEMMA FlagsTypeStep == TypeOK /\ [Next]_vars => FlagsTypeOK'
<1> SUFFICES ASSUME FlagsTypeOK, [Next]_vars PROVE FlagsTypeOK'
  BY DEF TypeOK
<1> USE DEF FlagsTypeOK, broker
<1>1. CASE (\E m \in Messages : Deliver(m)) \/ LinkLost \/ BrokerNotices
  BY <1>1 DEF Deliver, LinkLost, BrokerNotices, Requeue
<1>2. CASE Start \/ Stop \/ Connect
  BY <1>2 DEF Start, Stop, Connect
<1>3. CASE ConsumeEnvelope \/ ConsumeNothing \/ ConsumeThrows \/ Leave
  BY <1>3 DEF ConsumeEnvelope, ConsumeNothing, ConsumeThrows, Leave, Hangup, Requeue
<1>4. CASE Emplace
  BY <1>4 DEF Emplace
<1>5. CASE LockAcks \/ LockMessages \/ ClearMessages \/ ClearAcks
  BY <1>5 DEF LockAcks, LockMessages, ClearMessages, ClearAcks
<1>6. CASE SendAck
  BY <1>6 DEF SendAck, Acked, Requeue
<1>7. ASSUME NEW t \in Threads, ThreadStep(t) \/ GiveUp(t) PROVE FlagsTypeOK'
  BY <1>7 DEF ThreadStep, Receive, Take, Work, LockAckQueue, Acknowledge, GiveUp
<1>8. CASE UNCHANGED vars
  BY <1>8 DEF vars
<1> QED BY <1>1, <1>2, <1>3, <1>4, <1>5, <1>6, <1>7, <1>8
        DEF Next, WorkerStep, Ended

\* The worker stays at a place of the program and within the deliveries.
LEMMA WorkerTypeStep == TypeOK /\ [Next]_vars => WorkerTypeOK'
<1> SUFFICES ASSUME TypeOK, [Next]_vars PROVE WorkerTypeOK'
  OBVIOUS
<1> USE DEF TypeOK, WorkerTypeOK, WorkerPlaces, InRound
<1>d. Len(delivered) \in Nat
  BY DEF BrokerTypeOK
<1>1. ASSUME NEW m \in Messages, Deliver(m) PROVE WorkerTypeOK'
  BY <1>1, <1>d DEF Deliver, BrokerTypeOK
<1>2. CASE LinkLost \/ BrokerNotices \/ Stop \/ Start
  BY <1>2, <1>d DEF LinkLost, BrokerNotices, Stop, Start, broker
<1>3. CASE Connect
  BY <1>3, <1>d DEF Connect
<1>4. CASE ConsumeEnvelope \/ ConsumeNothing
  BY <1>4, <1>d DEF ConsumeEnvelope, ConsumeNothing, broker
<1>5. CASE ConsumeThrows \/ Leave
  BY <1>5, <1>d DEF ConsumeThrows, Leave, Hangup, broker
<1>6. CASE Emplace \/ LockAcks \/ LockMessages \/ ClearMessages \/ ClearAcks
  BY <1>6, <1>d DEF Emplace, LockAcks, LockMessages, ClearMessages, ClearAcks, broker
<1>7. CASE SendAck
  BY <1>7, <1>d DEF SendAck, broker
<1>8. ASSUME NEW t \in Threads, ThreadStep(t) \/ GiveUp(t) PROVE WorkerTypeOK'
  BY <1>8, <1>d DEF ThreadStep, Receive, Take, Work, LockAckQueue, Acknowledge, GiveUp,
                    broker
<1>9. CASE UNCHANGED vars
  BY <1>9 DEF vars, broker
<1> QED BY <1>1, <1>2, <1>3, <1>4, <1>5, <1>6, <1>7, <1>8, <1>9
        DEF Next, WorkerStep, Ended

\* The steps of the others leave the threads alone.
LEMMA OthersLeaveThreads ==
  ASSUME NEW m,
         \/ Deliver(m) \/ LinkLost \/ BrokerNotices
         \/ Start \/ WorkerStep \/ Stop \/ UNCHANGED vars
  PROVE  UNCHANGED <<thread, hand, processed>>
BY DEF Deliver, LinkLost, BrokerNotices, Start, WorkerStep, Stop, vars, Connect,
       ConsumeEnvelope, ConsumeNothing, ConsumeThrows, Emplace, LockAcks, SendAck,
       LockMessages, ClearMessages, ClearAcks, Leave

\* A thread has a message in its hand exactly where it works on one.
LEMMA ThreadsTypeStep ==
  TypeOK /\ [Next]_vars => ThreadsTypeOK' /\ processed' \subseteq Messages
<1> SUFFICES ASSUME TypeOK, [Next]_vars
             PROVE  ThreadsTypeOK' /\ processed' \subseteq Messages
  OBVIOUS
<1> USE DEF TypeOK, ThreadsTypeOK, ThreadPlaces
<1>1. ASSUME NEW t \in Threads, Receive(t) \/ LockAckQueue(t) \/ GiveUp(t) \/ Acknowledge(t)
      PROVE  ThreadsTypeOK' /\ processed' \subseteq Messages
  BY <1>1 DEF Receive, LockAckQueue, GiveUp, Acknowledge
<1>2. ASSUME NEW t \in Threads, Take(t)
      PROVE  ThreadsTypeOK' /\ processed' \subseteq Messages
  BY <1>2, ItemsAreRecords DEF Take, QueuesTypeOK
<1>3. ASSUME NEW t \in Threads, Work(t)
      PROVE  ThreadsTypeOK' /\ processed' \subseteq Messages
  BY <1>3, ItemsAreRecords DEF Work, Items
<1>4. CASE UNCHANGED <<thread, hand, processed>>
  BY <1>4
<1> QED BY <1>1, <1>2, <1>3, <1>4, OthersLeaveThreads DEF Next, ThreadStep, Ended

\* The queues hold messages with their tags and connections.
LEMMA QueuesTypeStep == TypeOK /\ [Next]_vars => QueuesTypeOK'
<1> SUFFICES ASSUME TypeOK, [Next]_vars PROVE QueuesTypeOK'
  OBVIOUS
<1> USE DEF TypeOK, QueuesTypeOK, shared
<1>1. ASSUME NEW m \in Messages, Deliver(m) PROVE QueuesTypeOK'
  BY <1>1 DEF Deliver
<1>2. CASE LinkLost \/ BrokerNotices \/ Start \/ Stop \/ Connect
  BY <1>2 DEF LinkLost, BrokerNotices, Start, Stop, Connect
<1>3. CASE ConsumeEnvelope \/ ConsumeNothing \/ ConsumeThrows \/ Leave
  BY <1>3 DEF ConsumeEnvelope, ConsumeNothing, ConsumeThrows, Leave
<1>4. CASE Emplace
  <2> DEFINE item == [tag |-> taken, conn |-> conn, msg |-> delivered[taken]]
  <2>1. taken \in 1..Len(delivered) /\ Len(delivered) \in Nat /\ delivered[taken] \in Messages
    BY <1>4 DEF Emplace, WorkerTypeOK, BrokerTypeOK
  <2>2. conn \in 1..MaxConnections
    BY <1>4 DEF Emplace, WorkerTypeOK, InRound
  <2>3. item \in Items
    BY <2>1, <2>2 DEF Items
  <2>4. \A tag \in Tags : [item EXCEPT !.tag = tag] \in Items
    <3>1. Cardinality(Messages) \in Nat
      BY FS_CardinalityType
    <3>2. \A tag \in Tags : tag \in Nat \ {0}
      BY <3>1 DEF Tags
    <3> QED BY <2>3, <3>2 DEF Items
  <2>5. messages' = messages \/ \E i \in Items : messages' = Append(messages, i)
    BY <1>4, <2>3, <2>4 DEF Emplace
  <2> QED BY <1>4, <2>5 DEF Emplace
<1>5. CASE LockAcks \/ LockMessages
  BY <1>5 DEF LockAcks, LockMessages
<1>6. CASE ClearMessages \/ ClearAcks
  <2>1. <<>> \in Seq(Items)
    OBVIOUS
  <2>2. CASE ClearMessages
    BY <2>1, <2>2 DEF ClearMessages
  <2> QED BY <1>6, <2>1, <2>2 DEF ClearAcks
<1>11. CASE SendAck
  <2>1. ackQueue # <<>> => Tail(ackQueue) \in Seq(Items)
    OBVIOUS
  <2> QED BY <1>11, <2>1 DEF SendAck
<1>7. ASSUME NEW t \in Threads, Receive(t) \/ Work(t) \/ LockAckQueue(t) \/ GiveUp(t)
      PROVE  QueuesTypeOK'
  BY <1>7 DEF Receive, Work, LockAckQueue, GiveUp
<1>8. ASSUME NEW t \in Threads, Take(t) PROVE QueuesTypeOK'
  <2>1. messages # <<>> => Tail(messages) \in Seq(Items)
    OBVIOUS
  <2>2. messages' \in Seq(Items)
    BY <1>8, <2>1 DEF Take
  <2>3. UNCHANGED <<ackQueue, ackMtx>> /\ messageMtx' = Nobody
    BY <1>8 DEF Take
  <2> QED BY <2>2, <2>3
<1>9. ASSUME NEW t \in Threads, Acknowledge(t) PROVE QueuesTypeOK'
  <2>1. hand[t] \in Items
    BY <1>9 DEF Acknowledge, ThreadsTypeOK
  <2>2. ackQueue' \in Seq(Items) /\ ackMtx' = Nobody /\ UNCHANGED <<messages, messageMtx>>
    BY <1>9, <2>1 DEF Acknowledge
  <2> QED BY <2>2
<1>10. CASE UNCHANGED vars
  BY <1>10 DEF vars
<1> QED BY <1>1, <1>2, <1>3, <1>4, <1>5, <1>6, <1>7, <1>8, <1>9, <1>10, <1>11
        DEF Next, WorkerStep, ThreadStep, Ended

\* The broker waits for tags of deliveries that there are.
LEMMA BrokerTypeStep == TypeOK /\ [Next]_vars => BrokerTypeOK'
<1> SUFFICES ASSUME TypeOK, [Next]_vars PROVE BrokerTypeOK'
  OBVIOUS
<1> USE DEF TypeOK, BrokerTypeOK, broker
<1>1. ASSUME NEW m \in Messages, Deliver(m) PROVE BrokerTypeOK'
  <2>1. /\ delivered' \in Seq(Messages) /\ Len(delivered') = Len(delivered) + 1
        /\ Len(delivered) \in Nat
    BY <1>1 DEF Deliver
  <2>2. unacked' = unacked \cup {Len(delivered) + 1}
    BY <1>1, <2>1 DEF Deliver
  <2>3. unacked' \subseteq 1..Len(delivered')
    BY <2>1, <2>2, OneMore
  <2> QED BY <1>1, <2>1, <2>3 DEF Deliver
<1>2. CASE LinkLost \/ BrokerNotices
  BY <1>2, RequeueType DEF LinkLost, BrokerNotices
<1>3. CASE Connect \/ Start \/ Stop
  BY <1>3 DEF Connect, Start, Stop
<1>4. CASE ConsumeThrows \/ Leave
  <2>1. CASE Hangup
    <3>1. ready' \subseteq Messages /\ unacked' = {}
      BY <2>1, RequeueType DEF Hangup
    <3> QED BY <2>1, <3>1 DEF Hangup
  <2> QED BY <1>4, <2>1 DEF ConsumeThrows, Leave
<1>5. CASE SendAck
  <2>1. CASE ackQueue = <<>>
    BY <1>5, <2>1 DEF SendAck
  <2>2. CASE Acked(Head(ackQueue).tag) /\ UNCHANGED delivered
    <3> DEFINE tag == Head(ackQueue).tag
    <3>1. CASE Requeue /\ UNCHANGED settled
      BY <2>2, <3>1, RequeueType
    <3>2. CASE UNCHANGED <<up, unacked, ready, settled>>
      BY <2>2, <3>2
    <3>3. CASE /\ tag \in unacked /\ unacked' = unacked \ {tag} /\ UNCHANGED ready
               /\ settled' = settled \cup {delivered[tag]}
      <4>1. delivered[tag] \in Messages
        BY <3>3, UnackedAreDelivered
      <4>2. /\ delivered' \in Seq(Messages) /\ ready' \subseteq Messages
            /\ settled' \subseteq Messages
        BY <2>2, <3>3, <4>1
      <4>3. unacked' \subseteq 1..Len(delivered')
        BY <2>2, <3>3
      <4> QED BY <4>2, <4>3
    <3> QED BY <2>2, <3>1, <3>2, <3>3 DEF Acked
  <2> QED BY <1>5, <2>1, <2>2 DEF SendAck
<1>6. CASE ConsumeEnvelope \/ ConsumeNothing \/ LockAcks \/ LockMessages
           \/ ClearMessages \/ ClearAcks
  BY <1>6 DEF ConsumeEnvelope, ConsumeNothing, LockAcks, LockMessages, ClearMessages,
              ClearAcks
<1>7. CASE Emplace
  BY <1>7 DEF Emplace
<1>8. ASSUME NEW t \in Threads, Receive(t) \/ Work(t) \/ LockAckQueue(t) \/ GiveUp(t)
                                \/ Acknowledge(t)
      PROVE  BrokerTypeOK'
  BY <1>8 DEF Receive, Work, LockAckQueue, GiveUp, Acknowledge
<1>9. ASSUME NEW t \in Threads, Take(t) PROVE BrokerTypeOK'
  BY <1>9 DEF Take
<1>10. CASE UNCHANGED vars
  BY <1>10 DEF vars
<1> QED BY <1>1, <1>2, <1>3, <1>4, <1>5, <1>6, <1>7, <1>8, <1>9, <1>10
        DEF Next, WorkerStep, ThreadStep, Ended

\* Every state of the example is well typed, the worker reads only deliveries
\* that there are and a thread that works has a message.
THEOREM TypeCorrect == Spec => []TypeOK
<1>1. Init => TypeOK
  <2> SUFFICES ASSUME Init PROVE TypeOK
    OBVIOUS
  <2>0. FlagsTypeOK
    BY DEF Init, FlagsTypeOK
  <2>1. WorkerTypeOK
    BY DEF Init, WorkerTypeOK, WorkerPlaces, InRound
  <2>2. ThreadsTypeOK
    BY DEF Init, ThreadsTypeOK, ThreadPlaces
  <2>3. QueuesTypeOK /\ BrokerTypeOK
    BY DEF Init, QueuesTypeOK, BrokerTypeOK
  <2> QED BY <2>0, <2>1, <2>2, <2>3 DEF Init, TypeOK
<1>2. TypeOK /\ [Next]_vars => TypeOK'
  BY FlagsTypeStep, WorkerTypeStep, ThreadsTypeStep, QueuesTypeStep, BrokerTypeStep
  DEF TypeOK
<1> QED BY <1>1, <1>2, PTL DEF Spec

-----------------------------------------------------------------------------
(* The lock of ackQueue_ *)

\* ackMtx_ is held by who is in a function that uses the queue.
LockInv == /\ ackMtx = Worker <=> worker \in {"ack", "clearAcks"}
           /\ \A t \in Threads : ackMtx = t <=> thread[t] = "acknowledge"

\* A step takes or releases the lock with the place it is for.
LEMMA LockStep == TypeOK /\ LockInv /\ [Next]_vars => LockInv'
<1> SUFFICES ASSUME TypeOK, LockInv, [Next]_vars PROVE LockInv'
  OBVIOUS
<1> USE DEF LockInv, shared
<1>t. thread \in [Threads -> ThreadPlaces]
  BY DEF TypeOK, ThreadsTypeOK
<1>1. CASE (\E m \in Messages : Deliver(m)) \/ LinkLost \/ BrokerNotices \/ Stop
  BY <1>1 DEF Deliver, LinkLost, BrokerNotices, Stop
<1>2. CASE Start \/ Connect \/ Leave
  BY <1>2 DEF Start, Connect, Leave
<1>3. CASE ConsumeEnvelope \/ ConsumeNothing \/ ConsumeThrows
  BY <1>3 DEF ConsumeEnvelope, ConsumeNothing, ConsumeThrows
<1>4. CASE Emplace
  BY <1>4 DEF Emplace
<1>5. CASE LockAcks
  BY <1>5 DEF LockAcks
<1>6. CASE SendAck \/ ClearAcks
  BY <1>6 DEF SendAck, ClearAcks
<1>7. CASE LockMessages \/ ClearMessages
  BY <1>7 DEF LockMessages, ClearMessages
<1>8. ASSUME NEW t \in Threads, Receive(t) \/ Take(t) \/ Work(t) \/ GiveUp(t)
      PROVE  LockInv'
  BY <1>t, <1>8 DEF Receive, Take, Work, GiveUp
<1>9. ASSUME NEW t \in Threads, LockAckQueue(t) PROVE LockInv'
  BY <1>t, <1>9 DEF LockAckQueue
<1>10. ASSUME NEW t \in Threads, Acknowledge(t) PROVE LockInv'
  BY <1>t, <1>10 DEF Acknowledge
<1>11. CASE UNCHANGED vars
  BY <1>11 DEF vars
<1> QED BY <1>1, <1>2, <1>3, <1>4, <1>5, <1>6, <1>7, <1>8, <1>9, <1>10, <1>11
        DEF Next, WorkerStep, ThreadStep, Ended

\* Only one thread at a time is in a function that uses ackQueue_.
THEOREM AcksAreExclusive == Spec => []AckQueueExclusive
<1>1. Init => LockInv
  BY DEF Init, LockInv
<1>2. LockInv => AckQueueExclusive
  <2> SUFFICES ASSUME LockInv PROVE Cardinality(InAckQueue) <= 1
    BY DEF AckQueueExclusive
  <2>1. InAckQueue \subseteq {ackMtx}
    BY DEF LockInv, InAckQueue
  <2>2. IsFiniteSet({ackMtx}) /\ Cardinality({ackMtx}) = 1
    BY FS_Singleton
  <2>3. Cardinality(InAckQueue) <= Cardinality({ackMtx})
    BY <2>1, <2>2, FS_Subset
  <2> QED BY <2>2, <2>3
<1> QED BY <1>1, <1>2, LockStep, TypeCorrect, PTL DEF Spec

-----------------------------------------------------------------------------
(* The lock of messages_ *)

\* messageMtx_ is held by who takes a message or empties the queue.
MessageLockInv == /\ messageMtx = Worker <=> worker = "clear"
                  /\ \A t \in Threads : messageMtx = t <=> thread[t] = "take"

\* A step takes or releases the lock with the place it is for.
LEMMA MessageLockStep == TypeOK /\ MessageLockInv /\ [Next]_vars => MessageLockInv'
<1> SUFFICES ASSUME TypeOK, MessageLockInv, [Next]_vars PROVE MessageLockInv'
  OBVIOUS
<1> USE DEF MessageLockInv, shared
<1>t. thread \in [Threads -> ThreadPlaces]
  BY DEF TypeOK, ThreadsTypeOK
<1>1. CASE (\E m \in Messages : Deliver(m)) \/ LinkLost \/ BrokerNotices \/ Stop
  BY <1>1 DEF Deliver, LinkLost, BrokerNotices, Stop
<1>2. CASE Start \/ Connect \/ Leave
  BY <1>2 DEF Start, Connect, Leave
<1>3. CASE ConsumeEnvelope \/ ConsumeNothing \/ ConsumeThrows
  BY <1>3 DEF ConsumeEnvelope, ConsumeNothing, ConsumeThrows
<1>4. CASE Emplace
  BY <1>4 DEF Emplace
<1>5. CASE LockAcks \/ SendAck \/ ClearAcks
  BY <1>5 DEF LockAcks, SendAck, ClearAcks
<1>6. CASE LockMessages
  BY <1>6 DEF LockMessages
<1>7. CASE ClearMessages
  BY <1>7 DEF ClearMessages
<1>8. ASSUME NEW t \in Threads, Work(t) \/ LockAckQueue(t) \/ Acknowledge(t) \/ GiveUp(t)
      PROVE  MessageLockInv'
  BY <1>t, <1>8 DEF Work, LockAckQueue, Acknowledge, GiveUp
<1>9. ASSUME NEW t \in Threads, Receive(t) PROVE MessageLockInv'
  BY <1>t, <1>9 DEF Receive
<1>10. ASSUME NEW t \in Threads, Take(t) PROVE MessageLockInv'
  BY <1>t, <1>10 DEF Take
<1>11. CASE UNCHANGED vars
  BY <1>11 DEF vars
<1> QED BY <1>1, <1>2, <1>3, <1>4, <1>5, <1>6, <1>7, <1>8, <1>9, <1>10, <1>11
        DEF Next, WorkerStep, ThreadStep, Ended

\* Only the callback of the worker gets into messages_ beside another thread, and
\* beside one only.
THEOREM OthersTakeTurns == Spec => []OnlyTheCallbackRaces
<1>1. Init => MessageLockInv
  BY DEF Init, MessageLockInv
<1>2. MessageLockInv => OnlyTheCallbackRaces
  <2> SUFFICES ASSUME MessageLockInv
               PROVE  Cardinality(InMessages) <= IF worker = "emplace" THEN 2 ELSE 1
    BY DEF OnlyTheCallbackRaces
  <2>1. IsFiniteSet({messageMtx}) /\ Cardinality({messageMtx}) = 1
    BY FS_Singleton
  <2>2. CASE worker # "emplace"
    <3>1. InMessages \subseteq {messageMtx}
      BY <2>2 DEF MessageLockInv, InMessages
    <3>2. Cardinality(InMessages) <= Cardinality({messageMtx})
      BY <2>1, <3>1, FS_Subset
    <3> QED BY <2>1, <2>2, <3>2
  <2>3. CASE worker = "emplace"
    <3>1. InMessages \subseteq {messageMtx} \cup {Worker}
      BY <2>3 DEF MessageLockInv, InMessages
    <3>2. /\ IsFiniteSet({messageMtx} \cup {Worker})
          /\ Cardinality({messageMtx} \cup {Worker}) \in {1, 2}
      <4>1. /\ IsFiniteSet({messageMtx} \cup {Worker})
            /\ Cardinality({messageMtx} \cup {Worker})
                 = IF Worker \in {messageMtx} THEN Cardinality({messageMtx})
                                             ELSE Cardinality({messageMtx}) + 1
        BY ONLY <2>1, FS_AddElement
      <4> QED BY <2>1, <4>1
    <3>3. Cardinality(InMessages) <= Cardinality({messageMtx} \cup {Worker})
      BY <3>1, <3>2, FS_Subset
    <3>4. Cardinality(InMessages) \in Nat
      BY <3>1, <3>2, FS_Subset, FS_CardinalityType
    <3> QED BY <2>3, <3>2, <3>3, <3>4
  <2> QED BY <2>2, <2>3
<1> QED BY <1>1, <1>2, MessageLockStep, TypeCorrect, PTL DEF Spec

-----------------------------------------------------------------------------
(* What an id stands for *)

\* The tag of a message of this connection is the number of its delivery.
Carried(i) == /\ i.conn <= conn
              /\ InRound /\ i.conn = conn /\ ~raced
                   => i.tag \in 1..Len(delivered) /\ delivered[i.tag] = i.msg

\* the same in the next state
StillCarried(i) == /\ i.conn <= conn'
                   /\ InRound' /\ i.conn = conn' /\ ~raced'
                        => i.tag \in 1..Len(delivered') /\ delivered'[i.tag] = i.msg

TagsInv == /\ \A k \in 1..Len(messages) : Carried(messages[k])
           /\ \A k \in 1..Len(ackQueue) :
                Carried(ackQueue[k]) /\ ackQueue[k].msg \in processed
           /\ \A t \in Threads : hand[t] # <<>> =>
                /\ Carried(hand[t])
                /\ thread[t] \in {"wantAcks", "acknowledge"} => hand[t].msg \in processed

\* A step of the worker or the broker ends the round, begins a connection, or
\* leaves the deliveries of this one.
RoundKept == /\ conn' = conn \/ conn' = conn + 1
             /\ \/ ~InRound' \/ conn' = conn + 1
                \/ /\ InRound
                   /\ \/ delivered' = delivered
                      \/ \E m \in Messages : delivered' = Append(delivered, m)
             /\ processed \subseteq processed'

LEMMA RoundStep == [Next]_vars => RoundKept
<1> SUFFICES ASSUME [Next]_vars PROVE RoundKept
  OBVIOUS
<1> USE DEF RoundKept, InRound, broker
<1>1. CASE (\E m \in Messages : Deliver(m)) \/ LinkLost \/ BrokerNotices \/ Stop \/ Start
  BY <1>1 DEF Deliver, LinkLost, BrokerNotices, Stop, Start
<1>2. CASE Connect \/ Leave \/ ConsumeThrows
  BY <1>2 DEF Connect, Leave, ConsumeThrows
<1>3. CASE ConsumeEnvelope \/ ConsumeNothing \/ LockAcks \/ Emplace
  BY <1>3 DEF ConsumeEnvelope, ConsumeNothing, LockAcks, Emplace
<1>4. CASE SendAck \/ LockMessages \/ ClearMessages \/ ClearAcks
  BY <1>4 DEF SendAck, LockMessages, ClearMessages, ClearAcks
<1>5. ASSUME NEW t \in Threads, ThreadStep(t) \/ GiveUp(t)
      PROVE  UNCHANGED <<conn, worker, delivered>> /\ processed \subseteq processed'
  BY <1>5 DEF ThreadStep, Receive, Take, Work, LockAckQueue, Acknowledge, GiveUp
<1>6. CASE UNCHANGED vars
  BY <1>6 DEF vars
<1> QED BY <1>1, <1>2, <1>3, <1>4, <1>5, <1>6 DEF Next, WorkerStep, Ended

\* A race is not forgotten.
LEMMA RaceKept == [Next]_vars => (raced => raced')
<1> SUFFICES ASSUME [Next]_vars, raced PROVE raced'
  OBVIOUS
<1>1. CASE (\E m \in Messages : Deliver(m)) \/ LinkLost \/ BrokerNotices \/ Stop \/ Start
  BY <1>1 DEF Deliver, LinkLost, BrokerNotices, Stop, Start
<1>2. CASE Connect \/ Leave \/ ConsumeThrows \/ ConsumeEnvelope \/ ConsumeNothing
  BY <1>2 DEF Connect, Leave, ConsumeThrows, ConsumeEnvelope, ConsumeNothing
<1>3. CASE LockAcks \/ Emplace \/ SendAck \/ LockMessages \/ ClearMessages \/ ClearAcks
  BY <1>3 DEF LockAcks, Emplace, SendAck, LockMessages, ClearMessages, ClearAcks
<1>4. ASSUME NEW t \in Threads, ThreadStep(t) \/ GiveUp(t) PROVE raced'
  BY <1>4 DEF ThreadStep, Receive, Take, Work, LockAckQueue, Acknowledge, GiveUp
<1>5. CASE UNCHANGED vars
  BY <1>5 DEF vars
<1> QED BY <1>1, <1>2, <1>3, <1>4, <1>5 DEF Next, WorkerStep, Ended

\* What is known of a tag stays true.
LEMMA CarriedStays ==
  TypeOK /\ [Next]_vars => \A i \in Items : Carried(i) => StillCarried(i)
<1> SUFFICES ASSUME TypeOK, [Next]_vars, NEW i \in Items, Carried(i) PROVE StillCarried(i)
  OBVIOUS
<1>1. conn \in Nat /\ i.conn \in Nat /\ delivered \in Seq(Messages)
  BY DEF TypeOK, WorkerTypeOK, BrokerTypeOK, Items
<1>2. i.conn <= conn'
  BY <1>1, RoundStep DEF Carried, RoundKept
<1>3. CASE ~InRound' \/ conn' = conn + 1
  BY <1>1, <1>2, <1>3 DEF Carried, StillCarried
<1>4. CASE ~(~InRound' \/ conn' = conn + 1)
  <2>1. InRound /\ conn' = conn /\ (raced => raced')
    BY <1>4, RoundStep, RaceKept DEF RoundKept
  <2>2. \/ delivered' = delivered
        \/ \E m \in Messages : delivered' = Append(delivered, m)
    BY <1>4, RoundStep DEF RoundKept
  <2>3. i.tag \in 1..Len(delivered) =>
          i.tag \in 1..Len(delivered') /\ delivered'[i.tag] = delivered[i.tag]
    BY <1>1, <2>2
  <2> QED BY <1>2, <2>1, <2>3 DEF Carried, StillCarried
<1> QED BY <1>3, <1>4

\* a message the callback adds
Added(i) == /\ worker = "emplace" /\ worker' = "wantAcks" /\ UNCHANGED <<conn, taken>>
            /\ i.conn = conn /\ StillCarried(i)
            /\ ~raced' => i.tag = taken

\* What a step does to messages_: nothing, it empties the queue, takes its head,
\* or adds a message of this connection, with the tag of its delivery if no race
\* spoils it, in the callback of the worker.
LEMMA MessagesStep ==
  TypeOK /\ [Next]_vars =>
    \/ messages' = messages \/ messages' = <<>>
    \/ messages # <<>> /\ messages' = Tail(messages)
    \/ \E i \in Items : messages' = Append(messages, i) /\ Added(i)
<1> SUFFICES ASSUME TypeOK, [Next]_vars
             PROVE  \/ messages' = messages \/ messages' = <<>>
                    \/ messages # <<>> /\ messages' = Tail(messages)
                    \/ \E i \in Items : messages' = Append(messages, i) /\ Added(i)
  OBVIOUS
<1>1. CASE Emplace
  <2> DEFINE item == [tag |-> taken, conn |-> conn, msg |-> delivered[taken]]
  <2>1. taken \in 1..Len(delivered) /\ Len(delivered) \in Nat /\ delivered[taken] \in Messages
    BY <1>1 DEF Emplace, TypeOK, WorkerTypeOK, BrokerTypeOK
  <2>2. conn \in 1..MaxConnections
    BY <1>1 DEF Emplace, TypeOK, WorkerTypeOK, InRound
  <2>3. item \in Items
    BY <2>1, <2>2 DEF Items
  <2>4. UNCHANGED <<conn, delivered>>
    BY <1>1 DEF Emplace, broker
  <2>5. CASE messages' = Append(messages, item)
    <3>1. Added(item)
      BY <1>1, <2>1, <2>2, <2>4 DEF Added, StillCarried, Emplace
    <3> QED BY <2>3, <2>5, <3>1
  <2>6. CASE messages' = messages
    BY <2>6
  <2>7. ASSUME Racing, NEW tag \in Tags, messages' = Append(messages, [item EXCEPT !.tag = tag])
        PROVE  \E i \in Items : messages' = Append(messages, i) /\ Added(i)
    <3> DEFINE other == [tag |-> tag, conn |-> conn, msg |-> delivered[taken]]
    <3>1. Cardinality(Messages) \in Nat
      BY FS_CardinalityType
    <3>2. other \in Items
      BY <2>1, <2>2, <3>1 DEF Items, Tags
    <3>3. raced'
      BY <1>1, <2>7 DEF Emplace
    <3>4. Added(other)
      BY <1>1, <2>2, <2>4, <3>3 DEF Added, StillCarried, Emplace
    <3>5. messages' = Append(messages, other)
      BY <2>7
    <3> QED BY <3>2, <3>4, <3>5
  <2> QED BY <1>1, <2>5, <2>6, <2>7 DEF Emplace
<1>2. ASSUME NEW t \in Threads, Take(t)
      PROVE  messages' = messages \/ (messages # <<>> /\ messages' = Tail(messages))
  BY <1>2 DEF Take
<1>3. CASE \/ \E m \in Messages : Deliver(m)
           \/ LinkLost \/ BrokerNotices \/ Stop \/ Start \/ Connect
  BY <1>3 DEF Deliver, LinkLost, BrokerNotices, Stop, Start, Connect, shared
<1>4. CASE ConsumeEnvelope \/ ConsumeNothing \/ ConsumeThrows \/ Leave \/ LockAcks \/ SendAck
  BY <1>4 DEF ConsumeEnvelope, ConsumeNothing, ConsumeThrows, Leave, LockAcks, SendAck, shared
<1>5. CASE LockMessages \/ ClearMessages \/ ClearAcks
  BY <1>5 DEF LockMessages, ClearMessages, ClearAcks
<1>6. ASSUME NEW t \in Threads,
             Receive(t) \/ Work(t) \/ LockAckQueue(t) \/ Acknowledge(t) \/ GiveUp(t)
      PROVE  messages' = messages
  BY <1>6 DEF Receive, Work, LockAckQueue, Acknowledge, GiveUp, shared
<1>7. CASE UNCHANGED vars
  BY <1>7 DEF vars, shared
<1> QED BY <1>1, <1>2, <1>3, <1>4, <1>5, <1>6, <1>7 DEF Next, WorkerStep, ThreadStep, Ended

\* What a step does to ackQueue_: nothing, it empties the queue, sends its head or
\* adds the id a thread acknowledges.
LEMMA AckQueueStep ==
  [Next]_vars =>
    \/ ackQueue' = ackQueue \/ ackQueue' = <<>>
    \/ ackQueue # <<>> /\ ackQueue' = Tail(ackQueue)
    \/ \E t \in Threads : Acknowledge(t)
<1> SUFFICES ASSUME [Next]_vars
             PROVE  \/ ackQueue' = ackQueue \/ ackQueue' = <<>>
                    \/ ackQueue # <<>> /\ ackQueue' = Tail(ackQueue)
                    \/ \E t \in Threads : Acknowledge(t)
  OBVIOUS
<1> USE DEF shared
<1>1. CASE \/ \E m \in Messages : Deliver(m)
           \/ LinkLost \/ BrokerNotices \/ Stop \/ Start \/ Connect
  BY <1>1 DEF Deliver, LinkLost, BrokerNotices, Stop, Start, Connect
<1>2. CASE ConsumeEnvelope \/ ConsumeNothing \/ ConsumeThrows \/ Leave \/ Emplace \/ LockAcks
  BY <1>2 DEF ConsumeEnvelope, ConsumeNothing, ConsumeThrows, Leave, Emplace, LockAcks
<1>3. CASE LockMessages \/ ClearMessages \/ ClearAcks \/ SendAck
  BY <1>3 DEF LockMessages, ClearMessages, ClearAcks, SendAck
<1>4. ASSUME NEW t \in Threads, Receive(t) \/ Take(t) \/ Work(t) \/ LockAckQueue(t) \/ GiveUp(t)
      PROVE  ackQueue' = ackQueue
  BY <1>4 DEF Receive, Take, Work, LockAckQueue, GiveUp
<1>5. CASE UNCHANGED vars
  BY <1>5 DEF vars
<1> QED BY <1>1, <1>2, <1>3, <1>4, <1>5 DEF Next, WorkerStep, ThreadStep, Ended

\* What a step does to the message in a thread's hand.
LEMMA HandStep ==
  TypeOK /\ [Next]_vars => \A t \in Threads :
    \/ hand'[t] = <<>>
    \/ /\ hand'[t] = hand[t]
       /\ thread'[t] \in {"wantAcks", "acknowledge"}
            => thread[t] \in {"wantAcks", "acknowledge"} \/ hand[t].msg \in processed'
    \/ messages # <<>> /\ hand'[t] = Head(messages) /\ thread'[t] = "work"
<1> SUFFICES ASSUME TypeOK, [Next]_vars, NEW t \in Threads
             PROVE  \/ hand'[t] = <<>>
                    \/ /\ hand'[t] = hand[t]
                       /\ thread'[t] \in {"wantAcks", "acknowledge"}
                            => \/ thread[t] \in {"wantAcks", "acknowledge"}
                               \/ hand[t].msg \in processed'
                    \/ messages # <<>> /\ hand'[t] = Head(messages) /\ thread'[t] = "work"
  OBVIOUS
<1>t. thread \in [Threads -> ThreadPlaces] /\ hand \in [Threads -> Items \cup {<<>>}]
  BY DEF TypeOK, ThreadsTypeOK
<1>1. CASE UNCHANGED <<thread, hand, processed>>
  BY <1>1
<1>2. ASSUME NEW u \in Threads, Receive(u) \/ LockAckQueue(u) \/ Acknowledge(u) \/ GiveUp(u)
      PROVE  \/ hand'[t] = <<>>
             \/ /\ hand'[t] = hand[t]
                /\ thread'[t] \in {"wantAcks", "acknowledge"}
                     => thread[t] \in {"wantAcks", "acknowledge"}
  BY <1>t, <1>2 DEF Receive, LockAckQueue, Acknowledge, GiveUp
<1>3. ASSUME NEW u \in Threads, Take(u)
      PROVE  \/ /\ hand'[t] = hand[t]
                /\ thread'[t] \in {"wantAcks", "acknowledge"}
                     => thread[t] \in {"wantAcks", "acknowledge"}
             \/ messages # <<>> /\ hand'[t] = Head(messages) /\ thread'[t] = "work"
  BY <1>t, <1>3 DEF Take
<1>4. ASSUME NEW u \in Threads, Work(u)
      PROVE  /\ hand'[t] = hand[t]
             /\ thread'[t] \in {"wantAcks", "acknowledge"}
                  => \/ thread[t] \in {"wantAcks", "acknowledge"}
                     \/ hand[t].msg \in processed'
  BY <1>t, <1>4 DEF Work
<1> QED BY <1>1, <1>2, <1>3, <1>4, OthersLeaveThreads DEF Next, ThreadStep, Ended

\* Tags, processing and deliveries stay together through all the queues.
LEMMA TagsStep == TypeOK /\ TagsInv /\ [Next]_vars => TagsInv'
<1> SUFFICES ASSUME TypeOK, TagsInv, [Next]_vars PROVE TagsInv'
  OBVIOUS
<1>c. \A i \in Items : Carried(i) => StillCarried(i)
  BY CarriedStays
<1>p. processed \subseteq processed'
  BY RoundStep DEF RoundKept
<1>q. messages \in Seq(Items) /\ ackQueue \in Seq(Items)
      /\ hand \in [Threads -> Items \cup {<<>>}]
  BY DEF TypeOK, QueuesTypeOK, ThreadsTypeOK
<1>1. ASSUME NEW k \in 1..Len(messages') PROVE Carried(messages[k])'
  <2> DEFINE Known(i) == i \in Items /\ StillCarried(i)
  <2>1. \A j \in 1..Len(messages) : Known(messages[j])
    BY <1>c, <1>q DEF TagsInv
  <2>2. Known(messages'[k])
    <3> HIDE DEF Known
    <3>1. CASE messages' = messages \/ messages' = <<>>
      BY <1>1, <2>1, <3>1
    <3>2. CASE messages # <<>> /\ messages' = Tail(messages)
      BY <1>1, <1>q, <2>1, <3>2
    <3>3. ASSUME NEW i \in Items, messages' = Append(messages, i), Known(i)
          PROVE  Known(messages'[k])
      BY <1>1, <1>q, <2>1, <3>3
    <3> QED BY <3>1, <3>2, <3>3, MessagesStep DEF Known, Added
  <2> QED BY <2>2 DEF Carried, StillCarried, InRound
<1>2. ASSUME NEW k \in 1..Len(ackQueue')
      PROVE  Carried(ackQueue[k])' /\ ackQueue'[k].msg \in processed'
  <2> DEFINE Known(i) == i \in Items /\ StillCarried(i) /\ i.msg \in processed'
  <2>1. \A j \in 1..Len(ackQueue) : Known(ackQueue[j])
    BY <1>c, <1>p, <1>q DEF TagsInv
  <2>2. \A t \in Threads : thread[t] = "acknowledge" => Known(hand[t])
    BY <1>c, <1>p, <1>q DEF TagsInv, TypeOK, ThreadsTypeOK
  <2>3. Known(ackQueue'[k])
    <3> HIDE DEF Known
    <3>1. CASE ackQueue' = ackQueue \/ ackQueue' = <<>>
      BY <1>2, <2>1, <3>1
    <3>2. CASE ackQueue # <<>> /\ ackQueue' = Tail(ackQueue)
      BY <1>2, <1>q, <2>1, <3>2
    <3>3. ASSUME NEW i, i \in Items, ackQueue' = Append(ackQueue, i), Known(i)
          PROVE  Known(ackQueue'[k])
      BY <1>2, <1>q, <2>1, <3>3
    <3>4. ASSUME NEW t \in Threads, Acknowledge(t) PROVE Known(ackQueue'[k])
      <4>1. Known(hand[t]) /\ ackQueue' = Append(ackQueue, hand[t])
        BY <2>2, <3>4 DEF Acknowledge
      <4> QED BY <3>3, <4>1 DEF Known
    <3> QED BY <3>1, <3>2, <3>4, AckQueueStep
  <2> QED BY <2>3 DEF Carried, StillCarried, InRound
<1>3. ASSUME NEW t \in Threads, hand'[t] # <<>>
      PROVE  /\ Carried(hand[t])'
             /\ thread'[t] \in {"wantAcks", "acknowledge"} => hand'[t].msg \in processed'
  <2>1. CASE hand'[t] = hand[t]
    <3>1. hand[t] \in Items /\ Carried(hand[t])
      BY <1>3, <1>q, <2>1 DEF TagsInv
    <3>2. thread'[t] \in {"wantAcks", "acknowledge"} => hand'[t].msg \in processed'
      BY <1>3, <1>p, <2>1, HandStep DEF TagsInv
    <3> QED BY <1>c, <2>1, <3>1, <3>2 DEF Carried, StillCarried, InRound
  <2>2. CASE messages # <<>> /\ hand'[t] = Head(messages) /\ thread'[t] = "work"
    <3>1. Head(messages) \in Items /\ Head(messages) = messages[1] /\ 1 \in 1..Len(messages)
      BY <1>q, <2>2
    <3>2. Carried(Head(messages))
      BY <3>1 DEF TagsInv
    <3> QED BY <1>c, <2>2, <3>1, <3>2 DEF Carried, StillCarried, InRound
  <2> QED BY <1>3, <2>1, <2>2, HandStep
<1> QED BY <1>1, <1>2, <1>3 DEF TagsInv

\* Only an acknowledgement settles a message, the one its tag stands for.
LEMMA SettledStep ==
  [Next]_vars => \/ settled' = settled
                 \/ /\ SendAck /\ ackQueue # <<>>
                    /\ settled' = settled \cup {delivered[Head(ackQueue).tag]}
<1> SUFFICES ASSUME [Next]_vars
             PROVE  \/ settled' = settled
                    \/ /\ SendAck /\ ackQueue # <<>>
                       /\ settled' = settled \cup {delivered[Head(ackQueue).tag]}
  OBVIOUS
<1> USE DEF broker
<1>1. CASE (\E m \in Messages : Deliver(m)) \/ LinkLost \/ BrokerNotices \/ Stop \/ Start
  BY <1>1 DEF Deliver, LinkLost, BrokerNotices, Stop, Start
<1>2. CASE Connect \/ ConsumeEnvelope \/ ConsumeNothing \/ Emplace
  BY <1>2 DEF Connect, ConsumeEnvelope, ConsumeNothing, Emplace
<1>3. CASE ConsumeThrows \/ Leave
  BY <1>3 DEF ConsumeThrows, Leave, Hangup
<1>4. CASE LockAcks \/ LockMessages \/ ClearMessages \/ ClearAcks
  BY <1>4 DEF LockAcks, LockMessages, ClearMessages, ClearAcks
<1>5. CASE SendAck
  BY <1>5 DEF SendAck, Acked
<1>6. ASSUME NEW t \in Threads, ThreadStep(t) \/ GiveUp(t) PROVE settled' = settled
  BY <1>6 DEF ThreadStep, Receive, Take, Work, LockAckQueue, Acknowledge, GiveUp
<1>7. CASE UNCHANGED vars
  BY <1>7 DEF vars
<1> QED BY <1>1, <1>2, <1>3, <1>4, <1>5, <1>6, <1>7 DEF Next, WorkerStep, Ended

\* The id at the head of the queue, if it is of this connection, is that of a
\* message that was processed.
LEMMA FreshIdIsProcessed ==
  ASSUME TypeOK, TagsInv, worker = "ack", ackQueue # <<>>, ~Stale(Head(ackQueue)), ~raced
  PROVE  /\ delivered[Head(ackQueue).tag] = Head(ackQueue).msg
         /\ Head(ackQueue).msg \in processed
<1>1. Head(ackQueue) = ackQueue[1] /\ 1 \in 1..Len(ackQueue) /\ Head(ackQueue) \in Items
  BY DEF TypeOK, QueuesTypeOK
<1>2. Carried(Head(ackQueue)) /\ Head(ackQueue).msg \in processed
  BY <1>1 DEF TagsInv
<1>3. Head(ackQueue).conn = conn
  BY <1>1, <1>2 DEF Stale, Carried, TypeOK, WorkerTypeOK, Items
<1>4. delivered[Head(ackQueue).tag] = Head(ackQueue).msg
  BY <1>2, <1>3 DEF Carried, InRound
<1> QED BY <1>2, <1>4

\* An id of this connection settles the message it came with, which was processed.
THEOREM AcksSettleTheirMessages == Spec => AcksSettleWhatWasProcessed
<1>1. Init => TagsInv
  BY DEF Init, TagsInv
<1>2. TypeOK /\ TagsInv /\ [Next]_vars =>
        [worker = "ack" /\ settled' # settled /\ ~Stale(Head(ackQueue)) /\ ~raced
          => /\ settled' = settled \cup {Head(ackQueue).msg}
             /\ Head(ackQueue).msg \in processed]_vars
  <2> SUFFICES ASSUME TypeOK, TagsInv, [Next]_vars, worker = "ack", settled' # settled,
                      ~Stale(Head(ackQueue)), ~raced
               PROVE  /\ settled' = settled \cup {Head(ackQueue).msg}
                      /\ Head(ackQueue).msg \in processed
    OBVIOUS
  <2>1. ackQueue # <<>> /\ settled' = settled \cup {delivered[Head(ackQueue).tag]}
    BY SettledStep
  <2> QED BY <2>1, FreshIdIsProcessed
<1> QED BY <1>1, <1>2, TagsStep, TypeCorrect, PTL DEF Spec, AcksSettleWhatWasProcessed

-----------------------------------------------------------------------------
(* Deliveries and their holders *)

\* What was delivered before now has a smaller number than what comes next; the
\* delivery the callback is about to add is the latest.
Counted(i) == /\ i.conn <= conn
              /\ InRound /\ i.conn = conn =>
                   /\ i.tag <= taken
                   /\ worker = "emplace" => i.tag < taken

\* the same in the next state
StillCounted(i) == /\ i.conn <= conn'
                   /\ InRound' /\ i.conn = conn' =>
                        /\ i.tag <= taken'
                        /\ worker' = "emplace" => i.tag < taken'

\* No step numbers a delivery again: numbers begin anew with a connection.
LEMMA CountedStays ==
  ASSUME TypeOK, [Next]_vars, NEW i \in Items, Counted(i)
  PROVE  StillCounted(i)
<1>0. conn \in Nat /\ taken \in Nat /\ i.conn \in Nat /\ i.tag \in Nat
  BY DEF TypeOK, WorkerTypeOK, BrokerTypeOK, Items
<1> USE DEF Counted, StillCounted, InRound
<1>1. CASE UNCHANGED <<worker, conn, taken>>
  BY <1>1
<1>2. CASE (\E m \in Messages : Deliver(m)) \/ LinkLost \/ BrokerNotices \/ Stop
  BY <1>1, <1>2 DEF Deliver, LinkLost, BrokerNotices, Stop
<1>3. CASE Start \/ Leave \/ ConsumeThrows
  BY <1>3 DEF Start, Leave, ConsumeThrows
<1>4. CASE Connect
  BY <1>0, <1>4 DEF Connect
<1>5. CASE ConsumeEnvelope
  BY <1>0, <1>5 DEF ConsumeEnvelope
<1>6. CASE ConsumeNothing \/ LockAcks \/ SendAck
  BY <1>6 DEF ConsumeNothing, LockAcks, SendAck
<1>7. CASE Emplace
  BY <1>0, <1>7 DEF Emplace
<1>8. CASE LockMessages \/ ClearMessages \/ ClearAcks
  BY <1>8 DEF LockMessages, ClearMessages, ClearAcks
<1>9. ASSUME NEW t \in Threads, ThreadStep(t) \/ GiveUp(t) PROVE UNCHANGED <<worker, conn, taken>>
  BY <1>9 DEF ThreadStep, Receive, Take, Work, LockAckQueue, Acknowledge, GiveUp
<1>10. CASE UNCHANGED vars
  BY <1>1, <1>10 DEF vars
<1> QED BY <1>1, <1>2, <1>3, <1>4, <1>5, <1>6, <1>7, <1>8, <1>9, <1>10 DEF Next, WorkerStep, Ended

\* everything on its way is counted
AllCounted == /\ \A k \in 1..Len(messages) : Counted(messages[k])
              /\ \A k \in 1..Len(ackQueue) : Counted(ackQueue[k])
              /\ \A t \in Threads : hand[t] # <<>> => Counted(hand[t])

\* and in one place only
OneInQueues == /\ \A k, l \in 1..Len(messages) : SameDelivery(messages[k], messages[l]) => k = l
               /\ \A k, l \in 1..Len(ackQueue) : SameDelivery(ackQueue[k], ackQueue[l]) => k = l
               /\ \A k \in 1..Len(messages), l \in 1..Len(ackQueue) :
                    ~SameDelivery(messages[k], ackQueue[l])

OneInHands == \A t \in Threads : hand[t] # <<>> =>
                /\ \A u \in Threads : hand[u] # <<>> /\ SameDelivery(hand[t], hand[u]) => t = u
                /\ \A k \in 1..Len(messages) : ~SameDelivery(messages[k], hand[t])
                /\ \A k \in 1..Len(ackQueue) : ~SameDelivery(ackQueue[k], hand[t])

OnceInv == ~raced => AllCounted /\ OneInQueues /\ OneInHands

\* the steps that move items
LEMMA ItemSteps ==
  [Next]_vars => \/ UNCHANGED <<messages, ackQueue, hand>>
                 \/ Emplace \/ ClearMessages \/ ClearAcks \/ SendAck
                 \/ \E t \in Threads : Take(t) \/ Acknowledge(t)
<1> SUFFICES ASSUME [Next]_vars
             PROVE  \/ UNCHANGED <<messages, ackQueue, hand>>
                    \/ Emplace \/ ClearMessages \/ ClearAcks \/ SendAck
                    \/ \E t \in Threads : Take(t) \/ Acknowledge(t)
  OBVIOUS
<1> USE DEF shared
<1>1. CASE \/ \E m \in Messages : Deliver(m)
           \/ LinkLost \/ BrokerNotices \/ Stop \/ Start \/ Connect
  BY <1>1 DEF Deliver, LinkLost, BrokerNotices, Stop, Start, Connect
<1>2. CASE ConsumeEnvelope \/ ConsumeNothing \/ ConsumeThrows \/ Leave
  BY <1>2 DEF ConsumeEnvelope, ConsumeNothing, ConsumeThrows, Leave
<1>3. CASE LockAcks \/ LockMessages
  BY <1>3 DEF LockAcks, LockMessages
<1>4. ASSUME NEW t \in Threads, Receive(t) \/ Work(t) \/ LockAckQueue(t) \/ GiveUp(t)
      PROVE  UNCHANGED <<messages, ackQueue, hand>>
  BY <1>4 DEF Receive, Work, LockAckQueue, GiveUp
<1>5. CASE UNCHANGED vars
  BY <1>5 DEF vars
<1> QED BY <1>1, <1>2, <1>3, <1>4, <1>5 DEF Next, WorkerStep, ThreadStep, Ended

\* What the rest of a queue has was one place further.
LEMMA TailItems ==
  ASSUME NEW q \in Seq(Items), q # <<>>
  PROVE  /\ Len(q) \in Nat /\ 1 \in 1..Len(q) /\ Head(q) = q[1]
         /\ \A k \in 1..Len(Tail(q)) :
              k \in Nat /\ k + 1 \in 1..Len(q) /\ k + 1 # 1 /\ Tail(q)[k] = q[k + 1]
OBVIOUS

\* What a longer queue has was there before, but for the last.
LEMMA AppendItems ==
  ASSUME NEW q \in Seq(Items), NEW i \in Items
  PROVE  \A k \in 1..Len(Append(q, i)) :
           \/ k \in 1..Len(q) /\ Append(q, i)[k] = q[k]
           \/ k = Len(q) + 1 /\ k \notin 1..Len(q) /\ Append(q, i)[k] = i
OBVIOUS

\* What is on its way stays counted, and what the callback adds is the latest.
LEMMA AllCountedStep ==
  ASSUME TypeOK, AllCounted, [Next]_vars, ~raced'
  PROVE  AllCounted'
<1>0. /\ messages \in Seq(Items) /\ ackQueue \in Seq(Items)
      /\ hand \in [Threads -> Items \cup {<<>>}] /\ conn \in Nat
  BY DEF TypeOK, QueuesTypeOK, ThreadsTypeOK, WorkerTypeOK
<1>c. \A i \in Items : Counted(i) => StillCounted(i)
  BY CountedStays
<1>m. \A k \in 1..Len(messages) : StillCounted(messages[k])
  BY <1>0, <1>c DEF AllCounted
<1>a. \A k \in 1..Len(ackQueue) : StillCounted(ackQueue[k])
  BY <1>0, <1>c DEF AllCounted
<1>h. \A t \in Threads : hand[t] # <<>> => StillCounted(hand[t])
  BY <1>0, <1>c DEF AllCounted
<1>1. \A k \in 1..Len(messages') : StillCounted(messages'[k])
  <2>1. CASE messages' = messages \/ messages' = <<>>
    BY <1>m, <2>1
  <2>2. CASE messages # <<>> /\ messages' = Tail(messages)
    BY <1>0, <1>m, <2>2, TailItems
  <2>3. ASSUME NEW i \in Items, messages' = Append(messages, i), Added(i)
        PROVE  \A k \in 1..Len(messages') : StillCounted(messages'[k])
    <3>1. taken \in Nat /\ i.tag = taken
      BY <2>3 DEF Added, TypeOK, WorkerTypeOK, BrokerTypeOK
    <3>2. StillCounted(i)
      BY <1>0, <2>3, <3>1 DEF Added, StillCounted
    <3> QED BY <1>0, <1>m, <2>3, <3>2, AppendItems
  <2> QED BY <2>1, <2>2, <2>3, MessagesStep
<1>2. \A k \in 1..Len(ackQueue') : StillCounted(ackQueue'[k])
  <2>1. CASE ackQueue' = ackQueue \/ ackQueue' = <<>>
    BY <1>a, <2>1
  <2>2. CASE ackQueue # <<>> /\ ackQueue' = Tail(ackQueue)
    BY <1>0, <1>a, <2>2, TailItems
  <2>3. ASSUME NEW t \in Threads, Acknowledge(t)
        PROVE  \A k \in 1..Len(ackQueue') : StillCounted(ackQueue'[k])
    <3>1. /\ ackQueue' = Append(ackQueue, hand[t])
          /\ hand[t] \in Items /\ hand[t] # <<>>
      BY <1>0, <2>3 DEF Acknowledge, TypeOK, ThreadsTypeOK
    <3> QED BY <1>0, <1>a, <1>h, <3>1, AppendItems
  <2> QED BY <2>1, <2>2, <2>3, AckQueueStep
<1>3. \A t \in Threads : hand'[t] # <<>> => StillCounted(hand'[t])
  <2> SUFFICES ASSUME NEW t \in Threads, hand'[t] # <<>> PROVE StillCounted(hand'[t])
    OBVIOUS
  <2>1. CASE hand'[t] = hand[t]
    BY <1>h, <2>1
  <2>2. CASE messages # <<>> /\ hand'[t] = Head(messages)
    BY <1>0, <1>m, <2>2, TailItems
  <2> QED BY <2>1, <2>2, HandStep
<1> QED BY <1>1, <1>2, <1>3 DEF AllCounted, Counted, StillCounted, InRound

\* What the callback adds came after all that is on its way.
LEMMA EmplaceKeepsOne ==
  ASSUME TypeOK, AllCounted, OneInQueues, OneInHands, Emplace, ~raced'
  PROVE  OneInQueues' /\ OneInHands'
<1> DEFINE item == [tag |-> taken, conn |-> conn, msg |-> delivered[taken]]
<1>0. messages \in Seq(Items) /\ ackQueue' = ackQueue /\ hand' = hand
  BY DEF TypeOK, QueuesTypeOK, Emplace
<1>1. messages' = Append(messages, item)
  BY DEF Emplace
<1>2. item \in Items
  BY DEF Emplace, TypeOK, WorkerTypeOK, BrokerTypeOK, InRound, Items
<1>3. \A i : Counted(i) => ~SameDelivery(i, item) /\ ~SameDelivery(item, i)
  <2>1. taken \in Nat /\ worker = "emplace" /\ InRound
    BY DEF Emplace, TypeOK, WorkerTypeOK, BrokerTypeOK, InRound
  <2>2. item.tag = taken /\ item.conn = conn
    OBVIOUS
  <2> HIDE DEF item
  <2> QED BY <2>1, <2>2 DEF Counted, SameDelivery
<1> HIDE DEF item
<1>4. \A k \in 1..Len(messages') :
        \/ k \in 1..Len(messages) /\ messages'[k] = messages[k]
        \/ k = Len(messages) + 1 /\ messages'[k] = item
  BY <1>0, <1>1, <1>2, AppendItems
<1>5. OneInQueues'
  <2>1. \A k, l \in 1..Len(messages') : SameDelivery(messages'[k], messages'[l]) => k = l
    BY <1>3, <1>4 DEF AllCounted, OneInQueues
  <2>2. \A k \in 1..Len(messages'), l \in 1..Len(ackQueue) :
          ~SameDelivery(messages'[k], ackQueue[l])
    BY <1>3, <1>4 DEF AllCounted, OneInQueues
  <2> QED BY <1>0, <2>1, <2>2 DEF OneInQueues, SameDelivery
<1>6. OneInHands'
  <2>1. \A t \in Threads, k \in 1..Len(messages') :
          hand[t] # <<>> => ~SameDelivery(messages'[k], hand[t])
    BY <1>3, <1>4 DEF AllCounted, OneInHands
  <2> QED BY <1>0, <2>1 DEF OneInHands, SameDelivery
<1> QED BY <1>5, <1>6

\* A thread takes what it has in hand out of the queue.
LEMMA TakeKeepsOne ==
  ASSUME TypeOK, OneInQueues, OneInHands, NEW t \in Threads, Take(t), ~raced'
  PROVE  OneInQueues' /\ OneInHands'
<1>0. messages \in Seq(Items) /\ hand \in [Threads -> Items \cup {<<>>}] /\ ackQueue' = ackQueue
  BY DEF TypeOK, QueuesTypeOK, ThreadsTypeOK, Take
<1>1. CASE messages = <<>>
  <2>1. UNCHANGED <<messages, hand>>
    BY <1>1 DEF Take
  <2> QED BY <1>0, <2>1 DEF OneInQueues, OneInHands, SameDelivery
<1>2. CASE messages # <<>>
  <2>1. messages' = Tail(messages) /\ hand' = [hand EXCEPT ![t] = Head(messages)]
    BY <1>2 DEF Take
  <2>2. /\ 1 \in 1..Len(messages) /\ hand'[t] = messages[1]
        /\ \A u \in Threads \ {t} : hand'[u] = hand[u]
    BY <1>0, <1>2, <2>1, TailItems
  <2>3. \A k \in 1..Len(messages') :
          /\ k \in Nat /\ k + 1 \in 1..Len(messages) /\ k + 1 # 1
          /\ messages'[k] = messages[k + 1]
    BY <1>0, <1>2, <2>1, TailItems
  <2>4. OneInQueues'
    <3>1. \A k, l \in 1..Len(messages') : SameDelivery(messages'[k], messages'[l]) => k = l
      <4> SUFFICES ASSUME NEW k \in 1..Len(messages'), NEW l \in 1..Len(messages'),
                          SameDelivery(messages'[k], messages'[l])
                   PROVE  k = l
        OBVIOUS
      <4>1. k + 1 = l + 1 /\ k \in Nat /\ l \in Nat
        BY <2>3 DEF OneInQueues
      <4> QED BY <4>1
    <3>2. \A k \in 1..Len(messages'), l \in 1..Len(ackQueue) :
            ~SameDelivery(messages'[k], ackQueue[l])
      BY <2>3 DEF OneInQueues
    <3> QED BY <1>0, <3>1, <3>2 DEF OneInQueues, SameDelivery
  <2>5. ASSUME NEW u \in Threads, hand'[u] # <<>>
        PROVE  /\ \A v \in Threads :
                    hand'[v] # <<>> /\ SameDelivery(hand'[u], hand'[v]) => u = v
               /\ \A k \in 1..Len(messages') : ~SameDelivery(messages'[k], hand'[u])
               /\ \A k \in 1..Len(ackQueue) : ~SameDelivery(ackQueue[k], hand'[u])
    <3>1. CASE u = t
      <4>1. hand'[u] = messages[1] /\ 1 \in 1..Len(messages)
        BY <2>2, <3>1
      <4>2. \A v \in Threads \ {t} : hand[v] # <<>> => ~SameDelivery(messages[1], hand[v])
        BY <4>1 DEF OneInHands
      <4>3. \A k \in 1..Len(messages') : ~SameDelivery(messages'[k], messages[1])
        BY <2>3, <4>1 DEF OneInQueues
      <4>4. \A k \in 1..Len(ackQueue) : ~SameDelivery(ackQueue[k], messages[1])
        BY <4>1 DEF OneInQueues, SameDelivery
      <4> QED BY <2>2, <3>1, <4>1, <4>2, <4>3, <4>4
    <3>2. CASE u # t
      <4>1. hand'[u] = hand[u] /\ hand[u] # <<>>
        BY <2>2, <2>5, <3>2
      <4>2. ~SameDelivery(hand[u], hand'[t])
        BY <2>2, <4>1 DEF OneInHands, SameDelivery
      <4>3. \A v \in Threads \ {t} : hand'[v] = hand[v]
        BY <2>2
      <4>4. \A v \in Threads : hand'[v] # <<>> /\ SameDelivery(hand[u], hand'[v]) => u = v
        BY <4>1, <4>2, <4>3 DEF OneInHands
      <4>5. \A k \in 1..Len(messages') : ~SameDelivery(messages'[k], hand[u])
        BY <2>3, <4>1 DEF OneInHands
      <4> QED BY <4>1, <4>4, <4>5 DEF OneInHands
    <3> QED BY <3>1, <3>2
  <2>6. OneInHands'
    BY <1>0, <2>5 DEF OneInHands, SameDelivery
  <2> QED BY <2>4, <2>6
<1> QED BY <1>1, <1>2

\* A thread keeps nothing of what it acknowledges.
LEMMA AcknowledgeKeepsOne ==
  ASSUME TypeOK, OneInQueues, OneInHands, NEW t \in Threads, Acknowledge(t)
  PROVE  OneInQueues' /\ OneInHands'
<1>0. /\ ackQueue \in Seq(Items) /\ hand \in [Threads -> Items \cup {<<>>}]
      /\ hand[t] \in Items /\ hand[t] # <<>> /\ messages' = messages
  BY DEF TypeOK, QueuesTypeOK, ThreadsTypeOK, Acknowledge
<1>1. ackQueue' = Append(ackQueue, hand[t]) /\ hand' = [hand EXCEPT ![t] = <<>>]
  BY DEF Acknowledge
<1>2. \A u \in Threads : hand'[u] # <<>> => u # t /\ hand'[u] = hand[u]
  BY <1>0, <1>1
<1>3. \A k \in 1..Len(ackQueue') :
        \/ k \in 1..Len(ackQueue) /\ ackQueue'[k] = ackQueue[k]
        \/ k = Len(ackQueue) + 1 /\ ackQueue'[k] = hand[t]
  BY <1>0, <1>1, AppendItems
<1>4. OneInQueues'
  <2>1. \A k, l \in 1..Len(ackQueue') : SameDelivery(ackQueue'[k], ackQueue'[l]) => k = l
    BY <1>0, <1>3 DEF OneInQueues, OneInHands, SameDelivery
  <2>2. \A k \in 1..Len(messages), l \in 1..Len(ackQueue') :
          ~SameDelivery(messages[k], ackQueue'[l])
    BY <1>0, <1>3 DEF OneInQueues, OneInHands
  <2> QED BY <1>0, <2>1, <2>2 DEF OneInQueues, SameDelivery
<1>5. ASSUME NEW u \in Threads, hand'[u] # <<>>
      PROVE  /\ \A v \in Threads :
                  hand'[v] # <<>> /\ SameDelivery(hand'[u], hand'[v]) => u = v
             /\ \A k \in 1..Len(messages) : ~SameDelivery(messages[k], hand'[u])
             /\ \A k \in 1..Len(ackQueue') : ~SameDelivery(ackQueue'[k], hand'[u])
  BY <1>0, <1>2, <1>3, <1>5 DEF OneInHands, SameDelivery
<1>6. OneInHands'
  BY <1>0, <1>5 DEF OneInHands, SameDelivery
<1> QED BY <1>4, <1>6

\* A queue that is emptied, or an id that is sent, leaves the others.
LEMMA RemovalKeepsOne ==
  ASSUME TypeOK, OneInQueues, OneInHands, ClearMessages \/ ClearAcks \/ SendAck
  PROVE  OneInQueues' /\ OneInHands'
<1>0. ackQueue \in Seq(Items) /\ hand' = hand
  BY DEF TypeOK, QueuesTypeOK, ClearMessages, ClearAcks, SendAck
<1>1. CASE messages' = <<>> /\ ackQueue' = ackQueue
  BY <1>0, <1>1 DEF OneInQueues, OneInHands, SameDelivery
<1>2. CASE messages' = messages /\ (ackQueue' = <<>> \/ ackQueue' = ackQueue)
  BY <1>0, <1>2 DEF OneInQueues, OneInHands, SameDelivery
<1>3. CASE messages' = messages /\ ackQueue # <<>> /\ ackQueue' = Tail(ackQueue)
  <2>1. \A k \in 1..Len(ackQueue') :
          /\ k \in Nat /\ k + 1 \in 1..Len(ackQueue)
          /\ ackQueue'[k] = ackQueue[k + 1]
    BY <1>0, <1>3, TailItems
  <2>2. \A k, l \in 1..Len(ackQueue') : SameDelivery(ackQueue'[k], ackQueue'[l]) => k = l
    <3> SUFFICES ASSUME NEW k \in 1..Len(ackQueue'), NEW l \in 1..Len(ackQueue'),
                        SameDelivery(ackQueue'[k], ackQueue'[l])
                 PROVE  k = l
      OBVIOUS
    <3>1. k + 1 = l + 1 /\ k \in Nat /\ l \in Nat
      BY <2>1 DEF OneInQueues
    <3> QED BY <3>1
  <2>3. \A k \in 1..Len(messages), l \in 1..Len(ackQueue') :
          ~SameDelivery(messages[k], ackQueue'[l])
    BY <2>1 DEF OneInQueues
  <2>4. \A t \in Threads, k \in 1..Len(ackQueue') :
          hand[t] # <<>> => ~SameDelivery(ackQueue'[k], hand[t])
    BY <2>1 DEF OneInHands
  <2> QED BY <1>0, <1>3, <2>2, <2>3, <2>4 DEF OneInQueues, OneInHands, SameDelivery
<1> QED BY <1>1, <1>2, <1>3 DEF ClearMessages, ClearAcks, SendAck

\* No step makes a second holder, short of a race.
LEMMA OnceStep == TypeOK /\ OnceInv /\ [Next]_vars => OnceInv'
<1> SUFFICES ASSUME TypeOK, OnceInv, [Next]_vars, ~raced' PROVE OnceInv'
  BY DEF OnceInv
<1>1. AllCounted /\ OneInQueues /\ OneInHands
  BY RaceKept DEF OnceInv
<1>2. AllCounted'
  BY <1>1, AllCountedStep
<1>3. OneInQueues' /\ OneInHands'
  <2>1. CASE UNCHANGED <<messages, ackQueue, hand>>
    BY <1>1, <2>1 DEF OneInQueues, OneInHands, SameDelivery
  <2> QED BY <1>1, <2>1, ItemSteps, EmplaceKeepsOne, TakeKeepsOne, AcknowledgeKeepsOne,
             RemovalKeepsOne
<1> QED BY <1>2, <1>3 DEF OnceInv

\* A delivery is given to one thread, whose id is the only one that acknowledges it.
THEOREM DeliveriesStayWithOne == Spec => []DeliveriesHaveOneHolder
<1>1. Init => OnceInv
  BY DEF Init, OnceInv, AllCounted, OneInQueues, OneInHands
<1>2. TypeOK /\ OnceInv => DeliveriesHaveOneHolder
  <2> SUFFICES ASSUME TypeOK, OneInQueues, OneInHands, NEW p \in Holders, NEW q \in Holders,
                      SameDelivery(ItemAt(p), ItemAt(q))
               PROVE  p = q
    BY DEF OnceInv, DeliveriesHaveOneHolder
  <2>0. DOMAIN messages = 1..Len(messages) /\ DOMAIN ackQueue = 1..Len(ackQueue)
    BY DEF TypeOK, QueuesTypeOK
  <2>1. \A h \in Holders :
          \/ \E k \in 1..Len(messages) : h = <<"messages", k>> /\ ItemAt(h) = messages[k]
          \/ \E k \in 1..Len(ackQueue) : h = <<"ackQueue", k>> /\ ItemAt(h) = ackQueue[k]
          \/ \E t \in Threads : h = <<"hand", t>> /\ hand[t] # <<>> /\ ItemAt(h) = hand[t]
    BY <2>0 DEF Holders, ItemAt
  <2>2. SameDelivery(ItemAt(q), ItemAt(p))
    BY DEF SameDelivery
  <2> QED BY <2>1, <2>2 DEF OneInQueues, OneInHands
<1> QED BY <1>1, <1>2, OnceStep, TypeCorrect, PTL DEF Spec

-----------------------------------------------------------------------------
(* How many ids are stale *)

\* places of q with an item of a connection before c, and threads that work on one
StaleIn(q, c) == {k \in 1..Len(q) : q[k].conn < c}
HeldBefore(c) == {t \in Threads : hand[t] # <<>> /\ hand[t].conn < c}

\* The places of a queue are finitely many.
LEMMA StaleIsFinite ==
  ASSUME NEW q \in Seq(Items), NEW c
  PROVE  IsFiniteSet(StaleIn(q, c)) /\ Cardinality(StaleIn(q, c)) \in Nat
<1>1. Len(q) \in Nat
  OBVIOUS
<1>2. IsFiniteSet(1..Len(q))
  BY <1>1, FS_Interval
<1>3. StaleIn(q, c) \subseteq 1..Len(q)
  BY DEF StaleIn
<1>4. IsFiniteSet(StaleIn(q, c))
  BY <1>2, <1>3, FS_Subset
<1> QED BY <1>4, FS_CardinalityType

\* An item that is added counts if it is stale.
LEMMA StaleAppend ==
  ASSUME NEW q \in Seq(Items), NEW i \in Items, NEW c
  PROVE  Cardinality(StaleIn(Append(q, i), c))
           = IF i.conn < c THEN Cardinality(StaleIn(q, c)) + 1
                           ELSE Cardinality(StaleIn(q, c))
<1> DEFINE n == Len(q) + 1
<1>1. Len(q) \in Nat /\ Len(Append(q, i)) = n /\ Append(q, i)[n] = i
  OBVIOUS
<1>2. \A k \in 1..Len(q) : Append(q, i)[k] = q[k]
  OBVIOUS
<1>3. 1..n = (1..Len(q)) \cup {n} /\ n \notin 1..Len(q)
  BY <1>1
<1>4. StaleIn(Append(q, i), c) = IF i.conn < c THEN StaleIn(q, c) \cup {n} ELSE StaleIn(q, c)
  <2> HIDE DEF n
  <2> QED BY <1>1, <1>2, <1>3 DEF StaleIn
<1>5. n \notin StaleIn(q, c)
  BY <1>3 DEF StaleIn
<1>6. Cardinality(StaleIn(q, c) \cup {n}) = Cardinality(StaleIn(q, c)) + 1
  <2> HIDE DEF n
  <2> QED BY <1>5, StaleIsFinite, FS_AddElement
<1> QED BY <1>4, <1>6

\* The rest of a queue has no more stale items than the queue, and one less if the
\* head was stale.
LEMMA StaleTail ==
  ASSUME NEW q \in Seq(Items), q # <<>>, NEW c
  PROVE  /\ Cardinality(StaleIn(Tail(q), c)) <= Cardinality(StaleIn(q, c))
         /\ Head(q).conn < c =>
              Cardinality(StaleIn(Tail(q), c)) <= Cardinality(StaleIn(q, c)) - 1
<1> DEFINE S == StaleIn(Tail(q), c)
           T == StaleIn(q, c)
           next == [k \in S |-> k + 1]
<1>1. /\ Len(q) \in Nat /\ Len(Tail(q)) = Len(q) - 1
      /\ \A k \in 1..Len(Tail(q)) : k + 1 \in 1..Len(q) /\ Tail(q)[k] = q[k + 1]
      /\ Head(q) = q[1] /\ 1 \in 1..Len(q)
  OBVIOUS
<1>2. \A k \in S : k \in Nat /\ k + 1 \in T \ {1}
  BY <1>1 DEF StaleIn
<1>3. next \in [S -> T \ {1}] /\ \A j, k \in S : next[j] = next[k] => j = k
  <2> HIDE DEF S, T
  <2> QED BY <1>2
<1>4. next \in Injection(S, T \ {1})
  <2> HIDE DEF S, T, next
  <2> QED BY <1>3 DEF Injection, IsInjective
<1>5. IsFiniteSet(T) /\ Cardinality(T) \in Nat
  BY StaleIsFinite
<1>6. Head(q).conn < c => 1 \in T
  BY <1>1 DEF StaleIn
<1> HIDE DEF S, T, next
<1>7. /\ IsFiniteSet(T \ {1})
      /\ Cardinality(T \ {1}) = IF 1 \in T THEN Cardinality(T) - 1 ELSE Cardinality(T)
  BY <1>5, FS_RemoveElement
<1>8. Cardinality(S) <= Cardinality(T \ {1}) /\ IsFiniteSet(S)
  BY <1>4, <1>7, FS_Injection
<1>9. Cardinality(S) \in Nat
  BY <1>8, FS_CardinalityType
<1>10. /\ Cardinality(S) <= Cardinality(T)
       /\ Head(q).conn < c => Cardinality(S) <= Cardinality(T) - 1
  BY ONLY <1>5, <1>6, <1>7, <1>8, <1>9
<1> QED BY <1>10 DEF S, T

\* The ids from before c that may still come to the broker.
Count(c) == Cardinality(StaleIn(ackQueue, c)) + Cardinality(HeldBefore(c))

\* They are no more than the threads.
Bounded(c) == Count(c) <= Cardinality(Threads)

\* The threads that hold an id are among the threads.
LEMMA HeldIsFinite ==
  ASSUME NEW c
  PROVE  /\ IsFiniteSet(HeldBefore(c)) /\ Cardinality(HeldBefore(c)) \in Nat
         /\ Cardinality(HeldBefore(c)) <= Cardinality(Threads)
<1>1. HeldBefore(c) \subseteq Threads /\ IsFiniteSet(Threads)
  BY DEF HeldBefore
<1>2. IsFiniteSet(HeldBefore(c)) /\ Cardinality(HeldBefore(c)) <= Cardinality(Threads)
  BY <1>1, FS_Subset
<1> QED BY <1>2, FS_CardinalityType

\* The counts are numbers, and of the states before and after a step.
LEMMA CountIsNumber ==
  TypeOK => \A c : /\ Cardinality(StaleIn(ackQueue, c)) \in Nat
                   /\ Cardinality(HeldBefore(c)) \in Nat
                   /\ Count(c) \in Nat
<1> SUFFICES ASSUME TypeOK, NEW c
             PROVE  /\ Cardinality(StaleIn(ackQueue, c)) \in Nat
                    /\ Cardinality(HeldBefore(c)) \in Nat
                    /\ Count(c) \in Nat
  OBVIOUS
<1>1. Cardinality(StaleIn(ackQueue, c)) \in Nat
  BY StaleIsFinite DEF TypeOK, QueuesTypeOK
<1>2. Cardinality(HeldBefore(c)) \in Nat
  BY HeldIsFinite
<1> QED BY <1>1, <1>2 DEF Count

\* the same after a step
LEMMA CountIsNumberNext ==
  (TypeOK => \A c : /\ Cardinality(StaleIn(ackQueue, c)) \in Nat
                    /\ Cardinality(HeldBefore(c)) \in Nat
                    /\ Count(c) \in Nat)'
BY CountIsNumber, PTL

\* A thread that acknowledges passes its id on to the queue.
LEMMA AcknowledgeKeepsCount ==
  ASSUME TypeOK, NEW c, NEW t \in Threads, Acknowledge(t)
  PROVE  Count(c)' = Count(c)
<1>1. /\ ackQueue \in Seq(Items) /\ hand \in [Threads -> Items \cup {<<>>}]
      /\ hand[t] \in Items /\ hand[t] # <<>>
  BY DEF Acknowledge, TypeOK, QueuesTypeOK, ThreadsTypeOK
<1>2. ackQueue' = Append(ackQueue, hand[t]) /\ hand' = [hand EXCEPT ![t] = <<>>]
  BY DEF Acknowledge
<1>3. HeldBefore(c)' = HeldBefore(c) \ {t}
  BY <1>1, <1>2 DEF HeldBefore
<1>4. t \in HeldBefore(c) <=> hand[t].conn < c
  BY <1>1 DEF HeldBefore
<1>5. Cardinality(HeldBefore(c)') = IF hand[t].conn < c THEN Cardinality(HeldBefore(c)) - 1
                                    ELSE Cardinality(HeldBefore(c))
  BY <1>3, <1>4, HeldIsFinite, FS_RemoveElement
<1>6. Cardinality(StaleIn(ackQueue', c))
        = IF hand[t].conn < c THEN Cardinality(StaleIn(ackQueue, c)) + 1
                              ELSE Cardinality(StaleIn(ackQueue, c))
  BY <1>1, <1>2, StaleAppend
<1>7. Cardinality(StaleIn(ackQueue, c)) \in Nat /\ Cardinality(HeldBefore(c)) \in Nat
  BY CountIsNumber
<1>8. Cardinality(StaleIn(ackQueue', c)) + Cardinality(HeldBefore(c)')
        = Cardinality(StaleIn(ackQueue, c)) + Cardinality(HeldBefore(c))
  BY ONLY <1>5, <1>6, <1>7
<1> QED BY <1>8 DEF Count

\* A step takes from the threads only what they put into the queue, and gives
\* them none of these, unless messages_ has one.
LEMMA HeldStep ==
  ASSUME TypeOK, [Next]_vars, NEW c,
         \A k \in 1..Len(messages) : ~(messages[k].conn < c)
  PROVE  Cardinality(HeldBefore(c)') <= Cardinality(HeldBefore(c))
<1>1. HeldBefore(c)' \subseteq HeldBefore(c)
  <2> SUFFICES ASSUME NEW t \in Threads, hand'[t] # <<>>, hand'[t].conn < c
               PROVE  hand[t] # <<>> /\ hand[t].conn < c
    BY DEF HeldBefore
  <2>1. CASE messages # <<>> /\ hand'[t] = Head(messages)
    <3>1. Head(messages) = messages[1] /\ 1 \in 1..Len(messages)
      BY <2>1 DEF TypeOK, QueuesTypeOK
    <3> QED BY <2>1, <3>1
  <2> QED BY <2>1, HandStep
<1> QED BY <1>1, HeldIsFinite, FS_Subset

\* No step adds to them, unless a thread takes one from messages_, and one is gone
\* that is sent.
LEMMA CountStep ==
  ASSUME TypeOK, [Next]_vars, NEW c,
         \A k \in 1..Len(messages) : ~(messages[k].conn < c)
  PROVE  /\ Count(c)' <= Count(c)
         /\ SendAck /\ ackQueue # <<>> /\ Head(ackQueue).conn < c => Count(c)' <= Count(c) - 1
<1>t. TypeOK'
  BY FlagsTypeStep, WorkerTypeStep, ThreadsTypeStep, QueuesTypeStep, BrokerTypeStep
  DEF TypeOK
<1>n. /\ Cardinality(StaleIn(ackQueue, c)) \in Nat /\ Cardinality(HeldBefore(c)) \in Nat
      /\ Cardinality(StaleIn(ackQueue', c)) \in Nat /\ Cardinality(HeldBefore(c)') \in Nat
  BY <1>t, CountIsNumber, CountIsNumberNext
<1>q. ackQueue \in Seq(Items)
  BY DEF TypeOK, QueuesTypeOK
<1>h. Cardinality(HeldBefore(c)') <= Cardinality(HeldBefore(c))
  BY HeldStep
<1>c. /\ Count(c) = Cardinality(StaleIn(ackQueue, c)) + Cardinality(HeldBefore(c))
      /\ Count(c)' = Cardinality(StaleIn(ackQueue', c)) + Cardinality(HeldBefore(c)')
  BY DEF Count
<1>1. CASE ackQueue # <<>> /\ ackQueue' = Tail(ackQueue)
  <2>1. /\ Cardinality(StaleIn(ackQueue', c)) <= Cardinality(StaleIn(ackQueue, c))
        /\ Head(ackQueue).conn < c =>
             Cardinality(StaleIn(ackQueue', c)) <= Cardinality(StaleIn(ackQueue, c)) - 1
    BY <1>1, <1>q, StaleTail
  <2>2. /\ Count(c)' <= Count(c)
        /\ Head(ackQueue).conn < c => Count(c)' <= Count(c) - 1
    BY ONLY <1>n, <1>h, <1>c, <2>1
  <2> QED BY <2>2
<1>2. SendAck /\ ackQueue # <<>> => ackQueue' = Tail(ackQueue)
  BY DEF SendAck
<1>3. Count(c)' <= Count(c)
  <2>1. ASSUME NEW t \in Threads, Acknowledge(t) PROVE Count(c)' <= Count(c)
    BY <1>n, <2>1, AcknowledgeKeepsCount DEF Count
  <2>2. CASE ackQueue' = ackQueue
    <3>1. StaleIn(ackQueue', c) = StaleIn(ackQueue, c)
      BY <2>2
    <3> QED BY ONLY <1>n, <1>h, <1>c, <3>1
  <2>3. CASE ackQueue' = <<>>
    <3>1. StaleIn(ackQueue', c) = {}
      BY <2>3 DEF StaleIn
    <3>2. Cardinality(StaleIn(ackQueue', c)) = 0
      BY <3>1, FS_EmptySet
    <3> QED BY ONLY <1>n, <1>h, <1>c, <3>2
  <2> QED BY <1>1, <2>1, <2>2, <2>3, AckQueueStep
<1> QED BY <1>1, <1>2, <1>3

\* As long as messages_ has none of them, they stay no more than the threads.
LEMMA BoundStep ==
  ASSUME TypeOK, [Next]_vars, NEW c, Bounded(c),
         \A k \in 1..Len(messages) : ~(messages[k].conn < c)
  PROVE  Bounded(c)'
<1>1. Count(c)' <= Count(c)
  BY CountStep
<1>2. Count(c) \in Nat /\ Cardinality(Threads) \in Nat
  BY CountIsNumber, FS_CardinalityType
<1>3. Count(c)' \in Nat
  <2>1. TypeOK'
    BY FlagsTypeStep, WorkerTypeStep, ThreadsTypeStep, QueuesTypeStep, BrokerTypeStep
    DEF TypeOK
  <2> QED BY <2>1, CountIsNumberNext
<1>4. Count(c)' <= Cardinality(Threads)
  BY ONLY <1>1, <1>2, <1>3, Bounded(c) DEF Bounded
<1> QED BY <1>4 DEF Bounded

\* The invariant.  What is in messages_ came by this connection.  When the worker
\* goes to connect, it has emptied both queues, and the next connection makes
\* stale only what the threads have.
FewInv == /\ Bounded(conn)
          /\ \A k \in 1..Len(messages) : messages[k].conn = conn
          /\ worker \in {"wantClearAcks", "clearAcks"} => messages = <<>>
          /\ worker = "connect" /\ run => messages = <<>> /\ Bounded(conn + 1)
          /\ worker = "none" => /\ messages = <<>> /\ ackQueue = <<>>
                                /\ \A t \in Threads : hand[t] = <<>>

\* A connection begins where the worker connects, and leaves the queues alone.
LEMMA ConnStep ==
  [Next]_vars => \/ conn' = conn
                 \/ /\ worker = "connect" /\ run /\ conn' = conn + 1 /\ worker' = "consume"
                    /\ UNCHANGED <<messages, ackQueue, hand, settled, processed, raced>>
<1> SUFFICES ASSUME [Next]_vars
             PROVE  \/ conn' = conn
                    \/ /\ worker = "connect" /\ run /\ conn' = conn + 1
                       /\ worker' = "consume"
                       /\ UNCHANGED <<messages, ackQueue, hand, settled, processed, raced>>
  OBVIOUS
<1>1. CASE (\E m \in Messages : Deliver(m)) \/ LinkLost \/ BrokerNotices \/ Stop \/ Start
  BY <1>1 DEF Deliver, LinkLost, BrokerNotices, Stop, Start
<1>2. CASE Connect
  BY <1>2 DEF Connect, shared
<1>3. CASE ConsumeEnvelope \/ ConsumeNothing \/ ConsumeThrows \/ Leave \/ Emplace
  BY <1>3 DEF ConsumeEnvelope, ConsumeNothing, ConsumeThrows, Leave, Emplace
<1>4. CASE LockAcks \/ SendAck \/ LockMessages \/ ClearMessages \/ ClearAcks
  BY <1>4 DEF LockAcks, SendAck, LockMessages, ClearMessages, ClearAcks
<1>5. ASSUME NEW t \in Threads, ThreadStep(t) \/ GiveUp(t) PROVE conn' = conn
  BY <1>5 DEF ThreadStep, Receive, Take, Work, LockAckQueue, Acknowledge, GiveUp
<1>6. CASE UNCHANGED vars
  BY <1>6 DEF vars
<1> QED BY <1>1, <1>2, <1>3, <1>4, <1>5, <1>6 DEF Next, WorkerStep, Ended

\* The worker gets to the places of the catch block in their order, and back to
\* connect, to go on, from the start or from the catch block.
ClearingStep ==
  /\ worker' \in {"wantClearAcks", "clearAcks"}
       => worker \in {"wantClearAcks", "clearAcks"} \/ messages' = <<>>
  /\ worker' = "connect" /\ run'
       => \/ worker = "connect" /\ run
          \/ worker = "none"
          \/ worker = "clearAcks" /\ ackQueue' = <<>>
  /\ worker' = "none" => worker = "none"

\* Every step does so.
LEMMA WorkerOrder == [Next]_vars => ClearingStep
<1> SUFFICES ASSUME [Next]_vars PROVE ClearingStep
  OBVIOUS
<1> USE DEF ClearingStep
<1>1. CASE (\E m \in Messages : Deliver(m)) \/ LinkLost \/ BrokerNotices \/ Stop
  BY <1>1 DEF Deliver, LinkLost, BrokerNotices, Stop
<1>2. CASE Start \/ Connect
  BY <1>2 DEF Start, Connect
<1>3. CASE ConsumeEnvelope \/ ConsumeNothing \/ ConsumeThrows \/ Leave \/ Emplace
  BY <1>3 DEF ConsumeEnvelope, ConsumeNothing, ConsumeThrows, Leave, Emplace
<1>4. CASE LockAcks \/ SendAck \/ LockMessages \/ ClearMessages \/ ClearAcks
  BY <1>4 DEF LockAcks, SendAck, LockMessages, ClearMessages, ClearAcks
<1>5. ASSUME NEW t \in Threads, ThreadStep(t) \/ GiveUp(t) PROVE UNCHANGED <<worker, run>>
  BY <1>5 DEF ThreadStep, Receive, Take, Work, LockAckQueue, Acknowledge, GiveUp
<1>6. CASE UNCHANGED vars
  BY <1>6 DEF vars
<1> QED BY <1>1, <1>2, <1>3, <1>4, <1>5, <1>6 DEF Next, WorkerStep, Ended

\* Nothing is stale where there is nothing, and what the threads have is no more
\* than they are.
LEMMA EmptyIsBounded == ackQueue = <<>> => \A c : Bounded(c)
<1> SUFFICES ASSUME NEW c, ackQueue = <<>> PROVE Bounded(c)
  OBVIOUS
<1>1. StaleIn(ackQueue, c) = {}
  BY DEF StaleIn
<1>2. Cardinality(StaleIn(ackQueue, c)) = 0
  BY <1>1, FS_EmptySet
<1> QED BY <1>2, HeldIsFinite DEF Bounded, Count

\* the same after a step
LEMMA EmptyIsBoundedNext == (ackQueue = <<>> => \A c : Bounded(c))'
BY EmptyIsBounded, PTL

\* No step makes more ids stale than there are threads.
LEMMA FewStep == TypeOK /\ FewInv /\ [Next]_vars => FewInv'
<1> SUFFICES ASSUME TypeOK, FewInv, [Next]_vars PROVE FewInv'
  OBVIOUS
<1>1. conn \in Nat /\ messages \in Seq(Items)
  BY DEF TypeOK, WorkerTypeOK, QueuesTypeOK
<1>2. messages = <<>> /\ worker # "emplace" => messages' = <<>>
  BY MessagesStep DEF Added
<1>3. CASE conn' # conn
  <2>1. /\ worker = "connect" /\ run /\ conn' = conn + 1 /\ worker' = "consume"
        /\ UNCHANGED <<messages, ackQueue, hand>>
    BY <1>3, ConnStep
  <2>2. messages' = <<>> /\ Bounded(conn + 1)
    BY <2>1 DEF FewInv
  <2>3. Bounded(conn)'
    BY <2>1, <2>2 DEF Bounded, Count, HeldBefore
  <2> QED BY <2>1, <2>2, <2>3 DEF FewInv
<1>4. CASE conn' = conn
  <2>1. \A k \in 1..Len(messages') : messages'[k].conn = conn'
    <3>0. \A k \in 1..Len(messages) : messages[k].conn = conn
      BY DEF FewInv
    <3>1. CASE messages' = messages \/ messages' = <<>>
      BY <1>4, <3>0, <3>1
    <3>2. CASE messages # <<>> /\ messages' = Tail(messages)
      BY <1>1, <1>4, <3>0, <3>2
    <3>3. ASSUME NEW i \in Items, messages' = Append(messages, i), i.conn = conn
          PROVE  \A k \in 1..Len(messages') : messages'[k].conn = conn'
      BY <1>1, <1>4, <3>0, <3>3
    <3> QED BY <3>1, <3>2, <3>3, MessagesStep DEF Added
  <2>2. Bounded(conn)'
    <3>1. PICK c : c = conn
      OBVIOUS
    <3>2. Bounded(c) /\ \A k \in 1..Len(messages) : ~(messages[k].conn < c)
      BY <1>1, <3>1 DEF FewInv
    <3>3. Bounded(c)'
      BY <3>2, BoundStep
    <3> QED BY <1>4, <3>1, <3>3
  <2>3. worker' \in {"wantClearAcks", "clearAcks"} => messages' = <<>>
    BY <1>2, WorkerOrder DEF ClearingStep, FewInv
  <2>4. ASSUME worker' = "connect", run' PROVE messages' = <<>> /\ Bounded(conn + 1)'
    <3>1. PICK c : c = conn + 1
      OBVIOUS
    <3>2. CASE (worker = "connect" /\ run) \/ worker = "none"
      <4>1. messages = <<>> /\ Bounded(c)
        BY <3>1, <3>2, EmptyIsBounded DEF FewInv
      <4>2. \A k \in 1..Len(messages) : ~(messages[k].conn < c)
        BY <4>1
      <4>3. messages' = <<>>
        BY <1>2, <3>2, <4>1
      <4>4. Bounded(c)'
        BY <4>1, <4>2, BoundStep
      <4> QED BY <1>4, <3>1, <4>3, <4>4
    <3>3. CASE worker = "clearAcks" /\ ackQueue' = <<>>
      <4>1. messages' = <<>>
        BY <1>2, <3>3 DEF FewInv
      <4>2. Bounded(c)'
        BY <3>3, EmptyIsBoundedNext
      <4> QED BY <1>4, <3>1, <4>1, <4>2
    <3> QED BY <2>4, <3>2, <3>3, WorkerOrder DEF ClearingStep
  <2>5. ASSUME worker' = "none"
        PROVE  messages' = <<>> /\ ackQueue' = <<>> /\ \A t \in Threads : hand'[t] = <<>>
    <3>1. /\ worker = "none" /\ messages = <<>> /\ ackQueue = <<>>
          /\ \A t \in Threads : hand[t] = <<>>
      BY <2>5, WorkerOrder DEF ClearingStep, FewInv
    <3>2. ~\E t \in Threads : Acknowledge(t)
      BY <3>1 DEF Acknowledge, TypeOK, ThreadsTypeOK
    <3>3. ackQueue' = <<>>
      BY <3>1, <3>2, AckQueueStep
    <3>4. \A t \in Threads : hand'[t] = <<>>
      BY <3>1, HandStep
    <3> QED BY <1>2, <3>1, <3>3, <3>4
  <2> QED BY <2>1, <2>2, <2>3, <2>4, <2>5 DEF FewInv
<1> QED BY <1>3, <1>4

\* At first nothing is stale.
LEMMA StartIsFew == Init => FewInv
<1> SUFFICES ASSUME Init PROVE FewInv
  OBVIOUS
<1>1. Bounded(conn)
  BY EmptyIsBounded DEF Init
<1> QED BY <1>1 DEF Init, FewInv

\* StaleIds are those from before the latest connection.
LEMMA StaleIdsCounted == TypeOK => StaleIds = Count(conn)
<1> SUFFICES ASSUME TypeOK PROVE StaleIds = Count(conn)
  OBVIOUS
<1>1. DOMAIN ackQueue = 1..Len(ackQueue)
  BY DEF TypeOK, QueuesTypeOK
<1>2. {i \in DOMAIN ackQueue : Stale(ackQueue[i])} = StaleIn(ackQueue, conn)
  BY <1>1 DEF Stale, StaleIn
<1>3. {t \in Threads : hand[t] # <<>> /\ Stale(hand[t])} = HeldBefore(conn)
  BY DEF Stale, HeldBefore
<1> QED BY <1>2, <1>3 DEF StaleIds, Count

\* After a reconnection each thread can add the id of the message it works on, and
\* there are no other ids of ended connections.
THEOREM StaleIdsStayFew == Spec => []StaleIdsAreFew
<1>1. TypeOK /\ FewInv => StaleIdsAreFew
  BY StaleIdsCounted DEF FewInv, Bounded, StaleIdsAreFew
<1> QED BY <1>1, StartIsFew, FewStep, TypeCorrect, PTL DEF Spec

-----------------------------------------------------------------------------
(* What stale ids can do *)

\* There is no connection before the first.
LEMMA NoneBeforeFirst == TypeOK => Count(1) = 0
<1> SUFFICES ASSUME TypeOK PROVE Count(1) = 0
  OBVIOUS
<1>1. ackQueue \in Seq(Items) /\ hand \in [Threads -> Items \cup {<<>>}]
  BY DEF TypeOK, QueuesTypeOK, ThreadsTypeOK
<1>2. \A i \in Items : ~(i.conn < 1)
  BY DEF Items
<1>3. StaleIn(ackQueue, 1) = {}
  BY <1>1, <1>2 DEF StaleIn
<1>4. HeldBefore(1) = {}
  BY <1>1, <1>2 DEF HeldBefore
<1> QED BY <1>3, <1>4, FS_EmptySet DEF Count

\* messages lost to stale ids
Lost == settled \ processed

\* Messages are finitely many.
LEMMA LostIsFinite == TypeOK => IsFiniteSet(Lost) /\ Cardinality(Lost) \in Nat
<1> SUFFICES ASSUME TypeOK PROVE IsFiniteSet(Lost) /\ Cardinality(Lost) \in Nat
  OBVIOUS
<1>1. Lost \subseteq Messages
  BY DEF Lost, TypeOK, BrokerTypeOK
<1>2. IsFiniteSet(Lost)
  BY <1>1, FS_Subset
<1> QED BY <1>2, FS_CardinalityType

\* the same after a step
LEMMA LostIsFiniteNext == (TypeOK => IsFiniteSet(Lost) /\ Cardinality(Lost) \in Nat)'
BY LostIsFinite, PTL

\* The invariant: LossesAreBounded, and that nothing is settled at first.
LossInv == /\ conn = 0 => settled = {}
           /\ ~raced /\ conn > 0 =>
                Cardinality(Lost) + Count(conn) <= Cardinality(Threads) * (conn - 1)

\* One more thread's share for one more connection.
LEMMA OneMoreShare ==
  ASSUME NEW n \in Nat, NEW k \in Nat \ {0} PROVE n * (k - 1) + n = n * k
OBVIOUS

\* A connection that begins makes stale what the threads have.
LEMMA LossAtConnect ==
  ASSUME TypeOK, FewInv, LossInv, [Next]_vars, conn' # conn, ~raced'
  PROVE  Cardinality(Lost') + Count(conn)' <= Cardinality(Threads) * (conn' - 1)
<1>1. /\ worker = "connect" /\ run /\ conn' = conn + 1
      /\ UNCHANGED <<ackQueue, hand, settled, processed, raced>>
  BY ConnStep
<1>2. Lost' = Lost /\ Count(conn)' = Count(conn + 1)
  BY <1>1 DEF Lost, Count, HeldBefore
<1>3. conn \in Nat /\ Cardinality(Threads) \in Nat
  BY FS_CardinalityType DEF TypeOK, WorkerTypeOK
<1>4. CASE conn = 0
  <2>1. Lost = {}
    BY <1>4 DEF LossInv, Lost
  <2>2. Cardinality(Lost) = 0 /\ Count(1) = 0
    BY <2>1, FS_EmptySet, NoneBeforeFirst
  <2> QED BY <1>1, <1>2, <1>3, <1>4, <2>2
<1>5. CASE conn # 0
  <2>1. Cardinality(Lost) + Count(conn) <= Cardinality(Threads) * (conn - 1)
    BY <1>1, <1>3, <1>5 DEF LossInv
  <2>2. Count(conn + 1) <= Cardinality(Threads)
    BY <1>1 DEF FewInv, Bounded
  <2>3. Cardinality(Lost) \in Nat /\ Count(conn) \in Nat /\ Count(conn + 1) \in Nat
    BY LostIsFinite, CountIsNumber
  <2>4. Cardinality(Threads) * (conn - 1) + Cardinality(Threads) = Cardinality(Threads) * conn
    BY <1>3, <1>5, OneMoreShare
  <2>5. Cardinality(Threads) * (conn - 1) \in Int
    BY <1>3
  <2>6. Cardinality(Lost) + Count(conn + 1) <= Cardinality(Threads) * conn
    BY ONLY <2>1, <2>2, <2>3, <2>4, <2>5, <1>3
  <2>7. conn' - 1 = conn
    BY <1>1, <1>3
  <2> QED BY <1>2, <2>6, <2>7
<1> QED BY <1>4, <1>5

\* Within a connection a stale id is gone when it settles a message, and other ids
\* settle what was processed.
LEMMA LossOfStep ==
  ASSUME TypeOK, TagsInv, FewInv, [Next]_vars, conn' = conn, ~raced
  PROVE  Cardinality(Lost') + Count(conn)' <= Cardinality(Lost) + Count(conn)
<1>t. TypeOK'
  BY FlagsTypeStep, WorkerTypeStep, ThreadsTypeStep, QueuesTypeStep, BrokerTypeStep
  DEF TypeOK
<1>p. processed \subseteq processed'
  BY RoundStep DEF RoundKept
<1>1. PICK c : c = conn
  OBVIOUS
<1>2. \A k \in 1..Len(messages) : ~(messages[k].conn < c)
  BY <1>1 DEF FewInv, TypeOK, WorkerTypeOK
<1>3. /\ Count(c)' <= Count(c)
      /\ SendAck /\ ackQueue # <<>> /\ Head(ackQueue).conn < c => Count(c)' <= Count(c) - 1
  BY <1>2, CountStep
<1>4. Count(c) \in Nat /\ Count(c)' \in Nat
  BY <1>t, CountIsNumber, CountIsNumberNext
<1>5. IsFiniteSet(Lost) /\ Cardinality(Lost) \in Nat
  BY LostIsFinite
<1>6. Cardinality(Lost') + Count(c)' <= Cardinality(Lost) + Count(c)
  <2>1. CASE Lost' \subseteq Lost
    <3>1. Cardinality(Lost') <= Cardinality(Lost) /\ IsFiniteSet(Lost')
      BY <1>5, <2>1, FS_Subset
    <3>2. Cardinality(Lost') \in Nat
      BY <3>1, FS_CardinalityType
    <3> QED BY ONLY <1>3, <1>4, <1>5, <3>1, <3>2
  <2>2. CASE settled' = settled
    <3>1. Lost' \subseteq Lost
      BY <1>p, <2>2 DEF Lost
    <3> QED BY <2>1, <3>1
  <2>3. CASE /\ SendAck /\ ackQueue # <<>>
             /\ settled' = settled \cup {delivered[Head(ackQueue).tag]}
    <3> DEFINE m == delivered[Head(ackQueue).tag]
    <3>1. CASE Head(ackQueue).conn < c
      <4>1. Lost' \subseteq Lost \cup {m}
        BY <1>p, <2>3 DEF Lost
      <4>2. /\ IsFiniteSet(Lost \cup {m})
            /\ Cardinality(Lost \cup {m}) =
                 IF m \in Lost THEN Cardinality(Lost) ELSE Cardinality(Lost) + 1
        BY <1>5, FS_AddElement
      <4>3. Cardinality(Lost') <= Cardinality(Lost \cup {m}) /\ IsFiniteSet(Lost')
        BY <4>1, <4>2, FS_Subset
      <4>4. Cardinality(Lost') \in Nat
        BY <4>3, FS_CardinalityType
      <4>5. Count(c)' <= Count(c) - 1
        BY <1>3, <2>3, <3>1
      <4> QED BY ONLY <1>4, <1>5, <4>2, <4>3, <4>4, <4>5
    <3>2. CASE ~(Head(ackQueue).conn < c)
      <4>1. worker = "ack" /\ ~Stale(Head(ackQueue))
        BY <1>1, <2>3, <3>2 DEF SendAck, Stale
      <4>2. m \in processed
        BY <2>3, <4>1, FreshIdIsProcessed
      <4>3. Lost' \subseteq Lost
        BY <1>p, <2>3, <4>2 DEF Lost
      <4> QED BY <2>1, <4>3
    <3> QED BY <3>1, <3>2
  <2> QED BY <2>2, <2>3, SettledStep
<1>7. Count(c)' = Count(conn)' /\ Count(c) = Count(conn)
  BY <1>1
<1> QED BY <1>6, <1>7

\* No step loses more messages than there were stale ids for.
LEMMA LossStep == TypeOK /\ TagsInv /\ FewInv /\ LossInv /\ [Next]_vars => LossInv'
<1> SUFFICES ASSUME TypeOK, TagsInv, FewInv, LossInv, [Next]_vars PROVE LossInv'
  OBVIOUS
<1>1. conn \in Nat
  BY DEF TypeOK, WorkerTypeOK
<1>2. ASSUME conn' = 0 PROVE settled' = {}
  <2>1. conn = 0 /\ settled = {}
    <3>1. conn = 0
      BY <1>1, <1>2, ConnStep
    <3> QED BY <3>1 DEF LossInv
  <2>2. ~SendAck
    BY <2>1 DEF SendAck, TypeOK, WorkerTypeOK, InRound
  <2> QED BY <2>1, <2>2, SettledStep
<1>3. ASSUME ~raced', conn' > 0
      PROVE  Cardinality(Lost') + Count(conn)' <= Cardinality(Threads) * (conn' - 1)
  <2>1. CASE conn' # conn
    BY <1>3, <2>1, LossAtConnect
  <2>2. CASE conn' = conn
    <3>1. ~raced
      BY <1>3, RaceKept
    <3>2. Cardinality(Lost') + Count(conn)' <= Cardinality(Lost) + Count(conn)
      BY <2>2, <3>1, LossOfStep
    <3>3. Cardinality(Lost) + Count(conn) <= Cardinality(Threads) * (conn - 1)
      BY <1>3, <2>2, <3>1 DEF LossInv
    <3>4. TypeOK'
      BY FlagsTypeStep, WorkerTypeStep, ThreadsTypeStep, QueuesTypeStep, BrokerTypeStep
      DEF TypeOK
    <3>5. Cardinality(Lost) \in Nat /\ Count(conn) \in Nat
      BY LostIsFinite, CountIsNumber
    <3>6. Cardinality(Lost') \in Nat /\ Count(conn)' \in Nat
      BY <3>4, LostIsFiniteNext, CountIsNumberNext
    <3>7. Cardinality(Threads) * (conn - 1) \in Int
      BY <1>1, FS_CardinalityType
    <3>8. Cardinality(Lost') + Count(conn)' <= Cardinality(Threads) * (conn - 1)
      BY ONLY <3>2, <3>3, <3>5, <3>6, <3>7
    <3> QED BY <2>2, <3>8
  <2> QED BY <2>1, <2>2
<1>4. Lost' = settled' \ processed'
  BY DEF Lost
<1> QED BY <1>2, <1>3, <1>4 DEF LossInv, Lost

\* Every reconnection loses at most one message for each thread.
THEOREM LossesStayBounded == Spec => []LossesAreBounded
<1>1. Init => TagsInv
  BY DEF Init, TagsInv
<1>2. Init => FewInv
  BY StartIsFew
<1>3. Init => LossInv
  BY DEF Init, LossInv
<1>4. TypeOK /\ LossInv => LossesAreBounded
  <2> SUFFICES ASSUME TypeOK, LossInv PROVE LossesAreBounded
    OBVIOUS
  <2>1. StaleIds = Count(conn)
    BY StaleIdsCounted
  <2> QED BY <2>1 DEF LossesAreBounded, LossInv, Lost
<1> QED BY <1>1, <1>2, <1>3, <1>4, TagsStep, FewStep, LossStep, TypeCorrect, PTL DEF Spec
=============================================================================
