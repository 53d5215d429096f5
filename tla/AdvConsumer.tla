---------------------------- MODULE AdvConsumer ----------------------------
(***************************************************************************)
(* examples/advconsumer.cpp: a Consumer whose worker thread owns the       *)
(* connection, and processing threads that take messages from a queue and  *)
(* put delivery tags into another.  On any exception the worker empties    *)
(* both queues and connects again.                                         *)
(*                                                                         *)
(* The broker numbers the deliveries of each connection from one; what was *)
(* not acknowledged when a connection ends is delivered again.  The code   *)
(* keeps the tag and the body of a message; the connection it came by is   *)
(* kept here as well, for the properties.                                  *)
(***************************************************************************)
EXTENDS Naturals, Sequences, FiniteSets

CONSTANTS Threads,        \* the processing threads
          Worker, Nobody, \* the other holders of a lock: the worker, and none
          Messages,       \* the messages in the broker's queue
          MaxConnections  \* bound: connections the worker makes

ASSUME AdvConsumerAssumption ==
    /\ Worker \notin Threads /\ Nobody \notin Threads /\ Worker # Nobody
    /\ IsFiniteSet(Threads) /\ IsFiniteSet(Messages)
    /\ MaxConnections \in Nat

VARIABLES
    run,        \* run_
    worker,     \* the place the worker is at
    thread,     \* [Threads -> the place the thread is at]
    hand,       \* [Threads -> the message it works on]
    messages,   \* messages_
    messageMtx, \* who holds messageMtx_
    ackQueue,   \* ackQueue_
    ackMtx,     \* who holds ackMtx_
    conn,       \* connections made so far: the number of the latest one
    taken,      \* deliveries the worker has read from it
    up,         \* the link is there: what is sent by it arrives
    delivered,  \* what arrived by the latest connection: delivered[tag]
    unacked,    \* tags of it that the broker waits for
    ready,      \* messages in the broker's queue
    settled,    \* messages the broker has forgotten, as acknowledged
    processed,  \* history: messages that some thread has worked on
    raced       \* history: messages_ was used by two threads at once

shared == <<messages, messageMtx, ackQueue, ackMtx>>
broker == <<up, delivered, unacked, ready, settled>>
vars == <<run, worker, thread, hand, shared, conn, taken, broker, processed, raced>>

-----------------------------------------------------------------------------
(* Data *)

Tags == 1..Cardinality(Messages)

\* a Consumer::Message, and the id of one in ackQueue_
Items == [tag : Nat \ {0}, conn : 1..MaxConnections, msg : Messages]

WorkerPlaces == {"none", "connect", "consume", "emplace", "wantAcks", "ack",
                 "wantMessages", "clear", "wantClearAcks", "clearAcks", "done"}

ThreadPlaces == {"receive", "take", "waiting", "work", "wantAcks", "acknowledge",
                 "done"}

\* the worker is in the inner loop
InRound == worker \in {"consume", "emplace", "wantAcks", "ack"}

\* threads that are inside a function that uses the queue
InAckQueue == {t \in Threads : thread[t] = "acknowledge"}
              \cup (IF worker \in {"ack", "clearAcks"} THEN {Worker} ELSE {})

InMessages == {t \in Threads : thread[t] = "take"}
              \cup (IF worker \in {"emplace", "clear"} THEN {Worker} ELSE {})

Init == /\ run = FALSE
        /\ worker = "none"
        /\ thread = [t \in Threads |-> "receive"]
        /\ hand = [t \in Threads |-> <<>>]
        /\ messages = <<>> /\ messageMtx = Nobody
        /\ ackQueue = <<>> /\ ackMtx = Nobody
        /\ conn = 0 /\ taken = 0
        /\ up = FALSE /\ delivered = <<>> /\ unacked = {}
        /\ ready = Messages /\ settled = {}
        /\ processed = {} /\ raced = FALSE

-----------------------------------------------------------------------------
(* The broker and the link *)

Deliver(m) ==
    /\ up /\ m \in ready
    /\ delivered' = Append(delivered, m)
    /\ unacked' = unacked \cup {Len(delivered')}
    /\ ready' = ready \ {m}
    /\ UNCHANGED <<run, worker, thread, hand, shared, conn, taken, up, settled,
                   processed, raced>>

\* the connection is over for the broker: it takes the messages back
Requeue == /\ up' = FALSE
           /\ ready' = ready \cup {delivered[tag] : tag \in unacked}
           /\ unacked' = {}

\* The link breaks.  Neither side knows it yet, or only one of them does:
LinkLost ==
    /\ up /\ up' = FALSE
    /\ UNCHANGED <<run, worker, thread, hand, shared, conn, taken, delivered, unacked,
                   ready, settled, processed, raced>>

\* the broker may find out before the worker, or when the worker hangs up.
BrokerNotices ==
    /\ ~up /\ unacked # {}
    /\ Requeue
    /\ UNCHANGED <<run, worker, thread, hand, shared, conn, taken, delivered, settled,
                   processed, raced>>

\* basic.ack is lost with the link, whatever the broker knows of that.  A tag the
\* broker does not wait for is an error that closes the channel.
Acked(tag) ==
    IF ~up THEN UNCHANGED <<up, unacked, ready, settled>>
    ELSE IF tag \in unacked
    THEN /\ settled' = settled \cup {delivered[tag]}
         /\ unacked' = unacked \ {tag}
         /\ UNCHANGED <<up, ready>>
    ELSE Requeue /\ UNCHANGED settled

-----------------------------------------------------------------------------
(* The worker *)

\* Consumer::start, which main calls once
Start ==
    /\ worker = "none"
    /\ run' = TRUE
    /\ worker' = "connect"
    /\ UNCHANGED <<thread, hand, shared, conn, taken, broker, processed, raced>>

\* Connection, Channel and Queues of a round of the outer loop are made, or one
\* of them throws
Connect ==
    /\ worker = "connect" /\ run
    /\ \/ /\ conn < MaxConnections
          /\ conn' = conn + 1
          /\ up' = TRUE
          /\ worker' = "consume"
       \/ /\ worker' = "wantMessages"
          /\ UNCHANGED <<conn, up>>
    /\ UNCHANGED <<run, thread, hand, shared, taken, delivered, unacked, ready,
                   settled, processed, raced>>

\* the destructors of Channel and Connection, at the end of a round
Hangup == /\ Requeue
          /\ delivered' = <<>> /\ taken' = 0
          /\ UNCHANGED settled

\* faulty: what a poll that timed out left behind is taken for a message
ConsumeEnvelopeUnchecked ==
    /\ worker = "consume" /\ run
    /\ taken' = taken + 1
    /\ worker' = "emplace"
    /\ UNCHANGED <<run, thread, hand, shared, conn, broker, processed, raced>>

\* consumeEnvelope(seconds(0)) hands an envelope to the callback,
ConsumeEnvelope ==
    /\ worker = "consume" /\ run
    /\ taken < Len(delivered)
    /\ taken' = taken + 1
    /\ worker' = "emplace"
    /\ UNCHANGED <<run, thread, hand, shared, conn, broker, processed, raced>>

\* faulty: the inner loop goes on whatever run_ is
ConsumeNothingForever ==
    /\ worker = "consume"
    /\ taken = Len(delivered)
    /\ worker' = "wantAcks"
    /\ UNCHANGED <<run, thread, hand, shared, conn, taken, broker, processed, raced>>

\* finds none, also for a while after the link was lost,
ConsumeNothing ==
    /\ worker = "consume" /\ run
    /\ taken = Len(delivered)
    /\ worker' = "wantAcks"
    /\ UNCHANGED <<run, thread, hand, shared, conn, taken, broker, processed, raced>>

\* or throws, as the connection or the channel is gone
ConsumeThrows ==
    /\ worker = "consume" /\ run
    /\ ~up
    /\ Hangup
    /\ worker' = "wantMessages"
    /\ UNCHANGED <<run, thread, hand, shared, conn, processed, raced>>

\* Two threads inside messages_, which is undefined.
Racing == Cardinality(InMessages) > 1

\* faulty: the tag of the next delivery is kept
EmplaceNextTag ==
    LET item == [tag |-> taken + 1, conn |-> conn, msg |-> delivered[taken]]
    IN  /\ worker = "emplace"
        /\ messages' = Append(messages, item)
        /\ raced' = (raced \/ Racing)
        /\ worker' = "wantAcks"
        /\ UNCHANGED <<run, thread, hand, messageMtx, ackQueue, ackMtx, conn, taken,
                       broker, processed>>

\* The callback adds the message, without the lock.  If another thread is
\* in there, the element may also be lost, or get any id.
Emplace ==
    LET item == [tag |-> taken, conn |-> conn, msg |-> delivered[taken]]
    IN  /\ worker = "emplace"
        /\ \/ messages' = Append(messages, item)
           \/ Racing /\ UNCHANGED messages
           \/ /\ Racing
              /\ \E tag \in Tags : messages' = Append(messages, [item EXCEPT !.tag = tag])
        /\ raced' = (raced \/ Racing)
        /\ worker' = "wantAcks"
        /\ UNCHANGED <<run, thread, hand, messageMtx, ackQueue, ackMtx, conn, taken,
                       broker, processed>>

\* the lock_guards on ackMtx_ of the worker
LockAcks ==
    /\ worker \in {"wantAcks", "wantClearAcks"}
    /\ ackMtx = Nobody
    /\ ackMtx' = Worker
    /\ worker' = IF worker = "wantAcks" THEN "ack" ELSE "clearAcks"
    /\ UNCHANGED <<run, thread, hand, messages, messageMtx, ackQueue, conn, taken,
                   broker, processed, raced>>

\* faulty: the newest id is sent and the oldest removed
SendAckBack ==
    /\ worker = "ack"
    /\ IF ackQueue = <<>>
       THEN UNCHANGED <<ackQueue, broker>>
       ELSE /\ Acked(ackQueue[Len(ackQueue)].tag)
            /\ ackQueue' = Tail(ackQueue)
            /\ UNCHANGED delivered
    /\ ackMtx' = Nobody
    /\ worker' = "consume"
    /\ UNCHANGED <<run, thread, hand, messages, messageMtx, conn, taken, processed, raced>>

\* One id is taken from the queue and sent, whatever channel.ack returns.
SendAck ==
    /\ worker = "ack"
    /\ IF ackQueue = <<>>
       THEN UNCHANGED <<ackQueue, broker>>
       ELSE /\ Acked(Head(ackQueue).tag)
            /\ ackQueue' = Tail(ackQueue)
            /\ UNCHANGED delivered
    /\ ackMtx' = Nobody
    /\ worker' = "consume"
    /\ UNCHANGED <<run, thread, hand, messages, messageMtx, conn, taken, processed, raced>>

\* faulty: the catch block does not lock
LockMessagesAtOnce ==
    /\ worker = "wantMessages"
    /\ worker' = "clear"
    /\ UNCHANGED <<run, thread, hand, shared, conn, taken, broker, processed, raced>>

\* the catch block: messages_ is emptied under its lock,
LockMessages ==
    /\ worker = "wantMessages"
    /\ messageMtx = Nobody
    /\ messageMtx' = Worker
    /\ worker' = "clear"
    /\ UNCHANGED <<run, thread, hand, messages, ackQueue, ackMtx, conn, taken, broker,
                   processed, raced>>

ClearMessages ==
    /\ worker = "clear"
    /\ messages' = <<>>
    /\ messageMtx' = Nobody
    /\ worker' = "wantClearAcks"
    /\ UNCHANGED <<run, thread, hand, ackQueue, ackMtx, conn, taken, broker, processed,
                   raced>>

\* faulty: an older exception handler only emptied messages_
ClearAcksForgotten ==
    /\ worker = "clearAcks"
    /\ ackMtx' = Nobody
    /\ worker' = "connect"
    /\ UNCHANGED <<run, thread, hand, ackQueue, messages, messageMtx, conn, taken,
                   broker, processed, raced>>

\* and then ackQueue_
ClearAcks ==
    /\ worker = "clearAcks"
    /\ ackQueue' = <<>>
    /\ ackMtx' = Nobody
    /\ worker' = "connect"
    /\ UNCHANGED <<run, thread, hand, messages, messageMtx, conn, taken, broker,
                   processed, raced>>

\* run_ is false: the inner loop leaves its scope, the outer loop ends
Leave ==
    /\ ~run
    /\ \/ worker = "consume" /\ Hangup /\ worker' = "connect"
       \/ worker = "connect" /\ worker' = "done" /\ UNCHANGED <<broker, taken>>
    /\ UNCHANGED <<run, thread, hand, shared, conn, processed, raced>>

WorkerStep == \/ Connect \/ ConsumeEnvelope \/ ConsumeNothing \/ ConsumeThrows
              \/ Emplace \/ LockAcks \/ SendAck
              \/ LockMessages \/ ClearMessages \/ ClearAcks \/ Leave

-----------------------------------------------------------------------------
(* The processing threads, and the owner of the Consumer *)

\* Consumer::receive: the lock,
Receive(t) ==
    /\ worker # "none"
    /\ thread[t] \in {"receive", "waiting"}
    /\ messageMtx = Nobody
    /\ messageMtx' = t
    /\ thread' = [thread EXCEPT ![t] = "take"]
    /\ UNCHANGED <<run, worker, hand, messages, ackQueue, ackMtx, conn, taken, broker,
                   processed, raced>>

\* faulty: the message is looked at and not removed
TakeFrontOnly(t) ==
    /\ thread[t] = "take"
    /\ IF messages = <<>>
       THEN thread' = [thread EXCEPT ![t] = "waiting"] /\ UNCHANGED hand
       ELSE /\ thread' = [thread EXCEPT ![t] = "work"]
            /\ hand' = [hand EXCEPT ![t] = Head(messages)]
    /\ raced' = (raced \/ Racing)
    /\ messageMtx' = Nobody
    /\ UNCHANGED <<run, worker, messages, ackQueue, ackMtx, conn, taken, broker, processed>>

\* and the oldest message, if there is one.  With the worker in there, what
\* is taken may also stay (bound: at the first race).
Take(t) ==
    /\ thread[t] = "take"
    /\ IF messages = <<>>
       THEN /\ thread' = [thread EXCEPT ![t] = "waiting"]
            /\ UNCHANGED <<hand, messages>>
       ELSE /\ thread' = [thread EXCEPT ![t] = "work"]
            /\ hand' = [hand EXCEPT ![t] = Head(messages)]
            /\ \/ messages' = Tail(messages)
               \/ Racing /\ ~raced /\ UNCHANGED messages
    /\ raced' = (raced \/ Racing)
    /\ messageMtx' = Nobody
    /\ UNCHANGED <<run, worker, ackQueue, ackMtx, conn, taken, broker, processed>>

\* main's processing
Work(t) ==
    /\ thread[t] = "work"
    /\ processed' = processed \cup {hand[t].msg}
    /\ thread' = [thread EXCEPT ![t] = "wantAcks"]
    /\ UNCHANGED <<run, worker, hand, shared, conn, taken, broker, raced>>

\* faulty: the id is added without waiting for the lock
LockAckQueueAtOnce(t) ==
    /\ thread[t] = "wantAcks"
    /\ ackMtx' = t
    /\ thread' = [thread EXCEPT ![t] = "acknowledge"]
    /\ UNCHANGED <<run, worker, hand, messages, messageMtx, ackQueue, conn, taken,
                   broker, processed, raced>>

\* faulty: the lock is only tried, and the id dropped if it is taken
TryLockAckQueue(t) ==
    /\ thread[t] = "wantAcks"
    /\ \/ /\ ackMtx = Nobody
          /\ ackMtx' = t
          /\ thread' = [thread EXCEPT ![t] = "acknowledge"]
          /\ UNCHANGED hand
       \/ /\ ackMtx # Nobody
          /\ thread' = [thread EXCEPT ![t] = "receive"]
          /\ hand' = [hand EXCEPT ![t] = <<>>]
          /\ UNCHANGED ackMtx
    /\ UNCHANGED <<run, worker, messages, messageMtx, ackQueue, conn, taken, broker,
                   processed, raced>>

\* Consumer::acknowledge: the lock,
LockAckQueue(t) ==
    /\ thread[t] = "wantAcks"
    /\ ackMtx = Nobody
    /\ ackMtx' = t
    /\ thread' = [thread EXCEPT ![t] = "acknowledge"]
    /\ UNCHANGED <<run, worker, hand, messages, messageMtx, ackQueue, conn, taken,
                   broker, processed, raced>>

\* and the id
Acknowledge(t) ==
    /\ thread[t] = "acknowledge"
    /\ ackQueue' = Append(ackQueue, hand[t])
    /\ hand' = [hand EXCEPT ![t] = <<>>]
    /\ ackMtx' = Nobody
    /\ thread' = [thread EXCEPT ![t] = "receive"]
    /\ UNCHANGED <<run, worker, messages, messageMtx, conn, taken, broker,
                   processed, raced>>

\* nothing received for kMaxIdle
GiveUp(t) ==
    /\ thread[t] = "waiting"
    /\ thread' = [thread EXCEPT ![t] = "done"]
    /\ UNCHANGED <<run, worker, hand, shared, conn, taken, broker, processed, raced>>

\* Consumer::stop, called by any thread or by ~Consumer, which then joins
Stop ==
    /\ worker # "none" /\ run
    /\ run' = FALSE
    /\ UNCHANGED <<worker, thread, hand, shared, conn, taken, broker, processed, raced>>

\* the program is over
Ended == /\ worker = "done" /\ \A t \in Threads : thread[t] = "done"
         /\ UNCHANGED vars

ThreadStep(t) == Receive(t) \/ Take(t) \/ Work(t) \/ LockAckQueue(t) \/ Acknowledge(t)

Next == \/ \E m \in Messages : Deliver(m)
        \/ LinkLost \/ BrokerNotices
        \/ Start \/ WorkerStep \/ Stop \/ Ended
        \/ \E t \in Threads : ThreadStep(t) \/ GiveUp(t)

Spec == Init /\ [][Next]_vars

\* Threads are scheduled, and one that waits for a mutex gets it if it is free
\* again and again: the worker lets go of ackMtx_ whenever it polls the connection,
\* the others let go of messageMtx_ between two receives.  The heartbeat of one
\* second that the worker asks for lets it find out that the link is lost.
Fairness == /\ WF_vars(WorkerStep) /\ SF_vars(ConsumeThrows)
            /\ SF_vars(LockAcks) /\ SF_vars(LockMessages)
            /\ \A t \in Threads : WF_vars(ThreadStep(t)) /\ SF_vars(LockAckQueue(t))

FairSpec == Spec /\ Fairness

-----------------------------------------------------------------------------
(* Properties *)

FlagsTypeOK == run \in BOOLEAN /\ up \in BOOLEAN /\ raced \in BOOLEAN

WorkerTypeOK == /\ worker \in WorkerPlaces
                /\ conn \in 0..MaxConnections /\ taken \in 0..Len(delivered)
                /\ worker = "emplace" => taken > 0
                /\ InRound => conn > 0

ThreadsTypeOK == /\ thread \in [Threads -> ThreadPlaces]
                 /\ hand \in [Threads -> Items \cup {<<>>}]
                 /\ \A t \in Threads :
                      thread[t] \in {"work", "wantAcks", "acknowledge"} <=> hand[t] # <<>>

QueuesTypeOK == /\ messages \in Seq(Items) /\ ackQueue \in Seq(Items)
                /\ messageMtx \in Threads \cup {Worker, Nobody}
                /\ ackMtx \in Threads \cup {Worker, Nobody}

BrokerTypeOK == /\ delivered \in Seq(Messages)
                /\ unacked \subseteq 1..Len(delivered)
                /\ ready \subseteq Messages /\ settled \subseteq Messages

\* The type invariant of the example.  A thread that works has a message, and
\* the worker has read no more deliveries than there were.
TypeOK == /\ FlagsTypeOK
          /\ WorkerTypeOK
          /\ ThreadsTypeOK
          /\ QueuesTypeOK
          /\ BrokerTypeOK
          /\ processed \subseteq Messages

\* ackQueue_ is used by one thread at a time, whether it adds an id, sends one
\* or empties the queue.
AckQueueExclusive == Cardinality(InAckQueue) <= 1

\* messages_ is used by one thread at a time, but for the callback of the worker,
\* the only function that does not lock: at most one thread is in its way.
OnlyTheCallbackRaces == Cardinality(InMessages) <= IF worker = "emplace" THEN 2 ELSE 1

\* the places that have an item: in a queue or in the hand of a thread
Holders == ({"messages"} \X DOMAIN messages) \cup ({"ackQueue"} \X DOMAIN ackQueue)
             \cup ({"hand"} \X {t \in Threads : hand[t] # <<>>})

ItemAt(p) == IF p[1] = "messages" THEN messages[p[2]]
             ELSE IF p[1] = "ackQueue" THEN ackQueue[p[2]] ELSE hand[p[2]]

SameDelivery(i, j) == i.conn = j.conn /\ i.tag = j.tag

\* What was delivered once is worked on once and acknowledged once: its item is
\* in one place only on its way from messages_ through a thread to ackQueue_, up
\* to a race.  The broker takes a second acknowledgement for an error.
DeliveriesHaveOneHolder ==
    ~raced => \A p, q \in Holders : SameDelivery(ItemAt(p), ItemAt(q)) => p = q

Stale(item) == item.conn < conn

\* the ids of ended connections that are in the queue or in a thread's hand
StaleIds == Cardinality({i \in DOMAIN ackQueue : Stale(ackQueue[i])})
              + Cardinality({t \in Threads : hand[t] # <<>> /\ Stale(hand[t])})

\* Ids of ended connections are few: after a reconnection every processing
\* thread can still add the id of the one message it was working on, and no
\* more, since both queues were emptied, the messages before the ids.
StaleIdsAreFew == StaleIds <= Cardinality(Threads)

\* What these ids can do: the messages that were lost to them, settled without
\* being processed, and the ids that may still settle one are together no more
\* than one for each thread and reconnection.
LossesAreBounded ==
    ~raced /\ conn > 0 =>
      Cardinality(settled \ processed) + StaleIds <= Cardinality(Threads) * (conn - 1)

\* An id of this connection settles the message it came with, and only after
\* that message was processed: what the worker reads, the queues and the threads
\* pass on and the broker counts are the same numbers.
AcksSettleWhatWasProcessed ==
    [][worker = "ack" /\ settled' # settled /\ ~Stale(Head(ackQueue)) /\ ~raced
         => /\ settled' = settled \cup {Head(ackQueue).msg}
            /\ Head(ackQueue).msg \in processed]_vars

\* A message does not stay with its connection once a thread acknowledges it: its
\* id reaches the broker, or the connection ends and the broker has it back, also
\* when channel.ack fails, its result is ignored and its id dropped.
AcknowledgedIsSettledOrReady ==
    \A t \in Threads, m \in Messages :
        /\ thread[t] = "wantAcks" /\ ~Stale(hand[t])
        /\ hand[t].msg = m
        ~> m \in settled \cup ready \/ raced

\* stop() ends the worker, so join() returns
StopEndsWorker == ~run /\ worker # "none" ~> worker = "done"

-----------------------------------------------------------------------------
(* What the comments say and the code does not do *)

\* The comment in the catch block: the ids are cleared as they "have become
\* invalid".  An invalid id does not acknowledge a message nobody has processed.
InvalidIdsSettleNothing == ~raced => settled \subseteq processed
=============================================================================
