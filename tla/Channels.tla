------------------------------ MODULE Channels ------------------------------
(***************************************************************************)
(* The calling half of rmqcxx: Connection's constructor, destructor and    *)
(* rpc, the Channel objects that live on it and are moved, and the calls   *)
(* that Channel, Queue and Exchange make, against a broker that refuses    *)
(* calls and closes channels and the connection when it likes.             *)
(*                                                                         *)
(* rabbitmq-c keeps one reply per connection: that of the last call that   *)
(* waited for an answer (`last`).  Connection::rpc asks for it after every *)
(* call.  A connection is used by one thread, so a call is one step here,  *)
(* with all it does: the call proper, processReply, the deferred releases  *)
(* on the way out and the exception, if there is one.                      *)
(***************************************************************************)
EXTENDS Naturals, FiniteSets

CONSTANTS Handles,   \* the program's variables of type Channel
          Ids,       \* channel numbers
          MaxOpens   \* bound: channels opened over the life of a connection

\* number 0 is the connection's own
ASSUME ChannelsAssumption == /\ Ids # {} /\ Ids \subseteq Nat \ {0}
                             /\ MaxOpens \in Nat

VARIABLES
    conn,        \* the Connection object: "none" or "open"
    session,     \* the broker's side of it: "none", "open" or "lost"
    last,        \* the library's last RPC reply on this connection
    channel,     \* [Ids -> Nat]: which opening of the id the broker has, or 0
    closing,     \* ids with a channel.close of the broker not yet read
    opens,       \* openings so far
    handle,      \* [Handles -> the Channel object in that variable]
    pools,       \* ids with a decoded reply nobody has asked the library to release
    reused,      \* history: ids opened while an object for them was there
    call,        \* the last call, what became of it and what it threw
    terminated   \* std::terminate was called

broker == <<session, channel, closing, opens>>
vars == <<conn, broker, last, handle, pools, reused, call, terminated>>

-----------------------------------------------------------------------------
(* Replies and exceptions *)

Replies == {"none", "normal", "library", "channelClose", "connectionClose", "other"}

\* Connection::processReply: what it throws for a reply, "none" if nothing
Thrown(reply) ==
    [none            |-> "RPCException",
     normal          |-> "none",
     library         |-> "LibraryException",
     channelClose    |-> "ChannelCloseException",
     connectionClose |-> "ConnectionCloseException",
     other           |-> "RPCException"][reply]

\* the channel number a ChannelCloseException of processReply carries
ThrownChannel == 0

NoChannel == [alive |-> FALSE, moved |-> FALSE, id |-> CHOOSE id \in Ids : TRUE,
              opening |-> 0]

\* Channel objects whose destructor will close their channel
Closers == {h \in Handles : handle[h].alive /\ ~handle[h].moved}

NoCall == [kind |-> "none", id |-> CHOOSE id \in Ids : TRUE, own |-> "none",
           thrown |-> "none", channel |-> 0]

AllClosed == [id \in Ids |-> 0]

Init == /\ conn = "none"
        /\ session = "none" /\ channel = AllClosed /\ closing = {} /\ opens = 0
        /\ last = "none"
        /\ handle = [h \in Handles |-> NoChannel]
        /\ pools = {} /\ reused = {}
        /\ call = NoCall
        /\ terminated = FALSE

\* the exceptions that rmqcxx declares and that calls throw
Exceptions == {"Exception", "SocketException", "OperationException", "RPCException",
               "LibraryException", "ConnectionCloseException",
               "ChannelCloseException", "ChannelException"}

AsyncCalls == {"ack", "nack", "publish"}

CallKinds == AsyncCalls \cup {"none", "connect", "disconnect", "open", "destroy",
                              "move", "sync", "exchange", "consume"}

-----------------------------------------------------------------------------
(* The broker *)

\* it closes a channel, for an acknowledgement or a publish it cannot accept
BrokerClosesChannel(id) ==
    /\ session = "open" /\ channel[id] # 0
    /\ channel' = [channel EXCEPT ![id] = 0]
    /\ closing' = closing \cup {id}
    /\ UNCHANGED <<conn, session, opens, last, handle, pools, reused, call, terminated>>

\* it goes away, or the link does
SessionEnds ==
    /\ session = "open"
    /\ session' = "lost" /\ channel' = AllClosed /\ closing' = {}
    /\ UNCHANGED <<conn, opens, last, handle, pools, reused, call, terminated>>

\* What a call that waits for its answer on channel id gets.  A method on a
\* channel that is not open is a connection error, or is discarded if the broker
\* closed the channel and waits for the close-ok; a timeout or a lost link ends
\* the session for the library.
Answers(id) == IF session # "open" THEN {"library"}
               ELSE IF id \in closing THEN {"channelClose"}
               ELSE IF channel[id] = 0 THEN {"connectionClose", "library"}
               ELSE {"normal", "channelClose", "connectionClose", "library", "other"}

\* and what that means on the broker's side
Answered(id, reply) ==
    /\ session' = IF reply \in {"connectionClose", "library"} THEN "lost" ELSE session
    /\ channel' = IF reply \in {"connectionClose", "library"} THEN AllClosed
                  ELSE IF reply = "channelClose" THEN [channel EXCEPT ![id] = 0]
                  ELSE channel
    /\ closing' = IF reply \in {"connectionClose", "library"} THEN {}
                  ELSE closing \ {id}

-----------------------------------------------------------------------------
(* Connection *)

\* the exceptions of the constructor
ConnectFailures == Exceptions \ {"ChannelException"}

\* A program makes a connection; when a step of the constructor fails it
\* closes what it opened and the library's object is destroyed.  Login's own
\* reply is not recorded as the last one.
Connect ==
    /\ conn = "none" /\ ~terminated
    /\ last' = "none"
    /\ \/ /\ conn' = "open" /\ session' = "open"
          /\ call' = [NoCall EXCEPT !.kind = "connect"]
       \/ /\ UNCHANGED <<conn, session>>
          /\ \E e \in ConnectFailures :
               call' = [NoCall EXCEPT !.kind = "connect", !.thrown = e]
    /\ opens' = 0
    /\ UNCHANGED <<channel, closing, handle, pools, reused, terminated>>

\* ~Connection closes the session, ignoring every error, and the library's
\* object goes with its pools.  The program has destroyed its channels, which
\* refer to the connection.
Disconnect ==
    /\ conn = "open" /\ ~terminated
    /\ \A h \in Handles : ~handle[h].alive
    /\ conn' = "none" /\ session' = "none" /\ channel' = AllClosed /\ closing' = {}
    /\ pools' = {} /\ reused' = {}
    /\ call' = [NoCall EXCEPT !.kind = "disconnect"]
    /\ UNCHANGED <<opens, last, handle, terminated>>

-----------------------------------------------------------------------------
(* Channel *)

\* What channel.open gets: to open an open channel is a connection error, and a
\* number the broker has closed can be opened again when it has forgotten it.
OpenReplies(id) == IF session # "open" THEN {"library"}
                   ELSE IF id \in closing THEN {"channelClose"}
                   ELSE IF channel[id] # 0 THEN {"connectionClose", "library"}
                   ELSE {"normal", "connectionClose", "library"}

Opened(id) == [alive |-> TRUE, moved |-> FALSE, id |-> id, opening |-> opens']

\* any number will do, also one that another object has
CanOpen(h) == /\ conn = "open" /\ ~terminated
              /\ ~handle[h].alive
              /\ opens < MaxOpens

\* The constructor, Connection::rpc(true, ..., amqp_channel_open), succeeds and
\* then releases everything,
OpenSucceeds(h, id) ==
    /\ opens' = opens + 1
    /\ channel' = [channel EXCEPT ![id] = opens']
    /\ handle' = [handle EXCEPT ![h] = Opened(id)]
    /\ pools' = {}
    /\ UNCHANGED <<session, closing>>

\* faulty: the constructor does not let the exception out and the object lives
OpenFailsSilently(h, id, reply) ==
    /\ Answered(id, reply)
    /\ UNCHANGED opens
    /\ handle' = [handle EXCEPT ![h] = Opened(id)]
    /\ pools' = IF reply = "library" THEN pools ELSE pools \cup {id}

\* or throws, and then there is no object and the release that follows
\* processReply is skipped.
OpenFails(h, id, reply) ==
    /\ Answered(id, reply)
    /\ pools' = IF reply = "library" THEN pools ELSE pools \cup {id}
    /\ UNCHANGED <<opens, handle>>

Open(h, id) ==
    /\ CanOpen(h)
    /\ reused' = IF \E g \in Closers : handle[g].id = id THEN reused \cup {id}
                                                       ELSE reused
    /\ \E reply \in OpenReplies(id) :
         /\ last' = reply
         /\ call' = [kind |-> "open", id |-> id, own |-> reply,
                     thrown |-> Thrown(reply), channel |-> ThrownChannel]
         /\ IF Thrown(reply) = "none" THEN OpenSucceeds(h, id)
                                     ELSE OpenFails(h, id, reply)
    /\ UNCHANGED <<conn, terminated>>

\* faulty: the destructor does not ask whether the object was moved from
DestroyMovedToo(h) ==
    /\ conn = "open" /\ ~terminated
    /\ handle[h].alive
    /\ handle' = [handle EXCEPT ![h] = NoChannel]
    /\ call' = [NoCall EXCEPT !.kind = "destroy"]
    /\ channel' = [channel EXCEPT ![handle[h].id] = 0]
    /\ closing' = closing \ {handle[h].id}
    /\ pools' = IF Thrown(last) = "none" THEN {} ELSE pools
    /\ UNCHANGED <<conn, session, opens, last, reused, terminated>>

\* faulty: it closes the channel only if the last call went well
DestroyUnlessFailed(h) ==
    /\ conn = "open" /\ ~terminated
    /\ handle[h].alive
    /\ handle' = [handle EXCEPT ![h] = NoChannel]
    /\ call' = [NoCall EXCEPT !.kind = "destroy"]
    /\ IF handle[h].moved \/ Thrown(last) # "none"
       THEN UNCHANGED <<channel, closing, pools>>
       ELSE /\ channel' = [channel EXCEPT ![handle[h].id] = 0]
            /\ closing' = closing \ {handle[h].id}
            /\ pools' = {}
    /\ UNCHANGED <<conn, session, opens, last, reused, terminated>>

\* The destructor, unless the object was moved from: amqp_channel_close sends
\* and waits, but its reply is not the one processReply sees, and whatever that
\* makes it throw is swallowed, after which nothing is released.
Destroy(h) ==
    /\ conn = "open" /\ ~terminated
    /\ handle[h].alive
    /\ handle' = [handle EXCEPT ![h] = NoChannel]
    /\ call' = [NoCall EXCEPT !.kind = "destroy"]
    /\ IF handle[h].moved
       THEN UNCHANGED <<channel, closing, pools>>
       ELSE /\ channel' = [channel EXCEPT ![handle[h].id] = 0]
            /\ closing' = closing \ {handle[h].id}
            /\ pools' = IF Thrown(last) = "none" THEN {}
                        ELSE IF session = "open" THEN pools \cup {handle[h].id}
                        ELSE pools
    /\ UNCHANGED <<conn, session, opens, last, reused, terminated>>

\* faulty: the object moved from still closes the channel
MoveKeepsOwner(h, g) ==
    /\ conn = "open" /\ ~terminated
    /\ handle[h].alive /\ ~handle[h].moved
    /\ ~handle[g].alive
    /\ handle' = [handle EXCEPT ![g] = handle[h]]
    /\ call' = [NoCall EXCEPT !.kind = "move"]
    /\ UNCHANGED <<conn, broker, last, pools, reused, terminated>>

\* the move constructor; the program does not move from an object twice
Move(h, g) ==
    /\ conn = "open" /\ ~terminated
    /\ handle[h].alive /\ ~handle[h].moved
    /\ ~handle[g].alive
    /\ handle' = [handle EXCEPT ![g] = [handle[h] EXCEPT !.moved = FALSE],
                                ![h].moved = TRUE]
    /\ call' = [NoCall EXCEPT !.kind = "move"]
    /\ UNCHANGED <<conn, broker, last, pools, reused, terminated>>

\* the deferred release of Channel::rpc
ReleaseOnChannel(id) == pools' = pools \ {id}

\* faulty: Channel::rpc releases after the call instead of deferring it
SyncReleasesLast(h) ==
    LET id == handle[h].id
    IN  /\ conn = "open" /\ ~terminated
        /\ handle[h].alive
        /\ \E reply \in Answers(id) :
             /\ Answered(id, reply)
             /\ last' = reply
             /\ call' = [kind |-> "sync", id |-> id, own |-> reply,
                         thrown |-> Thrown(reply), channel |-> ThrownChannel]
             /\ pools' = IF Thrown(reply) = "none" THEN pools \ {id} ELSE pools \cup {id}
        /\ UNCHANGED <<conn, opens, handle, reused, terminated>>

\* Channel::rpc around a function that waits for its answer: Channel's qos,
\* flow and recover and all of Queue.  The release on the channel is deferred
\* and so happens whether Connection::rpc throws or not.
Sync(h) ==
    LET id == handle[h].id
    IN  /\ conn = "open" /\ ~terminated
        /\ handle[h].alive
        /\ \E reply \in Answers(id) :
             /\ Answered(id, reply)
             /\ last' = reply
             /\ call' = [kind |-> "sync", id |-> id, own |-> reply,
                         thrown |-> Thrown(reply), channel |-> ThrownChannel]
        /\ ReleaseOnChannel(id)
        /\ UNCHANGED <<conn, opens, handle, reused, terminated>>

\* Exchange::rpc does the same but is noexcept, so what Channel::rpc throws
\* ends the program.
ExchangeCall(h) ==
    LET id == handle[h].id
    IN  /\ conn = "open" /\ ~terminated
        /\ handle[h].alive
        /\ \E reply \in Answers(id) :
             /\ Answered(id, reply)
             /\ last' = reply
             /\ call' = [kind |-> "exchange", id |-> id, own |-> reply,
                         thrown |-> "none", channel |-> 0]
             /\ terminated' = (Thrown(reply) # "none")
        /\ ReleaseOnChannel(id)
        /\ UNCHANGED <<conn, opens, handle, reused>>

\* Channel::rpc around a function that only sends (ack, nack, publish): the
\* library takes it or not, and processReply sees the reply of an earlier call.
Async(h, kind) ==
    LET id == handle[h].id
    IN  /\ conn = "open" /\ ~terminated
        /\ handle[h].alive
        /\ \E status \in IF session = "open" THEN {"sent", "failed"} ELSE {"failed"} :
             call' = [kind |-> kind, id |-> id, own |-> status,
                      thrown |-> IF Thrown(last) # "none" THEN Thrown(last)
                                 ELSE IF kind = "publish" /\ status # "sent"
                                      THEN "ChannelException" ELSE "none",
                      channel |-> ThrownChannel]
        /\ ReleaseOnChannel(id)
        /\ UNCHANGED <<conn, broker, last, handle, reused, terminated>>

\* Connection::consume* reads the channel.close of the broker and throws with
\* the number of the channel; or it reads other frames and leaves no trace here
Consume ==
    /\ conn = "open" /\ ~terminated
    /\ \E id \in closing :
         /\ closing' = closing \ {id}
         /\ call' = [kind |-> "consume", id |-> id, own |-> "channelClose",
                     thrown |-> "ChannelCloseException", channel |-> id]
    /\ pools' = {}
    /\ UNCHANGED <<conn, session, channel, opens, last, handle, reused,
                   terminated>>

Next == \/ \E id \in Ids : BrokerClosesChannel(id)
        \/ SessionEnds
        \/ Connect \/ Disconnect
        \/ \E h \in Handles, id \in Ids : Open(h, id)
        \/ \E h \in Handles : Destroy(h) \/ Sync(h) \/ ExchangeCall(h)
        \/ \E h, g \in Handles : Move(h, g)
        \/ \E h \in Handles, kind \in AsyncCalls : Async(h, kind)
        \/ Consume

Spec == Init /\ [][Next]_vars

-----------------------------------------------------------------------------
(* Properties *)

BrokerTypeOK == /\ conn \in {"none", "open"}
                /\ session \in {"none", "open", "lost"}
                /\ channel \in [Ids -> 0..MaxOpens]
                /\ closing \subseteq Ids
                /\ opens \in 0..MaxOpens

ChannelObjects == [alive : BOOLEAN, moved : BOOLEAN, id : Ids, opening : 0..MaxOpens]

ObjectsTypeOK == /\ handle \in [Handles -> ChannelObjects]
                 /\ \A h \in Handles : handle[h].alive <=> handle[h].opening # 0
                 /\ pools \subseteq Ids /\ reused \subseteq Ids

CallRecords == [kind : CallKinds, id : Ids, own : Replies \cup {"sent", "failed"},
                thrown : Exceptions \cup {"none"}, channel : Ids \cup {0}]

\* The type invariant of the calling half.  An object exists only for an opening
\* that succeeded: Channel's constructor lets the exception of a failed one out.
TypeOK == /\ BrokerTypeOK
          /\ ObjectsTypeOK
          /\ last \in Replies
          /\ call \in CallRecords
          /\ terminated \in BOOLEAN

\* A channel the broker has open belongs to the object that opened it, or was
\* moved it last, through every move, refused call, lost session and reopening of
\* its number: none is left open when its objects are gone.  Whoever else would
\* close the number is older, and lost its own channel to the broker.
OneCloserPerChannel ==
    \A id \in Ids : channel[id] # 0 =>
        \E h \in Closers :
           /\ handle[h].id = id /\ handle[h].opening = channel[id]
           /\ \A g \in Closers \ {h} :
                handle[g].id = id => handle[g].opening < channel[id]

\* The replies decoded for a channel do not stay in the library's pool while
\* the channel is in use, even if calls on it throw: a long-lived channel does
\* not gather memory.  That of a number opened twice may, as constructors that
\* fail and destructors leave theirs.
UsedChannelsHoldNoReplies ==
    \A h \in Closers : handle[h].id \in pools => handle[h].id \in reused

\* A destructor closes the channel of its own object.  Only where the program
\* opened a number it still had an object for may it be that of a later object,
\* and never that of an earlier one; an object moved from closes none.
DestructorsCloseNothingOlder ==
    [][\A h \in Handles, id \in Ids :
         Destroy(h) /\ channel'[id] # channel[id]
           => /\ h \in Closers
              /\ \/ channel[id] = handle[h].opening
                 \/ id \in reused /\ channel[id] > handle[h].opening]_vars

-----------------------------------------------------------------------------
(* What Channel promises *)

\* objects that will close the n-th opening, at the broker still there or not
OwnersOf(n) == {h \in Closers : handle[h].opening = n}

OpenOpenings == {channel[id] : id \in Ids} \ {0}

Promise == INSTANCE ChannelPromise
               WITH Objects <- Handles,
                    opened  <- opens,
                    owners  <- [n \in 1..MaxOpens |-> OwnersOf(n)],
                    open    <- OpenOpenings

\* Every opening of a channel has one object until a destructor closes it, in
\* spite of moves, failures and lost sessions: channels behave like values that
\* are passed on, though objects, the library and the broker only know numbers,
\* which are used again.
KeepsChannelPromise == Promise!Spec

-----------------------------------------------------------------------------
(* What the proofs are by induction on: two objects that will close a channel
   share a number only if the program opened it twice.  A destructor or an
   opening that fails leaves a decoded reply behind for its number. *)

DistinctNumbers == \A g, h \in Closers :
                       handle[g].id = handle[h].id => g = h \/ handle[h].id \in reused

\* a channel that is open at the broker is the opening of some such object
OpenChannelsHaveClosers ==
    \A id \in Ids : channel[id] # 0 =>
        \E h \in Closers : handle[h].id = id /\ handle[h].opening = channel[id]

\* An opening is that of one object, and none is later than the latest.
DistinctOpenings ==
    /\ \A g, h \in Closers : handle[g].opening = handle[h].opening => g = h
    /\ \A h \in Closers : handle[h].opening <= opens

\* objects do not outlive the connection
ObjectsNeedConnection == conn = "none" => Closers = {}

\* a number's open channel is its last opening that has an object
LastIsOpen == \A h \in Closers : channel[handle[h].id] # 0
                                    => handle[h].opening <= channel[handle[h].id]

OwnershipInv == /\ TypeOK
                /\ DistinctNumbers
                /\ OpenChannelsHaveClosers
                /\ UsedChannelsHoldNoReplies

PromiseInv == /\ OwnershipInv
              /\ DistinctOpenings /\ LastIsOpen /\ ObjectsNeedConnection

-----------------------------------------------------------------------------
(* What the documentation says and the code does not do *)

\* The docs of ack, nack and publish: they throw "for the executed RPC".  A call
\* the library has sent does not throw.
AsyncThrowsForItself ==
    call.kind \in AsyncCalls /\ call.own = "sent" => call.thrown = "none"
=============================================================================
