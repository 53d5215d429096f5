----------------------------- MODULE Lifetimes -----------------------------
(***************************************************************************)
(* How long what the broker sent stays readable.  The C library decodes    *)
(* every method frame into the memory pool of its channel and hands out    *)
(* pointers into the pool.  The classes decide when a pool is released:    *)
(* Channel::rpc releases the pool of its channel, Connection::rpc and      *)
(* consumeImpl release them all.  A released pool keeps its pages: what    *)
(* was in it can still be read until the next frame of the channel is      *)
(* decoded over it.                                                        *)
(*                                                                         *)
(* Replies are numbered in the order they are decoded.  Nested calls of    *)
(* consume from a callback are left out; the buffers of envelopes and      *)
(* messages are not in the pools (module Ownership).                       *)
(***************************************************************************)
EXTENDS Naturals, Sequences

CONSTANTS Ids,        \* the channel ids in use
          MaxReplies  \* bound of the model: the frames decoded

ASSUME LifetimesAssumption == MaxReplies \in Nat

VARIABLES
  home,      \* the channel of each reply decoded so far
  live,      \* the replies in the used part of their pool
  intact,    \* the replies no later one was decoded over
  queued,    \* those in frames the library read and put in its queue
  callback,  \* the basic.return a callback is called with, 0 if there is none
  called,    \* the channels whose pools this callback had released
  result     \* what the latest declare returned, 0 if nothing

program == <<callback, called, result>>
vars == <<home, live, intact, queued, program>>

Replies == 1 .. Len(home)
New == Len(home) + 1

Init == /\ home = <<>> /\ live = {} /\ intact = {} /\ queued = {}
        /\ callback = 0 /\ called = {} /\ result = 0

-----------------------------------------------------------------------------
(* The library *)

\* faulty: pools are released whatever is queued
ReleaseQueued(used, waiting, ids) == live' = {n \in used : home'[n] \notin ids}

\* The pool of a channel is left alone while one of its frames is queued.  (Nor
\* is it released while a frame is half received, which only keeps it longer.)
Kept(n, waiting) == \E q \in waiting : home'[q] = home'[n]
Release(used, waiting, ids) == live' = {n \in used : home'[n] \in ids => Kept(n, waiting)}

\* A new reply may overwrite any of those its channel has released.
Decode(id) ==
  /\ Len(home) < MaxReplies
  /\ home' = Append(home, id)
  /\ \E lost \in SUBSET {n \in intact \ live : home[n] = id} :
       intact' = (intact \ lost) \cup {New}

\* Within a call the library decodes and queues what arrives before, or instead
\* of, what the call waits for.
Arrive(id) == /\ Decode(id)
              /\ live' = live \cup {New}
              /\ queued' = queued \cup {New}
              /\ UNCHANGED program

\* The next method frame of consume: the first one queued, or a new one.
NextFrame(n, ids) ==
  \/ /\ n \in queued /\ \A q \in queued : n <= q
     /\ queued' = queued \ {n}
     /\ UNCHANGED <<home, intact>>
     /\ Release(live, queued', ids)
  \/ /\ queued = {} /\ n = New /\ UNCHANGED queued
     /\ \E id \in Ids : Decode(id)
     /\ Release(live \cup {n}, queued, ids)

-----------------------------------------------------------------------------
(* The classes *)

Calling(ids) == called' = IF callback = 0 THEN {} ELSE called \cup ids

\* faulty: a call on a channel releases the pools of all of them
CallReleasesAll(id) ==
  /\ Decode(id)
  /\ Release(live \cup {New}, queued, Ids)
  /\ Calling({id})
  /\ result' \in {result, New}
  /\ UNCHANGED <<queued, callback>>

\* Channel::rpc: the reply is decoded, processed and released; declare hands
\* the pointer out, everyone else reads what he needs from it at once.
Call(id) ==
  /\ Decode(id)
  /\ Release(live \cup {New}, queued, {id})
  /\ Calling({id})
  /\ result' \in {result, New}
  /\ UNCHANGED <<queued, callback>>

\* Channel::rpc of publish, ack and nack: there is no reply, but a release.
Publish(id) == /\ UNCHANGED <<home, intact, queued, callback, result>>
               /\ Release(live, queued, {id})
               /\ Calling({id})

\* Connection::rpc releases every pool, unless processReply throws.
ConnectionCall(id) ==
  /\ Decode(id)
  /\ \/ Release(live \cup {New}, queued, Ids) /\ Calling(Ids)
     \/ live' = live \cup {New} /\ UNCHANGED called
  /\ UNCHANGED <<queued, callback, result>>

\* consumeImpl with a basic.return: the callback is called before the release.
ConsumeReturn == /\ callback = 0
                 /\ \E n \in queued \cup {New} : NextFrame(n, {}) /\ callback' = n
                 /\ called' = {}
                 /\ UNCHANGED result

\* The callback returns and the guard of consumeImpl releases all pools.
CallbackEnds == /\ callback # 0 /\ callback' = 0 /\ called' = {}
                /\ UNCHANGED <<home, intact, queued, result>>
                /\ Release(live, queued, Ids)

\* consumeImpl with any other method: the acknowledgement is copied, the text of
\* a close rendered, or a FrameException thrown with the frame.
ConsumeOther == /\ callback = 0
                /\ \E n \in queued \cup {New} : NextFrame(n, Ids)
                /\ UNCHANGED <<callback, called, result>>

Next == \/ \E id \in Ids : Arrive(id) \/ Call(id) \/ Publish(id) \/ ConnectionCall(id)
        \/ ConsumeReturn \/ CallbackEnds \/ ConsumeOther

Spec == Init /\ [][Next]_vars

-----------------------------------------------------------------------------
(* What the pools keep *)

\* Everything in use is unharmed and every queued frame is in use: no release
\* ever takes a frame away the library has still to give out (the releases of
\* Connection.hpp:573, :640 and Channel.hpp:250).
TypeOK == /\ home \in Seq(Ids)
          /\ live \subseteq intact /\ intact \subseteq Replies
          /\ queued \subseteq live
          /\ callback \in Replies \cup {0} /\ called \subseteq Ids
          /\ result \in Replies \cup {0}

\* A callback that keeps off the channel the message was returned on, and off
\* Connection::rpc, can read the basic.return it was given to its end, whatever
\* it does on other channels and whatever arrives in the meantime.
MethodSurvivesOtherChannels ==
  callback # 0 /\ home[callback] \notin called => callback \in intact

-----------------------------------------------------------------------------
(* What the comments say and the code does not do *)

\* Queue.hpp:104 promises a "Result describing the created queue": it does so
\* until the next frame of the channel is decoded over it.
DeclareResultStays == result # 0 => result \in intact
=============================================================================
