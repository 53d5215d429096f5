-------------------------- MODULE LifetimesProofs --------------------------
(***************************************************************************)
(* Proofs about Lifetimes, for any set of channels and any number of       *)
(* replies: no release takes a queued frame away, and a basic.return       *)
(* stays readable for a callback that keeps off its channel.               *)
(***************************************************************************)
EXTENDS Lifetimes, TLAPS

USE LifetimesAssumption

-----------------------------------------------------------------------------
(* The pools *)

\* One more reply keeps the channel of every earlier one.
LEMMA HomeOfReplies ==
  ASSUME TypeOK, NEW id \in Ids, home' = Append(home, id)
  PROVE  /\ home' \in Seq(Ids)
         /\ Replies' = Replies \cup {New} /\ New \notin Replies /\ New # 0
         /\ \A n \in Replies : home'[n] = home[n]
         /\ home'[New] = id
BY DEF TypeOK, Replies, New

\* What a decoded reply leaves unharmed: everything in use, and itself.
LEMMA DecodeKeepsLive ==
  ASSUME TypeOK, NEW id \in Ids, Decode(id)
  PROVE  /\ home' = Append(home, id)
         /\ live \cup {New} \subseteq intact'
         /\ intact' \subseteq Replies'
<1>1. home' = Append(home, id)
  BY DEF Decode
<1>2. Replies' = Replies \cup {New}
  BY <1>1, HomeOfReplies
<1>3. PICK lost \in SUBSET {n \in intact \ live : home[n] = id} :
        intact' = (intact \ lost) \cup {New}
  BY DEF Decode
<1>4. live \subseteq intact /\ intact \subseteq Replies
  BY DEF TypeOK
<1> QED BY <1>1, <1>2, <1>3, <1>4

\* A release takes nothing away that is queued, nothing of another channel,
\* and adds nothing.
LEMMA ReleaseKeepsQueued ==
  ASSUME NEW used, NEW waiting \in SUBSET used, NEW ids, Release(used, waiting, ids)
  PROVE  /\ waiting \subseteq live' /\ live' \subseteq used
         /\ \A n \in used : home'[n] \notin ids => n \in live'
BY DEF Release, Kept

\* What all the actions do to the pools: everything alive or new stays
\* unharmed, and the channels are those of before.
PoolStep(ids) ==
  /\ home' \in Seq(Ids) /\ Replies \subseteq Replies'
  /\ \A n \in Replies : home'[n] = home[n]
  /\ live' \subseteq intact' /\ intact' \subseteq Replies'
  /\ queued' \subseteq live'
  /\ \A n \in live : home[n] \notin ids => n \in live'

\* A call that decodes a reply and then releases the pools of ids.
LEMMA ReplyStep ==
  ASSUME TypeOK, NEW id \in Ids, NEW ids, Decode(id), UNCHANGED queued,
         Release(live \cup {New}, queued, ids)
  PROVE  PoolStep(ids) /\ New \in Replies'
<1>1. home' = Append(home, id) /\ live \cup {New} \subseteq intact'
      /\ intact' \subseteq Replies'
  BY DecodeKeepsLive
<1>2. queued \subseteq live /\ live \subseteq Replies
  BY DEF TypeOK
<1>3. /\ queued \subseteq live' /\ live' \subseteq live \cup {New}
      /\ \A n \in live \cup {New} : home'[n] \notin ids => n \in live'
  BY <1>2, ReleaseKeepsQueued
<1> QED BY <1>1, <1>2, <1>3, HomeOfReplies DEF PoolStep

\* A release of the pools without a new reply, some of the frames that were
\* queued having been taken.
LEMMA ReleaseStep ==
  ASSUME TypeOK, NEW ids, UNCHANGED <<home, intact>>, queued' \subseteq queued,
         Release(live, queued', ids)
  PROVE  PoolStep(ids)
<1>1. queued' \subseteq live /\ live \subseteq intact /\ intact \subseteq Replies
      /\ home \in Seq(Ids)
  BY DEF TypeOK
<1>2. /\ queued' \subseteq live' /\ live' \subseteq live
      /\ \A n \in live : home'[n] \notin ids => n \in live'
  BY <1>1, ReleaseKeepsQueued
<1> QED BY <1>1, <1>2 DEF PoolStep, Replies

\* The next frame of consume, taken from the queue or decoded.
LEMMA FrameStep ==
  ASSUME TypeOK, NEW ids, NEW n, NextFrame(n, ids)
  PROVE  PoolStep(ids) /\ n \in Replies' /\ n # 0 /\ (ids = {} => n \in live')
<1>1. CASE n \in queued /\ queued' = queued \ {n} /\ UNCHANGED <<home, intact>>
           /\ Release(live, queued', ids)
  <2>1. PoolStep(ids)
    BY <1>1, ReleaseStep
  <2>2. n \in live /\ n \in Replies /\ n # 0
    BY <1>1 DEF TypeOK, Replies
  <2> QED BY <2>1, <2>2 DEF PoolStep
<1>2. ASSUME NEW id \in Ids, n = New, UNCHANGED queued, Decode(id),
             Release(live \cup {n}, queued, ids)
      PROVE  PoolStep(ids) /\ n \in Replies' /\ n # 0 /\ (ids = {} => n \in live')
  <2>1. PoolStep(ids) /\ n \in Replies'
    BY <1>2, ReplyStep
  <2>2. n # 0
    BY <1>2 DEF New, TypeOK
  <2>3. ids = {} => n \in live'
    BY <1>2 DEF Release
  <2> QED BY <2>1, <2>2, <2>3
<1> QED BY <1>1, <1>2 DEF NextFrame

-----------------------------------------------------------------------------
(* The invariant *)

\* The basic.return of a callback is still in use unless the callback had its
\* channel released: the reason for which it is readable.
CallbackInUse == callback # 0 => callback \in Replies /\ (home[callback] \notin called
                                                           => callback \in live)

IInv == TypeOK /\ CallbackInUse

\* A step that leaves a callback in place, and tells which channels it had
\* released, keeps its basic.return.
LEMMA CallbackStep ==
  ASSUME IInv, NEW ids, PoolStep(ids), UNCHANGED callback,
         callback # 0 => called \subseteq called' /\ ids \subseteq called'
  PROVE  CallbackInUse'
<1> SUFFICES ASSUME callback # 0
             PROVE  /\ callback \in Replies'
                    /\ home'[callback] \notin called' => callback \in live'
  BY DEF CallbackInUse
<1> QED BY DEF IInv, CallbackInUse, PoolStep

\* The pools are well formed and the method of a running callback is in use,
\* through every call, release and arrival.
LEMMA InvariantStep == IInv /\ [Next]_vars => IInv'
<1> SUFFICES ASSUME IInv, [Next]_vars PROVE IInv'
  OBVIOUS
<1>t. TypeOK
  BY DEF IInv
<1> USE DEF program
<1>1. ASSUME NEW id \in Ids, Arrive(id) PROVE IInv'
  <2>1. Decode(id) /\ UNCHANGED program
    BY <1>1 DEF Arrive
  <2>2. home' = Append(home, id) /\ live \cup {New} \subseteq intact'
      /\ intact' \subseteq Replies'
    BY <1>t, <2>1, DecodeKeepsLive
  <2>3. PoolStep({})
    BY <1>t, <1>1, <2>2, HomeOfReplies DEF Arrive, PoolStep, TypeOK
  <2>4. TypeOK'
    BY <1>t, <2>1, <2>3 DEF TypeOK, PoolStep
  <2> QED BY <2>1, <2>3, <2>4, CallbackStep DEF IInv
<1>2. ASSUME NEW id \in Ids, Call(id) PROVE IInv'
  <2>1. PoolStep({id}) /\ New \in Replies'
    BY <1>t, <1>2, ReplyStep DEF Call
  <2>2. TypeOK'
    BY <1>t, <1>2, <2>1 DEF TypeOK, PoolStep, Call, Calling
  <2>3. CallbackInUse'
    BY <1>2, <2>1, CallbackStep DEF Call, Calling
  <2> QED BY <2>2, <2>3 DEF IInv
<1>3. ASSUME NEW id \in Ids, Publish(id) PROVE IInv'
  <2>1. PoolStep({id})
    BY <1>t, <1>3, ReleaseStep DEF Publish
  <2>2. TypeOK'
    BY <1>t, <1>3, <2>1 DEF TypeOK, PoolStep, Publish, Calling
  <2>3. CallbackInUse'
    BY <1>3, <2>1, CallbackStep DEF Publish, Calling
  <2> QED BY <2>2, <2>3 DEF IInv
<1>4. ASSUME NEW id \in Ids, ConnectionCall(id) PROVE IInv'
  <2>1. CASE Release(live \cup {New}, queued, Ids) /\ Calling(Ids)
    <3>1. PoolStep(Ids)
      BY <1>t, <1>4, <2>1, ReplyStep DEF ConnectionCall
    <3>2. TypeOK'
      BY <1>t, <1>4, <2>1, <3>1 DEF TypeOK, PoolStep, ConnectionCall, Calling
    <3>3. CallbackInUse'
      BY <1>4, <2>1, <3>1, CallbackStep DEF ConnectionCall, Calling
    <3> QED BY <3>2, <3>3 DEF IInv
  <2>2. CASE live' = live \cup {New} /\ UNCHANGED called
    <3>1. Decode(id) /\ UNCHANGED <<queued, program>>
      BY <1>4, <2>2 DEF ConnectionCall
    <3>2. home' = Append(home, id) /\ live \cup {New} \subseteq intact'
          /\ intact' \subseteq Replies'
      BY <1>t, <3>1, DecodeKeepsLive
    <3>3. PoolStep({})
      BY <1>t, <2>2, <3>1, <3>2, HomeOfReplies DEF PoolStep, TypeOK
    <3>4. TypeOK'
      BY <1>t, <3>1, <3>3 DEF TypeOK, PoolStep
    <3> QED BY <3>1, <3>3, <3>4, CallbackStep DEF IInv
  <2> QED BY <1>4, <2>1, <2>2 DEF ConnectionCall
<1>5. CASE ConsumeReturn
  <2>1. PICK n \in queued \cup {New} : NextFrame(n, {}) /\ callback' = n
    BY <1>5 DEF ConsumeReturn
  <2>2. PoolStep({}) /\ n \in Replies' /\ n # 0 /\ n \in live'
    BY <1>t, <2>1, FrameStep
  <2>3. TypeOK'
    BY <1>t, <1>5, <2>1, <2>2 DEF TypeOK, PoolStep, ConsumeReturn
  <2> QED BY <2>1, <2>2, <2>3 DEF IInv, CallbackInUse
<1>6. CASE CallbackEnds
  <2>1. PoolStep(Ids)
    BY <1>t, <1>6, ReleaseStep DEF CallbackEnds
  <2>2. TypeOK'
    BY <1>t, <1>6, <2>1 DEF TypeOK, PoolStep, CallbackEnds
  <2> QED BY <1>6, <2>2 DEF IInv, CallbackInUse, CallbackEnds
<1>7. CASE ConsumeOther
  <2>1. PICK n \in queued \cup {New} : NextFrame(n, Ids)
    BY <1>7 DEF ConsumeOther
  <2>2. PoolStep(Ids) /\ n \in Replies'
    BY <1>t, <2>1, FrameStep
  <2>3. TypeOK'
    BY <1>t, <1>7, <2>1, <2>2 DEF TypeOK, PoolStep, ConsumeOther
  <2> QED BY <1>7, <2>3 DEF IInv, CallbackInUse, ConsumeOther
<1>8. CASE UNCHANGED vars
  BY <1>8 DEF vars, IInv, TypeOK, CallbackInUse, Replies
<1> QED BY <1>1, <1>2, <1>3, <1>4, <1>5, <1>6, <1>7, <1>8 DEF Next

\* The invariant holds in every state.
LEMMA InvariantHolds == Spec => []IInv
<1>1. Init => IInv
  BY DEF Init, IInv, TypeOK, CallbackInUse, Replies
<1> QED BY <1>1, InvariantStep, PTL DEF Spec

-----------------------------------------------------------------------------
(* The theorems *)

\* No release of Channel::rpc, Connection::rpc or consumeImpl takes a frame away
\* that the library has still to give out.
THEOREM TypeCorrect == Spec => []TypeOK
BY InvariantHolds, PTL DEF IInv

\* A callback that keeps off the channel of the message it was given reads its
\* basic.return unharmed, whatever it does elsewhere.
THEOREM MethodStaysReadable == Spec => []MethodSurvivesOtherChannels
<1>1. IInv => MethodSurvivesOtherChannels
  BY DEF IInv, TypeOK, CallbackInUse, MethodSurvivesOtherChannels
<1> QED BY <1>1, InvariantHolds, PTL
=============================================================================
