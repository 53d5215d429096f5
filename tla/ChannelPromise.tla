--------------------------- MODULE ChannelPromise ---------------------------
(***************************************************************************)
(* What Channel promises: an opening of a channel has one object, which    *)
(* may pass it on and closes it with its destructor.  What else ends it is *)
(* the broker's or the connection's doing, or the destructor of an object  *)
(* that had lost an earlier one.  Numbers, replies, failures and releases  *)
(* are left out.  Openings are numbered in order, anew for each connection.*)
(***************************************************************************)
EXTENDS Naturals

CONSTANTS Objects,   \* objects a channel can belong to
          MaxOpens   \* bound: openings over the life of a connection

VARIABLES opened,   \* openings so far
          owners,   \* [1..MaxOpens -> who will close it: no object, or one]
          open      \* the openings the broker has

vars == <<opened, owners, open>>

Init == opened = 0 /\ owners = [n \in 1..MaxOpens |-> {}] /\ open = {}

\* o has nothing yet: what it had would be left open
Get(o) == /\ opened < MaxOpens
          /\ \A n \in 1..MaxOpens : o \notin owners[n]
          /\ opened' = opened + 1
          /\ owners' = [owners EXCEPT ![opened'] = {o}]
          /\ open' = open \cup {opened'}

Pass(o, p, n) == /\ owners[n] = {o} /\ o # p
                 /\ \A m \in 1..MaxOpens : p \notin owners[m]
                 /\ owners' = [owners EXCEPT ![n] = {p}]
                 /\ UNCHANGED <<opened, open>>

\* the destructor of the owner
Close(n) == /\ owners[n] # {}
            /\ owners' = [owners EXCEPT ![n] = {}]
            /\ open' = open \ {n}
            /\ UNCHANGED opened

\* the destructor of an owner whose opening is lost may close a later one
CloseLater(n, m) == /\ owners[n] # {} /\ n \notin open
                    /\ m > n /\ m \in open
                    /\ owners' = [owners EXCEPT ![n] = {}]
                    /\ open' = open \ {m}
                    /\ UNCHANGED opened

\* the broker closes channels, or the connection is lost, with objects left
Lose == /\ open' \subseteq open
        /\ UNCHANGED <<opened, owners>>

\* another connection, when all objects are gone
Restart == /\ \A n \in 1..MaxOpens : owners[n] = {}
           /\ open = {}
           /\ opened' = 0
           /\ UNCHANGED <<owners, open>>

Next == \/ Lose \/ Restart
        \/ \E o \in Objects : Get(o)
        \/ \E n \in 1..MaxOpens : Close(n) \/ \E o, p \in Objects : Pass(o, p, n)
        \/ \E n, m \in 1..MaxOpens : CloseLater(n, m)

Spec == Init /\ [][Next]_vars
=============================================================================
