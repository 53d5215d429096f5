-------------------------- MODULE FieldTableProofs --------------------------
(***************************************************************************)
(* Proofs about FieldTable, for any strings, entries and tables and any    *)
(* number of blocks: who has to free a block, and what a table points to.  *)
(***************************************************************************)
EXTENDS FieldTable, TLAPS

USE FieldTableAssumption

-----------------------------------------------------------------------------
(* Who holds a block *)

\* The objects that have a block of their own, and which.
Holders == ({"source"} \X Sources) \cup ({"key"} \X Entries) \cup ({"cache"} \X Tables)
Block == [h \in Holders |-> IF h[1] = "source" THEN source[h[2]]
                            ELSE IF h[1] = "key" THEN key[h[2]] ELSE cache[h[2]]]

FieldsOK == /\ source \in [Sources -> Numbers] /\ key \in [Entries -> Numbers]
            /\ cache \in [Tables -> Numbers]

\* Every block of L, of the n made so far, belongs to one object.
Owned(B, L, n) == /\ n \in Numbers /\ L \subseteq 1..n
                  /\ \A h \in Holders : B[h] \in L \cup {0}
                  /\ \A b \in L : \E h \in Holders : B[h] = b
                  /\ \A g, h \in Holders : B[g] = B[h] /\ B[g] # 0 => g = h

OwnInv == Owned(Block, live, made)

\* The block of each kind of object.
LEMMA BlockOfHolder ==
  /\ \A s \in Sources : <<"source", s>> \in Holders /\ Block[<<"source", s>>] = source[s]
  /\ \A e \in Entries : <<"key", e>> \in Holders /\ Block[<<"key", e>>] = key[e]
  /\ \A t \in Tables : <<"cache", t>> \in Holders /\ Block[<<"cache", t>>] = cache[t]
<1>1. \A s \in Sources : <<"source", s>> \in Holders /\ Block[<<"source", s>>] = source[s]
  BY DEF Holders, Block
<1>2. \A e \in Entries : <<"key", e>> \in Holders /\ Block[<<"key", e>>] = key[e]
  BY DEF Holders, Block
<1>3. \A t \in Tables : <<"cache", t>> \in Holders /\ Block[<<"cache", t>>] = cache[t]
  BY DEF Holders, Block
<1> QED BY <1>1, <1>2, <1>3

\* An assignment to one variable changes the block of one object.
LEMMA SourceSet ==
  ASSUME FieldsOK, NEW s \in Sources, NEW b, source' = [source EXCEPT ![s] = b],
         UNCHANGED <<key, cache>>
  PROVE  \A g \in Holders : Block'[g] = IF g = <<"source", s>> THEN b ELSE Block[g]
BY DEF FieldsOK, Holders, Block

LEMMA KeySet ==
  ASSUME FieldsOK, NEW e \in Entries, NEW b, key' = [key EXCEPT ![e] = b],
         UNCHANGED <<source, cache>>
  PROVE  \A g \in Holders : Block'[g] = IF g = <<"key", e>> THEN b ELSE Block[g]
BY DEF FieldsOK, Holders, Block

LEMMA CacheSet ==
  ASSUME FieldsOK, NEW t \in Tables, NEW b, cache' = [cache EXCEPT ![t] = b],
         UNCHANGED <<source, key>>
  PROVE  \A g \in Holders : Block'[g] = IF g = <<"cache", t>> THEN b ELSE Block[g]
BY DEF FieldsOK, Holders, Block

\* A move takes the block from one object to another.
LEMMA KeyPassed ==
  ASSUME FieldsOK, NEW e \in Entries, NEW f \in Entries, e # f,
         key' = [key EXCEPT ![f] = 0, ![e] = key[f]], UNCHANGED <<source, cache>>
  PROVE  \A g \in Holders : Block'[g] = IF g = <<"key", e>> THEN Block[<<"key", f>>] ELSE
                                        IF g = <<"key", f>> THEN 0 ELSE Block[g]
BY DEF FieldsOK, Holders, Block

LEMMA CachePassed ==
  ASSUME FieldsOK, NEW t \in Tables, NEW u \in Tables, t # u,
         cache' = [cache EXCEPT ![u] = 0, ![t] = cache[u]], UNCHANGED <<source, key>>
  PROVE  \A g \in Holders : Block'[g] = IF g = <<"cache", t>> THEN Block[<<"cache", u>>] ELSE
                                        IF g = <<"cache", u>> THEN 0 ELSE Block[g]
BY DEF FieldsOK, Holders, Block

\* An object gets a new block, of a higher number, in place of the one it had.
LEMMA ReplaceOwned ==
  ASSUME NEW B, NEW C, NEW L, NEW n, Owned(B, L, n), NEW m \in Numbers, n < m, NEW h \in Holders,
         \A g \in Holders : C[g] = IF g = h THEN m ELSE B[g]
  PROVE  Owned(C, (L \ {B[h]}) \cup {m}, m)
<1> DEFINE M == (L \ {B[h]}) \cup {m}
<1>1. M \subseteq 1..m /\ m \notin L /\ m # 0
  <2>1. n \in 0..MaxBlocks /\ MaxBlocks \in Nat /\ L \subseteq 1..n
    BY DEF Owned, Numbers, FieldTableAssumption
  <2>2. m \notin L /\ m # 0
    BY <2>1 DEF Numbers
  <2>3. L \subseteq 1..m /\ m \in 1..m
    BY <2>1 DEF Numbers
  <2>4. M \subseteq 1..m
    BY <2>3
  <2> QED BY <2>2, <2>4
<1>2. \A g \in Holders : C[g] \in M \cup {0}
  BY DEF Owned
<1>3. \A b \in M : \E g \in Holders : C[g] = b
  <2> SUFFICES ASSUME NEW b \in M PROVE \E g \in Holders : C[g] = b
    OBVIOUS
  <2>1. CASE b = m
    BY <2>1
  <2>2. CASE b # m
    <3>1. PICK g \in Holders : B[g] = b
      BY <2>2 DEF Owned
    <3> QED BY <2>2, <3>1
  <2> QED BY <2>1, <2>2
<1>4. \A f, g \in Holders : C[f] = C[g] /\ C[f] # 0 => f = g
  BY <1>1 DEF Owned
<1> QED BY <1>1, <1>2, <1>3, <1>4 DEF Owned

\* An object gives its block up.
LEMMA DropOwned ==
  ASSUME NEW B, NEW C, NEW L, NEW n, Owned(B, L, n), NEW h \in Holders,
         \A g \in Holders : C[g] = IF g = h THEN 0 ELSE B[g]
  PROVE  Owned(C, L \ {B[h]}, n)
<1>1. \A g \in Holders : C[g] \in (L \ {B[h]}) \cup {0}
  BY DEF Owned
<1>2. \A b \in L \ {B[h]} : \E g \in Holders : C[g] = b
  <2> SUFFICES ASSUME NEW b \in L \ {B[h]} PROVE \E g \in Holders : C[g] = b
    OBVIOUS
  <2>1. PICK g \in Holders : B[g] = b
    BY DEF Owned
  <2> QED BY <2>1
<1> QED BY <1>1, <1>2 DEF Owned

\* An object gives its block up and takes that of another.
LEMMA PassOwned ==
  ASSUME NEW B, NEW C, NEW L, NEW n, Owned(B, L, n),
         NEW h \in Holders, NEW g \in Holders, g # h,
         \A o \in Holders : C[o] = IF o = h THEN B[g] ELSE IF o = g THEN 0 ELSE B[o]
  PROVE  Owned(C, L \ {B[h]}, n)
<1>1. \A o \in Holders : C[o] \in (L \ {B[h]}) \cup {0}
  BY DEF Owned
<1>2. \A b \in L \ {B[h]} : \E o \in Holders : C[o] = b
  <2> SUFFICES ASSUME NEW b \in L \ {B[h]} PROVE \E o \in Holders : C[o] = b
    OBVIOUS
  <2>1. PICK o \in Holders : B[o] = b
    BY DEF Owned
  <2>2. 0 \notin L
    BY DEF Owned
  <2> QED BY <2>1, <2>2
<1>3. ASSUME NEW a \in Holders, NEW b \in Holders, C[a] = C[b], C[a] # 0 PROVE a = b
  <2>1. a # g /\ b # g
    BY <1>3
  <2>2. B[IF a = h THEN g ELSE a] = B[IF b = h THEN g ELSE b]
    BY <1>3, <2>1
  <2>3. B[IF a = h THEN g ELSE a] # 0
    BY <1>3, <2>1
  <2>4. (IF a = h THEN g ELSE a) = (IF b = h THEN g ELSE b)
    BY <2>2, <2>3 DEF Owned
  <2> QED BY <2>1, <2>4
<1>4. L \ {B[h]} \subseteq 1..n /\ n \in Numbers
  BY DEF Owned
<1> QED BY <1>1, <1>2, <1>3, <1>4 DEF Owned

-----------------------------------------------------------------------------
(* The invariant *)

Shape == /\ short \subseteq Entries /\ tables \subseteq Tables /\ moved \subseteq Tables
         /\ array \in [Tables -> Numbers]
         /\ reach \in [Numbers -> SUBSET (1..made)]
         /\ value \in [Entries -> SUBSET (1..made)]
         /\ parts \in [Tables -> SUBSET (1..made)]

\* A table points to its own block, and from there to what it was made from.
TableInv == /\ reach[0] = {}
            /\ \A t \in Tables \ tables : cache[t] = 0
            /\ \A t \in tables : reach[cache[t]] \subseteq parts[t] \cup {cache[t]}
            /\ \A t \in tables \ moved : array[t] = cache[t]

IInv == FieldsOK /\ OwnInv /\ Shape /\ TableInv

\* Blocks of objects are among those made.
LEMMA BlocksAreMade ==
  ASSUME IInv
  PROVE  /\ made \in Nat /\ made <= MaxBlocks /\ live \subseteq 1..made
         /\ \A s \in Sources : source[s] \in live \cup {0}
         /\ \A e \in Entries : key[e] \in live \cup {0}
         /\ \A t \in Tables : cache[t] \in live \cup {0}
<1>1. Owned(Block, live, made)
  BY DEF IInv, OwnInv
<1>2. made \in Nat /\ made <= MaxBlocks /\ live \subseteq 1..made
  BY <1>1 DEF Owned, Numbers, FieldTableAssumption
<1>3. \A h \in Holders : Block[h] \in live \cup {0}
  BY <1>1 DEF Owned
<1> QED BY <1>2, <1>3, BlockOfHolder

\* What a constructor of FieldValue points to was made before.
LEMMA ValuesAreMade ==
  ASSUME IInv, NEW v \in Values
  PROVE  v \subseteq 1..made
<1>1. \A b \in Numbers : reach[b] \subseteq 1..made
  BY DEF IInv, Shape
<1>2. \A s \in Sources : source[s] \in Numbers
  BY DEF IInv, FieldsOK
<1>3. \A t \in tables : array[t] \in Numbers
  BY DEF IInv, Shape
<1>4. \A e \in Entries : value[e] \subseteq 1..made
  BY DEF IInv, Shape
<1> QED BY <1>1, <1>2, <1>3, <1>4 DEF Values

\* A new block leaves what the others point to.
LEMMA ReplaceReach ==
  ASSUME IInv, NEW old, NEW others, Replace(old, others), others \subseteq 1..made
  PROVE  /\ made' = made + 1 /\ made' \in Numbers /\ made < made'
         /\ live' = (live \ {old}) \cup {made'}
         /\ 1..made \subseteq 1..made'
         /\ reach' \in [Numbers -> SUBSET (1..made')]
         /\ \A b \in 0..made : reach'[b] = reach[b]
         /\ reach'[made'] = {made'} \cup others
<1>1. made \in Nat /\ made <= MaxBlocks /\ MaxBlocks \in Nat
  BY BlocksAreMade DEF FieldTableAssumption
<1>2. made' = made + 1 /\ made' \in Numbers /\ made < made'
      /\ live' = (live \ {old}) \cup {made'}
  BY <1>1 DEF Replace, Numbers
<1>3. 1..made \subseteq 1..made' /\ made' \in 1..made' /\ {made'} \cup others \subseteq 1..made'
  BY <1>1, <1>2
<1>4. reach \in [Numbers -> SUBSET (1..made)]
      /\ reach' = [reach EXCEPT ![made'] = {made'} \cup others]
  BY DEF IInv, Shape, Replace
<1>5. reach \in [Numbers -> SUBSET (1..made')]
  BY <1>3, <1>4
<1>6. reach' \in [Numbers -> SUBSET (1..made')] /\ reach'[made'] = {made'} \cup others
  BY <1>2, <1>3, <1>4, <1>5
<1>7. \A b \in 0..made : reach'[b] = reach[b]
  BY <1>1, <1>2, <1>4 DEF Numbers
<1> QED BY <1>2, <1>3, <1>6, <1>7

\* Tables are what they were when only strings and entries change.
LEMMA TablesKept ==
  ASSUME IInv, UNCHANGED <<tables, cache, array, parts, moved>>,
         \A b \in 0..made : reach'[b] = reach[b]
  PROVE  TableInv'
<1>1. 0 \in 0..made /\ \A t \in Tables : cache[t] \in 0..made
  BY BlocksAreMade
<1>2. tables \subseteq Tables
  BY DEF IInv, Shape
<1> QED BY <1>1, <1>2 DEF IInv, TableInv

-----------------------------------------------------------------------------
(* Strings and entries *)

LEMMA SourceSteps ==
  ASSUME IInv, NEW s \in Sources
  PROVE  /\ DestroySource(s) => IInv'
         /\ \A v \in Values : MakeSource(s, v) => IInv'
<1> USE DEF contents, entries
<1>h. <<"source", s>> \in Holders /\ Block[<<"source", s>>] = source[s]
  BY BlockOfHolder
<1>f. source \in [Sources -> Numbers] /\ FieldsOK
  BY DEF IInv, FieldsOK
<1>1. ASSUME DestroySource(s) PROVE IInv'
  <2>1. \A g \in Holders : Block'[g] = IF g = <<"source", s>> THEN 0 ELSE Block[g]
    BY <1>1, <1>f, SourceSet DEF DestroySource
  <2>2. OwnInv'
    BY <1>1, <1>h, <2>1, DropOwned DEF DestroySource, Drop, OwnInv, IInv
  <2>3. FieldsOK' /\ Shape'
    BY <1>1, <1>f DEF DestroySource, Drop, IInv, FieldsOK, Shape, Numbers
  <2>4. TableInv'
    BY <1>1, TablesKept DEF DestroySource, Drop
  <2> QED BY <2>2, <2>3, <2>4 DEF IInv
<1>2. ASSUME NEW v \in Values, MakeSource(s, v) PROVE IInv'
  <2>0. v \subseteq 1..made
    BY ValuesAreMade
  <2>1. \A g \in Holders : Block'[g] = IF g = <<"source", s>> THEN made' ELSE Block[g]
    BY <1>2, <1>f, SourceSet DEF MakeSource
  <2>2. /\ made' \in Numbers /\ made < made' /\ live' = (live \ {source[s]}) \cup {made'}
        /\ 1..made \subseteq 1..made'
        /\ reach' \in [Numbers -> SUBSET (1..made')]
        /\ \A b \in 0..made : reach'[b] = reach[b]
    BY <1>2, <2>0, ReplaceReach DEF MakeSource
  <2>3. OwnInv'
    BY <1>h, <2>1, <2>2, ReplaceOwned DEF OwnInv, IInv
  <2>4. FieldsOK' /\ Shape'
    BY <1>2, <1>f, <2>2 DEF MakeSource, IInv, FieldsOK, Shape
  <2>5. TableInv'
    BY <1>2, <2>2, TablesKept DEF MakeSource
  <2> QED BY <2>3, <2>4, <2>5 DEF IInv
<1> QED BY <1>1, <1>2

LEMMA EntrySteps ==
  ASSUME IInv, NEW e \in Entries
  PROVE  /\ DestroyEntry(e) => IInv'
         /\ \A isShort \in BOOLEAN, v \in Values : MakeEntry(e, isShort, v) => IInv'
         /\ \A isShort \in BOOLEAN : MakeEntryFromChars(e, isShort) => IInv'
<1> USE DEF contents
<1>h. <<"key", e>> \in Holders /\ Block[<<"key", e>>] = key[e]
  BY BlockOfHolder
<1>f. key \in [Entries -> Numbers] /\ FieldsOK
  BY DEF IInv, FieldsOK
<1>1. ASSUME DestroyEntry(e) PROVE IInv'
  <2>1. \A g \in Holders : Block'[g] = IF g = <<"key", e>> THEN 0 ELSE Block[g]
    BY <1>1, <1>f, KeySet DEF DestroyEntry
  <2>2. OwnInv'
    BY <1>1, <1>h, <2>1, DropOwned DEF DestroyEntry, Drop, OwnInv, IInv
  <2>3. FieldsOK' /\ Shape'
    BY <1>1, <1>f DEF DestroyEntry, Drop, IInv, FieldsOK, Shape, Numbers
  <2>4. TableInv'
    BY <1>1, TablesKept DEF DestroyEntry, Drop
  <2> QED BY <2>2, <2>3, <2>4 DEF IInv
<1>2. ASSUME NEW isShort \in BOOLEAN, NEW v \in Values, MakeEntry(e, isShort, v) PROVE IInv'
  <2>0. v \subseteq 1..made
    BY ValuesAreMade
  <2>1. \A g \in Holders : Block'[g] = IF g = <<"key", e>> THEN made' ELSE Block[g]
    BY <1>2, <1>f, KeySet DEF MakeEntry
  <2>2. /\ made' \in Numbers /\ made < made' /\ live' = (live \ {0}) \cup {made'}
        /\ 1..made \subseteq 1..made'
        /\ reach' \in [Numbers -> SUBSET (1..made')]
        /\ \A b \in 0..made : reach'[b] = reach[b]
    BY <1>2, ReplaceReach DEF MakeEntry
  <2>3. OwnInv'
    BY <1>2, <1>h, <2>1, <2>2, ReplaceOwned DEF MakeEntry, OwnInv, IInv
  <2>4. FieldsOK' /\ Shape'
    BY <1>2, <1>f, <2>0, <2>2 DEF MakeEntry, IInv, FieldsOK, Shape
  <2>5. TableInv'
    BY <1>2, <2>2, TablesKept DEF MakeEntry
  <2> QED BY <2>3, <2>4, <2>5 DEF IInv
<1>3. ASSUME NEW isShort \in BOOLEAN, MakeEntryFromChars(e, isShort) PROVE IInv'
  <2>0. made \in Nat /\ MaxBlocks \in Nat /\ live \subseteq 1..made
    BY BlocksAreMade DEF FieldTableAssumption
  <2>1. \A g \in Holders : Block'[g] = IF g = <<"key", e>> THEN made' ELSE Block[g]
    BY <1>3, <1>f, KeySet DEF MakeEntryFromChars
  <2>2. /\ made' = made + 2 /\ made' \in Numbers /\ made < made'
        /\ 1..made \subseteq 1..made' /\ {made + 1, made + 2} \subseteq 1..made'
    BY <1>3, <2>0 DEF MakeEntryFromChars, Numbers
  <2>3. live' = (live \ {0}) \cup {made'}
    BY <1>3, <2>0, <2>2 DEF MakeEntryFromChars
  <2>4. OwnInv'
    BY <1>3, <1>h, <2>1, <2>2, <2>3, ReplaceOwned DEF MakeEntryFromChars, OwnInv, IInv
  <2>5. /\ reach' \in [Numbers -> SUBSET (1..made')]
        /\ \A b \in 0..made : reach'[b] = reach[b]
    <3>1. reach \in [Numbers -> SUBSET (1..made')]
      BY <2>2 DEF IInv, Shape
    <3>2. reach' = [reach EXCEPT ![made + 1] = {made + 1}, ![made + 2] = {made + 2}]
      BY <1>3 DEF MakeEntryFromChars
    <3>3. reach' \in [Numbers -> SUBSET (1..made')]
      BY <2>2, <3>1, <3>2
    <3>4. \A b \in 0..made : b \in Numbers /\ b # made + 1 /\ b # made + 2
      BY <1>3, <2>0 DEF MakeEntryFromChars, Numbers
    <3> QED BY <3>1, <3>2, <3>3, <3>4
  <2>6. FieldsOK' /\ Shape'
    BY <1>3, <1>f, <2>2, <2>5 DEF MakeEntryFromChars, IInv, FieldsOK, Shape
  <2>7. TableInv'
    BY <1>3, <2>5, TablesKept DEF MakeEntryFromChars
  <2> QED BY <2>4, <2>6, <2>7 DEF IInv
<1> QED BY <1>1, <1>2, <1>3

\* A move passes a long key on and makes a new block for a short one.
LEMMA MoveEntryStep ==
  ASSUME IInv, NEW e \in Entries, NEW f \in Entries, MoveEntry(e, f)
  PROVE  IInv'
<1> USE DEF contents
<1>h. /\ <<"key", e>> \in Holders /\ Block[<<"key", e>>] = key[e]
      /\ <<"key", f>> \in Holders /\ Block[<<"key", f>>] = key[f]
      /\ <<"key", e>> # <<"key", f>>
  BY BlockOfHolder DEF MoveEntry
<1>f. key \in [Entries -> Numbers] /\ FieldsOK /\ e # f /\ key[f] = 0
      /\ UNCHANGED <<source, cache>> /\ value \in [Entries -> SUBSET (1..made)]
  BY DEF IInv, FieldsOK, Shape, MoveEntry
<1>1. CASE e \in short
  <2>1. Replace(key[e], {}) /\ key' = [key EXCEPT ![e] = 0, ![f] = made']
    BY <1>1 DEF MoveEntry
  <2>2. /\ made' \in Numbers /\ made < made' /\ live' = (live \ {key[e]}) \cup {made'}
        /\ 1..made \subseteq 1..made'
        /\ reach' \in [Numbers -> SUBSET (1..made')]
        /\ \A b \in 0..made : reach'[b] = reach[b]
    BY <2>1, ReplaceReach
  <2> DEFINE between == [h \in Holders |-> IF h = <<"key", e>> THEN 0 ELSE Block[h]]
  <2>3. Owned(between, live \ {key[e]}, made)
    <3>1. \A h \in Holders : between[h] = IF h = <<"key", e>> THEN 0 ELSE Block[h]
      OBVIOUS
    <3> HIDE DEF between
    <3> QED BY <1>h, <3>1, DropOwned DEF IInv, OwnInv
  <2>4. \A h \in Holders : Block'[h] = IF h = <<"key", f>> THEN made' ELSE between[h]
    BY <1>f, <2>1 DEF Block, Holders
  <2>5. between[<<"key", f>>] = 0
    BY <1>h, <1>f
  <2>6. OwnInv'
    <3>1. 0 \notin live
      BY BlocksAreMade
    <3>2. ((live \ {key[e]}) \ {0}) \cup {made'} = live'
      BY <2>2, <3>1
    <3> HIDE DEF between
    <3>3. Owned(Block', ((live \ {key[e]}) \ {between[<<"key", f>>]}) \cup {made'}, made')
      BY <1>h, <2>2, <2>3, <2>4, ReplaceOwned
    <3> QED BY <2>5, <3>2, <3>3 DEF OwnInv
  <2>7. FieldsOK' /\ Shape'
    BY <1>f, <2>1, <2>2 DEF MoveEntry, IInv, FieldsOK, Shape, Numbers
  <2>8. TableInv'
    BY <2>2, TablesKept DEF MoveEntry
  <2> QED BY <2>6, <2>7, <2>8 DEF IInv
<1>2. CASE e \notin short
  <2>1. UNCHANGED <<made, live, reach>> /\ key' = [key EXCEPT ![e] = 0, ![f] = key[e]]
    BY <1>2 DEF MoveEntry, memory
  <2>2. \A g \in Holders : Block'[g] = IF g = <<"key", f>> THEN Block[<<"key", e>>] ELSE
                                       IF g = <<"key", e>> THEN 0 ELSE Block[g]
    BY <1>f, <2>1, KeyPassed
  <2>3. live \ {Block[<<"key", f>>]} = live
    BY <1>h, <1>f, BlocksAreMade
  <2>4. Owned(Block', live \ {Block[<<"key", f>>]}, made)
    BY <1>h, <2>2, PassOwned DEF IInv, OwnInv
  <2>5. OwnInv'
    BY <2>1, <2>3, <2>4 DEF OwnInv
  <2>6. FieldsOK' /\ Shape'
    BY <1>f, <2>1 DEF MoveEntry, IInv, FieldsOK, Shape, Numbers
  <2>7. TableInv'
    BY <2>1, TablesKept DEF MoveEntry
  <2> QED BY <2>5, <2>6, <2>7 DEF IInv
<1> QED BY <1>1, <1>2

-----------------------------------------------------------------------------
(* Tables *)

\* t has no block any more, and what it had is freed.
LEMMA BecomesEmpty ==
  ASSUME IInv, NEW t \in Tables, Drop(cache[t]), Becomes(t, 0, {}),
         tables' \subseteq tables \cup {t}, tables \subseteq tables' \cup {t},
         UNCHANGED <<source, entries>>
  PROVE  IInv'
<1> USE DEF entries, Becomes, Drop
<1>h. <<"cache", t>> \in Holders /\ Block[<<"cache", t>>] = cache[t]
  BY BlockOfHolder
<1>f. cache \in [Tables -> Numbers] /\ FieldsOK
  BY DEF IInv, FieldsOK
<1>1. \A g \in Holders : Block'[g] = IF g = <<"cache", t>> THEN 0 ELSE Block[g]
  BY <1>f, CacheSet
<1>2. OwnInv'
  BY <1>h, <1>1, DropOwned DEF OwnInv, IInv
<1>3. FieldsOK' /\ Shape'
  BY <1>f DEF IInv, FieldsOK, Shape, Numbers
<1>4. TableInv'
  BY <1>f DEF IInv, Shape, TableInv
<1> QED BY <1>2, <1>3, <1>4 DEF IInv

\* t gets a new block for its own, with what it was made from.
LEMMA BecomesNew ==
  ASSUME IInv, NEW t \in Tables, NEW others, NEW from, Replace(cache[t], others),
         others \subseteq 1..made, from \subseteq 1..made, others \subseteq from,
         Becomes(t, made', from), tables' = tables \cup {t}, UNCHANGED <<source, entries>>
  PROVE  IInv'
<1> USE DEF entries, Becomes
<1>h. <<"cache", t>> \in Holders /\ Block[<<"cache", t>>] = cache[t]
  BY BlockOfHolder
<1>f. cache \in [Tables -> Numbers] /\ FieldsOK
  BY DEF IInv, FieldsOK
<1>1. \A g \in Holders : Block'[g] = IF g = <<"cache", t>> THEN made' ELSE Block[g]
  BY <1>f, CacheSet
<1>2. /\ made' \in Numbers /\ made < made' /\ live' = (live \ {cache[t]}) \cup {made'}
      /\ 1..made \subseteq 1..made'
      /\ reach' \in [Numbers -> SUBSET (1..made')]
      /\ \A b \in 0..made : reach'[b] = reach[b]
      /\ reach'[made'] = {made'} \cup others
  BY ReplaceReach
<1>3. OwnInv'
  BY <1>h, <1>1, <1>2, ReplaceOwned DEF OwnInv, IInv
<1>4. FieldsOK' /\ Shape'
  BY <1>f, <1>2 DEF IInv, FieldsOK, Shape
<1>5. TableInv'
  <2>1. 0 \in 0..made /\ \A u \in Tables : cache[u] \in 0..made
    BY BlocksAreMade
  <2>2. \A u \in Tables \ {t} : cache'[u] = cache[u] /\ array'[u] = array[u]
                                /\ parts'[u] = parts[u] /\ (u \in moved' <=> u \in moved)
    BY DEF IInv, FieldsOK, Shape
  <2>3. cache'[t] = made' /\ array'[t] = made' /\ parts'[t] = from
    BY DEF IInv, FieldsOK, Shape
  <2>4. tables \subseteq Tables
    BY DEF IInv, Shape
  <2> QED BY <1>2, <2>1, <2>2, <2>3, <2>4 DEF IInv, TableInv
<1> QED BY <1>3, <1>4, <1>5 DEF IInv

\* t takes over the block of u, after its own was freed.
LEMMA BecomesOther ==
  ASSUME IInv, NEW t \in Tables, NEW u \in tables, t # u, Drop(cache[t]), MoveCache(t, u),
         tables' = tables \cup {t}, UNCHANGED <<source, entries>>
  PROVE  IInv'
<1> USE DEF entries, Drop, MoveCache
<1>u. u \in Tables /\ tables \subseteq Tables
  BY DEF IInv, Shape
<1>h. /\ <<"cache", t>> \in Holders /\ Block[<<"cache", t>>] = cache[t]
      /\ <<"cache", u>> \in Holders /\ <<"cache", t>> # <<"cache", u>>
  BY <1>u, BlockOfHolder
<1>f. cache \in [Tables -> Numbers] /\ FieldsOK
  BY DEF IInv, FieldsOK
<1>1. \A g \in Holders : Block'[g] = IF g = <<"cache", t>> THEN Block[<<"cache", u>>] ELSE
                                     IF g = <<"cache", u>> THEN 0 ELSE Block[g]
  BY <1>u, <1>f, CachePassed
<1>2. OwnInv'
  <2>1. Owned(Block, live, made)
    BY DEF IInv, OwnInv
  <2>2. Owned(Block', live \ {Block[<<"cache", t>>]}, made)
    BY ONLY <1>h, <1>1, <2>1, PassOwned
  <2>3. live' = live \ {cache[t]} /\ made' = made
    OBVIOUS
  <2> QED BY ONLY <1>h, <2>2, <2>3 DEF OwnInv
<1>3. FieldsOK' /\ Shape'
  <2>1. cache[u] \in Numbers /\ 0 \in Numbers
    BY <1>u, <1>f DEF Numbers, FieldTableAssumption
  <2>2. FieldsOK'
    BY <2>1 DEF IInv, FieldsOK
  <2>3. Shape'
    BY <1>u, <2>1 DEF IInv, Shape
  <2> QED BY <2>2, <2>3
<1>4. TableInv'
  <2>1. \A v \in Tables \ {t, u} : cache'[v] = cache[v] /\ array'[v] = array[v]
                                   /\ parts'[v] = parts[v] /\ (v \in moved' <=> v \in moved)
    BY DEF IInv, FieldsOK, Shape
  <2>2. cache'[t] = cache[u] /\ array'[t] = cache[u] /\ parts'[t] = parts[u]
    BY DEF IInv, FieldsOK, Shape
  <2>3. cache'[u] = 0 /\ u \in moved'
    BY <1>u DEF IInv, FieldsOK
  <2>4. TableInv /\ reach' = reach /\ tables' = tables \cup {t}
    BY DEF IInv
  <2>5. \A v \in Tables \ tables' : cache'[v] = 0
    BY ONLY <1>u, <2>1, <2>4 DEF TableInv
  <2>6. \A v \in tables' : reach'[cache'[v]] \subseteq parts'[v] \cup {cache'[v]}
    <3>1. reach'[cache'[t]] \subseteq parts'[t] \cup {cache'[t]}
      BY ONLY <1>u, <2>2, <2>4 DEF TableInv
    <3>2. reach'[cache'[u]] = {}
      BY ONLY <2>3, <2>4 DEF TableInv
    <3>3. \A v \in tables \ {t, u} : reach'[cache'[v]] \subseteq parts'[v] \cup {cache'[v]}
      BY ONLY <1>u, <2>1, <2>4 DEF TableInv
    <3> QED BY ONLY <2>4, <3>1, <3>2, <3>3
  <2>7. \A v \in tables' \ moved' : array'[v] = cache'[v]
    BY ONLY <1>u, <2>1, <2>2, <2>3, <2>4 DEF TableInv
  <2> QED BY ONLY <2>4, <2>5, <2>6, <2>7 DEF TableInv
<1> QED BY <1>2, <1>3, <1>4 DEF IInv

\* The copy of another table's block, in place of the own.
LEMMA CopyCacheStep ==
  ASSUME IInv, NEW t \in Tables, NEW u \in tables, CopyCache(t, u),
         tables' = tables \cup {t}, UNCHANGED <<source, entries>>
  PROVE  IInv'
<1>1. CASE cache[u] = 0
  BY <1>1, BecomesEmpty DEF CopyCache
<1>2. CASE cache[u] # 0
  <2> DEFINE others == reach[cache[u]] \ {cache[u]}
  <2>1. Replace(cache[t], others) /\ Becomes(t, made', parts[u])
    BY <1>2 DEF CopyCache
  <2>2. u \in Tables /\ cache[u] \in Numbers
    BY DEF IInv, Shape, FieldsOK
  <2>3. others \subseteq 1..made /\ parts[u] \subseteq 1..made /\ others \subseteq parts[u]
    BY <2>2 DEF IInv, Shape, TableInv
  <2> QED BY <2>1, <2>3, BecomesNew
<1> QED BY <1>1, <1>2

\* The invariant holds after every step.
LEMMA InvariantStep == IInv /\ [Next]_vars => IInv'
<1> SUFFICES ASSUME IInv, [Next]_vars PROVE IInv'
  OBVIOUS
<1>z. tables \subseteq Tables /\ \A t \in Tables \ tables : cache[t] = 0
  BY DEF IInv, Shape, TableInv
<1>1. ASSUME NEW t \in Tables, NEW E \in SUBSET Entries, MakeTable(t, E) PROVE IInv'
  <2> DEFINE from == UNION {EntryReach(e) : e \in E}
  <2>1. t \notin tables /\ cache[t] = 0 /\ tables' = tables \cup {t}
        /\ UNCHANGED <<source, entries>>
    BY <1>z, <1>1 DEF MakeTable
  <2>2. CASE E = {}
    BY <1>1, <2>1, <2>2, BecomesEmpty DEF MakeTable
  <2>3. CASE E # {}
    <3>1. Replace(cache[t], from) /\ Becomes(t, made', from)
      BY <1>1, <2>1, <2>3 DEF MakeTable
    <3>2. from \subseteq 1..made
      <4>1. \A e \in E : key[e] \in live /\ live \subseteq 1..made
        BY <1>1, BlocksAreMade DEF MakeTable
      <4>2. \A e \in E : EntryReach(e) \subseteq 1..made
        BY <4>1 DEF EntryReach, IInv, Shape
      <4> QED BY <4>2
    <3> HIDE DEF from
    <3> QED BY <2>1, <3>1, <3>2, BecomesNew
  <2> QED BY <2>2, <2>3
<1>2. ASSUME NEW t \in Tables, DestroyTable(t) PROVE IInv'
  BY <1>2, BecomesEmpty DEF DestroyTable
<1>3. ASSUME NEW t \in Tables, NEW u \in Tables, CopyTable(t, u) \/ CopyAssign(t, u) PROVE IInv'
  <2>1. u \in tables /\ CopyCache(t, u) /\ tables' = tables \cup {t}
        /\ UNCHANGED <<source, entries>>
    BY <1>3 DEF CopyTable, CopyAssign
  <2> QED BY <2>1, CopyCacheStep
<1>4. ASSUME NEW t \in Tables, NEW u \in Tables, MoveTable(t, u) PROVE IInv'
  <2>1. Drop(cache[t])
    BY <1>z, <1>4, BlocksAreMade DEF MoveTable, Drop, memory
  <2> QED BY <1>4, <2>1, BecomesOther DEF MoveTable
<1>5. ASSUME NEW t \in Tables, NEW u \in Tables, MoveAssign(t, u) PROVE IInv'
  <2>1. {t, u} \subseteq tables /\ tables' = tables \cup {t} /\ UNCHANGED <<source, entries>>
    BY <1>5 DEF MoveAssign
  <2>2. CASE Drop(cache[t]) /\ t = u /\ Becomes(t, 0, {})
    BY <2>1, <2>2, BecomesEmpty
  <2>3. CASE Drop(cache[t]) /\ t # u /\ MoveCache(t, u)
    BY <2>1, <2>3, BecomesOther
  <2>4. CASE t = u /\ UNCHANGED memory /\ Becomes(t, cache[t], parts[t])
    <3>1. UNCHANGED <<made, live, reach, cache, parts>> /\ tables' = tables
      BY <2>1, <2>4 DEF memory, Becomes, IInv, FieldsOK, Shape
    <3>2. UNCHANGED <<source, key, short, value>>
      BY <2>1 DEF entries
    <3>3. FieldsOK' /\ Shape'
      BY <2>4, <3>1, <3>2 DEF Becomes, IInv, FieldsOK, Shape
    <3>4. OwnInv'
      BY <3>1, <3>2 DEF IInv, OwnInv, Block
    <3>5. TableInv'
      BY <2>1, <2>4, <3>1 DEF Becomes, IInv, Shape, TableInv
    <3> QED BY <3>3, <3>4, <3>5 DEF IInv
  <2> QED BY <1>5, <2>2, <2>3, <2>4 DEF MoveAssign
<1>6. CASE UNCHANGED vars
  BY <1>6 DEF vars, memory, entries, contents, IInv, FieldsOK, OwnInv, Block, Shape, TableInv
<1> QED BY <1>1, <1>2, <1>3, <1>4, <1>5, <1>6, SourceSteps, EntrySteps, MoveEntryStep DEF Next

\* Every state satisfies the invariant.
LEMMA InvariantHolds == Spec => []IInv
<1>1. Init => IInv
  <2> SUFFICES ASSUME Init PROVE IInv
    OBVIOUS
  <2>1. 0 \in Numbers /\ MaxBlocks \in Nat
    BY DEF Numbers, FieldTableAssumption
  <2>2. FieldsOK
    BY <2>1 DEF Init, FieldsOK
  <2>3. Shape
    BY <2>1 DEF Init, Shape
  <2>4. \A h \in Holders : Block[h] = 0
    BY DEF Init, Block, Holders
  <2>5. OwnInv
    BY <2>1, <2>4 DEF Init, OwnInv, Owned
  <2>6. TableInv
    BY <2>1 DEF Init, TableInv
  <2> QED BY <2>2, <2>3, <2>5, <2>6 DEF IInv
<1> QED BY <1>1, InvariantStep, PTL DEF Spec

-----------------------------------------------------------------------------
(* The theorems *)

\* The blocks there are, are those that some variable has to free.
THEOREM TypeCorrect == Spec => []TypeOK
<1>1. IInv => TypeOK
  <2> SUFFICES ASSUME IInv PROVE TypeOK
    OBVIOUS
  <2>1. live \subseteq Held \ {0}
    <3> SUFFICES ASSUME NEW b \in live PROVE b \in Held /\ b # 0
      OBVIOUS
    <3>1. PICK h \in Holders : Block[h] = b
      BY DEF IInv, OwnInv, Owned
    <3>2. b \in Held
      BY <3>1 DEF Holders, Block, Held
    <3> QED BY <3>2, BlocksAreMade
  <2>2. Held \ {0} \subseteq live
    BY BlocksAreMade DEF Held
  <2>3. made \in Numbers /\ live \subseteq 1..made
    BY DEF IInv, OwnInv, Owned
  <2>4. live = Held \ {0}
    BY <2>1, <2>2
  <2> QED BY <2>3, <2>4 DEF IInv, FieldsOK, Shape, TypeOK
<1> QED BY <1>1, InvariantHolds, PTL

\* A table that is not moved from points only to its own block and its parts, so
\* it can be used while its parts are there.
THEOREM TablesOnlyNeedTheirParts == Spec => []TablesFollowTheirParts
<1>1. IInv => TablesFollowTheirParts
  <2> SUFFICES ASSUME IInv, NEW t \in tables \ moved, parts[t] \subseteq live
               PROVE  reach[array[t]] \subseteq live
    BY DEF TablesFollowTheirParts, Sound
  <2>1. /\ t \in Tables /\ array[t] = cache[t] /\ reach[0] = {}
        /\ reach[cache[t]] \subseteq parts[t] \cup {cache[t]}
    BY DEF IInv, Shape, TableInv
  <2>2. cache[t] \in live \cup {0}
    BY <2>1, BlocksAreMade
  <2> QED BY <2>1, <2>2
<1> QED BY <1>1, InvariantHolds, PTL
=============================================================================
