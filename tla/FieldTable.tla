---------------------------- MODULE FieldTable -----------------------------
(***************************************************************************)
(* FieldValue, TableEntry and Table, the arguments of declarations.  They  *)
(* hand structures of rabbitmq-c to the library that point to memory of    *)
(* others: a value to the string, vector or table it was made from, a      *)
(* table to the keys of its entries.  Nothing is copied but the keys into  *)
(* the entries and the structures themselves.                              *)
(*                                                                         *)
(* Memory is kept as numbered blocks.  A block with other contents is      *)
(* another block, and the number of a block that is gone is not used       *)
(* again.  0 is no block, the data of an empty vector.                     *)
(***************************************************************************)
EXTENDS Naturals

CONSTANTS Sources,   \* std::strings and vectors of the program
          Entries,   \* variables of type TableEntry
          Tables,    \* variables of type Table
          MaxBlocks  \* bound: blocks made

ASSUME FieldTableAssumption == MaxBlocks \in Nat

VARIABLES
    made,    \* blocks made so far
    live,    \* those that still have their contents
    reach,   \* [blocks -> the block and all that is pointed to from there]
    source,  \* [Sources -> the block with its contents, 0: no such variable]
    key,     \* [Entries -> the block of key_, 0: no such variable]
    short,   \* entries whose key_ is inside the object, as it is short
    value,   \* [Entries -> all that value_ points to]
    tables,  \* the tables that there are
    cache,   \* [Tables -> the block of cache_]
    array,   \* [Tables -> the block that value_.entries points to]
    parts,   \* history: [Tables -> all that its entries pointed to]
    moved    \* history: tables moved from

memory == <<made, live, reach>>
entries == <<key, short, value>>
contents == <<cache, array, parts, moved>>
vars == <<memory, source, entries, tables, contents>>

Blocks == 1..MaxBlocks
Numbers == 0..MaxBlocks

Init == /\ made = 0 /\ live = {} /\ reach = [b \in Numbers |-> {}]
        /\ source = [s \in Sources |-> 0]
        /\ key = [e \in Entries |-> 0] /\ short = {}
        /\ value = [e \in Entries |-> {}]
        /\ tables = {}
        /\ cache = [t \in Tables |-> 0] /\ array = [t \in Tables |-> 0]
        /\ parts = [t \in Tables |-> {}]
        /\ moved = {}

\* A new block that points to the others, in place of a block that goes.
Replace(old, others) ==
    /\ made < MaxBlocks
    /\ made' = made + 1
    /\ live' = (live \ {old}) \cup {made'}
    /\ reach' = [reach EXCEPT ![made'] = {made'} \cup others]

Drop(old) == live' = live \ {old} /\ UNCHANGED <<made, reach>>

-----------------------------------------------------------------------------
(* Strings and vectors: those of field values point to more *)

MakeSource(s, others) ==
    /\ Replace(source[s], others)
    /\ source' = [source EXCEPT ![s] = made']
    /\ UNCHANGED <<entries, tables, contents>>

DestroySource(s) ==
    /\ source[s] # 0
    /\ Drop(source[s])
    /\ source' = [source EXCEPT ![s] = 0]
    /\ UNCHANGED <<entries, tables, contents>>

-----------------------------------------------------------------------------
(* FieldValue and TableEntry *)

\* what the constructors of FieldValue make it point to: numbers to nothing,
\* strings, containers, arrays and tables to their data, an amqp_field_value_t to
\* what it pointed to
Values == {{}} \cup {reach[source[s]] : s \in Sources}
               \cup {reach[array[t]] : t \in tables}
               \cup {value[e] : e \in Entries}

\* TableEntry(key, value), or from an amqp_table_entry_t
MakeEntry(e, isShort, v) ==
    /\ key[e] = 0
    /\ Replace(0, {})
    /\ key' = [key EXCEPT ![e] = made']
    /\ short' = IF isShort THEN short \cup {e} ELSE short
    /\ value' = [value EXCEPT ![e] = v]
    /\ UNCHANGED <<source, tables, contents>>

\* The value is a const char*: FieldValue points to a string that was made of
\* it and that ends with the constructor.
MakeEntryFromChars(e, isShort) ==
    /\ key[e] = 0
    /\ made + 2 <= MaxBlocks
    /\ made' = made + 2
    /\ live' = live \cup {made + 2}
    /\ reach' = [reach EXCEPT ![made + 1] = {made + 1}, ![made + 2] = {made + 2}]
    /\ key' = [key EXCEPT ![e] = made + 2]
    /\ short' = IF isShort THEN short \cup {e} ELSE short
    /\ value' = [value EXCEPT ![e] = {made + 1}]
    /\ UNCHANGED <<source, tables, contents>>

\* TableEntry(TableEntry&&): a short key is copied and cleared, a long one passes
\* its block on.  The entry moved from is only destroyed.
MoveEntry(from, to) ==
    /\ key[from] # 0 /\ key[to] = 0
    /\ short' = IF from \in short THEN (short \ {from}) \cup {to} ELSE short
    /\ value' = [value EXCEPT ![from] = {}, ![to] = value[from]]
    /\ IF from \in short
       THEN Replace(key[from], {}) /\ key' = [key EXCEPT ![from] = 0, ![to] = made']
       ELSE UNCHANGED memory /\ key' = [key EXCEPT ![from] = 0, ![to] = key[from]]
    /\ UNCHANGED <<source, tables, contents>>

DestroyEntry(e) ==
    /\ key[e] # 0
    /\ Drop(key[e])
    /\ key' = [key EXCEPT ![e] = 0]
    /\ value' = [value EXCEPT ![e] = {}]
    /\ short' = short \ {e}
    /\ UNCHANGED <<source, tables, contents>>

-----------------------------------------------------------------------------
(* Table *)

\* t gets the block c, its value_ points to it, and all it is made from is known
Becomes(t, c, from) == /\ cache' = [cache EXCEPT ![t] = c]
                       /\ array' = [array EXCEPT ![t] = c]
                       /\ parts' = [parts EXCEPT ![t] = from]
                       /\ moved' = moved \ {t}

EntryReach(e) == {key[e]} \cup value[e]

\* Table(entries...)
MakeTable(t, E) ==
    LET from == UNION {EntryReach(e) : e \in E}
    IN  /\ t \notin tables
        /\ \A e \in E : key[e] # 0
        /\ IF E = {} THEN Drop(0) /\ Becomes(t, 0, {})
           ELSE Replace(0, from) /\ Becomes(t, made', from)
        /\ tables' = tables \cup {t}
        /\ UNCHANGED <<source, entries>>

\* faulty: what t had is not freed
CopyCacheLeaks(t, u) ==
    IF cache[u] = 0
    THEN Drop(0) /\ Becomes(t, 0, {})
    ELSE /\ Replace(0, reach[cache[u]] \ {cache[u]})
         /\ Becomes(t, made', parts[u])

\* t's block, if it had one, is replaced by a copy of u's
CopyCache(t, u) ==
    IF cache[u] = 0
    THEN Drop(cache[t]) /\ Becomes(t, 0, {})
    ELSE /\ Replace(cache[t], reach[cache[u]] \ {cache[u]})
         /\ Becomes(t, made', parts[u])

\* faulty: the copy constructor of the compiler, which copies the pointer in value_
CopyTableByDefault(t, u) ==
    /\ u \in tables /\ t \notin tables
    /\ IF cache[u] = 0
       THEN Drop(0) /\ cache' = [cache EXCEPT ![t] = 0]
       ELSE Replace(0, reach[cache[u]] \ {cache[u]}) /\ cache' = [cache EXCEPT ![t] = made']
    /\ array' = [array EXCEPT ![t] = array[u]]
    /\ parts' = [parts EXCEPT ![t] = parts[u]] /\ moved' = moved \ {t}
    /\ tables' = tables \cup {t}
    /\ UNCHANGED <<source, entries>>

\* Table(const Table&)
CopyTable(t, u) ==
    /\ u \in tables /\ t \notin tables
    /\ CopyCache(t, u)
    /\ tables' = tables \cup {t}
    /\ UNCHANGED <<source, entries>>

\* t takes over u's block, and value_ of u still points to it
MoveCache(t, u) == /\ cache' = [cache EXCEPT ![u] = 0, ![t] = cache[u]]
                   /\ array' = [array EXCEPT ![t] = cache[u]]
                   /\ parts' = [parts EXCEPT ![t] = parts[u]]
                   /\ moved' = (moved \ {t}) \cup {u}

\* Table(Table&&)
MoveTable(t, u) ==
    /\ u \in tables /\ t \notin tables
    /\ MoveCache(t, u)
    /\ tables' = tables \cup {t}
    /\ UNCHANGED <<memory, source, entries>>

\* operator=(const Table&), which leaves a table that is assigned to itself alone
CopyAssign(t, u) ==
    /\ {t, u} \subseteq tables /\ t # u
    /\ CopyCache(t, u)
    /\ UNCHANGED <<source, entries, tables>>

\* operator=(Table&&); a vector moved to itself may also come out empty
MoveAssign(t, u) ==
    /\ {t, u} \subseteq tables
    /\ \/ Drop(cache[t]) /\ IF t = u THEN Becomes(t, 0, {}) ELSE MoveCache(t, u)
       \/ t = u /\ UNCHANGED memory /\ Becomes(t, cache[t], parts[t])
    /\ UNCHANGED <<source, entries, tables>>

DestroyTable(t) ==
    /\ t \in tables
    /\ Drop(cache[t])
    /\ tables' = tables \ {t}
    /\ Becomes(t, 0, {})
    /\ UNCHANGED <<source, entries>>

Next ==
    \/ \E s \in Sources : \/ DestroySource(s)
                          \/ \E v \in Values : MakeSource(s, v)
    \/ \E e \in Entries : \/ DestroyEntry(e)
                          \/ \E isShort \in BOOLEAN :
                               \/ MakeEntryFromChars(e, isShort)
                               \/ \E v \in Values : MakeEntry(e, isShort, v)
                          \/ \E to \in Entries : MoveEntry(e, to)
    \/ \E t \in Tables : \/ DestroyTable(t)
                         \/ \E E \in SUBSET Entries : MakeTable(t, E)
                         \/ \E u \in Tables : \/ CopyTable(t, u) \/ MoveTable(t, u)
                                              \/ CopyAssign(t, u) \/ MoveAssign(t, u)

Spec == Init /\ [][Next]_vars

-----------------------------------------------------------------------------
(* Properties *)

\* blocks that belong to a variable
Held == {source[s] : s \in Sources} \cup {key[e] : e \in Entries}
        \cup {cache[t] : t \in Tables}

\* The type invariant of tables and entries.  What is live is what some variable
\* holds.
TypeOK == /\ made \in Numbers
          /\ live = Held \ {0} /\ live \subseteq 1..made
          /\ reach \in [Numbers -> SUBSET (1..made)]
          /\ source \in [Sources -> Numbers]
          /\ key \in [Entries -> Numbers] /\ short \subseteq Entries
          /\ value \in [Entries -> SUBSET (1..made)]
          /\ tables \subseteq Tables /\ moved \subseteq Tables
          /\ cache \in [Tables -> Numbers] /\ array \in [Tables -> Numbers]
          /\ parts \in [Tables -> SUBSET (1..made)]

Sound(t) == reach[array[t]] \subseteq live

\* A table that has not been moved from can be passed to the library as long as
\* the keys and values it was made from are there, whatever happens to the tables
\* it was copied or moved from or assigned.
TablesFollowTheirParts ==
    \A t \in tables \ moved : parts[t] \subseteq live => Sound(t)
=============================================================================
