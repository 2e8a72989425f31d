------------------------------- MODULE Tables -------------------------------
(***************************************************************************)
(* The three tables of the control plane and the commands on them, as pure *)
(* operators: trait Table with its add / get / remove / list for           *)
(* NeighborTable and RouteTable (HashMaps) and for ForwardingTable (the    *)
(* kernel's trie, module LpmTrie), and what one StateCommand does to the   *)
(* tables and answers.                                                     *)
(***************************************************************************)
EXTENDS LpmTrie

CONSTANTS
  NeighborIds,          \* keys of the neighbour table (u32 ids)
  RoutePrefixes,        \* keys of the route table
  ForwardingPrefixes,   \* keys of the forwarding table
  Neighbors, Routes, NextHops   \* what each table stores

ASSUME TablesAssumption ==
  /\ ForwardingPrefixes \subseteq Prefix
  /\ None \notin Neighbors /\ None \notin Routes /\ None \notin NextHops

TableType == {"NeighborTable", "RouteTable", "ForwardingTable"}

Keys == [t \in TableType |->
           IF t = "NeighborTable" THEN NeighborIds
           ELSE IF t = "RouteTable" THEN RoutePrefixes
           ELSE ForwardingPrefixes]

Values == [t \in TableType |->
             IF t = "NeighborTable" THEN Neighbors
             ELSE IF t = "RouteTable" THEN Routes
             ELSE NextHops]

(* What one table can hold, and what the three of them can.                *)
Contents(t) == [Keys[t] -> Values[t] \cup {None}]

IsTables(tables) ==
  /\ tables = [t \in TableType |-> tables[t]]
  /\ \A t \in TableType : tables[t] \in Contents(t)

EmptyTables == [t \in TableType |-> [k \in Keys[t] |-> None]]

-----------------------------------------------------------------------------
(* StateCommand.  Add and Del carry no reply channel; Get and List do.     *)

AddCommand == UNION {[op : {"Add"}, table : {t}, key : Keys[t], value : Values[t]]
                      : t \in TableType}
DelCommand == UNION {[op : {"Del"}, table : {t}, key : Keys[t]] : t \in TableType}
GetCommand == UNION {[op : {"Get"}, table : {t}, key : Keys[t]] : t \in TableType}
ListCommand == [op : {"List"}, table : TableType]

Command == AddCommand \cup DelCommand \cup GetCommand \cup ListCommand

IsQuery(command) == command.op \in {"Get", "List"}

-----------------------------------------------------------------------------
(* The operations of trait Table: on a HashMap ...                         *)
MapAdd(entries, key, value) == [entries EXCEPT ![key] = value]

MapRemove(entries, key) == [entries EXCEPT ![key] = None]

MapGet(entries, key) == entries[key]

(* Mutant of TableAdd: a forwarding table that keeps keys, not trie nodes. *)
TableAddByKey(t, entries, key, value) == MapAdd(entries, key, value)

(* ... and on each table: the forwarding table is the trie.                *)
TableAdd(t, entries, key, value) ==
  IF t = "ForwardingTable"
  THEN TrieUpdate(entries, key, value)
  ELSE MapAdd(entries, key, value)

TableRemove(t, entries, key) ==
  IF t = "ForwardingTable"
  THEN TrieDelete(entries, key)
  ELSE MapRemove(entries, key)

TableGet(t, entries, key) ==
  IF t = "ForwardingTable" THEN TrieLookup(entries, key) ELSE MapGet(entries, key)

(* The whole table; the order in which HashMap and trie iterate is left out. *)
TableList(entries) == entries

-----------------------------------------------------------------------------
(* One arm of the match in State::run: the tables after the command ...    *)
Apply(tables, c) ==
  CASE c.op = "Add" ->
         [tables EXCEPT ![c.table] = TableAdd(c.table, @, c.key, c.value)]
    [] c.op = "Del" ->
         [tables EXCEPT ![c.table] = TableRemove(c.table, @, c.key)]
    [] OTHER -> tables

(* ... and what it sends back on the oneshot of a Get or a List.           *)
Answer(tables, c) ==
  IF c.op = "Get"
  THEN TableGet(c.table, tables[c.table], c.key)
  ELSE TableList(tables[c.table])

AnswerType == UNION {Values[t] \cup {None} \cup Contents(t) : t \in TableType}
=============================================================================
