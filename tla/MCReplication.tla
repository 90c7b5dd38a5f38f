--------------------------- MODULE MCReplication ---------------------------
(***************************************************************************)
(* Small instances of Replication: the writes requests make.               *)
(***************************************************************************)
EXTENDS Replication, TLC

Single(ops, ids) ==
  [op: ops, id: ids, byId: {TRUE}, where: {{}}, returnsId: {TRUE}, tx: {FALSE}]
Many(ops) ==
  [op: ops, id: {CHOOSE i \in Ids : TRUE}, byId: {FALSE}, where: {{Seed}},
   returnsId: {FALSE}, tx: {FALSE}]

\* The writes whose id is not in the result, or not in the where clause.
NoId(ids) ==
  [op: {"update", "delete"}, id: ids, byId: BOOLEAN, where: {{}},
   returnsId: {FALSE}, tx: {FALSE}]

InTransaction(writes) == {[w EXCEPT !.tx = TRUE] : w \in writes}

\* Every operation, in and out of a transaction, on ordinary rows and on users;
\* where clauses match rows nobody wrote yet.
AnyWrite ==
  Single(SingleOps \cup BulkOps, Ids \ Users)
    \cup InTransaction(Single({"create", "update"}, Ids \ Users))
    \cup NoId(Ids \ Users)
    \cup Single({"create", "update", "delete"}, Users)
    \cup Many(ManyOps)

\* Writes that can follow one another on one row.
RowWrites == Single({"update", "upsert", "delete"}, Ids)

\* A row that is updated while others delete it.
DeletingWrites == Single({"delete", "create"}, Ids) \cup Many({"updateMany", "deleteMany"})

UpdateWrites == Single({"update"}, Ids)

Interchangeable == Permutations(Requests) \cup Permutations(Processes)
=============================================================================
