------------------------------- MODULE Tables -------------------------------
(***************************************************************************)
(* Database tables as partial functions from primary keys to rows.  A key  *)
(* outside the domain has no row.  Every repository of src/base and        *)
(* src/modules reads and writes such a table through TypeORM.              *)
(***************************************************************************)

\* A table whose keys come from Ids and whose rows come from Row.
IsTable(table, Ids, Row) ==
    /\ DOMAIN table \subseteq Ids
    /\ table \in [DOMAIN table -> Row]

EmptyTable == [id \in {} |-> {}]

\* INSERT or UPDATE of one row: Repository.save of one entity.
Put(table, id, row) ==
    [x \in DOMAIN table \cup {id} |-> IF x = id THEN row ELSE table[x]]

\* Repository.save of several entities at once (one transaction).
PutAll(table, rows) ==
    [x \in DOMAIN table \cup DOMAIN rows |->
        IF x \in DOMAIN rows THEN rows[x] ELSE table[x]]

\* Repository.save of an entity with an id reads the row first, then writes
\* only the columns in which the entity (want) differs from what it read (seen);
\* by the time of the write the column may hold something else (current).
Column(current, seen, want) == IF want # seen THEN want ELSE current

\* The row leaves the table: the end of a call, a hard DELETE, a DEL in Redis.
Drop(table, id) == [x \in DOMAIN table \ {id} |-> table[x]]

\* The keys of Ids that no row uses yet.
Unused(table, Ids) == Ids \ DOMAIN table
=============================================================================
