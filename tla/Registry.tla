------------------------------- MODULE Registry ------------------------------
(***************************************************************************)
(* SQLite files and the connections processes have to them                 *)
(* (utils/sqlite/sqlite.c).                                                *)
(*                                                                         *)
(* A file is a function from the names of its tables to their rows, in the *)
(* order of rowid.  A connection works on the file itself or on a copy in  *)
(* memory, which is loaded when it is opened and replaces the file when it *)
(* is closed.  One call of sqlite3_exec is atomic for all processes.       *)
(***************************************************************************)
EXTENDS Integers, Sequences, FiniteSets

CONSTANTS
  Process,
  File

VARIABLES
  disk,     \* the files that exist: name -> database
  conns     \* per process db_files_map: file -> [memory, copy]

NoTables == <<>>
NoConns == [p \in Process |-> <<>>]

With(f, x, v) == [y \in DOMAIN f \cup {x} |-> IF y = x THEN v ELSE f[y]]
Without(f, x) == [y \in DOMAIN f \ {x} |-> f[y]]
RowsOf(db, table) == IF table \in DOMAIN db THEN db[table] ELSE <<>>

\* The database that a statement of p finds behind its connection.
View(p, f) == IF conns[p][f].memory THEN conns[p][f].copy ELSE disk[f]

\* A statement leaves db there.
Written(p, f, db) ==
  IF conns[p][f].memory
    THEN /\ conns' = [conns EXCEPT ![p][f].copy = db]
         /\ UNCHANGED disk
    ELSE /\ disk' = [disk EXCEPT ![f] = db]
         /\ UNCHANGED conns

------------------------------------------------------------------------------
\* acc_sqlite_load_or_save_db copies between a file and a copy in memory; a
\* file that did not exist is created.

\* Mutant: pFrom and pTo are exchanged.
LoadOrSaveSwapped(file, copy, isSave) ==
  IF isSave THEN [file |-> file, copy |-> file] ELSE [file |-> copy, copy |-> copy]

LoadOrSave(file, copy, isSave) ==
  IF isSave THEN [file |-> copy, copy |-> copy] ELSE [file |-> file, copy |-> file]

Content(f) == IF f \in DOMAIN disk THEN disk[f] ELSE NoTables

acc_sqlite_open(p, f, fail_if_file_missing, memory) ==
  LET loaded == IF memory THEN LoadOrSave(Content(f), NoTables, FALSE)
                          ELSE [file |-> Content(f), copy |-> NoTables]
  IN  /\ f \notin DOMAIN conns[p]
      /\ fail_if_file_missing => f \in DOMAIN disk
      /\ disk' = With(disk, f, loaded.file)
      /\ conns' = [conns EXCEPT ![p] = With(@, f, [memory |-> memory, copy |-> loaded.copy])]

\* Nobody looks at the status of the save, so it may have failed.
acc_sqlite_close(p, f) ==
  /\ f \in DOMAIN conns[p]
  /\ \/ UNCHANGED disk
     \/ /\ conns[p][f].memory
        /\ disk' = With(disk, f, LoadOrSave(Content(f), conns[p][f].copy, TRUE).file)
  /\ conns' = [conns EXCEPT ![p] = Without(@, f)]

\* The process ends without closing: copies in memory are gone.
Dropped(p) == conns' = [conns EXCEPT ![p] = <<>>]

acc_sqlite_table_exists(p, f, table) == table \in DOMAIN View(p, f)

\* SELECT: the numbers of the rows that have the values of a record of conditions.
acc_sqlite_select(db, table, conds) ==
  LET rows == RowsOf(db, table)
      Satisfies(r) == \A field \in DOMAIN conds : rows[r][field] = conds[field]
      upto[r \in 0 .. Len(rows)] ==
        IF r = 0 THEN <<>>
        ELSE IF Satisfies(r) THEN Append(upto[r - 1], r) ELSE upto[r - 1]
  IN  upto[Len(rows)]

CreateTable(p, f, table) ==
  /\ ~acc_sqlite_table_exists(p, f, table)
  /\ Written(p, f, With(View(p, f), table, <<>>))

\* INSERT; it fails where there is no such table.
Insert(p, f, table, row) ==
  /\ acc_sqlite_table_exists(p, f, table)
  /\ Written(p, f, [View(p, f) EXCEPT ![table] = Append(@, row)])
==============================================================================
