------------------------------- MODULE Ingest -------------------------------
(***************************************************************************)
(* CSV ingestion (ingestor/csv_parser.go): the daemon and the uploads each  *)
(* read a file row by row and buffer their ticks in one ILP sender, which   *)
(* nothing locks; any of them flushes whatever the sender holds.            *)
(***************************************************************************)
EXTENDS Integers, FiniteSets

CONSTANTS
  Writers,      \* goroutines that run ingest
  MaxRows,      \* bound: rows of a file
  MaxErrors     \* maxConsecutiveReadErrors (50 in the code)

Rows == 1 .. MaxRows

VARIABLES
  file,         \* the ingest of each writer
  pending,      \* who has begun a row since the sender's last At; two spoil it
  buffer,       \* the sender's finished rows, as <<writer, row>>
  equities,     \* rows QuestDB was sent
  harmed        \* history: writers during whose ingest a flush failed, or whose row took in another's columns

vars == <<file, pending, buffer, equities, harmed>>

TypeOK ==
  /\ file \in [Writers -> [at : {"read", "insert", "flush", "done"}, row : 0 .. MaxRows,
                           errors : 0 .. MaxErrors, inserted : SUBSET Rows]]
  /\ pending \subseteq Writers
  /\ buffer \subseteq Writers \X Rows /\ equities \subseteq Writers \X Rows
  /\ harmed \subseteq Writers

\* The header has been read.
Init ==
  /\ file = [w \in Writers |-> [at |-> "read", row |-> 0, errors |-> 0, inserted |-> {}]]
  /\ pending = {} /\ buffer = {} /\ equities = {} /\ harmed = {}

-----------------------------------------------------------------------------
Set(w, rec) == file' = [file EXCEPT ![w] = rec]
Sender == <<pending, buffer, equities, harmed>>
More(w) == file[w].at = "read" /\ file[w].row < MaxRows
NextRow(w) == [file[w] EXCEPT !.row = file[w].row + 1]

GivesUp(w, n) == n >= MaxErrors

Leave(rec) == [rec EXCEPT !.at = "done"]

\* An error that ends the loop flushes too.
Abandon(rec) == [rec EXCEPT !.at = "flush"]

\* io.EOF.
EndOfFile(w) == file[w].at = "read" /\ Set(w, [file[w] EXCEPT !.at = "flush"]) /\ UNCHANGED Sender

\* An I/O failure is no fault of one line.
ReadFails(w) == More(w) /\ Set(w, Abandon(NextRow(w))) /\ UNCHANGED Sender

\* A line that encoding/csv cannot read is skipped, up to the limit in a row.
Unreadable(w) ==
  LET n == file[w].errors + 1
      rec == [NextRow(w) EXCEPT !.errors = n]
  IN More(w) /\ Set(w, IF GivesUp(w, n) THEN Abandon(rec) ELSE rec) /\ UNCHANGED Sender

\* A record parseRecord refuses.
Malformed(w) == More(w) /\ Set(w, [NextRow(w) EXCEPT !.errors = 0]) /\ UNCHANGED Sender

\* Table and the columns.  The sender refuses a second table name before At.
BeginTick(w) ==
  /\ More(w)
  /\ Set(w, [NextRow(w) EXCEPT !.errors = 0, !.at = "insert"])
  /\ pending' = pending \cup {w}
  /\ UNCHANGED <<buffer, equities, harmed>>

Accepted(w) == Set(w, [file[w] EXCEPT !.at = "read", !.inserted = file[w].inserted \cup {file[w].row}])

\* At ends the row under construction, or refuses it with what went wrong since the last At: a value it cannot send, a
\* second row begun, or no row at all.  A writer whose own row is gone may end another writer's as if it were its own.
EndTick(w) ==
  /\ file[w].at = "insert"
  /\ \/ pending = {w} /\ Accepted(w) /\ buffer' = buffer \cup {<<w, file[w].row>>} /\ UNCHANGED harmed
     \/ Set(w, Abandon(file[w])) /\ UNCHANGED <<buffer, harmed>>
     \/ w \notin pending /\ Cardinality(pending) = 1 /\ Accepted(w) /\ harmed' = harmed \cup {w} /\ UNCHANGED buffer
  /\ pending' = {}
  /\ UNCHANGED equities

Running == {w \in Writers : file[w].at # "done"}

\* Flush sends all the sender holds.  While a row is under construction it refuses, and discards that row; after a
\* cancelled request it sends nothing; a broken connection loses a part.
Flush(w) ==
  /\ file[w].at = "flush"
  /\ Set(w, [file[w] EXCEPT !.at = "done", !.row = 0, !.errors = 0])
  /\ pending' = {}
  /\ \/ pending = {} /\ equities' = equities \cup buffer /\ buffer' = {} /\ UNCHANGED harmed
     \/ /\ \/ UNCHANGED <<equities, buffer>>
           \/ pending = {} /\ buffer' = {} /\ \E sent \in SUBSET buffer : equities' = equities \cup sent
        /\ harmed' = harmed \cup Running

Next == \E w \in Writers :
  EndOfFile(w) \/ ReadFails(w) \/ Unreadable(w) \/ Malformed(w) \/ BeginTick(w) \/ EndTick(w) \/ Flush(w)

Spec == Init /\ [][Next]_vars

-----------------------------------------------------------------------------
(* Properties.                                                             *)

\* Also when it gives up on the file, and whoever's flush sent them, the rows that a finished ingest counts as
\* inserted are in the database, unless a flush failed while it ran or its columns
\* fell in with another's.
CountedIsStored ==
  \A w \in Writers : file[w].at = "done" /\ w \notin harmed => {<<w, n>> : n \in file[w].inserted} \subseteq equities
=============================================================================
