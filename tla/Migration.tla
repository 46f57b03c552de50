-------------------------------- MODULE Migration --------------------------------
(***************************************************************************)
(* The constructor of ImageDao brings a database file of any older format  *)
(* to format 13, one SQL statement after the other in one transaction, and *)
(* jumps to its error label when one fails.  A file can be opened twice    *)
(* (launchThumper), so several processes may be at it, and each may end    *)
(* anywhere.  The six thumbnail tables are one table here.                 *)
(*                                                                         *)
(* SQLite gives a transaction the snapshot of its first read, lets one     *)
(* transaction write at a time, and fails the first write of one whose     *)
(* snapshot is no longer the newest.  No busy timeout is set, so a lock    *)
(* that another process has is an error, of the pragma before BEGIN too.   *)
(***************************************************************************)
EXTENDS Naturals, Sequences

CONSTANTS Processes,  \* processes that open the database file
          Usability,  \* whether the file is a database that can be opened and
                      \* written in WAL mode where no other process hinders it
          MaxStarts   \* bound on the starts of processes

ASSUME MigrationAssumption == /\ Usability \subseteq BOOLEAN /\ MaxStarts \in Nat
                              /\ "nobody" \notin Processes

VARIABLES
  usable,   \* whether it is
  file,     \* the file when the behaviour began
  committed, commits,  \* what is in the file, and how often it has changed
  writer,   \* the process whose transaction has written
  pc, next, \* where each process is; the number of its next statement
  work,     \* the database as its transaction sees it
  stamp,    \* the number of commits its snapshot has
  version, fresh,      \* its version; whether it found no table store
  starts

disk == <<usable, file, committed, commits, writer>>
vars == <<disk, pc, next, work, stamp, version, fresh, starts>>

(* A table is a function from its columns to the columns that its values were *)
(* in at first, "null" for none; a table without columns does not exist.      *)
Tables == {"store", "new_store", "tag", "meta", "image", "thumb"}
Versions == {0, 1, 2, 3, 4, 5, 10, 11, 12, 13}

(* Where a process is: not started, at the pragma, refused by it with its locks still *)
(* held, at BEGIN and the first read, at the statements, at the label error with its  *)
(* transaction open or looping there without one, returned from the constructor with  *)
(* or without an upgraded file, closing the file.                                     *)
Places == {"off", "pragma", "refused", "begin", "upgrade", "error", "looping",
           "ready", "failed", "closing"}
Returned == {"ready", "failed", "closing", "off"}

\* The columns of a table in format v: what the statements are to make of it.
Format(v, t) ==
  CASE t = "store" -> {"id", "hash", "image"}
         \cup (IF v < 4 THEN {"date"} ELSE {})
         \cup (IF v \in {2, 3} THEN {"width", "height", "origin_url"} ELSE {})
         \cup (IF v = 3 THEN {"phash"} ELSE {})
    [] t = "image" /\ v >= 4 -> {"id", "date", "width", "height", "origin_url", "phash"}
         \cup (IF v >= 5  THEN {"deleted"} ELSE {})
         \cup (IF v >= 12 THEN {"format"} ELSE {})
         \cup (IF v >= 13 THEN {"filesize", "pixelformat"} ELSE {})
    [] t = "tag" -> {"id", "tag"}
    [] t = "meta" /\ v >= 1 -> {"key", "type", "value"}
    [] t = "thumb" /\ v >= 11 -> {"id", "image"}
    [] OTHER -> {}

NoFile == [version |-> 0, tables |-> [t \in Tables |-> <<>>]]
FileOf(v) == [version |-> v, tables |-> [t \in Tables |-> [c \in Format(v, t) |-> c]]]
\* Formats 6 to 10 may have had thumbnails.
Files == {NoFile} \cup {FileOf(v) : v \in Versions}
           \cup {[FileOf(10) EXCEPT !.tables["thumb"] = FileOf(11).tables["thumb"]]}

Init == /\ usable \in Usability
        /\ file \in Files /\ committed = file /\ commits = 0
        /\ writer = "nobody" /\ pc = [p \in Processes |-> "off"]
        /\ next = [p \in Processes |-> 1] /\ work = [p \in Processes |-> NoFile]
        /\ stamp = [p \in Processes |-> 0] /\ version = [p \in Processes |-> 0]
        /\ fresh = [p \in Processes |-> FALSE] /\ starts = 0
--------------------------------------------------------------------------------
(* The statements: <<version, operation, table, columns, source>>. *)

Block4DropEarly ==
  << <<4, "CREATE", "new_store", {"id", "hash", "image"}>>,
     <<4, "CREATE", "image", {"id", "date", "width", "height", "phash", "origin_url"}>>,
     <<4, "INSERT", "new_store", "store">>,
     <<4, "DROP", "store">>, <<4, "RENAME", "store", "new_store">>,
     <<4, "INSERT", "image", "store">>, <<4, "metaPut">> >>

Block4Misnumbered == << <<6, "metaPut">> >>

Block4 ==
  << <<4, "CREATE", "new_store", {"id", "hash", "image"}>>,
     <<4, "CREATE", "image", {"id", "date", "width", "height", "phash", "origin_url"}>>,
     <<4, "INSERT", "new_store", "store">>, <<4, "INSERT", "image", "store">>,
     <<4, "DROP", "store">>, <<4, "RENAME", "store", "new_store">>, <<4, "metaPut">> >>

Statements ==
  << <<0, "CREATE", "store", {"id", "hash", "date", "image"}>>,
     <<0, "CREATE", "tag", {"id", "tag"}>>,
     <<1, "CREATE", "meta", {"key", "type", "value"}>>, <<1, "metaPut">>,
     <<2, "ADD", "store", {"width"}>>, <<2, "ADD", "store", {"height"}>>,
     <<2, "ADD", "store", {"origin_url"}>>, <<2, "metaPut">>,
     <<3, "ADD", "store", {"phash"}>>, <<3, "metaPut">> >>
  \o Block4 \o
  << <<5, "ADD", "image", {"deleted"}>>, <<5, "metaPut">>,
     <<11, "CREATE IF NOT EXISTS", "thumb", {"id", "image"}>>, <<11, "metaPut">>,
     <<12, "ADD", "image", {"format"}>>, <<12, "metaPut">>,
     <<13, "ADD", "image", {"filesize"}>>, <<13, "ADD", "image", {"pixelformat"}>>,
     <<13, "metaPut">> >>

Columns(d, t) == DOMAIN d.tables[t]
Exists(d, t) == Columns(d, t) # {}

\* Whether SQLite can carry a statement out.
Valid(s, d) ==
  CASE s[2] = "CREATE" -> ~Exists(d, s[3])
    [] s[2] = "ADD"    -> Exists(d, s[3]) /\ Columns(d, s[3]) \cap s[4] = {}
    [] s[2] = "INSERT" -> Exists(d, s[3]) /\ Columns(d, s[3]) \subseteq Columns(d, s[4])
    [] s[2] = "DROP"   -> Exists(d, s[3])
    [] s[2] = "RENAME" -> Exists(d, s[4]) /\ ~Exists(d, s[3])
    [] OTHER -> TRUE

WithNull(table, cols) ==
  [c \in DOMAIN table \cup cols |-> IF c \in DOMAIN table THEN table[c] ELSE "null"]

Result(s, d) ==
  CASE s[2] = "metaPut" -> [d EXCEPT !.version = s[1]]
    [] s[2] \in {"CREATE", "ADD", "CREATE IF NOT EXISTS"} ->
         [d EXCEPT !.tables[s[3]] = WithNull(@, s[4])]
    [] s[2] = "INSERT" -> [d EXCEPT !.tables[s[3]] = [c \in DOMAIN @ |-> d.tables[s[4]][c]]]
    [] s[2] = "DROP"   -> [d EXCEPT !.tables[s[3]] = <<>>]
    [] s[2] = "RENAME" -> [d EXCEPT !.tables[s[3]] = d.tables[s[4]], !.tables[s[4]] = <<>>]
--------------------------------------------------------------------------------
Go(p, to) == pc' = [pc EXCEPT ![p] = to]
transaction == <<next, work, stamp, version, fresh>>

\* launchThumper, or the user, starts a process.
Start(p) == /\ pc[p] = "off" /\ starts < MaxStarts
            /\ Go(p, "pragma") /\ starts' = starts + 1
            /\ UNCHANGED <<disk, transaction>>

\* Whether another process may hold a lock on the file that p needs to open it: it puts the
\* file in WAL mode, opens or recovers the log, or closes the file as the last to have it.
Hindered(p) == \E q \in Processes \ {p} : pc[q] \in {"pragma", "refused", "begin", "closing"}

\* PRAGMA journal_mode = WAL writes to the file, so it fails if that cannot be done, and
\* the constructor goes to its error label with no transaction open.
Pragma(p) == /\ pc[p] = "pragma"
             /\ Go(p, IF usable THEN "begin" ELSE "looping")
             /\ UNCHANGED <<disk, transaction, starts>>

\* The pragma fails with SQLITE_BUSY.  The locks it took are given back only then, so that
\* two processes can refuse each other.
PragmaBusy(p) == /\ pc[p] = "pragma" /\ usable /\ Hindered(p)
                 /\ Go(p, "refused")
                 /\ UNCHANGED <<disk, transaction, starts>>

\* The first read fails with SQLITE_BUSY.  tableExists takes that for a missing table, and
\* to create one that is there fails, within the transaction.
BeginBusy(p) == /\ pc[p] = "begin" /\ Hindered(p)
                /\ Go(p, "error")
                /\ UNCHANGED <<disk, transaction, starts>>

\* BEGIN, and the first read in the transaction: tableExists and metaGet.
Begin(p) == /\ pc[p] = "begin"
            /\ Go(p, "upgrade") /\ next' = [next EXCEPT ![p] = 1]
            /\ work' = [work EXCEPT ![p] = committed]
            /\ stamp' = [stamp EXCEPT ![p] = commits]
            /\ version' = [version EXCEPT ![p] = committed.version]
            /\ fresh' = [fresh EXCEPT ![p] = ~Exists(committed, "store")]
            /\ UNCHANGED <<disk, starts>>

\* Whether SQLite lets p write.
MayWrite(p) == writer = p \/ (writer = "nobody" /\ stamp[p] = commits)

Skipped(p, s) == IF s[1] = 0 THEN ~fresh[p] ELSE s[1] <= version[p]
Statement(p) == Statements[next[p]]

\* The tests of the version up to the next statement to be carried out; they look at
\* variables of the process alone.
Skip(p) == /\ pc[p] = "upgrade" /\ next[p] <= Len(Statements) /\ Skipped(p, Statement(p))
           /\ \E n \in next[p]..Len(Statements) :
                /\ \A k \in next[p]..n : Skipped(p, Statements[k])
                /\ n < Len(Statements) => ~Skipped(p, Statements[n + 1])
                /\ next' = [next EXCEPT ![p] = n + 1]
           /\ UNCHANGED <<disk, pc, work, stamp, version, fresh, starts>>

\* A statement whose effect is in the file at once, as without BEGIN.
ExecuteAtOnce(p) ==
  /\ pc[p] = "upgrade" /\ next[p] <= Len(Statements) /\ ~Skipped(p, Statement(p))
  /\ writer \in {p, "nobody"} /\ Valid(Statement(p), committed)
  /\ writer' = p /\ next' = [next EXCEPT ![p] = @ + 1]
  /\ committed' = Result(Statement(p), committed)
  /\ work' = [work EXCEPT ![p] = Result(Statement(p), committed)]
  /\ version' = [version EXCEPT ![p] = work'[p].version]
  /\ UNCHANGED <<usable, file, commits, pc, stamp, fresh, starts>>

Execute(p) ==
  /\ pc[p] = "upgrade" /\ next[p] <= Len(Statements) /\ ~Skipped(p, Statement(p))
  /\ MayWrite(p) /\ Valid(Statement(p), work[p])
  /\ writer' = p /\ next' = [next EXCEPT ![p] = @ + 1]
  /\ work' = [work EXCEPT ![p] = Result(Statement(p), @)]
  /\ version' = [version EXCEPT ![p] = work'[p].version]
  /\ UNCHANGED <<usable, file, committed, commits, pc, stamp, fresh, starts>>

Fail(p) ==
  /\ pc[p] = "upgrade" /\ next[p] <= Len(Statements) /\ ~Skipped(p, Statement(p))
  /\ ~MayWrite(p) \/ ~Valid(Statement(p), work[p])
  /\ Go(p, "error")
  /\ UNCHANGED <<disk, transaction, starts>>

Commit(p) == /\ pc[p] = "upgrade" /\ next[p] > Len(Statements)
             /\ Go(p, "ready")
             /\ IF writer = p THEN /\ committed' = work[p] /\ commits' = commits + 1
                                   /\ writer' = "nobody"
                ELSE UNCHANGED <<committed, commits, writer>>
             /\ UNCHANGED <<usable, file, transaction, starts>>

End(p) == writer' = IF writer = p THEN "nobody" ELSE writer

\* An error path that is left only after something has been written.
RollbackWritten(p) ==
  /\ pc[p] \in {"error", "refused", "looping"}
  /\ Go(p, IF pc[p] # "error" THEN "looping" ELSE IF writer = p THEN "failed" ELSE "error")
  /\ End(p)
  /\ UNCHANGED <<usable, file, committed, commits, transaction, starts>>

\* ROLLBACK fails where no transaction is open, and jumps to itself.
Rollback(p) == /\ pc[p] \in {"error", "refused", "looping"}
               /\ Go(p, IF pc[p] = "error" THEN "failed" ELSE "looping")
               /\ End(p)
               /\ UNCHANGED <<usable, file, committed, commits, transaction, starts>>

\* The program is left: the connections of its pool are closed, the last one to the file
\* under an exclusive lock.
Close(p) == /\ pc[p] \in {"ready", "failed"}
            /\ Go(p, "closing")
            /\ UNCHANGED <<disk, transaction, starts>>

\* A process ends, having closed the file or anywhere in the constructor.
Crash(p) == /\ pc[p] \notin {"off", "ready", "failed"}
            /\ Go(p, "off") /\ End(p)
            /\ UNCHANGED <<usable, file, committed, commits, transaction, starts>>

Step(p) == \/ Pragma(p) \/ PragmaBusy(p) \/ Begin(p) \/ BeginBusy(p)
           \/ Skip(p) \/ Execute(p) \/ Fail(p) \/ Commit(p) \/ Rollback(p)
Next == \E p \in Processes : Start(p) \/ Step(p) \/ Close(p) \/ Crash(p)

Spec == Init /\ [][Next]_vars /\ \A p \in Processes : WF_vars(Step(p))
--------------------------------------------------------------------------------
TypeOK == /\ usable \in BOOLEAN /\ file \in Files /\ commits \in 0..MaxStarts
          /\ committed.version \in Versions /\ DOMAIN committed.tables = Tables
          /\ writer \in Processes \cup {"nobody"}
          /\ pc \in [Processes -> Places]
          /\ next \in [Processes -> 1..Len(Statements) + 1]
          /\ \A p \in Processes : work[p].version \in Versions /\ stamp[p] \in 0..commits
          /\ version \in [Processes -> Versions] /\ fresh \in [Processes -> BOOLEAN]
          /\ starts \in 0..MaxStarts

\* Whatever is interrupted or fails, the file has the tables and columns of the version
\* that it says it has, and the next start can go on from there.
FormatMatches ==
  committed # file =>
    \A t \in Tables : Columns(committed, t) = Format(committed.version, t)

\* No upgrade loses or mixes up values: what was in a column of the file at first is
\* in the column of this name, in the table that has it now.
ValuesSurvive ==
  \A t \in {"store", "image"} : \A c \in Columns(file, t) :
    \E u \in {"store", "image"} : c \in Columns(committed, u) /\ committed.tables[u][c] = c

\* An upgraded file is whole, in its format and in its values, wherever the upgrade
\* was interrupted (the constructor of ImageDao).
DatabaseWhole == FormatMatches /\ ValuesSurvive

\* A statement fails only when another process is upgrading the file or has just done so.
FailsOnlyContended ==
  [][\A p \in Processes : pc[p] = "upgrade" /\ pc'[p] = "error"
       => writer \notin {p, "nobody"} \/ committed.version = 13]_vars

\* Once BEGIN has succeeded the constructor returns, whichever statement fails; before, a
\* start on a usable file is held up only where another process opens or closes the file
\* meanwhile (the label error of the constructor of ImageDao).
StartsReturn ==
  \A p \in Processes :
    /\ pc[p] \in {"begin", "upgrade"} ~> pc[p] \in Returned
    /\ (usable /\ pc[p] = "pragma") ~> (pc[p] \in Returned \/ Hindered(p))

\* The error path ends in "return" (imagedao.cpp 149).
EveryStartReturns ==
  \A p \in Processes : pc[p] \in {"error", "refused", "looping"} ~> pc[p] \in Returned
==================================================================================
