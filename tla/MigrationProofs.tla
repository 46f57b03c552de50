----------------------------- MODULE MigrationProofs -----------------------------
(***************************************************************************)
(* Proofs about the upgrade, for any number of processes and of starts: a  *)
(* database file is whole whatever is interrupted and wherever, and a      *)
(* statement fails only where processes compete.  What a transaction has   *)
(* made of the file is said for each place in the list of statements.      *)
(***************************************************************************)
EXTENDS Migration, TLAPS

Last == 27   \* the place behind the last statement

\* The versions a database can have before statement n is carried out.
Before(n) == IF n <= 4 THEN {0} ELSE IF n <= 8 THEN {1} ELSE IF n <= 10 THEN {2}
             ELSE IF n <= 17 THEN {3} ELSE IF n <= 19 THEN {4} ELSE IF n <= 21 THEN {5, 10}
             ELSE IF n <= 23 THEN {11} ELSE IF n <= 26 THEN {12} ELSE {13}

\* The columns that table t has before statement n is carried out.
ColumnsAt(n, t) ==
  CASE t = "store" ->
         IF n = 1 \/ n = 16 THEN {} ELSE IF n > 16 THEN {"id", "hash", "image"}
         ELSE {"id", "hash", "date", "image"} \cup (IF n > 5 THEN {"width"} ELSE {})
                \cup (IF n > 6 THEN {"height"} ELSE {}) \cup (IF n > 7 THEN {"origin_url"} ELSE {})
                \cup (IF n > 9 THEN {"phash"} ELSE {})
    [] t = "new_store" -> IF n \in 12..16 THEN {"id", "hash", "image"} ELSE {}
    [] t = "image" ->
         IF n <= 12 THEN {}
         ELSE {"id", "date", "width", "height", "phash", "origin_url"}
                \cup (IF n > 18 THEN {"deleted"} ELSE {}) \cup (IF n > 22 THEN {"format"} ELSE {})
                \cup (IF n > 24 THEN {"filesize"} ELSE {})
                \cup (IF n > 25 THEN {"pixelformat"} ELSE {})
    [] t = "tag"   -> IF n <= 2 THEN {} ELSE {"id", "tag"}
    [] t = "meta"  -> IF n <= 3 THEN {} ELSE {"key", "type", "value"}
    [] t = "thumb" -> IF n <= 20 THEN {} ELSE {"id", "image"}

IsDb(d) == /\ d = [version |-> d.version, tables |-> d.tables]
           /\ d.tables = [t \in Tables |-> d.tables[t]]

\* Table t has the columns C with their first values.
Holds(d, t, C) == \A c \in C : c \in Columns(d, t) /\ d.tables[t][c] = c

\* The columns of the old table store that stay in it, and those that go to table image.
Staying(f) == Columns(f, "store") \cap {"id", "hash", "image"}
Leaving(f) == Columns(f, "store") \ {"hash", "image"}

\* No value of the file f is lost in d, where statement n is the next.
Survives(f, d, n) ==
  /\ n <= 15 => Holds(d, "store", Columns(f, "store"))
  /\ n <= 17 => Columns(f, "image") = {}
  /\ n \in 14..16 => Holds(d, "new_store", Staying(f))
  /\ n > 16 => Holds(d, "store", Staying(f))
  /\ n > 14 => Holds(d, "image", Columns(f, "image") \cup Leaving(f))

Shaped(d, n) ==
  /\ IsDb(d) /\ d.version \in Before(n)
  /\ \A t \in Tables : \/ Columns(d, t) = ColumnsAt(n, t)
                       \/ t = "thumb" /\ n <= 20 /\ Columns(d, t) = {"id", "image"}

\* d is what the file f has become when statement n is the next to be carried out.
Between(f, d, n) == Shaped(d, n) /\ Survives(f, d, n)

\* The file is as it was, or has been upgraded, once.
Settled == \/ commits = 0 /\ committed = file
           \/ commits = 1 /\ starts >= 1 /\ Between(file, committed, Last)

\* A transaction whose snapshot is the file as it was.
OfOld(p) == \/ /\ next[p] = 1 /\ work[p] = file
               /\ fresh[p] <=> ~Exists(file, "store")
            \/ /\ next[p] \in 2..Last /\ Between(file, work[p], next[p])
               /\ next[p] = 2 => fresh[p]

\* One whose snapshot is the upgraded file.
OfNew(p) == next[p] \in {1, Last} /\ Between(file, work[p], Last) /\ ~fresh[p]

Upgrading(p) ==
  /\ pc[p] # "off" => starts >= 1
  /\ writer = p => pc[p] \in {"upgrade", "error"} /\ stamp[p] = 0 /\ commits = 0
  /\ pc[p] = "upgrade" => /\ version[p] = work[p].version
                          /\ \/ stamp[p] = 0 /\ OfOld(p)
                             \/ stamp[p] = 1 /\ OfNew(p)

IInv == /\ TypeOK /\ Settled
        /\ DOMAIN work = Processes /\ DOMAIN stamp = Processes
        /\ \A p \in Processes : Upgrading(p)
--------------------------------------------------------------------------------
(* The list of statements. *)

ImageColumns4 == {"id", "date", "width", "height", "phash", "origin_url"}

\* q is the k things of s and then the l things of t.
JoinedTo(q, s, t, k, l) == /\ Len(q) = k + l
                           /\ \A n \in 1..k : q[n] = s[n]
                           /\ \A n \in 1..l : q[k + n] = t[n]

LEMMA Joined ==
  ASSUME NEW S, NEW s \in Seq(S), NEW t \in Seq(S), NEW k \in Nat, NEW l \in Nat,
         Len(s) = k, Len(t) = l
  PROVE  s \o t \in Seq(S) /\ JoinedTo(s \o t, s, t, k, l)
<1>1. s \o t \in Seq(S) /\ Len(s \o t) = k + l
  OBVIOUS
<1>2. \A n \in 1..k : (s \o t)[n] = s[n]
  OBVIOUS
<1>3. \A n \in 1..l : (s \o t)[k + n] = t[n]
  OBVIOUS
<1> QED
  BY <1>1, <1>2, <1>3 DEF JoinedTo

\* s is a list of k things.
Lists(s, k) == k \in Nat /\ Len(s) = k /\ s = [n \in 1..k |-> s[n]]

LEMMA InSeq ==
  ASSUME NEW k, NEW s, Lists(s, k), NEW S, \A n \in 1..k : s[n] \in S
  PROVE  s \in Seq(S) /\ k \in Nat /\ Len(s) = k
  BY DEF Lists

\* The statements for the versions to 3, and from 5 on.
Blocks0to3 ==
  << <<0, "CREATE", "store", {"id", "hash", "date", "image"}>>,
     <<0, "CREATE", "tag", {"id", "tag"}>>,
     <<1, "CREATE", "meta", {"key", "type", "value"}>>,
     <<1, "metaPut">>,
     <<2, "ADD", "store", {"width"}>>,
     <<2, "ADD", "store", {"height"}>>,
     <<2, "ADD", "store", {"origin_url"}>>,
     <<2, "metaPut">>,
     <<3, "ADD", "store", {"phash"}>>,
     <<3, "metaPut">> >>
Blocks5to13 ==
  << <<5, "ADD", "image", {"deleted"}>>,
     <<5, "metaPut">>,
     <<11, "CREATE IF NOT EXISTS", "thumb", {"id", "image"}>>,
     <<11, "metaPut">>,
     <<12, "ADD", "image", {"format"}>>,
     <<12, "metaPut">>,
     <<13, "ADD", "image", {"filesize"}>>,
     <<13, "ADD", "image", {"pixelformat"}>>,
     <<13, "metaPut">> >>

LEMMA Blocks0to3At ==
  /\ Lists(Blocks0to3, 10)
  /\ Blocks0to3[1] = <<0, "CREATE", "store", {"id", "hash", "date", "image"}>>
  /\ Blocks0to3[2] = <<0, "CREATE", "tag", {"id", "tag"}>>
  /\ Blocks0to3[3] = <<1, "CREATE", "meta", {"key", "type", "value"}>>
  /\ Blocks0to3[4] = <<1, "metaPut">>
  /\ Blocks0to3[5] = <<2, "ADD", "store", {"width"}>>
  /\ Blocks0to3[6] = <<2, "ADD", "store", {"height"}>>
  /\ Blocks0to3[7] = <<2, "ADD", "store", {"origin_url"}>>
  /\ Blocks0to3[8] = <<2, "metaPut">>
  /\ Blocks0to3[9] = <<3, "ADD", "store", {"phash"}>>
  /\ Blocks0to3[10] = <<3, "metaPut">>
<1>1. Len(Blocks0to3) = 10 /\ Blocks0to3 = [n \in 1..10 |-> Blocks0to3[n]]
  BY DEF Blocks0to3
<1>2. Lists(Blocks0to3, 10)
  BY <1>1 DEF Lists
<1>3. /\ Blocks0to3[1] = <<0, "CREATE", "store", {"id", "hash", "date", "image"}>>
      /\ Blocks0to3[2] = <<0, "CREATE", "tag", {"id", "tag"}>>
      /\ Blocks0to3[3] = <<1, "CREATE", "meta", {"key", "type", "value"}>>
      /\ Blocks0to3[4] = <<1, "metaPut">>
      /\ Blocks0to3[5] = <<2, "ADD", "store", {"width"}>>
      /\ Blocks0to3[6] = <<2, "ADD", "store", {"height"}>>
      /\ Blocks0to3[7] = <<2, "ADD", "store", {"origin_url"}>>
      /\ Blocks0to3[8] = <<2, "metaPut">>
      /\ Blocks0to3[9] = <<3, "ADD", "store", {"phash"}>>
      /\ Blocks0to3[10] = <<3, "metaPut">>
  BY DEF Blocks0to3
<1> QED
  BY <1>2, <1>3

LEMMA Block4At ==
  /\ Lists(Block4, 7)
  /\ Block4[1] = <<4, "CREATE", "new_store", {"id", "hash", "image"}>>
  /\ Block4[2] = <<4, "CREATE", "image", ImageColumns4>>
  /\ Block4[3] = <<4, "INSERT", "new_store", "store">>
  /\ Block4[4] = <<4, "INSERT", "image", "store">>
  /\ Block4[5] = <<4, "DROP", "store">>
  /\ Block4[6] = <<4, "RENAME", "store", "new_store">>
  /\ Block4[7] = <<4, "metaPut">>
<1>1. Len(Block4) = 7 /\ Block4 = [n \in 1..7 |-> Block4[n]]
  BY DEF Block4
<1>2. Lists(Block4, 7)
  BY <1>1 DEF Lists
<1>3. /\ Block4[1] = <<4, "CREATE", "new_store", {"id", "hash", "image"}>>
      /\ Block4[2] = <<4, "CREATE", "image", ImageColumns4>>
      /\ Block4[3] = <<4, "INSERT", "new_store", "store">>
      /\ Block4[4] = <<4, "INSERT", "image", "store">>
      /\ Block4[5] = <<4, "DROP", "store">>
      /\ Block4[6] = <<4, "RENAME", "store", "new_store">>
      /\ Block4[7] = <<4, "metaPut">>
  BY DEF Block4, ImageColumns4
<1> QED
  BY <1>2, <1>3

LEMMA Blocks5to13At ==
  /\ Lists(Blocks5to13, 9)
  /\ Blocks5to13[1] = <<5, "ADD", "image", {"deleted"}>>
  /\ Blocks5to13[2] = <<5, "metaPut">>
  /\ Blocks5to13[3] = <<11, "CREATE IF NOT EXISTS", "thumb", {"id", "image"}>>
  /\ Blocks5to13[4] = <<11, "metaPut">>
  /\ Blocks5to13[5] = <<12, "ADD", "image", {"format"}>>
  /\ Blocks5to13[6] = <<12, "metaPut">>
  /\ Blocks5to13[7] = <<13, "ADD", "image", {"filesize"}>>
  /\ Blocks5to13[8] = <<13, "ADD", "image", {"pixelformat"}>>
  /\ Blocks5to13[9] = <<13, "metaPut">>
<1>1. Len(Blocks5to13) = 9 /\ Blocks5to13 = [n \in 1..9 |-> Blocks5to13[n]]
  BY DEF Blocks5to13
<1>2. Lists(Blocks5to13, 9)
  BY <1>1 DEF Lists
<1>3. /\ Blocks5to13[1] = <<5, "ADD", "image", {"deleted"}>>
      /\ Blocks5to13[2] = <<5, "metaPut">>
      /\ Blocks5to13[3] = <<11, "CREATE IF NOT EXISTS", "thumb", {"id", "image"}>>
      /\ Blocks5to13[4] = <<11, "metaPut">>
      /\ Blocks5to13[5] = <<12, "ADD", "image", {"format"}>>
      /\ Blocks5to13[6] = <<12, "metaPut">>
      /\ Blocks5to13[7] = <<13, "ADD", "image", {"filesize"}>>
      /\ Blocks5to13[8] = <<13, "ADD", "image", {"pixelformat"}>>
      /\ Blocks5to13[9] = <<13, "metaPut">>
  BY DEF Blocks5to13
<1> QED
  BY <1>2, <1>3

Concats(d, a, b, c, k, l, m) == /\ Len(d) = k + l + m
                                /\ \A n \in 1..k : d[n] = a[n]
                                /\ \A n \in 1..l : d[k + n] = b[n]
                                /\ \A n \in 1..m : d[k + l + n] = c[n]

LEMMA Concatenated ==
  ASSUME NEW a, NEW b, NEW c, NEW k, NEW l, NEW m, Lists(a, k), Lists(b, l), Lists(c, m),
         NEW d, d = (a \o b) \o c
  PROVE  Concats(d, a, b, c, k, l, m)
<1>1. PICK S : S = {a[n] : n \in 1..k} \cup {b[n] : n \in 1..l} \cup {c[n] : n \in 1..m}
  OBVIOUS
<1>2. /\ a \in Seq(S) /\ k \in Nat /\ Len(a) = k
      /\ b \in Seq(S) /\ l \in Nat /\ Len(b) = l
      /\ c \in Seq(S) /\ m \in Nat /\ Len(c) = m
  <2>1. \A n \in 1..k : a[n] \in S
    BY <1>1
  <2>2. \A n \in 1..l : b[n] \in S
    BY <1>1
  <2>3. \A n \in 1..m : c[n] \in S
    BY <1>1
  <2> QED
    BY <2>1, <2>2, <2>3, InSeq, Zenon
<1>3. PICK e : e = a \o b
  OBVIOUS
<1>4. e \in Seq(S) /\ JoinedTo(e, a, b, k, l)
  BY <1>2, <1>3, Joined, Zenon
<1>5. d = e \o c /\ k + l \in Nat /\ Len(e) = k + l
  BY <1>2, <1>3, <1>4 DEF JoinedTo
<1>6. JoinedTo(d, e, c, k + l, m)
  BY <1>2, <1>4, <1>5, Joined, Zenon
<1>7. \A n \in 1..k : n \in 1..(k + l)
  BY <1>2
<1>8. \A n \in 1..l : k + n \in 1..(k + l)
  BY <1>2
<1> QED
  BY <1>4, <1>6, <1>7, <1>8 DEF JoinedTo, Concats

LEMMA Listed ==
  /\ Len(Statements) = 26
  /\ Statements[1] = <<0, "CREATE", "store", {"id", "hash", "date", "image"}>>
  /\ Statements[2] = <<0, "CREATE", "tag", {"id", "tag"}>>
  /\ Statements[3] = <<1, "CREATE", "meta", {"key", "type", "value"}>>
  /\ Statements[4] = <<1, "metaPut">>
  /\ Statements[5] = <<2, "ADD", "store", {"width"}>>
  /\ Statements[6] = <<2, "ADD", "store", {"height"}>>
  /\ Statements[7] = <<2, "ADD", "store", {"origin_url"}>>
  /\ Statements[8] = <<2, "metaPut">>
  /\ Statements[9] = <<3, "ADD", "store", {"phash"}>>
  /\ Statements[10] = <<3, "metaPut">>
  /\ Statements[11] = <<4, "CREATE", "new_store", {"id", "hash", "image"}>>
  /\ Statements[12] = <<4, "CREATE", "image", ImageColumns4>>
  /\ Statements[13] = <<4, "INSERT", "new_store", "store">>
  /\ Statements[14] = <<4, "INSERT", "image", "store">>
  /\ Statements[15] = <<4, "DROP", "store">>
  /\ Statements[16] = <<4, "RENAME", "store", "new_store">>
  /\ Statements[17] = <<4, "metaPut">>
  /\ Statements[18] = <<5, "ADD", "image", {"deleted"}>>
  /\ Statements[19] = <<5, "metaPut">>
  /\ Statements[20] = <<11, "CREATE IF NOT EXISTS", "thumb", {"id", "image"}>>
  /\ Statements[21] = <<11, "metaPut">>
  /\ Statements[22] = <<12, "ADD", "image", {"format"}>>
  /\ Statements[23] = <<12, "metaPut">>
  /\ Statements[24] = <<13, "ADD", "image", {"filesize"}>>
  /\ Statements[25] = <<13, "ADD", "image", {"pixelformat"}>>
  /\ Statements[26] = <<13, "metaPut">>
<1>1. Statements = (Blocks0to3 \o Block4) \o Blocks5to13
  BY DEF Statements, Blocks0to3, Blocks5to13
<1>2. /\ Len(Statements) = 10 + 7 + 9
      /\ \A n \in 1..10 : Statements[n] = Blocks0to3[n]
      /\ \A n \in 1..7 : Statements[10 + n] = Block4[n]
      /\ \A n \in 1..9 : Statements[10 + 7 + n] = Blocks5to13[n]
  <2>1. Lists(Blocks0to3, 10) /\ Lists(Block4, 7) /\ Lists(Blocks5to13, 9)
    BY Blocks0to3At, Block4At, Blocks5to13At, Zenon
  <2>2. Concats(Statements, Blocks0to3, Block4, Blocks5to13, 10, 7, 9)
    BY <1>1, <2>1, Concatenated, Zenon
  <2> QED
    BY <2>2 DEF Concats
<1>3. Len(Statements) = 26
  BY <1>2
<1>4. /\ Statements[1] = Blocks0to3[1]
      /\ Statements[2] = Blocks0to3[2]
      /\ Statements[3] = Blocks0to3[3]
      /\ Statements[4] = Blocks0to3[4]
      /\ Statements[5] = Blocks0to3[5]
      /\ Statements[6] = Blocks0to3[6]
      /\ Statements[7] = Blocks0to3[7]
      /\ Statements[8] = Blocks0to3[8]
      /\ Statements[9] = Blocks0to3[9]
      /\ Statements[10] = Blocks0to3[10]
  BY <1>2
<1>5. /\ Statements[11] = Block4[1]
      /\ Statements[12] = Block4[2]
      /\ Statements[13] = Block4[3]
      /\ Statements[14] = Block4[4]
      /\ Statements[15] = Block4[5]
      /\ Statements[16] = Block4[6]
      /\ Statements[17] = Block4[7]
  BY <1>2
<1>6. /\ Statements[18] = Blocks5to13[1]
      /\ Statements[19] = Blocks5to13[2]
      /\ Statements[20] = Blocks5to13[3]
      /\ Statements[21] = Blocks5to13[4]
      /\ Statements[22] = Blocks5to13[5]
      /\ Statements[23] = Blocks5to13[6]
      /\ Statements[24] = Blocks5to13[7]
      /\ Statements[25] = Blocks5to13[8]
      /\ Statements[26] = Blocks5to13[9]
  BY <1>2
<1> QED
  BY <1>3, <1>4, <1>5, <1>6, Blocks0to3At, Block4At, Blocks5to13At
--------------------------------------------------------------------------------
(* What a statement does to a database. *)

\* e is d but for table t, which is now as given.
SetsTable(d, e, t, table) ==
  /\ IsDb(e) /\ e.version = d.version /\ e.tables[t] = table
  /\ \A u \in Tables : u # t => e.tables[u] = d.tables[u]

\* No table of d has lost columns or values in e.
Grows(d, e) == \A u \in Tables : \A c \in Columns(d, u) :
                 c \in Columns(e, u) /\ e.tables[u][c] = d.tables[u][c]

LEMMA TableSet ==
  ASSUME NEW d, IsDb(d), NEW t \in Tables, NEW table, NEW e, e = [d EXCEPT !.tables[t] = table]
  PROVE  SetsTable(d, e, t, table)
<1>1. PICK T : T = d.tables
  OBVIOUS
<1>2. PICK v : v = d.version
  OBVIOUS
<1>3. d = [version |-> v, tables |-> T] /\ T = [u \in Tables |-> T[u]]
  BY <1>1, <1>2 DEF IsDb
<1>4. PICK U : U = [T EXCEPT ![t] = table]
  OBVIOUS
<1>5. e = [version |-> v, tables |-> U]
  BY <1>3, <1>4
<1>6. U = [u \in Tables |-> U[u]] /\ U[t] = table /\ \A u \in Tables : u # t => U[u] = T[u]
  BY <1>3, <1>4
<1>7. e.version = v /\ e.tables = U
  BY <1>5
<1>8. IsDb(e)
  BY <1>5, <1>6, <1>7 DEF IsDb
<1> QED
  BY <1>1, <1>2, <1>6, <1>7, <1>8 DEF SetsTable

LEMMA VersionPut ==
  ASSUME NEW d, IsDb(d), NEW v, NEW s, s = <<v, "metaPut">>, NEW e, e = Result(s, d)
  PROVE  Valid(s, d) /\ IsDb(e) /\ e.version = v /\ e.tables = d.tables
<1>1. s[1] = v /\ s[2] = "metaPut"
  OBVIOUS
<1>2. e = [d EXCEPT !.version = v] /\ Valid(s, d)
  BY <1>1 DEF Result, Valid
<1>3. d = [version |-> d.version, tables |-> d.tables] /\ d.tables = [t \in Tables |-> d.tables[t]]
  BY DEF IsDb
<1>4. PICK T : T = d.tables
  OBVIOUS
<1>5. e = [version |-> v, tables |-> T]
  BY <1>2, <1>3, <1>4
<1>6. e.version = v /\ e.tables = T
  BY <1>5
<1> QED
  BY <1>2, <1>3, <1>4, <1>5, <1>6 DEF IsDb

\* e is d with the columns C added to table t.
Extends(d, e, t, C) == /\ IsDb(e) /\ e.version = d.version /\ Grows(d, e)
                       /\ Columns(e, t) = Columns(d, t) \cup C
                       /\ \A u \in Tables : u # t => Columns(e, u) = Columns(d, u)

LEMMA ColumnsAdded ==
  ASSUME NEW d, IsDb(d), NEW v, NEW op \in {"CREATE", "ADD", "CREATE IF NOT EXISTS"},
         NEW t \in Tables, NEW C, NEW s, s = <<v, op, t, C>>, NEW e, e = Result(s, d)
  PROVE  Extends(d, e, t, C)
<1>1. s[2] = op /\ s[3] = t /\ s[4] = C
  OBVIOUS
<1>2. e = [d EXCEPT !.tables[t] = WithNull(@, C)]
  BY <1>1 DEF Result
<1>3. PICK table : table = WithNull(d.tables[t], C)
  OBVIOUS
<1>4. e = [d EXCEPT !.tables[t] = table]
  BY <1>2, <1>3
<1>5. SetsTable(d, e, t, table)
  BY <1>4, TableSet
<1>6. /\ DOMAIN table = DOMAIN d.tables[t] \cup C
      /\ \A c \in DOMAIN d.tables[t] : table[c] = d.tables[t][c]
  BY <1>3 DEF WithNull
<1>7. IsDb(e) /\ e.version = d.version /\ e.tables[t] = table
  BY <1>5 DEF SetsTable
<1>8. \A u \in Tables : u # t => e.tables[u] = d.tables[u]
  BY <1>5 DEF SetsTable
<1>9. Columns(e, t) = Columns(d, t) \cup C
  BY <1>6, <1>7 DEF Columns
<1>10. Grows(d, e)
  BY <1>6, <1>7, <1>8 DEF Grows, Columns
<1> QED
  BY <1>7, <1>8, <1>9, <1>10 DEF Extends, Columns

LEMMA GrownSurvives ==
  ASSUME NEW f, NEW d, NEW e, NEW n \in (1..12) \cup (17..26), Survives(f, d, n), Grows(d, e)
  PROVE  Survives(f, e, n + 1)
<1>1. \A u \in Tables : \A C : Holds(d, u, C) => Holds(e, u, C)
  BY DEF Grows, Holds
<1>2. {"store", "image"} \subseteq Tables
  BY DEF Tables
<1>3. CASE n \in 1..12
  <2>1. /\ n <= 15 /\ n <= 17 /\ n + 1 <= 15 /\ n + 1 <= 17
        /\ n + 1 \notin 14..16 /\ ~ (n + 1 > 16) /\ ~ (n + 1 > 14)
    BY <1>3
  <2> QED
    BY <1>1, <1>2, <2>1 DEF Survives
<1>4. CASE n \in 17..26
  <2>1. /\ n > 16 /\ n > 14 /\ n + 1 > 16 /\ n + 1 > 14 /\ ~ (n + 1 <= 15) /\ ~ (n + 1 <= 17)
        /\ n + 1 \notin 14..16
    BY <1>4
  <2> QED
    BY <1>1, <1>2, <2>1 DEF Survives
<1> QED
  BY <1>3, <1>4
--------------------------------------------------------------------------------
(* Each statement leads from its place in the list to the next. *)

\* Statement n adds the columns C to table t; statement n sets the version v.
AddsAt(n, t, C) ==
  /\ Before(n + 1) = Before(n) /\ ColumnsAt(n + 1, t) = ColumnsAt(n, t) \cup C
  /\ \A u \in Tables : u # t => ColumnsAt(n + 1, u) = ColumnsAt(n, u)
  /\ t = "thumb" <=> n = 20
PutsAt(n, v) == /\ v \in Before(n + 1) /\ n # 20
                /\ \A u \in Tables : ColumnsAt(n + 1, u) = ColumnsAt(n, u)

LEMMA PlaceIsNat ==
  ASSUME NEW n \in (1..12) \cup (17..26)
  PROVE  n \in Nat
  OBVIOUS

LEMMA BelowTwenty ==
  ASSUME NEW n \in Nat, n <= 20, n # 20
  PROVE  n + 1 <= 20
  OBVIOUS

LEMMA AddKeeps ==
  ASSUME NEW f, NEW d, NEW n \in (1..12) \cup (17..26), Between(f, d, n), NEW v,
         NEW op \in {"CREATE", "ADD", "CREATE IF NOT EXISTS"}, NEW t \in Tables, NEW C,
         AddsAt(n, t, C), t = "thumb" => C = {"id", "image"},
         NEW s, s = <<v, op, t, C>>, NEW e, e = Result(s, d)
  PROVE  Between(f, e, n + 1)
<1>1. /\ IsDb(d) /\ d.version \in Before(n) /\ Survives(f, d, n)
      /\ \A u \in Tables : \/ Columns(d, u) = ColumnsAt(n, u)
                           \/ u = "thumb" /\ n <= 20 /\ Columns(d, u) = {"id", "image"}
  BY DEF Between, Shaped
<1>2. /\ IsDb(e) /\ e.version = d.version /\ Grows(d, e)
      /\ Columns(e, t) = Columns(d, t) \cup C
      /\ \A u \in Tables : u # t => Columns(e, u) = Columns(d, u)
  <2>1. Extends(d, e, t, C)
    BY <1>1, ColumnsAdded
  <2> QED
    BY <2>1 DEF Extends
<1>3. Survives(f, e, n + 1)
  BY <1>1, <1>2, GrownSurvives
<1>4. ASSUME NEW u \in Tables
      PROVE  \/ Columns(e, u) = ColumnsAt(n + 1, u)
             \/ u = "thumb" /\ n + 1 <= 20 /\ Columns(e, u) = {"id", "image"}
  <2>1. CASE u = t /\ t # "thumb"
    BY <1>1, <1>2, <2>1 DEF AddsAt
  <2>2. CASE u = t /\ t = "thumb"
    <3>1. /\ ColumnsAt(n + 1, t) = ColumnsAt(n, t) \cup {"id", "image"}
          /\ Columns(e, t) = Columns(d, t) \cup {"id", "image"}
      BY <1>2, <2>2 DEF AddsAt
    <3>2. ColumnsAt(n, t) \in {{}, {"id", "image"}}
      BY <2>2 DEF ColumnsAt
    <3>3. Columns(d, t) = ColumnsAt(n, t) \/ Columns(d, t) = {"id", "image"}
      BY <1>1, <2>2
    <3> QED
      BY <2>2, <3>1, <3>2, <3>3
  <2>3. CASE u # t
    <3>1. Columns(e, u) = Columns(d, u) /\ ColumnsAt(n + 1, u) = ColumnsAt(n, u)
      BY <1>2, <2>3 DEF AddsAt
    <3>2. u = "thumb" => n # 20
      BY <2>3 DEF AddsAt
    <3>3. \/ Columns(d, u) = ColumnsAt(n, u)
          \/ u = "thumb" /\ n <= 20 /\ Columns(d, u) = {"id", "image"}
      BY <1>1
    <3>4. n \in Nat
      BY PlaceIsNat, Zenon
    <3>5. CASE Columns(d, u) = ColumnsAt(n, u)
      BY <3>1, <3>5
    <3>6. CASE u = "thumb" /\ n <= 20 /\ Columns(d, u) = {"id", "image"}
      BY <3>1, <3>2, <3>4, <3>6, BelowTwenty
    <3> QED
      BY <3>3, <3>5, <3>6
  <2> QED
    BY <2>1, <2>2, <2>3
<1>5. e.version \in Before(n + 1)
  BY <1>1, <1>2 DEF AddsAt
<1> QED
  BY <1>2, <1>3, <1>4, <1>5 DEF Between, Shaped

LEMMA PutKeeps ==
  ASSUME NEW f, NEW d, NEW n \in (1..12) \cup (17..26), Between(f, d, n), NEW v, PutsAt(n, v),
         NEW s, s = <<v, "metaPut">>, NEW e, e = Result(s, d)
  PROVE  Valid(s, d) /\ Between(f, e, n + 1)
<1>1. /\ IsDb(d) /\ Survives(f, d, n)
      /\ \A u \in Tables : \/ Columns(d, u) = ColumnsAt(n, u)
                           \/ u = "thumb" /\ n <= 20 /\ Columns(d, u) = {"id", "image"}
  BY DEF Between, Shaped
<1>2. Valid(s, d) /\ IsDb(e) /\ e.version = v /\ e.tables = d.tables
  BY <1>1, VersionPut
<1>3. Grows(d, e) /\ \A u \in Tables : Columns(e, u) = Columns(d, u)
  BY <1>2 DEF Grows, Columns
<1>4. Survives(f, e, n + 1)
  BY <1>1, <1>3, GrownSurvives
<1>5. ASSUME NEW u \in Tables
      PROVE  \/ Columns(e, u) = ColumnsAt(n + 1, u)
             \/ u = "thumb" /\ n + 1 <= 20 /\ Columns(e, u) = {"id", "image"}
  <2>1. Columns(e, u) = Columns(d, u) /\ ColumnsAt(n + 1, u) = ColumnsAt(n, u) /\ n # 20
    BY <1>3 DEF PutsAt
  <2>2. \/ Columns(d, u) = ColumnsAt(n, u)
        \/ u = "thumb" /\ n <= 20 /\ Columns(d, u) = {"id", "image"}
    BY <1>1
  <2>3. n \in Nat
    BY PlaceIsNat, Zenon
  <2> QED
    BY <2>1, <2>2, <2>3, BelowTwenty
<1>6. v \in Before(n + 1)
  BY DEF PutsAt
<1> QED
  BY <1>2, <1>4, <1>5, <1>6 DEF Between, Shaped

LEMMA Additions ==
  /\ AddsAt(1, "store", {"id", "hash", "date", "image"})
  /\ AddsAt(2, "tag", {"id", "tag"})
  /\ AddsAt(3, "meta", {"key", "type", "value"})
  /\ AddsAt(5, "store", {"width"})
  /\ AddsAt(6, "store", {"height"})
  /\ AddsAt(7, "store", {"origin_url"})
  /\ AddsAt(9, "store", {"phash"})
  /\ AddsAt(11, "new_store", {"id", "hash", "image"})
  /\ AddsAt(12, "image", ImageColumns4)
  /\ AddsAt(18, "image", {"deleted"})
  /\ AddsAt(20, "thumb", {"id", "image"})
  /\ AddsAt(22, "image", {"format"})
  /\ AddsAt(24, "image", {"filesize"})
  /\ AddsAt(25, "image", {"pixelformat"})
<1>1. AddsAt(1, "store", {"id", "hash", "date", "image"})
  BY DEF AddsAt, Before, ColumnsAt, Tables
<1>2. AddsAt(2, "tag", {"id", "tag"})
  BY DEF AddsAt, Before, ColumnsAt, Tables
<1>3. AddsAt(3, "meta", {"key", "type", "value"})
  BY DEF AddsAt, Before, ColumnsAt, Tables
<1>4. AddsAt(5, "store", {"width"})
  BY DEF AddsAt, Before, ColumnsAt, Tables
<1>5. AddsAt(6, "store", {"height"})
  BY DEF AddsAt, Before, ColumnsAt, Tables
<1>6. AddsAt(7, "store", {"origin_url"})
  BY DEF AddsAt, Before, ColumnsAt, Tables
<1>7. AddsAt(9, "store", {"phash"})
  BY DEF AddsAt, Before, ColumnsAt, Tables
<1>8. AddsAt(11, "new_store", {"id", "hash", "image"})
  BY DEF AddsAt, Before, ColumnsAt, Tables
<1>9. AddsAt(12, "image", ImageColumns4)
  BY DEF AddsAt, Before, ColumnsAt, Tables, ImageColumns4
<1>10. AddsAt(18, "image", {"deleted"})
  BY DEF AddsAt, Before, ColumnsAt, Tables
<1>11. AddsAt(20, "thumb", {"id", "image"})
  BY DEF AddsAt, Before, ColumnsAt, Tables
<1>12. AddsAt(22, "image", {"format"})
  BY DEF AddsAt, Before, ColumnsAt, Tables
<1>13. AddsAt(24, "image", {"filesize"})
  BY DEF AddsAt, Before, ColumnsAt, Tables
<1>14. AddsAt(25, "image", {"pixelformat"})
  BY DEF AddsAt, Before, ColumnsAt, Tables
<1> QED
  BY <1>1, <1>2, <1>3, <1>4, <1>5, <1>6, <1>7, <1>8, <1>9, <1>10, <1>11, <1>12, <1>13, <1>14

LEMMA Puts ==
  /\ PutsAt(4, 1)
  /\ PutsAt(8, 2)
  /\ PutsAt(10, 3)
  /\ PutsAt(17, 4)
  /\ PutsAt(19, 5)
  /\ PutsAt(21, 11)
  /\ PutsAt(23, 12)
  /\ PutsAt(26, 13)
<1>1. PutsAt(4, 1)
  BY DEF PutsAt, Before, ColumnsAt, Tables
<1>2. PutsAt(8, 2)
  BY DEF PutsAt, Before, ColumnsAt, Tables
<1>3. PutsAt(10, 3)
  BY DEF PutsAt, Before, ColumnsAt, Tables
<1>4. PutsAt(17, 4)
  BY DEF PutsAt, Before, ColumnsAt, Tables
<1>5. PutsAt(19, 5)
  BY DEF PutsAt, Before, ColumnsAt, Tables
<1>6. PutsAt(21, 11)
  BY DEF PutsAt, Before, ColumnsAt, Tables
<1>7. PutsAt(23, 12)
  BY DEF PutsAt, Before, ColumnsAt, Tables
<1>8. PutsAt(26, 13)
  BY DEF PutsAt, Before, ColumnsAt, Tables
<1> QED
  BY <1>1, <1>2, <1>3, <1>4, <1>5, <1>6, <1>7, <1>8
--------------------------------------------------------------------------------
(* The statements that rebuild table store. *)

LEMMA CopyKeeps ==
  ASSUME NEW f, NEW d, NEW n \in {13, 14}, Between(f, d, n), NEW v,
         NEW t, t = (IF n = 13 THEN "new_store" ELSE "image"),
         NEW s, s = <<v, "INSERT", t, "store">>, NEW e, e = Result(s, d)
  PROVE  Valid(s, d) /\ Between(f, e, n + 1)
<1>1. s[2] = "INSERT" /\ s[3] = t /\ s[4] = "store"
  OBVIOUS
<1>2. t \in Tables /\ "store" \in Tables /\ t # "store" /\ t # "thumb"
  BY DEF Tables
<1>3. PICK table : table = [c \in DOMAIN d.tables[t] |-> d.tables["store"][c]]
  OBVIOUS
<1>4. e = [d EXCEPT !.tables[t] = table]
  BY <1>1, <1>3 DEF Result
<1>5. /\ IsDb(d) /\ d.version \in Before(n)
      /\ \A u \in Tables : \/ Columns(d, u) = ColumnsAt(n, u)
                           \/ u = "thumb" /\ n <= 20 /\ Columns(d, u) = {"id", "image"}
  BY DEF Between, Shaped
<1>6. /\ IsDb(e) /\ e.version = d.version /\ e.tables[t] = table
      /\ \A u \in Tables : u # t => e.tables[u] = d.tables[u]
  <2>1. SetsTable(d, e, t, table)
    BY <1>2, <1>4, <1>5, TableSet
  <2> QED
    BY <2>1 DEF SetsTable
<1>7. Columns(e, t) = Columns(d, t) /\ \A u \in Tables : Columns(e, u) = Columns(d, u)
  BY <1>3, <1>6 DEF Columns
<1>8. Columns(d, t) = ColumnsAt(n, t) /\ Columns(d, "store") = ColumnsAt(n, "store")
  BY <1>2, <1>5
<1>9. /\ ColumnsAt(n, t) # {} /\ ColumnsAt(n, t) \subseteq ColumnsAt(n, "store")
      /\ n = 13 => ColumnsAt(n, t) = {"id", "hash", "image"}
      /\ n = 14 => ColumnsAt(n, t) = ColumnsAt(n, "store") \ {"hash", "image"}
  <2>1. CASE n = 13
    BY <2>1 DEF ColumnsAt
  <2>2. CASE n = 14
    BY <2>2 DEF ColumnsAt
  <2> QED
    BY <2>1, <2>2
<1>10. Valid(s, d)
  BY <1>1, <1>8, <1>9 DEF Valid, Exists
<1>11. /\ Before(n + 1) = Before(n)
       /\ \A u \in Tables : ColumnsAt(n + 1, u) = ColumnsAt(n, u)
  <2>1. CASE n = 13
    BY <2>1 DEF Before, ColumnsAt, Tables
  <2>2. CASE n = 14
    BY <2>2 DEF Before, ColumnsAt, Tables
  <2> QED
    BY <2>1, <2>2
<1>12. Shaped(e, n + 1)
  BY <1>5, <1>6, <1>7, <1>11 DEF Shaped
<1>13. /\ Columns(f, "image") = {}
       /\ Holds(d, "store", Columns(f, "store"))
       /\ Columns(f, "store") \subseteq Columns(d, "store")
  BY DEF Between, Survives, Holds
<1>14. Holds(e, "store", Columns(f, "store"))
  BY <1>2, <1>6, <1>7, <1>13 DEF Holds
<1>15. \A c \in Columns(f, "store") :
         c \in Columns(d, t) => c \in Columns(e, t) /\ e.tables[t][c] = c
  BY <1>3, <1>6, <1>7, <1>13 DEF Holds, Columns
<1>16. CASE n = 13
  <2>1. Staying(f) \subseteq Columns(d, t)
    BY <1>8, <1>9, <1>16 DEF Staying
  <2>2. Holds(e, "new_store", Staying(f))
    BY <1>15, <1>16, <2>1 DEF Holds, Staying
  <2> QED
    BY <1>10, <1>12, <1>13, <1>14, <1>16, <2>2 DEF Between, Survives
<1>17. CASE n = 14
  <2>1. Leaving(f) \subseteq Columns(d, t)
    BY <1>8, <1>9, <1>13, <1>17 DEF Leaving
  <2>2. Holds(e, "image", Columns(f, "image") \cup Leaving(f))
    BY <1>13, <1>15, <1>17, <2>1 DEF Holds, Leaving
  <2>3. Holds(d, "new_store", Staying(f))
    BY <1>17 DEF Between, Survives
  <2>4. Holds(e, "new_store", Staying(f))
    BY <1>6, <1>7, <1>17, <2>3 DEF Holds, Tables
  <2> QED
    BY <1>10, <1>12, <1>13, <1>14, <1>17, <2>2, <2>4 DEF Between, Survives
<1> QED
  BY <1>16, <1>17

LEMMA DropKeeps ==
  ASSUME NEW f, NEW d, Between(f, d, 15), NEW v,
         NEW s, s = <<v, "DROP", "store">>, NEW e, e = Result(s, d)
  PROVE  Valid(s, d) /\ Between(f, e, 16)
<1>1. s[2] = "DROP" /\ s[3] = "store" /\ "store" \in Tables
  BY DEF Tables
<1>2. e = [d EXCEPT !.tables["store"] = <<>>]
  BY <1>1 DEF Result
<1>3. /\ IsDb(d) /\ d.version \in Before(15)
      /\ \A u \in Tables : \/ Columns(d, u) = ColumnsAt(15, u)
                           \/ u = "thumb" /\ Columns(d, u) = {"id", "image"}
  BY DEF Between, Shaped
<1>4. /\ IsDb(e) /\ e.version = d.version /\ e.tables["store"] = <<>>
      /\ \A u \in Tables : u # "store" => e.tables[u] = d.tables[u]
  <2>1. SetsTable(d, e, "store", <<>>)
    BY <1>1, <1>2, <1>3, TableSet
  <2> QED
    BY <2>1 DEF SetsTable
<1>5. Columns(e, "store") = {} /\ \A u \in Tables : u # "store" => Columns(e, u) = Columns(d, u)
  BY <1>4 DEF Columns
<1>6. /\ Before(16) = Before(15) /\ ColumnsAt(16, "store") = {} /\ ColumnsAt(15, "store") # {}
      /\ \A u \in Tables : u # "store" => ColumnsAt(16, u) = ColumnsAt(15, u)
  BY DEF Before, ColumnsAt, Tables
<1>7. Columns(d, "store") = ColumnsAt(15, "store")
  BY <1>1, <1>3
<1>8. Valid(s, d)
  BY <1>1, <1>6, <1>7 DEF Valid, Exists
<1>9. Shaped(e, 16)
  <2>1. ASSUME NEW u \in Tables
        PROVE  \/ Columns(e, u) = ColumnsAt(16, u)
               \/ u = "thumb" /\ Columns(e, u) = {"id", "image"}
    <3>1. CASE u = "store"
      BY <1>5, <1>6, <3>1
    <3>2. CASE u # "store"
      BY <1>3, <1>5, <1>6, <3>2
    <3> QED
      BY <3>1, <3>2
  <2>2. e.version \in Before(16)
    BY <1>3, <1>4, <1>6
  <2> QED
    BY <1>4, <2>1, <2>2 DEF Shaped
<1>10. /\ Columns(f, "image") = {} /\ Holds(d, "new_store", Staying(f))
       /\ Holds(d, "image", Columns(f, "image") \cup Leaving(f))
  BY DEF Between, Survives
<1>11. "new_store" \in Tables /\ "image" \in Tables
  BY DEF Tables
<1>12. Holds(e, "new_store", Staying(f)) /\ Holds(e, "image", Columns(f, "image") \cup Leaving(f))
  BY <1>4, <1>5, <1>10, <1>11 DEF Holds
<1> QED
  BY <1>8, <1>9, <1>10, <1>12 DEF Between, Survives

LEMMA RenameKeeps ==
  ASSUME NEW f, NEW d, Between(f, d, 16), NEW v,
         NEW s, s = <<v, "RENAME", "store", "new_store">>, NEW e, e = Result(s, d)
  PROVE  Valid(s, d) /\ Between(f, e, 17)
<1>1. /\ s[2] = "RENAME" /\ s[3] = "store" /\ s[4] = "new_store"
      /\ "store" \in Tables /\ "new_store" \in Tables
  BY DEF Tables
<1>2. PICK b : b = [d EXCEPT !.tables["store"] = d.tables["new_store"]]
  OBVIOUS
<1>3. e = [b EXCEPT !.tables["new_store"] = <<>>]
  BY <1>1, <1>2 DEF Result
<1>4. /\ IsDb(d) /\ d.version \in Before(16)
      /\ \A u \in Tables : \/ Columns(d, u) = ColumnsAt(16, u)
                           \/ u = "thumb" /\ Columns(d, u) = {"id", "image"}
  BY DEF Between, Shaped
<1>5. /\ IsDb(b) /\ b.version = d.version /\ b.tables["store"] = d.tables["new_store"]
      /\ \A u \in Tables : u # "store" => b.tables[u] = d.tables[u]
  <2>1. SetsTable(d, b, "store", d.tables["new_store"])
    BY <1>1, <1>2, <1>4, TableSet
  <2> QED
    BY <2>1 DEF SetsTable
<1>6. /\ IsDb(e) /\ e.version = b.version /\ e.tables["new_store"] = <<>>
      /\ \A u \in Tables : u # "new_store" => e.tables[u] = b.tables[u]
  <2>1. SetsTable(b, e, "new_store", <<>>)
    BY <1>1, <1>3, <1>5, TableSet
  <2> QED
    BY <2>1 DEF SetsTable
<1>7. /\ e.tables["store"] = d.tables["new_store"]
      /\ \A u \in Tables : u \notin {"store", "new_store"} => e.tables[u] = d.tables[u]
  BY <1>1, <1>5, <1>6
<1>8. /\ Columns(e, "new_store") = {} /\ Columns(e, "store") = Columns(d, "new_store")
      /\ \A u \in Tables : u \notin {"store", "new_store"} => Columns(e, u) = Columns(d, u)
  BY <1>6, <1>7 DEF Columns
<1>9. /\ Before(17) = Before(16) /\ ColumnsAt(16, "store") = {} /\ ColumnsAt(16, "new_store") # {}
      /\ ColumnsAt(17, "store") = ColumnsAt(16, "new_store") /\ ColumnsAt(17, "new_store") = {}
      /\ \A u \in Tables : u \notin {"store", "new_store"} => ColumnsAt(17, u) = ColumnsAt(16, u)
  BY DEF Before, ColumnsAt, Tables
<1>10. /\ Columns(d, "store") = ColumnsAt(16, "store")
       /\ Columns(d, "new_store") = ColumnsAt(16, "new_store")
  BY <1>1, <1>4
<1>11. Valid(s, d)
  BY <1>1, <1>9, <1>10 DEF Valid, Exists
<1>12. Shaped(e, 17)
  <2>1. ASSUME NEW u \in Tables
        PROVE  \/ Columns(e, u) = ColumnsAt(17, u)
               \/ u = "thumb" /\ Columns(e, u) = {"id", "image"}
    <3>1. CASE u \in {"store", "new_store"}
      BY <1>8, <1>9, <1>10, <3>1
    <3>2. CASE u \notin {"store", "new_store"}
      BY <1>4, <1>8, <1>9, <3>2
    <3> QED
      BY <3>1, <3>2
  <2>2. e.version \in Before(17)
    BY <1>4, <1>5, <1>6, <1>9
  <2> QED
    BY <1>6, <2>1, <2>2 DEF Shaped
<1>13. /\ Columns(f, "image") = {} /\ Holds(d, "new_store", Staying(f))
       /\ Holds(d, "image", Columns(f, "image") \cup Leaving(f))
  BY DEF Between, Survives
<1>14. Holds(e, "store", Staying(f))
  BY <1>7, <1>8, <1>13 DEF Holds
<1>15. Holds(e, "image", Columns(f, "image") \cup Leaving(f))
  BY <1>7, <1>8, <1>13 DEF Holds, Tables
<1> QED
  BY <1>11, <1>12, <1>13, <1>14, <1>15 DEF Between, Survives
--------------------------------------------------------------------------------
(* One statement after the other. *)

\* An addition is possible: the table is there, without the columns, or is not there.
LEMMA AdditionValid ==
  ASSUME NEW d, NEW n, Shaped(d, n), NEW v, NEW op \in {"CREATE", "ADD"},
         NEW t \in Tables \ {"thumb"}, NEW C, NEW s, s = <<v, op, t, C>>,
         op = "CREATE" => ColumnsAt(n, t) = {},
         op = "ADD" => ColumnsAt(n, t) # {} /\ ColumnsAt(n, t) \cap C = {}
  PROVE  Valid(s, d)
<1>1. s[2] = op /\ s[3] = t /\ s[4] = C
  OBVIOUS
<1>2. Columns(d, t) = ColumnsAt(n, t)
  BY DEF Shaped
<1> QED
  BY <1>1, <1>2 DEF Valid, Exists

\* The next statement can be carried out, and leads to the next place.
Proceeds(f, d, n) == /\ Valid(Statements[n], d)
                     /\ Between(f, Result(Statements[n], d), n + 1)

LEMMA Adding ==
  ASSUME NEW f, NEW d, NEW n, Between(f, d, n),
         n \in {1, 2, 3, 5, 6, 7, 9, 11, 12, 18, 20, 22, 24, 25}
  PROVE  Proceeds(f, d, n)
<1>1. CASE n = 1
  <2>1. n \in (1..12) \cup (17..26) /\ "store" \in Tables /\ Shaped(d, 1)
    BY <1>1 DEF Tables, Between
  <2>2. /\ Statements[1] = <<0, "CREATE", "store", {"id", "hash", "date", "image"}>>
        /\ AddsAt(1, "store", {"id", "hash", "date", "image"})
    BY Listed, Additions
  <2>3. ColumnsAt(1, "store") = {}
    BY DEF ColumnsAt
  <2>4. Valid(Statements[1], d)
    BY <2>1, <2>2, <2>3, AdditionValid
  <2>5. Between(f, Result(Statements[1], d), 1 + 1)
    BY <1>1, <2>1, <2>2, AddKeeps
  <2> QED
    BY <1>1, <2>4, <2>5 DEF Proceeds
<1>2. CASE n = 2
  <2>1. n \in (1..12) \cup (17..26) /\ "tag" \in Tables /\ Shaped(d, 2)
    BY <1>2 DEF Tables, Between
  <2>2. Statements[2] = <<0, "CREATE", "tag", {"id", "tag"}>> /\ AddsAt(2, "tag", {"id", "tag"})
    BY Listed, Additions
  <2>3. ColumnsAt(2, "tag") = {}
    BY DEF ColumnsAt
  <2>4. Valid(Statements[2], d)
    BY <2>1, <2>2, <2>3, AdditionValid
  <2>5. Between(f, Result(Statements[2], d), 2 + 1)
    BY <1>2, <2>1, <2>2, AddKeeps
  <2> QED
    BY <1>2, <2>4, <2>5 DEF Proceeds
<1>3. CASE n = 3
  <2>1. n \in (1..12) \cup (17..26) /\ "meta" \in Tables /\ Shaped(d, 3)
    BY <1>3 DEF Tables, Between
  <2>2. /\ Statements[3] = <<1, "CREATE", "meta", {"key", "type", "value"}>>
        /\ AddsAt(3, "meta", {"key", "type", "value"})
    BY Listed, Additions
  <2>3. ColumnsAt(3, "meta") = {}
    BY DEF ColumnsAt
  <2>4. Valid(Statements[3], d)
    BY <2>1, <2>2, <2>3, AdditionValid
  <2>5. Between(f, Result(Statements[3], d), 3 + 1)
    BY <1>3, <2>1, <2>2, AddKeeps
  <2> QED
    BY <1>3, <2>4, <2>5 DEF Proceeds
<1>4. CASE n = 5
  <2>1. n \in (1..12) \cup (17..26) /\ "store" \in Tables /\ Shaped(d, 5)
    BY <1>4 DEF Tables, Between
  <2>2. Statements[5] = <<2, "ADD", "store", {"width"}>> /\ AddsAt(5, "store", {"width"})
    BY Listed, Additions
  <2>3. ColumnsAt(5, "store") # {} /\ ColumnsAt(5, "store") \cap {"width"} = {}
    BY DEF ColumnsAt
  <2>4. Valid(Statements[5], d)
    BY <2>1, <2>2, <2>3, AdditionValid
  <2>5. Between(f, Result(Statements[5], d), 5 + 1)
    BY <1>4, <2>1, <2>2, AddKeeps
  <2> QED
    BY <1>4, <2>4, <2>5 DEF Proceeds
<1>5. CASE n = 6
  <2>1. n \in (1..12) \cup (17..26) /\ "store" \in Tables /\ Shaped(d, 6)
    BY <1>5 DEF Tables, Between
  <2>2. Statements[6] = <<2, "ADD", "store", {"height"}>> /\ AddsAt(6, "store", {"height"})
    BY Listed, Additions
  <2>3. ColumnsAt(6, "store") # {} /\ ColumnsAt(6, "store") \cap {"height"} = {}
    BY DEF ColumnsAt
  <2>4. Valid(Statements[6], d)
    BY <2>1, <2>2, <2>3, AdditionValid
  <2>5. Between(f, Result(Statements[6], d), 6 + 1)
    BY <1>5, <2>1, <2>2, AddKeeps
  <2> QED
    BY <1>5, <2>4, <2>5 DEF Proceeds
<1>6. CASE n = 7
  <2>1. n \in (1..12) \cup (17..26) /\ "store" \in Tables /\ Shaped(d, 7)
    BY <1>6 DEF Tables, Between
  <2>2. Statements[7] = <<2, "ADD", "store", {"origin_url"}>> /\ AddsAt(7, "store", {"origin_url"})
    BY Listed, Additions
  <2>3. ColumnsAt(7, "store") # {} /\ ColumnsAt(7, "store") \cap {"origin_url"} = {}
    BY DEF ColumnsAt
  <2>4. Valid(Statements[7], d)
    BY <2>1, <2>2, <2>3, AdditionValid
  <2>5. Between(f, Result(Statements[7], d), 7 + 1)
    BY <1>6, <2>1, <2>2, AddKeeps
  <2> QED
    BY <1>6, <2>4, <2>5 DEF Proceeds
<1>7. CASE n = 9
  <2>1. n \in (1..12) \cup (17..26) /\ "store" \in Tables /\ Shaped(d, 9)
    BY <1>7 DEF Tables, Between
  <2>2. Statements[9] = <<3, "ADD", "store", {"phash"}>> /\ AddsAt(9, "store", {"phash"})
    BY Listed, Additions
  <2>3. ColumnsAt(9, "store") # {} /\ ColumnsAt(9, "store") \cap {"phash"} = {}
    BY DEF ColumnsAt
  <2>4. Valid(Statements[9], d)
    BY <2>1, <2>2, <2>3, AdditionValid
  <2>5. Between(f, Result(Statements[9], d), 9 + 1)
    BY <1>7, <2>1, <2>2, AddKeeps
  <2> QED
    BY <1>7, <2>4, <2>5 DEF Proceeds
<1>8. CASE n = 11
  <2>1. n \in (1..12) \cup (17..26) /\ "new_store" \in Tables /\ Shaped(d, 11)
    BY <1>8 DEF Tables, Between
  <2>2. /\ Statements[11] = <<4, "CREATE", "new_store", {"id", "hash", "image"}>>
        /\ AddsAt(11, "new_store", {"id", "hash", "image"})
    BY Listed, Additions
  <2>3. ColumnsAt(11, "new_store") = {}
    BY DEF ColumnsAt
  <2>4. Valid(Statements[11], d)
    BY <2>1, <2>2, <2>3, AdditionValid
  <2>5. Between(f, Result(Statements[11], d), 11 + 1)
    BY <1>8, <2>1, <2>2, AddKeeps
  <2> QED
    BY <1>8, <2>4, <2>5 DEF Proceeds
<1>9. CASE n = 12
  <2>1. n \in (1..12) \cup (17..26) /\ "image" \in Tables /\ Shaped(d, 12)
    BY <1>9 DEF Tables, Between
  <2>2. /\ Statements[12] = <<4, "CREATE", "image", ImageColumns4>>
        /\ AddsAt(12, "image", ImageColumns4)
    BY Listed, Additions
  <2>3. ColumnsAt(12, "image") = {}
    BY DEF ColumnsAt, ImageColumns4
  <2>4. Valid(Statements[12], d)
    BY <2>1, <2>2, <2>3, AdditionValid
  <2>5. Between(f, Result(Statements[12], d), 12 + 1)
    BY <1>9, <2>1, <2>2, AddKeeps
  <2> QED
    BY <1>9, <2>4, <2>5 DEF Proceeds
<1>10. CASE n = 18
  <2>1. n \in (1..12) \cup (17..26) /\ "image" \in Tables /\ Shaped(d, 18)
    BY <1>10 DEF Tables, Between
  <2>2. Statements[18] = <<5, "ADD", "image", {"deleted"}>> /\ AddsAt(18, "image", {"deleted"})
    BY Listed, Additions
  <2>3. ColumnsAt(18, "image") # {} /\ ColumnsAt(18, "image") \cap {"deleted"} = {}
    BY DEF ColumnsAt
  <2>4. Valid(Statements[18], d)
    BY <2>1, <2>2, <2>3, AdditionValid
  <2>5. Between(f, Result(Statements[18], d), 18 + 1)
    BY <1>10, <2>1, <2>2, AddKeeps
  <2> QED
    BY <1>10, <2>4, <2>5 DEF Proceeds
<1>11. CASE n = 20
  <2>1. n \in (1..12) \cup (17..26) /\ "thumb" \in Tables /\ Shaped(d, 20)
    BY <1>11 DEF Tables, Between
  <2>2. /\ Statements[20] = <<11, "CREATE IF NOT EXISTS", "thumb", {"id", "image"}>>
        /\ AddsAt(20, "thumb", {"id", "image"})
    BY Listed, Additions
  <2>3. PICK s : s = Statements[20]
    OBVIOUS
  <2>4. Valid(Statements[20], d)
    <3>1. s = <<11, "CREATE IF NOT EXISTS", "thumb", {"id", "image"}>>
      BY <2>2, <2>3
    <3>2. s[2] = "CREATE IF NOT EXISTS"
      BY <3>1
    <3> QED
      BY <2>3, <3>2 DEF Valid
  <2>5. Between(f, Result(Statements[20], d), 20 + 1)
    BY <1>11, <2>1, <2>2, AddKeeps
  <2> QED
    BY <1>11, <2>4, <2>5 DEF Proceeds
<1>12. CASE n = 22
  <2>1. n \in (1..12) \cup (17..26) /\ "image" \in Tables /\ Shaped(d, 22)
    BY <1>12 DEF Tables, Between
  <2>2. Statements[22] = <<12, "ADD", "image", {"format"}>> /\ AddsAt(22, "image", {"format"})
    BY Listed, Additions
  <2>3. ColumnsAt(22, "image") # {} /\ ColumnsAt(22, "image") \cap {"format"} = {}
    BY DEF ColumnsAt
  <2>4. Valid(Statements[22], d)
    BY <2>1, <2>2, <2>3, AdditionValid
  <2>5. Between(f, Result(Statements[22], d), 22 + 1)
    BY <1>12, <2>1, <2>2, AddKeeps
  <2> QED
    BY <1>12, <2>4, <2>5 DEF Proceeds
<1>13. CASE n = 24
  <2>1. n \in (1..12) \cup (17..26) /\ "image" \in Tables /\ Shaped(d, 24)
    BY <1>13 DEF Tables, Between
  <2>2. Statements[24] = <<13, "ADD", "image", {"filesize"}>> /\ AddsAt(24, "image", {"filesize"})
    BY Listed, Additions
  <2>3. ColumnsAt(24, "image") # {} /\ ColumnsAt(24, "image") \cap {"filesize"} = {}
    BY DEF ColumnsAt
  <2>4. Valid(Statements[24], d)
    BY <2>1, <2>2, <2>3, AdditionValid
  <2>5. Between(f, Result(Statements[24], d), 24 + 1)
    BY <1>13, <2>1, <2>2, AddKeeps
  <2> QED
    BY <1>13, <2>4, <2>5 DEF Proceeds
<1>14. CASE n = 25
  <2>1. n \in (1..12) \cup (17..26) /\ "image" \in Tables /\ Shaped(d, 25)
    BY <1>14 DEF Tables, Between
  <2>2. /\ Statements[25] = <<13, "ADD", "image", {"pixelformat"}>>
        /\ AddsAt(25, "image", {"pixelformat"})
    BY Listed, Additions
  <2>3. ColumnsAt(25, "image") # {} /\ ColumnsAt(25, "image") \cap {"pixelformat"} = {}
    BY DEF ColumnsAt
  <2>4. Valid(Statements[25], d)
    BY <2>1, <2>2, <2>3, AdditionValid
  <2>5. Between(f, Result(Statements[25], d), 25 + 1)
    BY <1>14, <2>1, <2>2, AddKeeps
  <2> QED
    BY <1>14, <2>4, <2>5 DEF Proceeds
<1> QED
  BY <1>1, <1>2, <1>3, <1>4, <1>5, <1>6, <1>7, <1>8, <1>9, <1>10, <1>11, <1>12, <1>13, <1>14

LEMMA Putting ==
  ASSUME NEW f, NEW d, NEW n, Between(f, d, n), n \in {4, 8, 10, 17, 19, 21, 23, 26}
  PROVE  Proceeds(f, d, n)
<1>1. CASE n = 4
  <2>1. n \in (1..12) \cup (17..26)
    BY <1>1
  <2>2. Statements[4] = <<1, "metaPut">> /\ PutsAt(4, 1)
    BY Listed, Puts
  <2> QED
    BY <1>1, <2>1, <2>2, PutKeeps DEF Proceeds
<1>2. CASE n = 8
  <2>1. n \in (1..12) \cup (17..26)
    BY <1>2
  <2>2. Statements[8] = <<2, "metaPut">> /\ PutsAt(8, 2)
    BY Listed, Puts
  <2> QED
    BY <1>2, <2>1, <2>2, PutKeeps DEF Proceeds
<1>3. CASE n = 10
  <2>1. n \in (1..12) \cup (17..26)
    BY <1>3
  <2>2. Statements[10] = <<3, "metaPut">> /\ PutsAt(10, 3)
    BY Listed, Puts
  <2> QED
    BY <1>3, <2>1, <2>2, PutKeeps DEF Proceeds
<1>4. CASE n = 17
  <2>1. n \in (1..12) \cup (17..26)
    BY <1>4
  <2>2. Statements[17] = <<4, "metaPut">> /\ PutsAt(17, 4)
    BY Listed, Puts
  <2> QED
    BY <1>4, <2>1, <2>2, PutKeeps DEF Proceeds
<1>5. CASE n = 19
  <2>1. n \in (1..12) \cup (17..26)
    BY <1>5
  <2>2. Statements[19] = <<5, "metaPut">> /\ PutsAt(19, 5)
    BY Listed, Puts
  <2> QED
    BY <1>5, <2>1, <2>2, PutKeeps DEF Proceeds
<1>6. CASE n = 21
  <2>1. n \in (1..12) \cup (17..26)
    BY <1>6
  <2>2. Statements[21] = <<11, "metaPut">> /\ PutsAt(21, 11)
    BY Listed, Puts
  <2> QED
    BY <1>6, <2>1, <2>2, PutKeeps DEF Proceeds
<1>7. CASE n = 23
  <2>1. n \in (1..12) \cup (17..26)
    BY <1>7
  <2>2. Statements[23] = <<12, "metaPut">> /\ PutsAt(23, 12)
    BY Listed, Puts
  <2> QED
    BY <1>7, <2>1, <2>2, PutKeeps DEF Proceeds
<1>8. CASE n = 26
  <2>1. n \in (1..12) \cup (17..26)
    BY <1>8
  <2>2. Statements[26] = <<13, "metaPut">> /\ PutsAt(26, 13)
    BY Listed, Puts
  <2> QED
    BY <1>8, <2>1, <2>2, PutKeeps DEF Proceeds
<1> QED
  BY <1>1, <1>2, <1>3, <1>4, <1>5, <1>6, <1>7, <1>8

LEMMA EachProceeds ==
  ASSUME NEW f, NEW d, NEW n \in 1..26, Between(f, d, n)
  PROVE  Proceeds(f, d, n)
<1>1. \/ n \in {1, 2, 3, 5, 6, 7, 9, 11, 12, 18, 20, 22, 24, 25}
      \/ n \in {4, 8, 10, 17, 19, 21, 23, 26}
      \/ n \in {13, 14, 15, 16}
  OBVIOUS
<1>2. CASE n \in {13, 14, 15, 16}
  <2>1. CASE n = 13
    <3>1. Statements[13] = <<4, "INSERT", "new_store", "store">>
      BY Listed
    <3> QED
      BY <2>1, <3>1, CopyKeeps DEF Proceeds
  <2>2. CASE n = 14
    <3>1. Statements[14] = <<4, "INSERT", "image", "store">>
      BY Listed
    <3> QED
      BY <2>2, <3>1, CopyKeeps DEF Proceeds
  <2>3. CASE n = 15
    <3>1. Statements[15] = <<4, "DROP", "store">>
      BY Listed
    <3> QED
      BY <2>3, <3>1, DropKeeps DEF Proceeds
  <2>4. CASE n = 16
    <3>1. Statements[16] = <<4, "RENAME", "store", "new_store">>
      BY Listed
    <3> QED
      BY <2>4, <3>1, RenameKeeps DEF Proceeds
  <2> QED
    BY <1>2, <2>1, <2>2, <2>3, <2>4
<1> QED
  BY <1>1, <1>2, Adding, Putting
--------------------------------------------------------------------------------
(* Which statements a version skips. *)

VersionAt(k) == IF k <= 2 THEN 0 ELSE IF k <= 4 THEN 1 ELSE IF k <= 8 THEN 2 ELSE IF k <= 10 THEN 3
                ELSE IF k <= 17 THEN 4 ELSE IF k <= 19 THEN 5 ELSE IF k <= 21 THEN 11
                ELSE IF k <= 23 THEN 12 ELSE 13

\* Statement s is for version v.
StatesFor(s, v) == \E a, b, c : s = <<v, a>> \/ s = <<v, a, b>> \/ s = <<v, a, b, c>>

LEMMA FirstIsVersion ==
  ASSUME NEW s, NEW v, StatesFor(s, v)
  PROVE  s[1] = v
<1>1. PICK a, b, c : s = <<v, a>> \/ s = <<v, a, b>> \/ s = <<v, a, b, c>>
  BY DEF StatesFor
<1>2. CASE s = <<v, a>>
  BY <1>2
<1>3. CASE s = <<v, a, b>>
  BY <1>3
<1>4. CASE s = <<v, a, b, c>>
  BY <1>4
<1> QED
  BY <1>1, <1>2, <1>3, <1>4

LEMMA VersionOf ==
  ASSUME NEW k \in 1..26
  PROVE  Statements[k][1] = VersionAt(k)
<1>1. StatesFor(Statements[1], 0)
  <2>1. Statements[1] = <<0, "CREATE", "store", {"id", "hash", "date", "image"}>>
    BY Listed
  <2> QED
    BY <2>1, Zenon DEF StatesFor
<1>2. StatesFor(Statements[2], 0)
  <2>1. Statements[2] = <<0, "CREATE", "tag", {"id", "tag"}>>
    BY Listed
  <2> QED
    BY <2>1, Zenon DEF StatesFor
<1>3. StatesFor(Statements[3], 1)
  <2>1. Statements[3] = <<1, "CREATE", "meta", {"key", "type", "value"}>>
    BY Listed
  <2> QED
    BY <2>1, Zenon DEF StatesFor
<1>4. StatesFor(Statements[4], 1)
  <2>1. Statements[4] = <<1, "metaPut">>
    BY Listed
  <2> QED
    BY <2>1, Zenon DEF StatesFor
<1>5. StatesFor(Statements[5], 2)
  <2>1. Statements[5] = <<2, "ADD", "store", {"width"}>>
    BY Listed
  <2> QED
    BY <2>1, Zenon DEF StatesFor
<1>6. StatesFor(Statements[6], 2)
  <2>1. Statements[6] = <<2, "ADD", "store", {"height"}>>
    BY Listed
  <2> QED
    BY <2>1, Zenon DEF StatesFor
<1>7. StatesFor(Statements[7], 2)
  <2>1. Statements[7] = <<2, "ADD", "store", {"origin_url"}>>
    BY Listed
  <2> QED
    BY <2>1, Zenon DEF StatesFor
<1>8. StatesFor(Statements[8], 2)
  <2>1. Statements[8] = <<2, "metaPut">>
    BY Listed
  <2> QED
    BY <2>1, Zenon DEF StatesFor
<1>9. StatesFor(Statements[9], 3)
  <2>1. Statements[9] = <<3, "ADD", "store", {"phash"}>>
    BY Listed
  <2> QED
    BY <2>1, Zenon DEF StatesFor
<1>10. StatesFor(Statements[10], 3)
  <2>1. Statements[10] = <<3, "metaPut">>
    BY Listed
  <2> QED
    BY <2>1, Zenon DEF StatesFor
<1>11. StatesFor(Statements[11], 4)
  <2>1. Statements[11] = <<4, "CREATE", "new_store", {"id", "hash", "image"}>>
    BY Listed
  <2> QED
    BY <2>1, Zenon DEF StatesFor
<1>12. StatesFor(Statements[12], 4)
  <2>1. Statements[12] = <<4, "CREATE", "image", ImageColumns4>>
    BY Listed
  <2> QED
    BY <2>1, Zenon DEF StatesFor
<1>13. StatesFor(Statements[13], 4)
  <2>1. Statements[13] = <<4, "INSERT", "new_store", "store">>
    BY Listed
  <2> QED
    BY <2>1, Zenon DEF StatesFor
<1>14. StatesFor(Statements[14], 4)
  <2>1. Statements[14] = <<4, "INSERT", "image", "store">>
    BY Listed
  <2> QED
    BY <2>1, Zenon DEF StatesFor
<1>15. StatesFor(Statements[15], 4)
  <2>1. Statements[15] = <<4, "DROP", "store">>
    BY Listed
  <2> QED
    BY <2>1, Zenon DEF StatesFor
<1>16. StatesFor(Statements[16], 4)
  <2>1. Statements[16] = <<4, "RENAME", "store", "new_store">>
    BY Listed
  <2> QED
    BY <2>1, Zenon DEF StatesFor
<1>17. StatesFor(Statements[17], 4)
  <2>1. Statements[17] = <<4, "metaPut">>
    BY Listed
  <2> QED
    BY <2>1, Zenon DEF StatesFor
<1>18. StatesFor(Statements[18], 5)
  <2>1. Statements[18] = <<5, "ADD", "image", {"deleted"}>>
    BY Listed
  <2> QED
    BY <2>1, Zenon DEF StatesFor
<1>19. StatesFor(Statements[19], 5)
  <2>1. Statements[19] = <<5, "metaPut">>
    BY Listed
  <2> QED
    BY <2>1, Zenon DEF StatesFor
<1>20. StatesFor(Statements[20], 11)
  <2>1. Statements[20] = <<11, "CREATE IF NOT EXISTS", "thumb", {"id", "image"}>>
    BY Listed
  <2> QED
    BY <2>1, Zenon DEF StatesFor
<1>21. StatesFor(Statements[21], 11)
  <2>1. Statements[21] = <<11, "metaPut">>
    BY Listed
  <2> QED
    BY <2>1, Zenon DEF StatesFor
<1>22. StatesFor(Statements[22], 12)
  <2>1. Statements[22] = <<12, "ADD", "image", {"format"}>>
    BY Listed
  <2> QED
    BY <2>1, Zenon DEF StatesFor
<1>23. StatesFor(Statements[23], 12)
  <2>1. Statements[23] = <<12, "metaPut">>
    BY Listed
  <2> QED
    BY <2>1, Zenon DEF StatesFor
<1>24. StatesFor(Statements[24], 13)
  <2>1. Statements[24] = <<13, "ADD", "image", {"filesize"}>>
    BY Listed
  <2> QED
    BY <2>1, Zenon DEF StatesFor
<1>25. StatesFor(Statements[25], 13)
  <2>1. Statements[25] = <<13, "ADD", "image", {"pixelformat"}>>
    BY Listed
  <2> QED
    BY <2>1, Zenon DEF StatesFor
<1>26. StatesFor(Statements[26], 13)
  <2>1. Statements[26] = <<13, "metaPut">>
    BY Listed
  <2> QED
    BY <2>1, Zenon DEF StatesFor
<1>27. StatesFor(Statements[k], VersionAt(k))
  BY <1>1, <1>2, <1>3, <1>4, <1>5, <1>6, <1>7, <1>8, <1>9, <1>10, <1>11, <1>12, <1>13,
     <1>14, <1>15, <1>16, <1>17, <1>18, <1>19, <1>20, <1>21, <1>22, <1>23, <1>24, <1>25,
     <1>26 DEF VersionAt
<1> QED
  BY <1>27, FirstIsVersion, Zenon

\* The first statement that version v does not skip.
Place(v) == IF v = 0 THEN 3 ELSE IF v = 1 THEN 5 ELSE IF v = 2 THEN 9 ELSE IF v = 3 THEN 11
            ELSE IF v = 4 THEN 18 ELSE IF v \in {5, 10} THEN 20 ELSE IF v = 11 THEN 22
            ELSE IF v = 12 THEN 24 ELSE 27

LEMMA SkippedBefore ==
  ASSUME NEW v \in Versions, NEW k \in 1..26
  PROVE  VersionAt(k) <= v <=> k < Place(v)
  BY DEF Versions, VersionAt, Place

LEMMA SkippedTo ==
  ASSUME NEW v \in Versions, NEW n \in 1..26, \A k \in 1..n : VersionAt(k) <= v,
         n < 26 => ~ (VersionAt(n + 1) <= v)
  PROVE  n + 1 = Place(v)
<1>1. Place(v) \in 3..27
  BY DEF Versions, Place
<1>2. n < Place(v)
  BY SkippedBefore
<1>3. n < 26 => ~ (n + 1 < Place(v))
  BY SkippedBefore
<1> QED
  BY <1>1, <1>2, <1>3

LEMMA VersionsBefore ==
  ASSUME NEW n \in 1..27, NEW v \in Before(n)
  PROVE  /\ v \in Versions /\ n = 27 => v = 13
         /\ n \in 3..26 => ~ (VersionAt(n) <= v) /\ VersionAt(n) # 0
  BY DEF Before, Versions, VersionAt
--------------------------------------------------------------------------------
(* The file at first. *)

Began(f) ==
  /\ IsDb(f) /\ f.version \in Versions
  /\ \/ f.version = 0 /\ \A t \in Tables : Columns(f, t) = {}
     \/ /\ Exists(f, "store")
        /\ \A t \in Tables : \/ Columns(f, t) = Format(f.version, t)
                             \/ t = "thumb" /\ f.version = 10 /\ Columns(f, t) = {"id", "image"}
  /\ \A t \in Tables : \A c \in Columns(f, t) : f.tables[t][c] = c

LEMMA FileOfBegan ==
  ASSUME NEW v \in Versions, NEW f, f = FileOf(v)
  PROVE  /\ Began(f) /\ f.version = v
         /\ \A t \in Tables : f.tables[t] = [c \in Format(v, t) |-> c]
<1>1. PICK T : T = [t \in Tables |-> [c \in Format(v, t) |-> c]]
  OBVIOUS
<1>2. f = [version |-> v, tables |-> T]
  BY <1>1 DEF FileOf
<1>3. f.version = v /\ f.tables = T
  BY <1>2
<1>4. \A t \in Tables : T[t] = [c \in Format(v, t) |-> c]
  BY <1>1
<1>5. IsDb(f)
  BY <1>1, <1>2, <1>3 DEF IsDb
<1>6. \A t \in Tables : /\ Columns(f, t) = Format(v, t)
                        /\ \A c \in Columns(f, t) : f.tables[t][c] = c
  BY <1>3, <1>4 DEF Columns
<1>7. "store" \in Tables /\ "id" \in Format(v, "store")
  BY DEF Tables, Format
<1>8. Exists(f, "store")
  BY <1>6, <1>7 DEF Exists
<1> QED
  BY <1>3, <1>4, <1>5, <1>6, <1>8 DEF Began

LEMMA FilesBegin ==
  ASSUME NEW f \in Files
  PROVE  Began(f)
<1>1. CASE f = NoFile
  <2>1. PICK T : T = [t \in Tables |-> <<>>]
    OBVIOUS
  <2>2. f = [version |-> 0, tables |-> T]
    BY <1>1, <2>1 DEF NoFile
  <2>3. f.version = 0 /\ f.tables = T
    BY <2>2
  <2>4. IsDb(f) /\ \A t \in Tables : Columns(f, t) = {}
    BY <2>1, <2>2, <2>3 DEF IsDb, Columns
  <2> QED
    BY <2>3, <2>4 DEF Began, Versions
<1>2. CASE \E v \in Versions : f = FileOf(v)
  BY <1>2, FileOfBegan
<1>3. CASE f = [FileOf(10) EXCEPT !.tables["thumb"] = FileOf(11).tables["thumb"]]
  <2>1. PICK d, table : d = FileOf(10) /\ table = FileOf(11).tables["thumb"]
    OBVIOUS
  <2>2. 10 \in Versions /\ 11 \in Versions /\ "thumb" \in Tables /\ "store" \in Tables
    BY DEF Versions, Tables
  <2>3. Began(d) /\ d.version = 10 /\ \A t \in Tables : d.tables[t] = [c \in Format(10, t) |-> c]
    BY <2>1, <2>2, FileOfBegan
  <2>4. table = [c \in Format(11, "thumb") |-> c]
    BY <2>1, <2>2, FileOfBegan
  <2>5. f = [d EXCEPT !.tables["thumb"] = table] /\ IsDb(d)
    BY <1>3, <2>1, <2>3 DEF Began
  <2>6. SetsTable(d, f, "thumb", table)
    BY <2>2, <2>5, TableSet
  <2>7. /\ IsDb(f) /\ f.version = 10 /\ f.tables["thumb"] = table
        /\ \A u \in Tables : u # "thumb" => f.tables[u] = [c \in Format(10, u) |-> c]
    BY <2>3, <2>6 DEF SetsTable
  <2>8. Format(11, "thumb") = {"id", "image"} /\ "id" \in Format(10, "store")
    BY DEF Format
  <2>9. Columns(f, "thumb") = {"id", "image"} /\ \A c \in {"id", "image"} : f.tables["thumb"][c] = c
    BY <2>4, <2>7, <2>8 DEF Columns
  <2>10. \A u \in Tables : u # "thumb" => /\ Columns(f, u) = Format(10, u)
                                          /\ \A c \in Columns(f, u) : f.tables[u][c] = c
    BY <2>7 DEF Columns
  <2>11. Exists(f, "store")
    BY <2>2, <2>8, <2>10 DEF Exists
  <2> QED
    BY <2>2, <2>7, <2>9, <2>10, <2>11 DEF Began
<1> QED
  BY <1>1, <1>2, <1>3 DEF Files

\* A file with tables is, as it is, what the statements for its version expect.
LEMMA LandsAt ==
  ASSUME NEW f, Began(f), Exists(f, "store")
  PROVE  Between(f, f, Place(f.version))
<1>1. PICK v, n : v = f.version /\ n = Place(v)
  OBVIOUS
<1>2. /\ IsDb(f) /\ v \in Versions
      /\ \A t \in Tables : \A c \in Columns(f, t) : f.tables[t][c] = c
      /\ \A t \in Tables : \/ Columns(f, t) = Format(v, t)
                           \/ t = "thumb" /\ v = 10 /\ Columns(f, t) = {"id", "image"}
  BY <1>1 DEF Began, Exists, Tables
<1>3. /\ v \in Before(n) /\ n \in 3..27 /\ n \notin 14..17
      /\ v = 10 => n = 20
  BY <1>1, <1>2 DEF Before, Place, Versions
<1>4. \A t \in Tables : Format(v, t) = ColumnsAt(n, t)
  <2>1. CASE v = 0
    <3>1. n = 3
      BY <1>1, <2>1 DEF Place
    <3> QED
      BY <2>1, <3>1 DEF Tables, Format, ColumnsAt
  <2>2. CASE v = 1
    <3>1. n = 5
      BY <1>1, <2>2 DEF Place
    <3> QED
      BY <2>2, <3>1 DEF Tables, Format, ColumnsAt
  <2>3. CASE v = 2
    <3>1. n = 9
      BY <1>1, <2>3 DEF Place
    <3> QED
      BY <2>3, <3>1 DEF Tables, Format, ColumnsAt
  <2>4. CASE v = 3
    <3>1. n = 11
      BY <1>1, <2>4 DEF Place
    <3> QED
      BY <2>4, <3>1 DEF Tables, Format, ColumnsAt
  <2>5. CASE v = 4
    <3>1. n = 18
      BY <1>1, <2>5 DEF Place
    <3> QED
      BY <2>5, <3>1 DEF Tables, Format, ColumnsAt
  <2>6. CASE v = 5
    <3>1. n = 20
      BY <1>1, <2>6 DEF Place
    <3> QED
      BY <2>6, <3>1 DEF Tables, Format, ColumnsAt
  <2>7. CASE v = 10
    <3>1. n = 20
      BY <1>1, <2>7 DEF Place
    <3> QED
      BY <2>7, <3>1 DEF Tables, Format, ColumnsAt
  <2>8. CASE v = 11
    <3>1. n = 22
      BY <1>1, <2>8 DEF Place
    <3> QED
      BY <2>8, <3>1 DEF Tables, Format, ColumnsAt
  <2>9. CASE v = 12
    <3>1. n = 24
      BY <1>1, <2>9 DEF Place
    <3> QED
      BY <2>9, <3>1 DEF Tables, Format, ColumnsAt
  <2>10. CASE v = 13
    <3>1. n = 27
      BY <1>1, <2>10 DEF Place
    <3> QED
      BY <2>10, <3>1 DEF Tables, Format, ColumnsAt
  <2> QED
    BY <1>2, <2>1, <2>2, <2>3, <2>4, <2>5, <2>6, <2>7, <2>8, <2>9, <2>10 DEF Versions
<1>5. Shaped(f, n)
  BY <1>1, <1>2, <1>3, <1>4 DEF Shaped
<1>6. /\ Columns(f, "image") = ColumnsAt(n, "image") /\ Columns(f, "store") = ColumnsAt(n, "store")
      /\ \A t \in {"store", "image"} : \A C : C \subseteq Columns(f, t) => Holds(f, t, C)
  BY <1>2, <1>4 DEF Holds, Tables
<1>7. /\ n <= 17 => ColumnsAt(n, "image") = {} /\ n <= 15
      /\ n > 14 => /\ ColumnsAt(n, "store") = {"id", "hash", "image"} /\ ~ (n <= 17) /\ ~ (n <= 15)
                   /\ n > 16 /\ "id" \in ColumnsAt(n, "image")
      /\ n > 16 => n > 14
  <2>1. CASE n <= 17
    <3>1. n <= 12
      BY <1>1, <1>2, <2>1 DEF Place, Versions
    <3> QED
      BY <1>3, <3>1 DEF ColumnsAt
  <2>2. CASE ~ (n <= 17)
    BY <1>3, <2>2 DEF ColumnsAt
  <2> QED
    BY <2>1, <2>2
<1>8. Survives(f, f, n)
  <2>1. n > 14 => /\ Staying(f) \subseteq Columns(f, "store")
                  /\ Leaving(f) \subseteq Columns(f, "image")
    BY <1>6, <1>7 DEF Staying, Leaving
  <2> QED
    BY <1>3, <1>6, <1>7, <2>1 DEF Survives
<1> QED
  BY <1>1, <1>5, <1>8 DEF Between

LEMMA FreshAtFirst ==
  ASSUME NEW f, Began(f), ~Exists(f, "store")
  PROVE  Between(f, f, 1)
<1>1. IsDb(f) /\ f.version = 0 /\ \A t \in Tables : Columns(f, t) = {}
  BY DEF Began
<1>2. 0 \in Before(1) /\ \A t \in Tables : ColumnsAt(1, t) = {}
  BY DEF Before, Tables, ColumnsAt
<1>3. Columns(f, "store") = {} /\ Columns(f, "image") = {}
  BY <1>1 DEF Tables
<1> QED
  BY <1>1, <1>2, <1>3 DEF Between, Shaped, Survives, Holds
--------------------------------------------------------------------------------
(* What a transaction does next. *)

LEMMA StatementCount == Len(Statements) = 26
  BY Listed

\* Where process p is, in either case.
Somewhere(p) == /\ version[p] \in Versions /\ version[p] = work[p].version
                /\ \/ stamp[p] = 0 /\ OfOld(p)
                   \/ stamp[p] = 1 /\ OfNew(p)

LEMMA UpgradingSomewhere ==
  ASSUME IInv, NEW p \in Processes, pc[p] = "upgrade"
  PROVE  Somewhere(p)
<1>1. Upgrading(p)
  BY DEF IInv
<1>2. version[p] \in Versions
  BY DEF IInv, TypeOK
<1> QED
  BY <1>1, <1>2 DEF Upgrading, Somewhere

LEMMA InList ==
  ASSUME IInv, NEW p \in Processes, next[p] <= Len(Statements)
  PROVE  next[p] \in 1..26
<1>1. next[p] \in 1..27
  BY StatementCount DEF IInv, TypeOK
<1> QED
  BY <1>1, StatementCount

LEMMA PlaceOf ==
  ASSUME NEW k \in 1..26
  PROVE  k # 27 /\ (k <= 2 => k = 1 \/ k = 2)
  OBVIOUS

LEMMA OldPlaces ==
  ASSUME NEW p, OfOld(p)
  PROVE  \/ /\ next[p] = 1 /\ work[p] = file
            /\ fresh[p] <=> ~Exists(file, "store")
         \/ /\ next[p] \in 2..27 /\ Between(file, work[p], next[p])
            /\ next[p] = 2 => fresh[p]
  BY Zenon DEF OfOld, Last

LEMMA NewPlaces ==
  ASSUME NEW p, OfNew(p)
  PROVE  next[p] \in {1, 27} /\ Between(file, work[p], 27) /\ ~fresh[p]
  BY Zenon DEF OfNew, Last

LEMMA SkippedByVersion ==
  ASSUME NEW p, NEW k \in 1..26, ~fresh[p], version[p] \in Versions
  PROVE  Skipped(p, Statements[k]) <=> VersionAt(k) <= version[p]
<1>1. Statements[k][1] = VersionAt(k)
  BY VersionOf
<1>2. VersionAt(k) = 0 => VersionAt(k) <= version[p]
  BY DEF Versions
<1> QED
  BY <1>1, <1>2 DEF Skipped

\* A statement that is not skipped finds the tables that the ones before it have made.
LEMMA NotSkipped ==
  ASSUME IInv, NEW p \in Processes, pc[p] = "upgrade", next[p] <= Len(Statements),
         ~Skipped(p, Statement(p))
  PROVE  /\ next[p] \in 1..26 /\ stamp[p] = 0 /\ Between(file, work[p], next[p])
         /\ next[p] <= 2 => fresh[p]
<1>1. /\ next[p] \in 1..26 /\ version[p] \in Versions
      /\ \/ stamp[p] = 0 /\ OfOld(p)
         \/ stamp[p] = 1 /\ OfNew(p)
  BY InList, UpgradingSomewhere DEF Somewhere
<1>2. Began(file)
  BY FilesBegin DEF IInv, TypeOK
<1>3. next[p] = 1 => fresh[p]
  <2>1. 1 \in 1..26 /\ VersionAt(1) = 0
    BY DEF VersionAt
  <2>2. VersionAt(1) <= version[p]
    BY <1>1, <2>1 DEF Versions
  <2> QED
    BY <1>1, <2>1, <2>2, SkippedByVersion DEF Statement
<1>4. stamp[p] = 0 /\ OfOld(p)
  <2>1. next[p] # 27
    BY <1>1, PlaceOf, Zenon
  <2> QED
    BY <1>1, <1>3, <2>1, NewPlaces, Zenon
<1>5. \/ next[p] = 1 /\ work[p] = file /\ (fresh[p] <=> ~Exists(file, "store"))
      \/ next[p] \in 2..27 /\ Between(file, work[p], next[p]) /\ (next[p] = 2 => fresh[p])
  BY <1>4, OldPlaces, Zenon
<1>6. Between(file, work[p], next[p])
  BY <1>2, <1>3, <1>5, FreshAtFirst
<1>7. next[p] <= 2 => fresh[p]
  <2>1. next[p] <= 2 => next[p] = 1 \/ next[p] = 2
    BY <1>1, PlaceOf, Zenon
  <2>2. next[p] = 2 => fresh[p]
    <3>1. next[p] = 2 => next[p] # 1
      OBVIOUS
    <3> QED
      BY <1>5, <3>1, Zenon
  <2> QED
    BY <1>3, <2>1, <2>2, Zenon
<1> QED
  BY <1>1, <1>4, <1>6, <1>7

\* Statements are skipped from the first one on, to the place of the version.
LEMMA Skipping ==
  ASSUME IInv, NEW p \in Processes, Skip(p)
  PROVE  /\ next[p] = 1 /\ ~fresh[p] /\ next' = [next EXCEPT ![p] = Place(version[p])]
         /\ version[p] = work[p].version
         /\ \/ stamp[p] = 0 /\ work[p] = file /\ Exists(file, "store")
            \/ stamp[p] = 1 /\ Between(file, work[p], Last)
<1>1. /\ next[p] \in 1..26 /\ version[p] \in Versions /\ version[p] = work[p].version
      /\ pc[p] = "upgrade" /\ Skipped(p, Statements[next[p]])
      /\ \/ stamp[p] = 0 /\ OfOld(p)
         \/ stamp[p] = 1 /\ OfNew(p)
  BY InList, UpgradingSomewhere DEF Somewhere, Skip, Statement
<1>2. Statements[next[p]][1] = VersionAt(next[p])
  BY <1>1, VersionOf
<1>3. CASE stamp[p] = 0 /\ OfOld(p) /\ next[p] \in 3..26
  <2>1. work[p].version \in Before(next[p])
    BY <1>1, <1>3 DEF OfOld, Between, Shaped
  <2>2. VersionAt(next[p]) # 0 /\ ~ (VersionAt(next[p]) <= work[p].version)
    BY <1>3, <2>1, VersionsBefore
  <2> QED
    BY <1>1, <1>2, <2>2 DEF Skipped
<1>4. CASE stamp[p] = 0 /\ OfOld(p) /\ next[p] = 2
  <2>1. fresh[p] /\ VersionAt(2) = 0
    BY <1>4 DEF OfOld, VersionAt
  <2> QED
    BY <1>1, <1>2, <1>4, <2>1 DEF Skipped
<1>5. CASE /\ next[p] = 1 /\ ~fresh[p]
           /\ \/ stamp[p] = 0 /\ work[p] = file /\ Exists(file, "store")
              \/ stamp[p] = 1 /\ Between(file, work[p], Last)
  <2>1. PICK n \in next[p]..Len(Statements) :
          /\ \A k \in next[p]..n : Skipped(p, Statements[k])
          /\ n < Len(Statements) => ~Skipped(p, Statements[n + 1])
          /\ next' = [next EXCEPT ![p] = n + 1]
    BY DEF Skip
  <2>2. n \in 1..26 /\ \A k \in 1..n : Skipped(p, Statements[k])
    BY <1>5, <2>1, StatementCount
  <2>3. ASSUME NEW k \in 1..n PROVE VersionAt(k) <= version[p]
    <3>1. k \in 1..26 /\ Skipped(p, Statements[k])
      BY <2>2
    <3> QED
      BY <1>1, <1>5, <3>1, SkippedByVersion, Zenon
  <2>4. n < 26 => ~ (VersionAt(n + 1) <= version[p])
    <3>1. n < 26 => n + 1 \in 1..26 /\ ~Skipped(p, Statements[n + 1])
      BY <2>1, <2>2, StatementCount
    <3> QED
      BY <1>1, <1>5, <3>1, SkippedByVersion
  <2>5. n + 1 = Place(version[p])
    BY <1>1, <2>2, <2>3, <2>4, SkippedTo
  <2> QED
    BY <1>1, <1>5, <2>1, <2>5
<1>6. CASE stamp[p] = 0 /\ OfOld(p) /\ next[p] = 1
  <2>1. VersionAt(1) = 0
    BY DEF VersionAt
  <2>2. ~fresh[p]
    BY <1>1, <1>2, <1>6, <2>1 DEF Skipped
  <2> QED
    BY <1>5, <1>6, <2>2 DEF OfOld
<1>7. CASE stamp[p] = 1 /\ OfNew(p)
  BY <1>1, <1>5, <1>7 DEF OfNew, Last
<1> QED
  BY <1>1, <1>3, <1>4, <1>6, <1>7
--------------------------------------------------------------------------------
(* The invariant is inductive. *)

\* What a step of another process leaves to process q.
Keeps(q) == /\ file' = file /\ pc'[q] = pc[q] /\ next'[q] = next[q] /\ work'[q] = work[q]
            /\ stamp'[q] = stamp[q] /\ version'[q] = version[q] /\ fresh'[q] = fresh[q]
            /\ starts >= 1 => starts' >= 1
            /\ writer' = q => writer = q /\ commits' = commits

LEMMA OthersKept ==
  ASSUME NEW q, Upgrading(q), Keeps(q)
  PROVE  Upgrading(q)'
<1>1. pc'[q] # "off" => starts' >= 1
  BY DEF Upgrading, Keeps
<1>2. writer' = q => pc'[q] \in {"upgrade", "error"} /\ stamp'[q] = 0 /\ commits' = 0
  BY DEF Upgrading, Keeps
<1>3. OfOld(q) => OfOld(q)'
  BY DEF OfOld, Keeps
<1>4. OfNew(q) => OfNew(q)'
  BY DEF OfNew, Keeps
<1>5. pc'[q] = "upgrade" => /\ version'[q] = work'[q].version
                            /\ \/ stamp'[q] = 0 /\ OfOld(q)'
                               \/ stamp'[q] = 1 /\ OfNew(q)'
  BY <1>3, <1>4 DEF Upgrading, Keeps
<1> QED
  BY <1>1, <1>2, <1>5 DEF Upgrading

\* The file and its commits are left alone.
LEMMA SettledKept ==
  ASSUME Settled, file' = file, committed' = committed, commits' = commits,
         starts >= 1 => starts' >= 1
  PROVE  Settled'
  BY DEF Settled

LEMMA Initially == Init => IInv
<1> SUFFICES ASSUME Init PROVE IInv
  OBVIOUS
<1>1. Began(file)
  BY FilesBegin DEF Init
<1>2. committed.version \in Versions /\ DOMAIN committed.tables = Tables
  BY <1>1 DEF Init, Began, IsDb
<1>3. NoFile.version = 0 /\ 0 \in Versions
  BY DEF NoFile, Versions
<1>4. TypeOK
  BY <1>2, <1>3, StatementCount, MigrationAssumption DEF Init, TypeOK, Places
<1>5. Settled
  BY DEF Init, Settled
<1>6. ASSUME NEW p \in Processes PROVE Upgrading(p)
  BY MigrationAssumption DEF Init, Upgrading
<1> QED
  BY <1>4, <1>5, <1>6 DEF Init, IInv

\* A step of process p leads to the invariant again.
LEMMA OneSteps ==
  ASSUME IInv, NEW p, TypeOK', Settled', DOMAIN work' = Processes, DOMAIN stamp' = Processes,
         Upgrading(p)', \A q \in Processes : q # p => Keeps(q)
  PROVE  IInv'
<1>1. ASSUME NEW q \in Processes, q # p PROVE Upgrading(q)'
  BY <1>1, OthersKept DEF IInv
<1> QED
  BY <1>1 DEF IInv

LEMMA StartKeeps ==
  ASSUME IInv, NEW p \in Processes, Start(p)
  PROVE  IInv'
<1>1. /\ pc \in [Processes -> Places]
      /\ starts \in 0..MaxStarts /\ MaxStarts \in Nat
  BY MigrationAssumption DEF IInv, TypeOK
<1>2. pc' = [pc EXCEPT ![p] = "pragma"] /\ starts' = starts + 1 /\ starts < MaxStarts
  BY DEF Start, Go
<1>3. UNCHANGED <<usable, file, committed, commits, writer, next, work, stamp, version, fresh>>
  BY DEF Start, disk, transaction
<1>4. TypeOK'
  <2>1. /\ pc' \in [Processes -> Places]
        /\ starts' \in 0..MaxStarts
    BY <1>1, <1>2 DEF Places
  <2> QED
    BY <1>3, <2>1 DEF IInv, TypeOK
<1>5. starts >= 1 => starts' >= 1
  BY <1>1, <1>2
<1>6. Settled'
  BY <1>3, <1>5, SettledKept DEF IInv
<1>7. writer # p
  BY DEF IInv, Upgrading, Start
<1>8. Upgrading(p)'
  BY <1>1, <1>2, <1>3, <1>7 DEF Upgrading
<1>9. \A q \in Processes : q # p => Keeps(q)
  BY <1>1, <1>2, <1>3, <1>5 DEF Keeps
<1> QED
  BY <1>3, <1>4, <1>6, <1>8, <1>9, OneSteps DEF IInv

\* Where a step that touches no table leads, but for the start and the first read.
Leads == Places \ {"pragma", "upgrade", "ready"}

\* Only the place of p in the program, and the writer, change: p is not upgrading then.
Leaves(p, to) == /\ to \in Leads /\ pc' = [pc EXCEPT ![p] = to]
                 /\ writer' \in {writer, "nobody"} /\ pc[p] # "off"
                 /\ writer' = p => to = "error"
                 /\ UNCHANGED <<usable, file, committed, commits, next, work, stamp, version,
                                fresh, starts>>

LEMMA LeavingKeeps ==
  ASSUME IInv, NEW p \in Processes, NEW to, Leaves(p, to)
  PROVE  IInv'
<1>1. /\ pc \in [Processes -> Places]
      /\ starts \in 0..MaxStarts /\ MaxStarts \in Nat /\ "nobody" \notin Processes
  BY MigrationAssumption DEF IInv, TypeOK
<1>2. /\ to \in Leads /\ pc' = [pc EXCEPT ![p] = to]
      /\ writer' \in {writer, "nobody"} /\ pc[p] # "off"
      /\ writer' = p => to = "error"
  BY DEF Leaves
<1>3. UNCHANGED <<usable, file, committed, commits, next, work, stamp, version, fresh, starts>>
  BY DEF Leaves
<1>4. TypeOK'
  <2>1. pc' \in [Processes -> Places]
    BY <1>1, <1>2 DEF Leads
  <2>2. writer' \in Processes \cup {"nobody"}
    BY <1>2 DEF IInv, TypeOK
  <2> QED
    BY <1>3, <2>1, <2>2 DEF IInv, TypeOK
<1>5. Settled'
  BY <1>3, SettledKept DEF IInv
<1>6. pc'[p] = to /\ Upgrading(p)
  BY <1>1, <1>2 DEF IInv
<1>7. writer' = p => writer = p
  BY <1>1, <1>2
<1>8. Upgrading(p)'
  BY <1>2, <1>3, <1>6, <1>7 DEF Upgrading, Leads
<1>9. \A q \in Processes : q # p => Keeps(q)
  BY <1>1, <1>2, <1>3 DEF Keeps
<1> QED
  BY <1>3, <1>4, <1>5, <1>8, <1>9, OneSteps DEF IInv

LEMMA PragmaKeeps ==
  ASSUME IInv, NEW p \in Processes, Pragma(p) \/ PragmaBusy(p)
  PROVE  IInv'
<1>1. writer # p /\ writer' = writer
  BY DEF IInv, Upgrading, Pragma, PragmaBusy, disk
<1>2. PICK to \in {"begin", "looping", "refused"} : pc' = [pc EXCEPT ![p] = to]
  BY DEF Pragma, PragmaBusy, Go
<1>3. Leaves(p, to)
  BY <1>1, <1>2 DEF Pragma, PragmaBusy, Leaves, Leads, Places, disk, transaction
<1> QED
  BY <1>3, LeavingKeeps

LEMMA BeginBusyKeeps ==
  ASSUME IInv, NEW p \in Processes, BeginBusy(p)
  PROVE  IInv'
<1>1. Leaves(p, "error")
  BY DEF BeginBusy, Leaves, Leads, Places, Go, disk, transaction
<1> QED
  BY <1>1, LeavingKeeps

LEMMA CloseKeeps ==
  ASSUME IInv, NEW p \in Processes, Close(p)
  PROVE  IInv'
<1>1. writer # p /\ writer' = writer
  BY DEF IInv, Upgrading, Close, disk
<1>2. Leaves(p, "closing")
  BY <1>1 DEF Close, Leaves, Leads, Places, Go, disk, transaction
<1> QED
  BY <1>2, LeavingKeeps

LEMMA FailKeeps ==
  ASSUME IInv, NEW p \in Processes, Fail(p)
  PROVE  IInv'
<1>1. Leaves(p, "error")
  BY DEF Fail, Leaves, Leads, Places, Go, disk, transaction
<1> QED
  BY <1>1, LeavingKeeps

LEMMA RollbackKeeps ==
  ASSUME IInv, NEW p \in Processes, Rollback(p)
  PROVE  IInv'
<1>1. p # "nobody"
  BY MigrationAssumption
<1>2. PICK to \in {"failed", "looping"} : pc' = [pc EXCEPT ![p] = to]
  BY DEF Rollback, Go
<1>3. Leaves(p, to)
  BY <1>1, <1>2 DEF Rollback, Leaves, Leads, Places, End, transaction
<1> QED
  BY <1>3, LeavingKeeps

LEMMA CrashKeeps ==
  ASSUME IInv, NEW p \in Processes, Crash(p)
  PROVE  IInv'
<1>1. p # "nobody"
  BY MigrationAssumption
<1>2. Leaves(p, "off")
  BY <1>1 DEF Crash, Leaves, Leads, Places, Go, End, transaction
<1> QED
  BY <1>2, LeavingKeeps

\* The upgraded file has a table store.
LEMMA StoreThere ==
  ASSUME NEW f, NEW d, Between(f, d, 27)
  PROVE  Exists(d, "store") /\ d.version = 13
<1>1. Columns(d, "store") = ColumnsAt(27, "store") /\ d.version \in Before(27)
  BY DEF Between, Shaped, Tables
<1>2. "id" \in ColumnsAt(27, "store")
  BY DEF ColumnsAt
<1> QED
  BY <1>1, <1>2 DEF Exists, Before

\* What is common to the two kinds of transaction.
Going(p) == /\ starts >= 1 /\ version[p] = work[p].version
            /\ writer = p => pc[p] \in {"upgrade", "error"} /\ stamp[p] = 0 /\ commits = 0

LEMMA OldGoesOn ==
  ASSUME NEW p, Going(p)', stamp'[p] = 0, OfOld(p)'
  PROVE  Upgrading(p)'
  BY Zenon DEF Upgrading, Going

LEMMA NewGoesOn ==
  ASSUME NEW p, Going(p)', stamp'[p] = 1, OfNew(p)'
  PROVE  Upgrading(p)'
  BY Zenon DEF Upgrading, Going

LEMMA BeginKeeps ==
  ASSUME IInv, NEW p \in Processes, Begin(p)
  PROVE  IInv'
<1>1. /\ pc \in [Processes -> Places]
      /\ next \in [Processes -> 1..Len(Statements) + 1] /\ DOMAIN work = Processes
      /\ DOMAIN stamp = Processes /\ version \in [Processes -> Versions]
      /\ fresh \in [Processes -> BOOLEAN] /\ commits \in Nat /\ committed.version \in Versions
      /\ Len(Statements) \in Nat
  BY StatementCount DEF IInv, TypeOK
<1>2. /\ pc[p] = "begin" /\ pc' = [pc EXCEPT ![p] = "upgrade"] /\ next' = [next EXCEPT ![p] = 1]
      /\ work' = [work EXCEPT ![p] = committed] /\ stamp' = [stamp EXCEPT ![p] = commits]
      /\ version' = [version EXCEPT ![p] = committed.version]
      /\ fresh' = [fresh EXCEPT ![p] = ~Exists(committed, "store")]
      /\ UNCHANGED <<usable, file, committed, commits, writer, starts>>
  BY DEF Begin, Go, disk
<1>3. /\ pc'[p] = "upgrade" /\ next'[p] = 1 /\ work'[p] = committed /\ stamp'[p] = commits
      /\ version'[p] = committed.version /\ (fresh'[p] <=> ~Exists(committed, "store"))
  BY <1>1, <1>2
<1>4. TypeOK'
  <2>1. /\ pc' \in [Processes -> Places]
        /\ next' \in [Processes -> 1..Len(Statements) + 1]
        /\ version' \in [Processes -> Versions] /\ fresh' \in [Processes -> BOOLEAN]
    BY <1>1, <1>2 DEF Places
  <2>2. \A q \in Processes : work'[q].version \in Versions /\ stamp'[q] \in 0..commits
    BY <1>1, <1>2 DEF IInv, TypeOK
  <2> QED
    BY <1>2, <2>1, <2>2 DEF IInv, TypeOK
<1>5. Settled'
  BY <1>2, SettledKept DEF IInv
<1>6. starts >= 1 /\ writer # p
  BY <1>2 DEF IInv, Upgrading
<1>7. Going(p)'
  BY <1>2, <1>3, <1>6 DEF Going
<1>8. ASSUME commits = 0 /\ committed = file
      PROVE  Upgrading(p)'
  <2>1. OfOld(p)'
    BY <1>2, <1>3, <1>8 DEF OfOld
  <2> QED
    BY <1>3, <1>7, <1>8, <2>1, OldGoesOn
<1>9. ASSUME commits = 1 /\ Between(file, committed, Last)
      PROVE  Upgrading(p)'
  <2>1. Exists(committed, "store")
    BY <1>9, StoreThere DEF Last
  <2>2. OfNew(p)'
    BY <1>2, <1>3, <1>9, <2>1 DEF OfNew
  <2> QED
    BY <1>3, <1>7, <1>9, <2>2, NewGoesOn
<1>10. Upgrading(p)'
  BY <1>8, <1>9 DEF IInv, Settled
<1>11. \A q \in Processes : q # p => Keeps(q)
  BY <1>1, <1>2 DEF Keeps
<1>12. DOMAIN work' = Processes /\ DOMAIN stamp' = Processes
  BY <1>1, <1>2
<1> QED
  BY <1>4, <1>5, <1>10, <1>11, <1>12, OneSteps

LEMMA PlacesOfVersions ==
  ASSUME NEW v \in Versions
  PROVE  Place(v) \in 2..27 /\ Place(v) # 2 /\ Place(13) = 27
  BY DEF Versions, Place

LEMMA SkipKeeps ==
  ASSUME IInv, NEW p \in Processes, Skip(p)
  PROVE  IInv'
<1>1. /\ next \in [Processes -> 1..27] /\ version[p] \in Versions
  BY StatementCount DEF IInv, TypeOK
<1>2. UNCHANGED <<usable, file, committed, commits, writer, pc, work, stamp, version, fresh,
                  starts>>
  BY DEF Skip, disk
<1>3. /\ next[p] = 1 /\ ~fresh[p] /\ next' = [next EXCEPT ![p] = Place(version[p])]
      /\ version[p] = work[p].version
      /\ \/ stamp[p] = 0 /\ work[p] = file /\ Exists(file, "store")
         \/ stamp[p] = 1 /\ Between(file, work[p], Last)
  BY Skipping
<1>4. Place(version[p]) \in 2..27 /\ Place(version[p]) # 2 /\ Place(13) = 27
  BY <1>1, PlacesOfVersions
<1>5. next' \in [Processes -> 1..27] /\ next'[p] = Place(version[p])
  BY <1>1, <1>3, <1>4
<1>6. TypeOK'
  BY <1>2, <1>5, StatementCount DEF IInv, TypeOK
<1>7. Settled'
  BY <1>2, SettledKept DEF IInv
<1>8. Going(p)'
  <2>1. Going(p)
    BY <1>3 DEF IInv, Upgrading, Going, Skip
  <2> QED
    BY <1>2, <2>1 DEF Going
<1>9. ASSUME stamp[p] = 0 /\ work[p] = file /\ Exists(file, "store")
      PROVE  Upgrading(p)'
  <2>1. Between(file, work[p], Place(version[p]))
    <3>1. Began(file)
      BY FilesBegin DEF IInv, TypeOK
    <3> QED
      BY <1>3, <1>9, <3>1, LandsAt
  <2>2. OfOld(p)'
    BY <1>2, <1>4, <1>5, <2>1 DEF OfOld, Last
  <2> QED
    BY <1>2, <1>8, <1>9, <2>2, OldGoesOn
<1>10. ASSUME stamp[p] = 1 /\ Between(file, work[p], Last)
      PROVE  Upgrading(p)'
  <2>1. version[p] = 13
    BY <1>3, <1>10, StoreThere DEF Last
  <2>2. OfNew(p)'
    BY <1>2, <1>3, <1>4, <1>5, <1>10, <2>1 DEF OfNew, Last
  <2> QED
    BY <1>2, <1>8, <1>10, <2>2, NewGoesOn
<1>11. Upgrading(p)'
  BY <1>3, <1>9, <1>10
<1>12. \A q \in Processes : q # p => Keeps(q)
  BY <1>1, <1>2, <1>3 DEF Keeps
<1> QED
  BY <1>2, <1>6, <1>7, <1>11, <1>12, OneSteps DEF IInv

LEMMA VersionsKnown ==
  ASSUME NEW n \in 1..27, NEW v, v \in Before(n)
  PROVE  v \in Versions
  BY DEF Before, Versions

LEMMA ExecuteKeeps ==
  ASSUME IInv, NEW p \in Processes, Execute(p)
  PROVE  IInv'
<1>1. /\ next \in [Processes -> 1..27] /\ DOMAIN work = Processes /\ DOMAIN stamp = Processes
      /\ version \in [Processes -> Versions] /\ commits \in Nat
  BY StatementCount DEF IInv, TypeOK
<1>2. /\ pc[p] = "upgrade" /\ writer' = p /\ next' = [next EXCEPT ![p] = @ + 1]
      /\ work' = [work EXCEPT ![p] = Result(Statement(p), @)]
      /\ version' = [version EXCEPT ![p] = work'[p].version] /\ MayWrite(p)
      /\ UNCHANGED <<usable, file, committed, commits, pc, stamp, fresh, starts>>
  BY DEF Execute
<1>3. /\ next[p] \in 1..26 /\ stamp[p] = 0 /\ Between(file, work[p], next[p])
      /\ next[p] <= 2 => fresh[p]
  BY NotSkipped DEF Execute
<1>4. PICK e : e = Result(Statement(p), work[p])
  OBVIOUS
<1>5. Between(file, e, next[p] + 1)
  BY <1>3, <1>4, EachProceeds DEF Proceeds, Statement
<1>6. next[p] + 1 \in 2..27 /\ (next[p] + 1 = 2 => fresh[p])
  <2>1. next[p] + 1 \in 2..27 /\ (next[p] + 1 = 2 => next[p] <= 2)
    BY <1>3
  <2> QED
    BY <1>3, <2>1, Zenon
<1>7. e.version \in Versions
  <2>1. next[p] + 1 \in 1..27
    BY <1>3
  <2>2. e.version \in Before(next[p] + 1)
    BY <1>5 DEF Between, Shaped
  <2> QED
    BY <2>1, <2>2, VersionsKnown
<1>8. work' = [work EXCEPT ![p] = e] /\ work'[p] = e /\ version'[p] = e.version
  BY <1>1, <1>2, <1>4
<1>9. next' \in [Processes -> 1..27] /\ next'[p] = next[p] + 1
  BY <1>1, <1>2, <1>3
<1>10. TypeOK'
  <2>1. version' \in [Processes -> Versions] /\ \A q \in Processes : work'[q].version \in Versions
    BY <1>1, <1>2, <1>7, <1>8 DEF IInv, TypeOK
  <2> QED
    BY <1>2, <1>9, <2>1, StatementCount DEF IInv, TypeOK
<1>11. Settled'
  BY <1>2, SettledKept DEF IInv
<1>12. commits = 0
  BY <1>2, <1>3 DEF MayWrite, IInv, Upgrading
<1>13. OfOld(p)'
  BY <1>2, <1>5, <1>6, <1>8, <1>9 DEF OfOld, Last
<1>14. Upgrading(p)'
  BY <1>2, <1>3, <1>8, <1>12, <1>13 DEF IInv, Upgrading
<1>15. \A q \in Processes : q # p => Keeps(q)
  BY <1>1, <1>2 DEF Keeps
<1>16. DOMAIN work' = Processes
  BY <1>1, <1>8
<1> QED
  BY <1>1, <1>2, <1>10, <1>11, <1>14, <1>15, <1>16, OneSteps

LEMMA CommitKeeps ==
  ASSUME IInv, NEW p \in Processes, Commit(p)
  PROVE  IInv'
<1>1. /\ pc \in [Processes -> Places]
      /\ next \in [Processes -> 1..27] /\ starts \in 0..MaxStarts /\ MaxStarts \in Nat
      /\ "nobody" \notin Processes
  BY StatementCount, MigrationAssumption DEF IInv, TypeOK
<1>2. /\ pc[p] = "upgrade" /\ next[p] > Len(Statements) /\ pc' = [pc EXCEPT ![p] = "ready"]
      /\ UNCHANGED <<usable, file, next, work, stamp, version, fresh, starts>>
  BY DEF Commit, Go, transaction
<1>3. next[p] = 27
  BY <1>1, <1>2, StatementCount
<1>4. /\ pc' \in [Processes -> Places]
      /\ pc'[p] = "ready" /\ starts >= 1
  BY <1>1, <1>2 DEF IInv, Upgrading, Places
<1>5. CASE writer = p
  <2>1. committed' = work[p] /\ commits' = commits + 1 /\ writer' = "nobody"
    BY <1>5 DEF Commit
  <2>2. commits = 0 /\ stamp[p] = 0 /\ OfOld(p)
    BY <1>2, <1>5 DEF IInv, Upgrading
  <2>3. Between(file, work[p], 27)
    BY <1>3, <2>2, OldPlaces
  <2>4. Settled'
    BY <1>2, <1>4, <2>1, <2>2, <2>3 DEF Settled, Last
  <2>5. TypeOK'
    <3>1. work[p].version \in Versions /\ DOMAIN work[p].tables = Tables
      BY <2>3 DEF IInv, TypeOK, Between, Shaped, IsDb
    <3>2. commits' = 1 /\ commits' \in 0..MaxStarts
      BY <1>1, <1>4, <2>1, <2>2
    <3>3. \A q \in Processes : stamp[q] \in 0..1
      BY <2>2 DEF IInv, TypeOK
    <3> QED
      BY <1>2, <1>4, <2>1, <3>1, <3>2, <3>3 DEF IInv, TypeOK
  <2>6. Upgrading(p)'
    BY <1>1, <1>2, <1>4, <2>1 DEF Upgrading
  <2>7. \A q \in Processes : q # p => Keeps(q)
    BY <1>1, <1>2, <2>1 DEF Keeps
  <2> QED
    BY <1>2, <2>4, <2>5, <2>6, <2>7, OneSteps DEF IInv
<1>6. CASE writer # p
  <2>1. UNCHANGED <<committed, commits, writer>>
    BY <1>6 DEF Commit
  <2>2. Settled'
    BY <1>2, <2>1, SettledKept DEF IInv
  <2>3. TypeOK'
    BY <1>2, <1>4, <2>1 DEF IInv, TypeOK
  <2>4. Upgrading(p)'
    BY <1>2, <1>4, <1>6, <2>1 DEF Upgrading
  <2>5. \A q \in Processes : q # p => Keeps(q)
    BY <1>1, <1>2, <2>1 DEF Keeps
  <2> QED
    BY <1>2, <2>2, <2>3, <2>4, <2>5, OneSteps DEF IInv
<1> QED
  BY <1>5, <1>6

LEMMA StutteringKeeps ==
  ASSUME IInv, UNCHANGED vars
  PROVE  IInv'
<1>1. UNCHANGED <<usable, file, committed, commits, writer, pc, next, work, stamp, version, fresh,
                  starts>>
  BY DEF vars, disk
<1>2. TypeOK' /\ Settled'
  BY <1>1 DEF IInv, TypeOK, Settled
<1>3. ASSUME NEW q \in Processes PROVE Upgrading(q)'
  BY <1>1 DEF IInv, Upgrading, OfOld, OfNew
<1> QED
  BY <1>1, <1>2, <1>3 DEF IInv

LEMMA Inductive == IInv /\ [Next]_vars => IInv'
<1> SUFFICES ASSUME IInv, [Next]_vars PROVE IInv'
  OBVIOUS
<1>1. CASE Next
  <2>1. PICK p \in Processes : Start(p) \/ Step(p) \/ Close(p) \/ Crash(p)
    BY <1>1 DEF Next
  <2>2. CASE Start(p)
    BY <2>2, StartKeeps
  <2>3. CASE Step(p)
    BY <2>3, PragmaKeeps, BeginKeeps, BeginBusyKeeps, SkipKeeps, ExecuteKeeps, FailKeeps,
       CommitKeeps, RollbackKeeps DEF Step
  <2>4. CASE Close(p) \/ Crash(p)
    BY <2>4, CloseKeeps, CrashKeeps
  <2> QED
    BY <2>1, <2>2, <2>3, <2>4
<1>2. CASE UNCHANGED vars
  BY <1>2, StutteringKeeps
<1> QED
  BY <1>1, <1>2

LEMMA Invariantly == Spec => []IInv
<1>1. Init => IInv
  BY Initially
<1>2. IInv /\ [Next]_vars => IInv'
  BY Inductive
<1> QED
  BY <1>1, <1>2, PTL DEF Spec

\* The variables keep their types, for any number of processes and of starts: the file has
\* one of the known versions, and changes no more often than processes are started (ImageDao).
THEOREM Correct == Spec => []TypeOK
<1>1. IInv => TypeOK
  BY DEF IInv
<1> QED
  BY <1>1, Invariantly, PTL
--------------------------------------------------------------------------------
(* The file is whole. *)

\* What the last statement leaves is format 13.
LEMMA LastIsFormat ==
  ASSUME NEW d, Shaped(d, 27)
  PROVE  d.version = 13 /\ \A t \in Tables : Columns(d, t) = Format(d.version, t)
<1>1. d.version = 13 /\ \A t \in Tables : Columns(d, t) = ColumnsAt(27, t)
  BY DEF Shaped, Before
<1>2. \A t \in Tables : ColumnsAt(27, t) = Format(13, t)
  BY DEF Tables, ColumnsAt, Format
<1> QED
  BY <1>1, <1>2

LEMMA InvWhole == IInv => DatabaseWhole
<1> SUFFICES ASSUME IInv PROVE FormatMatches /\ ValuesSurvive
  BY DEF DatabaseWhole
<1>1. Began(file)
  BY FilesBegin DEF IInv, TypeOK
<1>2. CASE committed = file
  <2>1. \A t \in Tables : \A c \in Columns(file, t) : file.tables[t][c] = c
    BY <1>1 DEF Began
  <2> QED
    BY <1>2, <2>1 DEF FormatMatches, ValuesSurvive, Tables
<1>3. CASE Between(file, committed, Last)
  <2>1. Shaped(committed, 27) /\ Survives(file, committed, 27)
    BY <1>3 DEF Between, Last
  <2>2. FormatMatches
    BY <2>1, LastIsFormat DEF FormatMatches
  <2>3. /\ Holds(committed, "store", Staying(file))
        /\ Holds(committed, "image", Columns(file, "image") \cup Leaving(file))
    BY <2>1 DEF Survives
  <2>4. Columns(file, "store") = Staying(file) \cup (Leaving(file) \ {"id"}) \cup Staying(file)
    BY DEF Staying, Leaving
  <2>5. ASSUME NEW t \in {"store", "image"}, NEW c \in Columns(file, t)
        PROVE  \E u \in {"store", "image"} : c \in Columns(committed, u)
                                             /\ committed.tables[u][c] = c
    <3>1. CASE c \in Staying(file)
      BY <2>3, <3>1 DEF Holds
    <3>2. CASE c \in Columns(file, "image") \cup Leaving(file)
      BY <2>3, <3>2 DEF Holds
    <3> QED
      BY <2>4, <3>1, <3>2
  <2> QED
    BY <2>2, <2>5 DEF ValuesSurvive
<1> QED
  BY <1>2, <1>3 DEF IInv, Settled

\* However many processes upgrade a file at once, and wherever each fails or ends: a file that
\* has changed has the tables and columns of the version it says it has, and each value that a
\* table had at first is in the column of its name (the constructor of ImageDao).
THEOREM AlwaysWhole == Spec => []DatabaseWhole
  BY Invariantly, InvWhole, PTL

\* No statement of an upgrade is at fault itself: the upgrade goes to its error label only
\* where another process is writing, or has upgraded the file (the constructor of ImageDao).
THEOREM Contended == Spec => FailsOnlyContended
<1>1. ASSUME IInv, Next, NEW p \in Processes, pc[p] = "upgrade", pc'[p] = "error"
      PROVE  writer \notin {p, "nobody"} \/ committed.version = 13
  <2>1. PICK q \in Processes : Start(q) \/ Step(q) \/ Close(q) \/ Crash(q)
    BY <1>1 DEF Next
  <2>2. DOMAIN pc = Processes
    BY <1>1 DEF IInv, TypeOK
  <2>3. Fail(p)
    <3>1. \/ Start(q) \/ Pragma(q) \/ PragmaBusy(q) \/ Begin(q) \/ BeginBusy(q)
          \/ Skip(q) \/ Execute(q) \/ Fail(q) \/ Commit(q) \/ Rollback(q)
          \/ Close(q) \/ Crash(q)
      BY <2>1 DEF Step
    <3>2. CASE Fail(q)
      BY <1>1, <2>2, <3>2 DEF Fail, Go
    <3>3. CASE \/ Start(q) \/ Pragma(q) \/ PragmaBusy(q) \/ Begin(q) \/ BeginBusy(q)
               \/ Commit(q) \/ Rollback(q) \/ Close(q) \/ Crash(q)
      BY <1>1, <2>2, <3>3
      DEF Start, Pragma, PragmaBusy, Begin, BeginBusy, Commit, Rollback, Close, Crash, Go
    <3>4. CASE Skip(q) \/ Execute(q)
      BY <1>1, <3>4 DEF Skip, Execute
    <3> QED
      BY <3>1, <3>2, <3>3, <3>4
  <2>4. next[p] \in 1..26 /\ stamp[p] = 0 /\ Between(file, work[p], next[p])
    BY <1>1, <2>3, NotSkipped DEF Fail
  <2>5. Valid(Statement(p), work[p])
    BY <2>4, EachProceeds DEF Proceeds, Statement
  <2>6. ~MayWrite(p)
    BY <2>3, <2>5 DEF Fail
  <2>7. writer # p /\ (writer # "nobody" \/ commits # 0)
    BY <2>4, <2>6 DEF MayWrite
  <2>8. commits # 0 => committed.version = 13
    BY <1>1, StoreThere DEF IInv, Settled, Last
  <2> QED
    BY <2>7, <2>8
<1>2. IInv /\ [Next]_vars => [\A p \in Processes : pc[p] = "upgrade" /\ pc'[p] = "error"
         => writer \notin {p, "nobody"} \/ committed.version = 13]_vars
  BY <1>1
<1>3. Spec => [][\A p \in Processes : pc[p] = "upgrade" /\ pc'[p] = "error"
         => writer \notin {p, "nobody"} \/ committed.version = 13]_vars
  BY <1>2, Invariantly, PTL DEF Spec
<1> QED
  BY <1>3 DEF FailsOnlyContended
==================================================================================
