------------------------------ MODULE LibraryProofs ------------------------------
(***************************************************************************)
(* Proofs about the library, for any files, tags, initial database and     *)
(* bounds, and whatever the user selects.  First: every variable has its   *)
(* type, and the tables store and image list the same ids.  Then: the GUI  *)
(* thread and the write thread agree; what the user sees is what the       *)
(* database will hold, purges spare what he has not marked, exports find   *)
(* their files, and no image changes its picture.  Each theorem of this    *)
(* part names the condition it needs: that the user leaves the refs of     *)
(* images he has purged alone (~EditGhosts), that no tag is several words  *)
(* (OneWordTags), that files can be decoded (DecodableFiles); the runs     *)
(* PurgeGhost, TagSpaces and ConvertBroken show what happens without them. *)
(***************************************************************************)
EXTENDS Library, WellFoundedInduction, TLAPS

\* The two tables of d list the same ids.
Agree(d) == Stored(d) = HasImage(d)

IInv == TypeOK /\ StoreImageAgree
--------------------------------------------------------------------------------
(* The SQL statements keep a database a database, and its tables in step. *)

LEMMA DatabaseParts ==
  ASSUME NEW d \in Databases
  PROVE  /\ d.store \in [Ids -> Contents \cup {NoRow}]
         /\ d.image \in [Ids -> ImageRows \cup {NoRow}]
         /\ d.tag \in SUBSET (Ids \X Tags)
  BY DEF Databases

LEMMA ChangeTag ==
  ASSUME NEW d \in Databases, NEW rows \in SUBSET (Ids \X Tags), Agree(d)
  PROVE  [d EXCEPT !.tag = rows] \in Databases /\ Agree([d EXCEPT !.tag = rows])
  BY DEF Databases, Agree, Stored, HasImage

LEMMA ChangeImage ==
  ASSUME NEW d \in Databases, NEW rows \in [Ids -> ImageRows \cup {NoRow}], Agree(d),
         \A i \in Ids : rows[i] = NoRow <=> d.image[i] = NoRow
  PROVE  [d EXCEPT !.image = rows] \in Databases /\ Agree([d EXCEPT !.image = rows])
  BY DEF Databases, Agree, Stored, HasImage

LEMMA TagStatements ==
  ASSUME NEW d \in Databases, NEW ids \in SUBSET Ids, NEW t \in Tags, Agree(d)
  PROVE  /\ InsertTag(d, ids, t) \in Databases /\ Agree(InsertTag(d, ids, t))
         /\ DeleteTag(d, ids, t) \in Databases /\ Agree(DeleteTag(d, ids, t))
<1>1. d.tag \cup (ids \X {t}) \in SUBSET (Ids \X Tags)
  BY DatabaseParts
<1>2. d.tag \ (ids \X {t}) \in SUBSET (Ids \X Tags)
  BY DatabaseParts
<1>3. QED
  BY <1>1, <1>2, ChangeTag DEF InsertTag, DeleteTag

LEMMA SetDeletedStatement ==
  ASSUME NEW d \in Databases, NEW ids \in SUBSET Ids, NEW b \in BOOLEAN, Agree(d)
  PROVE  SetDeleted(d, ids, b) \in Databases /\ Agree(SetDeleted(d, ids, b))
<1> DEFINE rows == [i \in Ids |-> IF i \in ids /\ d.image[i] # NoRow
                                  THEN [d.image[i] EXCEPT !.deleted = b]
                                  ELSE d.image[i]]
<1>1. \A i \in Ids : /\ rows[i] \in ImageRows \cup {NoRow}
                     /\ rows[i] = NoRow <=> d.image[i] = NoRow
  <2>1. TAKE i \in Ids
  <2>2. d.image[i] \in ImageRows \cup {NoRow}
    BY DatabaseParts
  <2>3. CASE i \in ids /\ d.image[i] # NoRow
    <3>1. d.image[i] \in ImageRows
      BY <2>2, <2>3
    <3>2. rows[i] = [d.image[i] EXCEPT !.deleted = b]
      BY <2>3
    <3>3. rows[i] \in ImageRows
      BY <3>1, <3>2 DEF ImageRows
    <3>4. QED
      BY <3>3, <2>3, NoImageRowAssumption
  <2>4. CASE ~(i \in ids /\ d.image[i] # NoRow)
    BY <2>2, <2>4
  <2>5. QED
    BY <2>3, <2>4
<1>2. rows \in [Ids -> ImageRows \cup {NoRow}]
  BY <1>1
<1>3. SetDeleted(d, ids, b) = [d EXCEPT !.image = rows]
  BY DEF SetDeleted
<1> HIDE DEF rows
<1>4. QED
  BY <1>1, <1>2, <1>3, ChangeImage

LEMMA MetaFormatType ==
  ASSUME NEW c \in Contents, NEW old \in Formats
  PROVE  MetaFormat(c, old) \in Formats
  BY FileAssumption DEF MetaFormat

LEMMA FixMetaDataStatement ==
  ASSUME NEW d \in Databases, Agree(d)
  PROVE  FixMetaData(d) \in Databases /\ Agree(FixMetaData(d))
<1> DEFINE fixed(i) == IF d.store[i] = NoRow THEN d.image[i].format
                       ELSE MetaFormat(d.store[i], d.image[i].format)
           rows == [i \in Ids |-> IF d.image[i] # NoRow
                                  THEN [d.image[i] EXCEPT !.format = fixed(i)]
                                  ELSE d.image[i]]
<1>1. \A i \in Ids : /\ rows[i] \in ImageRows \cup {NoRow}
                     /\ rows[i] = NoRow <=> d.image[i] = NoRow
  <2>1. TAKE i \in Ids
  <2>2. d.image[i] \in ImageRows \cup {NoRow} /\ d.store[i] \in Contents \cup {NoRow}
    BY DatabaseParts
  <2>3. CASE d.image[i] # NoRow
    <3>1. d.image[i] \in ImageRows /\ d.image[i].format \in Formats
      BY <2>2, <2>3 DEF ImageRows
    <3>2. fixed(i) \in Formats
      BY <3>1, <2>2, MetaFormatType
    <3>3. rows[i] = [d.image[i] EXCEPT !.format = fixed(i)]
      BY <2>3
    <3> HIDE DEF fixed, rows
    <3>4. rows[i] \in ImageRows
      BY <3>1, <3>2, <3>3 DEF ImageRows
    <3>5. QED
      BY <3>4, <2>3, NoImageRowAssumption
  <2>4. CASE d.image[i] = NoRow
    BY <2>4
  <2>5. QED
    BY <2>3, <2>4
<1>2. rows \in [Ids -> ImageRows \cup {NoRow}]
  BY <1>1
<1>3. FixMetaData(d) = [d EXCEPT !.image = rows]
  BY DEF FixMetaData, WithFormat
<1> HIDE DEF rows
<1>4. QED
  BY <1>1, <1>2, <1>3, ChangeImage

LEMMA InsertImageStatement ==
  ASSUME NEW d \in Databases, NEW id \in Ids, NEW c \in Contents, Agree(d)
  PROVE  InsertImage(d, id, c) \in Databases /\ Agree(InsertImage(d, id, c))
<1> DEFINE row == [format |-> MetaFormat(c, "none"), deleted |-> FALSE]
           e == InsertImage(d, id, c)
<1>1. row \in ImageRows /\ row # NoRow /\ c # NoRow
  <2>1. MetaFormat(c, "none") \in Formats
    BY MetaFormatType DEF Formats
  <2>2. row \in ImageRows
    BY <2>1 DEF ImageRows
  <2>3. QED
    BY <2>2, NoImageRowAssumption, RowAssumption
<1>2. e \in [store : {[d.store EXCEPT ![id] = c]},
             image : {[d.image EXCEPT ![id] = row]}, tag : {d.tag}]
  BY DEF InsertImage, Databases
<1> HIDE DEF row, e
<1>3. e \in Databases
  BY <1>1, <1>2, DatabaseParts DEF Databases
<1>4. Agree(e)
  BY <1>1, <1>2, DatabaseParts DEF Agree, Stored, HasImage
<1>5. QED
  BY <1>3, <1>4 DEF e

LEMMA PurgeStatement ==
  ASSUME NEW d \in Databases, Agree(d)
  PROVE  PurgeDeleted(d) \in Databases /\ Agree(PurgeDeleted(d))
<1> DEFINE e == PurgeDeleted(d)
<1>1. e \in [store : {[i \in Ids |-> IF i \in Marked(d) THEN NoRow ELSE d.store[i]]},
             image : {[i \in Ids |-> IF i \in Marked(d) THEN NoRow ELSE d.image[i]]},
             tag   : SUBSET d.tag]
  BY DEF PurgeDeleted, Databases
<1> HIDE DEF e
<1>2. e \in Databases
  BY <1>1, DatabaseParts DEF Databases
<1>3. Agree(e)
  BY <1>1, DatabaseParts DEF Agree, Stored, HasImage
<1>4. QED
  BY <1>2, <1>3 DEF e

LEMMA RecompressStatement ==
  ASSUME NEW d \in Databases, NEW id \in Stored(d), Agree(d)
  PROVE  Recompress(d, id) \in Databases /\ Agree(Recompress(d, id))
<1> DEFINE c == JpegOf[d.store[id]]
           file == IF \E i \in Ids \ {id} : d.store[i] = c THEN d.store[id] ELSE c
           row == [d.image[id] EXCEPT !.format = "jpeg"]
           e == Recompress(d, id)
<1>1. id \in Ids /\ d.store[id] \in Contents /\ d.image[id] \in ImageRows
  BY DatabaseParts DEF Stored, HasImage, Agree
<1>2. file \in Contents /\ file # NoRow
  BY <1>1, FileAssumption, RowAssumption
<1>3. row \in ImageRows /\ row # NoRow
  BY <1>1, NoImageRowAssumption DEF ImageRows, Formats
<1>4. /\ e.store = [d.store EXCEPT ![id] = file]
      /\ e.image = [i \in Ids |-> IF i = id THEN row ELSE d.image[i]]
      /\ e \in [store : {e.store}, image : {e.image}, tag : {d.tag}]
  <2>1. d.image[id] # NoRow
    BY <1>1, NoImageRowAssumption
  <2>2. e.image = [i \in Ids |-> IF i \in {id} /\ d.image[i] # NoRow
                                 THEN [d.image[i] EXCEPT !.format = "jpeg"]
                                 ELSE d.image[i]]
    BY DatabaseParts DEF Recompress, WithFormat
  <2>3. e.store = [d.store EXCEPT ![id] = file]
    BY DEF Recompress, Databases
  <2>4. e \in [store : {e.store}, image : {e.image}, tag : {d.tag}]
    BY DEF Recompress, Databases
  <2>5. QED
    BY <2>1, <2>2, <2>3, <2>4
<1> HIDE DEF file, row, e
<1>5. e \in Databases
  BY <1>1, <1>2, <1>3, <1>4, DatabaseParts DEF Databases
<1>6. Agree(e)
  BY <1>1, <1>2, <1>3, <1>4, DatabaseParts DEF Agree, Stored, HasImage
<1>7. QED
  BY <1>5, <1>6 DEF e
--------------------------------------------------------------------------------
(* Refs. *)

LEMMA RefOfType ==
  ASSUME NEW d \in Databases, NEW i \in HasImage(d), NEW tags \in SUBSET Tags
  PROVE  RefOf(d, i, tags) \in Refs
<1>1. i \in Ids /\ d.image[i] \in ImageRows
  BY DatabaseParts DEF HasImage
<1>2. d.image[i].format \in Formats /\ d.image[i].deleted \in BOOLEAN
  BY <1>1 DEF ImageRows
<1>3. QED
  BY <1>1, <1>2 DEF RefOf, Refs

LEMMA AllType ==
  ASSUME NEW d \in Databases, NEW b \in BOOLEAN
  PROVE  All(d, b) \in [DOMAIN All(d, b) -> Refs]
<1> DEFINE shown == {i \in HasImage(d) : b \/ ~d.image[i].deleted}
<1>1. All(d, b) = [i \in shown |-> RefOf(d, i, JoinedTags(d, i))]
  BY DEF All
<1>2. ASSUME NEW i \in shown
      PROVE  RefOf(d, i, JoinedTags(d, i)) \in Refs
  <2>1. JoinedTags(d, i) \in SUBSET Tags
    BY LibraryAssumption DEF JoinedTags, TagsById
  <2>2. QED
    BY <2>1, RefOfType
<1> HIDE DEF shown
<1>3. DOMAIN All(d, b) = shown /\ \A i \in shown : All(d, b)[i] \in Refs
  BY <1>1, <1>2
<1>4. QED
  BY <1>1, <1>3

LEMMA IdsOfType ==
  ASSUME refs \in [DOMAIN refs -> Refs], NEW on \in SUBSET DOMAIN refs
  PROVE  IdsOf(on) \in SUBSET Ids
  BY DEF IdsOf, Refs

\* Requests and signals that name existing refs keep doing so when refs are added.
LEMMA Renaming ==
  ASSUME DOMAIN refs \subseteq DOMAIN refs'
  PROVE  /\ \A r \in Requests : r \in Requests'
         /\ \A x \in Signals : x \in Signals'
         /\ queue \in Seq(Requests) => queue \in Seq(Requests')
         /\ toGui \in Seq(Signals) => toGui \in Seq(Signals')
<1>1. \A r \in Requests : r \in Requests'
  BY DEF Requests
<1>2. \A x \in Signals : x \in Signals'
  BY DEF Signals
<1>3. QED
  BY <1>1, <1>2

LEMMA TailAppend ==
  ASSUME NEW S, NEW q \in Seq(S)
  PROVE  /\ q # <<>> => Tail(q) \in Seq(S) /\ Head(q) \in S
         /\ \A x \in S : Append(q, x) \in Seq(S)
  OBVIOUS

\* The requests a handler can find, by their operation.
LEMMA RequestCases ==
  ASSUME NEW r \in Requests
  PROVE  /\ r.op \in {"addTag", "removeTag"} => r.on \in SUBSET DOMAIN refs /\ r.tag \in Tags
         /\ r.op = "updateDeleted" => r.on \in SUBSET DOMAIN refs /\ r.deleted \in BOOLEAN
         /\ r.op \in {"compressImages", "renderImages"} => r.on \in SUBSET DOMAIN refs
         /\ r.op = "writeImage" => r.data \in Contents
  BY DEF Requests
--------------------------------------------------------------------------------
LEMMA InitEstablishes == Init => IInv
<1> SUFFICES ASSUME Init PROVE IInv
  OBVIOUS
<1>1. InitialDb \in Databases /\ Agree(InitialDb)
  <2>1. \A i \in Ids : i <= Len(InitialStore) => InitialStore[i] \in Contents
    BY LibraryAssumption, RowAssumption DEF Ids
  <2> DEFINE file(i) == IF i <= Len(InitialStore) THEN InitialStore[i] ELSE NoRow
             row(i) == IF i <= Len(InitialStore)
                       THEN [format |-> MetaFormat(InitialStore[i], "none"),
                             deleted |-> FALSE]
                       ELSE NoRow
  <2>2. \A i \in Ids : /\ file(i) \in Contents \cup {NoRow}
                       /\ row(i) \in ImageRows \cup {NoRow}
                       /\ file(i) = NoRow <=> row(i) = NoRow
    <3>1. TAKE i \in Ids
    <3>2. CASE i <= Len(InitialStore)
      <4>1. InitialStore[i] \in Contents /\ "none" \in Formats
        BY <2>1, <3>2 DEF Formats
      <4>2. MetaFormat(InitialStore[i], "none") \in Formats
        BY <4>1, MetaFormatType
      <4>3. row(i) \in ImageRows
        BY <3>2, <4>2 DEF ImageRows
      <4>4. QED
        BY <3>2, <4>1, <4>3, NoImageRowAssumption, RowAssumption
    <3>3. CASE ~(i <= Len(InitialStore))
      BY <3>3
    <3>4. QED
      BY <3>2, <3>3
  <2>3. InitialDb = [store |-> [i \in Ids |-> file(i)], image |-> [i \in Ids |-> row(i)],
                     tag |-> {}]
    BY DEF InitialDb
  <2> HIDE DEF file, row
  <2>4. InitialDb \in Databases
    BY <2>2, <2>3 DEF Databases
  <2>5. Agree(InitialDb)
    BY <2>2, <2>3 DEF Agree, Stored, HasImage
  <2>6. QED
    BY <2>4, <2>5
<1>2. StoreImageAgree
  BY <1>1 DEF Init, StoreImageAgree, Agree
<1>3. TypeOK
  <2>1. refs \in [DOMAIN refs -> Refs]
    BY <1>1, AllType DEF Init
  <2>2. queue \in Seq(Requests) /\ toGui \in Seq(Signals)
    BY DEF Init
  <2>3. posted \in 0..MaxRequests /\ restarts \in 0..MaxRestarts
    BY LibraryAssumption DEF Init
  <2>4. QED
    BY <1>1, <2>1, <2>2, <2>3 DEF Init, TypeOK
<1>4. QED
  BY <1>2, <1>3 DEF IInv
\* An action of the GUI thread that posts a request and edits refs.
LEMMA PostKeeps ==
  ASSUME IInv, NEW request \in Requests, Post(request),
         refs' \in [DOMAIN refs -> Refs], doomed' \subseteq DOMAIN refs,
         UNCHANGED guiRest
  PROVE  IInv'
<1>1. DOMAIN refs' = DOMAIN refs
  OBVIOUS
<1>2. /\ request \in Requests' /\ queue \in Seq(Requests') /\ toGui' \in Seq(Signals')
  BY <1>1, Renaming DEF IInv, TypeOK, guiRest
<1>3. queue' \in Seq(Requests')
  BY <1>2, TailAppend DEF Post
<1>4. posted' \in 0..MaxRequests
  BY LibraryAssumption DEF IInv, TypeOK, Post
<1>5. TypeOK'
  BY <1>1, <1>2, <1>3, <1>4 DEF IInv, TypeOK, guiRest
<1>6. StoreImageAgree'
  BY DEF IInv, StoreImageAgree, guiRest, Stored, HasImage
<1>7. QED
  BY <1>5, <1>6 DEF IInv

LEMMA EditTagsKeeps ==
  ASSUME IInv, NEW S \in SUBSET DOMAIN refs, NEW t \in Tags, addTag(S, t) \/ removeTag(S, t)
  PROVE  IInv'
<1>1. refs \in [DOMAIN refs -> Refs] /\ doomed \subseteq DOMAIN refs
  BY DEF IInv, TypeOK
<1>2. ASSUME NEW on \in SUBSET DOMAIN refs, NEW op \in {"addTag", "removeTag"}
      PROVE  [op |-> op, on |-> on, tag |-> t] \in Requests
  BY DEF Requests
<1>3. CASE addTag(S, t)
  <2> DEFINE on == {r \in S : t \notin refs[r].tags}
             edited(r) == [refs[r] EXCEPT !.tags = @ \cup {t}]
  <2>1. refs' = [r \in DOMAIN refs |-> IF r \in on THEN edited(r) ELSE refs[r]]
    BY <1>3 DEF addTag, Edited
  <2>2. \A r \in DOMAIN refs : edited(r) \in Refs
    BY <1>1 DEF Refs
  <2>3. refs' \in [DOMAIN refs -> Refs]
    BY <2>1, <2>2, <1>1
  <2>4. Post([op |-> "addTag", on |-> on, tag |-> t]) /\ doomed' = doomed /\ UNCHANGED guiRest
    BY <1>3 DEF addTag
  <2>5. QED
    BY <2>3, <2>4, <1>1, <1>2, PostKeeps
<1>4. CASE removeTag(S, t)
  <2> DEFINE on == {r \in S : t \in refs[r].tags}
             edited(r) == [refs[r] EXCEPT !.tags = @ \ {t}]
  <2>1. refs' = [r \in DOMAIN refs |-> IF r \in on THEN edited(r) ELSE refs[r]]
    BY <1>4 DEF removeTag, Edited
  <2>2. \A r \in DOMAIN refs : edited(r) \in Refs
    BY <1>1 DEF Refs
  <2>3. refs' \in [DOMAIN refs -> Refs]
    BY <2>1, <2>2, <1>1
  <2>4. /\ Post([op |-> "removeTag", on |-> on, tag |-> t])
        /\ doomed' = doomed /\ UNCHANGED guiRest
    BY <1>4 DEF removeTag
  <2>5. QED
    BY <2>3, <2>4, <1>1, <1>2, PostKeeps
<1>5. QED
  BY <1>3, <1>4

LEMMA MarkKeeps ==
  ASSUME IInv, NEW S \in SUBSET DOMAIN refs, NEW b \in BOOLEAN, updateDeleted(S, b)
  PROVE  IInv'
<1> DEFINE on == {r \in S : refs[r].deleted # b}
           edited(r) == [refs[r] EXCEPT !.deleted = b]
<1>1. refs \in [DOMAIN refs -> Refs] /\ doomed \subseteq DOMAIN refs
  BY DEF IInv, TypeOK
<1>2. refs' = [r \in DOMAIN refs |-> IF r \in on THEN edited(r) ELSE refs[r]]
  BY DEF updateDeleted, Edited
<1>3. \A r \in DOMAIN refs : edited(r) \in Refs
  BY <1>1 DEF Refs
<1>4. refs' \in [DOMAIN refs -> Refs]
  BY <1>1, <1>2, <1>3
<1>5. /\ Post([op |-> "updateDeleted", on |-> on, deleted |-> b])
      /\ doomed' = doomed /\ UNCHANGED guiRest
  BY DEF updateDeleted
<1>6. [op |-> "updateDeleted", on |-> on, deleted |-> b] \in Requests
  BY DEF Requests
<1>7. QED
  BY <1>1, <1>4, <1>5, <1>6, PostKeeps

\* The requests that leave the refs alone.
LEMMA AskKeeps ==
  ASSUME IInv,
         \/ \E S \in SUBSET (DOMAIN refs) : compressImages(S) \/ renderImages(S)
         \/ \E c \in Importable : Download(c)
         \/ Purge \/ FixMeta
  PROVE  IInv'
<1>1. refs \in [DOMAIN refs -> Refs] /\ doomed \subseteq DOMAIN refs
  BY DEF IInv, TypeOK
<1>2. ASSUME NEW S \in SUBSET DOMAIN refs, compressImages(S) \/ renderImages(S)
      PROVE  IInv'
  <2>1. ASSUME NEW op \in {"compressImages", "renderImages"}
        PROVE  [op |-> op, on |-> S] \in Requests
    BY <2>1 DEF Requests
  <2>2. CASE compressImages(S)
    BY <1>1, <2>1, <2>2, PostKeeps DEF compressImages
  <2>3. CASE renderImages(S)
    BY <1>1, <2>1, <2>3, PostKeeps DEF renderImages
  <2>4. QED
    BY <1>2, <2>2, <2>3
<1>3. ASSUME NEW c \in Importable, Download(c)
      PROVE  IInv'
  <2>1. [op |-> "writeImage", data |-> c] \in Requests
    BY LibraryAssumption DEF Requests
  <2>2. QED
    BY <1>1, <1>3, <2>1, PostKeeps DEF Download
<1>4. ASSUME Purge
      PROVE  IInv'
  <2>1. [op |-> "purgeDeletedImages"] \in Requests
    BY DEF Requests
  <2>2. doomed' \subseteq DOMAIN refs
    BY <1>1, <1>4 DEF Purge
  <2>3. QED
    BY <1>1, <1>4, <2>1, <2>2, PostKeeps DEF Purge
<1>5. ASSUME FixMeta
      PROVE  IInv'
  <2>1. [op |-> "fixImageMetaData"] \in Requests
    BY DEF Requests
  <2>2. QED
    BY <1>1, <1>5, <2>1, PostKeeps DEF FixMeta
<1>6. QED
  BY <1>2, <1>3, <1>4, <1>5

LEMMA ImageReadyKeeps ==
  ASSUME IInv, NEW words \in Seq(Tags), ImageReady(words)
  PROVE  IInv'
<1> DEFINE id == Head(toGui).id
           found == committed.image[id] # NoRow
           ref == RefOf(committed, id, TagsById(committed, id))
           r == NewRef
           tagged == [ref EXCEPT !.tags = @ \cup Range(words)]
           fresh(n) == /\ found /\ words[n] \notin ref.tags
                       /\ \A m \in 1..(n - 1) : words[m] # words[n]
           request(n) == [op |-> "addTag", tag |-> words[n],
                          on |-> IF fresh(n) THEN {r} ELSE {}]
           requests == [n \in DOMAIN words |-> request(n)]
<1>1. /\ TypeOK /\ StoreImageAgree /\ refs \in [DOMAIN refs -> Refs]
      /\ committed \in Databases /\ id \in Ids
      /\ toGui \in Seq(Signals) /\ toGui # <<>> /\ toGui' = Tail(toGui)
      /\ UNCHANGED <<doomed, todo, rendering, work, committed, restarts>>
  <2>1. Head(toGui) \in Signals /\ Head(toGui).sig = "writeComplete"
    BY TailAppend DEF IInv, TypeOK, ImageReady
  <2>2. id \in Ids
    BY <2>1 DEF Signals
  <2>3. QED
    BY <2>2 DEF IInv, TypeOK, ImageReady
<1>2. /\ refs' = IF found THEN WithRef(r, tagged) ELSE refs
      /\ PostAll(requests)
  BY DEF ImageReady
<1>3. found => tagged \in Refs
  <2>1. SUFFICES ASSUME found PROVE tagged \in Refs
    OBVIOUS
  <2>2. id \in HasImage(committed) /\ TagsById(committed, id) \in SUBSET Tags
    BY <1>1, <2>1 DEF HasImage, TagsById
  <2>3. ref \in Refs /\ Range(words) \subseteq Tags
    BY <1>1, <2>2, RefOfType DEF Range
  <2> HIDE DEF ref
  <2>4. QED
    BY <2>3 DEF Refs
<1>4. /\ refs' \in [DOMAIN refs' -> Refs] /\ DOMAIN refs \subseteq DOMAIN refs'
      /\ found => r \in DOMAIN refs'
  <2> HIDE DEF found, tagged, r
  <2>1. QED
    BY <1>1, <1>2, <1>3 DEF WithRef
<1>5. queue \in Seq(Requests') /\ toGui' \in Seq(Signals')
  BY <1>1, <1>4, TailAppend, Renaming DEF TypeOK
<1>6. requests \in Seq(Requests')
  <2>1. ASSUME NEW n \in DOMAIN words
        PROVE  request(n) \in Requests'
    <3>1. words[n] \in Tags /\ (IF fresh(n) THEN {r} ELSE {}) \in SUBSET DOMAIN refs'
      BY <2>1, <1>4
    <3> HIDE DEF fresh, r
    <3>2. QED
      BY <3>1 DEF Requests
  <2> HIDE DEF request
  <2>2. QED
    BY <2>1
<1> HIDE DEF requests
<1>7. queue' \in Seq(Requests') /\ posted' \in 0..MaxRequests
  <2>1. Len(requests) \in Nat
    BY <1>6
  <2>2. posted' \in 0..MaxRequests
    BY <2>1, <1>1, <1>2, LibraryAssumption DEF PostAll, TypeOK
  <2>3. QED
    BY <2>2, <1>2, <1>5, <1>6 DEF PostAll
<1>8. TypeOK'
  BY <1>1, <1>4, <1>5, <1>7 DEF TypeOK
<1>9. QED
  BY <1>1, <1>8 DEF IInv, StoreImageAgree, Stored, HasImage

LEMMA UpdateImageDataKeeps ==
  ASSUME IInv, UpdateImageData
  PROVE  IInv'
<1> DEFINE edited(r) == [refs[r] EXCEPT !.format = "jpeg"]
<1>1. /\ TypeOK /\ StoreImageAgree /\ refs \in [DOMAIN refs -> Refs]
      /\ toGui \in Seq(Signals) /\ toGui # <<>> /\ toGui' = Tail(toGui)
      /\ UNCHANGED <<doomed, queue, todo, rendering, work, committed, posted, restarts>>
  BY DEF IInv, TypeOK, UpdateImageData
<1>2. refs' = [r \in DOMAIN refs |-> IF r \in {Head(toGui).ref} THEN edited(r) ELSE refs[r]]
  BY DEF UpdateImageData, Edited
<1>3. \A r \in DOMAIN refs : edited(r) \in Refs
  BY <1>1 DEF Refs, Formats
<1>4. refs' \in [DOMAIN refs -> Refs] /\ DOMAIN refs' = DOMAIN refs
  BY <1>1, <1>2, <1>3
<1>5. queue' \in Seq(Requests') /\ toGui' \in Seq(Signals')
  BY <1>1, <1>4, TailAppend, Renaming DEF TypeOK
<1>6. TypeOK'
  BY <1>1, <1>4, <1>5 DEF TypeOK
<1>7. QED
  BY <1>1, <1>6 DEF IInv, StoreImageAgree, Stored, HasImage

LEMMA RestartKeeps ==
  ASSUME IInv, NEW b \in BOOLEAN, Restart(b)
  PROVE  IInv'
<1>1. committed \in Databases /\ restarts \in 0..MaxRestarts
  BY DEF IInv, TypeOK
<1>2. refs' \in [DOMAIN refs' -> Refs]
  BY <1>1, AllType DEF Restart
<1>3. queue' \in Seq(Requests') /\ toGui' \in Seq(Signals')
  BY DEF Restart
<1>4. restarts' \in 0..MaxRestarts
  BY <1>1, LibraryAssumption DEF Restart
<1>5. TypeOK'
  BY <1>1, <1>2, <1>3, <1>4 DEF IInv, TypeOK, Restart
<1>6. StoreImageAgree'
  BY DEF IInv, StoreImageAgree, Restart, Stored, HasImage
<1>7. QED
  BY <1>5, <1>6 DEF IInv
--------------------------------------------------------------------------------
(* The write thread. *)

\* What a handler finds at the head of the queue and leaves in it.
LEMMA TakeType ==
  ASSUME IInv, NEW op, Take(op), UNCHANGED writerRest
  PROVE  /\ Head(queue) \in Requests /\ Head(queue).op = op
         /\ queue' \in Seq(Requests')
         /\ toGui \in Seq(Signals')
         /\ \A x \in Signals : x \in Signals'
<1>1. queue \in Seq(Requests) /\ toGui \in Seq(Signals) /\ queue # <<>> /\ refs' = refs
  BY DEF IInv, TypeOK, Take, writerRest
<1>2. Head(queue) \in Requests /\ Tail(queue) \in Seq(Requests)
  BY <1>1, TailAppend
<1>3. /\ Requests' = Requests /\ Signals' = Signals
  BY <1>1 DEF Requests, Signals
<1>4. QED
  BY <1>1, <1>2, <1>3 DEF Take

LEMMA BatchedKeeps ==
  ASSUME IInv, NEW op, NEW d \in Databases, Agree(d), Batched(op, d)
  PROVE  IInv'
<1>1. Take(op) /\ UNCHANGED writerRest /\ work' = d /\ UNCHANGED <<todo, rendering, committed, toGui>>
  BY DEF Batched
<1>2. queue' \in Seq(Requests') /\ toGui' \in Seq(Signals')
  BY <1>1, TakeType
<1>3. TypeOK'
  BY <1>1, <1>2 DEF IInv, TypeOK, writerRest
<1>4. StoreImageAgree'
  BY <1>1 DEF IInv, StoreImageAgree, Agree, Stored, HasImage
<1>5. QED
  BY <1>3, <1>4 DEF IInv

LEMMA EditHandlersKeep ==
  ASSUME IInv, HandleAddTag \/ HandleRemoveTag \/ HandleUpdateDeleted \/ HandleFixMeta
  PROVE  IInv'
<1> DEFINE r == Head(queue)
<1>1. work \in Databases /\ Agree(work) /\ refs \in [DOMAIN refs -> Refs]
  BY DEF IInv, TypeOK, StoreImageAgree, Agree
<1>2. ASSUME NEW op, NEW d, Batched(op, d)
      PROVE  r \in Requests /\ r.op = op
  BY <1>2, TakeType DEF Batched
<1>3. CASE HandleAddTag
  <2>1. Batched("addTag", InsertTag(work, IdsOf(r.on), r.tag))
    BY <1>3 DEF HandleAddTag
  <2>2. r.on \in SUBSET DOMAIN refs /\ r.tag \in Tags
    BY <2>1, <1>2, RequestCases
  <2>3. QED
    BY <2>1, <2>2, <1>1, IdsOfType, TagStatements, BatchedKeeps
<1>4. CASE HandleRemoveTag
  <2>1. Batched("removeTag", DeleteTag(work, IdsOf(r.on), r.tag))
    BY <1>4 DEF HandleRemoveTag
  <2>2. r.on \in SUBSET DOMAIN refs /\ r.tag \in Tags
    BY <2>1, <1>2, RequestCases
  <2>3. QED
    BY <2>1, <2>2, <1>1, IdsOfType, TagStatements, BatchedKeeps
<1>5. CASE HandleUpdateDeleted
  <2>1. Batched("updateDeleted", SetDeleted(work, IdsOf(r.on), r.deleted))
    BY <1>5 DEF HandleUpdateDeleted
  <2>2. r.on \in SUBSET DOMAIN refs /\ r.deleted \in BOOLEAN
    BY <2>1, <1>2, RequestCases
  <2>3. QED
    BY <2>1, <2>2, <1>1, IdsOfType, SetDeletedStatement, BatchedKeeps
<1>6. CASE HandleFixMeta
  BY <1>6, <1>1, FixMetaDataStatement, BatchedKeeps DEF HandleFixMeta
<1>7. QED
  BY <1>3, <1>4, <1>5, <1>6

LEMMA CommittingHandlersKeep ==
  ASSUME IInv, HandleWriteImage \/ HandlePurge
  PROVE  IInv'
<1>1. work \in Databases /\ Agree(work) /\ committed \in Databases /\ Agree(committed)
  BY DEF IInv, TypeOK, StoreImageAgree, Agree
<1>2. /\ UNCHANGED <<writerRest, todo, rendering>>
      /\ queue' \in Seq(Requests') /\ toGui \in Seq(Signals')
  BY TakeType DEF HandleWriteImage, HandlePurge
<1>3. /\ work' \in Databases /\ Agree(work)' /\ committed' \in Databases /\ Agree(committed)'
      /\ toGui' \in Seq(Signals')
  <2>1. CASE HandlePurge
    <3>1. work' = PurgeDeleted(work) /\ committed' = work' /\ toGui' = toGui
      BY <2>1 DEF HandlePurge
    <3>2. work' \in Databases /\ Agree(PurgeDeleted(work))
      BY <3>1, <1>1, PurgeStatement
    <3>3. QED
      BY <3>1, <3>2, <1>2 DEF Agree, Stored, HasImage
  <2>2. CASE HandleWriteImage
    <3> DEFINE c == Head(queue).data
               id == NextId(work)
    <3>1. CASE UNCHANGED <<work, committed, toGui>>
      BY <3>1, <1>1, <1>2 DEF Agree, Stored, HasImage
    <3>2. CASE /\ id \in Ids /\ work' = InsertImage(work, id, c) /\ committed' = work'
               /\ toGui' = Append(toGui, [sig |-> "writeComplete", id |-> id])
      <4>1. c \in Contents
        BY <2>2, TakeType, RequestCases DEF HandleWriteImage
      <4>2. [sig |-> "writeComplete", id |-> id] \in Signals'
        BY <3>2 DEF Signals
      <4> HIDE DEF c, id
      <4>3. InsertImage(work, id, c) \in Databases /\ Agree(InsertImage(work, id, c))
        BY <3>2, <4>1, <1>1, InsertImageStatement
      <4>4. toGui' \in Seq(Signals')
        BY <3>2, <4>2, <1>2, TailAppend
      <4>5. QED
        BY <3>2, <4>3, <4>4 DEF Agree, Stored, HasImage
    <3>3. QED
      BY <2>2, <3>1, <3>2 DEF HandleWriteImage
  <2>3. QED
    BY <2>1, <2>2
<1>4. TypeOK'
  BY <1>2, <1>3 DEF IInv, TypeOK, writerRest
<1>5. StoreImageAgree'
  BY <1>3 DEF StoreImageAgree, Agree, Stored, HasImage
<1>6. QED
  BY <1>4, <1>5 DEF IInv

LEMMA StartCompressKeeps ==
  ASSUME IInv, StartCompress
  PROVE  IInv'
<1>1. /\ Take("compressImages") /\ UNCHANGED writerRest
      /\ todo' = Head(queue).on /\ UNCHANGED <<rendering, work, committed, toGui>>
  BY DEF StartCompress
<1>2. queue' \in Seq(Requests') /\ toGui' \in Seq(Signals') /\ todo' \subseteq DOMAIN refs
  BY <1>1, TakeType, RequestCases
<1>3. TypeOK'
  BY <1>1, <1>2 DEF IInv, TypeOK, writerRest
<1>4. StoreImageAgree'
  BY <1>1 DEF IInv, StoreImageAgree, Stored, HasImage
<1>5. QED
  BY <1>3, <1>4 DEF IInv

LEMMA CompressOneKeeps ==
  ASSUME IInv, CompressOne
  PROVE  IInv'
<1>1. PICK r \in todo :
        /\ todo' = todo \ {r}
        /\ \/ UNCHANGED <<work, toGui>>
           \/ /\ work' = IF work.store[refs[r].id] = NoRow THEN work
                         ELSE Recompress(work, refs[r].id)
              /\ toGui' = Append(toGui, [sig |-> "updateImageData", ref |-> r])
        /\ UNCHANGED <<writerRest, queue, rendering, committed>>
  BY DEF CompressOne
<1>2. /\ TypeOK /\ work \in Databases /\ Agree(work) /\ Agree(committed)
      /\ r \in DOMAIN refs /\ refs[r].id \in Ids
  BY DEF IInv, TypeOK, StoreImageAgree, Agree, Refs
<1>3. /\ Requests' = Requests /\ Signals' = Signals
  BY <1>1 DEF Requests, Signals, writerRest
<1>4. work' \in Databases /\ Agree(work)'
  <2>1. CASE work' = work
    BY <2>1, <1>2 DEF Agree, Stored, HasImage
  <2>2. CASE /\ work' = Recompress(work, refs[r].id)
             /\ work.store[refs[r].id] # NoRow
    <3>1. refs[r].id \in Stored(work)
      BY <2>2, <1>2 DEF Stored
    <3>2. QED
      BY <2>2, <3>1, <1>2, RecompressStatement DEF Agree, Stored, HasImage
  <2>3. QED
    BY <1>1, <2>1, <2>2
<1>5. toGui' \in Seq(Signals')
  <2>1. [sig |-> "updateImageData", ref |-> r] \in Signals
    BY <1>2 DEF Signals
  <2>2. QED
    BY <2>1, <1>1, <1>2, <1>3, TailAppend DEF TypeOK
<1>6. TypeOK'
  BY <1>1, <1>2, <1>3, <1>4, <1>5 DEF TypeOK, writerRest
<1>7. StoreImageAgree'
  BY <1>1, <1>2, <1>4 DEF StoreImageAgree, Agree, Stored, HasImage
<1>8. QED
  BY <1>6, <1>7 DEF IInv

LEMMA RenderKeeps ==
  ASSUME IInv, StartRender \/ RenderOne
  PROVE  IInv'
<1>1. UNCHANGED <<writerRest, todo, work, committed, toGui>>
  BY DEF StartRender, RenderOne
<1>2. queue' \in Seq(Requests') /\ toGui' \in Seq(Signals') /\ rendering' \subseteq DOMAIN refs
  <2>1. CASE StartRender
    BY <2>1, <1>1, TakeType, RequestCases DEF StartRender
  <2>2. CASE RenderOne
    <3>1. Requests' = Requests /\ Signals' = Signals
      BY <1>1 DEF Requests, Signals, writerRest
    <3>2. queue' = queue /\ rendering' \subseteq rendering
      BY <2>2 DEF RenderOne
    <3>3. QED
      BY <1>1, <3>1, <3>2 DEF IInv, TypeOK
  <2>3. QED
    BY <2>1, <2>2
<1>3. TypeOK'
  BY <1>1, <1>2 DEF IInv, TypeOK, writerRest
<1>4. StoreImageAgree'
  BY <1>1 DEF IInv, StoreImageAgree, Stored, HasImage
<1>5. QED
  BY <1>3, <1>4 DEF IInv

LEMMA CommitKeeps ==
  ASSUME IInv, Commit
  PROVE  IInv'
<1>1. committed' = work /\ UNCHANGED <<writerRest, queue, todo, rendering, work, toGui>>
  BY DEF Commit
<1>2. Requests' = Requests /\ Signals' = Signals
  BY <1>1 DEF Requests, Signals, writerRest
<1>3. TypeOK'
  BY <1>1, <1>2 DEF IInv, TypeOK, writerRest
<1>4. StoreImageAgree'
  BY <1>1 DEF IInv, StoreImageAgree, Stored, HasImage
<1>5. QED
  BY <1>3, <1>4 DEF IInv

LEMMA StutterKeeps ==
  ASSUME IInv, UNCHANGED vars
  PROVE  IInv'
<1>1. Requests' = Requests /\ Signals' = Signals
  BY DEF Requests, Signals, vars
<1>2. QED
  BY <1>1 DEF vars, IInv, TypeOK, StoreImageAgree, Stored, HasImage

LEMMA StepKeeps ==
  ASSUME IInv, [Next]_vars
  PROVE  IInv'
<1>1. CASE UNCHANGED vars
  BY <1>1, StutterKeeps
<1>2. CASE \E S \in SUBSET (DOMAIN refs) :
             \/ \E t \in Tags : addTag(S, t) \/ removeTag(S, t)
             \/ \E b \in BOOLEAN : updateDeleted(S, b)
             \/ compressImages(S) \/ renderImages(S)
  BY <1>2, EditTagsKeeps, MarkKeeps, AskKeeps
<1>3. CASE (\E c \in Importable : Download(c)) \/ Purge \/ FixMeta
  BY <1>3, AskKeeps
<1>4. CASE GuiReceive
  BY <1>4, LibraryAssumption, ImageReadyKeeps, UpdateImageDataKeeps DEF GuiReceive
<1>5. CASE \E b \in BOOLEAN : Restart(b)
  BY <1>5, RestartKeeps
<1>6. CASE WriterStep
  BY <1>6, EditHandlersKeep, CommittingHandlersKeep, StartCompressKeeps,
     CompressOneKeeps, RenderKeeps, CommitKeeps DEF WriterStep
<1>7. QED
  BY <1>1, <1>2, <1>3, <1>4, <1>5, <1>6 DEF Next

THEOREM Invariance == Spec => []IInv
  BY InitEstablishes, StepKeeps, PTL DEF Spec
--------------------------------------------------------------------------------
\* The type invariant; in particular every queued request and signal names refs that
\* exist, also after a restart has replaced them.
THEOREM TypeCorrect == Spec => []TypeOK
<1>1. IInv => TypeOK
  BY DEF IInv
<1>2. QED
  BY <1>1, Invariance, PTL

\* The tables store and image list the same ids, in the open transaction and in the
\* committed database, whatever is imported, purged, converted and restarted, and
\* also when the user edits refs of images that are gone.
THEOREM TablesAgree == Spec => []StoreImageAgree
<1>1. IInv => StoreImageAgree
  BY DEF IInv
<1>2. QED
  BY <1>1, Invariance, PTL
--------------------------------------------------------------------------------
(* The two threads: what the requests in the queue will do. *)

\* The requests that name refs, and the refs that a request names.
Naming == {"addTag", "removeTag", "updateDeleted", "compressImages", "renderImages"}
Named(request) == IF request.op \in Naming THEN request.on ELSE {}

\* Positions in the queue: of the requests that add or remove tag t on ref r, of those
\* that mark or unmark it, and of the purges.
TagRequests(r, t) == {n \in DOMAIN queue : /\ queue[n].op \in {"addTag", "removeTag"}
                                           /\ r \in queue[n].on /\ queue[n].tag = t}
MarkRequests(r) == {n \in DOMAIN queue : queue[n].op = "updateDeleted" /\ r \in queue[n].on}
Purges == {n \in DOMAIN queue : queue[n].op = "purgeDeletedImages"}

\* Of the requests at the positions S the last one says v; when there are none it is
\* what the database says, base, that counts.
Decided(S, says, base, v) == \/ S = {} /\ base = v
                             \/ \E n \in S : (\A m \in S : m <= n) /\ says[n] = v

\* Whether the write thread will see tag t, or the mark, on the image of r when it has
\* handled all requests, or those before position p.
TagSays == [n \in DOMAIN queue |-> queue[n].op]
TagState(r, t, tags) == IF <<r, t>> \in tags THEN "addTag" ELSE "removeTag"
WillBeTagged(r, t, v) ==
  Decided(TagRequests(r, t), TagSays, TagState(refs[r].id, t, work.tag), v)

MarkSays == [n \in DOMAIN queue |-> queue[n].deleted]
WillBeMarked(r, p, v) ==
  Decided({n \in MarkRequests(r) : n < p}, MarkSays, work.image[refs[r].id].deleted, v)

\* A restart splits tags at their spaces; if no tag has one, all come back unchanged.
OneWordTags == \A t \in Tags : WordsOf[t] = {t}
PlainTags == {t \in Tags : OneWordTags}

\* What the user sees of tag t on r.
ShownTag(r, t) == IF t \in refs[r].tags THEN "addTag" ELSE "removeTag"

\* A ref the user can act on: its image comes out of the queue as he sees it, and is
\* unmarked whenever a purge is due.
Kept(r) == /\ WillBeMarked(r, Len(queue) + 1, refs[r].deleted)
           /\ \A p \in Purges : WillBeMarked(r, p, FALSE)
           /\ \A t \in PlainTags : WillBeTagged(r, t, ShownTag(r, t))

\* A ref whose image a queued purge is about to delete: the first purge that finds it
\* marked is p, and no request after p names it.
Condemned(r) == \E p \in Purges :
  /\ WillBeMarked(r, p, TRUE)
  /\ \A q \in Purges : q < p => WillBeMarked(r, q, FALSE)
  /\ \A n \in DOMAIN queue : n > p => r \notin Named(queue[n])

\* The refs in A stand for rows of their own, and nothing on its way to the write
\* thread names another ref.
Standing(A) ==
  /\ Live \subseteq A
  /\ \A r, s \in A : refs[r].id = refs[s].id => r = s
  /\ \A r \in A : refs[r].id \in HasImage(work)
  /\ \A n \in DOMAIN queue : Named(queue[n]) \subseteq A
  /\ todo \subseteq A /\ rendering \subseteq A

\* An image that is announced and not yet shown is as it was imported, and no ref in A
\* stands for it.
Untouched(i, A) ==
  /\ i \in HasImage(work) /\ ~work.image[i].deleted /\ ~committed.image[i].deleted
  /\ work.store[i] = committed.store[i]
  /\ TagsById(work, i) = {} /\ TagsById(committed, i) = {}
  /\ \A r \in A : refs[r].id # i
Announced == {n \in DOMAIN toGui : toGui[n].sig = "writeComplete"}
Announcing(A) ==
  /\ \A n \in Announced : Untouched(toGui[n].id, A)
  /\ \A m, n \in Announced : toGui[m].id = toGui[n].id => m = n

\* The committed database lists the same ids, tags belong to images, and a file that
\* is a JPEG is known to be one.
TagsBelong(d) == \A row \in d.tag : row[1] \in HasImage(d)
IsJpeg(c) == c \in Decodable /\ HeaderFormat[c] = "jpeg"
FormatKnown(d) == \A i \in Stored(d) : IsJpeg(d.store[i]) => d.image[i].format = "jpeg"
Databased == /\ HasImage(work) = HasImage(committed)
             /\ TagsBelong(work) /\ TagsBelong(committed)
             /\ FormatKnown(work) /\ FormatKnown(committed)

\* The GUI thread knows that the file of r is a JPEG, or will be told.
FormatShown(r) == IsJpeg(work.store[refs[r].id]) =>
                    \/ refs[r].format = "jpeg"
                    \/ [sig |-> "updateImageData", ref |-> r] \in Range(toGui)

\* A is the set of the refs whose rows are still there.
Attached(A) == /\ Standing(A) /\ Announcing(A)
               /\ \A r \in Live : Kept(r)
               /\ \A r \in A \cap doomed : Condemned(r)
               /\ \A r \in A : FormatShown(r)
AInv == /\ IInv /\ Databased
        /\ \E n \in Nat : DOMAIN refs \subseteq 1..n
        /\ \E A \in SUBSET DOMAIN refs : Attached(A)
--------------------------------------------------------------------------------
(* The maximum of a bounded set exists: the natural numbers are well-founded. *)

LEMMA LeastExists ==
  ASSUME NEW S \in SUBSET Nat, S # {}
  PROVE  \E n \in S : \A m \in S : n <= m
<1>1. IsWellFoundedOn(OpToRel(<, Nat), Nat)
  BY NatLessThanWellFounded, Zenon
<1>2. PICK n \in S : \A m \in S : <<m, n>> \notin OpToRel(<, Nat)
  BY <1>1, WFMin, Zenon
<1>3. n \in Nat /\ \A m \in S : m \in Nat /\ ~ (m < n)
  BY <1>2 DEF OpToRel
<1>4. \A m \in S : n <= m
  BY <1>3
<1>5. QED
  BY <1>4

LEMMA MaxIs ==
  ASSUME NEW n \in Nat, NEW S \in SUBSET (0..n), S # {}
  PROVE  Max(S) \in S /\ \A m \in S : m <= Max(S)
<1> DEFINE D == {n - m : m \in S}
<1>1. D \in SUBSET Nat /\ D # {}
  OBVIOUS
<1>2. PICK d \in D : \A m \in D : d <= m
  BY <1>1, LeastExists
<1>3. PICK x \in S : d = n - x
  BY <1>2
<1>4. \A m \in S : x >= m
  <2>1. TAKE m \in S
  <2>2. d <= n - m
    BY <1>2
  <2>3. QED
    BY <1>3, <2>2
<1>5. PICK y \in S : y = Max(S) /\ \A m \in S : y >= m
  BY <1>3, <1>4 DEF Max
<1>6. QED
  BY <1>5
--------------------------------------------------------------------------------
(* How the queue moves: it grows at the end, or loses its head. *)

Grown == /\ Len(queue) <= Len(queue')
         /\ \A n \in 1..Len(queue) : queue'[n] = queue[n]
Shifted == /\ queue # <<>> /\ Len(queue') = Len(queue) - 1
           /\ \A n \in 1..Len(queue') : queue'[n] = queue[n + 1]
IsQueue == \E R : queue \in Seq(R)

LEMMA QueueDomain ==
  ASSUME IsQueue
  PROVE  Len(queue) \in Nat /\ DOMAIN queue = 1..Len(queue)
  BY DEF IsQueue

LEMMA PostGrows ==
  ASSUME NEW R, queue \in Seq(R), NEW request \in R, queue' = Append(queue, request)
  PROVE  Grown /\ Len(queue') = Len(queue) + 1 /\ queue'[Len(queue')] = request
  BY DEF Grown

LEMMA TakeShifts ==
  ASSUME NEW R, queue \in Seq(R), queue # <<>>, queue' = Tail(queue)
  PROVE  Shifted
  BY DEF Shifted

\* A decision is not affected by later requests.
LEMMA DecidedKeeps ==
  ASSUME NEW S, NEW T, NEW says, NEW tells, NEW base, NEW v,
         T = S, \A n \in S : tells[n] = says[n], Decided(S, says, base, v)
  PROVE  Decided(T, tells, base, v)
  BY DEF Decided

\* When the oldest request is handled its word is in the database.
LEMMA DecidedShifts ==
  ASSUME NEW S \in SUBSET (Nat \ {0}), NEW T \in SUBSET (Nat \ {0}),
         NEW says, NEW tells, NEW base, NEW v, NEW known,
         \A n \in Nat \ {0} : n \in T <=> n + 1 \in S,
         \A n \in T : tells[n] = says[n + 1],
         known = IF 1 \in S THEN says[1] ELSE base,
         Decided(S, says, base, v)
  PROVE  Decided(T, tells, known, v)
<1>1. CASE S = {}
  BY <1>1 DEF Decided
<1>2. ASSUME S # {}, \A m \in S : m = 1
      PROVE  Decided(T, tells, known, v)
  <2>1. 1 \in S /\ says[1] = v
    BY <1>2 DEF Decided
  <2>2. ASSUME NEW n \in T
        PROVE  FALSE
    <3>1. n + 1 = 1 /\ n \in Nat \ {0}
      BY <1>2
    <3>2. QED
      BY <3>1
  <2>3. QED
    BY <2>1, <2>2 DEF Decided
<1>3. ASSUME S # {}, \E m \in S : m # 1
      PROVE  Decided(T, tells, known, v)
  <2>1. PICK n \in S : (\A m \in S : m <= n) /\ says[n] = v
    BY <1>3 DEF Decided
  <2>2. n \in Nat \ {0} /\ n # 1
    <3>1. PICK m \in S : m # 1
      BY <1>3
    <3>2. m \in Nat /\ m # 0 /\ m <= n
      BY <2>1, <3>1
    <3>3. QED
      BY <3>1, <3>2
  <2>3. n - 1 \in T /\ tells[n - 1] = v
    BY <2>1, <2>2
  <2>4. ASSUME NEW m \in T
        PROVE  m <= n - 1
    BY <2>1, <2>2
  <2>5. QED
    BY <2>3, <2>4 DEF Decided
<1>4. QED
  BY <1>1, <1>2, <1>3
--------------------------------------------------------------------------------
(* Marks and tags, as the queue moves. *)

MarksRef(request, r) == request.op = "updateDeleted" /\ r \in request.on
TagsRef(request, r, t) == /\ request.op \in {"addTag", "removeTag"}
                          /\ r \in request.on /\ request.tag = t

LEMMA MarkedGrows ==
  ASSUME IsQueue, IsQueue', Grown, NEW r, NEW p \in 1..(Len(queue) + 1), NEW v,
         work'.image[refs'[r].id].deleted = work.image[refs[r].id].deleted,
         WillBeMarked(r, p, v)
  PROVE  WillBeMarked(r, p, v)'
<1> DEFINE S == {n \in MarkRequests(r) : n < p}
           T == {n \in MarkRequests(r)' : n < p}
<1>1. /\ Len(queue) \in Nat /\ DOMAIN queue = 1..Len(queue)
      /\ Len(queue') \in Nat /\ DOMAIN queue' = 1..Len(queue')
  BY QueueDomain DEF IsQueue
<1>2. \A n \in 1..Len(queue) : n \in DOMAIN queue /\ n \in DOMAIN queue' /\ queue'[n] = queue[n]
  BY <1>1 DEF Grown
<1>3. T = S
  <2>1. \A n : n \in DOMAIN queue' /\ n < p => n \in 1..Len(queue)
    BY <1>1
  <2>2. QED
    BY <1>1, <1>2, <2>1 DEF MarkRequests
<1>4. \A n \in S : MarkSays'[n] = MarkSays[n]
  BY <1>1, <1>2 DEF MarkRequests, MarkSays
<1> HIDE DEF S, T
<1>5. Decided(S, MarkSays, work.image[refs[r].id].deleted, v)
  BY DEF WillBeMarked, S
<1>6. Decided(T, MarkSays', work.image[refs[r].id].deleted, v)
  BY <1>3, <1>4, <1>5, DecidedKeeps
<1>7. QED
  BY <1>6 DEF WillBeMarked, T

\* Also at the end of the queue, unless a new request is about the mark of r.
LEMMA MarkedAtEnd ==
  ASSUME IsQueue, IsQueue', Grown, NEW r, NEW v,
         work'.image[refs'[r].id].deleted = work.image[refs[r].id].deleted,
         \A n \in DOMAIN queue' : n > Len(queue) => ~MarksRef(queue'[n], r),
         WillBeMarked(r, Len(queue) + 1, v)
  PROVE  \A p \in (Len(queue) + 1)..(Len(queue') + 1) : WillBeMarked(r, p, v)'
<1>1. /\ Len(queue) \in Nat /\ DOMAIN queue = 1..Len(queue)
      /\ Len(queue') \in Nat /\ DOMAIN queue' = 1..Len(queue')
  BY QueueDomain DEF IsQueue
<1>2. Decided({n \in MarkRequests(r) : n < Len(queue) + 1}, MarkSays,
              work.image[refs[r].id].deleted, v)
  BY DEF WillBeMarked
<1>3. ASSUME NEW p \in (Len(queue) + 1)..(Len(queue') + 1)
      PROVE  WillBeMarked(r, p, v)'
  <2> DEFINE S == {n \in MarkRequests(r) : n < Len(queue) + 1}
             T == {n \in MarkRequests(r)' : n < p}
  <2>1. \A n \in 1..Len(queue) : /\ n \in DOMAIN queue /\ n \in DOMAIN queue' /\ n < p
                                 /\ queue'[n] = queue[n] /\ n < Len(queue) + 1
    BY <1>1 DEF Grown
  <2>2. \A n \in MarkRequests(r)' : n \in 1..Len(queue)
    BY <1>1 DEF MarkRequests, MarksRef
  <2>3. T = S
    BY <1>1, <2>1, <2>2 DEF MarkRequests
  <2>4. \A n \in S : MarkSays'[n] = MarkSays[n]
    BY <1>1, <2>1 DEF MarkRequests, MarkSays
  <2> HIDE DEF S, T
  <2>5. Decided(S, MarkSays, work.image[refs[r].id].deleted, v)
    BY <1>2 DEF S
  <2>6. Decided(T, MarkSays', work.image[refs[r].id].deleted, v)
    BY <2>3, <2>4, <2>5, DecidedKeeps
  <2>7. QED
    BY <2>6 DEF WillBeMarked, T
<1>4. QED
  BY <1>3

\* A request about the mark of r that has just been posted decides it.
LEMMA MarkedNow ==
  ASSUME IsQueue', NEW r, NEW v, Len(queue') > 0,
         MarksRef(queue'[Len(queue')], r), queue'[Len(queue')].deleted = v
  PROVE  WillBeMarked(r, Len(queue) + 1, v)'
<1> DEFINE T == {n \in MarkRequests(r)' : n < Len(queue') + 1}
<1>1. Len(queue') \in Nat /\ DOMAIN queue' = 1..Len(queue')
  BY QueueDomain DEF IsQueue
<1>2. Len(queue') \in T /\ MarkSays'[Len(queue')] = v
  BY <1>1 DEF MarkRequests, MarksRef, MarkSays
<1>3. \A m \in T : m <= Len(queue')
  BY <1>1 DEF MarkRequests
<1> HIDE DEF T
<1>4. Decided(T, MarkSays', work'.image[refs'[r].id].deleted, v)
  BY <1>2, <1>3 DEF Decided
<1>5. QED
  BY <1>4 DEF WillBeMarked, T

\* The oldest request has been handled: SetDeleted sets the mark, if it is about r.
LEMMA MarkedShifts ==
  ASSUME IsQueue, IsQueue', Shifted, NEW r, NEW p \in 2..(Len(queue) + 1), NEW v,
         work'.image[refs'[r].id].deleted =
           IF MarksRef(queue[1], r) THEN queue[1].deleted
           ELSE work.image[refs[r].id].deleted,
         WillBeMarked(r, p, v)
  PROVE  WillBeMarked(r, p - 1, v)'
<1> DEFINE S == {n \in MarkRequests(r) : n < p}
           T == {n \in MarkRequests(r)' : n < p - 1}
           says == MarkSays
           tells == MarkSays'
           base == work.image[refs[r].id].deleted
           known == work'.image[refs'[r].id].deleted
<1>1. /\ Len(queue) \in Nat /\ DOMAIN queue = 1..Len(queue) /\ Len(queue) > 0
      /\ Len(queue') \in Nat /\ DOMAIN queue' = 1..Len(queue')
      /\ Len(queue') = Len(queue) - 1
  BY QueueDomain DEF IsQueue, Shifted
<1>2. \A n \in Nat \ {0} : n \in T <=> n + 1 \in S
  <2>1. TAKE n \in Nat \ {0}
  <2>2. n \in DOMAIN queue' <=> n + 1 \in DOMAIN queue
    BY <1>1
  <2>3. n \in DOMAIN queue' => queue'[n] = queue[n + 1]
    BY <1>1 DEF Shifted
  <2>4. n < p - 1 <=> n + 1 < p
    OBVIOUS
  <2>5. QED
    BY <2>2, <2>3, <2>4 DEF MarkRequests
<1>3. \A n \in T : tells[n] = says[n + 1]
  <2>1. TAKE n \in T
  <2>2. n \in DOMAIN queue' /\ n + 1 \in DOMAIN queue /\ queue'[n] = queue[n + 1]
    BY <1>1 DEF MarkRequests, Shifted
  <2>3. QED
    BY <2>2 DEF MarkSays
<1>4. S \in SUBSET (Nat \ {0}) /\ T \in SUBSET (Nat \ {0})
  BY <1>1 DEF MarkRequests
<1>5. known =
        IF 1 \in S THEN says[1] ELSE base
  <2>1. 1 \in DOMAIN queue /\ 1 < p
    BY <1>1
  <2>2. 1 \in S <=> MarksRef(queue[1], r)
    BY <2>1 DEF MarkRequests, MarksRef
  <2>3. MarkSays[1] = queue[1].deleted
    BY <2>1 DEF MarkSays
  <2>4. QED
    BY <2>2, <2>3
<1> HIDE DEF S, T, says, tells, base, known
<1>6. Decided(S, says, base, v)
  BY DEF WillBeMarked, S, says, base
<1>7. Decided(T, tells, known, v)
  BY <1>2, <1>3, <1>4, <1>5, <1>6, DecidedShifts
<1>8. QED
  BY <1>7 DEF WillBeMarked, T, tells, known

LEMMA TaggedGrows ==
  ASSUME IsQueue, IsQueue', Grown, NEW r, NEW t, NEW v,
         TagState(refs[r].id, t, work.tag)' = TagState(refs[r].id, t, work.tag),
         \A n \in DOMAIN queue' : n > Len(queue) => ~TagsRef(queue'[n], r, t),
         WillBeTagged(r, t, v)
  PROVE  WillBeTagged(r, t, v)'
<1>1. /\ Len(queue) \in Nat /\ DOMAIN queue = 1..Len(queue)
      /\ Len(queue') \in Nat /\ DOMAIN queue' = 1..Len(queue')
  BY QueueDomain DEF IsQueue
<1>2. \A n \in 1..Len(queue) : n \in DOMAIN queue /\ n \in DOMAIN queue' /\ queue'[n] = queue[n]
  BY <1>1 DEF Grown
<1>3. \A n \in TagRequests(r, t)' : n \in 1..Len(queue)
  BY <1>1 DEF TagRequests, TagsRef
<1>4. TagRequests(r, t)' = TagRequests(r, t)
  BY <1>1, <1>2, <1>3 DEF TagRequests
<1>5. \A n \in TagRequests(r, t) : TagSays'[n] = TagSays[n]
  BY <1>1, <1>2 DEF TagRequests, TagSays
<1>6. Decided(TagRequests(r, t), TagSays, TagState(refs[r].id, t, work.tag), v)
  BY DEF WillBeTagged
<1>7. Decided(TagRequests(r, t)', TagSays', TagState(refs[r].id, t, work.tag), v)
  BY <1>4, <1>5, <1>6, DecidedKeeps
<1>8. QED
  BY <1>7 DEF WillBeTagged

LEMMA TaggedNow ==
  ASSUME IsQueue', NEW r, NEW t, NEW v, NEW n \in DOMAIN queue',
         TagsRef(queue'[n], r, t), queue'[n].op = v,
         \A m \in DOMAIN queue' : m > n => ~TagsRef(queue'[m], r, t)
  PROVE  WillBeTagged(r, t, v)'
<1>1. Len(queue') \in Nat /\ DOMAIN queue' = 1..Len(queue')
  BY QueueDomain DEF IsQueue
<1>2. n \in TagRequests(r, t)' /\ TagSays'[n] = v
  BY DEF TagRequests, TagsRef, TagSays
<1>3. \A m \in TagRequests(r, t)' : m <= n
  BY <1>1 DEF TagRequests, TagsRef
<1>4. Decided(TagRequests(r, t)', TagSays', TagState(refs[r].id, t, work.tag)', v)
  BY <1>2, <1>3 DEF Decided
<1>5. QED
  BY <1>4 DEF WillBeTagged

LEMMA TaggedShifts ==
  ASSUME IsQueue, IsQueue', Shifted, NEW r, NEW t, NEW v,
         TagState(refs[r].id, t, work.tag)' =
           IF TagsRef(queue[1], r, t) THEN queue[1].op
           ELSE TagState(refs[r].id, t, work.tag),
         WillBeTagged(r, t, v)
  PROVE  WillBeTagged(r, t, v)'
<1> DEFINE S == TagRequests(r, t)
           T == TagRequests(r, t)'
           says == TagSays
           tells == TagSays'
           base == TagState(refs[r].id, t, work.tag)
           known == TagState(refs[r].id, t, work.tag)'
<1>1. /\ Len(queue) \in Nat /\ DOMAIN queue = 1..Len(queue) /\ Len(queue) > 0
      /\ Len(queue') \in Nat /\ DOMAIN queue' = 1..Len(queue')
      /\ Len(queue') = Len(queue) - 1
  BY QueueDomain DEF IsQueue, Shifted
<1>2. \A n \in Nat \ {0} : n \in T <=> n + 1 \in S
  <2>1. TAKE n \in Nat \ {0}
  <2>2. n \in DOMAIN queue' <=> n + 1 \in DOMAIN queue
    BY <1>1
  <2>3. n \in DOMAIN queue' => queue'[n] = queue[n + 1]
    BY <1>1 DEF Shifted
  <2>4. QED
    BY <2>2, <2>3 DEF TagRequests
<1>3. \A n \in T : tells[n] = says[n + 1]
  <2>1. TAKE n \in T
  <2>2. n \in DOMAIN queue' /\ n + 1 \in DOMAIN queue /\ queue'[n] = queue[n + 1]
    BY <1>1 DEF TagRequests, Shifted
  <2>3. QED
    BY <2>2 DEF TagSays
<1>4. S \in SUBSET (Nat \ {0}) /\ T \in SUBSET (Nat \ {0})
  BY <1>1 DEF TagRequests
<1>5. known =
        IF 1 \in S THEN says[1] ELSE base
  <2>1. 1 \in DOMAIN queue
    BY <1>1
  <2>2. 1 \in S <=> TagsRef(queue[1], r, t)
    BY <2>1 DEF TagRequests, TagsRef
  <2>3. TagSays[1] = queue[1].op
    BY <2>1 DEF TagSays
  <2>4. QED
    BY <2>2, <2>3
<1> HIDE DEF S, T, says, tells, base, known
<1>6. Decided(S, says, base, v)
  BY DEF WillBeTagged, S, says, base
<1>7. Decided(T, tells, known, v)
  BY <1>2, <1>3, <1>4, <1>5, <1>6, DecidedShifts
<1>8. QED
  BY <1>7 DEF WillBeTagged, T, tells, known
--------------------------------------------------------------------------------
(* Refs that stay as they are seen, and refs whose image is about to go. *)

\* The rows of the image of r say what they said.
RowKept(r) == /\ work'.image[refs'[r].id].deleted = work.image[refs[r].id].deleted
              /\ \A t \in Tags : TagState(refs[r].id, t, work.tag)' =
                                   TagState(refs[r].id, t, work.tag)

\* No request that has just been posted names r.
NotNamed(r) == \A n \in DOMAIN queue' : n > Len(queue) => r \notin Named(queue'[n])

LEMMA NamedParts ==
  ASSUME NEW request, NEW r
  PROVE  /\ MarksRef(request, r) => r \in Named(request)
         /\ \A t : TagsRef(request, r, t) => r \in Named(request)
  BY DEF MarksRef, TagsRef, Named, Naming

LEMMA KeptGrows ==
  ASSUME IsQueue, IsQueue', Grown, NEW r, RowKept(r), NotNamed(r), Kept(r),
         refs'[r].deleted = refs[r].deleted, refs'[r].tags = refs[r].tags,
         \A n \in Purges' : n > Len(queue) => refs[r].deleted = FALSE
  PROVE  Kept(r)'
<1>1. /\ Len(queue) \in Nat /\ DOMAIN queue = 1..Len(queue)
      /\ Len(queue') \in Nat /\ DOMAIN queue' = 1..Len(queue')
      /\ Len(queue) <= Len(queue')
  BY QueueDomain DEF IsQueue, Grown
<1>2. \A n \in DOMAIN queue' : n > Len(queue) =>
        ~MarksRef(queue'[n], r) /\ \A t : ~TagsRef(queue'[n], r, t)
  BY NamedParts DEF NotNamed
<1>3. ASSUME NEW v, v = refs[r].deleted
      PROVE  \A p \in (Len(queue) + 1)..(Len(queue') + 1) : WillBeMarked(r, p, v)'
  <2>1. WillBeMarked(r, Len(queue) + 1, v)
    BY <1>3 DEF Kept
  <2>2. QED
    BY <1>2, <2>1, MarkedAtEnd DEF RowKept
<1>4. WillBeMarked(r, Len(queue) + 1, refs[r].deleted)'
  <2>1. Len(queue') + 1 \in (Len(queue) + 1)..(Len(queue') + 1)
    BY <1>1
  <2>2. QED
    BY <1>3, <2>1
<1>5. ASSUME NEW p \in Purges'
      PROVE  WillBeMarked(r, p, FALSE)'
  <2>1. p \in DOMAIN queue' /\ p \in 1..Len(queue')
    BY <1>1 DEF Purges
  <2>2. CASE p > Len(queue)
    <3>1. refs[r].deleted = FALSE /\ p \in (Len(queue) + 1)..(Len(queue') + 1)
      BY <1>1, <2>1, <2>2
    <3>2. QED
      BY <1>3, <3>1
  <2>3. CASE ~(p > Len(queue))
    <3>1. p \in 1..Len(queue) /\ p \in 1..(Len(queue) + 1) /\ p \in DOMAIN queue
      BY <1>1, <2>1, <2>3
    <3>2. p \in Purges
      BY <2>1, <3>1 DEF Purges, Grown
    <3>3. QED
      BY <3>1, <3>2, MarkedGrows DEF Kept, RowKept
  <2>4. QED
    BY <2>2, <2>3
<1>6. ASSUME NEW t \in PlainTags
      PROVE  WillBeTagged(r, t, ShownTag(r, t))'
  <2>. t \in Tags
    BY DEF PlainTags
  <2>1. ASSUME NEW v, v = ShownTag(r, t)
        PROVE  WillBeTagged(r, t, v)'
    BY <1>2, <2>1, TaggedGrows DEF Kept, RowKept
  <2>2. ShownTag(r, t)' = ShownTag(r, t)
    BY DEF ShownTag
  <2>3. QED
    BY <2>1, <2>2
<1>7. QED
  BY <1>4, <1>5, <1>6 DEF Kept

LEMMA CondemnedGrows ==
  ASSUME IsQueue, IsQueue', Grown, NEW r, RowKept(r), NotNamed(r), Condemned(r)
  PROVE  Condemned(r)'
<1>1. /\ Len(queue) \in Nat /\ DOMAIN queue = 1..Len(queue)
      /\ Len(queue') \in Nat /\ DOMAIN queue' = 1..Len(queue')
      /\ Len(queue) <= Len(queue')
  BY QueueDomain DEF IsQueue, Grown
<1>2. PICK p \in Purges :
        /\ WillBeMarked(r, p, TRUE)
        /\ \A q \in Purges : q < p => WillBeMarked(r, q, FALSE)
        /\ \A n \in DOMAIN queue : n > p => r \notin Named(queue[n])
  BY DEF Condemned
<1>3. p \in 1..Len(queue) /\ p \in 1..(Len(queue) + 1)
  BY <1>1 DEF Purges
<1>4. p \in Purges' /\ WillBeMarked(r, p, TRUE)'
  <2>1. p \in Purges'
    BY <1>1, <1>3 DEF Purges, Grown
  <2>2. WillBeMarked(r, p, TRUE)'
    BY <1>2, <1>3, MarkedGrows DEF RowKept
  <2>3. QED
    BY <2>1, <2>2
<1>5. ASSUME NEW q \in Purges', q < p
      PROVE  WillBeMarked(r, q, FALSE)'
  <2>1. q \in 1..Len(queue) /\ q \in 1..(Len(queue) + 1)
    BY <1>1, <1>3, <1>5 DEF Purges
  <2>2. q \in Purges
    BY <1>1, <2>1 DEF Purges, Grown
  <2>3. QED
    BY <1>2, <1>5, <2>1, <2>2, MarkedGrows DEF RowKept
<1>6. ASSUME NEW n \in DOMAIN queue', n > p
      PROVE  r \notin Named(queue'[n])
  <2>1. CASE n > Len(queue)
    BY <2>1 DEF NotNamed
  <2>2. CASE n <= Len(queue)
    <3>1. n \in 1..Len(queue) /\ n \in DOMAIN queue
      BY <1>1, <2>2
    <3>2. QED
      BY <1>2, <1>6, <3>1 DEF Grown
  <2>3. QED
    BY <1>1, <2>1, <2>2
<1>7. QED
  BY <1>4, <1>5, <1>6 DEF Condemned

\* A request is posted, and r is shown as it says, or as it was.
LEMMA KeptPosted ==
  ASSUME NEW R, queue \in Seq(R), queue' \in Seq(R), NEW request \in R,
         queue' = Append(queue, request), NEW r, RowKept(r), Kept(r),
         request.op # "purgeDeletedImages",
         refs'[r].deleted = IF MarksRef(request, r) THEN request.deleted ELSE refs[r].deleted,
         \A t \in Tags : ShownTag(r, t)' = IF TagsRef(request, r, t) THEN request.op
                                           ELSE ShownTag(r, t)
  PROVE  Kept(r)'
<1>1. /\ IsQueue /\ IsQueue' /\ Grown /\ Len(queue') = Len(queue) + 1
      /\ queue'[Len(queue')] = request
  BY PostGrows DEF IsQueue
<1>2. /\ Len(queue) \in Nat /\ DOMAIN queue = 1..Len(queue) /\ DOMAIN queue' = 1..Len(queue')
      /\ Len(queue') \in DOMAIN queue' /\ Len(queue') > 0
      /\ \A n \in DOMAIN queue' : n > Len(queue) => n = Len(queue')
  <2>1. /\ Len(queue) \in Nat /\ DOMAIN queue = 1..Len(queue) /\ DOMAIN queue' = 1..Len(queue')
    BY <1>1, QueueDomain DEF IsQueue
  <2>2. QED
    BY <1>1, <2>1
<1>3. ASSUME NEW v, v = refs'[r].deleted
      PROVE  WillBeMarked(r, Len(queue) + 1, v)'
  <2>1. CASE MarksRef(request, r)
    BY <1>1, <1>2, <1>3, <2>1, MarkedNow
  <2>2. CASE ~MarksRef(request, r)
    <3>1. \A n \in DOMAIN queue' : n > Len(queue) => ~MarksRef(queue'[n], r)
      BY <1>1, <1>2, <2>2
    <3>2. WillBeMarked(r, Len(queue) + 1, v)
      BY <1>3, <2>2 DEF Kept
    <3>3. Len(queue') + 1 \in (Len(queue) + 1)..(Len(queue') + 1)
      BY <1>1, <1>2
    <3>4. \A p \in (Len(queue) + 1)..(Len(queue') + 1) : WillBeMarked(r, p, v)'
      BY <1>1, <3>1, <3>2, MarkedAtEnd DEF RowKept
    <3>5. QED
      BY <3>3, <3>4
  <2>3. QED
    BY <2>1, <2>2
<1>4. WillBeMarked(r, Len(queue) + 1, refs[r].deleted)'
  BY <1>3
<1>5. ASSUME NEW p \in Purges'
      PROVE  WillBeMarked(r, p, FALSE)'
  <2>1. p \in 1..Len(queue) /\ p \in 1..(Len(queue) + 1)
    BY <1>1, <1>2 DEF Purges
  <2>2. p \in Purges
    BY <1>1, <1>2, <2>1 DEF Purges, Grown
  <2>3. QED
    BY <1>1, <2>1, <2>2, MarkedGrows DEF Kept, RowKept
<1>6. ASSUME NEW t \in PlainTags
      PROVE  WillBeTagged(r, t, ShownTag(r, t))'
  <2>. t \in Tags
    BY DEF PlainTags
  <2>1. ASSUME NEW v, v = ShownTag(r, t)'
        PROVE  WillBeTagged(r, t, v)'
    <3>1. CASE TagsRef(request, r, t)
      <4>1. /\ TagsRef(queue'[Len(queue')], r, t) /\ queue'[Len(queue')].op = v
            /\ \A m \in DOMAIN queue' : ~(m > Len(queue'))
        BY <1>1, <1>2, <2>1, <3>1
      <4>2. QED
        BY <1>1, <1>2, <4>1, TaggedNow
    <3>2. CASE ~TagsRef(request, r, t)
      <4>1. \A n \in DOMAIN queue' : n > Len(queue) => ~TagsRef(queue'[n], r, t)
        BY <1>1, <1>2, <3>2
      <4>2. WillBeTagged(r, t, v)
        BY <2>1, <3>2 DEF Kept
      <4>3. QED
        BY <1>1, <4>1, <4>2, TaggedGrows DEF RowKept
    <3>3. QED
      BY <3>1, <3>2
  <2>2. QED
    BY <2>1
<1>7. QED
  BY <1>4, <1>5, <1>6 DEF Kept

\* What a purge finds when it is the oldest request.
LEMMA MarkedFirst ==
  ASSUME IsQueue, NEW r, NEW v, WillBeMarked(r, 1, v)
  PROVE  work.image[refs[r].id].deleted = v
<1>1. {n \in MarkRequests(r) : n < 1} = {}
  BY QueueDomain DEF MarkRequests
<1>2. QED
  BY <1>1 DEF WillBeMarked, Decided

\* The oldest request is handled as far as the rows of r go.
RowHandled(r) ==
  /\ work'.image[refs'[r].id].deleted =
       IF MarksRef(queue[1], r) THEN queue[1].deleted ELSE work.image[refs[r].id].deleted
  /\ \A t \in Tags : TagState(refs[r].id, t, work.tag)' =
                       IF TagsRef(queue[1], r, t) THEN queue[1].op
                       ELSE TagState(refs[r].id, t, work.tag)

LEMMA KeptShifts ==
  ASSUME IsQueue, IsQueue', Shifted, refs' = refs, NEW r, RowHandled(r), Kept(r)
  PROVE  Kept(r)'
<1>1. /\ Len(queue) \in Nat /\ DOMAIN queue = 1..Len(queue) /\ Len(queue) > 0
      /\ Len(queue') \in Nat /\ DOMAIN queue' = 1..Len(queue')
      /\ Len(queue') = Len(queue) - 1
  BY QueueDomain DEF IsQueue, Shifted
<1>2. ASSUME NEW p \in 1..(Len(queue') + 1), NEW v, WillBeMarked(r, p + 1, v)
      PROVE  WillBeMarked(r, p, v)'
  <2>1. p + 1 \in 2..(Len(queue) + 1) /\ (p + 1) - 1 = p
    BY <1>1
  <2>2. WillBeMarked(r, (p + 1) - 1, v)'
    BY <1>2, <2>1, MarkedShifts DEF RowHandled
  <2>3. QED
    BY <2>1, <2>2
<1>3. WillBeMarked(r, Len(queue) + 1, refs[r].deleted)'
  <2>1. ASSUME NEW v, v = refs[r].deleted, NEW p, p = Len(queue') + 1
        PROVE  WillBeMarked(r, p, v)'
    <3>1. p \in 1..(Len(queue') + 1) /\ p + 1 = Len(queue) + 1
      BY <1>1, <2>1
    <3>2. WillBeMarked(r, p + 1, v)
      BY <2>1, <3>1 DEF Kept
    <3>3. QED
      BY <1>2, <3>1, <3>2
  <2>2. QED
    BY <2>1
<1>4. ASSUME NEW p \in Purges'
      PROVE  WillBeMarked(r, p, FALSE)'
  <2>1. p \in 1..Len(queue') /\ p \in 1..(Len(queue') + 1) /\ p + 1 \in DOMAIN queue
    BY <1>1 DEF Purges
  <2>2. p + 1 \in Purges
    BY <2>1 DEF Purges, Shifted
  <2>3. QED
    BY <1>2, <2>1, <2>2 DEF Kept
<1>5. ASSUME NEW t \in PlainTags
      PROVE  WillBeTagged(r, t, ShownTag(r, t))'
  <2>. t \in Tags
    BY DEF PlainTags
  <2>1. ASSUME NEW v, v = ShownTag(r, t)
        PROVE  WillBeTagged(r, t, v)'
    BY <2>1, TaggedShifts DEF Kept, RowHandled
  <2>2. ShownTag(r, t)' = ShownTag(r, t)
    BY DEF ShownTag
  <2>3. QED
    BY <2>1, <2>2
<1>6. QED
  BY <1>3, <1>4, <1>5 DEF Kept

LEMMA CondemnedShifts ==
  ASSUME IsQueue, IsQueue', Shifted, refs' = refs, NEW r, RowHandled(r), Condemned(r),
         queue[1].op = "purgeDeletedImages" => work.image[refs[r].id].deleted # TRUE
  PROVE  Condemned(r)'
<1>1. /\ Len(queue) \in Nat /\ DOMAIN queue = 1..Len(queue) /\ Len(queue) > 0
      /\ Len(queue') \in Nat /\ DOMAIN queue' = 1..Len(queue')
      /\ Len(queue') = Len(queue) - 1
  BY QueueDomain DEF IsQueue, Shifted
<1>2. PICK p \in Purges :
        /\ WillBeMarked(r, p, TRUE)
        /\ \A q \in Purges : q < p => WillBeMarked(r, q, FALSE)
        /\ \A n \in DOMAIN queue : n > p => r \notin Named(queue[n])
  BY DEF Condemned
<1>3. p # 1
  BY <1>2, MarkedFirst DEF Purges
<1>4. /\ p \in 2..(Len(queue) + 1) /\ p - 1 \in 1..Len(queue') /\ (p - 1) + 1 = p
      /\ p \in Int
  BY <1>1, <1>3 DEF Purges
<1>5. p - 1 \in Purges' /\ WillBeMarked(r, p - 1, TRUE)'
  <2>1. p - 1 \in Purges'
    BY <1>1, <1>4 DEF Purges, Shifted
  <2>2. WillBeMarked(r, p - 1, TRUE)'
    BY <1>2, <1>4, MarkedShifts DEF RowHandled
  <2>3. QED
    BY <2>1, <2>2
<1>6. ASSUME NEW q \in Purges', q < p - 1
      PROVE  WillBeMarked(r, q, FALSE)'
  <2>1. /\ q \in 1..Len(queue') /\ q + 1 \in DOMAIN queue /\ q + 1 < p
        /\ q + 1 \in 2..(Len(queue) + 1) /\ (q + 1) - 1 = q
    BY <1>1, <1>4, <1>6 DEF Purges
  <2>2. q + 1 \in Purges
    BY <2>1 DEF Purges, Shifted
  <2>3. WillBeMarked(r, (q + 1) - 1, FALSE)'
    BY <1>2, <2>1, <2>2, MarkedShifts DEF RowHandled
  <2>4. QED
    BY <2>1, <2>3
<1>7. ASSUME NEW n \in DOMAIN queue', n > p - 1
      PROVE  r \notin Named(queue'[n])
  <2>1. n \in 1..Len(queue') /\ n + 1 \in DOMAIN queue /\ n + 1 > p
    BY <1>1, <1>4, <1>7
  <2>2. QED
    BY <1>2, <2>1 DEF Shifted
<1>8. QED
  BY <1>5, <1>6, <1>7 DEF Condemned
--------------------------------------------------------------------------------
(* The GUI thread's requests.  A is the set of refs whose rows are there. *)

LEMMA Typed ==
  ASSUME IInv
  PROVE  /\ queue \in Seq(Requests) /\ IsQueue /\ toGui \in Seq(Signals)
         /\ refs \in [DOMAIN refs -> Refs] /\ doomed \subseteq DOMAIN refs
         /\ work \in Databases /\ committed \in Databases
         /\ Agree(work) /\ Agree(committed)
  BY DEF IInv, TypeOK, IsQueue, StoreImageAgree, Agree

LEMMA SameRows ==
  ASSUME work' = work, NEW r, refs'[r].id = refs[r].id
  PROVE  RowKept(r)
  BY DEF RowKept, TagState

\* Nothing the write thread has, and no signal, is touched.
LEMMA PostedAttached ==
  ASSUME IInv, NEW A \in SUBSET DOMAIN refs, Attached(A),
         NEW request \in Requests, queue' = Append(queue, request), IsQueue', UNCHANGED guiRest,
         DOMAIN refs' = DOMAIN refs,
         \A r \in DOMAIN refs : refs'[r].id = refs[r].id /\ refs'[r].format = refs[r].format,
         Named(request) \subseteq Live, doomed \subseteq doomed'
  PROVE  /\ Standing(A)' /\ Announcing(A)' /\ \A r \in A : FormatShown(r)'
         /\ \A r \in A \cap doomed : Condemned(r)'
<1>1. /\ queue \in Seq(Requests) /\ IsQueue /\ Grown /\ Len(queue') = Len(queue) + 1
      /\ queue'[Len(queue')] = request
  BY Typed, PostGrows
<1>2. /\ Len(queue) \in Nat /\ DOMAIN queue = 1..Len(queue) /\ DOMAIN queue' = 1..Len(queue')
      /\ \A n \in DOMAIN queue' : n > Len(queue) => n = Len(queue')
  <2>1. /\ Len(queue) \in Nat /\ DOMAIN queue = 1..Len(queue) /\ DOMAIN queue' = 1..Len(queue')
    BY <1>1, QueueDomain DEF IsQueue
  <2>2. QED
    BY <1>1, <2>1
<1>3. ASSUME NEW n \in DOMAIN queue'
      PROVE  Named(queue'[n]) \subseteq A
  <2>1. CASE n > Len(queue)
    BY <1>1, <1>2, <2>1 DEF Attached, Standing
  <2>2. CASE ~(n > Len(queue))
    <3>1. n \in 1..Len(queue) /\ n \in DOMAIN queue
      BY <1>2, <2>2
    <3>2. QED
      BY <1>1, <3>1 DEF Attached, Standing, Grown
  <2>3. QED
    BY <2>1, <2>2
<1>4. Standing(A)'
  BY <1>3 DEF Attached, Standing, Live, guiRest, HasImage
<1>5. Announcing(A)'
  BY DEF Attached, Announcing, Untouched, Announced, guiRest, HasImage, TagsById
<1>6. \A r \in A : FormatShown(r)'
  BY DEF Attached, FormatShown, guiRest
<1>7. ASSUME NEW r \in A \cap doomed
      PROVE  Condemned(r)'
  <2>1. RowKept(r)
    BY SameRows DEF guiRest
  <2>2. NotNamed(r)
    BY <1>1, <1>2 DEF NotNamed, Live
  <2>3. QED
    BY <1>1, <2>1, <2>2, CondemnedGrows DEF Attached
<1>8. QED
  BY <1>4, <1>5, <1>6, <1>7

\* An edit shows on the refs what its request says.
LEMMA EditAttached ==
  ASSUME IInv, NEW A \in SUBSET DOMAIN refs, Attached(A),
         NEW request \in Requests, Post(request), IsQueue', UNCHANGED guiRest,
         DOMAIN refs' = DOMAIN refs, doomed' = doomed,
         \A r \in DOMAIN refs : refs'[r].id = refs[r].id /\ refs'[r].format = refs[r].format,
         Named(request) \subseteq Live, request.op # "purgeDeletedImages",
         \A r \in Live :
           /\ refs'[r].deleted = IF MarksRef(request, r) THEN request.deleted
                                 ELSE refs[r].deleted
           /\ \A t \in Tags : ShownTag(r, t)' = IF TagsRef(request, r, t) THEN request.op
                                                ELSE ShownTag(r, t)
  PROVE  Attached(A)'
<1>1. queue' = Append(queue, request) /\ Live' = Live
  BY DEF Post, Live
<1>2. /\ Standing(A)' /\ Announcing(A)' /\ \A r \in A : FormatShown(r)'
      /\ \A r \in A \cap doomed : Condemned(r)'
  BY <1>1, PostedAttached
<1>3. queue \in Seq(Requests) /\ queue' \in Seq(Requests)
  BY <1>1, Typed, TailAppend
<1>4. ASSUME NEW r \in Live
      PROVE  Kept(r)'
  <2>1. RowKept(r) /\ Kept(r)
    BY SameRows DEF guiRest, Attached, Live
  <2>2. QED
    BY <1>1, <1>3, <2>1, KeptPosted
<1>5. QED
  BY <1>1, <1>2, <1>4 DEF Attached

LEMMA SelectionLive ==
  ASSUME ~EditGhosts, NEW S \in SUBSET DOMAIN refs, Selectable(S)
  PROVE  S \subseteq Live
  BY DEF Selectable, Live

LEMMA EditTagsAttached ==
  ASSUME ~EditGhosts, IInv, IInv', NEW A \in SUBSET DOMAIN refs, Attached(A),
         NEW S \in SUBSET DOMAIN refs, NEW t \in Tags, addTag(S, t) \/ removeTag(S, t)
  PROVE  Attached(A)' /\ DOMAIN refs' = DOMAIN refs
<1>1. refs \in [DOMAIN refs -> Refs] /\ IsQueue'
  BY Typed DEF IInv, TypeOK, IsQueue
<1>2. S \subseteq Live
  BY SelectionLive DEF addTag, removeTag
<1>3. CASE addTag(S, t)
  <2> DEFINE on == {r \in S : t \notin refs[r].tags}
             request == [op |-> "addTag", on |-> on, tag |-> t]
             edited(r) == [refs[r] EXCEPT !.tags = @ \cup {t}]
  <2>1. /\ refs' = [r \in DOMAIN refs |-> IF r \in on THEN edited(r) ELSE refs[r]]
        /\ Post(request) /\ doomed' = doomed /\ UNCHANGED guiRest
    BY <1>3 DEF addTag, Edited
  <2>2. \A r \in DOMAIN refs : /\ edited(r).id = refs[r].id
                               /\ edited(r).format = refs[r].format
                               /\ edited(r).deleted = refs[r].deleted
                               /\ edited(r).tags = refs[r].tags \cup {t}
    BY <1>1 DEF Refs
  <2>3. request \in Requests /\ request.op = "addTag" /\ request.on = on /\ request.tag = t
    BY DEF Requests
  <2>4. \A r \in DOMAIN refs : /\ ~MarksRef(request, r)
                               /\ \A u : TagsRef(request, r, u) <=> r \in on /\ u = t
    BY <2>3 DEF MarksRef, TagsRef
  <2>5. Named(request) \subseteq Live
    BY <2>3, <1>2 DEF Named
  <2> HIDE DEF request, edited
  <2>6. ASSUME NEW r \in Live
        PROVE  /\ refs'[r].deleted = refs[r].deleted
               /\ \A u \in Tags : ShownTag(r, u)' = IF TagsRef(request, r, u) THEN request.op
                                                    ELSE ShownTag(r, u)
    BY <2>1, <2>2, <2>3, <2>4 DEF Live, ShownTag
  <2>7. \A r \in DOMAIN refs : refs'[r].id = refs[r].id /\ refs'[r].format = refs[r].format
    BY <2>1, <2>2
  <2>8. DOMAIN refs' = DOMAIN refs
    BY <2>1
  <2>9. Attached(A)'
    BY <1>1, <2>1, <2>3, <2>4, <2>5, <2>6, <2>7, <2>8, EditAttached DEF Live
  <2>10. QED
    BY <2>8, <2>9
<1>4. CASE removeTag(S, t)
  <2> DEFINE on == {r \in S : t \in refs[r].tags}
             request == [op |-> "removeTag", on |-> on, tag |-> t]
             edited(r) == [refs[r] EXCEPT !.tags = @ \ {t}]
  <2>1. /\ refs' = [r \in DOMAIN refs |-> IF r \in on THEN edited(r) ELSE refs[r]]
        /\ Post(request) /\ doomed' = doomed /\ UNCHANGED guiRest
    BY <1>4 DEF removeTag, Edited
  <2>2. \A r \in DOMAIN refs : /\ edited(r).id = refs[r].id
                               /\ edited(r).format = refs[r].format
                               /\ edited(r).deleted = refs[r].deleted
                               /\ edited(r).tags = refs[r].tags \ {t}
    BY <1>1 DEF Refs
  <2>3. request \in Requests /\ request.op = "removeTag" /\ request.on = on /\ request.tag = t
    BY DEF Requests
  <2>4. \A r \in DOMAIN refs : /\ ~MarksRef(request, r)
                               /\ \A u : TagsRef(request, r, u) <=> r \in on /\ u = t
    BY <2>3 DEF MarksRef, TagsRef
  <2>5. Named(request) \subseteq Live
    BY <2>3, <1>2 DEF Named
  <2> HIDE DEF request, edited
  <2>6. ASSUME NEW r \in Live
        PROVE  /\ refs'[r].deleted = refs[r].deleted
               /\ \A u \in Tags : ShownTag(r, u)' = IF TagsRef(request, r, u) THEN request.op
                                                    ELSE ShownTag(r, u)
    BY <2>1, <2>2, <2>3, <2>4 DEF Live, ShownTag
  <2>7. \A r \in DOMAIN refs : refs'[r].id = refs[r].id /\ refs'[r].format = refs[r].format
    BY <2>1, <2>2
  <2>8. DOMAIN refs' = DOMAIN refs
    BY <2>1
  <2>9. Attached(A)'
    BY <1>1, <2>1, <2>3, <2>4, <2>5, <2>6, <2>7, <2>8, EditAttached DEF Live
  <2>10. QED
    BY <2>8, <2>9
<1>5. QED
  BY <1>3, <1>4

LEMMA MarkAttached ==
  ASSUME ~EditGhosts, IInv, IInv', NEW A \in SUBSET DOMAIN refs, Attached(A),
         NEW S \in SUBSET DOMAIN refs, NEW v \in BOOLEAN, updateDeleted(S, v)
  PROVE  Attached(A)' /\ DOMAIN refs' = DOMAIN refs
<1> DEFINE on == {r \in S : refs[r].deleted # v}
           request == [op |-> "updateDeleted", on |-> on, deleted |-> v]
           edited(r) == [refs[r] EXCEPT !.deleted = v]
<1>1. refs \in [DOMAIN refs -> Refs] /\ IsQueue'
  BY Typed DEF IInv, TypeOK, IsQueue
<1>2. S \subseteq Live
  BY SelectionLive DEF updateDeleted
<1>3. /\ refs' = [r \in DOMAIN refs |-> IF r \in on THEN edited(r) ELSE refs[r]]
      /\ Post(request) /\ doomed' = doomed /\ UNCHANGED guiRest
  BY DEF updateDeleted, Edited
<1>4. \A r \in DOMAIN refs : /\ edited(r).id = refs[r].id
                             /\ edited(r).format = refs[r].format
                             /\ edited(r).deleted = v
                             /\ edited(r).tags = refs[r].tags
  BY <1>1 DEF Refs
<1>5. /\ request \in Requests /\ request.op = "updateDeleted"
      /\ request.on = on /\ request.deleted = v
  BY DEF Requests
<1>6. \A r \in DOMAIN refs : /\ MarksRef(request, r) <=> r \in on
                             /\ \A u : ~TagsRef(request, r, u)
  BY <1>5 DEF MarksRef, TagsRef
<1>7. Named(request) \subseteq Live
  BY <1>5, <1>2 DEF Named
<1> HIDE DEF request, edited
<1>8. ASSUME NEW r \in Live
      PROVE  /\ refs'[r].deleted = IF MarksRef(request, r) THEN request.deleted
                                   ELSE refs[r].deleted
             /\ \A u \in Tags : ShownTag(r, u)' = ShownTag(r, u)
  BY <1>3, <1>4, <1>5, <1>6 DEF Live, ShownTag
<1>9. \A r \in DOMAIN refs : refs'[r].id = refs[r].id /\ refs'[r].format = refs[r].format
  BY <1>3, <1>4
<1>10. DOMAIN refs' = DOMAIN refs
  BY <1>3
<1>11. Attached(A)'
  BY <1>1, <1>3, <1>5, <1>6, <1>7, <1>8, <1>9, <1>10, EditAttached DEF Live
<1>12. QED
  BY <1>10, <1>11

\* The requests that show nothing at once.
LEMMA AskAttached ==
  ASSUME ~EditGhosts, IInv, IInv', NEW A \in SUBSET DOMAIN refs, Attached(A),
         \/ \E S \in SUBSET DOMAIN refs : compressImages(S) \/ renderImages(S)
         \/ \E c \in Importable : Download(c)
         \/ FixMeta
  PROVE  Attached(A)' /\ DOMAIN refs' = DOMAIN refs
<1>1. IsQueue'
  BY Typed DEF IInv, TypeOK, IsQueue
<1>2. ASSUME NEW request \in Requests, Post(request), UNCHANGED <<refs, doomed, guiRest>>,
             request.op \notin {"addTag", "removeTag", "updateDeleted", "purgeDeletedImages"},
             Named(request) \subseteq Live
      PROVE  Attached(A)' /\ DOMAIN refs' = DOMAIN refs
  <2>1. \A r : ~MarksRef(request, r) /\ \A u : ~TagsRef(request, r, u)
    BY <1>2 DEF MarksRef, TagsRef
  <2>2. \A r, u : ShownTag(r, u)' = ShownTag(r, u)
    BY <1>2 DEF ShownTag
  <2>3. QED
    BY <1>1, <1>2, <2>1, <2>2, EditAttached
<1>3. ASSUME NEW S \in SUBSET DOMAIN refs, compressImages(S) \/ renderImages(S)
      PROVE  Attached(A)' /\ DOMAIN refs' = DOMAIN refs
  <2>1. S \subseteq Live
    BY <1>3, SelectionLive DEF compressImages, renderImages
  <2>2. PICK op \in {"compressImages", "renderImages"} :
          Post([op |-> op, on |-> S]) /\ UNCHANGED <<refs, doomed, guiRest>>
    BY <1>3 DEF compressImages, renderImages
  <2> DEFINE request == [op |-> op, on |-> S]
  <2>3. request \in Requests /\ request.op = op /\ request.on = S
    BY DEF Requests
  <2>4. Named(request) \subseteq Live
    BY <2>1, <2>3 DEF Named
  <2> HIDE DEF request
  <2>5. QED
    BY <1>2, <2>2, <2>3, <2>4 DEF request
<1>4. ASSUME NEW c \in Importable, Download(c)
      PROVE  Attached(A)' /\ DOMAIN refs' = DOMAIN refs
  <2> DEFINE request == [op |-> "writeImage", data |-> c]
  <2>1. request \in Requests /\ request.op = "writeImage"
    BY LibraryAssumption DEF Requests
  <2>2. Named(request) \subseteq Live
    BY <2>1 DEF Named, Naming
  <2>3. Post(request) /\ UNCHANGED <<refs, doomed, guiRest>>
    BY <1>4 DEF Download
  <2> HIDE DEF request
  <2>4. QED
    BY <1>2, <2>1, <2>2, <2>3
<1>5. ASSUME FixMeta
      PROVE  Attached(A)' /\ DOMAIN refs' = DOMAIN refs
  <2> DEFINE request == [op |-> "fixImageMetaData"]
  <2>1. request \in Requests /\ request.op = "fixImageMetaData"
    BY DEF Requests
  <2>2. Named(request) \subseteq Live
    BY <2>1 DEF Named, Naming
  <2>3. Post(request) /\ UNCHANGED <<refs, doomed, guiRest>>
    BY <1>5 DEF FixMeta
  <2> HIDE DEF request
  <2>4. QED
    BY <1>2, <2>1, <2>2, <2>3
<1>6. QED
  BY <1>3, <1>4, <1>5

\* A purge condemns the refs that are shown as marked.
LEMMA PurgeAttached ==
  ASSUME IInv, IInv', NEW A \in SUBSET DOMAIN refs, Attached(A), Purge
  PROVE  Attached(A)' /\ DOMAIN refs' = DOMAIN refs
<1> DEFINE request == [op |-> "purgeDeletedImages"]
<1>1. /\ Post(request) /\ UNCHANGED <<refs, guiRest>>
      /\ doomed' = doomed \cup {r \in DOMAIN refs : refs[r].deleted}
  BY DEF Purge
<1>2. request \in Requests /\ request.op = "purgeDeletedImages"
  BY DEF Requests
<1>3. Named(request) = {}
  BY <1>2 DEF Named, Naming
<1> HIDE DEF request
<1>4. /\ queue \in Seq(Requests) /\ IsQueue /\ IsQueue' /\ Grown
      /\ queue' = Append(queue, request)
      /\ Len(queue') = Len(queue) + 1 /\ queue'[Len(queue')] = request
  BY <1>1, <1>2, Typed, PostGrows DEF IInv, TypeOK, IsQueue, Post
<1>5. /\ Len(queue) \in Nat /\ DOMAIN queue = 1..Len(queue) /\ DOMAIN queue' = 1..Len(queue')
      /\ \A n \in DOMAIN queue' : n > Len(queue) => n = Len(queue')
      /\ Len(queue') \in DOMAIN queue'
  <2>1. /\ Len(queue) \in Nat /\ DOMAIN queue = 1..Len(queue) /\ DOMAIN queue' = 1..Len(queue')
    BY <1>4, QueueDomain DEF IsQueue
  <2>2. QED
    BY <1>4, <2>1
<1>6. \A r : RowKept(r) /\ NotNamed(r)
  BY <1>1, <1>3, <1>4, <1>5, SameRows DEF NotNamed, guiRest
<1>7. /\ Standing(A)' /\ Announcing(A)' /\ \A r \in A : FormatShown(r)'
      /\ \A r \in A \cap doomed : Condemned(r)'
  BY <1>1, <1>2, <1>3, <1>4, PostedAttached
<1>8. ASSUME NEW r \in Live'
      PROVE  Kept(r)'
  <2>1. r \in Live /\ Kept(r)
    BY <1>1 DEF Live, Attached
  <2>2. refs[r].deleted = FALSE
    BY <1>1, Typed DEF Live, Refs
  <2>3. QED
    BY <1>1, <1>4, <1>6, <2>1, <2>2, KeptGrows
<1>9. ASSUME NEW r \in A, r \in doomed' \ doomed
      PROVE  Condemned(r)'
  <2>1. r \in Live /\ Kept(r) /\ refs[r].deleted = TRUE
    BY <1>1, <1>9, Typed DEF Live, Attached, Refs
  <2>2. ASSUME NEW p, p = Len(queue')
        PROVE  /\ p \in Purges' /\ WillBeMarked(r, p, TRUE)'
               /\ \A q \in Purges' : q < p => WillBeMarked(r, q, FALSE)'
               /\ \A n \in DOMAIN queue' : ~(n > p)
    <3>1. p \in Purges' /\ p \in (Len(queue) + 1)..(Len(queue') + 1)
      BY <1>2, <1>4, <1>5, <2>2 DEF Purges
    <3>2. WillBeMarked(r, p, TRUE)'
      <4>1. WillBeMarked(r, Len(queue) + 1, TRUE)
        BY <2>1 DEF Kept
      <4>2. \A n \in DOMAIN queue' : n > Len(queue) => ~MarksRef(queue'[n], r)
        BY <1>6, NamedParts DEF NotNamed
      <4>3. QED
        BY <1>4, <1>6, <3>1, <4>1, <4>2, MarkedAtEnd DEF RowKept
    <3>3. ASSUME NEW q \in Purges', q < p
          PROVE  WillBeMarked(r, q, FALSE)'
      <4>1. q \in 1..Len(queue) /\ q \in 1..(Len(queue) + 1)
        BY <1>4, <1>5, <2>2, <3>3 DEF Purges
      <4>2. q \in Purges
        BY <1>4, <1>5, <4>1 DEF Purges, Grown
      <4>3. QED
        BY <1>4, <1>6, <2>1, <4>1, <4>2, MarkedGrows DEF Kept, RowKept
    <3>4. \A n \in DOMAIN queue' : ~(n > p)
      BY <1>4, <1>5, <2>2
    <3>5. QED
      BY <3>1, <3>2, <3>3, <3>4
  <2>3. QED
    BY <2>2 DEF Condemned
<1>10. \A r \in A \cap doomed' : Condemned(r)'
  BY <1>7, <1>9
<1>11. QED
  BY <1>1, <1>7, <1>8, <1>10 DEF Attached
--------------------------------------------------------------------------------
(* The GUI thread receives signals. *)

LEMMA SignalTaken ==
  ASSUME IInv, toGui # <<>>, toGui' = Tail(toGui)
  PROVE  /\ 1 \in DOMAIN toGui /\ Head(toGui) = toGui[1]
         /\ \A n \in DOMAIN toGui' : n + 1 \in DOMAIN toGui /\ toGui'[n] = toGui[n + 1] /\ n + 1 # 1
         /\ \A x \in Range(toGui) : x # toGui[1] => x \in Range(toGui')
<1>1. /\ toGui \in Seq(Signals) /\ Len(toGui) \in Nat /\ Len(toGui) > 0
      /\ DOMAIN toGui = 1..Len(toGui) /\ DOMAIN toGui' = 1..(Len(toGui) - 1)
      /\ 1 \in DOMAIN toGui /\ Head(toGui) = toGui[1]
  BY Typed
<1>2. \A n \in DOMAIN toGui' : n + 1 \in DOMAIN toGui /\ toGui'[n] = toGui[n + 1] /\ n + 1 # 1
  BY <1>1
<1>3. ASSUME NEW x \in Range(toGui), x # toGui[1]
      PROVE  x \in Range(toGui')
  <2>1. PICK n \in DOMAIN toGui : x = toGui[n]
    BY <1>3 DEF Range
  <2>2. n - 1 \in DOMAIN toGui' /\ (n - 1) + 1 = n
    BY <1>1, <1>3, <2>1
  <2>3. toGui'[n - 1] = x
    BY <1>2, <2>1, <2>2
  <2>4. QED
    BY <2>2, <2>3 DEF Range
<1>4. QED
  BY <1>1, <1>2, <1>3

LEMMA QueueSame ==
  ASSUME IInv, queue' = queue
  PROVE  /\ IsQueue /\ IsQueue' /\ Grown /\ Purges' = Purges
         /\ \A r : NotNamed(r) /\ \A n \in Purges' : ~(n > Len(queue))
<1>1. /\ IsQueue /\ Len(queue) \in Nat /\ DOMAIN queue = 1..Len(queue)
  BY Typed, QueueDomain
<1>2. \A n \in DOMAIN queue : ~(n > Len(queue))
  BY <1>1
<1>3. QED
  BY <1>1, <1>2 DEF IsQueue, Grown, NotNamed, Purges

LEMMA UpdateImageDataAttached ==
  ASSUME IInv, IInv', NEW A \in SUBSET DOMAIN refs, Attached(A), UpdateImageData
  PROVE  Attached(A)' /\ DOMAIN refs' = DOMAIN refs
<1> DEFINE edited(r) == [refs[r] EXCEPT !.format = "jpeg"]
           s == Head(toGui).ref
<1>1. /\ toGui # <<>> /\ toGui' = Tail(toGui) /\ Head(toGui).sig = "updateImageData"
      /\ refs' = [r \in DOMAIN refs |-> IF r = s THEN edited(r) ELSE refs[r]]
      /\ UNCHANGED <<doomed, queue, todo, rendering, work, committed>>
  BY DEF UpdateImageData, Edited
<1>2. \A r \in DOMAIN refs : /\ edited(r).id = refs[r].id /\ edited(r).tags = refs[r].tags
                             /\ edited(r).deleted = refs[r].deleted
                             /\ edited(r).format = "jpeg"
  BY Typed DEF Refs
<1>3. toGui[1] = [sig |-> "updateImageData", ref |-> s]
  BY <1>1, Typed, SignalTaken, TailAppend DEF Signals
<1> HIDE DEF edited, s
<1>4. \A r \in DOMAIN refs : /\ refs'[r].id = refs[r].id /\ refs'[r].tags = refs[r].tags
                             /\ refs'[r].deleted = refs[r].deleted
                             /\ r # s => refs'[r].format = refs[r].format
                             /\ r = s => refs'[r].format = "jpeg"
  BY <1>1, <1>2
<1>5. DOMAIN refs' = DOMAIN refs /\ Live' = Live
  BY <1>1 DEF Live
<1>6. /\ IsQueue /\ IsQueue' /\ Grown /\ Purges' = Purges
      /\ \A r : NotNamed(r) /\ \A n \in Purges' : ~(n > Len(queue))
  BY <1>1, QueueSame
<1>7. \A r \in DOMAIN refs : RowKept(r)
  BY <1>1, <1>4, SameRows
<1>8. \A r \in Live : Kept(r)'
  BY <1>4, <1>6, <1>7, KeptGrows DEF Attached, Live
<1>9. \A r \in A \cap doomed : Condemned(r)'
  BY <1>6, <1>7, CondemnedGrows DEF Attached
<1>10. Standing(A)'
  BY <1>1, <1>4, <1>5 DEF Attached, Standing, HasImage
<1>11. Announcing(A)'
  <2>1. \A n \in Announced' : n + 1 \in Announced /\ toGui'[n] = toGui[n + 1]
    BY <1>1, SignalTaken DEF Announced
  <2>2. \A i : Untouched(i, A) => Untouched(i, A)'
    BY <1>1, <1>4 DEF Untouched, HasImage, TagsById
  <2>3. \A n \in Announced' : n \in Nat
    BY Typed DEF Announced, IInv, TypeOK
  <2>4. ASSUME NEW m \in Announced', NEW n \in Announced', toGui'[m].id = toGui'[n].id
        PROVE  m = n
    <3>1. m + 1 = n + 1
      BY <2>1, <2>4 DEF Attached, Announcing
    <3>2. QED
      BY <2>3, <3>1
  <2>5. QED
    BY <2>1, <2>2, <2>4 DEF Attached, Announcing
<1>12. \A r \in A : FormatShown(r)'
  <2>1. TAKE r \in A
  <2>2. CASE r = s
    BY <1>4, <2>2 DEF FormatShown
  <2>3. CASE r # s
    <3>1. [sig |-> "updateImageData", ref |-> r] # toGui[1]
      BY <1>3, <2>3
    <3>2. QED
      BY <1>1, <1>4, <2>3, <3>1, SignalTaken DEF FormatShown, Attached
  <2>4. QED
    BY <2>2, <2>3
<1>13. QED
  BY <1>1, <1>5, <1>8, <1>9, <1>10, <1>11, <1>12 DEF Attached

\* A new ref comes after all others.
LEMMA NewRefIsNew ==
  ASSUME NEW k \in Nat, DOMAIN refs \subseteq 1..k
  PROVE  /\ NewRef \in Nat /\ NewRef \notin DOMAIN refs
         /\ DOMAIN refs \cup {NewRef} \subseteq 1..NewRef
<1> DEFINE S == DOMAIN refs \cup {0}
<1>1. S \in SUBSET (0..k) /\ S # {}
  OBVIOUS
<1>2. Max(S) \in S /\ \A m \in S : m <= Max(S)
  BY <1>1, MaxIs
<1>3. Max(S) \in Nat /\ NewRef = Max(S) + 1
  BY <1>1, <1>2 DEF NewRef
<1>4. \A m \in DOMAIN refs : m \in 1..k /\ m <= Max(S)
  BY <1>2
<1> HIDE DEF S
<1>5. QED
  BY <1>3, <1>4

LEMMA Concatenation ==
  ASSUME NEW R, NEW q \in Seq(R), NEW more \in Seq(R)
  PROVE  /\ Len(q \o more) = Len(q) + Len(more)
         /\ \A n \in 1..Len(q) : (q \o more)[n] = q[n]
         /\ \A n \in 1..Len(more) : (q \o more)[Len(q) + n] = more[n]
<1>1. Len(q) \in Nat /\ Len(more) \in Nat /\ Len(q \o more) = Len(q) + Len(more)
  OBVIOUS
<1>2. \A n \in 1..Len(q) : (q \o more)[n] = q[n]
  OBVIOUS
<1>3. ASSUME NEW n \in 1..Len(more)
      PROVE  (q \o more)[Len(q) + n] = more[n]
  <2>1. /\ Len(q) + n \in 1..(Len(q) + Len(more)) /\ ~(Len(q) + n <= Len(q))
        /\ (Len(q) + n) - Len(q) = n
    BY <1>1
  <2>2. QED
    BY <2>1
<1>4. QED
  BY <1>1, <1>2, <1>3

\* What imageReady does: the new ref r for row id, and the requests that autotagging
\* posts for it.
Shows(id, r, words) ==
  /\ toGui # <<>> /\ toGui' = Tail(toGui) /\ Head(toGui).sig = "writeComplete"
  /\ 1 \in Announced /\ toGui[1].id = id
  /\ UNCHANGED <<doomed, todo, rendering, work, committed>>
  /\ r \notin DOMAIN refs /\ DOMAIN refs' = DOMAIN refs \cup {r}
  /\ \A s \in DOMAIN refs : refs'[s] = refs[s]
  /\ refs'[r].id = id /\ refs'[r].tags = Range(words) /\ refs'[r].deleted = FALSE
  /\ refs'[r].format = committed.image[id].format
  /\ Grown /\ Len(queue') = Len(queue) + Len(words)
  /\ \A n \in 1..Len(words) :
       /\ queue'[Len(queue) + n].op = "addTag"
       /\ queue'[Len(queue) + n].tag = words[n]
       /\ queue'[Len(queue) + n].on =
            IF \A m \in 1..(n - 1) : words[m] # words[n] THEN {r} ELSE {}

LEMMA ImageReadyShows ==
  ASSUME IInv, NEW A \in SUBSET DOMAIN refs, Attached(A), Databased,
         NEW k \in Nat, DOMAIN refs \subseteq 1..k,
         NEW words \in Seq(Tags), ImageReady(words)
  PROVE  \E id : Shows(id, NewRef, words) /\ Untouched(id, A)
<1> DEFINE r == NewRef
           id == Head(toGui).id
           found == committed.image[id] # NoRow
           ref == RefOf(committed, id, TagsById(committed, id))
           tagged == [ref EXCEPT !.tags = @ \cup Range(words)]
           fresh(n) == /\ found /\ words[n] \notin ref.tags
                       /\ \A m \in 1..(n - 1) : words[m] # words[n]
           request(n) == [op |-> "addTag", tag |-> words[n],
                          on |-> IF fresh(n) THEN {r} ELSE {}]
           requests == [n \in DOMAIN words |-> request(n)]
<1>1. /\ toGui # <<>> /\ toGui' = Tail(toGui) /\ Head(toGui).sig = "writeComplete"
      /\ UNCHANGED <<doomed, todo, rendering, work, committed>>
      /\ refs' = IF found THEN WithRef(r, tagged) ELSE refs
      /\ PostAll(requests)
  BY DEF ImageReady
<1>2. 1 \in Announced /\ toGui[1].id = id
  BY <1>1, SignalTaken DEF Announced
<1>3. Untouched(id, A)
  BY <1>2 DEF Attached, Announcing
<1>4. found /\ TagsById(committed, id) = {} /\ id \in Ids /\ committed.image[id].deleted = FALSE
  <2>1. id \in HasImage(committed) /\ TagsById(committed, id) = {} /\ ~committed.image[id].deleted
    BY <1>3 DEF Untouched, Databased
  <2>2. id \in Ids /\ committed.image[id] \in ImageRows
    BY <2>1, Typed, DatabaseParts DEF HasImage
  <2>3. committed.image[id].deleted \in BOOLEAN
    BY <2>2 DEF ImageRows
  <2>4. QED
    BY <2>1, <2>2, <2>3 DEF HasImage
<1>5. /\ tagged.id = id /\ tagged.tags = Range(words) /\ tagged.deleted = FALSE
      /\ tagged.format = committed.image[id].format /\ ref.tags = {}
  BY <1>4 DEF RefOf
<1>6. r \notin DOMAIN refs
  BY NewRefIsNew, Zenon
<1>7. /\ DOMAIN refs' = DOMAIN refs \cup {r} /\ refs'[r] = tagged
      /\ \A s \in DOMAIN refs : refs'[s] = refs[s]
  <2> HIDE DEF tagged, found
  <2>1. QED
    BY <1>1, <1>4, <1>6 DEF WithRef
<1>8. /\ Len(words) \in Nat /\ DOMAIN words = 1..Len(words)
      /\ Len(queue) \in Nat /\ DOMAIN queue = 1..Len(queue) /\ queue \in Seq(Requests)
  BY Typed, QueueDomain
<1>9. ASSUME NEW n \in DOMAIN words
      PROVE  /\ request(n).op = "addTag" /\ request(n).tag = words[n]
             /\ request(n).on = IF \A m \in 1..(n - 1) : words[m] # words[n] THEN {r} ELSE {}
  BY <1>4, <1>5
<1> HIDE DEF request, r, id
<1>10. /\ DOMAIN requests = 1..Len(words) /\ Len(requests) = Len(words)
       /\ \A n \in 1..Len(words) : requests[n] = request(n)
       /\ requests \in Seq({request(n) : n \in DOMAIN words})
  BY <1>8
<1> HIDE DEF requests
<1>11. /\ queue' = queue \o requests
       /\ Len(queue') = Len(queue) + Len(words)
       /\ \A n \in 1..Len(queue) : queue'[n] = queue[n]
       /\ \A n \in 1..Len(words) : queue'[Len(queue) + n] = requests[n]
  <2>1. queue' = queue \o requests
    BY <1>1 DEF PostAll
  <2>2. PICK R : queue \in Seq(R) /\ requests \in Seq(R)
    <3>1. /\ queue \in Seq(Requests \cup {request(n) : n \in DOMAIN words})
          /\ requests \in Seq(Requests \cup {request(n) : n \in DOMAIN words})
      BY <1>8, <1>10
    <3>2. QED
      BY <3>1
  <2>3. /\ Len(queue \o requests) = Len(queue) + Len(requests)
        /\ \A n \in 1..Len(queue) : (queue \o requests)[n] = queue[n]
        /\ \A n \in 1..Len(requests) : (queue \o requests)[Len(queue) + n] = requests[n]
    BY <2>2, Concatenation
  <2>4. QED
    BY <2>1, <2>3, <1>10, Zenon
<1>12. Grown
  BY <1>8, <1>11 DEF Grown
<1>13. ASSUME NEW n \in 1..Len(words)
       PROVE
         /\ queue'[Len(queue) + n].op = "addTag"
         /\ queue'[Len(queue) + n].tag = words[n]
         /\ queue'[Len(queue) + n].on =
              IF \A m \in 1..(n - 1) : words[m] # words[n] THEN {r} ELSE {}
  <2>1. n \in DOMAIN words /\ queue'[Len(queue) + n] = request(n)
    BY <1>8, <1>10, <1>11
  <2>2. QED
    BY <1>9, <2>1
<1>14. Shows(id, r, words)
  BY <1>1, <1>2, <1>5, <1>6, <1>7, <1>11, <1>12, <1>13 DEF Shows
<1>15. QED
  BY <1>3, <1>14 DEF r

\* Its words make up the tags that the new ref is shown with.
LEMMA NewRefKept ==
  ASSUME IInv, IInv', NEW A \in SUBSET DOMAIN refs, Attached(A),
         NEW words \in Seq(Tags), NEW id, NEW r, Shows(id, r, words), Untouched(id, A)
  PROVE  Kept(r)'
<1>1. /\ r \notin DOMAIN refs /\ UNCHANGED work
      /\ refs'[r].id = id /\ refs'[r].tags = Range(words) /\ refs'[r].deleted = FALSE
      /\ Grown /\ Len(queue') = Len(queue) + Len(words)
      /\ \A n \in 1..Len(words) :
           /\ queue'[Len(queue) + n].op = "addTag" /\ queue'[Len(queue) + n].tag = words[n]
           /\ queue'[Len(queue) + n].on =
                IF \A m \in 1..(n - 1) : words[m] # words[n] THEN {r} ELSE {}
  BY DEF Shows
<1>2. /\ Len(words) \in Nat /\ DOMAIN words = 1..Len(words)
      /\ Len(queue) \in Nat /\ DOMAIN queue = 1..Len(queue)
      /\ DOMAIN queue' = 1..(Len(queue) + Len(words)) /\ IsQueue /\ IsQueue'
  <2>1. IsQueue /\ IsQueue'
    BY Typed DEF IInv, TypeOK, IsQueue
  <2>2. QED
    BY <1>1, <2>1, QueueDomain DEF IsQueue
<1>3. ASSUME NEW n \in DOMAIN queue', r \in Named(queue'[n])
      PROVE  n - Len(queue) \in 1..Len(words)
  <2>1. SUFFICES ASSUME n \in 1..Len(queue) PROVE FALSE
    BY <1>1, <1>2
  <2>2. queue'[n] = queue[n] /\ n \in DOMAIN queue
    BY <1>1, <1>2, <2>1 DEF Grown
  <2>3. QED
    BY <1>1, <1>3, <2>2 DEF Attached, Standing
<1>4. MarkRequests(r)' = {}
  <2>1. ASSUME NEW n \in DOMAIN queue', MarksRef(queue'[n], r)
        PROVE  FALSE
    <3>1. n - Len(queue) \in 1..Len(words)
      BY <1>3, <2>1, NamedParts
    <3>2. Len(queue) + (n - Len(queue)) = n
      BY <1>1, <1>2
    <3>3. queue'[n].op = "addTag"
      BY <1>1, <3>1, <3>2
    <3>4. QED
      BY <2>1, <3>3 DEF MarksRef
  <2>2. QED
    BY <2>1 DEF MarkRequests, MarksRef
<1>5. work'.image[refs'[r].id].deleted = FALSE
  <2>1. id \in HasImage(work) /\ ~work.image[id].deleted
    BY DEF Untouched
  <2>2. work.image[id] \in ImageRows
    BY <2>1, Typed, DatabaseParts DEF HasImage
  <2>3. QED
    BY <1>1, <2>1, <2>2 DEF ImageRows
<1>6. ASSUME NEW p
      PROVE  WillBeMarked(r, p, FALSE)'
  BY <1>4, <1>5 DEF WillBeMarked, Decided
<1>7. WillBeMarked(r, Len(queue) + 1, refs[r].deleted)'
  <2>1. ASSUME NEW p, NEW v, v = FALSE
        PROVE  WillBeMarked(r, p, v)'
    BY <1>6, <2>1
  <2>2. QED
    BY <1>1, <2>1
<1>8. ASSUME NEW t \in PlainTags
      PROVE  WillBeTagged(r, t, ShownTag(r, t))'
  <2>. t \in Tags
    BY DEF PlainTags
  <2> DEFINE K == {n \in 1..Len(words) : words[n] = t}
  <2>1. ASSUME NEW n \in DOMAIN queue', TagsRef(queue'[n], r, t)
        PROVE  /\ n - Len(queue) \in K
               /\ \A m \in 1..((n - Len(queue)) - 1) : m \notin K
    <3> DEFINE k == n - Len(queue)
    <3>1. k \in 1..Len(words) /\ Len(queue) + k = n
      BY <1>1, <1>2, <1>3, <2>1, NamedParts
    <3>2. /\ words[k] = t /\ \A m \in 1..(k - 1) : words[m] # words[k]
      BY <1>1, <2>1, <3>1 DEF TagsRef
    <3> HIDE DEF k
    <3>3. k \in K /\ \A m \in 1..(k - 1) : m \notin K
      BY <3>1, <3>2
    <3>4. QED
      BY <3>3 DEF k
  <2>2. CASE K = {}
    <3>1. ShownTag(r, t)' = "removeTag"
      BY <1>1, <1>2, <2>2 DEF ShownTag, Range
    <3>2. TagRequests(r, t)' = {}
      BY <2>1, <2>2 DEF TagRequests, TagsRef
    <3>3. TagState(refs[r].id, t, work.tag)' = "removeTag"
      BY <1>1 DEF TagState, Untouched, TagsById
    <3>4. QED
      BY <3>1, <3>2, <3>3 DEF WillBeTagged, Decided
  <2>3. CASE K # {}
    <3>1. PICK k \in K : \A m \in K : k <= m
      <4>1. K \in SUBSET Nat
        BY <1>1, <1>2
      <4> HIDE DEF K
      <4>2. QED
        BY <2>3, <4>1, LeastExists
    <3>2. k \in 1..Len(words) /\ words[k] = t /\ \A m \in 1..(k - 1) : words[m] # t
      BY <1>1, <1>2, <3>1
    <3>3. Len(queue) + k \in DOMAIN queue' /\ TagsRef(queue'[Len(queue) + k], r, t)
      BY <1>1, <1>2, <3>2 DEF TagsRef
    <3>4. ASSUME NEW m \in DOMAIN queue', m > Len(queue) + k
          PROVE  ~TagsRef(queue'[m], r, t)
      <4>1. k \in 1..((m - Len(queue)) - 1)
        BY <1>1, <1>2, <3>2, <3>4
      <4>2. QED
        BY <2>1, <3>1, <4>1
    <3>5. ASSUME NEW v, v = ShownTag(r, t)'
          PROVE  v = "addTag"
      BY <1>1, <1>2, <3>2, <3>5 DEF ShownTag, Range
    <3>6. ASSUME NEW v, v = ShownTag(r, t)', NEW n, n = Len(queue) + k
          PROVE  WillBeTagged(r, t, v)'
      <4>1. n \in DOMAIN queue' /\ TagsRef(queue'[n], r, t) /\ queue'[n].op = v
        BY <1>1, <3>2, <3>3, <3>5, <3>6
      <4>2. \A m \in DOMAIN queue' : m > n => ~TagsRef(queue'[m], r, t)
        BY <3>4, <3>6
      <4>3. QED
        BY <1>1, <1>2, <4>1, <4>2, TaggedNow
    <3>7. QED
      BY <3>6
  <2>4. QED
    BY <2>2, <2>3
<1>9. QED
  BY <1>6, <1>7, <1>8 DEF Kept

LEMMA ImageReadyAttached ==
  ASSUME IInv, IInv', NEW A \in SUBSET DOMAIN refs, Attached(A), Databased,
         NEW k \in Nat, DOMAIN refs \subseteq 1..k,
         NEW words \in Seq(Tags), ImageReady(words),
         NEW r, r = NewRef
  PROVE  Attached(A \cup {r})' /\ DOMAIN refs' = DOMAIN refs \cup {r}
<1> DEFINE B == A \cup {r}
<1>1. PICK id : Shows(id, r, words) /\ Untouched(id, A)
  BY ImageReadyShows
<1>2. /\ toGui # <<>> /\ toGui' = Tail(toGui) /\ Head(toGui).sig = "writeComplete"
      /\ 1 \in Announced /\ toGui[1].id = id
      /\ UNCHANGED <<doomed, todo, rendering, work, committed>>
      /\ r \notin DOMAIN refs /\ DOMAIN refs' = DOMAIN refs \cup {r}
      /\ \A s \in DOMAIN refs : refs'[s] = refs[s]
      /\ refs'[r].id = id /\ refs'[r].format = committed.image[id].format
      /\ Grown /\ Len(queue') = Len(queue) + Len(words)
  BY <1>1 DEF Shows
<1>3. Kept(r)'
  BY <1>1, NewRefKept
<1>4. /\ IsQueue /\ IsQueue' /\ Len(queue) \in Nat /\ DOMAIN queue = 1..Len(queue)
      /\ Len(words) \in Nat /\ DOMAIN queue' = 1..(Len(queue) + Len(words))
  <2>1. IsQueue /\ IsQueue'
    BY Typed DEF IInv, TypeOK, IsQueue
  <2>2. QED
    BY <2>1, <1>2, QueueDomain DEF IsQueue
<1>5. ASSUME NEW n \in DOMAIN queue', n > Len(queue)
      PROVE  Named(queue'[n]) \subseteq {r} /\ queue'[n].op = "addTag"
  <2> DEFINE m == n - Len(queue)
  <2>1. m \in 1..Len(words) /\ Len(queue) + m = n
    BY <1>4, <1>5
  <2> HIDE DEF m
  <2>2. queue'[n].op = "addTag" /\ queue'[n].on \subseteq {r}
    BY <1>1, <1>2, <2>1 DEF Shows
  <2>3. QED
    BY <2>2 DEF Named
<1>6. /\ Live' = Live \cup {r} /\ A \subseteq DOMAIN refs /\ Live \subseteq DOMAIN refs
      /\ r \notin A /\ r \notin doomed
  BY <1>1, <1>2, Typed DEF Live
<1>7. ASSUME NEW s \in DOMAIN refs
      PROVE  RowKept(s) /\ NotNamed(s)
  BY <1>1, <1>2, <1>5, <1>7, SameRows DEF NotNamed
<1>8. ASSUME NEW s \in Live
      PROVE  Kept(s)'
  <2>1. \A n \in Purges' : ~(n > Len(queue))
    BY <1>5 DEF Purges
  <2>2. QED
    BY <1>2, <1>4, <1>6, <1>7, <2>1, KeptGrows DEF Attached
<1>9. \A s \in B \cap doomed' : Condemned(s)'
  BY <1>2, <1>4, <1>6, <1>7, CondemnedGrows DEF Attached
<1>10. Standing(B)'
  <2>1. \A n \in DOMAIN queue' : Named(queue'[n]) \subseteq B
    <3>1. TAKE n \in DOMAIN queue'
    <3>2. CASE n > Len(queue)
      BY <1>5, <3>2
    <3>3. CASE ~(n > Len(queue))
      <4>1. n \in 1..Len(queue) /\ n \in DOMAIN queue
        BY <1>4, <3>3
      <4>2. QED
        BY <1>2, <4>1 DEF Attached, Standing, Grown
    <3>4. QED
      BY <3>2, <3>3
  <2>2. ASSUME NEW s \in B, NEW u \in B, refs'[s].id = refs'[u].id
        PROVE  s = u
    <3>1. /\ \A x \in A : refs'[x].id = refs[x].id /\ refs[x].id # id
          /\ \A x, y \in A : refs[x].id = refs[y].id => x = y
      BY <1>1, <1>2, <1>6 DEF Attached, Standing, Untouched
    <3>2. refs'[r].id = id
      BY <1>2
    <3>3. QED
      BY <2>2, <3>1, <3>2
  <2>3. \A s \in B : refs'[s].id \in HasImage(work)
    BY <1>1, <1>2, <1>6 DEF Attached, Standing, Untouched
  <2>4. Live' \subseteq B /\ todo' \subseteq B /\ rendering' \subseteq B
    BY <1>2, <1>6 DEF Attached, Standing
  <2>5. HasImage(work)' = HasImage(work)
    BY <1>2 DEF HasImage
  <2>6. QED
    BY <2>1, <2>2, <2>3, <2>4, <2>5 DEF Standing
<1>11. Announcing(B)'
  <2>1. \A n \in Announced' : /\ n + 1 \in Announced /\ toGui'[n] = toGui[n + 1]
                              /\ n \in Nat /\ n + 1 # 1
    BY <1>1, <1>2, SignalTaken, Typed DEF Announced, IInv, TypeOK
  <2>2. ASSUME NEW n \in Announced', NEW i, i = toGui'[n].id
        PROVE  Untouched(i, B)'
    <3>1. Untouched(i, A)
      BY <2>1, <2>2 DEF Attached, Announcing
    <3>2. i # id
      <4>1. \A m \in Announced : toGui[m].id = toGui[1].id => m = 1
        BY <1>2 DEF Attached, Announcing
      <4>2. n + 1 \in Announced /\ toGui[n + 1].id = i /\ n + 1 # 1
        BY <2>1, <2>2
      <4>3. toGui[1].id = id
        BY <1>2
      <4>4. QED
        BY <4>1, <4>2, <4>3
    <3>3. QED
      BY <1>2, <1>6, <3>1, <3>2 DEF Untouched, HasImage, TagsById
  <2>3. ASSUME NEW m \in Announced', NEW n \in Announced', toGui'[m].id = toGui'[n].id
        PROVE  m = n
    <3>1. m + 1 = n + 1
      BY <2>1, <2>3 DEF Attached, Announcing
    <3>2. QED
      BY <2>1, <3>1
  <2>4. \A n \in Announced' : Untouched(toGui[n].id, B)'
    BY <2>2
  <2>5. QED
    BY <2>3, <2>4 DEF Announcing
<1>12. \A s \in B : FormatShown(s)'
  <2>1. TAKE s \in B
  <2>2. CASE s = r
    <3>1. /\ id \in Ids /\ work.store[id] = committed.store[id] /\ id \in HasImage(committed)
      BY <1>1, <1>2 DEF Untouched, Databased, HasImage
    <3>2. id \in Stored(committed)
      BY <3>1, Typed DEF Agree
    <3>3. IsJpeg(work.store[id]) => committed.image[id].format = "jpeg"
      BY <3>1, <3>2 DEF Databased, FormatKnown
    <3>4. QED
      BY <1>1, <1>2, <2>2, <3>3 DEF FormatShown
  <2>3. CASE s \in A
    <3>1. [sig |-> "updateImageData", ref |-> s] # toGui[1]
      BY <1>1, <1>2, SignalTaken
    <3>2. QED
      BY <1>1, <1>2, <1>6, <2>3, <3>1, SignalTaken DEF FormatShown, Attached
  <2>4. QED
    BY <2>2, <2>3
<1>13. QED
  BY <1>1, <1>2, <1>3, <1>6, <1>8, <1>9, <1>10, <1>11, <1>12 DEF Attached
--------------------------------------------------------------------------------
(* What the SQL statements do to single rows. *)

LEMMA TagEffects ==
  ASSUME NEW d \in Databases, NEW ids, NEW t
  PROVE  /\ InsertTag(d, ids, t).store = d.store /\ InsertTag(d, ids, t).image = d.image
         /\ InsertTag(d, ids, t).tag = d.tag \cup (ids \X {t})
         /\ DeleteTag(d, ids, t).store = d.store /\ DeleteTag(d, ids, t).image = d.image
         /\ DeleteTag(d, ids, t).tag = d.tag \ (ids \X {t})
  BY DEF InsertTag, DeleteTag, Databases

LEMMA SetDeletedEffect ==
  ASSUME NEW d \in Databases, NEW ids, NEW v \in BOOLEAN, NEW e, e = SetDeleted(d, ids, v)
  PROVE  /\ e.store = d.store /\ e.tag = d.tag /\ HasImage(e) = HasImage(d)
         /\ \A i \in HasImage(d) : /\ e.image[i].format = d.image[i].format
                                   /\ e.image[i].deleted = IF i \in ids THEN v
                                                           ELSE d.image[i].deleted
<1> DEFINE marked(i) == [d.image[i] EXCEPT !.deleted = v]
<1>1. /\ e.store = d.store /\ e.tag = d.tag
      /\ e.image = [i \in Ids |-> IF i \in ids /\ d.image[i] # NoRow THEN marked(i)
                                  ELSE d.image[i]]
  BY DEF SetDeleted, Databases
<1>2. ASSUME NEW i \in HasImage(d)
      PROVE  /\ d.image[i] # NoRow /\ marked(i) # NoRow
             /\ marked(i).deleted = v /\ marked(i).format = d.image[i].format
  <2>1. d.image[i] \in ImageRows /\ d.image[i] # NoRow
    BY DatabaseParts DEF HasImage
  <2>2. /\ marked(i) \in ImageRows
        /\ marked(i).deleted = v /\ marked(i).format = d.image[i].format
    BY <2>1 DEF ImageRows
  <2>3. QED
    BY <2>1, <2>2, NoImageRowAssumption
<1> HIDE DEF marked
<1>3. QED
  BY <1>1, <1>2 DEF HasImage

LEMMA FixMetaEffect ==
  ASSUME NEW d \in Databases, NEW e, e = FixMetaData(d)
  PROVE  /\ e.store = d.store /\ e.tag = d.tag /\ HasImage(e) = HasImage(d)
         /\ \A i \in HasImage(d) :
              /\ e.image[i].deleted = d.image[i].deleted
              /\ d.store[i] \in Decodable => e.image[i].format = HeaderFormat[d.store[i]]
<1> DEFINE fixed(i) == IF d.store[i] = NoRow THEN d.image[i].format
                       ELSE MetaFormat(d.store[i], d.image[i].format)
           row(i) == [d.image[i] EXCEPT !.format = fixed(i)]
<1>1. /\ e.store = d.store /\ e.tag = d.tag
      /\ e.image = [i \in Ids |-> IF d.image[i] # NoRow THEN row(i) ELSE d.image[i]]
  BY DEF FixMetaData, WithFormat, Databases
<1>2. ASSUME NEW i \in HasImage(d)
      PROVE  /\ d.image[i] # NoRow /\ row(i) # NoRow /\ row(i).deleted = d.image[i].deleted
             /\ d.store[i] \in Decodable => row(i).format = HeaderFormat[d.store[i]]
  <2>1. /\ d.image[i] \in ImageRows /\ d.image[i] # NoRow /\ i \in Ids
        /\ d.store[i] \in Contents \cup {NoRow}
    BY DatabaseParts DEF HasImage
  <2>2. fixed(i) \in Formats
    BY <2>1, MetaFormatType DEF ImageRows
  <2>3. d.store[i] \in Decodable => fixed(i) = HeaderFormat[d.store[i]]
    BY FileAssumption, RowAssumption DEF MetaFormat
  <2> HIDE DEF fixed
  <2>4. /\ row(i) \in ImageRows /\ row(i).deleted = d.image[i].deleted
        /\ row(i).format = fixed(i)
    BY <2>1, <2>2 DEF ImageRows
  <2>5. QED
    BY <2>1, <2>3, <2>4, NoImageRowAssumption
<1> HIDE DEF row
<1>3. QED
  BY <1>1, <1>2 DEF HasImage

\* The rows writeImage inserts, and those it leaves as they are.
LEMMA InsertImageStores ==
  ASSUME NEW d \in Databases, NEW id \in Ids, NEW c \in Contents,
         NEW e, e = InsertImage(d, id, c)
  PROVE  /\ e.tag = d.tag /\ e.store[id] = c
         /\ \A i \in Ids \ {id} : e.store[i] = d.store[i]
  BY DatabaseParts DEF InsertImage

LEMMA InsertImageLists ==
  ASSUME NEW d \in Databases, NEW id \in Ids, NEW c \in Contents,
         NEW e, e = InsertImage(d, id, c)
  PROVE  /\ HasImage(e) = HasImage(d) \cup {id}
         /\ e.image[id] \in ImageRows
         /\ \A i \in Ids \ {id} : e.image[i] = d.image[i]
<1> DEFINE row == [format |-> MetaFormat(c, "none"), deleted |-> FALSE]
<1>1. row \in ImageRows
  BY MetaFormatType DEF ImageRows, Formats
<1>2. row # NoRow /\ row.deleted = FALSE /\ row.format = MetaFormat(c, "none")
  BY <1>1, NoImageRowAssumption
<1>3. /\ e.store = [d.store EXCEPT ![id] = c] /\ e.image = [d.image EXCEPT ![id] = row]
      /\ e.tag = d.tag
  BY DEF InsertImage, Databases
<1> HIDE DEF row
<1>4. QED
  BY <1>1, <1>2, <1>3, DatabaseParts DEF HasImage

LEMMA InsertImageRow ==
  ASSUME NEW d \in Databases, NEW id \in Ids, NEW c \in Contents,
         NEW e, e = InsertImage(d, id, c)
  PROVE  e.image[id].deleted = FALSE /\ e.image[id].format = MetaFormat(c, "none")
<1> DEFINE row == [format |-> MetaFormat(c, "none"), deleted |-> FALSE]
<1>1. row \in ImageRows
  BY MetaFormatType DEF ImageRows, Formats
<1>2. row # NoRow /\ row.deleted = FALSE /\ row.format = MetaFormat(c, "none")
  BY <1>1, NoImageRowAssumption
<1>3. /\ e.store = [d.store EXCEPT ![id] = c] /\ e.image = [d.image EXCEPT ![id] = row]
      /\ e.tag = d.tag
  BY DEF InsertImage, Databases
<1> HIDE DEF row
<1>4. QED
  BY <1>2, <1>3, DatabaseParts

LEMMA PurgeEffect ==
  ASSUME NEW d \in Databases, NEW e, e = PurgeDeleted(d)
  PROVE  /\ HasImage(e) = HasImage(d) \ Marked(d)
         /\ \A i \in HasImage(e) : e.image[i] = d.image[i] /\ e.store[i] = d.store[i]
         /\ e.tag = {row \in d.tag : row[1] \notin Marked(d)}
<1>1. /\ e.image = [i \in Ids |-> IF i \in Marked(d) THEN NoRow ELSE d.image[i]]
      /\ e.store = [i \in Ids |-> IF i \in Marked(d) THEN NoRow ELSE d.store[i]]
      /\ e.tag = {row \in d.tag : row[1] \notin Marked(d)}
  BY DEF PurgeDeleted, Databases
<1>2. QED
  BY <1>1 DEF HasImage

LEMMA RecompressEffect ==
  ASSUME NEW d \in Databases, NEW id \in Stored(d), Agree(d), NEW e, e = Recompress(d, id)
  PROVE  /\ e.tag = d.tag /\ HasImage(e) = HasImage(d)
         /\ e.store[id] \in {d.store[id], JpegOf[d.store[id]]}
         /\ e.image[id].format = "jpeg" /\ e.image[id].deleted = d.image[id].deleted
         /\ \A i \in Ids \ {id} : e.store[i] = d.store[i] /\ e.image[i] = d.image[i]
<1> DEFINE row == [d.image[id] EXCEPT !.format = "jpeg"]
<1>1. id \in Ids /\ d.image[id] \in ImageRows /\ d.image[id] # NoRow
  BY DatabaseParts DEF Stored, HasImage, Agree
<1>2. row \in ImageRows /\ row.format = "jpeg" /\ row.deleted = d.image[id].deleted
  BY <1>1 DEF ImageRows, Formats
<1>3. row # NoRow
  BY <1>2, NoImageRowAssumption
<1>4. e.image = [i \in Ids |-> IF i \in {id} /\ d.image[i] # NoRow
                               THEN [d.image[i] EXCEPT !.format = "jpeg"] ELSE d.image[i]]
  BY DEF Recompress, WithFormat, Databases
<1>5. \A i \in Ids : e.image[i] = IF i = id THEN row ELSE d.image[i]
  BY <1>1, <1>4
<1> DEFINE file == IF \E i \in Ids \ {id} : d.store[i] = JpegOf[d.store[id]]
                   THEN d.store[id] ELSE JpegOf[d.store[id]]
<1>6. e.store = [d.store EXCEPT ![id] = file] /\ e.tag = d.tag
  BY DEF Recompress, Databases
<1>7. file \in {d.store[id], JpegOf[d.store[id]]}
  OBVIOUS
<1> HIDE DEF row, file
<1>8. /\ e.store[id] = file /\ \A i \in Ids \ {id} : e.store[i] = d.store[i]
  BY <1>1, <1>6, DatabaseParts
<1>9. QED
  BY <1>1, <1>2, <1>3, <1>5, <1>6, <1>7, <1>8 DEF HasImage
--------------------------------------------------------------------------------
(* The write thread handles its oldest request. *)

LEMMA TakenQueue ==
  ASSUME IInv, IInv', NEW op, Take(op)
  PROVE  /\ IsQueue /\ IsQueue' /\ Shifted /\ queue[1] = Head(queue) /\ queue[1].op = op
         /\ 1 \in DOMAIN queue /\ queue[1] \in Requests
         /\ \A n \in DOMAIN queue' : n + 1 \in DOMAIN queue /\ queue'[n] = queue[n + 1]
<1>1. queue \in Seq(Requests) /\ queue # <<>> /\ queue' = Tail(queue) /\ Head(queue).op = op
  BY Typed DEF Take
<1>2. IsQueue /\ IsQueue' /\ Shifted
  BY <1>1, Typed, TakeShifts DEF IInv, TypeOK, IsQueue
<1>3. QED
  BY <1>1, <1>2

\* Of the refs whose rows are there, a row is named by its ref alone.
LEMMA NamedById ==
  ASSUME NEW A, Standing(A), NEW on \in SUBSET A, NEW r \in A
  PROVE  refs[r].id \in IdsOf(on) <=> r \in on
  BY DEF Standing, IdsOf

LEMMA HandledRefs ==
  ASSUME IInv, IInv', NEW A \in SUBSET DOMAIN refs, Attached(A), NEW op, Take(op),
         UNCHANGED <<refs, doomed>>, op # "purgeDeletedImages",
         \A r \in A : RowHandled(r)
  PROVE  /\ \A r \in Live : Kept(r)'
         /\ \A r \in A \cap doomed : Condemned(r)'
         /\ \A n \in DOMAIN queue' : Named(queue'[n]) \subseteq A
         /\ Named(queue[1]) \subseteq A
<1>1. /\ IsQueue /\ IsQueue' /\ Shifted /\ queue[1].op = op /\ 1 \in DOMAIN queue
      /\ \A n \in DOMAIN queue' : n + 1 \in DOMAIN queue /\ queue'[n] = queue[n + 1]
  BY TakenQueue
<1>2. \A r \in Live : r \in A /\ Kept(r)
  BY DEF Attached, Standing
<1>3. \A r \in Live : Kept(r)'
  BY <1>1, <1>2, KeptShifts
<1>4. \A r \in A \cap doomed : Condemned(r)'
  BY <1>1, CondemnedShifts DEF Attached
<1>5. /\ \A n \in DOMAIN queue' : Named(queue'[n]) \subseteq A
      /\ Named(queue[1]) \subseteq A
  BY <1>1 DEF Attached, Standing
<1>6. QED
  BY <1>3, <1>4, <1>5

\* A request that changes neither files nor which images there are.
LEMMA HandledAttached ==
  ASSUME IInv, IInv', NEW A \in SUBSET DOMAIN refs, Attached(A), NEW op, Take(op),
         UNCHANGED <<refs, doomed, committed, toGui>>, op # "purgeDeletedImages",
         \A r \in A : RowHandled(r),
         todo' \subseteq A, rendering' \subseteq A,
         HasImage(work)' = HasImage(work), work'.store = work.store,
         \A i : Untouched(i, A) => Untouched(i, A)'
  PROVE  Attached(A)'
<1>1. /\ \A r \in Live : Kept(r)'
      /\ \A r \in A \cap doomed : Condemned(r)'
      /\ \A n \in DOMAIN queue' : Named(queue'[n]) \subseteq A
  BY HandledRefs
<1>2. Standing(A)'
  BY <1>1 DEF Attached, Standing, Live
<1>3. Announcing(A)'
  <2>1. Announced' = Announced
    BY DEF Announced
  <2>2. QED
    BY <2>1 DEF Attached, Announcing
<1>4. \A r \in A : FormatShown(r)'
  BY DEF Attached, FormatShown
<1>5. QED
  BY <1>1, <1>2, <1>3, <1>4 DEF Attached, Live

LEMMA HandleTagsAttached ==
  ASSUME IInv, IInv', NEW A \in SUBSET DOMAIN refs, Attached(A), Databased,
         HandleAddTag \/ HandleRemoveTag
  PROVE  Attached(A)' /\ Databased'
<1> DEFINE on == Head(queue).on
           t == Head(queue).tag
<1>1. work \in Databases
  BY Typed
<1>2. PICK op \in {"addTag", "removeTag"} :
        /\ Take(op) /\ UNCHANGED <<writerRest, todo, rendering, committed, toGui>>
        /\ work'.store = work.store /\ work'.image = work.image
        /\ op = "addTag" => work'.tag = work.tag \cup (IdsOf(on) \X {t})
        /\ op = "removeTag" => work'.tag = work.tag \ (IdsOf(on) \X {t})
  BY <1>1, TagEffects DEF HandleAddTag, HandleRemoveTag, Batched
<1>3. /\ queue[1] = Head(queue) /\ queue[1].op = op /\ 1 \in DOMAIN queue
  BY <1>2, TakenQueue
<1>4. Named(queue[1]) = on /\ Standing(A) /\ on \subseteq A
  <2>1. Named(queue[1]) = on
    BY <1>3 DEF Named, Naming
  <2>2. QED
    BY <1>3, <2>1 DEF Attached, Standing
<1>5. \A r \in A : refs[r].id \in IdsOf(on) <=> r \in on
  BY <1>4, NamedById
<1>6. /\ \A i, u : i \notin IdsOf(on) => (<<i, u>> \in work'.tag <=> <<i, u>> \in work.tag)
      /\ \A i, u : i \in IdsOf(on) =>
           (<<i, u>> \in work'.tag <=> IF u = t THEN op = "addTag" ELSE <<i, u>> \in work.tag)
  BY <1>2
<1>7. ASSUME NEW r \in A
      PROVE  RowHandled(r)
  <2>1. \A u : TagsRef(queue[1], r, u) <=> r \in on /\ u = t
    BY <1>3 DEF TagsRef
  <2>2. ~MarksRef(queue[1], r)
    BY <1>3 DEF MarksRef
  <2>3. refs' = refs
    BY <1>2 DEF writerRest
  <2> HIDE DEF on, t
  <2>4. ASSUME NEW u \in Tags
        PROVE  TagState(refs[r].id, u, work.tag)' =
                 IF TagsRef(queue[1], r, u) THEN queue[1].op
                 ELSE TagState(refs[r].id, u, work.tag)
    <3>1. <<refs[r].id, u>> \in work'.tag <=>
            IF r \in on /\ u = t THEN op = "addTag" ELSE <<refs[r].id, u>> \in work.tag
      BY <1>5, <1>6
    <3>2. QED
      BY <1>3, <2>1, <2>3, <3>1 DEF TagState
  <2>5. QED
    BY <1>2, <2>2, <2>3, <2>4 DEF RowHandled
<1>8. IdsOf(on) \subseteq HasImage(work)
  BY <1>4 DEF Standing, IdsOf
<1>9. \A i : Untouched(i, A) => Untouched(i, A)'
  <2>1. TAKE i
  <2>2. SUFFICES ASSUME Untouched(i, A) PROVE Untouched(i, A)'
    OBVIOUS
  <2>3. i \notin IdsOf(on)
    BY <1>4, <2>2 DEF Untouched, IdsOf
  <2>4. TagsById(work, i)' = TagsById(work, i)
    BY <1>6, <2>3 DEF TagsById
  <2>5. QED
    BY <1>2, <2>2, <2>4 DEF Untouched, HasImage, TagsById, writerRest
<1>10. HasImage(work)' = HasImage(work)
  BY <1>2 DEF HasImage
<1>11. Attached(A)'
  BY <1>2, <1>7, <1>9, <1>10, HandledAttached DEF writerRest, Attached, Standing
<1>12. Databased'
  <2>1. TagsBelong(work)'
    <3>1. \A row \in work'.tag : row \in work.tag \/ row[1] \in IdsOf(on)
      BY <1>2
    <3>2. QED
      BY <1>8, <1>10, <3>1 DEF Databased, TagsBelong
  <2>2. QED
    BY <1>2, <1>10, <2>1 DEF Databased, TagsBelong, FormatKnown, HasImage, Stored
<1>13. QED
  BY <1>11, <1>12

LEMMA HandleUpdateDeletedAttached ==
  ASSUME IInv, IInv', NEW A \in SUBSET DOMAIN refs, Attached(A), Databased,
         HandleUpdateDeleted
  PROVE  Attached(A)' /\ Databased'
<1> DEFINE on == Head(queue).on
           v == Head(queue).deleted
<1>1. /\ Take("updateDeleted") /\ UNCHANGED <<writerRest, todo, rendering, committed, toGui>>
      /\ work' = SetDeleted(work, IdsOf(on), v)
  BY DEF HandleUpdateDeleted, Batched
<1>2. /\ queue[1] = Head(queue) /\ queue[1].op = "updateDeleted" /\ 1 \in DOMAIN queue
      /\ queue[1] \in Requests /\ v \in BOOLEAN /\ work \in Databases
  BY <1>1, TakenQueue, RequestCases, Typed
<1>3. /\ work'.store = work.store /\ work'.tag = work.tag
      /\ HasImage(work') = HasImage(work)
      /\ \A i \in HasImage(work) : /\ work'.image[i].format = work.image[i].format
                                   /\ work'.image[i].deleted = IF i \in IdsOf(on) THEN v
                                                               ELSE work.image[i].deleted
  BY <1>1, <1>2, SetDeletedEffect
<1>4. Named(queue[1]) = on /\ Standing(A) /\ on \subseteq A
  <2>1. Named(queue[1]) = on
    BY <1>2 DEF Named, Naming
  <2>2. QED
    BY <1>2, <2>1 DEF Attached, Standing
<1>5. \A r \in A : refs[r].id \in IdsOf(on) <=> r \in on
  BY <1>4, NamedById
<1>6. ASSUME NEW r \in A
      PROVE  RowHandled(r)
  <2>1. \A u : ~TagsRef(queue[1], r, u)
    BY <1>2 DEF TagsRef
  <2>2. MarksRef(queue[1], r) <=> r \in on
    BY <1>2 DEF MarksRef
  <2>3. refs[r].id \in HasImage(work)
    BY <1>4 DEF Standing
  <2>4. QED
    BY <1>1, <1>2, <1>3, <1>5, <2>1, <2>2, <2>3 DEF RowHandled, TagState, writerRest
<1>7. \A i : Untouched(i, A) => Untouched(i, A)'
  <2>1. TAKE i
  <2>2. SUFFICES ASSUME Untouched(i, A) PROVE Untouched(i, A)'
    OBVIOUS
  <2>3. i \notin IdsOf(on)
    BY <1>4, <2>2 DEF Untouched, IdsOf
  <2>4. work'.image[i].deleted = work.image[i].deleted /\ i \in HasImage(work')
    BY <1>3, <2>2, <2>3 DEF Untouched
  <2>5. QED
    BY <1>1, <1>3, <2>2, <2>4 DEF Untouched, HasImage, TagsById, writerRest
<1>8. HasImage(work)' = HasImage(work)
  BY <1>3 DEF HasImage
<1>9. Attached(A)'
  BY <1>1, <1>3, <1>6, <1>7, <1>8, HandledAttached DEF writerRest, Attached, Standing
<1>10. Databased'
  <2>1. Stored(work) = HasImage(work)
    BY Typed DEF Agree
  <2>2. FormatKnown(work)'
    BY <1>3, <2>1 DEF Databased, FormatKnown, Stored
  <2>3. QED
    BY <1>1, <1>3, <1>8, <2>2 DEF Databased, TagsBelong, FormatKnown, HasImage, Stored
<1>11. QED
  BY <1>9, <1>10

\* The requests that leave marks and tags alone.
LEMMA StartAttached ==
  ASSUME IInv, IInv', NEW A \in SUBSET DOMAIN refs, Attached(A), Databased,
         HandleFixMeta \/ StartCompress \/ StartRender
  PROVE  Attached(A)' /\ Databased'
<1>1. PICK op \in {"fixImageMetaData", "compressImages", "renderImages"} :
        /\ Take(op) /\ UNCHANGED <<writerRest, committed, toGui>>
        /\ todo' \in {todo, Named(queue[1])} /\ rendering' \in {rendering, Named(queue[1])}
        /\ work' = IF op = "fixImageMetaData" THEN FixMetaData(work) ELSE work
  <2>1. CASE HandleFixMeta
    BY <2>1 DEF HandleFixMeta, Batched
  <2>2. ASSUME NEW op \in {"compressImages", "renderImages"}, Take(op)
        PROVE  Head(queue).on = Named(queue[1])
    <3>1. queue[1] = Head(queue) /\ queue[1].op = op
      BY <2>2, TakenQueue
    <3>2. QED
      BY <3>1 DEF Named, Naming
  <2>3. CASE StartCompress
    BY <2>2, <2>3 DEF StartCompress
  <2>4. CASE StartRender
    BY <2>2, <2>4 DEF StartRender
  <2>5. QED
    BY <2>1, <2>3, <2>4
<1>2. queue[1].op = op /\ 1 \in DOMAIN queue
  BY <1>1, TakenQueue
<1>3. /\ work'.store = work.store /\ work'.tag = work.tag
      /\ HasImage(work') = HasImage(work)
      /\ \A i \in HasImage(work) :
           /\ work'.image[i].deleted = work.image[i].deleted
           /\ \/ work'.image[i].format = work.image[i].format
              \/ /\ work.store[i] \in Decodable
                 /\ work'.image[i].format = HeaderFormat[work.store[i]]
              \/ work.store[i] \notin Decodable
  <2>1. CASE op = "fixImageMetaData"
    BY <1>1, <2>1, FixMetaEffect, Typed
  <2>2. CASE op # "fixImageMetaData"
    BY <1>1, <2>2
  <2>3. QED
    BY <2>1, <2>2
<1>4. ASSUME NEW r \in A
      PROVE  RowHandled(r)
  <2>1. ~MarksRef(queue[1], r) /\ \A u : ~TagsRef(queue[1], r, u)
    BY <1>2 DEF MarksRef, TagsRef
  <2>2. refs[r].id \in HasImage(work)
    BY DEF Attached, Standing
  <2>3. QED
    BY <1>1, <1>3, <2>1, <2>2 DEF RowHandled, TagState, writerRest
<1>5. \A i : Untouched(i, A) => Untouched(i, A)'
  BY <1>1, <1>3 DEF Untouched, HasImage, TagsById, writerRest
<1>6. HasImage(work)' = HasImage(work)
  BY <1>3 DEF HasImage
<1>7. todo' \subseteq A /\ rendering' \subseteq A
  BY <1>1, <1>2 DEF Attached, Standing
<1>8. Attached(A)'
  BY <1>1, <1>3, <1>4, <1>5, <1>6, <1>7, HandledAttached DEF writerRest
<1>9. Databased'
  <2>1. Stored(work) = HasImage(work)
    BY Typed DEF Agree
  <2>2. FormatKnown(work)'
    BY <1>3, <2>1 DEF Databased, FormatKnown, Stored, IsJpeg
  <2>3. QED
    BY <1>1, <1>3, <1>6, <2>2 DEF Databased, TagsBelong, FormatKnown, HasImage, Stored
<1>10. QED
  BY <1>8, <1>9

\* NextId never gives out an id in use; that is what the purge frees ids for.
LEMMA NextIdIsFree ==
  ASSUME NEW d \in Databases
  PROVE  NextId(d) \notin Stored(d)
<1>1. Stored(d) \in SUBSET (0..MaxId) /\ MaxId \in Nat
  BY RowAssumption DEF Stored, Ids
<1>2. CASE Stored(d) = {}
  BY <1>2
<1>3. CASE Stored(d) # {}
  <2>1. Max(Stored(d)) \in Stored(d) /\ \A m \in Stored(d) : m <= Max(Stored(d))
    BY <1>1, <1>3, MaxIs
  <2>2. NextId(d) = Max(Stored(d)) + 1
    BY <1>3 DEF NextId
  <2>3. \A m \in Stored(d) : m \in Nat /\ m # NextId(d)
    BY <1>1, <2>1, <2>2
  <2>4. QED
    BY <2>3
<1>4. QED
  BY <1>2, <1>3

LEMMA SignalSent ==
  ASSUME IInv, NEW signal \in Signals, toGui' = Append(toGui, signal)
  PROVE  /\ Len(toGui) \in Nat /\ DOMAIN toGui = 1..Len(toGui)
         /\ DOMAIN toGui' = DOMAIN toGui \cup {Len(toGui) + 1}
         /\ \A n \in DOMAIN toGui : toGui'[n] = toGui[n] /\ n # Len(toGui) + 1
         /\ toGui'[Len(toGui) + 1] = signal
         /\ signal \in Range(toGui') /\ Range(toGui) \subseteq Range(toGui')
<1>1. /\ Len(toGui) \in Nat /\ DOMAIN toGui = 1..Len(toGui)
      /\ DOMAIN toGui' = DOMAIN toGui \cup {Len(toGui) + 1}
      /\ \A n \in DOMAIN toGui : toGui'[n] = toGui[n] /\ n # Len(toGui) + 1
      /\ toGui'[Len(toGui) + 1] = signal
  BY Typed
<1>2. signal \in Range(toGui')
  BY <1>1 DEF Range
<1>3. Range(toGui) \subseteq Range(toGui')
  BY <1>1 DEF Range
<1>4. QED
  BY <1>1, <1>2, <1>3

LEMMA HandleWriteImageAttached ==
  ASSUME IInv, IInv', NEW A \in SUBSET DOMAIN refs, Attached(A), Databased,
         HandleWriteImage
  PROVE  Attached(A)' /\ Databased'
<1> DEFINE c == Head(queue).data
<1>1. Take("writeImage") /\ UNCHANGED <<writerRest, todo, rendering>>
  BY DEF HandleWriteImage
<1>2. /\ queue[1].op = "writeImage" /\ 1 \in DOMAIN queue /\ c \in Contents
      /\ work \in Databases /\ Stored(work) = HasImage(work)
  BY <1>1, TakenQueue, RequestCases, Typed DEF Agree
<1>3. \A r : ~MarksRef(queue[1], r) /\ \A u : ~TagsRef(queue[1], r, u)
  BY <1>2 DEF MarksRef, TagsRef
<1>4. Standing(A) /\ Announcing(A)
  BY DEF Attached
<1>5. CASE UNCHANGED <<work, committed, toGui>>
  <2>1. \A r \in A : RowHandled(r)
    BY <1>1, <1>3, <1>5 DEF RowHandled, TagState, writerRest
  <2>2. (\A i : Untouched(i, A) => Untouched(i, A)') /\ HasImage(work)' = HasImage(work)
    BY <1>1, <1>5 DEF Untouched, HasImage, TagsById, writerRest
  <2>3. Attached(A)'
    BY <1>1, <1>4, <1>5, <2>1, <2>2, HandledAttached DEF writerRest, Standing
  <2>4. QED
    BY <1>5, <2>3 DEF Databased, TagsBelong, FormatKnown, HasImage, Stored
<1>6. ASSUME NEW id \in Ids, NEW file \in Contents, id = NextId(work),
             work' = InsertImage(work, id, file), committed' = work',
             toGui' = Append(toGui, [sig |-> "writeComplete", id |-> id])
      PROVE  Attached(A)' /\ Databased'
  <2> DEFINE signal == [sig |-> "writeComplete", id |-> id]
  <2>1. id \notin HasImage(work) /\ id \in Ids
    BY <1>2, <1>6, NextIdIsFree
  <2>2. signal \in Signals /\ signal.sig = "writeComplete" /\ signal.id = id
    BY <2>1 DEF Signals
  <2>3. /\ HasImage(work') = HasImage(work) \cup {id}
        /\ \A i \in Ids \ {id} : work'.image[i] = work.image[i]
    BY <1>2, <1>6, <2>1, InsertImageLists
  <2>4. /\ work'.tag = work.tag /\ work'.store[id] = file
         /\ \A i \in Ids \ {id} : work'.store[i] = work.store[i]
    BY <1>2, <1>6, <2>1, InsertImageStores
  <2>5. work'.image[id].deleted = FALSE /\ work'.image[id].format = MetaFormat(file, "none")
    <3>1. work \in Databases /\ id \in Ids /\ file \in Contents /\ work' = InsertImage(work, id, file)
      BY <1>2, <1>6, <2>1
    <3>2. QED
      BY <3>1, InsertImageRow
  <2> HIDE DEF signal
  <2>6. \A r \in A : refs[r].id \in HasImage(work) /\ refs[r].id \in Ids \ {id}
    BY <1>4, <2>1 DEF Standing, HasImage
  <2>7. \A r \in A : RowHandled(r)
    BY <1>1, <1>3, <2>3, <2>4, <2>5, <2>6 DEF RowHandled, TagState, writerRest
  <2>8. /\ \A r \in Live : Kept(r)'
        /\ \A r \in A \cap doomed : Condemned(r)'
        /\ \A n \in DOMAIN queue' : Named(queue'[n]) \subseteq A
    BY <1>1, <2>7, HandledRefs DEF writerRest
  <2>9. /\ Len(toGui) \in Nat /\ Range(toGui) \subseteq Range(toGui')
        /\ DOMAIN toGui' = DOMAIN toGui \cup {Len(toGui) + 1}
        /\ \A n \in DOMAIN toGui : toGui'[n] = toGui[n] /\ n # Len(toGui) + 1
        /\ toGui'[Len(toGui) + 1] = signal
    BY <1>6, <2>2, SignalSent DEF signal
  <2>10. Standing(A)'
    BY <1>1, <1>4, <2>3, <2>4, <2>5, <2>6, <2>8 DEF Standing, Live, HasImage, writerRest
  <2>11. ASSUME NEW i, Untouched(i, A)
        PROVE  Untouched(i, A)' /\ i # id
    <3>1. i \in HasImage(work) /\ i # id /\ i \in Ids
      BY <2>1, <2>11 DEF Untouched, HasImage
    <3>2. QED
      BY <1>1, <1>6, <2>3, <2>4, <2>5, <2>11, <3>1 DEF Untouched, HasImage, TagsById, writerRest
  <2>12. Untouched(id, A)'
    <3>1. TagsById(work', id) = {}
      BY <2>1, <2>3, <2>4, <2>5 DEF TagsById, Databased, TagsBelong
    <3>2. QED
      BY <1>1, <1>6, <2>3, <2>4, <2>5, <2>6, <3>1 DEF Untouched, HasImage, TagsById, writerRest
  <2>13. Announced' = Announced \cup {Len(toGui) + 1}
    BY <2>2, <2>9 DEF Announced
  <2>14. Announcing(A)'
    <3>1. \A n \in Announced : /\ toGui'[n] = toGui[n]
                               /\ Untouched(toGui[n].id, A)
      BY <1>4, <2>9 DEF Announcing, Announced
    <3>2. ASSUME NEW n \in Announced', NEW i, i = toGui'[n].id
          PROVE  Untouched(i, A)'
      <4>1. CASE n \in Announced
        BY <2>11, <3>1, <3>2, <4>1
      <4>2. CASE n = Len(toGui) + 1
        BY <2>2, <2>9, <2>12, <3>2, <4>2
      <4>3. QED
        BY <2>13, <4>1, <4>2
    <3>3. ASSUME NEW m \in Announced', NEW n \in Announced', toGui'[m].id = toGui'[n].id
          PROVE  m = n
      <4>1. \A k \in Announced : toGui'[k].id # id
        BY <2>11, <3>1
      <4>2. CASE m \in Announced /\ n \in Announced
        BY <1>4, <3>1, <3>3, <4>2 DEF Announcing
      <4>3. CASE m \notin Announced \/ n \notin Announced
        BY <2>2, <2>9, <2>13, <3>3, <4>1, <4>3
      <4>4. QED
        BY <4>2, <4>3
    <3>4. QED
      BY <3>2, <3>3 DEF Announcing
  <2>15. \A r \in A : FormatShown(r)'
    BY <1>1, <2>3, <2>4, <2>5, <2>6, <2>9 DEF FormatShown, Attached, writerRest
  <2>16. Attached(A)'
    BY <1>1, <2>8, <2>10, <2>14, <2>15 DEF Attached, Live, writerRest
  <2>17. Databased'
    <3>1. TagsBelong(work)'
      BY <2>3, <2>4, <2>5 DEF Databased, TagsBelong
    <3>2. FormatKnown(work)'
      <4>1. IsJpeg(file) => MetaFormat(file, "none") = "jpeg"
        BY DEF IsJpeg, MetaFormat
      <4>2. ASSUME NEW i \in Ids \ {id}, i \in Stored(work'), IsJpeg(work'.store[i])
            PROVE  work'.image[i].format = "jpeg"
        BY <2>3, <2>4, <2>5, <4>2 DEF Databased, FormatKnown, Stored
      <4>3. QED
        BY <2>3, <2>4, <2>5, <4>1, <4>2 DEF FormatKnown, Stored
    <3>3. QED
      BY <1>6, <3>1, <3>2 DEF Databased, TagsBelong, FormatKnown, HasImage, Stored
  <2>18. QED
    BY <2>16, <2>17
<1>7. QED
  BY <1>2, <1>5, <1>6 DEF HandleWriteImage

\* A purge deletes the rows of refs that are condemned, and no request names them again.
LEMMA HandlePurgeAttached ==
  ASSUME IInv, IInv', NEW A \in SUBSET DOMAIN refs, Attached(A), Databased, HandlePurge,
         NEW B, B = {r \in A : refs[r].id \notin Marked(work)}
  PROVE  Attached(B)' /\ Databased'
<1>1. /\ Take("purgeDeletedImages") /\ UNCHANGED <<writerRest, todo, rendering, toGui>>
      /\ work' = PurgeDeleted(work) /\ committed' = work' /\ todo = {} /\ rendering = {}
  BY DEF HandlePurge, Take
<1>2. /\ IsQueue /\ IsQueue' /\ Shifted /\ queue[1].op = "purgeDeletedImages" /\ 1 \in Purges
      /\ \A n \in DOMAIN queue' : n + 1 \in DOMAIN queue /\ queue'[n] = queue[n + 1]
      /\ Standing(A) /\ B \subseteq A
  BY <1>1, TakenQueue DEF Purges, Attached
<1>3. /\ HasImage(work') = HasImage(work) \ Marked(work)
      /\ \A i \in HasImage(work') : /\ work'.image[i] = work.image[i]
                                    /\ work'.store[i] = work.store[i]
      /\ work'.tag = {row \in work.tag : row[1] \notin Marked(work)}
  BY <1>1, PurgeEffect, Typed
<1>4. ASSUME NEW r \in A, NEW v, WillBeMarked(r, 1, v)
      PROVE  work.image[refs[r].id].deleted = v
  BY <1>2, <1>4, MarkedFirst
<1>5. \A r \in A : r \in B <=> ~work.image[refs[r].id].deleted
  BY <1>2 DEF Standing, Marked
<1>6. \A r \in Live : r \in B /\ Kept(r)
  <2>1. TAKE r \in Live
  <2>2. r \in A /\ Kept(r)
    BY DEF Attached, Standing
  <2>3. work.image[refs[r].id].deleted = FALSE
    BY <1>2, <1>4, <2>2 DEF Kept
  <2>4. QED
    BY <1>5, <2>2, <2>3
<1>7. \A r \in B : RowHandled(r)
  <2>1. TAKE r \in B
  <2>2. refs[r].id \in HasImage(work') /\ refs[r].id \notin Marked(work)
    BY <1>2, <1>3 DEF Standing
  <2>3. ~MarksRef(queue[1], r) /\ \A u : ~TagsRef(queue[1], r, u)
    BY <1>2 DEF MarksRef, TagsRef
  <2>4. \A u \in Tags : <<refs[r].id, u>> \in work'.tag <=> <<refs[r].id, u>> \in work.tag
    BY <1>3, <2>2
  <2>5. QED
    BY <1>1, <1>3, <2>2, <2>3, <2>4 DEF RowHandled, TagState, writerRest
<1>8. \A r \in Live : Kept(r)'
  BY <1>1, <1>2, <1>6, <1>7, KeptShifts DEF writerRest
<1>9. \A r \in B \cap doomed : Condemned(r)'
  <2>1. TAKE r \in B \cap doomed
  <2>2. RowHandled(r) /\ Condemned(r) /\ work.image[refs[r].id].deleted # TRUE
    BY <1>2, <1>5, <1>7 DEF Attached
  <2>3. QED
    BY <1>1, <1>2, <2>2, CondemnedShifts DEF writerRest
<1>10. ASSUME NEW n \in DOMAIN queue', NEW r \in Named(queue'[n])
       PROVE  r \in B
  <2>1. r \in A /\ n + 1 \in DOMAIN queue /\ r \in Named(queue[n + 1]) /\ n + 1 > 1
    <3>1. n \in Nat \ {0}
      BY <1>2, QueueDomain DEF IsQueue
    <3>2. QED
      BY <1>2, <3>1 DEF Standing
  <2>2. SUFFICES ASSUME r \notin B PROVE FALSE
    OBVIOUS
  <2>3. Condemned(r) /\ work.image[refs[r].id].deleted # FALSE
    BY <1>5, <1>6, <2>1, <2>2 DEF Live, Attached
  <2>4. PICK p \in Purges :
          /\ \A q \in Purges : q < p => WillBeMarked(r, q, FALSE)
          /\ \A m \in DOMAIN queue : m > p => r \notin Named(queue[m])
    BY <2>3 DEF Condemned
  <2>5. p = 1 \/ 1 < p
    BY <1>2, QueueDomain DEF Purges
  <2>6. QED
    BY <1>2, <1>4, <2>1, <2>3, <2>4, <2>5
<1>11. Standing(B)'
  <2>1. \A r \in B : refs[r].id \in HasImage(work')
    BY <1>2, <1>3 DEF Standing
  <2>2. QED
    BY <1>1, <1>2, <1>6, <1>10, <2>1 DEF Standing, Live, HasImage, writerRest
<1>12. Announcing(B)'
  <2>1. ASSUME NEW i, Untouched(i, A)
        PROVE  Untouched(i, B)'
    <3>1. i \in HasImage(work') /\ TagsById(work', i) = {}
      BY <1>3, <2>1 DEF Untouched, Marked, TagsById
    <3>2. \A r \in B : refs'[r].id # i
      BY <1>1, <1>2, <2>1 DEF Untouched, writerRest
    <3>3. QED
      BY <1>1, <1>3, <2>1, <3>1, <3>2 DEF Untouched, HasImage, TagsById
  <2>2. Announced' = Announced /\ toGui' = toGui
    BY <1>1 DEF Announced
  <2>3. QED
    BY <2>1, <2>2 DEF Attached, Announcing
<1>13. \A r \in B : FormatShown(r)'
  BY <1>1, <1>2, <1>3 DEF FormatShown, Attached, Standing, writerRest
<1>14. Attached(B)'
  BY <1>1, <1>8, <1>9, <1>11, <1>12, <1>13 DEF Attached, Live, writerRest
<1>15. Databased'
  <2>1. TagsBelong(work)'
    BY <1>3 DEF Databased, TagsBelong
  <2>2. FormatKnown(work)'
    <3>1. Stored(work') = HasImage(work') /\ Stored(work) = HasImage(work)
      BY Typed DEF IInv, StoreImageAgree, Stored, HasImage, Agree
    <3>2. QED
      BY <1>3, <3>1 DEF Databased, FormatKnown
  <2>3. QED
    BY <1>1, <2>1, <2>2 DEF Databased, TagsBelong, FormatKnown, HasImage, Stored
<1>16. QED
  BY <1>14, <1>15
--------------------------------------------------------------------------------
(* Steps that leave the queue alone, and restarts. *)

\* The file of a ref becomes a JPEG, and the GUI thread will be told.
LEMMA CompressOneAttached ==
  ASSUME IInv, IInv', NEW A \in SUBSET DOMAIN refs, Attached(A), Databased, CompressOne
  PROVE  Attached(A)' /\ Databased'
<1>1. PICK r \in todo :
        /\ todo' = todo \ {r} /\ UNCHANGED <<writerRest, queue, rendering, committed>>
        /\ \/ UNCHANGED <<work, toGui>>
           \/ /\ work' = IF work.store[refs[r].id] = NoRow THEN work
                         ELSE Recompress(work, refs[r].id)
              /\ toGui' = Append(toGui, [sig |-> "updateImageData", ref |-> r])
  BY DEF CompressOne
<1>2. /\ IsQueue /\ IsQueue' /\ Grown /\ Purges' = Purges
      /\ \A s : NotNamed(s) /\ \A n \in Purges' : ~(n > Len(queue))
  BY <1>1, QueueSame
<1>3. /\ Standing(A) /\ Announcing(A) /\ refs' = refs /\ Live' = Live /\ r \in A
      /\ work \in Databases /\ Agree(work) /\ Stored(work) = HasImage(work)
  BY <1>1, Typed DEF Attached, Standing, Live, writerRest, Agree
<1>4. CASE UNCHANGED <<work, toGui>>
  <2>1. \A s \in A : RowKept(s)
    BY <1>1, <1>3, <1>4, SameRows
  <2>2. (\A s \in Live : Kept(s)') /\ \A s \in A \cap doomed : Condemned(s)'
    BY <1>2, <1>3, <2>1, KeptGrows, CondemnedGrows DEF Attached, Standing
  <2>3. Standing(A)' /\ \A s \in A : FormatShown(s)'
    BY <1>1, <1>3, <1>4 DEF Standing, HasImage, FormatShown, Attached
  <2>4. Announcing(A)'
    BY <1>1, <1>3, <1>4 DEF Announcing, Announced, Untouched, HasImage, TagsById
  <2>5. QED
    BY <1>1, <1>3, <1>4, <2>2, <2>3, <2>4
    DEF Attached, writerRest, Databased, TagsBelong, FormatKnown, HasImage, Stored
<1>5. ASSUME NEW id, id = refs[r].id, work' = Recompress(work, id),
             NEW signal, signal = [sig |-> "updateImageData", ref |-> r],
             toGui' = Append(toGui, signal)
      PROVE  Attached(A)' /\ Databased'
  <2>1. id \in HasImage(work) /\ id \in Stored(work) /\ id \in Ids
    BY <1>3, <1>5 DEF Standing, Stored
  <2>2. /\ work'.tag = work.tag /\ HasImage(work') = HasImage(work)
        /\ work'.image[id].format = "jpeg" /\ work'.image[id].deleted = work.image[id].deleted
        /\ \A i \in Ids \ {id} : work'.store[i] = work.store[i] /\ work'.image[i] = work.image[i]
    BY <1>3, <1>5, <2>1, RecompressEffect
  <2>3. signal \in Signals /\ signal.sig = "updateImageData" /\ signal.ref = r
    BY <1>3, <1>5 DEF Signals
  <2>4. /\ DOMAIN toGui' = DOMAIN toGui \cup {Len(toGui) + 1}
        /\ \A n \in DOMAIN toGui : toGui'[n] = toGui[n] /\ n # Len(toGui) + 1
        /\ toGui'[Len(toGui) + 1] = signal
        /\ signal \in Range(toGui') /\ Range(toGui) \subseteq Range(toGui')
    BY <1>5, <2>3, SignalSent
  <2>5. \A s \in A : /\ s = r \/ refs[s].id \in Ids \ {id}
                     /\ work'.image[refs[s].id].deleted = work.image[refs[s].id].deleted
    <3>1. \A s \in A : s = r \/ refs[s].id \in Ids \ {id}
      BY <1>3, <1>5 DEF Standing, HasImage
    <3>2. QED
      BY <1>5, <2>2, <3>1
  <2>6. \A s \in A : RowKept(s)
    BY <1>3, <2>2, <2>5 DEF RowKept, TagState
  <2>7. (\A s \in Live : Kept(s)') /\ \A s \in A \cap doomed : Condemned(s)'
    BY <1>2, <1>3, <2>6, KeptGrows, CondemnedGrows DEF Attached, Standing
  <2>8. Standing(A)'
    BY <1>1, <1>3, <2>2 DEF Standing, HasImage
  <2>9. \A s \in A : FormatShown(s)'
    <3>1. ASSUME NEW s \in A
          PROVE  FormatShown(s)'
      <4>1. CASE s = r
        BY <1>5, <2>4, <4>1 DEF FormatShown
      <4>2. CASE s # r
        BY <1>3, <2>2, <2>4, <2>5, <4>2 DEF FormatShown, Attached
      <4>3. QED
        BY <4>1, <4>2
    <3>2. QED
      BY <3>1
  <2>10. Announcing(A)'
    <3>1. Announced' = Announced /\ \A n \in Announced : toGui'[n] = toGui[n]
      BY <2>3, <2>4 DEF Announced
    <3>2. ASSUME NEW i, Untouched(i, A)
          PROVE  Untouched(i, A)'
      <4>1. i \in Ids \ {id}
        BY <1>3, <1>5, <3>2 DEF Untouched, HasImage
      <4>2. QED
        BY <1>1, <1>3, <2>2, <3>2, <4>1 DEF Untouched, HasImage, TagsById
    <3>3. QED
      BY <1>3, <3>1, <3>2 DEF Announcing
  <2>11. Attached(A)'
    BY <1>1, <1>3, <2>7, <2>8, <2>9, <2>10 DEF Attached, writerRest
  <2>12. FormatKnown(work)'
    BY <1>3, <2>2 DEF Databased, FormatKnown, Stored
  <2>13. Databased'
    BY <1>1, <2>2, <2>12 DEF Databased, TagsBelong, FormatKnown, HasImage, Stored
  <2>14. QED
    BY <2>11, <2>13
<1>6. work.store[refs[r].id] # NoRow
  BY <1>3 DEF Standing, Stored
<1>7. QED
  BY <1>1, <1>4, <1>5, <1>6

LEMMA IdleAttached ==
  ASSUME IInv, IInv', NEW A \in SUBSET DOMAIN refs, Attached(A), Databased,
         RenderOne \/ Commit \/ UNCHANGED vars
  PROVE  Attached(A)' /\ Databased'
<1>1. /\ UNCHANGED <<refs, doomed, queue, todo, work, toGui>>
      /\ rendering' \subseteq rendering /\ committed' \in {committed, work}
  BY DEF RenderOne, Commit, vars, writerRest
<1>2. /\ IsQueue /\ IsQueue' /\ Grown /\ Purges' = Purges
      /\ \A s : NotNamed(s) /\ \A n \in Purges' : ~(n > Len(queue))
  BY <1>1, QueueSame
<1>3. Standing(A) /\ Announcing(A) /\ Live' = Live
  BY <1>1 DEF Attached, Live
<1>4. \A s \in A : RowKept(s)
  BY <1>1, SameRows
<1>5. (\A s \in Live : Kept(s)') /\ \A s \in A \cap doomed : Condemned(s)'
  BY <1>1, <1>2, <1>3, <1>4, KeptGrows, CondemnedGrows DEF Attached, Standing
<1>6. Standing(A)' /\ \A s \in A : FormatShown(s)'
  BY <1>1, <1>3 DEF Standing, HasImage, FormatShown, Attached
<1>7. Announcing(A)'
  BY <1>1, <1>3 DEF Announcing, Announced, Untouched, HasImage, TagsById
<1>8. Attached(A)'
  BY <1>1, <1>3, <1>5, <1>6, <1>7 DEF Attached
<1>9. Databased'
  BY <1>1 DEF Databased, TagsBelong, FormatKnown, HasImage, Stored
<1>10. QED
  BY <1>8, <1>9

\* The program has just started: the refs are read from the database.
Fresh == /\ \E b \in BOOLEAN : refs = All(committed, b)
         /\ doomed = {} /\ queue = <<>> /\ toGui = <<>> /\ todo = {} /\ rendering = {}
         /\ work = committed

LEMMA FreshAgrees == IInv /\ Databased /\ Fresh => AInv
<1> SUFFICES ASSUME IInv, Databased, Fresh PROVE AInv
  OBVIOUS
<1>1. PICK b \in BOOLEAN : refs = All(committed, b)
  BY DEF Fresh
<1>2. /\ doomed = {} /\ queue = <<>> /\ toGui = <<>> /\ todo = {} /\ rendering = {}
      /\ work = committed /\ work \in Databases /\ Stored(work) = HasImage(work)
  BY Typed DEF Fresh, Agree
<1>3. /\ DOMAIN refs \subseteq HasImage(work)
      /\ \A r \in DOMAIN refs : refs[r] = RefOf(work, r, JoinedTags(work, r))
  BY <1>1, <1>2 DEF All
<1>4. \A r \in DOMAIN refs :
        /\ refs[r].id = r /\ refs[r].tags = JoinedTags(work, r)
        /\ refs[r].deleted = work.image[r].deleted /\ refs[r].format = work.image[r].format
  BY <1>3 DEF RefOf
<1>5. DOMAIN queue = {} /\ DOMAIN toGui = {} /\ Live = DOMAIN refs
  BY <1>2 DEF Live
<1>6. Standing(DOMAIN refs)
  BY <1>2, <1>3, <1>4, <1>5 DEF Standing
<1>7. Announcing(DOMAIN refs)
  BY <1>5 DEF Announcing, Announced
<1>8. ASSUME NEW r \in DOMAIN refs
      PROVE  Kept(r)
  <2>1. Purges = {} /\ MarkRequests(r) = {} /\ \A t : TagRequests(r, t) = {}
    BY <1>5 DEF Purges, MarkRequests, TagRequests
  <2>2. WillBeMarked(r, Len(queue) + 1, refs[r].deleted)
    BY <1>4, <2>1 DEF WillBeMarked, Decided
  <2>3. ASSUME NEW t \in PlainTags
        PROVE  WillBeTagged(r, t, ShownTag(r, t))
    <3>1. /\ t \in Tags /\ \A u \in Tags : WordsOf[u] = {u}
      BY DEF PlainTags, OneWordTags
    <3>2. t \in refs[r].tags <=> <<r, t>> \in work.tag
      <4>1. t \in JoinedTags(work, r) <=> \E u \in TagsById(work, r) : t \in WordsOf[u]
        BY DEF JoinedTags
      <4>2. \A u \in TagsById(work, r) : t \in WordsOf[u] <=> t = u
        BY <3>1 DEF TagsById
      <4>3. t \in TagsById(work, r) <=> <<r, t>> \in work.tag
        BY <3>1 DEF TagsById
      <4>4. QED
        BY <1>4, <4>1, <4>2, <4>3
    <3>3. QED
      BY <1>4, <2>1, <3>2 DEF WillBeTagged, Decided, ShownTag, TagState
  <2>4. QED
    BY <2>1, <2>2, <2>3 DEF Kept
<1>9. \A r \in DOMAIN refs : FormatShown(r)
  BY <1>2, <1>3, <1>4 DEF FormatShown, Databased, FormatKnown
<1>10. Attached(DOMAIN refs)
  BY <1>2, <1>5, <1>6, <1>7, <1>8, <1>9 DEF Attached
<1>11. MaxId \in Nat /\ DOMAIN refs \subseteq 1..MaxId
  BY <1>3, RowAssumption DEF HasImage, Ids
<1>12. QED
  BY <1>10, <1>11 DEF AInv

LEMMA InitAgrees == Init => AInv
<1> SUFFICES ASSUME Init PROVE AInv
  OBVIOUS
<1>1. IInv
  BY InitEstablishes
<1>2. Fresh
  BY DEF Init, Fresh
<1>3. work = InitialDb /\ committed = InitialDb /\ work.tag = {}
  BY DEF Init, InitialDb
<1>4. FormatKnown(work)
  <2>1. SUFFICES ASSUME NEW i \in Stored(work), IsJpeg(work.store[i])
                 PROVE  work.image[i].format = "jpeg"
    BY DEF FormatKnown
  <2>2. i \in Ids /\ i <= Len(InitialStore) /\ work.store[i] = InitialStore[i]
    BY <1>3, <2>1 DEF InitialDb, Stored
  <2>3. work.image[i].format = MetaFormat(InitialStore[i], "none")
    BY <1>3, <2>2 DEF InitialDb
  <2>4. QED
    BY <2>1, <2>2, <2>3 DEF IsJpeg, MetaFormat
<1>5. Databased
  BY <1>3, <1>4 DEF Databased, TagsBelong
<1>6. QED
  BY <1>1, <1>2, <1>5, FreshAgrees

LEMMA RestartAgrees ==
  ASSUME IInv', Databased, NEW b \in BOOLEAN, Restart(b)
  PROVE  AInv'
<1>1. Fresh'
  BY DEF Restart, Fresh
<1>2. Databased'
  BY DEF Restart, Databased, TagsBelong, FormatKnown, HasImage, Stored
<1>3. (IInv /\ Databased /\ Fresh => AInv)'
  BY FreshAgrees, PTL
<1>4. QED
  BY <1>1, <1>2, <1>3
--------------------------------------------------------------------------------
LEMMA AgreeAfter ==
  ASSUME IInv', Databased', NEW n \in Nat, DOMAIN refs' \subseteq 1..n,
         NEW B, B \subseteq DOMAIN refs', Attached(B)'
  PROVE  AInv'
  BY DEF AInv

\* On the condition that the user leaves the refs of purged images alone, every step
\* keeps GUI thread and write thread in agreement.
LEMMA StepAgrees ==
  ASSUME ~EditGhosts, AInv, [Next]_vars
  PROVE  AInv'
<1>1. IInv /\ IInv' /\ Databased
  BY StepKeeps DEF AInv
<1>2. PICK n \in Nat : DOMAIN refs \subseteq 1..n
  BY DEF AInv
<1>3. PICK A \in SUBSET DOMAIN refs : Attached(A)
  BY DEF AInv
<1>4. ASSUME UNCHANGED guiRest, Attached(A)' /\ DOMAIN refs' = DOMAIN refs
      PROVE  AInv'
  <2>1. Databased'
    BY <1>1, <1>4 DEF guiRest, Databased, TagsBelong, FormatKnown, HasImage, Stored
  <2>2. QED
    BY <1>1, <1>2, <1>3, <1>4, <2>1, AgreeAfter
<1>5. CASE \E S \in SUBSET (DOMAIN refs) :
             \/ \E t \in Tags : addTag(S, t) \/ removeTag(S, t)
             \/ \E b \in BOOLEAN : updateDeleted(S, b)
             \/ compressImages(S) \/ renderImages(S)
  <2>1. UNCHANGED guiRest
    BY <1>5 DEF addTag, removeTag, updateDeleted, compressImages, renderImages
  <2>2. PICK S \in SUBSET (DOMAIN refs) :
             \/ \E t \in Tags : addTag(S, t) \/ removeTag(S, t)
             \/ \E b \in BOOLEAN : updateDeleted(S, b)
             \/ compressImages(S) \/ renderImages(S)
    BY <1>5
  <2>3. CASE \E t \in Tags : addTag(S, t) \/ removeTag(S, t)
    BY <1>1, <1>3, <1>4, <2>1, <2>3, EditTagsAttached
  <2>4. CASE \E b \in BOOLEAN : updateDeleted(S, b)
    BY <1>1, <1>3, <1>4, <2>1, <2>4, MarkAttached
  <2>5. CASE compressImages(S) \/ renderImages(S)
    BY <1>1, <1>3, <1>4, <2>1, <2>5, AskAttached
  <2>6. QED
    BY <2>2, <2>3, <2>4, <2>5
<1>6. CASE (\E c \in Importable : Download(c)) \/ Purge \/ FixMeta
  <2>1. UNCHANGED guiRest
    BY <1>6 DEF Download, Purge, FixMeta
  <2>2. CASE Purge
    BY <1>1, <1>3, <1>4, <2>1, <2>2, PurgeAttached
  <2>3. CASE (\E c \in Importable : Download(c)) \/ FixMeta
    BY <1>1, <1>3, <1>4, <2>1, <2>3, AskAttached
  <2>4. QED
    BY <1>6, <2>2, <2>3
<1>7. CASE GuiReceive
  <2>1. UNCHANGED <<work, committed>>
    BY <1>7 DEF GuiReceive, ImageReady, UpdateImageData
  <2>2. Databased'
    BY <1>1, <2>1 DEF Databased, TagsBelong, FormatKnown, HasImage, Stored
  <2>3. CASE UpdateImageData
    <3>1. Attached(A)' /\ DOMAIN refs' = DOMAIN refs
      BY <1>1, <1>3, <2>3, UpdateImageDataAttached
    <3>2. QED
      BY <1>1, <1>2, <1>3, <2>2, <3>1, AgreeAfter
  <2>4. ASSUME NEW words \in FileWords, ImageReady(words), NEW r, r = NewRef
        PROVE  AInv'
    <3>1. words \in Seq(Tags)
      BY LibraryAssumption
    <3>2. Attached(A \cup {r})' /\ DOMAIN refs' = DOMAIN refs \cup {r}
      BY <1>1, <1>2, <1>3, <2>4, <3>1, ImageReadyAttached
    <3>3. r \in Nat /\ DOMAIN refs \cup {r} \subseteq 1..r
      BY <1>2, <2>4, NewRefIsNew
    <3>4. QED
      BY <1>1, <1>3, <2>2, <3>2, <3>3, AgreeAfter
  <2>5. QED
    BY <1>7, <2>3, <2>4 DEF GuiReceive
<1>8. CASE \E b \in BOOLEAN : Restart(b)
  BY <1>1, <1>8, RestartAgrees
<1>9. ASSUME UNCHANGED refs, Databased', NEW B, B \subseteq A, Attached(B)'
      PROVE  AInv'
  BY <1>1, <1>2, <1>3, <1>9, AgreeAfter
<1>10. CASE WriterStep
  <2>1. UNCHANGED refs
    BY <1>10 DEF WriterStep, HandleAddTag, HandleRemoveTag, HandleUpdateDeleted,
                 HandleFixMeta, Batched, HandleWriteImage, HandlePurge, StartCompress,
                 CompressOne, StartRender, RenderOne, Commit, writerRest
  <2>2. CASE HandlePurge
    <3>1. ASSUME NEW B, B = {r \in A : refs[r].id \notin Marked(work)}
          PROVE  AInv'
      <4>1. Attached(B)' /\ Databased'
        BY <1>1, <1>3, <2>2, <3>1, HandlePurgeAttached
      <4>2. QED
        BY <1>9, <2>1, <3>1, <4>1
    <3>2. QED
      BY <3>1
  <2>3. CASE ~HandlePurge
    <3>1. Attached(A)' /\ Databased'
      BY <1>1, <1>3, <1>10, <2>3, HandleTagsAttached, HandleUpdateDeletedAttached,
         StartAttached, HandleWriteImageAttached, CompressOneAttached, IdleAttached
      DEF WriterStep
    <3>2. QED
      BY <1>9, <2>1, <3>1
  <2>4. QED
    BY <2>2, <2>3
<1>11. CASE UNCHANGED vars
  <2>1. UNCHANGED refs
    BY <1>11 DEF vars
  <2>2. QED
    BY <1>1, <1>3, <1>9, <1>11, <2>1, IdleAttached
<1>12. QED
  BY <1>5, <1>6, <1>7, <1>8, <1>10, <1>11 DEF Next

LEMMA Agreement ==
  ASSUME ~EditGhosts
  PROVE  Spec => []AInv
  BY InitAgrees, StepAgrees, PTL DEF Spec
--------------------------------------------------------------------------------
(* The properties of the runs, read off the invariant. *)

\* Requests that touch the row of a ref are those that name it.
LEMMA TouchingIsNaming ==
  ASSUME NEW A, Standing(A), NEW r \in Live, NEW ops \in SUBSET Naming
  PROVE  Touching(ops, refs[r].id) = {n \in DOMAIN queue : queue[n].op \in ops /\ r \in queue[n].on}
<1>1. ASSUME NEW n \in DOMAIN queue, queue[n].op \in ops
      PROVE  refs[r].id \in IdsOf(queue[n].on) <=> r \in queue[n].on
  <2>1. Named(queue[n]) = queue[n].on /\ queue[n].on \subseteq A /\ r \in A
    BY <1>1 DEF Named, Standing
  <2>2. QED
    BY <2>1, NamedById
<1>2. QED
  BY <1>1 DEF Touching

\* The last request about something decides.
LEMMA LastDecides ==
  ASSUME IsQueue, NEW S \in SUBSET DOMAIN queue, NEW says, NEW base, NEW v,
         Decided(S, says, base, v)
  PROVE  v = IF S = {} THEN base ELSE says[Max(S)]
<1>1. CASE S = {}
  BY <1>1 DEF Decided
<1>2. CASE S # {}
  <2>1. PICK n \in S : (\A m \in S : m <= n) /\ says[n] = v
    BY <1>2 DEF Decided
  <2>2. Len(queue) \in Nat /\ S \in SUBSET (0..Len(queue))
    BY QueueDomain
  <2>3. Max(S) \in S /\ \A m \in S : m <= Max(S)
    BY <1>2, <2>2, MaxIs
  <2>4. n <= Max(S) /\ Max(S) <= n /\ n \in Nat /\ Max(S) \in Nat
    BY <2>1, <2>2, <2>3
  <2>5. n = Max(S)
    BY <2>4
  <2>6. QED
    BY <1>2, <2>1, <2>5
<1>3. QED
  BY <1>1, <1>2

LEMMA MarksShown == AInv => DeletedAgree
<1> SUFFICES ASSUME AInv, NEW r \in Live
             PROVE  LET id == refs[r].id
                        about == Touching({"updateDeleted"}, id)
                    IN  /\ work.image[id] # NoRow
                        /\ refs[r].deleted = IF about = {} THEN work.image[id].deleted
                                             ELSE queue[Max(about)].deleted
  BY DEF DeletedAgree
<1>1. PICK A : Attached(A)
  BY DEF AInv
<1>2. IsQueue /\ Standing(A) /\ Kept(r) /\ r \in A
  BY <1>1, Typed DEF AInv, Attached, Standing
<1> DEFINE about == Touching({"updateDeleted"}, refs[r].id)
<1>3. about = MarkRequests(r) /\ about \in SUBSET DOMAIN queue
  BY <1>2, TouchingIsNaming DEF MarkRequests, Naming
<1>4. {n \in MarkRequests(r) : n < Len(queue) + 1} = MarkRequests(r)
  BY <1>2, QueueDomain DEF MarkRequests
<1>5. Decided(MarkRequests(r), MarkSays, work.image[refs[r].id].deleted, refs[r].deleted)
  BY <1>2, <1>4 DEF Kept, WillBeMarked
<1> HIDE DEF about
<1>6. Decided(about, MarkSays, work.image[refs[r].id].deleted, refs[r].deleted)
  BY <1>3, <1>5
<1>7. refs[r].deleted = IF about = {} THEN work.image[refs[r].id].deleted
                        ELSE MarkSays[Max(about)]
  BY <1>2, <1>3, <1>6, LastDecides
<1>8. about # {} => MarkSays[Max(about)] = queue[Max(about)].deleted
  <2>1. Len(queue) \in Nat /\ about \in SUBSET (0..Len(queue))
    BY <1>2, <1>3, QueueDomain
  <2>2. about # {} => Max(about) \in DOMAIN queue
    BY <1>3, <2>1, MaxIs
  <2>3. QED
    BY <2>2 DEF MarkSays
<1>9. work.image[refs[r].id] # NoRow
  BY <1>2 DEF Standing, HasImage
<1>10. QED
  BY <1>7, <1>8, <1>9 DEF about

LEMMA TagsShown ==
  ASSUME OneWordTags
  PROVE  AInv => TagsAgree
<1> SUFFICES ASSUME AInv, NEW r \in Live, NEW t \in Tags
             PROVE  LET id == refs[r].id
                        about == {i \in Touching({"addTag", "removeTag"}, id) :
                                    queue[i].tag = t}
                    IN  t \in refs[r].tags <=> IF about = {} THEN <<id, t>> \in work.tag
                                               ELSE queue[Max(about)].op = "addTag"
  BY DEF TagsAgree
<1>1. PICK A : Attached(A)
  BY DEF AInv
<1>2. IsQueue /\ Standing(A) /\ Kept(r) /\ t \in PlainTags
  BY <1>1, Typed DEF AInv, Attached, PlainTags
<1> DEFINE about == {i \in Touching({"addTag", "removeTag"}, refs[r].id) : queue[i].tag = t}
           base == TagState(refs[r].id, t, work.tag)
           shown == ShownTag(r, t)
<1>3. about = TagRequests(r, t) /\ about \in SUBSET DOMAIN queue
  BY <1>2, TouchingIsNaming DEF TagRequests, Naming
<1> HIDE DEF about
<1>4. Decided(about, TagSays, base, shown)
  BY <1>2, <1>3 DEF Kept, WillBeTagged
<1>5. shown = IF about = {} THEN base ELSE TagSays[Max(about)]
  BY <1>2, <1>3, <1>4, LastDecides
<1>6. about # {} => TagSays[Max(about)] = queue[Max(about)].op
  <2>1. Len(queue) \in Nat /\ about \in SUBSET (0..Len(queue))
    BY <1>2, <1>3, QueueDomain
  <2>2. about # {} => Max(about) \in DOMAIN queue
    BY <1>3, <2>1, MaxIs
  <2>3. QED
    BY <2>2 DEF TagSays
<1>7. /\ t \in refs[r].tags <=> shown = "addTag"
      /\ <<refs[r].id, t>> \in work.tag <=> base = "addTag"
  BY DEF ShownTag, TagState
<1> HIDE DEF base, shown
<1>8. QED
  BY <1>5, <1>6, <1>7 DEF about

LEMMA IdsShown == AInv => LiveIdsDistinct
<1> SUFFICES ASSUME AInv PROVE LiveIdsDistinct
  OBVIOUS
<1>1. PICK A : Attached(A)
  BY DEF AInv
<1>2. \A r, s \in Live : refs[r].id = refs[s].id => r = s
  BY <1>1 DEF Attached, Standing
<1>3. ASSUME NEW r \in Live, NEW n \in DOMAIN toGui, toGui[n].sig = "writeComplete"
      PROVE  toGui[n].id # refs[r].id
  BY <1>1, <1>3 DEF Attached, Standing, Announcing, Announced, Untouched
<1>4. QED
  BY <1>2, <1>3 DEF LiveIdsDistinct

\* What the user sees of an image he can act on is what the database will hold of it,
\* and he sees it once: for any number of edits, imports, purges, conversions, commits
\* and restarts in any order, if he leaves the refs of purged images alone and no tag
\* is several words (addTag, removeTag, updateDeleted, createImageRef, all).
THEOREM RefsStayInAgreement ==
  ASSUME ~EditGhosts, OneWordTags
  PROVE  Spec => []RefsAgree
<1>1. AInv => RefsAgree
  BY MarksShown, TagsShown, IdsShown DEF RefsAgree
<1>2. QED
  BY <1>1, Agreement, PTL

\* Of the marks for removal, and of seeing each image once, this holds whatever the
\* tags are (updateDeleted, createImageRef, all).
THEOREM MarksStayInAgreement ==
  ASSUME ~EditGhosts
  PROVE  Spec => [](DeletedAgree /\ LiveIdsDistinct)
<1>1. AInv => DeletedAgree /\ LiveIdsDistinct
  BY MarksShown, IdsShown
<1>2. QED
  BY <1>1, Agreement, PTL

\* No tag outlives its image, so that an id SQLite gives out again hands no tag to
\* another picture (task_purgeDeletedImages, addTag, createImageRef).
THEOREM TagsKeepTheirImages ==
  ASSUME ~EditGhosts
  PROVE  Spec => []TagsHaveImages
<1>1. AInv => TagsHaveImages
  BY DEF AInv, Databased, TagsBelong, TagsHaveImages
<1>2. QED
  BY <1>1, Agreement, PTL

\* A purge deletes no row that a ref shows which was not marked when the purge was
\* asked for, and none that the user has yet to see; a restart deletes none at all
\* (backgroundTask, task_purgeDeletedImages).
THEOREM PurgesSpareUnmarked ==
  ASSUME ~EditGhosts
  PROVE  Spec => PurgeSparesUnmarked
<1> DEFINE Spares ==
             \A i \in Stored(work) \ Stored(work') :
               /\ \A r \in Live : refs[r].id # i
               /\ \A n \in DOMAIN toGui : toGui[n].sig = "writeComplete" => toGui[n].id # i
<1>1. ASSUME AInv, AInv', [Next]_vars
      PROVE  [Spares]_vars
  <2>1. /\ Stored(work) = HasImage(work) /\ Stored(committed) = HasImage(committed)
        /\ HasImage(work) = HasImage(committed) /\ Stored(work') = HasImage(work')
    BY <1>1 DEF AInv, IInv, StoreImageAgree, Databased, Stored, HasImage
  <2>2. PICK B : Attached(B)'
    BY <1>1 DEF AInv
  <2>3. CASE Stored(work') = Stored(work)
    BY <2>3
  <2>4. CASE \E b \in BOOLEAN : Restart(b)
    <3>1. Stored(work') = Stored(work)
      BY <2>1, <2>4 DEF Restart
    <3>2. QED
      BY <3>1
  <2>5. CASE WriterStep
    <3>1. UNCHANGED <<refs, doomed>>
      BY <2>5 DEF WriterStep, HandleAddTag, HandleRemoveTag, HandleUpdateDeleted,
                  HandleFixMeta, Batched, HandleWriteImage, HandlePurge, StartCompress,
                  CompressOne, StartRender, RenderOne, Commit, writerRest
    <3>2. \A r \in Live : refs[r].id \in HasImage(work')
      BY <2>2, <3>1 DEF Attached, Standing, Live, HasImage
    <3>3. toGui' = toGui \/ \E signal \in Signals : toGui' = Append(toGui, signal)
      <4>1. CASE HandleWriteImage
        <5>1. ASSUME NEW id \in Ids
              PROVE  [sig |-> "writeComplete", id |-> id] \in Signals
          BY DEF Signals
        <5>2. QED
          BY <4>1, <5>1 DEF HandleWriteImage
      <4>2. CASE CompressOne
        <5>1. ASSUME NEW r \in todo
              PROVE  [sig |-> "updateImageData", ref |-> r] \in Signals
          BY <1>1 DEF AInv, IInv, TypeOK, Signals
        <5>2. QED
          BY <4>2, <5>1 DEF CompressOne
      <4>3. CASE ~HandleWriteImage /\ ~CompressOne
        BY <2>5, <4>3 DEF WriterStep, HandleAddTag, HandleRemoveTag, HandleUpdateDeleted,
                  HandleFixMeta, Batched, HandlePurge, StartCompress, StartRender,
                  RenderOne, Commit
      <4>4. QED
        BY <4>1, <4>2, <4>3
    <3>4. \A n \in DOMAIN toGui : n \in DOMAIN toGui' /\ toGui'[n] = toGui[n]
      BY <1>1, <3>3, SignalSent DEF AInv
    <3>5. ASSUME NEW n \in DOMAIN toGui, toGui[n].sig = "writeComplete"
          PROVE  toGui[n].id \in HasImage(work')
      <4>1. n \in Announced' /\ toGui'[n].id = toGui[n].id
        BY <3>4, <3>5 DEF Announced
      <4>2. \A m \in Announced' : toGui'[m].id \in HasImage(work')
        BY <2>2 DEF Attached, Announcing, Untouched, HasImage
      <4>3. QED
        BY <4>1, <4>2
    <3>6. QED
      BY <2>1, <3>2, <3>5
  <2>6. CASE UNCHANGED work
    BY <2>6, <2>3
  <2>7. WriterStep \/ (\E b \in BOOLEAN : Restart(b)) \/ UNCHANGED work
    BY <1>1 DEF Next, vars, guiRest, addTag, removeTag, updateDeleted, compressImages,
                renderImages, Download, Purge, FixMeta, GuiReceive, ImageReady,
                UpdateImageData
  <2>8. QED
    BY <2>3, <2>4, <2>5, <2>6, <2>7
<1>2. QED
  BY <1>1, Agreement, PTL DEF Spec, PurgeSparesUnmarked

\* An export finds the file of every image it was asked for, and a JPEG goes by
\* another name only while the news of its conversion is on its way (renderImages).
THEOREM ExportsAsShown ==
  ASSUME ~EditGhosts
  PROVE  Spec => ExportsShown
<1> DEFINE Exports ==
             \A r \in rendering \ rendering' :
               LET file == work.store[refs[r].id]
               IN  restarts' = restarts =>
                     /\ file # NoRow
                     /\ file \in Decodable /\ HeaderFormat[file] = "jpeg" =>
                          \/ refs[r].format = "jpeg"
                          \/ [sig |-> "updateImageData", ref |-> r] \in Range(toGui)
<1>1. ASSUME AInv
      PROVE  Exports
  <2>1. PICK A : Attached(A)
    BY <1>1 DEF AInv
  <2>2. Stored(work) = HasImage(work)
    BY <1>1 DEF AInv, IInv, StoreImageAgree
  <2>3. \A r \in rendering : refs[r].id \in Stored(work) /\ FormatShown(r)
    BY <2>1, <2>2 DEF Attached, Standing
  <2>4. QED
    BY <2>3 DEF FormatShown, IsJpeg, Stored
<1>2. QED
  BY <1>1, Agreement, PTL DEF ExportsShown
--------------------------------------------------------------------------------
(* No image changes its picture; here the user may edit what he likes, but every file *)
(* that comes in is one that can be decoded.                                          *)

DecodableFiles == Importable \subseteq Decodable /\ Range(InitialStore) \subseteq Decodable

\* All files can be decoded, and the open transaction replaces a file by its JPEG at most.
Pictures(d) == \A i \in Stored(d) : d.store[i] \in Decodable
QueuedPictures == \A n \in DOMAIN queue : queue[n].op = "writeImage" => queue[n].data \in Decodable
Conversions == \A i \in Stored(work) \cap Stored(committed) :
                 SamePicture(committed.store[i], work.store[i])
PInv == /\ IInv /\ Pictures(work) /\ Pictures(committed) /\ QueuedPictures /\ Conversions

LEMMA PicturesInit ==
  ASSUME DecodableFiles, Init
  PROVE  PInv
<1>1. work = InitialDb /\ committed = InitialDb /\ queue = <<>>
  BY DEF Init
<1>2. \A i \in Stored(InitialDb) : InitialDb.store[i] \in Decodable
  <2>1. SUFFICES ASSUME NEW i \in Stored(InitialDb) PROVE InitialDb.store[i] \in Decodable
    OBVIOUS
  <2>2. i \in Ids /\ i <= Len(InitialStore) /\ InitialDb.store[i] = InitialStore[i]
    BY DEF InitialDb, Stored
  <2>3. i \in DOMAIN InitialStore
    BY <2>2, LibraryAssumption, RowAssumption DEF Ids
  <2>4. QED
    BY <2>2, <2>3 DEF DecodableFiles, Range
<1>3. QED
  BY <1>1, <1>2, InitEstablishes DEF PInv, Pictures, QueuedPictures, Conversions, SamePicture

\* What is posted names no file, or one that can be decoded.
LEMMA QueuedPosted ==
  ASSUME QueuedPictures, NEW R, queue \in Seq(R), NEW request \in R,
         queue' = Append(queue, request),
         request.op = "writeImage" => request.data \in Decodable
  PROVE  QueuedPictures'
<1>1. /\ Len(queue) \in Nat /\ DOMAIN queue = 1..Len(queue)
      /\ DOMAIN queue' = 1..(Len(queue) + 1)
      /\ \A n \in 1..Len(queue) : queue'[n] = queue[n]
      /\ queue'[Len(queue) + 1] = request
  OBVIOUS
<1>2. QED
  BY <1>1 DEF QueuedPictures

LEMMA QueuedGui ==
  ASSUME DecodableFiles, PInv, IInv',
         \/ \E S \in SUBSET (DOMAIN refs) :
             \/ \E t \in Tags : addTag(S, t) \/ removeTag(S, t)
             \/ \E b \in BOOLEAN : updateDeleted(S, b)
             \/ compressImages(S) \/ renderImages(S)
         \/ \E c \in Importable : Download(c)
         \/ Purge \/ FixMeta
  PROVE  PInv'
<1>1. UNCHANGED <<work, committed>>
  BY DEF addTag, removeTag, updateDeleted, compressImages, renderImages, Download, Purge,
         FixMeta, guiRest
<1>2. PICK request : /\ Post(request)
                     /\ request.op = "writeImage" => request.data \in Decodable
  <2>1. CASE \E S \in SUBSET (DOMAIN refs) :
             \/ \E t \in Tags : addTag(S, t) \/ removeTag(S, t)
             \/ \E b \in BOOLEAN : updateDeleted(S, b)
             \/ compressImages(S) \/ renderImages(S)
    <3>1. \E request : Post(request) /\ request.op # "writeImage"
      <4>1. \A on, t : /\ [op |-> "addTag", on |-> on, tag |-> t].op # "writeImage"
                       /\ [op |-> "removeTag", on |-> on, tag |-> t].op # "writeImage"
                       /\ [op |-> "updateDeleted", on |-> on, deleted |-> t].op # "writeImage"
                       /\ [op |-> "compressImages", on |-> on].op # "writeImage"
                       /\ [op |-> "renderImages", on |-> on].op # "writeImage"
        OBVIOUS
      <4>2. ASSUME NEW S, NEW t, addTag(S, t)
            PROVE  \E request : Post(request) /\ request.op # "writeImage"
        BY <4>1, <4>2, Zenon DEF addTag
      <4>3. ASSUME NEW S, NEW t, removeTag(S, t)
            PROVE  \E request : Post(request) /\ request.op # "writeImage"
        BY <4>1, <4>3, Zenon DEF removeTag
      <4>4. ASSUME NEW S, NEW b, updateDeleted(S, b)
            PROVE  \E request : Post(request) /\ request.op # "writeImage"
        BY <4>1, <4>4, Zenon DEF updateDeleted
      <4>5. ASSUME NEW S, compressImages(S) \/ renderImages(S)
            PROVE  \E request : Post(request) /\ request.op # "writeImage"
        BY <4>1, <4>5, Zenon DEF compressImages, renderImages
      <4>6. QED
        BY <2>1, <4>2, <4>3, <4>4, <4>5
    <3>2. QED
      BY <3>1
  <2>2. CASE \E c \in Importable : Download(c)
    <3>1. PICK c \in Importable : Post([op |-> "writeImage", data |-> c])
      BY <2>2 DEF Download
    <3>2. [op |-> "writeImage", data |-> c].data \in Decodable
      BY DEF DecodableFiles
    <3>3. QED
      BY <3>1, <3>2, Zenon
  <2>3. CASE Purge \/ FixMeta
    <3>1. /\ [op |-> "purgeDeletedImages"].op # "writeImage"
          /\ [op |-> "fixImageMetaData"].op # "writeImage"
      OBVIOUS
    <3>2. QED
      BY <2>3, <3>1, Zenon DEF Purge, FixMeta
  <2>4. QED
    BY <2>1, <2>2, <2>3
<1>3. queue \in Seq(Requests \cup {request}) /\ queue' = Append(queue, request)
  BY <1>2, Typed DEF Post, PInv
<1>4. QueuedPictures'
  BY <1>2, <1>3, QueuedPosted DEF PInv
<1>5. QED
  BY <1>1, <1>4 DEF PInv, Pictures, Conversions, Stored, SamePicture

LEMMA QueuedReceive ==
  ASSUME PInv, IInv', GuiReceive
  PROVE  PInv'
<1>1. UNCHANGED <<work, committed>>
  BY DEF GuiReceive, ImageReady, UpdateImageData
<1>2. CASE queue' = queue
  BY <1>1, <1>2 DEF PInv, Pictures, QueuedPictures, Conversions, Stored, SamePicture
<1>3. ASSUME NEW words \in FileWords, ImageReady(words)
      PROVE  QueuedPictures'
  <2> DEFINE id == Head(toGui).id
             found == committed.image[id] # NoRow
             ref == RefOf(committed, id, TagsById(committed, id))
             fresh(n) == /\ found /\ words[n] \notin ref.tags
                         /\ \A m \in 1..(n - 1) : words[m] # words[n]
             request(n) == [op |-> "addTag", tag |-> words[n],
                            on |-> IF fresh(n) THEN {NewRef} ELSE {}]
             requests == [n \in DOMAIN words |-> request(n)]
  <2>1. queue' = queue \o requests
    BY <1>3 DEF ImageReady, PostAll
  <2>2. \A n \in DOMAIN words : request(n).op = "addTag"
    OBVIOUS
  <2> HIDE DEF request
  <2>3. /\ words \in Seq(Tags) /\ queue \in Seq(Requests)
    BY LibraryAssumption, Typed DEF PInv
  <2>4. /\ Len(words) \in Nat /\ DOMAIN words = 1..Len(words)
        /\ Len(queue) \in Nat /\ DOMAIN queue = 1..Len(queue)
        /\ Len(requests) = Len(words) /\ DOMAIN requests = 1..Len(words)
        /\ \A n \in 1..Len(words) : requests[n].op = "addTag"
    BY <2>2, <2>3
  <2>5. PICK R : queue \in Seq(R) /\ requests \in Seq(R)
    <3>1. /\ queue \in Seq(Requests \cup {request(n) : n \in DOMAIN words})
          /\ requests \in Seq(Requests \cup {request(n) : n \in DOMAIN words})
      BY <2>3
    <3>2. QED
      BY <3>1
  <2> HIDE DEF requests
  <2>6. /\ Len(queue') = Len(queue) + Len(words)
        /\ \A n \in 1..Len(queue) : queue'[n] = queue[n]
        /\ \A n \in 1..Len(words) : queue'[Len(queue) + n].op = "addTag"
    <3>1. /\ Len(queue \o requests) = Len(queue) + Len(requests)
          /\ \A n \in 1..Len(queue) : (queue \o requests)[n] = queue[n]
          /\ \A n \in 1..Len(requests) : (queue \o requests)[Len(queue) + n] = requests[n]
      BY <2>5, Concatenation
    <3>2. QED
      BY <2>1, <2>4, <3>1, Zenon
  <2>7. ASSUME NEW n \in DOMAIN queue'
        PROVE  n \in 1..Len(queue) \/ \E m \in 1..Len(words) : n = Len(queue) + m
    <3>1. n \in 1..(Len(queue) + Len(words))
      BY <2>1, <2>4, <2>5, <2>6
    <3>2. CASE ~(n \in 1..Len(queue))
      <4>1. n - Len(queue) \in 1..Len(words) /\ n = Len(queue) + (n - Len(queue))
        BY <2>4, <3>1, <3>2
      <4>2. QED
        BY <4>1
    <3>3. QED
      BY <3>2
  <2>8. QED
    BY <2>4, <2>6, <2>7 DEF PInv, QueuedPictures
<1>4. QED
  BY <1>1, <1>2, <1>3
  DEF GuiReceive, UpdateImageData, PInv, Pictures, Conversions, Stored, SamePicture

\* What one step may do to the files.
KeepsPictures ==
  \A i \in Stored(work) \cap Stored(work') :
    SamePicture(work.store[i], work'.store[i]) \/ SamePicture(work'.store[i], work.store[i])

LEMMA QueuedTaken ==
  ASSUME PInv, IInv', NEW op, Take(op)
  PROVE  QueuedPictures'
<1>1. \A n \in DOMAIN queue' : n + 1 \in DOMAIN queue /\ queue'[n] = queue[n + 1]
  BY TakenQueue DEF PInv
<1>2. QED
  BY <1>1 DEF PInv, QueuedPictures

\* The steps of the write thread that leave the files as they are.
LEMMA FilesLeft ==
  ASSUME PInv, IInv', \E op : Take(op) \/ queue' = queue,
         work'.store = work.store, committed' \in {committed, work'}
  PROVE  PInv' /\ KeepsPictures
<1>1. QueuedPictures'
  BY QueuedTaken DEF PInv, QueuedPictures
<1>2. Stored(work') = Stored(work)
  BY DEF Stored
<1>3. /\ \A i \in Stored(work') : work'.store[i] \in Decodable
      /\ \A i \in Stored(committed') : committed'.store[i] \in Decodable
  BY <1>2 DEF PInv, Pictures
<1>4. \A i \in Stored(work') \cap Stored(committed') :
        SamePicture(committed'.store[i], work'.store[i])
  BY <1>2 DEF PInv, Conversions, SamePicture
<1>5. QED
  BY <1>1, <1>2, <1>3, <1>4 DEF PInv, Pictures, Conversions, KeepsPictures, SamePicture, Stored

\* Those that commit.
LEMMA FilesCommitted ==
  ASSUME PInv, IInv', NEW op, Take(op), committed' = work',
         \A i \in Stored(work') : work'.store[i] \in Decodable,
         KeepsPictures
  PROVE  PInv' /\ KeepsPictures
  BY QueuedTaken DEF PInv, Pictures, Conversions, SamePicture, Stored

LEMMA PicturesWriter ==
  ASSUME PInv, IInv', WriterStep
  PROVE  PInv' /\ KeepsPictures
<1>1. work \in Databases /\ queue \in Seq(Requests) /\ IInv
  BY Typed DEF PInv
<1>2. CASE HandleAddTag \/ HandleRemoveTag
  <2>1. work'.store = work.store
    BY <1>1, <1>2, TagEffects DEF HandleAddTag, HandleRemoveTag, Batched
  <2>2. (\E op : Take(op)) /\ committed' = committed
    BY <1>2 DEF HandleAddTag, HandleRemoveTag, Batched
  <2>3. QED
    BY <2>1, <2>2, FilesLeft
<1>3. CASE HandleUpdateDeleted
  <2>1. Take("updateDeleted") /\ committed' = committed
        /\ work' = SetDeleted(work, IdsOf(Head(queue).on), Head(queue).deleted)
    BY <1>3 DEF HandleUpdateDeleted, Batched
  <2>2. work'.store = work.store
    BY <1>1, <2>1 DEF SetDeleted, Databases
  <2>3. QED
    BY <2>1, <2>2, FilesLeft
<1>4. CASE HandleFixMeta
  <2>1. Take("fixImageMetaData") /\ committed' = committed /\ work' = FixMetaData(work)
    BY <1>4 DEF HandleFixMeta, Batched
  <2>2. work'.store = work.store
    BY <1>1, <2>1, FixMetaEffect
  <2>3. QED
    BY <2>1, <2>2, FilesLeft
<1>5. CASE StartCompress \/ StartRender \/ RenderOne \/ Commit
  <2>1. work' = work /\ committed' \in {committed, work'}
    BY <1>5 DEF StartCompress, StartRender, RenderOne, Commit
  <2>2. \E op : Take(op) \/ queue' = queue
    BY <1>5 DEF StartCompress, StartRender, RenderOne, Commit
  <2>3. QED
    BY <2>1, <2>2, FilesLeft
<1>6. CASE HandlePurge
  <2>1. Take("purgeDeletedImages") /\ work' = PurgeDeleted(work) /\ committed' = work'
    BY <1>6 DEF HandlePurge
  <2>2. /\ Stored(work') \subseteq Stored(work)
        /\ \A i \in Stored(work') : work'.store[i] = work.store[i]
    BY <1>1, <2>1 DEF PurgeDeleted, Stored, Databases
  <2>3. \A i \in Stored(work') : work'.store[i] \in Decodable
    BY <2>2 DEF PInv, Pictures
  <2>4. KeepsPictures
    BY <2>2 DEF KeepsPictures, SamePicture
  <2>5. QED
    BY <2>1, <2>3, <2>4, FilesCommitted
<1>7. CASE HandleWriteImage
  <2>1. Take("writeImage")
    BY <1>7 DEF HandleWriteImage
  <2>2. CASE UNCHANGED <<work, committed>>
    BY <2>1, <2>2, FilesLeft
  <2>3. ASSUME NEW id \in Ids, NEW file, file = Head(queue).data, id = NextId(work),
               work' = InsertImage(work, id, file), committed' = work'
        PROVE  PInv' /\ KeepsPictures
    <3>1. queue[1] = Head(queue) /\ queue[1].op = "writeImage" /\ 1 \in DOMAIN queue
      BY <1>1, <2>1, TakenQueue
    <3>2. file \in Decodable /\ file \in Contents
      BY <2>3, <3>1, FileAssumption DEF PInv, QueuedPictures
    <3>3. id \notin Stored(work)
      BY <1>1, <2>3, NextIdIsFree
    <3>4. /\ work'.store[id] = file
          /\ \A i \in Ids \ {id} : work'.store[i] = work.store[i]
      BY <1>1, <2>3, <3>2, InsertImageStores
    <3>5. \A i \in Stored(work') : work'.store[i] \in Decodable
      BY <3>2, <3>4 DEF PInv, Pictures, Stored
    <3>6. KeepsPictures
      BY <3>3, <3>4 DEF KeepsPictures, Stored, SamePicture
    <3>7. QED
      BY <2>1, <2>3, <3>5, <3>6, FilesCommitted
  <2>4. QED
    BY <1>7, <2>2, <2>3 DEF HandleWriteImage
<1>8. CASE CompressOne
  <2>1. UNCHANGED <<queue, committed>>
    BY <1>8 DEF CompressOne
  <2>2. CASE work' = work
    BY <2>1, <2>2, FilesLeft
  <2>3. ASSUME NEW id, work.store[id] # NoRow, id \in Ids, HeaderFormat[work.store[id]] # "jpeg",
               work' = Recompress(work, id)
        PROVE  PInv' /\ KeepsPictures
    <3> DEFINE c == work.store[id]
    <3>1. id \in Stored(work) /\ c \in Decodable
      BY <2>3 DEF Stored, PInv, Pictures
    <3>2. HeaderFormat[JpegOf[c]] = "jpeg" /\ JpegOf[c] \in Decodable /\ JpegOf[c] # NoRow
      BY <3>1, FileAssumption, RowAssumption
    <3>3. /\ work'.store[id] \in {c, JpegOf[c]}
          /\ \A i \in Ids \ {id} : work'.store[i] = work.store[i]
      BY <1>1, <2>3, <3>1, DatabaseParts DEF Recompress, Databases
    <3>4. Stored(work') = Stored(work)
      BY <2>3, <3>2, <3>3 DEF Stored
    <3> HIDE DEF c
    <3>5. \A i \in Stored(work') : work'.store[i] \in Decodable
      BY <3>1, <3>2, <3>3, <3>4 DEF PInv, Pictures, Stored
    <3>6. ASSUME NEW i \in Stored(work') \cap Stored(committed)
          PROVE  SamePicture(committed.store[i], work'.store[i])
      <4>1. i \in Ids /\ SamePicture(committed.store[i], work.store[i])
        BY <3>4 DEF PInv, Conversions, Stored
      <4>2. CASE i # id
        BY <3>3, <4>1, <4>2
      <4>3. CASE i = id
        <5>1. committed.store[i] = c
          BY <2>3, <4>1, <4>3, FileAssumption DEF SamePicture, c
        <5>2. QED
          BY <3>1, <3>3, <4>3, <5>1 DEF SamePicture
      <4>4. QED
        BY <4>2, <4>3
    <3>7. KeepsPictures
      <4>1. \A i \in Ids : SamePicture(work.store[i], work'.store[i])
        BY <3>1, <3>3 DEF SamePicture, c
      <4>2. QED
        BY <4>1 DEF KeepsPictures, Stored
    <3>8. QED
      BY <2>1, <3>5, <3>6, <3>7
      DEF PInv, Pictures, Conversions, QueuedPictures, Stored
  <2>4. \A r \in todo : refs[r].id \in Ids
    BY <1>1 DEF IInv, TypeOK, Refs
  <2>5. QED
    BY <1>8, <2>2, <2>3, <2>4 DEF CompressOne
<1>9. QED
  BY <1>2, <1>3, <1>4, <1>5, <1>6, <1>7, <1>8 DEF WriterStep

LEMMA PicturesStep ==
  ASSUME DecodableFiles, PInv, [Next]_vars
  PROVE  PInv' /\ KeepsPictures
<1>1. IInv'
  BY StepKeeps DEF PInv
<1>2. ASSUME work' = work
      PROVE  KeepsPictures
  BY <1>2 DEF KeepsPictures, SamePicture
<1>3. CASE UNCHANGED vars
  <2>1. UNCHANGED <<work, committed, queue>>
    BY <1>3 DEF vars
  <2>2. QED
    BY <1>1, <1>2, <2>1
    DEF PInv, Pictures, Conversions, QueuedPictures, Stored, SamePicture
<1>4. CASE GuiReceive
  <2>1. work' = work
    BY <1>4 DEF GuiReceive, ImageReady, UpdateImageData
  <2>2. QED
    BY <1>1, <1>2, <1>4, <2>1, QueuedReceive
<1>5. CASE \E b \in BOOLEAN : Restart(b)
  <2>1. work' = committed /\ committed' = committed /\ queue' = <<>>
    BY <1>5 DEF Restart
  <2>2. KeepsPictures
    BY <2>1 DEF KeepsPictures, PInv, Conversions
  <2>3. QED
    BY <1>1, <2>1, <2>2
    DEF PInv, Pictures, Conversions, QueuedPictures, Stored, SamePicture
<1>6. CASE WriterStep
  BY <1>1, <1>6, PicturesWriter
<1>7. CASE \/ \E S \in SUBSET (DOMAIN refs) :
               \/ \E t \in Tags : addTag(S, t) \/ removeTag(S, t)
               \/ \E b \in BOOLEAN : updateDeleted(S, b)
               \/ compressImages(S) \/ renderImages(S)
           \/ \E c \in Importable : Download(c)
           \/ Purge \/ FixMeta
  <2>1. work' = work
    BY <1>7 DEF addTag, removeTag, updateDeleted, compressImages, renderImages, Download,
                Purge, FixMeta, guiRest
  <2>2. QED
    BY <1>1, <1>2, <1>7, <2>1, QueuedGui
<1>8. QED
  BY <1>3, <1>4, <1>5, <1>6, <1>7 DEF Next

\* Conversions, purges, imports that reuse an id and restarts never change what an
\* image shows, if every file that comes in can be decoded (compressImages, writeImage).
THEOREM PicturesAreKept ==
  ASSUME DecodableFiles
  PROVE  Spec => PictureKept
<1>1. Init => PInv
  BY PicturesInit
<1>2. PInv /\ [Next]_vars => PInv' /\ [KeepsPictures]_vars
  BY PicturesStep
<1>3. QED
  BY <1>1, <1>2, PTL DEF Spec, PictureKept, KeepsPictures
================================================================================
