-------------------------------- MODULE ImageDb --------------------------------
(***************************************************************************)
(* The image database and the SQL statements of imagedao.cpp, as operators *)
(* from database to database.  A database is a record of its three tables: *)
(* store (the image files, their hash UNIQUE), image (what is known about  *)
(* them) and tag.  Files are members of Contents and SHA-256 tells them    *)
(* apart; of the columns of image the model keeps format and deleted, the  *)
(* two that handlers change after the import.                              *)
(***************************************************************************)
EXTENDS Naturals, FiniteSetsExt

CONSTANTS
  Contents,        \* files an image can consist of
  HeaderFormat,    \* file -> what QImageReader::format says of it
  Decodable,       \* files QImageReader::read can decode
  JpegOf,          \* file -> what decoding it and saving it as JPEG gives
  Tags,
  MaxId,           \* bound on the row ids
  NoRow            \* there is no such row

Ids     == 1..MaxId
Formats == {"jpeg", "png", "none"}

ASSUME FileAssumption ==
  /\ HeaderFormat \in [Contents -> Formats] /\ Decodable \subseteq Contents
  /\ JpegOf \in [Contents -> Contents]
  /\ \A c \in Decodable : HeaderFormat[JpegOf[c]] = "jpeg" /\ JpegOf[c] \in Decodable
ASSUME RowAssumption == MaxId \in Nat /\ NoRow \notin Contents

ImageRows == [format : Formats, deleted : BOOLEAN]
ASSUME NoImageRowAssumption == NoRow \notin ImageRows

Databases == [store : [Ids -> Contents \cup {NoRow}],
              image : [Ids -> ImageRows \cup {NoRow}],
              tag   : SUBSET (Ids \X Tags)]

Stored(d)   == {i \in Ids : d.store[i] # NoRow}
HasImage(d) == {i \in Ids : d.image[i] # NoRow}
Marked(d)   == {i \in HasImage(d) : d.image[i].deleted}

\* The rows of table image with format f in the rows ids.
WithFormat(rows, ids, f(_)) ==
  [i \in Ids |-> IF i \in ids /\ rows[i] # NoRow THEN [rows[i] EXCEPT !.format = f(i)]
                 ELSE rows[i]]
--------------------------------------------------------------------------------
\* INSERT OR IGNORE INTO tag, DELETE FROM tag, for each of the ids.
InsertTag(d, ids, t) == [d EXCEPT !.tag = @ \cup (ids \X {t})]
DeleteTag(d, ids, t) == [d EXCEPT !.tag = @ \ (ids \X {t})]

\* An UPDATE that sets the mark whatever the request says.
SetDeletedAlways(d, ids, b) ==
  [d EXCEPT !.image = [i \in Ids |-> IF i \in ids /\ @[i] # NoRow
                                     THEN [@[i] EXCEPT !.deleted = TRUE] ELSE @[i]]]

\* UPDATE image SET deleted: ids without a row are passed over.
SetDeleted(d, ids, b) ==
  [d EXCEPT !.image = [i \in Ids |-> IF i \in ids /\ @[i] # NoRow
                                     THEN [@[i] EXCEPT !.deleted = b] ELSE @[i]]]

\* An INSERT of a file whose hash is stored is ignored.
HasHash(d, c) == \E i \in Ids : d.store[i] = c

\* An id that is already taken.
NextIdTaken(d) == IF Stored(d) = {} THEN 1 ELSE Max(Stored(d))

\* The rowid SQLite gives an INTEGER PRIMARY KEY that is not AUTOINCREMENT: ids of
\* deleted rows come back.
NextId(d) == IF Stored(d) = {} THEN 1 ELSE Max(Stored(d)) + 1

\* updateImageMetaData: a file that cannot be decoded leaves the row as it was.
MetaFormat(c, old) == IF c \in Decodable THEN HeaderFormat[c] ELSE old

\* The rows writeImage inserts for the file c.
InsertImage(d, id, c) ==
  [d EXCEPT !.store[id] = c,
            !.image[id] = [format |-> MetaFormat(c, "none"), deleted |-> FALSE]]

\* task_fixImageMetaData.
FixMetaData(d) ==
  LET Fixed(i) == IF d.store[i] = NoRow THEN d.image[i].format
                  ELSE MetaFormat(d.store[i], d.image[i].format)
  IN  [d EXCEPT !.image = WithFormat(@, Ids, Fixed)]

\* A purge that leaves the tags of the images it deletes.
PurgeKeepingTags(d) ==
  [d EXCEPT !.store = [i \in Ids |-> IF i \in Marked(d) THEN NoRow ELSE @[i]],
            !.image = [i \in Ids |-> IF i \in Marked(d) THEN NoRow ELSE @[i]]]

\* A purge that has forgotten which images were marked when it comes to the store.
PurgeKeepingStore(d) ==
  [d EXCEPT !.image = [i \in Ids |-> IF i \in Marked(d) THEN NoRow ELSE @[i]],
            !.tag = {row \in @ : row[1] \notin Marked(d)}]

\* task_purgeDeletedImages.
PurgeDeleted(d) ==
  [d EXCEPT !.store = [i \in Ids |-> IF i \in Marked(d) THEN NoRow ELSE @[i]],
            !.image = [i \in Ids |-> IF i \in Marked(d) THEN NoRow ELSE @[i]],
            !.tag   = {row \in @ : row[1] \notin Marked(d)}]

\* Recompress that records the file name extension instead of the format.
RecompressJpg(d, id) ==
  LET Jpg(i) == "jpg"
  IN  [d EXCEPT !.store[id] = JpegOf[@], !.image = WithFormat(@, {id}, Jpg)]

\* What compressImages writes for an image that is not a JPEG yet: the UPDATE of
\* store fails when another row has that hash, the UPDATE of image does not.
Recompress(d, id) ==
  LET c == JpegOf[d.store[id]]
      taken == \E i \in Ids \ {id} : d.store[i] = c
      Jpeg(i) == "jpeg"
  IN  [d EXCEPT !.store[id] = IF taken THEN @ ELSE c,
                !.image = WithFormat(@, {id}, Jpeg)]
================================================================================
