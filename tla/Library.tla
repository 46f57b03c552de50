--------------------------------- MODULE Library ---------------------------------
(***************************************************************************)
(* The image library: the ImageRef objects the GUI thread shows and edits, *)
(* the database the write thread keeps behind them, and what passes        *)
(* between the two.  An edit changes the refs at once and is posted; the   *)
(* write thread carries it out later, in its open transaction, which its   *)
(* own connection sees (work) and the others do not (committed).           *)
(*                                                                         *)
(* When transactions are committed is the subject of DeferredWriter; here  *)
(* endWrite may come between any two requests.                             *)
(***************************************************************************)
EXTENDS ImageDb, Functions, Sequences

CONSTANTS
  Importable,      \* files a download can deliver
  InitialStore,    \* the files in the database at the start, in id order
  WordsOf,         \* tag -> the tags its space-separated words are
  EditGhosts,      \* whether the user edits refs of images that he has purged
  FileWords,       \* the lists of words autotagging finds in the names of files
  MaxRequests,     \* bound on the requests posted in a behaviour
  MaxRestarts      \* bound on the restarts

ASSUME LibraryAssumption ==
  /\ Importable \subseteq Contents /\ InitialStore \in Seq(Contents)
  /\ Len(InitialStore) <= MaxId
  /\ WordsOf \in [Tags -> SUBSET Tags] /\ FileWords \subseteq Seq(Tags)
  /\ EditGhosts \in BOOLEAN
  /\ MaxRequests \in Nat /\ MaxRestarts \in Nat

VARIABLES
  refs,         \* the ImageRefs, by a number that follows the order they are
                \* shown in; a ref is never destroyed
  doomed,       \* the refs that were marked for removal when a purge was posted
  queue,        \* requests posted to the write thread, oldest first
  todo,         \* the refs compressImages has still to look at
  rendering,    \* the refs renderImages has still to export
  work,         \* the database as the write thread's connection sees it
  committed,    \* the database as every other connection sees it
  toGui,        \* signals queued to the GUI thread, oldest first
  posted, restarts

vars == <<refs, doomed, queue, todo, rendering, work, committed, toGui, posted, restarts>>

Refs == [id : Ids, tags : SUBSET Tags, deleted : BOOLEAN, format : Formats]
Requests ==
       [op : {"addTag", "removeTag"}, on : SUBSET DOMAIN refs, tag : Tags]
  \cup [op : {"updateDeleted"}, on : SUBSET DOMAIN refs, deleted : BOOLEAN]
  \cup [op : {"compressImages", "renderImages"}, on : SUBSET DOMAIN refs]
  \cup [op : {"writeImage"}, data : Contents]
  \cup [op : {"purgeDeletedImages", "fixImageMetaData"}]
Signals == [sig : {"writeComplete"}, id : Ids]
             \cup [sig : {"updateImageData"}, ref : DOMAIN refs]
--------------------------------------------------------------------------------
(* Reading the database. *)

\* tagsById: the rows of table tag.
TagsById(d, i) == {t \in Tags : <<i, t>> \in d.tag}

\* all: group_concat joins the tags with spaces, split takes them apart again.
JoinedTags(d, i) == UNION {WordsOf[t] : t \in TagsById(d, i)}

RefOf(d, i, tags) == [id |-> i, tags |-> tags, deleted |-> d.image[i].deleted,
                      format |-> d.image[i].format]

\* all(includeDeleted): a ref for every image; ids follow the dates of the images.
All(d, includeDeleted) ==
  [i \in {i \in HasImage(d) : includeDeleted \/ ~d.image[i].deleted} |->
     RefOf(d, i, JoinedTags(d, i))]

InitialDb ==
  [store |-> [i \in Ids |-> IF i <= Len(InitialStore) THEN InitialStore[i] ELSE NoRow],
   image |-> [i \in Ids |-> IF i <= Len(InitialStore)
                            THEN [format |-> MetaFormat(InitialStore[i], "none"),
                                  deleted |-> FALSE]
                            ELSE NoRow],
   tag   |-> {}]

Init == /\ committed = InitialDb /\ work = InitialDb
        /\ refs = All(InitialDb, TRUE) /\ doomed = {}
        /\ queue = <<>> /\ todo = {} /\ rendering = {} /\ toGui = <<>>
        /\ posted = 0 /\ restarts = 0
--------------------------------------------------------------------------------
(* The GUI thread. *)

Post(request) == /\ posted < MaxRequests /\ posted' = posted + 1
                 /\ queue' = Append(queue, request)

\* What the user may select: a purge leaves the refs of the images it deletes in
\* the view, but he knows that they are gone.
Selectable(S) == S # {} /\ (EditGhosts \/ S \cap doomed = {})

Edited(S, edit(_)) == [r \in DOMAIN refs |-> IF r \in S THEN edit(refs[r]) ELSE refs[r]]

guiRest == <<todo, rendering, work, committed, toGui, restarts>>

\* addTag: the refs that have the tag already are left out of the request.
addTag(S, t) ==
  LET on == {r \in S : t \notin refs[r].tags}
      Edit(ref) == [ref EXCEPT !.tags = @ \cup {t}]
  IN  /\ Selectable(S)
      /\ refs' = Edited(on, Edit)
      /\ Post([op |-> "addTag", on |-> on, tag |-> t])
      /\ UNCHANGED <<doomed, guiRest>>

removeTag(S, t) ==
  LET on == {r \in S : t \in refs[r].tags}
      Edit(ref) == [ref EXCEPT !.tags = @ \ {t}]
  IN  /\ Selectable(S)
      /\ refs' = Edited(on, Edit)
      /\ Post([op |-> "removeTag", on |-> on, tag |-> t])
      /\ UNCHANGED <<doomed, guiRest>>

updateDeleted(S, b) ==
  LET on == {r \in S : refs[r].deleted # b}
      Edit(ref) == [ref EXCEPT !.deleted = b]
  IN  /\ Selectable(S)
      /\ refs' = Edited(on, Edit)
      /\ Post([op |-> "updateDeleted", on |-> on, deleted |-> b])
      /\ UNCHANGED <<doomed, guiRest>>

compressImages(S) == /\ Selectable(S)
                     /\ Post([op |-> "compressImages", on |-> S])
                     /\ UNCHANGED <<refs, doomed, guiRest>>

\* The export of the selection: the files are written by the write thread.
renderImages(S) == /\ Selectable(S)
                   /\ Post([op |-> "renderImages", on |-> S])
                   /\ UNCHANGED <<refs, doomed, guiRest>>

\* A download is complete: its file goes straight to the write thread.
Download(c) == /\ Post([op |-> "writeImage", data |-> c])
               /\ UNCHANGED <<refs, doomed, guiRest>>

\* A purge that overtakes what is queued.
PurgeFirst == /\ posted < MaxRequests /\ posted' = posted + 1
              /\ queue' = <<[op |-> "purgeDeletedImages"]>> \o queue
              /\ doomed' = doomed \cup {r \in DOMAIN refs : refs[r].deleted}
              /\ UNCHANGED <<refs, guiRest>>

\* backgroundTask("purgeDeletedImages").
Purge == /\ Post([op |-> "purgeDeletedImages"])
         /\ doomed' = doomed \cup {r \in DOMAIN refs : refs[r].deleted}
         /\ UNCHANGED <<refs, guiRest>>

\* backgroundTask("fixImageMetaData").
FixMeta == /\ Post([op |-> "fixImageMetaData"])
           /\ UNCHANGED <<refs, doomed, guiRest>>

\* A new ref is shown after all others.
NewRef == Max(DOMAIN refs \cup {0}) + 1
WithRef(r, ref) == [s \in DOMAIN refs \cup {r} |-> IF s = r THEN ref ELSE refs[s]]

PostAll(requests) == /\ posted + Len(requests) <= MaxRequests
                     /\ posted' = posted + Len(requests)
                     /\ queue' = queue \o requests

\* imageReady: createImageRef reads the committed row, if there is one; autotagging
\* then adds each of the words of the file's name, through ImageDao::addTag.
ImageReady(words) ==
  /\ toGui # <<>> /\ Head(toGui).sig = "writeComplete"
  /\ toGui' = Tail(toGui)
  /\ LET id == Head(toGui).id
         found == committed.image[id] # NoRow
         ref == RefOf(committed, id, TagsById(committed, id))
         Fresh(n) == /\ found /\ words[n] \notin ref.tags
                     /\ \A m \in 1..(n - 1) : words[m] # words[n]
     IN  /\ refs' = IF found
                    THEN WithRef(NewRef, [ref EXCEPT !.tags = @ \cup Range(words)])
                    ELSE refs
         /\ PostAll([n \in DOMAIN words |->
                      [op |-> "addTag", tag |-> words[n],
                       on |-> IF Fresh(n) THEN {NewRef} ELSE {}]])
  /\ UNCHANGED <<doomed, todo, rendering, work, committed, restarts>>

\* updateImageData for a ref that compressImages has gone over.
UpdateImageData ==
  LET Edit(ref) == [ref EXCEPT !.format = "jpeg"]
  IN  /\ toGui # <<>> /\ Head(toGui).sig = "updateImageData"
      /\ toGui' = Tail(toGui)
      /\ refs' = Edited({Head(toGui).ref}, Edit)
      /\ UNCHANGED <<doomed, queue, todo, rendering, work, committed, posted, restarts>>

\* The program ends, by a crash or by ~ImageDao, which drops what is queued and the
\* open transaction, and is started again.
Restart(includeDeleted) ==
  /\ restarts < MaxRestarts /\ restarts' = restarts + 1
  /\ work' = committed
  /\ refs' = All(committed, includeDeleted) /\ doomed' = {}
  /\ queue' = <<>> /\ todo' = {} /\ rendering' = {} /\ toGui' = <<>>
  /\ UNCHANGED <<committed, posted>>
--------------------------------------------------------------------------------
(* The write thread. *)

IdsOf(on) == {refs[r].id : r \in on}

\* The oldest request is op and its handler starts.
Take(op) == /\ todo = {} /\ rendering = {}
            /\ queue # <<>> /\ Head(queue).op = op /\ queue' = Tail(queue)

writerRest == <<refs, doomed, posted, restarts>>

Batched(op, d) == /\ Take(op) /\ work' = d
                  /\ UNCHANGED <<writerRest, todo, rendering, committed, toGui>>

HandleAddTag == Batched("addTag",
  InsertTag(work, IdsOf(Head(queue).on), Head(queue).tag))

HandleRemoveTag == Batched("removeTag",
  DeleteTag(work, IdsOf(Head(queue).on), Head(queue).tag))

HandleUpdateDeleted == Batched("updateDeleted",
  SetDeleted(work, IdsOf(Head(queue).on), Head(queue).deleted))

HandleFixMeta == Batched("fixImageMetaData", FixMetaData(work))

\* writeImage that announces the row a duplicate file is stored in.
WriteImageAnnouncingDuplicate ==
  LET c == Head(queue).data
      id == IF HasHash(work, c) THEN CHOOSE i \in Ids : work.store[i] = c
            ELSE NextId(work)
  IN  /\ Take("writeImage")
      /\ id \in Ids
      /\ work' = IF HasHash(work, c) THEN work ELSE InsertImage(work, id, c)
      /\ committed' = work'
      /\ toGui' = Append(toGui, [sig |-> "writeComplete", id |-> id])
      /\ UNCHANGED <<writerRest, todo, rendering>>

\* writeImage: a file that is stored already is dropped without a word.
HandleWriteImage ==
  LET c == Head(queue).data
      id == NextId(work)
  IN  /\ Take("writeImage")
      /\ IF HasHash(work, c) THEN UNCHANGED <<work, committed, toGui>>
         ELSE /\ id \in Ids
              /\ work' = InsertImage(work, id, c) /\ committed' = work'
              /\ toGui' = Append(toGui, [sig |-> "writeComplete", id |-> id])
      /\ UNCHANGED <<writerRest, todo, rendering>>

HandlePurge == /\ Take("purgeDeletedImages")
               /\ work' = PurgeDeleted(work) /\ committed' = work'
               /\ UNCHANGED <<writerRest, todo, rendering, toGui>>

StartCompress == /\ Take("compressImages")
                 /\ todo' = Head(queue).on
                 /\ UNCHANGED <<writerRest, rendering, work, committed, toGui>>

\* The loop body, for an image whose file is a JPEG already or is not.  The refs
\* come in the order of the view.
CompressOne ==
  \E r \in todo :
    LET id == refs[r].id
        row == work.store[id]
    IN  /\ \A s \in todo : r <= s
        /\ todo' = todo \ {r}
        /\ IF row # NoRow /\ HeaderFormat[row] = "jpeg" THEN UNCHANGED <<work, toGui>>
           ELSE /\ work' = IF row = NoRow THEN work ELSE Recompress(work, id)
                /\ toGui' = Append(toGui, [sig |-> "updateImageData", ref |-> r])
        /\ UNCHANGED <<writerRest, queue, rendering, committed>>

StartRender == /\ Take("renderImages")
               /\ rendering' = Head(queue).on
               /\ UNCHANGED <<writerRest, todo, work, committed, toGui>>

\* The loop body writes the file of a ref to disk, under a name made of the tags, the
\* id and the format that the ref has now: nothing in the program records it.
RenderOne == \E r \in rendering :
               /\ \A s \in rendering : r <= s
               /\ rendering' = rendering \ {r}
               /\ UNCHANGED <<writerRest, queue, todo, work, committed, toGui>>

\* endWrite.
Commit == /\ todo = {} /\ rendering = {}
          /\ committed # work /\ committed' = work
          /\ UNCHANGED <<writerRest, queue, todo, rendering, work, toGui>>

WriterStep == \/ HandleAddTag \/ HandleRemoveTag \/ HandleUpdateDeleted
              \/ HandleFixMeta \/ HandleWriteImage \/ HandlePurge
              \/ StartCompress \/ CompressOne \/ StartRender \/ RenderOne \/ Commit
GuiReceive == (\E words \in FileWords : ImageReady(words)) \/ UpdateImageData

Next == \/ \E S \in SUBSET (DOMAIN refs) :
             \/ \E t \in Tags : addTag(S, t) \/ removeTag(S, t)
             \/ \E b \in BOOLEAN : updateDeleted(S, b)
             \/ compressImages(S) \/ renderImages(S)
        \/ \E c \in Importable : Download(c)
        \/ Purge \/ FixMeta
        \/ GuiReceive
        \/ \E b \in BOOLEAN : Restart(b)
        \/ WriterStep

Spec == Init /\ [][Next]_vars

\* Both event loops run.  A request the write thread has taken it finishes.
FairSpec == Spec /\ WF_vars(WriterStep) /\ WF_vars(GuiReceive)
--------------------------------------------------------------------------------
TypeOK == /\ refs \in [DOMAIN refs -> Refs] /\ doomed \subseteq DOMAIN refs
          /\ queue \in Seq(Requests) /\ toGui \in Seq(Signals)
          /\ todo \subseteq DOMAIN refs /\ rendering \subseteq DOMAIN refs
          /\ work \in Databases /\ committed \in Databases
          /\ posted \in 0..MaxRequests /\ restarts \in 0..MaxRestarts

Live == DOMAIN refs \ doomed

\* The queued requests of the given kinds that will touch the rows of id.
Touching(ops, id) == {i \in DOMAIN queue : queue[i].op \in ops /\ id \in IdsOf(queue[i].on)}

\* Every stored file has its image row and every image row its file, in the open
\* transaction and in the committed database: RawImageQuery never comes back empty
\* for an image that is listed (writeImage, task_purgeDeletedImages).
StoreImageAgree == Stored(work) = HasImage(work) /\ Stored(committed) = HasImage(committed)

\* A tag is shown on an image exactly if the last queued request about the two adds
\* it or, when none is queued, if the write thread's database has it: whatever the
\* order in which edits, imports and purges are carried out, the database ends up
\* with what the user saw (addTag, removeTag, createImageRef, all).
TagsAgree ==
  \A r \in Live, t \in Tags :
    LET id == refs[r].id
        about == {i \in Touching({"addTag", "removeTag"}, id) : queue[i].tag = t}
    IN  t \in refs[r].tags <=> IF about = {} THEN <<id, t>> \in work.tag
                               ELSE queue[Max(about)].op = "addTag"

\* The same of the mark for removal (updateDeleted).
DeletedAgree ==
  \A r \in Live :
    LET id == refs[r].id
        about == Touching({"updateDeleted"}, id)
    IN  /\ work.image[id] # NoRow
        /\ refs[r].deleted = IF about = {} THEN work.image[id].deleted
                             ELSE queue[Max(about)].deleted

\* No two refs the user can act on stand for the same row, and none for a row whose
\* import is still to be announced (createImageRef after all, id reuse).
LiveIdsDistinct ==
  /\ \A r, s \in Live : refs[r].id = refs[s].id => r = s
  /\ \A r \in Live : \A i \in DOMAIN toGui :
       toGui[i].sig = "writeComplete" => toGui[i].id # refs[r].id

\* What the user sees of an image he can act on is what the database will hold of it,
\* and he sees it once (addTag, removeTag, updateDeleted, createImageRef, all).
RefsAgree == TagsAgree /\ DeletedAgree /\ LiveIdsDistinct

\* No tag outlives its image: an id that SQLite gives out again would hand the tag
\* to another picture (task_purgeDeletedImages against addTag and createImageRef).
TagsHaveImages == \A row \in work.tag : row[1] \in HasImage(work)

\* A file is only ever replaced by the JPEG of its picture, or put back by a restart
\* that undoes this: conversions and id reuse never change what an image shows
\* (compressImages, writeImage).
SamePicture(c, d) == c = d \/ (c \in Decodable /\ d = JpegOf[c])
PictureKept ==
  [][\A i \in Stored(work) \cap Stored(work') :
       SamePicture(work.store[i], work'.store[i]) \/ SamePicture(work'.store[i], work.store[i])]_vars

\* "Delete images marked for removal" deletes no others: a row never disappears while
\* a ref shows it that was not marked when a purge was asked for, or before the user
\* has seen it (backgroundTask, task_purgeDeletedImages).
PurgeSparesUnmarked ==
  [][\A i \in Stored(work) \ Stored(work') :
       /\ \A r \in Live : refs[r].id # i
       /\ \A n \in DOMAIN toGui : toGui[n].sig = "writeComplete" => toGui[n].id # i]_vars

\* "Convert selected images to JPEG": once the loop has gone over an image, its file
\* is a JPEG (compressImages).
ConvertedAreJpeg ==
  [][\A r \in todo \ todo' :
       LET file == work'.store[refs[r].id]
       IN  restarts' = restarts /\ file # NoRow => HeaderFormat[file] = "jpeg"]_vars

\* An export finds the file of every image that was selected for it, also of those
\* that are purged soon after, and a JPEG goes by another name only while the GUI
\* thread has yet to hear of its conversion (renderImages against backgroundTask and
\* updateImageData).
ExportsShown ==
  [][\A r \in rendering \ rendering' :
       LET file == work.store[refs[r].id]
       IN  restarts' = restarts =>
             /\ file # NoRow
             /\ file \in Decodable /\ HeaderFormat[file] = "jpeg" =>
                  \/ refs[r].format = "jpeg"
                  \/ [sig |-> "updateImageData", ref |-> r] \in Range(toGui)]_vars

\* When the user stops, everything he sees becomes permanent, every import comes to
\* be seen, and it stays that way: no request or signal is left behind.
Settled == /\ queue = <<>> /\ todo = {} /\ rendering = {} /\ toGui = <<>>
           /\ committed = work
           /\ \A r \in Live : LET id == refs[r].id
                              IN  /\ id \in HasImage(committed)
                                  /\ refs[r].tags = TagsById(committed, id)
                                  /\ refs[r].deleted = committed.image[id].deleted
           /\ \A i \in HasImage(committed) \ Marked(committed) :
                \E r \in Live : refs[r].id = i
EventuallySettled == <>[]Settled
==================================================================================
