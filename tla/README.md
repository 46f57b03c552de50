# A formal model of thumper-img

thumper-img keeps a library of images in a SQLite database and shows it in a QML
window. This directory holds TLA+ modules that model it, TLC configurations that
check them on small instances, and proofs that TLAPS checks for every value of
the constants. All paths below are relative to the repository (`src/` in
`PROJECT.json`). Run the tools in this directory:

    tlc -workers 2 -config Writer.cfg DeferredWriter.tla
    tlapm DeferredWriterProofs.tla

## 1. The system

### Threads and what passes between them

    GUI thread                         write thread (ImageDaoDeferredWriter)
    QML, ImageDao, ImageRefs  --deferred* signals-->  one slot per request
                              <--busyChanged, writeComplete, updateImageData--
          ^                                   |
          | imageReady                        | transaction, write lock
    download thread (ImageFetcher) --------> (through deferredWriteImage)
    loader threads (ThumperAsyncImageResponse)  -- makeThumbnail --> write lock

Every arrow is a queued Qt connection: a FIFO queue per receiving thread.
`QTimer::singleShot(0, ...)` posts to the same queue of the thread itself, so
the two timer slots of the write thread, `endWrite` and `endBusy`, are events
among the requests.

### Components

| component | state | operations | where it is hard |
|---|---|---|---|
| write thread (`imagedao.cpp` 688-911) | open transaction, busy flag, event queue | `startWrite`/`endWrite`, `startBusy`/`endBusy`, the request slots, vacuum, render | one lock taken and released in different events; early commits leave timers behind; shutdown drops what is queued |
| image database | tables store, image, tag, thumbN, meta | the SQL statements of the slots | statements that fail half-way are only logged; ids of deleted rows come back |
| GUI side of ImageDao (219-468), `main.qml` | ImageRefs: tags, mark, format | edit now, post the write | refs and rows are changed at different times; purged images stay in the view |
| thumbnails (`imagedao.cpp` 482-652, `thumperimageprovider.*`) | thumbN tables, loader threads | request, cancel, store, clear | cancel flag read without a lock; stale thumbnails after id reuse |
| schema upgrade (36-150), `metaPut`/`metaGet` | table meta | upgrade by versions in one transaction | failure in the middle; two processes that open the file at once; the ROLLBACK of the error path jumps to itself |
| undo history (`main.qml` 168-221, 807-827) | a stack of inverse actions | action, undo, undo/redo | an inverse is recorded for the refs that really changed |
| tag lists (`taglist.*`) | a sorted list mirrored in a view | `update`: merge of two sorted lists with row signals | row indices while rows come and go |
| duplicate search (`imagemetadata.cpp` 220-388) | none | popcount, clustering | merging clusters |
| perceptual hash, autoCrop (`imagemetadata.cpp` 1-182, `dct/`) | none | pixels to hash | boundaries |
| text templates (`thumper.cpp`) | none | `$name$` substitution | unterminated names |
| downloads (`imageprocessor.cpp`) | requests under way | download, redirect | answers in any order, quitting with files under way |
| SQLite helper (`sqlitehelper.*`) | a pool of connections, the write mutex | open, close | pool shared by all threads |
| selection, shortcuts, lightbox (QML) | selected refs | select ranges, toggle | the selection derived from refs in view |
| file utilities, `main.cpp`, build files | | | plain I/O or set-up |
| `sqlite3.c`, `sqlite3.h` | | | vendored |

### What makes each component correct

* Write thread: at most one connection writes at a time; the thread never waits
  for itself; every transaction is committed and every lock given back; requests
  are handled once, in order, and become permanent; the indicator tells the truth.
* Library: the database ends up with what the user saw, whatever the order of
  edits, imports, conversions, purges and restarts; a picture is never lost or
  exchanged for another; a purge removes exactly what was marked.
* Thumbnails: a stored thumbnail is one of the image whose id it has, and is never
  a cancelled, partial one.
* Schema upgrade: after any crash the next start finds a complete version.
* Undo: undoing everything restores the tags and marks there were.
* Tag list: the view's copy equals the list after every update.
* Duplicates: each image belongs to at most one cluster.
* autoCrop: the box holds what differs from the background, and is never empty.
* Downloads: each URL is settled once, by what it leads to; no file is stored or shown twice.
* Tag lists of the window: a tag listed for the selection is one that a click removes.

## 2. The plan

All ten are written and checked.

1. `DeferredWriter` with the abstract promise `WriteBehind`, and its proofs.
2. `ImageDb`: the tables store, image and tag, and their statements as operators.
3. `Library`: GUI refs, request queue, database, restart, and its first proofs.
4. `UndoHistory`: the action stack over edits of tags and marks.
5. `Thumbnails`: loader threads, cancel flag, connection pool, thumbnail tables against
   purge, clear and id reuse.
6. `Migration`: the constructor's upgrade, by several processes, with a crash between any
   two statements.
7. `TagListModel` (`update` with a view that follows the row signals) and `Duplicates`
   (clustering).
8. `Selection` (what commands act on), composed with `UndoHistory` in `Window` over the
   refs of `ImageRefs`, so that edits act on what is selected and undo meets searches.
9. `Downloads` with the abstract `Imports`; `AutoCrop` with its proofs; the abstract
   `TagList` under `TagListModel`.
10. The three lists of tags composed with `Window`; the export in `Library`.

Every safety property of the passing runs is proved in its general form, and so is the safety
part of every refinement. What is left to the model checker is liveness.

## 3. The modules

### WriteBehind and DeferredWriter

`WriteBehind` says what `ImageDao` promises about deferred requests in four
variables: requests posted, handled and durable, and whether the thread has
stopped. `DeferredWriter` is the thread itself.

| model | code |
|---|---|
| `writeQueue` | the event queue of the write thread: requests, `"endWrite"`, `"endBusy"` |
| `wpc`, `task` | the slot being run and how far it is: blocked in `lock()` or past it |
| `inTransaction`, `busy` | `m_inTransaction`, `m_busy` of the writer |
| `writeLock` | owner of `SQLiteConnectionPool::m_writeLock` |
| `loader` | where a loader is in the last block of `makeThumbnail` |
| `toDao`, `daoBusy` | queued signals to the GUI thread, `ImageDao::m_busy` |
| `posted`, `handled`, `durable` | counters for the promise: not in the code |

A slot runs in the steps other threads can tell apart: up to the lock
(`Take`, `TakeVacuum`), the lock (`StartWrite`, `VacuumLock`), the rest
(`HandleBatched`, `HandleCommitting`, `VacuumDone`). `HandleBatched` of an import
is the early return for a duplicate file. `Exit` may end the event loop between
any two events after `quit()`; Qt leaves the loop after the events it is
delivering, so this over-approximates it. When a slot
takes the lock the others see it as one step, and `QMutex` gives no order among
waiters.

### ImageDb and Library

`ImageDb` is a database as a record of its three tables and one operator per SQL
statement or group of statements. A file is a value of `Contents`; `Decodable`,
`HeaderFormat` and `JpegOf` say what Qt makes of it. Of an image row the model
keeps the format and the mark, the columns that change after the import. `NextId` is SQLite's rule
for an `INTEGER PRIMARY KEY` without `AUTOINCREMENT`: one more than the largest
id in the table.

| model | code |
|---|---|
| `refs` | the `ImageRef` objects by number; numbers follow the order in the view |
| `queue`, `toGui` | requests to the write thread, signals from it |
| `todo`, `rendering` | the refs the loops of `compressImages` and of `renderImages` have still to look at |
| `work`, `committed` | the database in the write thread's transaction, and for all others |
| `doomed` | refs marked when the user asked for a purge: not in the code |

An edit (`addTag`, `removeTag`, `updateDeleted`) changes the refs and posts the
refs that changed. The write thread reads the row id when it handles the request.
`ImageReady` is `onImageReady` with `createImageRef` and autotagging, for every
list of words a file name can give. `Commit` may come at any point between two
requests: when it really comes is the subject of `DeferredWriter`. `Restart`
stands for a crash and for a regular end: both drop the queues and the open
transaction.

`EditGhosts` says whether the user goes on editing refs of images that are
purged. Where it is FALSE the properties are about a user who leaves them alone.

`renderImages` posts the selection, and the write thread goes over it one ref at a time.
It takes the file from the database and the file name from the ref, which the GUI thread may
have edited since; nothing in the program records what was written to disk, so `RenderOne`
changes only `rendering`, and `ExportsShown` is about what the step finds. Padding, scaling
and the clipboard are left out. The tags and the format are read in one step, though the code
takes no lock for them.

### Thumbnails

| model | code |
|---|---|
| `store`, `thumb` | the image and the thumbnail tables; size n stands for 40 * 2^(n-1) pixels |
| `refSize` | `m_size` of the ref in `m_refMap`, by id |
| `pc`, `id`, `want`, `at` | where a loader is in `requestImage` or `makeThumbnail`, and for which sizes |
| `input`, `cancelled` | the image in the loader's hands; the `volatile bool` |
| `conn`, `pool`, `made` | the connection pool |
| `past`, `seen` | what an id has stood for, ever and since the request: not in the code |

`makeThumbnail` calls itself for the next larger size; since each call is for exactly
one size more, the stack is the interval from `want` to `at`, and `Return` goes one down.
A step of a loader is what it does between two looks at the cancel flag, a table or the pool. The
write thread's transactions are one step each: `DeferredWriter` says why they
exclude one another. A picture is a model value; `SizeOf` is the largest thumbnail
size that it covers. A file that cannot be decoded gives a null image, which is saved as a
blob of no bytes and read back as null.

### Migration

The constructor's statements are a list of tuples <<version, operation, table, columns,
source>>, in the order of the code, and a table is a function from column names to the
column that its values come from, so that a wrong copy shows. `Valid` and `Result` are
SQLite's rules for the statements used here; `MayWrite` is its rule for WAL
transactions (a snapshot, one writer, no waiting). `Begin` includes the first read, which is
what takes the snapshot. `Skip` passes all the version tests up to the next statement that
is carried out at once, since they look at nothing but the process's own variables. The six thumbnail tables are one table.

| `pc` | code (`imagedao.cpp`) |
|---|---|
| "pragma", "refused" | from the opening of the connections to the end of line 63; it has failed with SQLITE_BUSY and its locks are about to be given back |
| "begin", "upgrade" | BEGIN and the first read (65-76); the statements, to COMMIT (67-144) |
| "error", "looping" | the label (147) with a transaction open; without one, where ROLLBACK fails and jumps to the label |
| "ready", "failed" | returned from line 145, or from 149 |
| "closing", "off" | the destructor of the connection pool; no process |

To open a file takes locks that two processes cannot have at once: to put a file in WAL mode, to
open or recover the log, to close it as the last one. No busy timeout is set, so while one process is
at it (`Hindered`) the pragma of another may fail (`PragmaBusy`), both may fail each other, and a first
read may fail (`BeginBusy`): `tableExists` then takes the table for missing, and the CREATE fails. The
read that fails is in a transaction and ROLLBACK ends it; the pragma that fails is not. A process
that is through with opening cannot hinder another one.

### ImageRefs, UndoHistory, Selection and Window

`ImageRefs` holds what the others share: the refs, each as the set of its labels. The mark
for removal is one more label beside the tags, since the four recorded actions have one
shape. `Window` composes `UndoHistory` and `Selection`: an edit acts on the effective
selection, a search goes by the labels the edits have made, undo works whatever the view
shows, and an import adds a ref to both.

| model | code |
|---|---|
| `refs` | `allSimpleList` |
| `history` | `actionHistory`; a closure is a record of the action, the refs and the label |
| `view`, `currentIndex` | `viewModelSimpleList`; `list.currentIndex`, from 1, 0 for none |
| `selected`, `selectionModel` | `ImageRef::m_selected`, `selectionModel` |
| `effective`, `watching` | the binding `effectiveSelectionModel` |
| `past`, `toggled`, `mixed` | what the refs were before each action, before the last Ctrl+Z, and whether Ctrl+Z was used: not in the code |
| `selectionTags`, `viewTags`, `allTags` | the three `QmlTaskListModel`s, as counts of tags |

The tag lists hold what `tagCount` gave them when they were last updated: for the selection
and the view when the binding changes or a tag is edited (`rebuildTagModels`), for all refs
when a tag is edited. A click on a tag of the selection removes it and the popup searches the
view by the tags listed for it, so those lists restrict the actions.

The binding is a variable of its own, with `watching` for whether its last evaluation read
`currentIndex`: QML evaluates a binding again when a property that it has read is assigned,
and pushing onto an array assigns nothing. `Purge` is not part of the window: it does not
touch the refs.

### TagRows, TagList and TagListModel

`TagList` says what a list of tags promises: it shows the count that it was last given, sorted,
and check marks stay with their tags. `TagListModel` is `update` with the view: `tags` is
`m_tags`, `view` is the copy of a view that applies each signal as it comes. The loops of
`update` are one step per row, with `pc` for the loop. A click may come between two updates
and not within one: both run on the GUI thread. The refinement maps `list` to the
view when `update` has returned, and before that to what the update is to make of it.
`TagRows` holds the rows, which both share; `Sorted` takes the `Nth` of the tags rather than
sorting by recursion, so that the list can be reasoned about.

### Duplicates

Hashes are model values and `near` is any set of pairs, so the runs cover every outcome of
`hammingDistance`. `Collect`, `Compare` and `List` are the three loops. The last walks an
`unordered_map` and may take the clusters in any order.

### AutoCrop

An image is the set of its pixels that differ from the one at the origin by more than the
threshold. The two loops are one step per row; `FromLeft` and `FromRight` say where the scan of
a row stops. `top` and `bottom` are set as the code sets them: `top` to the last blank row (not
the row behind it), so one blank row may stay.

### Imports and Downloads

`Imports` says what the user may expect of the URLs that he drops: each is settled once, in
any order, by the file that it leads to. `Downloads` is the way there.

| model | code |
|---|---|
| `web` | what the network answers to each URL: a file, an error, or another URL |
| `asked` | `startDownload` signals queued to the download thread |
| `underWay` | the replies of `ImageFetcher::manager` |
| `toGui`, `toWriter` | `downloadComplete` and `writeComplete`, and `deferredWriteImage`, queued |
| `stored`, `shown` | the rows of table store in the order of ids, and `allSimpleList` |
| `dropped` | the drops, by number: not in the code |

`startDownload` is a signal of the GUI object and a slot of the fetcher. The fetcher calls its own
slot for a redirect, which runs at once. `Restart` drops every queue and every reply, and
starts with what is stored. A URL ends at the only answer that is no redirect among those to the URLs
it reaches, or nowhere (`Reached`, `EndOf`). Files are never purged here: see `Library`. The network
manager of Qt 6 follows redirects by itself unless told otherwise; the handler's branch is modelled as
it is written, so the model holds with either.

## 4. What is checked

| run | bounds | shows |
|---|---|---|
| `Writer` | 2 loaders, 2 requests of any kinds, 2 stores | every handler in its transaction, lock and transaction in step, no self-wait, imports announced when durable; `ImplementsWriteBehind`, no loader and no indicator left hanging |
| `Library` | 1 image and 1 file to import, 1 tag, 4 requests, 1 restart | agreement of refs and database, tables, pictures, purge, exports; everything becomes permanent and visible |
| `ThumbnailAnswers` | 2 symmetric loaders, 3 pictures (one broken), 2 sizes, 3 ids, 2 requests, 2 changes | no shared connection, thumbnails and answers of the right image, no unexplained blank, every step nears the answer |
| `Upgrade` | 2 processes, 3 starts, files of every version, usable or not | the file has the format it says, no value is lost, statements fail only under contention; the constructor returns from wherever a transaction is open, and before that unless another process opens or closes the file |
| `WindowEdits` | 1 tag and the mark, up to 3 refs, 4 steps | commands act on what is seen, hidden refs stay as they are, undo goes back the way the edits came, Ctrl+Z twice changes nothing, the lists of tags are true |
| `DuplicateSearch` | 4 symmetric hashes, lists of up to 5 images | clusters are the components; what is listed |
| `TagLists` | 4 names, counts to 2, 4 updates or clicks | row signals, assertions; `ImplementsTagList`: merge and check marks |
| `Downloads` | 3 URLs, 2 files, 2 drops, 1 restart, every web of answers | each drop settled once; `ImplementsImports`, with liveness |
| `Cropping` | every image of up to 4 by 4 pixels | the box is the one that a look at every pixel finds |
| `PurgeGhost`, `ConvertBroken`, `RollbackLoops` | | disagreements, see section 6 |

Bounds. Two requests give every case of the writer's batching: a transaction, an
early commit by an import or a purge, and a second transaction while the first one's
timer is still queued (three requests hold too, in two minutes). Two loaders compete with
each other and with the writer. In the library one image and one importable file give
purge, id reuse and re-import; four requests allow mark, purge, import and an edit of the
new image under the old id, or an edit, its opposite, and a conversion around an import
(five hold too, in three minutes). One restart may come anywhere; a second one starts
from a state of the same form. The user of this run leaves refs of purged images alone
(`EditGhosts` FALSE), and the tag is one word: `PurgeGhost` and `TagSpaces.cfg` show why.

Two thumbnail sizes give a recursion and its end at the largest size; two requests are two
loaders on one image, or one that comes after a change; two changes are a purge and an
import. In `ThumbnailAnswers` ids are not given out again (`Reuse` FALSE); `StaleThumbnail.cfg` shows
what happens when they are. In the upgrade three starts are two processes at a time and one
that is started again after a crash, or after it was closed. Four steps in the window are two edits that overlap and
the two undos of them, a search and a selection between edits, or an import between them.
Four hashes suffice to merge two clusters of two. Four names let a merge remove, keep and
insert on both sides of a kept row. Three URLs give a redirect that ends, one that
leads back to itself, and two URLs for one file; two drops race each other. The proofs of
cropping are for images of any size, the run for those that fit all its branches.

Fairness. The write thread and the GUI thread run event loops, so each of their
next events is eventually delivered: weak fairness on the step of each thread.
A loader that waits for a lock that stays free gets it: weak fairness per loader.
Nothing is assumed of the user. Because every loader stores a bounded number
of thumbnails the lock cannot be taken from a waiter for ever; strong fairness of
the mutex is not assumed. The statements of a constructor are straight-line code: weak
fairness on the step of each process in `Migration`. In `Downloads` the three event loops
are fair, and so is each answer: that the network answers every request, if with an
error, is an assumption about the outside, for the code sets no timeout. It is what
`ImplementsImports` rests on, and it fails without. Crashes, requests, cancelling and
changes are never forced to happen. After shutdown the liveness properties promise nothing,
since the code promises nothing.

That a thumbnail request is answered is stated without fairness: `AnswerNears` says that
every step of a loader comes nearer to its answer by a measure (`ToGo`) that no other
thread's step can raise, whatever is cleared, purged, imported or cancelled meanwhile.

Deadlock checking is off in the runs where the program rightly comes to rest once the user has
used up the bound on requests.

## 5. What is proved

Theorems hold for every value of the constants that satisfies the `ASSUME`s and, where they have
one, the hypothesis named. Each proof module begins with the facts about its data, defines the
inductive invariant, has one lemma per action or group of actions, and ends with the theorems.

| module | theorems | hypothesis |
|---|---|---|
| `DeferredWriterProofs` | all invariants of run `Writer`; `EndWriteScheduled`, `BusyScheduled`, `IndicatorFollows`, `Accounted`; the safety part of implementing `WriteBehind` | |
| `LibraryProofs` | `TypeOK`, `StoreImageAgree` | |
| | `RefsAgree` | `~EditGhosts`, tags are one word |
| | `TagsHaveImages`, `PurgeSparesUnmarked`, `ExportsShown`, the part of `RefsAgree` about marks | `~EditGhosts` |
| | `PictureKept` | every file can be decoded |
| `ThumbnailProofs` | `TypeOK`, `ConnectionsExclusive`, `AnswerNears`, `AnswersShow` | |
| | `AnswersRight`, `ThumbnailsOwn` | `~Reuse` |
| `WindowProofs` | `TypeOK`, `UndoRestores`, `ToggleTwice`, `HiddenKept`, `ActsOnShown`, `TagListsTrue` | |
| `TagListProofs` | `TypeOK`, `MergeInStep`, `ImplementsTagList` | |
| `ImageMetadataProofs` | `TypeOK`, `ClustersAreComponents`, `ListsDuplicates` of `Duplicates` | |
| | `EdgesInImage`, `BoxTight` of `AutoCrop` | |
| `MigrationProofs` | `TypeOK`, `DatabaseWhole`, `FailsOnlyContended` | |
| `DownloadsProofs` | `TypeOK`; `NothingMixedUp`; the safety part of implementing `Imports` | |

The hypotheses are needed: `PurgeGhost`, `TagSpaces.cfg`, `ConvertBroken` and
`StaleThumbnail.cfg` (section 6) are the same models without them.

`DeferredWriterProofs`, for any loaders and bounds. The inductive invariant `IInv` adds to the
properties what each place of the write thread's slot implies: it asks for the lock only when no
transaction is open, the busy flag is on from the moment `startBusy` has run until the one queued
`endBusy` is delivered, an announced import is among the durable ones. `Accounted` says that what
was posted is what is queued, in a slot, or handled; with it every step of the thread is a step of
`WriteBehind` or none.

`LibraryProofs`. The type invariant makes requests name existing refs, also
after a restart has replaced them all; the tables agree because each statement
keeps them in agreement, which one lemma per statement of `ImageDb` shows. The
other properties, for any files, tags, and numbers of requests and restarts,
compare GUI and database when the queue is empty, so the invariant has to say what the
queue will do. `WillBeTagged` and `WillBeMarked` read off the last request that decides a tag or a
mark, or the row if there is none. `Attached(A)` says of the refs `A` whose rows still exist that
no two have one row, that no request names another ref, that the live ones come out of the queue
as the user sees them and unmarked at every purge (`Kept`), that a doomed one is named by nothing
behind the purge that takes it (`Condemned`), and that an import not yet shown is `Untouched` by any
of them: this is what keeps a new image apart from the old one with its id. `A` is left to a
quantifier, since the state does not record it. `PictureKept` has an invariant of its own: a
transaction replaces a file at most by its JPEG, so what is committed and what is in work
show one picture.

`ThumbnailProofs`, for any loaders, pictures, sizes and imports. The recursion of
`makeThumbnail` stays between the size asked for and the largest; each connection is once in the
pool or with one loader, which has it exactly between `open` and `close`. `Moves`
summarises what any step does to a loader's place, size and connection; clearing, purging and
cancelling touch none of the three, hence `AnswerNears`. What is looked up, scaled or answered is a
picture its id has had (`DInv`). Without reuse an id has one picture for ever, for the largest id
in use is never purged, so the next one is new (`OnePicture`); then no thumbnail is larger
than its picture (`Sized`).

`WindowProofs`, for any tags, refs and number of steps. An inverse is recorded for the refs that
changed and no others, hence it restores just what was there (`UndoInv`), whatever else lies
between; `ToggleReady` says the same of the entry that Ctrl+Z itself leaves. The effective
selection is the selected refs in view, or one item at most (`SelectionInv`), though a push
evaluates no binding: a new ref is never selected. The tags of the selection are counted anew
whenever either changes, those of the other lists may lack the newest refs (`TagsInv`).

`TagListProofs`. `MergeInv` says for each loop of `update` what it has achieved in the rows up to
its iterator: new counts, only tags in use, all smaller tags inserted. Throughout the rows ascend,
and marks go with names. A row removed or inserted keeps this (`Inserted`, `Removed`), and there is
only one ascending list of rows that shows a count (`SortedShows`, `ShowsSorted`): when the
last loop ends the rows are `Sorted`.

`ImageMetadataProofs`, for any images, hashes and relation of nearness. The clusters are, after each
comparison, the components of the graph of the pairs compared (`JoinedBy`), and the maps between
hashes and clusters are inverse (`Parted`). The cases of the loop body are one lemma: the hashes of
the clusters of both ends, and the ends, get one number that no other has (`Relabels`). Numbers
stay below the number of clustered hashes, so a new cluster's is free. The images of a
cluster are listed in one stretch, behind those listed (`ListedBut`).

`ImageMetadataProofs` again, for images of any size. The invariant says what the loops of
`autoCrop` know when they are at a row: the scan from above has seen that nothing differs to the left of `left` in the rows
so far, that something does at `left` unless it is still `cols`, and that `top` is the last
of the rows if all were blank; the scan from below the same of `right` and `bottom`. When both have
stopped, early or not, what they know together is the box.

`MigrationProofs`, for any processes, starts and crashes, and a file of any version. `Between`
says what a file has become when a given statement is the next: which tables have which
columns (`Shaped`), and where the values of the first file are (`Survives`). Each of the 26
statements can be carried out there and leads to the next place (`EachProceeds`), and a file of
version v is, as it is, at the place where its version stops skipping (`LandsAt`). The invariant
says that a file is as it was or was upgraded once, and that an open transaction is somewhere
between its snapshot and the end; SQLite's rule that only the newest snapshot may write makes
a second upgrade impossible, so that the statements need not be possible twice.

`DownloadsProofs`, for any URLs, files, web of answers, and numbers of drops and restarts. The
inductive invariant `IInv` says three things. A drop is in one place: in one queue, or in one request
(`Once`). What is there for it has the same end as the URL that was dropped, or is that end
(`Faithful`); a redirect keeps this, for a URL that redirects ends where the next one does
(`EndFollowed`), on a chain of any length. And the files in view, followed by those announced on
the way, are the files stored, in their order (`AnnouncedBy`). Then each step of a thread either
changes nothing that the user is promised (`Kept`) or settles one drop with its end (`Settled`).

The recursive functions `Selected`, `ImagesOf` and `AnnouncedBy` are reasoned about by showing that their
recursion has a solution and by the least number at which a claim could fail, since the library's
induction theorems are out of the provers' reach.

Assumptions are the `ASSUME`s of the modules: no loader is called "writer" or
"none" and there are finitely many, the mark is no tag, sets of hashes are finite, no URL is a
file and neither is called "error" or "endless", the bounds are natural numbers, and Qt's answers about files are
consistent (what is decoded and saved as JPEG is a JPEG). TLC evaluates them in
every run.

Only model-checked: all liveness, with the liveness parts of `ImplementsWriteBehind` and of
`ImplementsImports`, which is out of this prover's reach.

## 6. Where code and words disagree

* `PurgeGhost`: "Delete images marked for removal" (`Settings.qml` 255) can
  delete an image that nobody marked. Purge leaves the `ImageRef`s in the view and
  SQLite gives their ids to later imports.
* `ConvertBroken`: "Convert selected images to JPEG" (`Settings.qml` 219) replaces a file that
  cannot be decoded by an empty one.
* `RollbackLoops`: if the file is no database, the constructor's error path (`imagedao.cpp`
  148) never ends: ROLLBACK fails where no transaction is open, and jumps to itself.

Six more configurations are not among the runs of `PROJECT.json`; TLC finds the property
violated in each of them:

* `ConvertTwice.cfg` (`MCLibrary`): "Convert selected images to JPEG" (`Settings.qml` 219)
  reports success for an image whose UPDATE failed on the unique hash: convert an image,
  import the same file again and convert that one (`imagedao.cpp` 409-419).
* `TagSpaces.cfg` (`MCLibrary`): "Add (new) tag" (`Settings.qml` 209) takes a tag of two words;
  after a restart it is two tags (`imagedao.cpp` 312, 325).
* `StaleThumbnail.cfg` (`MCThumbnails`): a purge leaves the thumbnails; the next import gets the
  id and is shown with them.
* `UndoAfterToggle.cfg` (`Window`): after "Ctrl+Z: Undo/Redo" (`Settings.qml` 206), "Ctrl+Shift+Z:
  Undo" (207) redoes, or does nothing.
* `FirstImage.cfg` (`Window`): after the first import into an empty view, "A: Add (new) tag"
  (209) does nothing although the image has the focus (`main.qml` 161).
* `StartsCollide.cfg` (`Migration`): the error path loops on a good file too, when two processes open
  it at the same time and it is not yet in WAL mode, or its log has to be recovered: the pragma of
  one, or of both, finds the file locked. `StartsReturn` says what holds instead.

Two disagreements are of wording and beyond a model: `Settings.qml` 132 gives the tag list as
"$tags" where `textTemplate` needs a closing "$", and `Settings.qml` 187 speaks of filenames where
`renderImages` copies them without the extension.

## 7. What is not modelled

* Pixels and the perceptual hash behind `autoCrop` (floating-point code, vendored in `dct/`),
  and `popcount`: `Duplicates` takes every outcome of comparing two hashes.
* Text templates: one pass over a string, without state.
* Layout, zoom and the lightbox. The arrow keys make another item the current one, which
  `Click` does too.
* The settings file, the command line, the build files; `simpleset.h`, which nothing includes.
* SQLite itself beyond the rules named above; of its statement wrapper (`sqlitehelper.*`) the
  pool and the write mutex are modelled.
* Statements that fail for reasons of the environment (disk full, and a second process outside
  the upgrade and the opening before it), and a network that never answers.
* A log index torn by a process that ends while it writes the index, so that a process which has
  the file open already recovers it and may refuse one that starts.
* Three details that change no outcome checked here: `Migration.Execute` asks for the write lock for
  every statement, also for CREATE TABLE IF NOT EXISTS on a table that exists, where the metaPut that
  follows would; `Thumbnails.Make` looks up the size of the image where the code has it from the
  ImageRef (`imagedao.cpp` 593), which differs only after an id was given out again;
  `Library.ImageReady` adds no ref for a row that is gone, where `main.qml` 256-257 pushes null.
* What a torn read gives where the write thread reads the tags of a ref while the GUI thread
  changes them (`imagedao.cpp` 828).

Of the program's own lines (C++, QML and `dct/`, some 4200) the map of `PROJECT.json` covers
1560, or 37 %; the vendored `sqlite3.c` and `sqlite3.h` are 234629 lines more.
