------------------------------- MODULE Thumbnails -------------------------------
(***************************************************************************)
(* The thumbnails: loader threads answer requests for the image of an id,  *)
(* from the table of thumbnails of a suitable size, from a larger          *)
(* thumbnail, or from the file; they store what they make, while images    *)
(* come and go under their ids.                                            *)
(*                                                                         *)
(* Size n of a thumbnail stands for 40 * 2^(n-1) pixels.  A step of a      *)
(* loader is what it does between two looks at what others can change.     *)
(***************************************************************************)
EXTENDS Naturals, Sequences, FiniteSets

CONSTANTS Loaders,       \* threads of m_imageLoadPool
          Pictures,      \* what images can show
          Broken,        \* the ones that cannot be decoded
          SizeOf,        \* the largest n such that a picture covers size n, or 0
          Largest,       \* the size of the largest thumbnails
          MaxId,         \* bound on the ids
          InitialImages, \* the pictures in the library at first, in id order
          Reuse,         \* whether the newest image may be purged, so that its id
                         \* is given away again
          None, Empty,   \* no row or no image; an image of no bytes
          MaxRequests,   \* bound on the requests for images
          MaxChanges     \* bound on the imports, purges and clearings

ASSUME LoadersAssumption == IsFiniteSet(Loaders)
ASSUME ThumbnailsAssumption ==
  /\ Broken \subseteq Pictures /\ SizeOf \in [Pictures -> Nat] /\ Largest \in Nat \ {0}
  /\ MaxId \in Nat /\ InitialImages \in Seq(Pictures) /\ Len(InitialImages) \in 1..MaxId
  /\ Reuse \in BOOLEAN /\ None \notin Pictures \cup Nat /\ Empty \notin Pictures \cup {None}
  /\ MaxRequests \in Nat /\ MaxChanges \in Nat

VARIABLES
  store,     \* the image of each id
  thumb,     \* size -> id -> what is in the table
  refSize,   \* the size in m_refMap of each id, None if it is not there
  pc, id, want, at,  \* each loader: where it is, the id and the size it is asked for,
             \* and the size of the thumbnail it is making
  input,     \* the image it has at the time, at the end its answer
  cancelled,
  conn,      \* the connection it has, 0 for none
  pool, made,  \* m_pool, and the number of connections made
  past,      \* the pictures each id has had
  seen,      \* what store had for a loader's id since the request
  requests, changes

tables == <<store, thumb, refSize, past>>
loader == <<pc, id, want, at, input, cancelled, seen>>
connections == <<conn, pool, made>>
vars == <<tables, loader, connections, requests, changes>>

Sizes == 1..Largest
Ids == 1..MaxId
InitialStore == [i \in Ids |-> IF i <= Len(InitialImages) THEN InitialImages[i] ELSE None]
SizeIn(s) == [i \in Ids |-> IF s[i] = None THEN None ELSE SizeOf[s[i]]]

Init == /\ store = InitialStore /\ thumb = [n \in Sizes |-> [i \in Ids |-> None]]
        /\ refSize = SizeIn(InitialStore)
        /\ pc = [l \in Loaders |-> "idle"] /\ id = [l \in Loaders |-> 1]
        /\ want = [l \in Loaders |-> 0] /\ at = [l \in Loaders |-> 0]
        /\ input = [l \in Loaders |-> None] /\ cancelled = [l \in Loaders |-> FALSE]
        /\ conn = [l \in Loaders |-> 0] /\ pool = <<>> /\ made = 0
        /\ past = [i \in Ids |-> {InitialStore[i]} \ {None}]
        /\ seen = [l \in Loaders |-> {}] /\ requests = 0 /\ changes = 0
--------------------------------------------------------------------------------
Go(l, to) == pc' = [pc EXCEPT ![l] = to]
Have(l, image) == input' = [input EXCEPT ![l] = image]

\* SQLiteConnectionPool: open takes the last connection, or makes one.
OpenFirst(l) == IF pool = <<>> THEN /\ made' = made + 1 /\ UNCHANGED pool
                                    /\ conn' = [conn EXCEPT ![l] = made + 1]
                ELSE /\ conn' = [conn EXCEPT ![l] = pool[Len(pool)]]
                     /\ UNCHANGED <<pool, made>>
OpenNew(l) == made' = made + 1 /\ conn' = [conn EXCEPT ![l] = made + 1] /\ UNCHANGED pool
Open(l) == IF pool = <<>> THEN /\ made' = made + 1 /\ UNCHANGED pool
                               /\ conn' = [conn EXCEPT ![l] = made + 1]
           ELSE /\ conn' = [conn EXCEPT ![l] = pool[Len(pool)]]
                /\ pool' = SubSeq(pool, 1, Len(pool) - 1) /\ UNCHANGED made
Close(l) == /\ pool' = Append(pool, conn[l]) /\ conn' = [conn EXCEPT ![l] = 0]
            /\ UNCHANGED made

\* A delegate asks for the image of an id it has a ref of, in size n or (0) as it is.
Request(l, i, n) ==
  /\ pc[l] \in {"idle", "finished"} /\ requests < MaxRequests /\ refSize[i] # None
  /\ requests' = requests + 1 /\ Go(l, "start")
  /\ id' = [id EXCEPT ![l] = i] /\ want' = [want EXCEPT ![l] = n]
  /\ at' = [at EXCEPT ![l] = 0] /\ Have(l, None)
  /\ cancelled' = [cancelled EXCEPT ![l] = FALSE] /\ seen' = [seen EXCEPT ![l] = {store[i]}]
  /\ UNCHANGED <<tables, connections, changes>>

Cancel(l) == /\ pc[l] \notin {"idle", "finished"} /\ ~cancelled[l]
             /\ cancelled' = [cancelled EXCEPT ![l] = TRUE]
             /\ UNCHANGED <<tables, pc, id, want, at, input, seen, connections, requests, changes>>

loaderRest == <<tables, id, want, cancelled, seen, requests, changes>>

\* requestImage up to the connection: a thumbnail does if the image is twice as large.
StartAny(l) ==
  /\ pc[l] = "start"
  /\ IF cancelled[l] THEN Go(l, "finished") /\ UNCHANGED connections
     ELSE IF want[l] > 0 THEN Go(l, "lookup") /\ Open(l)
     ELSE Go(l, "direct") /\ UNCHANGED connections
  /\ UNCHANGED <<loaderRest, at, input>>

Start(l) ==
  /\ pc[l] = "start"
  /\ IF cancelled[l] THEN Go(l, "finished") /\ UNCHANGED connections
     ELSE IF want[l] > 0 /\ refSize[id[l]] >= want[l] + 1 THEN Go(l, "lookup") /\ Open(l)
     ELSE Go(l, "direct") /\ UNCHANGED connections
  /\ UNCHANGED <<loaderRest, at, input>>

\* What is read of a thumbnail: a blob of no bytes is read as none.
Thumb(l, n) == IF thumb[n][id[l]] = Empty THEN None ELSE thumb[n][id[l]]

\* The thumbnail is there, or it has to be made.
LookUp(l) ==
  /\ pc[l] = "lookup"
  /\ IF Thumb(l, want[l]) = None
     THEN Go(l, "make") /\ at' = [at EXCEPT ![l] = want[l]] /\ UNCHANGED input
     ELSE /\ Have(l, IF cancelled[l] THEN None ELSE Thumb(l, want[l])) /\ Go(l, "return")
          /\ UNCHANGED at
  /\ UNCHANGED <<loaderRest, connections>>

\* makeThumbnail returns to the one that called it for the next smaller size, or to
\* requestImage.
Return(l, image) ==
  IF at[l] = want[l] THEN Have(l, image) /\ Go(l, "return") /\ UNCHANGED at
  ELSE Have(l, image) /\ Go(l, "scale") /\ at' = [at EXCEPT ![l] = @ - 1]

\* makeThumbnail up to its first change of the image: take the thumbnail that is there,
\* ask for the next larger size if the image is large enough, or read the file.
Make(l) ==
  /\ pc[l] = "make"
  /\ IF Thumb(l, at[l]) # None THEN Return(l, Thumb(l, at[l]))
     ELSE IF cancelled[l] THEN Return(l, None)
     ELSE IF at[l] < Largest /\ refSize[id[l]] >= at[l] + 2
     THEN at' = [at EXCEPT ![l] = @ + 1] /\ UNCHANGED <<pc, input>>
     ELSE Go(l, "scale") /\ UNCHANGED <<at, input>>
  /\ UNCHANGED <<loaderRest, connections>>

\* What decoding gives.
Decode(p) == IF p \in Broken THEN Empty ELSE p

\* Without a larger thumbnail read the file; there may be none.
ScaleRetrying(l) ==
  /\ pc[l] = "scale"
  /\ IF cancelled[l] THEN Return(l, None)
     ELSE IF input[l] # None THEN Go(l, "save") /\ UNCHANGED <<at, input>>
     ELSE IF store[id[l]] = None THEN Go(l, "make") /\ UNCHANGED <<at, input>>
     ELSE Have(l, Decode(store[id[l]])) /\ Go(l, "save") /\ UNCHANGED at
  /\ UNCHANGED <<loaderRest, connections>>

Scale(l) ==
  /\ pc[l] = "scale"
  /\ IF cancelled[l] THEN Return(l, None)
     ELSE IF input[l] # None THEN Go(l, "save") /\ UNCHANGED <<at, input>>
     ELSE IF store[id[l]] = None THEN Return(l, None)
     ELSE Have(l, Decode(store[id[l]])) /\ Go(l, "save") /\ UNCHANGED at
  /\ UNCHANGED <<loaderRest, connections>>

\* Before the image is stored the loader looks again whether it is wanted.
Save(l) ==
  /\ pc[l] = "save"
  /\ IF cancelled[l] THEN Return(l, IF input[l] = Empty THEN None ELSE input[l])
     ELSE Go(l, "store") /\ UNCHANGED <<at, input>>
  /\ UNCHANGED <<loaderRest, connections>>

Made(l) == IF input[l] = Empty THEN None ELSE input[l]
storeRest == <<store, refSize, past, id, want, cancelled, seen, connections, requests, changes>>

\* INSERT fails, and is only logged, if there is a row by now.
Store(l) ==
  /\ pc[l] = "store"
  /\ thumb' = [thumb EXCEPT ![at[l]][id[l]] = IF @ = None THEN input[l] ELSE @]
  /\ Return(l, Made(l))
  /\ UNCHANGED storeRest

\* requestImage with the thumbnail, or going on without one.
Answer(l) == /\ pc[l] = "return" /\ Close(l)
             /\ Go(l, IF input[l] # None \/ cancelled[l] THEN "finished" ELSE "direct")
             /\ UNCHANGED <<loaderRest, at, input>>

\* The image itself: a connection, and the file.
Direct(l) == /\ pc[l] = "direct" /\ Open(l) /\ Go(l, "raw")
             /\ UNCHANGED <<loaderRest, at, input>>

Raw(l) == /\ pc[l] = "raw" /\ Close(l) /\ Go(l, "finished")
          /\ Have(l, IF cancelled[l] \/ store[id[l]] \in Broken THEN None ELSE store[id[l]])
          /\ UNCHANGED <<loaderRest, at>>

Step(l) == \/ Start(l) \/ LookUp(l) \/ Make(l) \/ Scale(l) \/ Save(l) \/ Store(l)
           \/ Answer(l) \/ Direct(l) \/ Raw(l)
--------------------------------------------------------------------------------
(* The write thread; a transaction is one step, see DeferredWriter. *)

Change == /\ changes < MaxChanges /\ changes' = changes + 1
          /\ seen' = [l \in Loaders |-> seen[l] \cup {store'[id[l]]}]
          /\ UNCHANGED <<pc, id, want, at, input, cancelled, connections, requests>>

HasImage == {i \in Ids : store[i] # None}
FirstFree == CHOOSE i \in 1..MaxId + 1 : i \notin HasImage /\ \A k \in 1..i - 1 : k \in HasImage
NextId == IF HasImage = {} THEN 1 ELSE 1 + CHOOSE i \in HasImage : \A k \in HasImage : k <= i

\* writeImage: a file that is not there yet gets an id one more than the largest.
Import(p) == /\ NextId \in Ids /\ \A i \in Ids : store[i] # p
             /\ store' = [store EXCEPT ![NextId] = p]
             /\ past' = [past EXCEPT ![NextId] = @ \cup {p}]
             /\ UNCHANGED <<thumb, refSize>>
             /\ Change

\* purgeDeletedImages leaves the thumbnails, and the ref with its size.
Purge(i) == /\ i \in HasImage /\ (Reuse \/ \E k \in HasImage : k > i)
            /\ store' = [store EXCEPT ![i] = None]
            /\ UNCHANGED <<thumb, refSize, past>>
            /\ Change

\* clearThumbnailCache.
Clear == /\ thumb' = [n \in Sizes |-> [i \in Ids |-> None]]
         /\ UNCHANGED <<store, refSize, past>>
         /\ Change

\* The GUI thread: createImageRef for an image that was written.
CreateRef(i) == /\ store[i] # None /\ refSize[i] # SizeOf[store[i]]
                /\ refSize' = [refSize EXCEPT ![i] = SizeOf[store[i]]]
                /\ UNCHANGED <<store, thumb, past, loader, connections, requests, changes>>

Next == \/ \E l \in Loaders : \/ \E i \in Ids, n \in 0..Largest : Request(l, i, n)
                              \/ Cancel(l) \/ Step(l)
        \/ \E p \in Pictures : Import(p)
        \/ \E i \in Ids : Purge(i) \/ CreateRef(i)
        \/ Clear

Spec == Init /\ [][Next]_vars
--------------------------------------------------------------------------------
Images == Pictures \cup {None}
TypeOK == /\ store \in [Ids -> Images] /\ refSize \in [Ids -> Nat \cup {None}]
          /\ thumb \in [Sizes -> [Ids -> Images \cup {Empty}]]
          /\ pc \in [Loaders -> {"idle", "start", "lookup", "make", "scale", "save", "store",
                                  "return", "direct", "raw", "finished"}]
          /\ id \in [Loaders -> Ids] /\ want \in [Loaders -> 0..Largest]
          /\ at \in [Loaders -> 0..Largest] /\ input \in [Loaders -> Images \cup {Empty}]
          /\ cancelled \in [Loaders -> BOOLEAN] /\ made \in 0..Cardinality(Loaders)
          /\ conn \in [Loaders -> 0..made] /\ pool \in Seq(1..made)
          /\ past \in [Ids -> SUBSET Pictures] /\ seen \in [Loaders -> SUBSET Images]
          /\ requests \in 0..MaxRequests /\ changes \in 0..MaxChanges

\* Connections are opened with SQLITE_OPEN_NOMUTEX, so no two threads may have one at
\* the same time: each connection made is in the pool once, or one loader's.
ConnectionsExclusive ==
  LET Free(k) == {n \in DOMAIN pool : pool[n] = k}
      Users(k) == {l \in Loaders : conn[l] = k}
  IN  \A k \in 1..made : Cardinality(Free(k)) + Cardinality(Users(k)) = 1

\* A thumbnail shows a picture that its id has had, and has it at the right size: it is
\* at most half as large as the picture, so no thumbnail is an enlargement.
ThumbnailsOwn ==
  \A n \in Sizes, i \in Ids :
    thumb[n][i] \in Pictures => thumb[n][i] \in past[i] \ Broken /\ SizeOf[thumb[n][i]] > n

\* An answer that was not cancelled shows the image; it can only be blank if the image
\* was gone at some time since the request, or cannot be decoded.
AnswersShow ==
  \A l \in Loaders :
    pc[l] = "finished" /\ ~cancelled[l] =>
      \/ input[l] \in past[id[l]] \ Broken
      \/ input[l] = None /\ (None \in seen[l] \/ seen[l] \cap Broken # {})

\* As long as the id has an image, the answer is of an image that it had since the request.
AnswersFresh ==
  \A l \in Loaders :
    pc[l] = "finished" /\ input[l] # None => input[l] \in seen[l] \/ None \in seen[l]

\* Each answer is right in both ways, by what it shows and by when it was true
\* (ImageDao::requestImage, makeThumbnail).
AnswersRight == AnswersShow /\ AnswersFresh

\* Every request is answered, however often the loader finds nothing, while thumbnails
\* are cleared and images purged under the recursion of makeThumbnail: each step of a
\* loader leaves fewer steps to go.
ToGo(l) ==
  LET down == 3 * (at[l] - want[l])        \* from size at to size want
      top  == 6 + 3 * (Largest - want[l])  \* from the largest size
  IN  CASE pc[l] = "start"  -> 3 + top + (Largest - want[l])
        [] pc[l] = "lookup" -> 2 + top + (Largest - want[l])
        [] pc[l] = "make"   -> 1 + top + (Largest - at[l])
        [] pc[l] = "scale"  -> 6 + down
        [] pc[l] = "save"   -> 5 + down
        [] pc[l] = "store"  -> 4 + down
        [] pc[l] = "return" -> 3
        [] pc[l] = "direct" -> 2
        [] pc[l] = "raw"    -> 1
        [] OTHER -> 0
AnswerNears == [][\A l \in Loaders : Step(l) => ToGo(l)' < ToGo(l)]_vars
================================================================================
