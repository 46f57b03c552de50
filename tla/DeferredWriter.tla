----------------------------- MODULE DeferredWriter -----------------------------
(***************************************************************************)
(* The write thread of ImageDao: the event loop of ImageDaoDeferredWriter, *)
(* its transaction, its busy flag, and the process-wide write lock it      *)
(* shares with the threads that store thumbnails (ImageDao::makeThumbnail).*)
(*                                                                         *)
(* A zero-delay QTimer::singleShot posts its slot to the receiver's event  *)
(* queue, so endWrite and endBusy are events of the same FIFO queue as the *)
(* requests the GUI thread posts.  What a request writes is left to module *)
(* Library; here a request is its kind:                                    *)
(*   "write"  addTag, removeTag, updateDeleted, compressImages             *)
(*   "import" writeImage                                                   *)
(*   "task"   backgroundTask: clearThumbnailCache, fixImageMetaData        *)
(*   "purge"  backgroundTask: purgeDeletedImages                           *)
(*   "vacuum" backgroundTask: vacuum                                       *)
(*   "render" renderImages                                                 *)
(***************************************************************************)
EXTENDS Naturals, Sequences

CONSTANTS Loaders,      \* threads of the image provider's pool
          MaxRequests,  \* bound on the requests the GUI thread posts
          MaxStores     \* bound on the thumbnails the loaders store

ASSUME LoadersAssumption == {"writer", "none"} \cap Loaders = {}
ASSUME BoundsAssumption == MaxRequests \in Nat /\ MaxStores \in Nat

Kinds   == {"write", "import", "task", "purge", "vacuum", "render"}
Events  == Kinds \cup {"endWrite", "endBusy"}
Signals == [sig : {"busyChanged"}, arg : BOOLEAN]
             \cup [sig : {"writeComplete"}, arg : Nat]

VARIABLES
  writeQueue,     \* events posted to the write thread, oldest first
  wpc,            \* where the write thread is: in its event loop, in startWrite
                  \* before the lock ("lock") or past it ("body"), in task_vacuum
                  \* before or under the lock, or finished ("exited")
  task,           \* the request being handled while wpc is not "loop"
  inTransaction,  \* m_inTransaction of the writer
  busy,           \* m_busy of the writer
  writeLock,      \* owner of SQLiteConnectionPool::m_writeLock
  loader,         \* per loader thread: where it is in makeThumbnail's last block
  stores,         \* thumbnails stored so far
  toDao,          \* signals queued to the GUI thread
  daoBusy,        \* ImageDao::m_busy, what the busy indicator shows
  quitting,       \* QThread::quit has been called on the write thread
  posted, handled, durable   \* requests posted, handled, and permanent

txVars     == <<inTransaction, writeLock>>
busyVars   == <<busy, toDao>>
countVars  == <<handled, durable>>
loaderVars == <<loader, stores>>
guiVars    == <<daoBusy, quitting, posted>>
writerVars == <<wpc, task, inTransaction, busy, handled, durable>>
vars == <<writeQueue, wpc, task, inTransaction, busy, writeLock, loader, stores,
          toDao, daoBusy, quitting, posted, handled, durable>>

Init == /\ writeQueue = <<>> /\ toDao = <<>>
        /\ wpc = "loop" /\ task = "none"
        /\ inTransaction = FALSE /\ busy = FALSE
        /\ writeLock = "none"
        /\ loader = [l \in Loaders |-> "idle"] /\ stores = 0
        /\ daoBusy = FALSE /\ quitting = FALSE
        /\ posted = 0 /\ handled = 0 /\ durable = 0
--------------------------------------------------------------------------------
(* The GUI thread. *)

\* A deferred* signal of ImageDao, queued to the write thread.
Post(k) == /\ ~quitting /\ posted < MaxRequests
           /\ posted' = posted + 1
           /\ writeQueue' = Append(writeQueue, k)
           /\ UNCHANGED <<writerVars, writeLock, loaderVars, toDao, daoBusy, quitting>>

\* The next signal from the writer: setBusy, or writeComplete.
DaoReceive == /\ toDao # <<>>
              /\ toDao' = Tail(toDao)
              /\ daoBusy' = IF Head(toDao).sig = "busyChanged"
                            THEN Head(toDao).arg ELSE daoBusy
              /\ UNCHANGED <<writeQueue, writerVars, writeLock, loaderVars,
                             quitting, posted>>

\* ~ImageDao calls m_writeThread.quit().
Quit == /\ ~quitting /\ quitting' = TRUE
        /\ UNCHANGED <<writeQueue, writerVars, writeLock, loaderVars, toDao,
                       daoBusy, posted>>
--------------------------------------------------------------------------------
(* The write thread. *)

BusyChanged(b) == [sig |-> "busyChanged", arg |-> b]

\* The event loop delivers the oldest event if it is one of es.
Deliver(es) == wpc = "loop" /\ writeQueue # <<>> /\ Head(writeQueue) \in es

\* startBusy without its timer: nothing ever turns the flag off.
StartBusyNoTimer(q) == /\ busy' = TRUE
                       /\ writeQueue' = q
                       /\ toDao' = IF busy THEN toDao
                                   ELSE Append(toDao, BusyChanged(TRUE))

\* startBusy, with q the events still queued.
StartBusy(q) == /\ busy' = TRUE
                /\ writeQueue' = IF busy THEN q ELSE Append(q, "endBusy")
                /\ toDao' = IF busy THEN toDao ELSE Append(toDao, BusyChanged(TRUE))

\* endWrite that forgets to unlock.
CommitKeepingLock == inTransaction' = FALSE /\ UNCHANGED writeLock

\* endWrite: COMMIT and unlock if a transaction is open.
Commit == /\ inTransaction' = FALSE
          /\ writeLock' = IF inTransaction THEN "none" ELSE writeLock

\* startWrite that looks at m_busy in place of m_inTransaction: a request that finds
\* the flag on, as each background task does, goes on without a transaction.
TakeIfBusy == /\ Deliver({"write", "import", "task", "purge"})
              /\ task' = Head(writeQueue)
              /\ wpc' = IF busy \/ task' \in {"task", "purge"} THEN "body" ELSE "lock"
              /\ IF busy /\ task' \in {"write", "import"}
                 THEN writeQueue' = Tail(writeQueue) /\ UNCHANGED busyVars
                 ELSE StartBusy(Tail(writeQueue))
              /\ UNCHANGED <<txVars, countVars, loaderVars, guiVars>>

\* A request that calls startWrite.  startWrite within an open transaction does
\* nothing; otherwise it turns busy on and asks for the lock.  backgroundTask
\* turns busy on in both cases.
Take == /\ Deliver({"write", "import", "task", "purge"})
        /\ task' = Head(writeQueue)
        /\ wpc' = IF inTransaction THEN "body" ELSE "lock"
        /\ IF inTransaction /\ task' \in {"write", "import"}
           THEN writeQueue' = Tail(writeQueue) /\ UNCHANGED busyVars
           ELSE StartBusy(Tail(writeQueue))
        /\ UNCHANGED <<txVars, countVars, loaderVars, guiVars>>

\* startWrite that does not schedule endWrite.
StartWriteNoTimer == /\ wpc = "lock" /\ writeLock = "none"
                     /\ writeLock' = "writer" /\ inTransaction' = TRUE
                     /\ wpc' = "body"
                     /\ UNCHANGED <<writeQueue, task, busyVars, countVars,
                                    loaderVars, guiVars>>

\* The rest of startWrite: lock, BEGIN, schedule endWrite.
StartWrite == /\ wpc = "lock" /\ writeLock = "none"
              /\ writeLock' = "writer" /\ inTransaction' = TRUE
              /\ writeQueue' = Append(writeQueue, "endWrite")
              /\ wpc' = "body"
              /\ UNCHANGED <<task, busyVars, countVars, loaderVars, guiVars>>

\* A handler that leaves its transaction for endWrite to commit; an import whose
\* hash is already stored returns early and is one of them.
HandleBatched == /\ wpc = "body" /\ task \in {"write", "task", "import"}
                 /\ wpc' = "loop" /\ task' = "none"
                 /\ handled' = handled + 1
                 /\ UNCHANGED <<writeQueue, txVars, busyVars, durable, loaderVars,
                                guiVars>>

\* An import that announces its row and leaves the commit to the timer.
HandleAnnouncingEarly ==
  /\ wpc = "body" /\ task \in {"import", "purge"}
  /\ wpc' = "loop" /\ task' = "none"
  /\ handled' = handled + 1
  /\ toDao' = IF task = "import"
              THEN Append(toDao, [sig |-> "writeComplete", arg |-> handled'])
              ELSE toDao
  /\ UNCHANGED <<writeQueue, txVars, busy, durable, loaderVars, guiVars>>

\* A handler that ends with endWrite: task_purgeDeletedImages, and writeImage
\* when it inserted a row, which it announces after the commit.
HandleCommitting ==
  /\ wpc = "body" /\ task \in {"import", "purge"}
  /\ wpc' = "loop" /\ task' = "none"
  /\ Commit
  /\ handled' = handled + 1 /\ durable' = handled'
  /\ toDao' = IF task = "import"
              THEN Append(toDao, [sig |-> "writeComplete", arg |-> handled'])
              ELSE toDao
  /\ UNCHANGED <<writeQueue, busy, loaderVars, guiVars>>

\* task_vacuum that does not end the transaction it may find open.
TakeVacuumInTransaction ==
  /\ Deliver({"vacuum"})
  /\ StartBusy(Tail(writeQueue))
  /\ wpc' = "vacuumLock" /\ task' = "vacuum"
  /\ UNCHANGED <<txVars, countVars, loaderVars, guiVars>>

\* backgroundTask("vacuum"): busy, commit what is open, ask for the lock.
TakeVacuum == /\ Deliver({"vacuum"})
              /\ StartBusy(Tail(writeQueue))
              /\ Commit /\ durable' = handled
              /\ wpc' = "vacuumLock" /\ task' = "vacuum"
              /\ UNCHANGED <<handled, loaderVars, guiVars>>

VacuumLock == /\ wpc = "vacuumLock" /\ writeLock = "none"
              /\ writeLock' = "writer" /\ wpc' = "vacuum"
              /\ UNCHANGED <<writeQueue, task, inTransaction, busyVars, countVars,
                             loaderVars, guiVars>>

VacuumDone == /\ wpc = "vacuum"
              /\ writeLock' = "none" /\ wpc' = "loop" /\ task' = "none"
              /\ handled' = handled + 1 /\ durable' = handled'
              /\ UNCHANGED <<writeQueue, inTransaction, busyVars, loaderVars, guiVars>>

\* renderImages writes files, not the database; an open transaction stays open.
Render == /\ Deliver({"render"})
          /\ StartBusy(Tail(writeQueue))
          /\ handled' = handled + 1
          /\ durable' = IF inTransaction THEN durable ELSE handled'
          /\ UNCHANGED <<wpc, task, txVars, loaderVars, guiVars>>

\* The endWrite timer event.  One left over from a transaction that was ended
\* early may end the next transaction before that one's own event does.
EndWrite == /\ Deliver({"endWrite"})
            /\ writeQueue' = Tail(writeQueue)
            /\ Commit /\ durable' = handled
            /\ UNCHANGED <<wpc, task, busyVars, handled, loaderVars, guiVars>>

EndBusy == /\ Deliver({"endBusy"})
           /\ writeQueue' = Tail(writeQueue)
           /\ busy' = FALSE
           /\ toDao' = IF busy THEN Append(toDao, BusyChanged(FALSE)) ELSE toDao
           /\ UNCHANGED <<wpc, task, txVars, countVars, loaderVars, guiVars>>

\* The event loop ends between two events; what is queued is never delivered.
Exit == /\ quitting /\ wpc = "loop" /\ wpc' = "exited"
        /\ UNCHANGED <<writeQueue, task, txVars, busyVars, countVars, loaderVars, guiVars>>

WriterStep == \/ Take \/ StartWrite \/ HandleBatched \/ HandleCommitting
              \/ TakeVacuum \/ VacuumLock \/ VacuumDone \/ Render
              \/ EndWrite \/ EndBusy \/ Exit
--------------------------------------------------------------------------------
(* A loader thread that has decoded a thumbnail stores it. *)

LoaderStep(l, from, to) == /\ loader[l] = from
                           /\ loader' = [loader EXCEPT ![l] = to]
                           /\ UNCHANGED <<writeQueue, writerVars, toDao, guiVars>>

LoaderWant(l)   == /\ stores < MaxStores /\ stores' = stores + 1
                   /\ LoaderStep(l, "idle", "waiting") /\ UNCHANGED writeLock
LoaderLock(l)   == /\ writeLock = "none" /\ writeLock' = l
                   /\ LoaderStep(l, "waiting", "storing") /\ UNCHANGED stores
\* A loader that returns without giving the lock back.
LoaderUnlockLost(l) == LoaderStep(l, "storing", "idle") /\ UNCHANGED <<stores, writeLock>>
LoaderUnlock(l) == /\ writeLock' = "none"
                   /\ LoaderStep(l, "storing", "idle") /\ UNCHANGED stores

Next == \/ \E k \in Kinds : Post(k)
        \/ DaoReceive \/ Quit
        \/ WriterStep
        \/ \E l \in Loaders : LoaderWant(l) \/ LoaderLock(l) \/ LoaderUnlock(l)

Spec == Init /\ [][Next]_vars

\* Both event loops run, and a thread that can take a free lock does.  Weak
\* fairness is enough: the loaders store each thumbnail once, so they cannot
\* keep the lock from the writer for ever, nor the writer from them.
FairSpec == /\ Spec
            /\ WF_vars(WriterStep) /\ WF_vars(DaoReceive)
            /\ \A l \in Loaders : WF_vars(LoaderLock(l) \/ LoaderUnlock(l))
--------------------------------------------------------------------------------
Queued(q, e)     == \E i \in DOMAIN q : q[i] = e
AtMostOnce(q, e) == \A i, j \in DOMAIN q : q[i] = e /\ q[j] = e => i = j

\* Taking the signals s one after the other turns an indicator that shows `shown'
\* into one that shows b: the last busyChanged says b, or there is none.
Settles(s, shown, b) ==
  LET changes == {i \in DOMAIN s : s[i].sig = "busyChanged"}
  IN  /\ changes = {} => shown = b
      /\ \A i \in changes : (\A j \in changes : j <= i) => s[i].arg = b

Types  == /\ writeQueue \in Seq(Events) /\ toDao \in Seq(Signals)
          /\ wpc \in {"loop", "lock", "body", "vacuumLock", "vacuum", "exited"}
          /\ task \in Kinds \cup {"none"}
          /\ inTransaction \in BOOLEAN /\ busy \in BOOLEAN
          /\ writeLock \in Loaders \cup {"writer", "none"}
          /\ loader \in [Loaders -> {"idle", "waiting", "storing"}]
          /\ stores \in 0..MaxStores
          /\ daoBusy \in BOOLEAN /\ quitting \in BOOLEAN
          /\ posted \in Nat /\ handled \in Nat /\ durable \in 0..handled

\* The write thread is before the lock only without a transaction, in a handler's
\* body only with one.
Points == /\ wpc \in {"lock", "vacuumLock", "vacuum"} => ~inTransaction
          /\ wpc = "body" => inTransaction

\* Every variable has its type, and at each program point of the write thread
\* m_inTransaction has the value the code there relies on: the statements of a request
\* run in a transaction, a lock is asked for outside one (startWrite, task_vacuum).
TypeOK == Types /\ Points

\* The write lock is the writer's exactly while a transaction is open or VACUUM
\* runs, and a loader's exactly while that loader stores: no two connections ever
\* write at once (writeLock in startWrite, endWrite, task_vacuum, makeThumbnail).
LockOwnership ==
  /\ writeLock = "writer" <=> inTransaction \/ wpc = "vacuum"
  /\ \A l \in Loaders : writeLock = l <=> loader[l] = "storing"

\* The write thread never waits for the lock it holds itself: QMutex is not
\* recursive, so startWrite and task_vacuum would hang for ever.
NoSelfWait == wpc \in {"lock", "vacuumLock"} => writeLock # "writer"

\* While a transaction is open an endWrite event is still to come, whatever mix of
\* early commits and left-over timers preceded it: the lock is never kept for good.
EndWriteScheduled == inTransaction => Queued(writeQueue, "endWrite")

\* m_busy of the writer is on exactly while one endBusy event is queued.
BusyScheduled == /\ busy <=> Queued(writeQueue, "endBusy")
                 /\ AtMostOnce(writeQueue, "endBusy")

\* What the GUI thread will show once it has taken every queued signal is what the
\* writer's flag is now: no busyChanged is lost, doubled or out of step.
IndicatorFollows == Settles(toDao, daoBusy, busy)

\* A writeComplete signal is only ever queued for an import that is committed, so
\* createImageRef on the GUI thread's own connection finds the row.
ImportDurableBeforeAnnounced ==
  \A i \in DOMAIN toDao : toDao[i].sig = "writeComplete" => toDao[i].arg <= durable

\* The write thread implements the write-behind promise, liveness included: each
\* request is handled once and in order, and becomes permanent unless the thread
\* is told to quit.
Promise == INSTANCE WriteBehind WITH stopped <- (wpc = "exited")
ImplementsWriteBehind == Promise!Spec

\* A loader that waits to store its thumbnail gets to, unless the write thread has
\* been stopped (it may then have left with the lock).
LoaderEventuallyStores ==
  \A l \in Loaders : loader[l] = "waiting" ~> (loader[l] = "idle" \/ wpc = "exited")

\* The busy indicator always goes off again, unless the write thread is stopped.
IndicatorGoesOff == daoBusy ~> (~daoBusy \/ wpc = "exited")
=============================================================================
