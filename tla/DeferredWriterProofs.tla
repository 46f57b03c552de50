-------------------------- MODULE DeferredWriterProofs --------------------------
(***************************************************************************)
(* Proofs about the write thread, for any set of loader threads and any    *)
(* bounds.  The safety invariants of DeferredWriter are inductive only     *)
(* together with what each program point of the write thread says of its   *)
(* transaction (Points) and with the order of the counters in Types.       *)
(***************************************************************************)
EXTENDS DeferredWriter, FiniteSetTheorems, FunctionTheorems, TLAPS

IInv == /\ Types /\ Points /\ LockOwnership /\ EndWriteScheduled
        /\ BusyScheduled /\ IndicatorFollows /\ ImportDurableBeforeAnnounced

--------------------------------------------------------------------------------
(* Queues: what Append and Tail do to the events and signals in them. *)

LEMMA QueuedAppend ==
  ASSUME NEW S, NEW q \in Seq(S), NEW x \in S, NEW e
  PROVE  Queued(Append(q, x), e) <=> Queued(q, e) \/ x = e
<1> DEFINE t == Append(q, x)
<1>1. /\ DOMAIN q = 1..Len(q) /\ DOMAIN t = 1..(Len(q) + 1) /\ Len(q) \in Nat
      /\ t[Len(q) + 1] = x
      /\ \A i \in DOMAIN q : t[i] = q[i]
  OBVIOUS
<1> HIDE DEF t
<1>2. \A i \in DOMAIN t : i \in DOMAIN q \/ i = Len(q) + 1
  BY <1>1
<1>3. Queued(t, e) => Queued(q, e) \/ x = e
  BY <1>1, <1>2 DEF Queued
<1>4. Queued(q, e) => Queued(t, e)
  BY <1>1 DEF Queued
<1>5. x = e => Queued(t, e)
  BY <1>1 DEF Queued
<1>6. QED
  BY <1>3, <1>4, <1>5 DEF t

LEMMA QueuedTail ==
  ASSUME NEW S, NEW q \in Seq(S), q # <<>>, NEW e
  PROVE  Queued(q, e) <=> Head(q) = e \/ Queued(Tail(q), e)
<1>1. DOMAIN q = 1..Len(q) /\ Len(q) \in Nat \ {0}
  OBVIOUS
<1>2. DOMAIN Tail(q) = 1..(Len(q) - 1)
  OBVIOUS
<1>3. \A i \in DOMAIN Tail(q) : Tail(q)[i] = q[i + 1] /\ i + 1 \in DOMAIN q
  BY <1>1, <1>2
<1>4. ASSUME Queued(q, e), Head(q) # e
      PROVE  Queued(Tail(q), e)
  <2>1. PICK i \in DOMAIN q : q[i] = e
    BY <1>4 DEF Queued
  <2>2. i - 1 \in DOMAIN Tail(q) /\ Tail(q)[i - 1] = e
    BY <2>1, <1>1, <1>2, <1>3, <1>4
  <2>3. QED
    BY <2>2 DEF Queued
<1>5. Queued(Tail(q), e) => Queued(q, e)
  BY <1>3 DEF Queued
<1>6. Head(q) = e => Queued(q, e)
  BY <1>1 DEF Queued
<1>7. QED
  BY <1>4, <1>5, <1>6

LEMMA OnceAppend ==
  ASSUME NEW S, NEW q \in Seq(S), NEW x \in S, NEW e, AtMostOnce(q, e),
         ~Queued(q, e) \/ x # e
  PROVE  AtMostOnce(Append(q, x), e)
  BY DEF AtMostOnce, Queued

LEMMA OnceTail ==
  ASSUME NEW S, NEW q \in Seq(S), q # <<>>, NEW e, AtMostOnce(q, e)
  PROVE  /\ AtMostOnce(Tail(q), e)
         /\ Head(q) = e => ~Queued(Tail(q), e)
<1>1. DOMAIN q = 1..Len(q) /\ Len(q) \in Nat \ {0} /\ Head(q) = q[1]
  OBVIOUS
<1>2. DOMAIN Tail(q) = 1..(Len(q) - 1)
  OBVIOUS
<1>3. \A i \in DOMAIN Tail(q) : Tail(q)[i] = q[i + 1] /\ i + 1 \in DOMAIN q
  BY <1>1, <1>2
<1>4. AtMostOnce(Tail(q), e)
  <2>1. SUFFICES ASSUME NEW i \in DOMAIN Tail(q), NEW j \in DOMAIN Tail(q),
                        Tail(q)[i] = e, Tail(q)[j] = e
                 PROVE  i = j
    BY DEF AtMostOnce
  <2>2. i + 1 = j + 1
    BY <2>1, <1>3 DEF AtMostOnce
  <2>3. QED
    BY <2>2, <1>2, <1>1
<1>5. ASSUME Head(q) = e, NEW i \in DOMAIN Tail(q), Tail(q)[i] = e
      PROVE  FALSE
  <2>1. 1 = i + 1
    BY <1>5, <1>1, <1>3 DEF AtMostOnce
  <2>2. QED
    BY <2>1, <1>5, <1>2, <1>1
<1>6. QED
  BY <1>4, <1>5 DEF Queued

LEMMA SettlesChange ==
  ASSUME NEW s \in Seq(Signals), NEW shown \in BOOLEAN, NEW b \in BOOLEAN
  PROVE  Settles(Append(s, BusyChanged(b)), shown, b)
<1> DEFINE t == Append(s, BusyChanged(b))
<1>1. /\ Len(s) \in Nat /\ DOMAIN t = 1..(Len(s) + 1)
      /\ t[Len(s) + 1] = BusyChanged(b)
  OBVIOUS
<1>2. t[Len(s) + 1].sig = "busyChanged" /\ t[Len(s) + 1].arg = b
  BY <1>1 DEF BusyChanged
<1> HIDE DEF t
<1>3. Settles(t, shown, b)
  BY <1>1, <1>2 DEF Settles
<1>4. QED
  BY <1>3 DEF t

LEMMA SettlesOther ==
  ASSUME NEW s \in Seq(Signals), NEW x \in Signals, x.sig # "busyChanged",
         NEW shown \in BOOLEAN, NEW b \in BOOLEAN, Settles(s, shown, b)
  PROVE  Settles(Append(s, x), shown, b)
<1> DEFINE t == Append(s, x)
           C(u) == {i \in DOMAIN u : u[i].sig = "busyChanged"}
<1>1. C(t) = C(s) /\ \A i \in C(s) : t[i] = s[i]
  OBVIOUS
<1>2. QED
  BY <1>1 DEF Settles

LEMMA SettlesTail ==
  ASSUME NEW s \in Seq(Signals), s # <<>>, NEW shown \in BOOLEAN, NEW b \in BOOLEAN,
         Settles(s, shown, b)
  PROVE  Settles(Tail(s),
                 IF Head(s).sig = "busyChanged" THEN Head(s).arg ELSE shown, b)
<1> DEFINE t == Tail(s)
           C(u) == {i \in DOMAIN u : u[i].sig = "busyChanged"}
           now == IF Head(s).sig = "busyChanged" THEN Head(s).arg ELSE shown
<1>1. /\ Len(s) \in Nat \ {0} /\ Head(s) = s[1]
      /\ DOMAIN s = 1..Len(s) /\ DOMAIN t = 1..(Len(s) - 1)
      /\ \A i \in DOMAIN t : t[i] = s[i + 1]
  OBVIOUS
<1>2. /\ C(s) = {} => shown = b
      /\ \A i \in C(s) : (\A j \in C(s) : j <= i) => s[i].arg = b
  BY DEF Settles
<1> HIDE DEF t
<1>3. \A i \in C(t) : i + 1 \in C(s)
  BY <1>1
<1>4. \A j \in C(s) : j = 1 \/ j - 1 \in C(t)
  BY <1>1
<1>5. C(t) = {} => now = b
  <2>1. SUFFICES ASSUME C(t) = {} PROVE now = b
    OBVIOUS
  <2>2. CASE s[1].sig = "busyChanged"
    <3>1. 1 \in C(s) /\ \A j \in C(s) : j <= 1
      BY <2>1, <2>2, <1>1, <1>4
    <3>2. QED
      BY <3>1, <1>2, <2>2, <1>1
  <2>3. CASE s[1].sig # "busyChanged"
    <3>1. C(s) = {}
      BY <2>1, <2>3, <1>4
    <3>2. QED
      BY <3>1, <1>2, <2>3, <1>1
  <2>4. QED
    BY <2>2, <2>3
<1>6. ASSUME NEW i \in C(t), \A j \in C(t) : j <= i
      PROVE  t[i].arg = b
  <2>1. i + 1 \in C(s) /\ i \in Nat \ {0}
    BY <1>6, <1>3, <1>1
  <2>2. \A j \in C(s) : j <= i + 1
    BY <1>6, <1>4, <1>1, <2>1
  <2>3. QED
    BY <2>1, <2>2, <1>2, <1>1, <1>6
<1>7. QED
  BY <1>5, <1>6 DEF Settles, t

\* Every import announced in the signals s is among the first d requests.
Announced(s, d) == \A i \in DOMAIN s : s[i].sig = "writeComplete" => s[i].arg <= d

LEMMA SignalCases ==
  ASSUME NEW x \in Signals
  PROVE  \/ x.sig = "busyChanged" /\ x.arg \in BOOLEAN
         \/ x.sig = "writeComplete" /\ x.arg \in Nat
  BY DEF Signals

LEMMA AnnouncedAppend ==
  ASSUME NEW s \in Seq(Signals), NEW x \in Signals, NEW d \in Nat, NEW e \in Nat,
         d <= e, Announced(s, d), x.sig = "writeComplete" => x.arg <= e
  PROVE  Announced(Append(s, x), e)
<1> DEFINE t == Append(s, x)
<1>1. /\ DOMAIN s = 1..Len(s) /\ DOMAIN t = 1..(Len(s) + 1) /\ Len(s) \in Nat
      /\ t[Len(s) + 1] = x
      /\ \A i \in DOMAIN s : t[i] = s[i] /\ s[i] \in Signals
  OBVIOUS
<1> HIDE DEF t
<1>2. ASSUME NEW i \in DOMAIN s, s[i].sig = "writeComplete"
      PROVE  s[i].arg <= e
  <2>1. s[i].arg \in Nat /\ s[i].arg <= d
    BY <1>1, <1>2, SignalCases DEF Announced
  <2>2. QED
    BY <2>1
<1>3. \A i \in DOMAIN t : i \in DOMAIN s \/ i = Len(s) + 1
  BY <1>1
<1>4. Announced(t, e)
  BY <1>1, <1>2, <1>3 DEF Announced
<1>5. QED
  BY <1>4 DEF t

LEMMA AnnouncedLater ==
  ASSUME NEW s \in Seq(Signals), NEW d \in Nat, NEW e \in Nat, d <= e, Announced(s, d)
  PROVE  Announced(s, e)
<1>1. SUFFICES ASSUME NEW i \in DOMAIN s, s[i].sig = "writeComplete"
               PROVE  s[i].arg <= e
  BY DEF Announced
<1>2. s[i] \in Signals
  OBVIOUS
<1>3. s[i].arg \in Nat /\ s[i].arg <= d
  BY <1>1, <1>2, SignalCases DEF Announced
<1>4. QED
  BY <1>3

LEMMA AnnouncedTail ==
  ASSUME NEW s \in Seq(Signals), s # <<>>, NEW d, Announced(s, d)
  PROVE  Announced(Tail(s), d)
<1>1. \A i \in DOMAIN Tail(s) : Tail(s)[i] = s[i + 1] /\ i + 1 \in DOMAIN s
  OBVIOUS
<1>2. QED
  BY <1>1 DEF Announced

LEMMA SeqTail ==
  ASSUME NEW S, NEW q \in Seq(S), q # <<>>
  PROVE  Tail(q) \in Seq(S) /\ Head(q) \in S
  OBVIOUS

LEMMA SeqAppend ==
  ASSUME NEW S, NEW q \in Seq(S), NEW x \in S
  PROVE  Append(q, x) \in Seq(S)
  OBVIOUS

\* What an event handler that calls startBusy first leaves behind.
LEMMA StartBusyKeeps ==
  ASSUME Types, BusyScheduled, IndicatorFollows, ImportDurableBeforeAnnounced,
         writeQueue # <<>>, Head(writeQueue) # "endBusy",
         StartBusy(Tail(writeQueue)), daoBusy' = daoBusy,
         durable' \in Nat, durable <= durable'
  PROVE  /\ writeQueue' \in Seq(Events) /\ toDao' \in Seq(Signals) /\ busy' \in BOOLEAN
         /\ BusyScheduled' /\ IndicatorFollows' /\ ImportDurableBeforeAnnounced'
         /\ Queued(Tail(writeQueue), "endWrite") => Queued(writeQueue', "endWrite")
<1> DEFINE q == Tail(writeQueue)
<1>1. /\ writeQueue \in Seq(Events) /\ toDao \in Seq(Signals) /\ busy \in BOOLEAN
      /\ daoBusy \in BOOLEAN /\ durable \in Nat
  BY DEF Types
<1>2. q \in Seq(Events)
  BY <1>1, SeqTail
<1>3. Queued(q, "endBusy") <=> Queued(writeQueue, "endBusy")
  BY <1>1, QueuedTail
<1>4. AtMostOnce(q, "endBusy")
  BY <1>1, OnceTail DEF BusyScheduled
<1>5. Announced(toDao, durable')
  BY <1>1, AnnouncedLater DEF ImportDurableBeforeAnnounced, Announced
<1>6. CASE busy
  <2>1. writeQueue' = q /\ toDao' = toDao /\ busy' = busy
    BY <1>6, <1>1 DEF StartBusy
  <2>2. QED
    BY <2>1, <1>1, <1>2, <1>3, <1>4, <1>5
    DEF BusyScheduled, IndicatorFollows, ImportDurableBeforeAnnounced, Announced
<1>7. CASE ~busy
  <2>1. /\ writeQueue' = Append(q, "endBusy") /\ busy' = TRUE
        /\ toDao' = Append(toDao, BusyChanged(TRUE))
    BY <1>7 DEF StartBusy
  <2>2. "endBusy" \in Events /\ BusyChanged(TRUE) \in Signals
    BY DEF Events, Signals, BusyChanged
  <2>3. writeQueue' \in Seq(Events) /\ toDao' \in Seq(Signals)
    BY <2>1, <2>2, <1>1, <1>2, SeqAppend
  <2>4. ~Queued(q, "endBusy")
    BY <1>3, <1>7 DEF BusyScheduled
  <2>5. BusyScheduled'
    <3>1. Queued(writeQueue', "endBusy")
      BY <2>1, <2>2, <1>2, QueuedAppend
    <3>2. AtMostOnce(writeQueue', "endBusy")
      BY <2>1, <2>2, <2>4, <1>2, <1>4, OnceAppend
    <3>3. QED
      BY <3>1, <3>2, <2>1 DEF BusyScheduled
  <2>6. IndicatorFollows'
    BY <2>1, <1>1, SettlesChange DEF IndicatorFollows
  <2>7. ImportDurableBeforeAnnounced'
    <3>1. BusyChanged(TRUE).sig # "writeComplete"
      BY DEF BusyChanged
    <3>2. durable' \in Nat /\ durable' <= durable'
      OBVIOUS
    <3>3. Announced(Append(toDao, BusyChanged(TRUE)), durable')
      BY <3>1, <3>2, <2>2, <1>1, <1>5, AnnouncedAppend, Zenon
    <3>4. QED
      BY <3>3, <2>1 DEF Announced, ImportDurableBeforeAnnounced
  <2>8. Queued(q, "endWrite") => Queued(writeQueue', "endWrite")
    BY <2>1, <2>2, <1>2, QueuedAppend
  <2>9. QED
    BY <2>1, <2>3, <2>5, <2>6, <2>7, <2>8
<1>8. QED
  BY <1>6, <1>7, <1>1

\* Appending an event that is not endBusy, or removing one, keeps the busy schedule.
LEMMA ScheduleAppend ==
  ASSUME NEW q \in Seq(Events), NEW x \in Events, x # "endBusy", NEW b \in BOOLEAN,
         b <=> Queued(q, "endBusy"), AtMostOnce(q, "endBusy")
  PROVE  /\ Append(q, x) \in Seq(Events)
         /\ b <=> Queued(Append(q, x), "endBusy")
         /\ AtMostOnce(Append(q, x), "endBusy")
         /\ Queued(q, "endWrite") => Queued(Append(q, x), "endWrite")
  BY SeqAppend, QueuedAppend, OnceAppend

LEMMA ScheduleTail ==
  ASSUME NEW q \in Seq(Events), q # <<>>, Head(q) # "endBusy", NEW b \in BOOLEAN,
         b <=> Queued(q, "endBusy"), AtMostOnce(q, "endBusy")
  PROVE  /\ Tail(q) \in Seq(Events)
         /\ b <=> Queued(Tail(q), "endBusy")
         /\ AtMostOnce(Tail(q), "endBusy")
  BY SeqTail, QueuedTail, OnceTail
--------------------------------------------------------------------------------
LEMMA InitEstablishes == Init => IInv
<1> SUFFICES ASSUME Init PROVE IInv
  OBVIOUS
<1> USE DEF Init
<1>1. Types
  <2>1. writeQueue \in Seq(Events) /\ toDao \in Seq(Signals)
    OBVIOUS
  <2>2. loader \in [Loaders -> {"idle", "waiting", "storing"}]
    OBVIOUS
  <2>3. stores \in 0..MaxStores
    BY BoundsAssumption
  <2>4. posted \in Nat /\ handled \in Nat /\ durable \in 0..handled
    OBVIOUS
  <2>5. /\ inTransaction \in BOOLEAN /\ busy \in BOOLEAN
        /\ daoBusy \in BOOLEAN /\ quitting \in BOOLEAN
    OBVIOUS
  <2>6. /\ wpc \in {"loop", "lock", "body", "vacuumLock", "vacuum", "exited"}
        /\ task \in Kinds \cup {"none"} /\ writeLock \in Loaders \cup {"writer", "none"}
    OBVIOUS
  <2> HIDE DEF Init
  <2>7. QED
    BY <2>1, <2>2, <2>3, <2>4, <2>5, <2>6 DEF Types
<1>2. Points
  BY DEF Points
<1>3. LockOwnership
  BY LoadersAssumption DEF LockOwnership
<1>4. EndWriteScheduled /\ BusyScheduled
  BY DEF EndWriteScheduled, BusyScheduled, Queued, AtMostOnce
<1>5. IndicatorFollows /\ ImportDurableBeforeAnnounced
  <2>1. DOMAIN toDao = {}
    OBVIOUS
  <2>2. QED
    BY <2>1 DEF IndicatorFollows, Settles, ImportDurableBeforeAnnounced
<1>6. QED
  BY <1>1, <1>2, <1>3, <1>4, <1>5 DEF IInv

\* The actions of the GUI thread.
LEMMA GuiKeeps ==
  ASSUME IInv, (\E k \in Kinds : Post(k)) \/ DaoReceive \/ Quit
  PROVE  IInv'
<1> USE DEF writerVars, loaderVars
<1>1. ASSUME NEW k \in Kinds, Post(k)
      PROVE  IInv'
  <2> USE <1>1 DEF Post, IInv
  <2>1. k \in Events /\ k # "endBusy"
    BY DEF Events, Kinds
  <2>2. writeQueue \in Seq(Events) /\ busy \in BOOLEAN
    BY DEF Types
  <2>3. writeQueue' \in Seq(Events) /\ BusyScheduled'
    BY <2>1, <2>2, ScheduleAppend DEF BusyScheduled
  <2>4. Types'
    BY <2>3 DEF Types
  <2>5. EndWriteScheduled'
    BY <2>1, <2>2, QueuedAppend DEF EndWriteScheduled
  <2>6. Points' /\ LockOwnership'
    BY DEF Points, LockOwnership
  <2>7. IndicatorFollows' /\ ImportDurableBeforeAnnounced'
    BY DEF IndicatorFollows, ImportDurableBeforeAnnounced
  <2>8. QED
    BY <2>3, <2>4, <2>5, <2>6, <2>7
<1>2. CASE DaoReceive
  <2> USE <1>2 DEF DaoReceive, IInv
  <2>1. /\ toDao \in Seq(Signals) /\ toDao # <<>> /\ daoBusy \in BOOLEAN
        /\ busy \in BOOLEAN /\ durable \in Nat
    BY DEF Types
  <2>2. Tail(toDao) \in Seq(Signals) /\ Head(toDao) \in Signals
    BY <2>1, SeqTail
  <2>3. daoBusy' \in BOOLEAN
    BY <2>1, <2>2, SignalCases
  <2>4. Types'
    BY <2>2, <2>3 DEF Types
  <2>5. IndicatorFollows'
    BY <2>1, SettlesTail DEF IndicatorFollows
  <2>6. ImportDurableBeforeAnnounced'
    <3>1. Announced(Tail(toDao), durable)
      BY <2>1, AnnouncedTail DEF ImportDurableBeforeAnnounced, Announced
    <3>2. QED
      BY <3>1 DEF ImportDurableBeforeAnnounced, Announced
  <2>7. Points' /\ LockOwnership' /\ EndWriteScheduled' /\ BusyScheduled'
    BY DEF Points, LockOwnership, EndWriteScheduled, BusyScheduled
  <2>8. QED
    BY <2>4, <2>5, <2>6, <2>7
<1>3. CASE Quit
  <2> USE <1>3 DEF Quit, IInv
  <2>1. Types'
    BY DEF Types
  <2>2. Points' /\ LockOwnership' /\ EndWriteScheduled' /\ BusyScheduled'
    BY DEF Points, LockOwnership, EndWriteScheduled, BusyScheduled
  <2>3. IndicatorFollows' /\ ImportDurableBeforeAnnounced'
    BY DEF IndicatorFollows, ImportDurableBeforeAnnounced
  <2>4. QED
    BY <2>1, <2>2, <2>3
<1>4. QED
  BY <1>1, <1>2, <1>3

\* The actions of a loader thread change the lock and that thread only.
LEMMA LoaderKeeps ==
  ASSUME IInv, NEW l \in Loaders, LoaderWant(l) \/ LoaderLock(l) \/ LoaderUnlock(l)
  PROVE  IInv'
<1> USE DEF LoaderStep, writerVars, guiVars, IInv
<1>1. /\ UNCHANGED <<writeQueue, writerVars, toDao, guiVars>>
      /\ l # "writer" /\ l # "none"
  BY LoadersAssumption DEF LoaderWant, LoaderLock, LoaderUnlock
<1>2. /\ Points' /\ EndWriteScheduled' /\ BusyScheduled'
      /\ IndicatorFollows' /\ ImportDurableBeforeAnnounced'
  BY <1>1 DEF Points, EndWriteScheduled, BusyScheduled, IndicatorFollows,
              ImportDurableBeforeAnnounced
<1>3. Types'
  <2>1. CASE LoaderWant(l)
    BY <1>1, <2>1, BoundsAssumption DEF LoaderWant, Types
  <2>2. CASE LoaderLock(l)
    BY <1>1, <2>2 DEF LoaderLock, Types
  <2>3. CASE LoaderUnlock(l)
    BY <1>1, <2>3 DEF LoaderUnlock, Types
  <2>4. QED
    BY <2>1, <2>2, <2>3
<1>4. LockOwnership'
  <2>1. CASE LoaderWant(l)
    BY <1>1, <2>1 DEF LoaderWant, Types, LockOwnership
  <2>2. CASE LoaderLock(l)
    BY <1>1, <2>2, LoadersAssumption DEF LoaderLock, Types, LockOwnership
  <2>3. CASE LoaderUnlock(l)
    BY <1>1, <2>3, LoadersAssumption DEF LoaderUnlock, Types, LockOwnership
  <2>4. QED
    BY <2>1, <2>2, <2>3
<1>5. QED
  BY <1>2, <1>3, <1>4

\* The event loop takes a request off the queue; its handler starts with startBusy
\* (Take, TakeVacuum, Render), or finds its transaction open (Take).
LEMMA TakeKeeps ==
  ASSUME IInv, Take
  PROVE  IInv'
<1> USE DEF IInv, Take, Deliver, txVars, busyVars, countVars, loaderVars, guiVars
<1>1. /\ writeQueue \in Seq(Events) /\ writeQueue # <<>> /\ busy \in BOOLEAN
      /\ Head(writeQueue) \notin {"endBusy", "endWrite"}
      /\ durable \in Nat /\ inTransaction \in BOOLEAN
  BY DEF Types
<1>2. /\ writeQueue' \in Seq(Events) /\ toDao' \in Seq(Signals) /\ busy' \in BOOLEAN
      /\ BusyScheduled' /\ IndicatorFollows' /\ ImportDurableBeforeAnnounced'
      /\ Queued(Tail(writeQueue), "endWrite") => Queued(writeQueue', "endWrite")
  <2>1. CASE StartBusy(Tail(writeQueue))
    <3>1. daoBusy' = daoBusy /\ durable' = durable
      OBVIOUS
    <3>2. durable' \in Nat /\ durable <= durable'
      BY <1>1, <3>1
    <3>3. QED
      BY <2>1, <1>1, <3>1, <3>2, StartBusyKeeps
  <2>2. CASE writeQueue' = Tail(writeQueue) /\ UNCHANGED <<busy, toDao>>
    BY <2>2, <1>1, ScheduleTail
    DEF Types, BusyScheduled, IndicatorFollows, ImportDurableBeforeAnnounced
  <2>3. QED
    BY <2>1, <2>2
<1>3. task' \in Kinds
  BY DEF Kinds
<1>4. Types'
  BY <1>2, <1>3 DEF Types
<1>5. Points' /\ LockOwnership'
  BY <1>1 DEF Points, LockOwnership
<1>6. EndWriteScheduled'
  BY <1>1, <1>2, QueuedTail DEF EndWriteScheduled
<1>7. QED
  BY <1>2, <1>4, <1>5, <1>6

LEMMA StartWriteKeeps ==
  ASSUME IInv, StartWrite
  PROVE  IInv'
<1> USE DEF IInv, StartWrite, busyVars, countVars, loaderVars, guiVars
<1>1. writeQueue \in Seq(Events) /\ busy \in BOOLEAN /\ "endWrite" \in Events
  BY DEF Types, Events
<1>2. writeQueue' \in Seq(Events) /\ BusyScheduled'
  BY <1>1, ScheduleAppend DEF BusyScheduled
<1>3. Types'
  BY <1>2 DEF Types
<1>4. Points' /\ LockOwnership'
  BY LoadersAssumption DEF Points, LockOwnership, Types
<1>5. EndWriteScheduled'
  BY <1>1, QueuedAppend DEF EndWriteScheduled
<1>6. IndicatorFollows' /\ ImportDurableBeforeAnnounced'
  BY DEF IndicatorFollows, ImportDurableBeforeAnnounced
<1>7. QED
  BY <1>2, <1>3, <1>4, <1>5, <1>6

LEMMA HandleBatchedKeeps ==
  ASSUME IInv, HandleBatched
  PROVE  IInv'
<1> USE DEF IInv, HandleBatched, txVars, busyVars, loaderVars, guiVars
<1>1. Types'
  BY DEF Types
<1>2. Points' /\ LockOwnership' /\ EndWriteScheduled' /\ BusyScheduled'
  BY DEF Points, LockOwnership, EndWriteScheduled, BusyScheduled
<1>3. IndicatorFollows' /\ ImportDurableBeforeAnnounced'
  BY DEF IndicatorFollows, ImportDurableBeforeAnnounced
<1>4. QED
  BY <1>1, <1>2, <1>3

LEMMA HandleCommittingKeeps ==
  ASSUME IInv, HandleCommitting
  PROVE  IInv'
<1> USE DEF IInv, HandleCommitting, loaderVars, guiVars
<1> DEFINE x == [sig |-> "writeComplete", arg |-> handled']
<1>1. /\ toDao \in Seq(Signals) /\ durable \in Nat /\ handled \in Nat
      /\ daoBusy \in BOOLEAN /\ busy \in BOOLEAN
      /\ handled' \in Nat /\ durable' = handled' /\ durable <= durable'
  BY DEF Types
<1>2. x \in Signals /\ x.sig = "writeComplete" /\ x.arg = durable'
  BY <1>1 DEF Signals
<1>3. Announced(toDao, durable) /\ Settles(toDao, daoBusy, busy)
  BY DEF ImportDurableBeforeAnnounced, Announced, IndicatorFollows
<1>4. /\ toDao' \in Seq(Signals)
      /\ Announced(toDao', durable') /\ Settles(toDao', daoBusy, busy)
  <2>1. CASE toDao' = Append(toDao, x)
    <3>1. durable' \in Nat /\ x.arg <= durable' /\ x.sig # "busyChanged"
      BY <1>1, <1>2
    <3> HIDE DEF x
    <3>2. toDao' \in Seq(Signals)
      BY <2>1, <1>1, <1>2, SeqAppend
    <3>3. Announced(Append(toDao, x), durable')
      BY <1>1, <1>2, <1>3, <3>1, AnnouncedAppend
    <3>4. Settles(Append(toDao, x), daoBusy, busy)
      BY <1>1, <1>2, <1>3, <3>1, SettlesOther
    <3>5. QED
      BY <2>1, <3>2, <3>3, <3>4
  <2>2. CASE toDao' = toDao
    <3>1. durable' \in Nat /\ Announced(toDao, durable')
      BY <1>1, <1>3, AnnouncedLater
    <3>2. QED
      BY <2>2, <3>1, <1>1, <1>3
  <2>3. QED
    BY <2>1, <2>2
<1>5. IndicatorFollows' /\ ImportDurableBeforeAnnounced'
  BY <1>4 DEF IndicatorFollows, ImportDurableBeforeAnnounced, Announced
<1>6. Types'
  <2>1. writeLock' \in Loaders \cup {"writer", "none"} /\ inTransaction' \in BOOLEAN
    BY DEF Types, Commit
  <2>2. durable' \in 0..handled'
    BY <1>1
  <2>3. QED
    BY <1>1, <1>4, <2>1, <2>2 DEF Types
<1>7. Points' /\ LockOwnership'
  BY LoadersAssumption DEF Points, LockOwnership, Commit, Types
<1>8. EndWriteScheduled' /\ BusyScheduled'
  BY DEF EndWriteScheduled, BusyScheduled, Commit
<1>9. QED
  BY <1>5, <1>6, <1>7, <1>8

LEMMA TakeVacuumKeeps ==
  ASSUME IInv, TakeVacuum
  PROVE  IInv'
<1> USE DEF IInv, TakeVacuum, Deliver, loaderVars, guiVars
<1>1. /\ writeQueue # <<>> /\ Head(writeQueue) # "endBusy"
      /\ daoBusy' = daoBusy /\ durable' \in Nat /\ durable <= durable'
  BY DEF Types
<1>2. /\ writeQueue' \in Seq(Events) /\ toDao' \in Seq(Signals) /\ busy' \in BOOLEAN
      /\ BusyScheduled' /\ IndicatorFollows' /\ ImportDurableBeforeAnnounced'
  BY <1>1, StartBusyKeeps
<1>3. Types'
  <2>1. writeLock' \in Loaders \cup {"writer", "none"} /\ inTransaction' \in BOOLEAN
    BY DEF Types, Commit
  <2>2. durable' \in 0..handled' /\ task' \in Kinds
    BY DEF Types, Kinds
  <2>3. QED
    BY <1>2, <2>1, <2>2 DEF Types
<1>4. Points' /\ LockOwnership'
  BY LoadersAssumption DEF Points, LockOwnership, Commit, Types
<1>5. EndWriteScheduled'
  BY DEF EndWriteScheduled, Commit
<1>6. QED
  BY <1>2, <1>3, <1>4, <1>5

LEMMA VacuumKeeps ==
  ASSUME IInv, VacuumLock \/ VacuumDone
  PROVE  IInv'
<1> USE DEF IInv, VacuumLock, VacuumDone, txVars, busyVars, countVars, loaderVars, guiVars
<1>1. Types'
  BY DEF Types
<1>2. Points' /\ LockOwnership'
  BY LoadersAssumption DEF Points, LockOwnership, Types
<1>3. EndWriteScheduled' /\ BusyScheduled' /\ IndicatorFollows'
  BY DEF EndWriteScheduled, BusyScheduled, IndicatorFollows
<1>4. ImportDurableBeforeAnnounced'
  <2>1. /\ durable \in Nat /\ durable' \in Nat /\ durable <= durable'
        /\ toDao \in Seq(Signals) /\ toDao' = toDao
    BY DEF Types
  <2>2. Announced(toDao, durable')
    BY <2>1, AnnouncedLater DEF ImportDurableBeforeAnnounced, Announced
  <2>3. QED
    BY <2>1, <2>2 DEF ImportDurableBeforeAnnounced, Announced
<1>5. QED
  BY <1>1, <1>2, <1>3, <1>4

LEMMA RenderKeeps ==
  ASSUME IInv, Render
  PROVE  IInv'
<1> USE DEF IInv, Render, Deliver, txVars, loaderVars, guiVars
<1>1. /\ writeQueue \in Seq(Events) /\ writeQueue # <<>>
      /\ Head(writeQueue) \notin {"endBusy", "endWrite"}
      /\ daoBusy' = daoBusy /\ durable' \in Nat /\ durable <= durable'
  BY DEF Types
<1>2. /\ writeQueue' \in Seq(Events) /\ toDao' \in Seq(Signals) /\ busy' \in BOOLEAN
      /\ BusyScheduled' /\ IndicatorFollows' /\ ImportDurableBeforeAnnounced'
      /\ Queued(Tail(writeQueue), "endWrite") => Queued(writeQueue', "endWrite")
  BY <1>1, StartBusyKeeps
<1>3. Types'
  BY <1>2 DEF Types
<1>4. Points' /\ LockOwnership'
  BY DEF Points, LockOwnership
<1>5. EndWriteScheduled'
  BY <1>1, <1>2, QueuedTail DEF EndWriteScheduled
<1>6. QED
  BY <1>2, <1>3, <1>4, <1>5

LEMMA EndWriteKeeps ==
  ASSUME IInv, EndWrite
  PROVE  IInv'
<1> USE DEF IInv, EndWrite, Deliver, busyVars, loaderVars, guiVars
<1>1. /\ writeQueue \in Seq(Events) /\ writeQueue # <<>> /\ busy \in BOOLEAN
      /\ Head(writeQueue) # "endBusy" /\ toDao \in Seq(Signals)
      /\ durable \in Nat /\ durable' \in Nat /\ durable <= durable'
  BY DEF Types
<1>2. writeQueue' \in Seq(Events) /\ BusyScheduled'
  BY <1>1, ScheduleTail DEF BusyScheduled
<1>3. Types'
  <2>1. writeLock' \in Loaders \cup {"writer", "none"} /\ inTransaction' \in BOOLEAN
    BY DEF Types, Commit
  <2>2. durable' \in 0..handled'
    BY DEF Types
  <2>3. QED
    BY <1>2, <2>1, <2>2 DEF Types
<1>4. Points' /\ LockOwnership'
  BY LoadersAssumption DEF Points, LockOwnership, Commit, Types
<1>5. EndWriteScheduled' /\ IndicatorFollows'
  BY DEF EndWriteScheduled, IndicatorFollows, Commit
<1>6. ImportDurableBeforeAnnounced'
  <2>1. Announced(toDao, durable')
    BY <1>1, AnnouncedLater DEF ImportDurableBeforeAnnounced, Announced
  <2>2. QED
    BY <2>1 DEF ImportDurableBeforeAnnounced, Announced
<1>7. QED
  BY <1>2, <1>3, <1>4, <1>5, <1>6

LEMMA EndBusyKeeps ==
  ASSUME IInv, EndBusy
  PROVE  IInv'
<1> USE DEF IInv, EndBusy, Deliver, txVars, countVars, loaderVars, guiVars
<1>1. /\ writeQueue \in Seq(Events) /\ writeQueue # <<>> /\ Head(writeQueue) = "endBusy"
      /\ toDao \in Seq(Signals) /\ durable \in Nat /\ daoBusy \in BOOLEAN
      /\ busy \in BOOLEAN
  BY DEF Types
<1>2. busy
  BY <1>1, QueuedTail DEF BusyScheduled
<1>3. toDao' = Append(toDao, BusyChanged(FALSE)) /\ busy' = FALSE
  BY <1>2
<1>4. BusyChanged(FALSE) \in Signals /\ BusyChanged(FALSE).sig # "writeComplete"
  BY DEF BusyChanged, Signals
<1>5. writeQueue' \in Seq(Events) /\ toDao' \in Seq(Signals)
  BY <1>1, <1>3, <1>4, SeqTail, SeqAppend
<1>6. Types'
  BY <1>5 DEF Types
<1>7. BusyScheduled'
  BY <1>1, <1>3, OnceTail DEF BusyScheduled
<1>8. EndWriteScheduled'
  BY <1>1, QueuedTail DEF EndWriteScheduled
<1>9. IndicatorFollows'
  BY <1>1, <1>3, SettlesChange DEF IndicatorFollows
<1>10. ImportDurableBeforeAnnounced'
  <2>1. durable <= durable /\ Announced(toDao, durable)
    BY <1>1 DEF ImportDurableBeforeAnnounced, Announced
  <2>2. Announced(Append(toDao, BusyChanged(FALSE)), durable)
    BY <1>1, <1>4, <2>1, AnnouncedAppend
  <2>3. QED
    BY <2>2, <1>3 DEF ImportDurableBeforeAnnounced, Announced
<1>11. Points' /\ LockOwnership'
  BY DEF Points, LockOwnership
<1>12. QED
  BY <1>6, <1>7, <1>8, <1>9, <1>10, <1>11

LEMMA ExitKeeps ==
  ASSUME IInv, Exit
  PROVE  IInv'
<1> USE DEF IInv, Exit, txVars, busyVars, countVars, loaderVars, guiVars
<1>1. Types'
  BY DEF Types
<1>2. Points' /\ LockOwnership' /\ EndWriteScheduled' /\ BusyScheduled'
  BY DEF Points, LockOwnership, EndWriteScheduled, BusyScheduled
<1>3. IndicatorFollows' /\ ImportDurableBeforeAnnounced'
  BY DEF IndicatorFollows, ImportDurableBeforeAnnounced
<1>4. QED
  BY <1>1, <1>2, <1>3

LEMMA StepKeeps ==
  ASSUME IInv, [Next]_vars
  PROVE  IInv'
<1>1. CASE UNCHANGED vars
  BY <1>1 DEF vars, IInv, Types, Points, LockOwnership, EndWriteScheduled,
              BusyScheduled, IndicatorFollows, ImportDurableBeforeAnnounced
<1>2. CASE (\E k \in Kinds : Post(k)) \/ DaoReceive \/ Quit
  BY <1>2, GuiKeeps
<1>3. CASE WriterStep
  BY <1>3, TakeKeeps, StartWriteKeeps, HandleBatchedKeeps, HandleCommittingKeeps,
     TakeVacuumKeeps, VacuumKeeps, RenderKeeps, EndWriteKeeps, EndBusyKeeps, ExitKeeps
  DEF WriterStep
<1>4. CASE \E l \in Loaders : LoaderWant(l) \/ LoaderLock(l) \/ LoaderUnlock(l)
  BY <1>4, LoaderKeeps
<1>5. QED
  BY <1>1, <1>2, <1>3, <1>4 DEF Next

\* In every behaviour of the write thread each safety invariant of DeferredWriter
\* holds, together with Points which makes them inductive.
THEOREM Invariance == Spec => []IInv
  BY InitEstablishes, StepKeeps, PTL DEF Spec
--------------------------------------------------------------------------------
\* The type invariant, with m_inTransaction as each program point of the write thread
\* needs it, for any loaders and any number of requests and stores.
THEOREM TypeCorrect == Spec => []TypeOK
<1>1. IInv => TypeOK
  BY DEF IInv, TypeOK
<1>2. QED
  BY <1>1, Invariance, PTL

\* The write lock (startWrite, endWrite, task_vacuum, makeThumbnail) has exactly the
\* owner that is writing, so no two connections ever write at once.
THEOREM LockOwned == Spec => []LockOwnership
<1>1. IInv => LockOwnership
  BY DEF IInv
<1>2. QED
  BY <1>1, Invariance, PTL

\* startWrite and task_vacuum never ask for the lock their own thread holds: the
\* write thread cannot deadlock on itself.
THEOREM NeverSelfWaits == Spec => []NoSelfWait
<1>1. IInv => NoSelfWait
  BY DEF IInv, Points, LockOwnership, NoSelfWait
<1>2. QED
  BY <1>1, Invariance, PTL

\* However early commits (writeImage, purge, vacuum) and left-over timers mix, an
\* open transaction always has an endWrite event coming.
THEOREM CommitComes == Spec => []EndWriteScheduled
<1>1. IInv => EndWriteScheduled
  BY DEF IInv
<1>2. QED
  BY <1>1, Invariance, PTL

\* startBusy and endBusy: the flag is on exactly while its one endBusy is queued.
THEOREM BusyEnds == Spec => []BusyScheduled
<1>1. IInv => BusyScheduled
  BY DEF IInv
<1>2. QED
  BY <1>1, Invariance, PTL

\* setBusy on the GUI thread: once the queued signals are taken the indicator shows
\* the writer's flag.
THEOREM IndicatorAgrees == Spec => []IndicatorFollows
<1>1. IInv => IndicatorFollows
  BY DEF IInv
<1>2. QED
  BY <1>1, Invariance, PTL

\* writeImage announces an import only after its commit.
THEOREM AnnouncedIsDurable == Spec => []ImportDurableBeforeAnnounced
<1>1. IInv => ImportDurableBeforeAnnounced
  BY DEF IInv
<1>2. QED
  BY <1>1, Invariance, PTL
--------------------------------------------------------------------------------
(* The write thread implements the safety part of WriteBehind: every request *)
(* posted is queued, in its handler, or handled.                             *)

\* The places of the requests among the events q.
Requests(q) == {i \in DOMAIN q : q[i] \in Kinds}

\* A request is past the event loop and not handled yet.
InHandler == wpc \in {"lock", "body", "vacuumLock", "vacuum"}

\* No request is lost or doubled between the queue and its handler, and the thread
\* leaves its loop only once it was told to.
Accounted ==
  /\ posted = handled + Cardinality(Requests(writeQueue)) + (IF InHandler THEN 1 ELSE 0)
  /\ wpc = "exited" => quitting

LEMMA RequestsFinite ==
  ASSUME NEW q \in Seq(Events)
  PROVE  IsFiniteSet(Requests(q)) /\ Cardinality(Requests(q)) \in Nat
<1>1. DOMAIN q = 1..Len(q) /\ Len(q) \in Nat
  OBVIOUS
<1>2. IsFiniteSet(1..Len(q))
  BY <1>1, FS_Interval
<1>3. Requests(q) \in SUBSET (1..Len(q))
  BY <1>1 DEF Requests
<1>4. IsFiniteSet(Requests(q))
  BY <1>2, <1>3, FS_Subset
<1>5. QED
  BY <1>4, FS_CardinalityType

\* Posting an event adds one request or none.
LEMMA RequestsAppend ==
  ASSUME NEW q \in Seq(Events), NEW x \in Events
  PROVE  Cardinality(Requests(Append(q, x))) =
           Cardinality(Requests(q)) + (IF x \in Kinds THEN 1 ELSE 0)
<1> DEFINE t == Append(q, x)
           n == Len(q) + 1
<1>1. /\ DOMAIN q = 1..Len(q) /\ DOMAIN t = 1..n /\ Len(q) \in Nat /\ t[n] = x
      /\ \A i \in DOMAIN q : t[i] = q[i]
  OBVIOUS
<1> HIDE DEF t
<1>2. Requests(t) = IF x \in Kinds THEN Requests(q) \cup {n} ELSE Requests(q)
  BY <1>1 DEF Requests
<1>3. n \notin Requests(q)
  BY <1>1 DEF Requests
<1>4. IsFiniteSet(Requests(q)) /\ Cardinality(Requests(q)) \in Nat
  BY RequestsFinite
<1> HIDE DEF n
<1>5. Cardinality(Requests(q) \cup {n}) = Cardinality(Requests(q)) + 1
  BY <1>3, <1>4, FS_AddElement
<1>6. QED
  BY <1>2, <1>4, <1>5 DEF t

\* Delivering an event removes one request or none.
LEMMA RequestsTail ==
  ASSUME NEW q \in Seq(Events), q # <<>>
  PROVE  Cardinality(Requests(q)) =
           Cardinality(Requests(Tail(q))) + (IF Head(q) \in Kinds THEN 1 ELSE 0)
<1> DEFINE t == Tail(q)
           R == Requests(q) \ {1}
<1>1. /\ DOMAIN q = 1..Len(q) /\ Len(q) \in Nat \ {0} /\ Head(q) = q[1]
      /\ DOMAIN t = 1..(Len(q) - 1)
      /\ \A i \in DOMAIN t : t[i] = q[i + 1]
      /\ t \in Seq(Events)
  OBVIOUS
<1> HIDE DEF t
<1>2. /\ Requests(t) \subseteq Nat
      /\ \A i \in Requests(t) : i + 1 \in R
      /\ \A j \in R : j \in Nat /\ j - 1 \in Requests(t) /\ (j - 1) + 1 = j
  BY <1>1 DEF Requests
<1>3. 1 \in Requests(q) <=> Head(q) \in Kinds
  BY <1>1 DEF Requests
<1>4. /\ IsFiniteSet(Requests(t)) /\ Cardinality(Requests(t)) \in Nat
      /\ IsFiniteSet(Requests(q)) /\ Cardinality(Requests(q)) \in Nat
  BY <1>1, RequestsFinite
<1> HIDE DEF R
<1>5. Cardinality(R) = Cardinality(Requests(t))
  <2> DEFINE f == [i \in Requests(t) |-> i + 1]
  <2>1. f \in Bijection(Requests(t), R)
    <3>1. f \in [Requests(t) -> R]
      BY <1>2
    <3>2. \A a, b \in Requests(t) : f[a] = f[b] => a = b
      BY <1>2
    <3>3. \A j \in R : \E i \in Requests(t) : f[i] = j
      BY <1>2
    <3> HIDE DEF f
    <3>4. f \in Injection(Requests(t), R)
      BY <3>1, <3>2, Fun_IsInj
    <3>5. f \in Surjection(Requests(t), R)
      BY <3>1, <3>3, Fun_IsSurj
    <3>6. QED
      BY <3>4, <3>5 DEF Bijection
  <2>2. ExistsBijection(Requests(t), R)
    BY <2>1 DEF ExistsBijection
  <2>3. QED
    BY <2>2, <1>4, FS_Bijection
<1>6. Cardinality(R) = IF 1 \in Requests(q) THEN Cardinality(Requests(q)) - 1
                                            ELSE Cardinality(Requests(q))
  BY <1>4, FS_RemoveElement DEF R
<1>7. QED
  BY <1>3, <1>4, <1>5, <1>6 DEF t

LEMMA RequestsEmpty == Cardinality(Requests(<<>>)) = 0
<1>1. Requests(<<>>) = {}
  BY DEF Requests
<1>2. QED
  BY <1>1, FS_EmptySet

LEMMA StartBusyRequests ==
  ASSUME Types, writeQueue # <<>>, StartBusy(Tail(writeQueue))
  PROVE  Cardinality(Requests(writeQueue')) = Cardinality(Requests(Tail(writeQueue)))
<1>1. Tail(writeQueue) \in Seq(Events)
  BY SeqTail DEF Types
<1>2. "endBusy" \in Events /\ "endBusy" \notin Kinds
  BY DEF Events, Kinds
<1>3. CASE writeQueue' = Tail(writeQueue)
  BY <1>3
<1>4. CASE writeQueue' = Append(Tail(writeQueue), "endBusy")
  <2>1. Cardinality(Requests(Append(Tail(writeQueue), "endBusy"))) =
          Cardinality(Requests(Tail(writeQueue))) + 0
    BY <1>1, <1>2, RequestsAppend
  <2>2. Cardinality(Requests(Tail(writeQueue))) \in Nat
    BY <1>1, RequestsFinite
  <2>3. QED
    BY <1>4, <2>1, <2>2
<1>5. QED
  BY <1>3, <1>4 DEF StartBusy

\* The requests that are queued, and what the abstract counters are made of.
LEMMA Quantities ==
  ASSUME Types
  PROVE  /\ writeQueue \in Seq(Events) /\ Cardinality(Requests(writeQueue)) \in Nat
         /\ posted \in Nat /\ handled \in Nat /\ durable \in Nat /\ durable <= handled
         /\ writeQueue # <<>> =>
              /\ Tail(writeQueue) \in Seq(Events)
              /\ Cardinality(Requests(Tail(writeQueue))) \in Nat
              /\ Cardinality(Requests(writeQueue)) =
                   Cardinality(Requests(Tail(writeQueue)))
                     + (IF Head(writeQueue) \in Kinds THEN 1 ELSE 0)
<1>1. /\ writeQueue \in Seq(Events)
      /\ posted \in Nat /\ handled \in Nat /\ durable \in Nat /\ durable <= handled
  BY DEF Types
<1>2. Cardinality(Requests(writeQueue)) \in Nat
  BY <1>1, RequestsFinite
<1>3. ASSUME writeQueue # <<>>
      PROVE  /\ Tail(writeQueue) \in Seq(Events)
             /\ Cardinality(Requests(Tail(writeQueue))) \in Nat
  BY <1>1, <1>3, SeqTail, RequestsFinite
<1>4. ASSUME writeQueue # <<>>
      PROVE  Cardinality(Requests(writeQueue)) =
                Cardinality(Requests(Tail(writeQueue)))
                  + (IF Head(writeQueue) \in Kinds THEN 1 ELSE 0)
  BY <1>1, <1>4, RequestsTail
<1>5. QED
  BY <1>1, <1>2, <1>3, <1>4

\* The four ways a step of the write thread can look to WriteBehind.
Idle     == UNCHANGED <<posted, handled, durable>> /\ (wpc' = "exited" <=> wpc = "exited")
Stops    == wpc # "exited" /\ wpc' = "exited" /\ UNCHANGED <<posted, handled, durable>>
Commits  == /\ wpc # "exited" /\ wpc' # "exited"
            /\ durable' = handled /\ UNCHANGED <<posted, handled>>
Handles  == /\ wpc # "exited" /\ wpc' # "exited"
            /\ handled < posted /\ handled' = handled + 1
            /\ durable' \in {durable, handled'} /\ UNCHANGED posted
Posts    == /\ wpc # "exited" /\ wpc' # "exited"
            /\ posted < MaxRequests /\ posted' = posted + 1
            /\ UNCHANGED <<handled, durable>>

LEMMA AbstractStep ==
  ASSUME Types, Idle \/ Stops \/ Commits \/ Handles \/ Posts
  PROVE  [Promise!Next]_Promise!vars
<1> USE DEF Promise!vars, Promise!Next
<1>1. CASE Idle
  BY <1>1 DEF Idle
<1>2. CASE Stops
  BY <1>2 DEF Stops, Promise!Stop
<1>3. CASE Commits
  <2>1. CASE durable = handled
    BY <1>3, <2>1 DEF Commits
  <2>2. CASE durable # handled
    <3>1. durable < handled
      BY <2>2, Quantities
    <3>2. QED
      BY <1>3, <3>1 DEF Commits, Promise!Commit
  <2>3. QED
    BY <2>1, <2>2
<1>4. CASE Handles
  BY <1>4 DEF Handles, Promise!Handle
<1>5. CASE Posts
  BY <1>5 DEF Posts, Promise!Post
<1>6. QED
  BY <1>1, <1>2, <1>3, <1>4, <1>5

LEMMA InitAccounted == Init => Accounted
  BY RequestsEmpty DEF Init, Accounted, InHandler

\* Each step keeps the account, and is a step of WriteBehind or changes nothing of it.
LEMMA StepAccounted ==
  ASSUME Types, Accounted, [Next]_vars
  PROVE  Accounted' /\ (Idle \/ Stops \/ Commits \/ Handles \/ Posts)
<1> DEFINE n == Cardinality(Requests(writeQueue))
           m == Cardinality(Requests(Tail(writeQueue)))
           here == IF InHandler THEN 1 ELSE 0
           OK == Accounted' /\ (Idle \/ Stops \/ Commits \/ Handles \/ Posts)
<1>0. /\ writeQueue \in Seq(Events) /\ n \in Nat
      /\ posted \in Nat /\ handled \in Nat /\ durable \in Nat
      /\ writeQueue # <<>> =>
           /\ Tail(writeQueue) \in Seq(Events)
           /\ m \in Nat /\ n = m + (IF Head(writeQueue) \in Kinds THEN 1 ELSE 0)
  BY Quantities
<1>a. posted = handled + n + here /\ (wpc = "exited" => quitting)
  BY DEF Accounted
<1>1. ASSUME UNCHANGED <<wpc, handled, durable, writeQueue, posted>>, quitting => quitting'
      PROVE  OK
  BY <1>1, <1>a DEF Accounted, InHandler, Idle
<1>2. ASSUME NEW k \in Kinds, Post(k)
      PROVE  OK
  <2>1. k \in Events
    BY DEF Events
  <2>2. Cardinality(Requests(writeQueue')) = n + 1
    BY <1>2, <1>0, <2>1, RequestsAppend DEF Post
  <2>3. UNCHANGED <<wpc, handled, durable, quitting>> /\ ~quitting
    BY <1>2 DEF Post, writerVars
  <2>4. posted' = posted + 1 /\ posted < MaxRequests
    BY <1>2 DEF Post
  <2> HIDE DEF n, m
  <2>5. Accounted'
    BY <2>2, <2>3, <2>4, <1>0, <1>a DEF Accounted, InHandler
  <2>6. Posts
    BY <2>3, <2>4, <1>a DEF Posts
  <2>7. QED
    BY <2>5, <2>6
<1>3. CASE Take
  <2>1. /\ wpc = "loop" /\ writeQueue # <<>> /\ Head(writeQueue) \in Kinds
        /\ wpc' \in {"lock", "body"} /\ UNCHANGED <<posted, handled, durable, quitting>>
    BY <1>3 DEF Take, Deliver, Kinds, countVars, guiVars
  <2>2. Cardinality(Requests(writeQueue')) = m
    BY <1>3, <2>1, StartBusyRequests DEF Take
  <2> HIDE DEF n, m
  <2>3. Accounted'
    BY <2>1, <2>2, <1>0, <1>a DEF Accounted, InHandler
  <2>4. Idle
    BY <2>1 DEF Idle
  <2>5. QED
    BY <2>3, <2>4
<1>4. CASE StartWrite
  <2>1. /\ wpc = "lock" /\ wpc' = "body" /\ UNCHANGED <<posted, handled, durable, quitting>>
    BY <1>4 DEF StartWrite, countVars, guiVars
  <2>2. "endWrite" \in Events /\ "endWrite" \notin Kinds
    BY DEF Events, Kinds
  <2>3. Cardinality(Requests(writeQueue')) = n + 0
    BY <1>4, <1>0, <2>2, RequestsAppend DEF StartWrite
  <2> HIDE DEF n, m
  <2>4. Accounted'
    BY <2>1, <2>3, <1>0, <1>a DEF Accounted, InHandler
  <2>5. Idle
    BY <2>1 DEF Idle
  <2>6. QED
    BY <2>4, <2>5
<1>5. CASE HandleBatched \/ HandleCommitting \/ VacuumDone
  <2>1. /\ wpc \in {"body", "vacuum"} /\ wpc' = "loop"
        /\ handled' = handled + 1 /\ durable' \in {durable, handled'}
        /\ UNCHANGED <<posted, quitting, writeQueue>>
    BY <1>5 DEF HandleBatched, HandleCommitting, VacuumDone, guiVars
  <2> HIDE DEF n, m
  <2>2. Cardinality(Requests(writeQueue')) = n
    BY <2>1 DEF n
  <2>3. Accounted'
    BY <2>1, <2>2, <1>0, <1>a DEF Accounted, InHandler
  <2>4. Handles
    BY <2>1, <1>0, <1>a DEF Handles, InHandler
  <2>5. QED
    BY <2>3, <2>4
<1>6. CASE TakeVacuum
  <2>1. /\ wpc = "loop" /\ writeQueue # <<>> /\ Head(writeQueue) \in Kinds
        /\ wpc' = "vacuumLock" /\ durable' = handled
        /\ UNCHANGED <<posted, handled, quitting>>
    BY <1>6 DEF TakeVacuum, Deliver, Kinds, guiVars
  <2>2. Cardinality(Requests(writeQueue')) = m
    BY <1>6, <2>1, StartBusyRequests DEF TakeVacuum
  <2> HIDE DEF n, m
  <2>3. Accounted'
    BY <2>1, <2>2, <1>0, <1>a DEF Accounted, InHandler
  <2>4. Commits
    BY <2>1 DEF Commits
  <2>5. QED
    BY <2>3, <2>4
<1>7. CASE VacuumLock
  <2>1. /\ wpc = "vacuumLock" /\ wpc' = "vacuum"
        /\ UNCHANGED <<posted, handled, durable, quitting, writeQueue>>
    BY <1>7 DEF VacuumLock, countVars, guiVars
  <2>2. Accounted'
    BY <2>1, <1>a DEF Accounted, InHandler
  <2>3. Idle
    BY <2>1 DEF Idle
  <2>4. QED
    BY <2>2, <2>3
<1>8. CASE Render
  <2>1. /\ wpc = "loop" /\ writeQueue # <<>> /\ Head(writeQueue) \in Kinds
        /\ handled' = handled + 1 /\ durable' \in {durable, handled'}
        /\ UNCHANGED <<wpc, posted, quitting>>
    BY <1>8 DEF Render, Deliver, Kinds, guiVars
  <2>2. Cardinality(Requests(writeQueue')) = m
    BY <1>8, <2>1, StartBusyRequests DEF Render
  <2> HIDE DEF n, m
  <2>3. Accounted'
    BY <2>1, <2>2, <1>0, <1>a DEF Accounted, InHandler
  <2>4. Handles
    BY <2>1, <1>0, <1>a DEF Handles, InHandler
  <2>5. QED
    BY <2>3, <2>4
<1>9. CASE EndWrite \/ EndBusy
  <2>1. /\ wpc = "loop" /\ writeQueue # <<>> /\ Head(writeQueue) \notin Kinds
        /\ durable' \in {durable, handled} /\ writeQueue' = Tail(writeQueue)
        /\ UNCHANGED <<wpc, posted, handled, quitting>>
    BY <1>9 DEF EndWrite, EndBusy, Deliver, Kinds, countVars, guiVars
  <2>2. Cardinality(Requests(writeQueue')) = m
    BY <2>1
  <2> HIDE DEF n, m
  <2>3. Accounted'
    BY <2>1, <2>2, <1>0, <1>a DEF Accounted, InHandler
  <2>4. Commits \/ Idle
    BY <2>1 DEF Commits, Idle
  <2>5. QED
    BY <2>3, <2>4
<1>10. CASE Exit
  <2>1. /\ wpc = "loop" /\ wpc' = "exited" /\ quitting
        /\ UNCHANGED <<posted, handled, durable, quitting, writeQueue>>
    BY <1>10 DEF Exit, countVars, guiVars
  <2>2. Accounted'
    BY <2>1, <1>a DEF Accounted, InHandler
  <2>3. Stops
    BY <2>1 DEF Stops
  <2>4. QED
    BY <2>2, <2>3
<1>11. CASE DaoReceive \/ Quit \/ UNCHANGED vars
  <2>1. UNCHANGED <<wpc, handled, durable, writeQueue, posted>> /\ (quitting => quitting')
    BY <1>11 DEF DaoReceive, Quit, vars, writerVars
  <2>2. QED
    BY <2>1, <1>1
<1>12. ASSUME NEW l \in Loaders, LoaderWant(l) \/ LoaderLock(l) \/ LoaderUnlock(l)
       PROVE  OK
  <2>1. UNCHANGED <<wpc, handled, durable, writeQueue, posted>> /\ (quitting => quitting')
    BY <1>12 DEF LoaderWant, LoaderLock, LoaderUnlock, LoaderStep, writerVars, guiVars
  <2>2. QED
    BY <2>1, <1>1
<1> QED
  BY <1>2, <1>3, <1>4, <1>5, <1>6, <1>7, <1>8, <1>9, <1>10, <1>11, <1>12
  DEF Next, WriterStep

\* Every request the GUI thread posts is queued, being handled, or handled, whatever
\* the early commits, left-over timers and the loaders do meanwhile.
THEOREM NoRequestLost == Spec => []Accounted
<1>1. Types /\ Accounted /\ [Next]_vars => Accounted'
  BY StepAccounted
<1>2. TypeOK => Types
  BY DEF TypeOK
<1>3. QED
  BY InitAccounted, <1>1, <1>2, TypeCorrect, PTL DEF Spec

\* The safety part of ImplementsWriteBehind: ImageDaoDeferredWriter carries requests
\* out in order, each once, and what is permanent is a prefix of what was carried out.
THEOREM WritesBehind == Spec => Promise!Init /\ [][Promise!Next]_Promise!vars
<1>1. Init => Promise!Init
  BY DEF Init, Promise!Init
<1>2. Types /\ Accounted /\ [Next]_vars => [Promise!Next]_Promise!vars
  BY StepAccounted, AbstractStep
<1>3. TypeOK => Types
  BY DEF TypeOK
<1>4. QED
  BY <1>1, <1>2, <1>3, TypeCorrect, NoRequestLost, PTL DEF Spec
=============================================================================
