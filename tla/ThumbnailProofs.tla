---------------------------- MODULE ThumbnailProofs ----------------------------
(***************************************************************************)
(* Proofs about the thumbnails, for any loaders, pictures, sizes and       *)
(* bounds, and whatever is imported, purged, cleared and cancelled: no two *)
(* threads have one connection, every step of a loader brings it nearer to *)
(* its answer, and the answer is right.                                    *)
(***************************************************************************)
EXTENDS Thumbnails, FiniteSetTheorems, FunctionTheorems, WellFoundedInduction, TLAPS

\* Where a loader has a connection, and where it is in makeThumbnail.
Connected == {"lookup", "make", "scale", "save", "store", "return", "raw"}
Making    == {"make", "scale", "save", "store"}
Places    == Connected \cup {"idle", "start", "direct", "finished"}

LoadersOK == /\ pc \in [Loaders -> Places]
             /\ want \in [Loaders -> 0..Largest] /\ at \in [Loaders -> 0..Largest]
             /\ \A l \in Loaders : pc[l] \in Making => want[l] <= at[l]

\* Each connection made is in one place of the pool or with one loader.
InPool(k) == \E n \in DOMAIN pool : pool[n] = k
InUse(k)  == \E l \in Loaders : conn[l] = k
PoolOK ==
  /\ made \in Nat /\ conn \in [Loaders -> 0..made] /\ pool \in Seq(1..made)
  /\ \A m, n \in DOMAIN pool : pool[m] = pool[n] => m = n
  /\ \A l, k \in Loaders : conn[l] = conn[k] /\ conn[l] # 0 => l = k
  /\ \A n \in DOMAIN pool, l \in Loaders : pool[n] # conn[l]
  /\ \A k \in 1..made : InPool(k) \/ InUse(k)

Holding == \A l \in Loaders : conn[l] # 0 <=> pc[l] \in Connected

IInv == LoadersOK /\ PoolOK /\ Holding
--------------------------------------------------------------------------------
(* The connection pool. *)

\* A connection that is made is nobody's, and one that is taken leaves the pool.
LEMMA OpenKeeps ==
  ASSUME PoolOK, NEW l \in Loaders, conn[l] = 0, Open(l)
  PROVE  PoolOK' /\ conn' = [conn EXCEPT ![l] = conn'[l]] /\ conn'[l] # 0
<1>1. CASE pool = <<>>
  <2>1. /\ made' = made + 1 /\ pool' = <<>> /\ conn' = [conn EXCEPT ![l] = made + 1]
    BY <1>1 DEF Open
  <2>2. made' \in Nat /\ conn' \in [Loaders -> 0..made'] /\ pool' \in Seq(1..made')
    BY <2>1 DEF PoolOK
  <2>3. \A k \in 1..made' : (InPool(k) \/ InUse(k))'
    <3> SUFFICES ASSUME NEW k \in 1..made'
                 PROVE  InUse(k)'
      BY DEF InUse, InPool
    <3>1. CASE k = made + 1
      BY <2>1, <3>1 DEF InUse, PoolOK
    <3>2. CASE k # made + 1
      <4>1. k \in 1..made
        BY <2>1, <3>2 DEF PoolOK
      <4>2. PICK m \in Loaders : conn[m] = k
        BY <1>1, <4>1 DEF PoolOK, InPool, InUse
      <4>3. m # l
        BY <4>1, <4>2
      <4> QED
        BY <2>1, <4>2, <4>3 DEF InUse, PoolOK
    <3> QED
      BY <3>1, <3>2
  <2>4. \A m, k \in Loaders : conn'[m] = conn'[k] /\ conn'[m] # 0 => m = k
    BY <2>1 DEF PoolOK
  <2> QED
    BY <2>1, <2>2, <2>3, <2>4 DEF PoolOK
<1>2. CASE pool # <<>>
  <2> DEFINE N == Len(pool)
  <2>1. /\ made' = made /\ pool' = SubSeq(pool, 1, N - 1)
        /\ conn' = [conn EXCEPT ![l] = pool[N]]
    BY <1>2 DEF Open
  <2>2. N \in Nat /\ N >= 1 /\ pool[N] \in 1..made /\ DOMAIN pool = 1..N
    BY <1>2 DEF PoolOK
  <2>3. /\ pool' \in Seq(1..made) /\ DOMAIN pool' = 1..(N - 1)
        /\ \A n \in 1..(N - 1) : pool'[n] = pool[n]
    BY <2>1, <2>2 DEF PoolOK
  <2> HIDE DEF N
  <2>4. conn' \in [Loaders -> 0..made] /\ conn'[l] = pool[N]
        /\ \A m \in Loaders \ {l} : conn'[m] = conn[m]
    BY <2>1, <2>2 DEF PoolOK
  <2>5. \A k \in 1..made : (InPool(k) \/ InUse(k))'
    <3> SUFFICES ASSUME NEW k \in 1..made
                 PROVE  (InPool(k) \/ InUse(k))'
      OBVIOUS
    <3>1. CASE InUse(k)
      <4>1. PICK m \in Loaders : conn[m] = k
        BY <3>1 DEF InUse
      <4> QED
        BY <2>4, <4>1 DEF InUse
    <3>2. CASE InPool(k)
      <4>1. PICK n \in 1..N : pool[n] = k
        BY <2>2, <3>2 DEF InPool
      <4>2. CASE n = N
        BY <2>4, <4>1, <4>2 DEF InUse
      <4>3. CASE n # N
        <5>1. n \in 1..(N - 1)
          BY <2>2, <4>3
        <5>2. n \in DOMAIN pool' /\ pool'[n] = k
          BY <2>3, <4>1, <5>1
        <5> QED
          BY <5>2 DEF InPool
      <4> QED
        BY <4>2, <4>3
    <3> QED
      BY <3>1, <3>2 DEF PoolOK
  <2>6. \A m, n \in DOMAIN pool' : pool'[m] = pool'[n] => m = n
    <3> SUFFICES ASSUME NEW m \in 1..(N - 1), NEW n \in 1..(N - 1), pool'[m] = pool'[n]
                 PROVE  m = n
      BY <2>3
    <3>1. m \in DOMAIN pool /\ n \in DOMAIN pool /\ pool[m] = pool[n]
      BY <2>2, <2>3
    <3> QED
      BY <3>1 DEF PoolOK
  <2>7. \A m, k \in Loaders : conn'[m] = conn'[k] /\ conn'[m] # 0 => m = k
    <3>1. N \in DOMAIN pool /\ \A m \in Loaders : pool[N] # conn[m]
      BY <2>2 DEF PoolOK
    <3> QED
      BY <2>4, <3>1 DEF PoolOK
  <2>8. \A n \in DOMAIN pool', m \in Loaders : pool'[n] # conn'[m]
    <3> SUFFICES ASSUME NEW n \in 1..(N - 1), NEW m \in Loaders
                 PROVE  pool'[n] # conn'[m]
      BY <2>3
    <3>1. n \in DOMAIN pool /\ N \in DOMAIN pool /\ n # N /\ pool'[n] = pool[n]
      BY <2>2, <2>3
    <3>2. pool[n] # pool[N] /\ pool[n] # conn[m]
      BY <3>1 DEF PoolOK
    <3> QED
      BY <2>4, <3>1, <3>2
  <2> QED
    BY <2>1, <2>2, <2>3, <2>4, <2>5, <2>6, <2>7, <2>8 DEF PoolOK
<1> QED
  BY <1>1, <1>2

\* A connection that is given back was the loader's alone.
LEMMA CloseKeeps ==
  ASSUME PoolOK, NEW l \in Loaders, conn[l] # 0, Close(l)
  PROVE  PoolOK' /\ conn' = [conn EXCEPT ![l] = conn'[l]] /\ conn'[l] = 0
<1> DEFINE N == Len(pool)
<1>1. made' = made /\ pool' = Append(pool, conn[l]) /\ conn' = [conn EXCEPT ![l] = 0]
  BY DEF Close
<1>2. conn[l] \in 1..made /\ N \in Nat /\ DOMAIN pool = 1..N
  BY DEF PoolOK
<1>3. /\ pool' \in Seq(1..made) /\ DOMAIN pool' = 1..(N + 1)
      /\ pool'[N + 1] = conn[l] /\ \A n \in 1..N : pool'[n] = pool[n]
  BY <1>1, <1>2 DEF PoolOK
<1>4. conn' \in [Loaders -> 0..made] /\ conn'[l] = 0
      /\ \A m \in Loaders \ {l} : conn'[m] = conn[m]
  BY <1>1, <1>2 DEF PoolOK
<1>5. \A k \in 1..made : (InPool(k) \/ InUse(k))'
  <2> SUFFICES ASSUME NEW k \in 1..made
               PROVE  (InPool(k) \/ InUse(k))'
    OBVIOUS
  <2>1. CASE InPool(k)
    BY <1>2, <1>3, <2>1 DEF InPool
  <2>2. CASE InUse(k)
    <3>1. PICK m \in Loaders : conn[m] = k
      BY <2>2 DEF InUse
    <3>2. CASE m = l
      BY <1>2, <1>3, <3>1, <3>2 DEF InPool
    <3>3. CASE m # l
      BY <1>4, <3>1, <3>3 DEF InUse
    <3> QED
      BY <3>2, <3>3
  <2> QED
    BY <2>1, <2>2 DEF PoolOK
<1>6. \A n \in 1..N : n \in DOMAIN pool /\ pool[n] # conn[l]
  BY <1>2 DEF PoolOK
<1>7. \A m, n \in DOMAIN pool' : pool'[m] = pool'[n] => m = n
  <2> SUFFICES ASSUME NEW m \in 1..(N + 1), NEW n \in 1..(N + 1), pool'[m] = pool'[n]
               PROVE  m = n
    BY <1>3
  <2>1. CASE m = N + 1 \/ n = N + 1
    BY <1>2, <1>3, <1>6, <2>1
  <2>2. CASE m # N + 1 /\ n # N + 1
    <3>1. m \in 1..N /\ n \in 1..N
      BY <1>2, <2>2
    <3> QED
      BY <1>3, <1>6, <3>1 DEF PoolOK
  <2> QED
    BY <2>1, <2>2
<1>8. \A m, k \in Loaders : conn'[m] = conn'[k] /\ conn'[m] # 0 => m = k
  BY <1>4 DEF PoolOK
<1>9. \A n \in DOMAIN pool', m \in Loaders : pool'[n] # conn'[m]
  <2> SUFFICES ASSUME NEW n \in 1..(N + 1), NEW m \in Loaders
               PROVE  pool'[n] # conn'[m]
    BY <1>3
  <2>1. CASE n = N + 1
    BY <1>2, <1>3, <1>4, <2>1 DEF PoolOK
  <2>2. CASE n # N + 1
    <3>1. n \in 1..N /\ n \in DOMAIN pool /\ pool'[n] = pool[n] /\ pool[n] \in 1..made
      BY <1>2, <1>3, <2>2 DEF PoolOK
    <3> QED
      BY <1>4, <3>1 DEF PoolOK
  <2> QED
    BY <2>1, <2>2
<1> QED
  BY <1>1, <1>3, <1>4, <1>5, <1>7, <1>8, <1>9 DEF PoolOK
--------------------------------------------------------------------------------
(* The steps of a loader. *)

\* A connection stays with the loader, or the pool is as it was.
LEMMA PoolUnchanged ==
  ASSUME PoolOK, UNCHANGED connections
  PROVE  PoolOK'
BY DEF PoolOK, connections, InPool, InUse

\* Where a return of makeThumbnail leads: to requestImage, or one size down.
LEMMA ReturnLeads ==
  ASSUME LoadersOK, NEW l \in Loaders, NEW image, pc[l] \in Making, Return(l, image)
  PROVE  \/ pc' = [pc EXCEPT ![l] = "return"] /\ at' = at
         \/ /\ want[l] < at[l]
            /\ pc' = [pc EXCEPT ![l] = "scale"] /\ at' = [at EXCEPT ![l] = at[l] - 1]
BY ThumbnailsAssumption DEF LoadersOK, Return, Go

\* What a step of loader l does to its place, its size and the connections.
Moves(l) ==
  \/ /\ pc[l] = "start" /\ at' = at /\ UNCHANGED connections
     /\ pc' = [pc EXCEPT ![l] = "finished"] \/ pc' = [pc EXCEPT ![l] = "direct"]
  \/ /\ pc[l] = "start" /\ at' = at /\ Open(l)
     /\ pc' = [pc EXCEPT ![l] = "lookup"]
  \/ /\ pc[l] = "direct" /\ at' = at /\ Open(l)
     /\ pc' = [pc EXCEPT ![l] = "raw"]
  \/ /\ pc[l] = "return" /\ at' = at /\ Close(l)
     /\ pc' = [pc EXCEPT ![l] = "finished"] \/ pc' = [pc EXCEPT ![l] = "direct"]
  \/ /\ pc[l] = "raw" /\ at' = at /\ Close(l)
     /\ pc' = [pc EXCEPT ![l] = "finished"]
  \/ /\ pc[l] = "lookup" /\ UNCHANGED connections
     /\ \/ pc' = [pc EXCEPT ![l] = "make"] /\ at' = [at EXCEPT ![l] = want[l]]
        \/ pc' = [pc EXCEPT ![l] = "return"] /\ at' = at
  \/ /\ pc[l] = "make" /\ UNCHANGED connections
     /\ \/ at[l] < Largest /\ pc' = pc /\ at' = [at EXCEPT ![l] = at[l] + 1]
        \/ pc' = [pc EXCEPT ![l] = "scale"] /\ at' = at
  \/ /\ pc[l] = "scale" /\ UNCHANGED connections /\ at' = at
     /\ pc' = [pc EXCEPT ![l] = "save"]
  \/ /\ pc[l] = "save" /\ UNCHANGED connections /\ at' = at
     /\ pc' = [pc EXCEPT ![l] = "store"]
  \/ /\ pc[l] \in Making /\ UNCHANGED connections
     /\ \/ pc' = [pc EXCEPT ![l] = "return"] /\ at' = at
        \/ /\ want[l] < at[l]
           /\ pc' = [pc EXCEPT ![l] = "scale"] /\ at' = [at EXCEPT ![l] = at[l] - 1]

LEMMA StepMoves ==
  ASSUME LoadersOK, NEW l \in Loaders, Step(l)
  PROVE  Moves(l) /\ want' = want
<1>1. CASE Start(l)
  BY <1>1 DEF Start, Moves, Go, loaderRest
<1>2. CASE LookUp(l)
  BY <1>2 DEF LookUp, Moves, Go, loaderRest
<1>3. CASE Make(l)
  <2>1. pc[l] = "make" /\ pc[l] \in Making /\ UNCHANGED connections /\ want' = want
    BY <1>3 DEF Make, loaderRest, Making
  <2>2. CASE \E image : Return(l, image)
    BY <2>1, <2>2, ReturnLeads DEF Moves
  <2>3. CASE ~ \E image : Return(l, image)
    BY <1>3, <2>1, <2>3 DEF Make, Moves, Go
  <2> QED
    BY <2>1, <2>2, <2>3
<1>4. CASE Scale(l)
  <2>1. pc[l] = "scale" /\ pc[l] \in Making /\ UNCHANGED connections /\ want' = want
    BY <1>4 DEF Scale, loaderRest, Making
  <2>2. CASE \E image : Return(l, image)
    BY <2>1, <2>2, ReturnLeads DEF Moves
  <2>3. CASE ~ \E image : Return(l, image)
    BY <1>4, <2>1, <2>3 DEF Scale, Moves, Go
  <2> QED
    BY <2>1, <2>2, <2>3
<1>5. CASE Save(l)
  <2>1. pc[l] = "save" /\ pc[l] \in Making /\ UNCHANGED connections /\ want' = want
    BY <1>5 DEF Save, loaderRest, Making
  <2>2. CASE \E image : Return(l, image)
    BY <2>1, <2>2, ReturnLeads DEF Moves
  <2>3. CASE ~ \E image : Return(l, image)
    BY <1>5, <2>1, <2>3 DEF Save, Moves, Go
  <2> QED
    BY <2>1, <2>2, <2>3
<1>6. CASE Store(l)
  <2>1. pc[l] \in Making /\ UNCHANGED connections /\ want' = want /\ Return(l, Made(l))
    BY <1>6 DEF Store, storeRest, Making
  <2> QED
    BY <2>1, ReturnLeads DEF Moves
<1>7. CASE Answer(l)
  BY <1>7 DEF Answer, Moves, Go, loaderRest
<1>8. CASE Direct(l)
  BY <1>8 DEF Direct, Moves, Go, loaderRest
<1>9. CASE Raw(l)
  BY <1>9 DEF Raw, Moves, Go, loaderRest
<1> QED
  BY <1>1, <1>2, <1>3, <1>4, <1>5, <1>6, <1>7, <1>8, <1>9 DEF Step

\* However a loader moves, it comes nearer to its answer.
LEMMA MoveNears ==
  ASSUME LoadersOK, NEW l \in Loaders, Moves(l), want' = want
  PROVE  ToGo(l)' < ToGo(l) /\ LoadersOK'
<1>1. /\ pc \in [Loaders -> Places] /\ want[l] \in Nat /\ at[l] \in Nat /\ Largest \in Nat
      /\ want[l] <= Largest /\ at[l] <= Largest
      /\ pc[l] \in Making => want[l] <= at[l]
      /\ at \in [Loaders -> 0..Largest]
  BY ThumbnailsAssumption DEF LoadersOK
<1>2. ToGo(l)' < ToGo(l)
  BY <1>1 DEF Moves, ToGo, Making
<1>3. pc' \in [Loaders -> Places] /\ at' \in [Loaders -> 0..Largest]
      /\ (pc'[l] \in Making => want[l] <= at'[l])
      /\ \A k \in Loaders \ {l} : pc'[k] = pc[k] /\ at'[k] = at[k]
  BY <1>1 DEF Moves, Making, Places, Connected
<1> QED
  BY <1>2, <1>3 DEF LoadersOK

\* A loader gets a connection when it needs one, and gives it back.
LEMMA MoveHolds ==
  ASSUME LoadersOK, PoolOK, Holding, NEW l \in Loaders, Moves(l)
  PROVE  PoolOK' /\ Holding'
<1>1. pc \in [Loaders -> Places] /\ (conn[l] # 0 <=> pc[l] \in Connected)
  BY DEF LoadersOK, Holding
<1>2. CASE UNCHANGED connections /\ pc[l] \notin {"return", "direct", "raw"} /\ pc'[l] # "lookup"
  <2>1. PoolOK' /\ conn' = conn
    BY <1>2, PoolUnchanged DEF connections
  <2>2. \/ pc' = [pc EXCEPT ![l] = pc'[l]] /\ (pc'[l] \in Connected <=> pc[l] \in Connected)
        \/ pc' = pc
    BY <1>1, <1>2 DEF Moves, Making, Connected
  <2> QED
    BY <1>1, <2>1, <2>2 DEF Holding
<1>3. CASE Open(l) /\ pc[l] \in {"start", "direct"} /\ pc' = [pc EXCEPT ![l] = pc'[l]]
            /\ pc'[l] \in {"lookup", "raw"}
  <2>1. conn[l] = 0
    BY <1>1, <1>3 DEF Connected
  <2>2. PoolOK' /\ conn' = [conn EXCEPT ![l] = conn'[l]] /\ conn'[l] # 0
    BY <1>3, <2>1, OpenKeeps
  <2> QED
    BY <1>1, <1>3, <2>2 DEF Holding, Connected, PoolOK
<1>4. CASE Close(l) /\ pc[l] \in {"return", "raw"} /\ pc' = [pc EXCEPT ![l] = pc'[l]]
            /\ pc'[l] \in {"finished", "direct"}
  <2>1. conn[l] # 0
    BY <1>1, <1>4 DEF Connected
  <2>2. PoolOK' /\ conn' = [conn EXCEPT ![l] = conn'[l]] /\ conn'[l] = 0
    BY <1>4, <2>1, CloseKeeps
  <2> QED
    BY <1>1, <1>4, <2>2 DEF Holding, Connected, PoolOK
<1> QED
  BY <1>1, <1>2, <1>3, <1>4 DEF Moves, Making
--------------------------------------------------------------------------------
(* The theorems. *)

LEMMA Initially == Init => IInv
<1> SUFFICES ASSUME Init
             PROVE  IInv
  OBVIOUS
<1>1. LoadersOK
  BY ThumbnailsAssumption DEF Init, LoadersOK, Places, Making
<1>2. PoolOK
  BY DEF Init, PoolOK, InPool, InUse
<1>3. Holding
  BY DEF Init, Holding, Connected
<1> QED
  BY <1>1, <1>2, <1>3 DEF IInv

\* Only a request and a loader's own steps move it.
LEMMA OthersKeep ==
  ASSUME IInv, Next, ~ \E l \in Loaders : Step(l)
  PROVE  IInv'
<1>1. CASE \E l \in Loaders, i \in Ids, n \in 0..Largest : Request(l, i, n)
  <2>1. PICK l \in Loaders, n \in 0..Largest :
          /\ pc[l] \in {"idle", "finished"} /\ pc' = [pc EXCEPT ![l] = "start"]
          /\ want' = [want EXCEPT ![l] = n] /\ at' = [at EXCEPT ![l] = 0]
          /\ UNCHANGED connections
    BY <1>1 DEF Request, Go
  <2>2. LoadersOK'
    BY <2>1, ThumbnailsAssumption DEF IInv, LoadersOK, Places, Making
  <2>3. PoolOK' /\ conn' = conn
    BY <2>1, PoolUnchanged DEF IInv, connections
  <2>4. Holding'
    BY <2>1, <2>3 DEF IInv, Holding, LoadersOK, Connected
  <2> QED
    BY <2>2, <2>3, <2>4 DEF IInv
<1>2. CASE UNCHANGED <<pc, want, at, connections>>
  <2>1. PoolOK' /\ conn' = conn
    BY <1>2, PoolUnchanged DEF IInv, connections
  <2> QED
    BY <1>2, <2>1 DEF IInv, LoadersOK, Holding
<1>3. \/ \E l \in Loaders, i \in Ids, n \in 0..Largest : Request(l, i, n)
      \/ UNCHANGED <<pc, want, at, connections>>
  BY DEF Next, Cancel, Import, Purge, Clear, CreateRef, Change, loader
<1> QED
  BY <1>1, <1>2, <1>3

LEMMA Inductive == IInv /\ [Next]_vars => IInv'
<1> SUFFICES ASSUME IInv, [Next]_vars
             PROVE  IInv'
  OBVIOUS
<1>1. CASE \E l \in Loaders : Step(l)
  <2>1. PICK l \in Loaders : Step(l)
    BY <1>1
  <2>2. Moves(l) /\ want' = want
    BY <2>1, StepMoves DEF IInv
  <2> QED
    BY <2>2, MoveNears, MoveHolds DEF IInv
<1>2. CASE Next /\ ~ \E l \in Loaders : Step(l)
  BY <1>2, OthersKeep
<1>3. CASE UNCHANGED vars
  <2>1. PoolOK'
    BY <1>3, PoolUnchanged DEF IInv, vars
  <2> QED
    BY <1>3, <2>1 DEF IInv, LoadersOK, Holding, vars, loader, connections
<1> QED
  BY <1>1, <1>2, <1>3

\* The inductive invariant holds in every state: of ThumperImageProvider::makeThumbnail's
\* sizes, of the pool, and of which places of a load have a connection.
THEOREM Invariant == Spec => []IInv
<1>1. Init => IInv
  BY Initially
<1>2. IInv /\ [Next]_vars => IInv'
  BY Inductive
<1> QED
  BY <1>1, <1>2, PTL DEF Spec

\* No two threads have one connection (SQLiteConnectionPool::open and close, of
\* connections that are opened with SQLITE_OPEN_NOMUTEX).
THEOREM OneUserEach == Spec => []ConnectionsExclusive
<1>1. PoolOK => ConnectionsExclusive
  <2> DEFINE Free(k)  == {n \in DOMAIN pool : pool[n] = k}
             Users(k) == {l \in Loaders : conn[l] = k}
  <2> SUFFICES ASSUME PoolOK, NEW k \in 1..made
               PROVE  Cardinality(Free(k)) + Cardinality(Users(k)) = 1
    BY DEF ConnectionsExclusive
  <2>1. CASE InPool(k)
    <3>1. PICK n \in DOMAIN pool : pool[n] = k
      BY <2>1 DEF InPool
    <3>2. Free(k) = {n} /\ Users(k) = {}
      BY <3>1 DEF PoolOK
    <3>3. Cardinality({n}) = 1 /\ Cardinality({}) = 0
      BY FS_EmptySet, FS_Singleton, Zenon
    <3>4. Cardinality(Free(k)) = 1 /\ Cardinality(Users(k)) = 0
      BY <3>2, <3>3, Zenon
    <3> HIDE DEF Free, Users
    <3> QED
      BY <3>4
  <2>2. CASE ~InPool(k)
    <3>1. PICK l \in Loaders : conn[l] = k
      BY <2>2 DEF PoolOK, InUse
    <3>2. Users(k) = {l}
      BY <3>1 DEF PoolOK
    <3>3. Free(k) = {}
      BY <2>2 DEF InPool
    <3>4. Cardinality({l}) = 1 /\ Cardinality({}) = 0
      BY FS_EmptySet, FS_Singleton, Zenon
    <3>5. Cardinality(Free(k)) = 0 /\ Cardinality(Users(k)) = 1
      BY <3>2, <3>3, <3>4, Zenon
    <3> HIDE DEF Free, Users
    <3> QED
      BY <3>5
  <2> QED
    BY <2>1, <2>2
<1> QED
  BY <1>1, Invariant, PTL DEF IInv

\* Every step of a loader leaves fewer steps to its answer, whatever thumbnails are
\* cleared or stored and images purged while makeThumbnail calls itself.
THEOREM EveryStepNears == Spec => AnswerNears
<1>1. IInv /\ [Next]_vars => [\A l \in Loaders : Step(l) => ToGo(l)' < ToGo(l)]_vars
  BY StepMoves, MoveNears DEF IInv
<1> QED
  BY <1>1, Invariant, PTL DEF Spec, AnswerNears
--------------------------------------------------------------------------------
(* What the loaders answer.  Good pictures of an id are the ones it has had that *)
(* can be decoded; nothing else gets into the table of thumbnails or an answer.  *)

Good(i) == past[i] \ Broken

\* The types of the data; those of pc, want, at and the pool are in LoadersOK, PoolOK.
DataTypes ==
  /\ store \in [Ids -> Images] /\ refSize \in [Ids -> Nat \cup {None}]
  /\ thumb \in [Sizes -> [Ids -> Images \cup {Empty}]]
  /\ id \in [Loaders -> Ids] /\ input \in [Loaders -> Images \cup {Empty}]
  /\ cancelled \in [Loaders -> BOOLEAN]
  /\ past \in [Ids -> SUBSET Pictures] /\ seen \in [Loaders -> SUBSET Images]
  /\ requests \in 0..MaxRequests /\ changes \in 0..MaxChanges

TablesOwn == /\ \A i \in Ids : store[i] \in past[i] \cup {None}
             /\ \A n \in Sizes, i \in Ids : thumb[n][i] \in Good(i) \cup {None, Empty}

\* A loader on its way: with what it has, and what it has seen.
LoadOK(l) ==
  /\ input[l] \in Good(id[l]) \cup {None, Empty}
  /\ input[l] = Empty => pc[l] \in {"save", "store"}
  /\ pc[l] \in {"start", "lookup", "make"} => input[l] = None
  /\ pc[l] \in {"lookup", "make", "scale", "save", "store", "return"} => want[l] > 0
  /\ seen[l] \subseteq past[id[l]] \cup {None}
  /\ pc[l] # "idle" => store[id[l]] \in seen[l] /\ refSize[id[l]] # None
  /\ pc[l] = "finished" /\ ~cancelled[l] =>
       input[l] # None \/ None \in seen[l] \/ seen[l] \cap Broken # {}

LoadsOK == \A l \in Loaders : LoadOK(l)

\* Without reuse an id has one picture for ever: the largest id in use is never
\* purged, so the next one is new, and refs and thumbnails keep their size.
OnePicture ==
  /\ \A i \in Ids : \A p, q \in past[i] : p = q
  /\ \A i \in Ids : past[i] # {} => \E k \in Ids : k >= i /\ store[k] # None
  /\ \A i \in Ids : refSize[i] # None => \E p \in past[i] : refSize[i] = SizeOf[p]

ThumbsSmaller ==
  \A n \in Sizes, i \in Ids : thumb[n][i] \in Pictures => SizeOf[thumb[n][i]] > n

\* makeThumbnail only goes up to sizes the picture covers, and comes down with less.
SizedOK(l) ==
  /\ pc[l] = "lookup" => refSize[id[l]] >= want[l] + 1
  /\ pc[l] \in Making => refSize[id[l]] >= at[l] + 1
  /\ pc[l] \in {"scale", "save", "store"} /\ input[l] \in Pictures =>
       SizeOf[input[l]] > at[l]

Sized == OnePicture /\ ThumbsSmaller /\ \A l \in Loaders : SizedOK(l)

LEMMA Distinct == /\ None \notin Pictures /\ Empty \notin Pictures /\ Empty # None
                  /\ None \notin Nat
  BY ThumbnailsAssumption

\* What a step of loader l leaves alone.
Others(l) ==
  /\ UNCHANGED <<store, refSize, past, id, want, cancelled, seen, requests, changes>>
  /\ \A k \in Loaders \ {l} : pc'[k] = pc[k] /\ at'[k] = at[k] /\ input'[k] = input[k]

LEMMA ReturnLands ==
  ASSUME LoadersOK, DataTypes, NEW l \in Loaders, NEW image, Return(l, image)
  PROVE  /\ input' = [input EXCEPT ![l] = image]
         /\ \A k \in Loaders \ {l} : pc'[k] = pc[k] /\ at'[k] = at[k]
         /\ input'[l] = image
         /\ \/ pc'[l] = "return"
            \/ pc'[l] = "scale" /\ at'[l] = at[l] - 1
  BY DEF LoadersOK, DataTypes, Return, Go, Have

\* A step of loader l keeps the others' loads: it changes nothing they look at.
LEMMA FrameKeeps ==
  ASSUME LoadsOK, NEW l \in Loaders, Others(l)
  PROVE  \A k \in Loaders \ {l} : LoadOK(k)'
  BY DEF LoadsOK, LoadOK, Others, Good

LEMMA FrameSized ==
  ASSUME Sized, NEW l \in Loaders, Others(l)
  PROVE  OnePicture' /\ \A k \in Loaders \ {l} : SizedOK(k)'
<1>1. OnePicture'
  BY DEF Sized, OnePicture, Others
<1>2. \A k \in Loaders \ {l} : SizedOK(k)'
  BY DEF Sized, SizedOK, Others
<1> QED
  BY <1>1, <1>2

\* The image that loader l returns from a size is good and large enough.
Fits(l, image) == /\ image \in Good(id[l]) \cup {None}
                  /\ image \in Pictures => SizeOf[image] > at[l]

LEMMA ReturnKeeps ==
  ASSUME LoadersOK, DataTypes, NEW l \in Loaders, LoadOK(l), pc[l] \in Making, Others(l),
         NEW image \in Good(id[l]) \cup {None}, Return(l, image)
  PROVE  LoadOK(l)' /\ input' \in [Loaders -> Images \cup {Empty}]
<1>1. /\ input' = [input EXCEPT ![l] = image] /\ input'[l] = image
      /\ pc'[l] \in {"return", "scale"}
  BY ReturnLands
<1>2. image \in Images /\ image # Empty
  BY Distinct DEF DataTypes, Images, Good
<1>3. LoadOK(l)'
  BY <1>1, <1>2 DEF LoadOK, Others, Making, Good
<1> QED
  BY <1>1, <1>2, <1>3 DEF DataTypes

LEMMA ReturnSized ==
  ASSUME LoadersOK, DataTypes, NEW l \in Loaders, LoadOK(l), SizedOK(l), pc[l] \in Making,
         Others(l), NEW image, Fits(l, image), Return(l, image)
  PROVE  SizedOK(l)'
<1>1. /\ input'[l] = image
      /\ \/ pc'[l] = "return"
         \/ pc'[l] = "scale" /\ at'[l] = at[l] - 1
  BY ReturnLands
<1>2. at[l] \in Nat /\ refSize[id[l]] \in Nat /\ refSize[id[l]] >= at[l] + 1
  BY DEF LoadersOK, DataTypes, LoadOK, SizedOK, Making
<1>3. CASE pc'[l] = "return"
  BY <1>3 DEF SizedOK, Making
<1>4. CASE pc'[l] = "scale" /\ at'[l] = at[l] - 1
  <2>1. refSize'[id'[l]] >= at'[l] + 1
    BY <1>2, <1>4 DEF Others
  <2>2. image \in Pictures => SizeOf[image] > at'[l]
    BY <1>2, <1>4, ThumbnailsAssumption DEF Fits
  <2> QED
    BY <1>1, <1>4, <2>1, <2>2 DEF SizedOK
<1> QED
  BY <1>1, <1>3, <1>4
--------------------------------------------------------------------------------
(* The steps of a loader, and what they answer. *)

LEMMA ThumbGood ==
  ASSUME DataTypes, TablesOwn, NEW l \in Loaders, NEW n \in Sizes
  PROVE  /\ Thumb(l, n) \in Good(id[l]) \cup {None}
         /\ Thumb(l, n) \in Images
         /\ ThumbsSmaller => (Thumb(l, n) \in Pictures => SizeOf[Thumb(l, n)] > n)
<1>1. id[l] \in Ids
  BY DEF DataTypes
<1>2. thumb[n][id[l]] \in Good(id[l]) \cup {None, Empty} /\ Good(id[l]) \subseteq Pictures
  BY <1>1 DEF TablesOwn, Good, DataTypes
<1> QED
  BY <1>1, <1>2, Distinct DEF Thumb, ThumbsSmaller, Images

LEMMA StepOthers ==
  ASSUME LoadersOK, DataTypes, NEW l \in Loaders, Step(l)
  PROVE  Others(l)
<1>1. UNCHANGED <<store, refSize, past, id, want, cancelled, seen, requests, changes>>
  BY DEF Step, Start, LookUp, Make, Scale, Save, Store, Answer, Direct, Raw, loaderRest,
         storeRest, tables
<1>2. /\ pc \in [Loaders -> Places] /\ at \in [Loaders -> 0..Largest]
      /\ input \in [Loaders -> Images \cup {Empty}]
  BY DEF LoadersOK, DataTypes
<1> DEFINE Rest == \A k \in Loaders \ {l} :
                     pc'[k] = pc[k] /\ at'[k] = at[k] /\ input'[k] = input[k]
<1>3. ASSUME \E image : Return(l, image)
      PROVE  Rest
  BY <1>2, <1>3, ReturnLands
<1>4. ASSUME /\ UNCHANGED pc \/ \E to : Go(l, to)
             /\ UNCHANGED at \/ \E n : at' = [at EXCEPT ![l] = n]
             /\ UNCHANGED input \/ \E image : Have(l, image)
      PROVE  Rest
  BY <1>2, <1>4 DEF Go, Have
<1> SUFFICES Rest
  BY <1>1 DEF Others
<1> HIDE DEF Rest
<1>5. CASE Start(l)
  BY <1>4, <1>5 DEF Start
<1>6. CASE LookUp(l)
  BY <1>4, <1>6 DEF LookUp
<1>7. CASE Make(l)
  BY <1>3, <1>4, <1>7 DEF Make
<1>8. CASE Scale(l)
  BY <1>3, <1>4, <1>8 DEF Scale
<1>9. CASE Save(l)
  BY <1>3, <1>4, <1>9 DEF Save
<1>10. CASE Store(l)
  BY <1>3, <1>10 DEF Store
<1>11. CASE Answer(l)
  BY <1>4, <1>11 DEF Answer
<1>12. CASE Direct(l)
  BY <1>4, <1>12 DEF Direct
<1>13. CASE Raw(l)
  BY <1>4, <1>13 DEF Raw
<1> QED
  BY <1>5, <1>6, <1>7, <1>8, <1>9, <1>10, <1>11, <1>12, <1>13 DEF Step

\* A step that leaves the tables alone and moves l with the image that Return allows,
\* or without changing what l has.
LEMMA StepLoads ==
  ASSUME LoadersOK, DataTypes, TablesOwn, NEW l \in Loaders, LoadOK(l), Step(l)
  PROVE  LoadOK(l)' /\ input' \in [Loaders -> Images \cup {Empty}]
<1>1. Others(l)
  BY StepOthers
<1>2. /\ pc \in [Loaders -> Places] /\ input \in [Loaders -> Images \cup {Empty}]
      /\ want[l] \in 0..Largest /\ at[l] \in 0..Largest /\ id[l] \in Ids
      /\ pc[l] \in Making => at[l] >= want[l]
      /\ store[id[l]] \in past[id[l]] \cup {None} /\ past[id[l]] \subseteq Pictures
  BY DEF LoadersOK, DataTypes, TablesOwn
<1> DEFINE G == Good(id[l]) \cup {None}
           OK == LoadOK(l)' /\ input' \in [Loaders -> Images \cup {Empty}]
<1>3. ASSUME pc[l] \in Making, NEW image \in G, Return(l, image)
      PROVE  OK
  BY <1>1, <1>3, ReturnKeeps
<1>4. ASSUME NEW to \in Places, Go(l, to), NEW image, input'[l] = image,
             image \in Good(id[l]) \cup {None, Empty},
             input' \in [Loaders -> Images \cup {Empty}],
             image = Empty => to \in {"save", "store"},
             to \in {"start", "lookup", "make"} => image = None,
             to \in {"lookup", "make", "scale", "save", "store", "return"} => want[l] > 0,
             to = "finished" /\ ~cancelled[l] =>
               image # None \/ None \in seen[l] \/ seen[l] \cap Broken # {},
             pc[l] # "idle"
      PROVE  OK
  <2>1. pc'[l] = to
    BY <1>2, <1>4 DEF Go
  <2>2. LoadOK(l)'
    BY <2>1, <1>1, <1>4 DEF LoadOK, Others, Good
  <2> QED
    BY <2>2, <1>4
<1> HIDE DEF OK
<1>5. Start(l) => OK
  <2> SUFFICES ASSUME Start(l) PROVE OK
    OBVIOUS
  <2>1. PICK to \in {"finished", "lookup", "direct"} :
          /\ Go(l, to) /\ (to = "lookup" => want[l] > 0) /\ (to = "finished" => cancelled[l])
    BY <1>2 DEF Start
  <2>2. pc[l] = "start" /\ UNCHANGED input /\ input[l] = None
    BY DEF Start, LoadOK
  <2> QED
    BY <2>1, <2>2, <1>2, <1>4, Distinct DEF Places, Connected
<1>6. LookUp(l) => OK
  <2> SUFFICES ASSUME LookUp(l) PROVE OK
    OBVIOUS
  <2>1. pc[l] = "lookup" /\ want[l] \in Sizes /\ input[l] = None
    BY <1>2 DEF LookUp, LoadOK, Sizes
  <2>2. CASE Go(l, "make") /\ UNCHANGED input
    BY <2>1, <2>2, <1>2, <1>4, Distinct DEF Places, Connected, Sizes
  <2>3. CASE Go(l, "return") /\ \E image \in G : Have(l, image)
    <3>1. PICK image \in G : Have(l, image)
      BY <2>3
    <3>2. input'[l] = image /\ image # Empty
      BY <1>2, <3>1, Distinct DEF Have, Good
    <3>3. /\ Go(l, "return") /\ image \in Good(id[l]) \cup {None, Empty}
          /\ input' \in [Loaders -> Images \cup {Empty}] /\ want[l] > 0 /\ pc[l] # "idle"
      BY <2>1, <2>3, <3>1, <1>2 DEF Have, Sizes, Good, Images
    <3> HIDE DEF G
    <3> QED
      BY <3>2, <3>3, <1>4 DEF Places, Connected
  <2>4. Thumb(l, want[l]) \in G
    BY <2>1, ThumbGood
  <2> QED
    BY <2>2, <2>3, <2>4 DEF LookUp
<1>7. Make(l) => OK
  <2> SUFFICES ASSUME Make(l) PROVE OK
    OBVIOUS
  <2>1. pc[l] = "make" /\ pc[l] \in Making /\ want[l] > 0 /\ at[l] \in Sizes /\ input[l] = None
    BY <1>2 DEF Make, LoadOK, Sizes, Making
  <2>2. Thumb(l, at[l]) \in G /\ None \in G
    BY <2>1, ThumbGood
  <2>3. CASE Return(l, Thumb(l, at[l])) \/ Return(l, None)
    BY <2>1, <2>2, <2>3, <1>3
  <2>4. CASE UNCHANGED <<pc, input>>
    BY <2>1, <2>4, <1>1 DEF OK, LoadOK, Others, Good, DataTypes
  <2>5. CASE Go(l, "scale") /\ UNCHANGED input
    BY <2>1, <2>5, <1>2, <1>4, Distinct DEF Places, Connected
  <2> QED
    BY <2>3, <2>4, <2>5 DEF Make
<1>8. Scale(l) => OK
  <2> SUFFICES ASSUME Scale(l) PROVE OK
    OBVIOUS
  <2>1. pc[l] = "scale" /\ pc[l] \in Making /\ want[l] > 0 /\ None \in G
    BY DEF Scale, LoadOK, Making
  <2>2. CASE Return(l, None)
    BY <2>1, <2>2, <1>3
  <2>3. CASE Go(l, "save") /\ UNCHANGED input
    BY <2>1, <2>3, <1>2, <1>4 DEF LoadOK, Places, Connected
  <2>4. CASE store[id[l]] # None /\ Have(l, Decode(store[id[l]])) /\ Go(l, "save")
    <3> DEFINE image == Decode(store[id[l]])
    <3>1. image \in Good(id[l]) \cup {None, Empty}
      BY <2>4, <1>2 DEF Decode, Good
    <3> HIDE DEF image
    <3>2. input' \in [Loaders -> Images \cup {Empty}] /\ input'[l] = image
      BY <2>4, <3>1, <1>2 DEF Have, image, Good, Images
    <3> QED
      BY <2>1, <2>4, <3>1, <3>2, <1>4 DEF Places, Connected
  <2> QED
    BY <2>2, <2>3, <2>4 DEF Scale
<1>9. Save(l) => OK
  <2> SUFFICES ASSUME Save(l) PROVE OK
    OBVIOUS
  <2>1. /\ pc[l] = "save" /\ pc[l] \in Making /\ want[l] > 0
        /\ (IF input[l] = Empty THEN None ELSE input[l]) \in G
    BY DEF Save, LoadOK, Making
  <2>2. CASE Return(l, IF input[l] = Empty THEN None ELSE input[l])
    BY <2>1, <2>2, <1>3
  <2>3. CASE Go(l, "store") /\ UNCHANGED input
    BY <2>1, <2>3, <1>2, <1>4 DEF LoadOK, Places, Connected
  <2> QED
    BY <2>2, <2>3 DEF Save
<1>10. Store(l) => OK
  <2> SUFFICES ASSUME Store(l) PROVE OK
    OBVIOUS
  <2>1. pc[l] \in Making /\ Made(l) \in G /\ Return(l, Made(l))
    BY DEF Store, LoadOK, Making, Made
  <2> QED
    BY <2>1, <1>3
<1>11. Answer(l) => OK
  <2> SUFFICES ASSUME Answer(l) PROVE OK
    OBVIOUS
  <2>1. /\ pc[l] = "return" /\ UNCHANGED input /\ input[l] # Empty
        /\ input[l] \in Good(id[l]) \cup {None, Empty}
    BY DEF Answer, LoadOK
  <2>2. PICK to \in {"finished", "direct"} :
          Go(l, to) /\ (to = "finished" => input[l] # None \/ cancelled[l])
    BY DEF Answer
  <2> QED
    BY <2>1, <2>2, <1>2, <1>4 DEF Places, Connected
<1>12. Direct(l) => OK
  <2> SUFFICES ASSUME Direct(l) PROVE OK
    OBVIOUS
  <2>1. /\ pc[l] = "direct" /\ UNCHANGED input /\ input[l] # Empty /\ Go(l, "raw")
        /\ input[l] \in Good(id[l]) \cup {None, Empty}
    BY DEF Direct, LoadOK
  <2> QED
    BY <2>1, <1>2, <1>4 DEF Places, Connected
<1>13. Raw(l) => OK
  <2> SUFFICES ASSUME Raw(l) PROVE OK
    OBVIOUS
  <2> DEFINE image == IF cancelled[l] \/ store[id[l]] \in Broken THEN None ELSE store[id[l]]
  <2>1. pc[l] = "raw" /\ Go(l, "finished") /\ Have(l, image)
    BY DEF Raw
  <2>2. image \in G /\ store[id[l]] \in seen[l]
    BY <2>1, <1>2 DEF Good, LoadOK
  <2>3. ~cancelled[l] => image # None \/ None \in seen[l] \/ seen[l] \cap Broken # {}
    BY <2>2
  <2> HIDE DEF image
  <2>4. /\ input'[l] = image /\ input' \in [Loaders -> Images \cup {Empty}]
        /\ image # Empty
    BY <2>1, <2>2, <1>2, Distinct DEF Have, Good, Images
  <2>5. image \in Good(id[l]) \cup {None, Empty} /\ pc[l] # "idle" /\ Go(l, "finished")
    BY <2>1, <2>2
  <2> HIDE DEF G
  <2> QED
    BY <2>3, <2>4, <2>5, <1>4 DEF Places
<1> QED
  BY <1>5, <1>6, <1>7, <1>8, <1>9, <1>10, <1>11, <1>12, <1>13 DEF Step, OK

\* What a loader stores is good; the tables keep what they have otherwise.
LEMMA StepTables ==
  ASSUME LoadersOK, DataTypes, TablesOwn, NEW l \in Loaders, LoadOK(l), Step(l)
  PROVE  /\ DataTypes' /\ TablesOwn'
         /\ \A n \in Sizes, i \in Ids :
              \/ thumb'[n][i] = thumb[n][i]
              \/ pc[l] = "store" /\ n = at[l] /\ i = id[l] /\ thumb'[n][i] = input[l]
<1>1. Others(l) /\ input' \in [Loaders -> Images \cup {Empty}]
  BY StepOthers, StepLoads
<1>2. CASE Store(l)
  <2>1. /\ pc[l] = "store" /\ pc[l] \in Making /\ want[l] > 0 /\ at[l] >= want[l]
        /\ at[l] \in 0..Largest /\ want[l] \in 0..Largest /\ id[l] \in Ids
    BY <1>2 DEF Store, Making, LoadOK, LoadersOK, DataTypes
  <2>2. at[l] \in Sizes
    BY <2>1 DEF Sizes
  <2> DEFINE a == at[l]
             j == id[l]
             new == IF thumb[a][j] = None THEN input[l] ELSE thumb[a][j]
  <2>3. thumb' = [thumb EXCEPT ![a] = [thumb[a] EXCEPT ![j] = new]]
    BY <1>2 DEF Store
  <2>4. new \in Images \cup {Empty}
    BY <2>1, <2>2 DEF DataTypes
  <2>5. a \in Sizes /\ j \in Ids /\ new \in {input[l], thumb[a][j]}
    BY <2>1, <2>2
  <2> HIDE DEF new
  <2>6. thumb' \in [Sizes -> [Ids -> Images \cup {Empty}]]
    BY <2>3, <2>4, <2>5 DEF DataTypes
  <2>7. \A n \in Sizes, i \in Ids :
          thumb'[n][i] = IF n = a /\ i = j THEN new ELSE thumb[n][i]
    BY <2>3, <2>5 DEF DataTypes
  <2>8. input[l] \in Good(j) \cup {None, Empty}
    BY DEF LoadOK
  <2>9. \A n \in Sizes, i \in Ids :
          \/ thumb'[n][i] = thumb[n][i]
          \/ n = a /\ i = j /\ thumb'[n][i] = input[l]
    BY <2>5, <2>7
  <2>10. TablesOwn'
    BY <2>8, <2>9, <1>1 DEF TablesOwn, Others, Good
  <2> QED
    BY <1>1, <2>1, <2>6, <2>9, <2>10 DEF DataTypes, Others
<1>3. CASE ~Store(l)
  <2>1. UNCHANGED thumb
    BY <1>3 DEF Step, Start, LookUp, Make, Scale, Save, Answer, Direct, Raw, loaderRest, tables
  <2>2. TablesOwn'
    BY <2>1, <1>1 DEF TablesOwn, Others, Good
  <2> QED
    BY <1>1, <2>1, <2>2 DEF DataTypes, Others
<1> QED
  BY <1>2, <1>3

\* Sizes: a loader goes up only below the picture's size, and comes down with less.
LEMMA StepSized ==
  ASSUME LoadersOK, DataTypes, TablesOwn, NEW l \in Loaders, LoadOK(l), Step(l), Sized
  PROVE  Sized'
<1>1. Others(l) /\ OnePicture' /\ \A k \in Loaders \ {l} : SizedOK(k)'
  BY StepOthers, FrameSized
<1>2. /\ pc \in [Loaders -> Places] /\ at \in [Loaders -> 0..Largest]
      /\ input \in [Loaders -> Images \cup {Empty}]
      /\ want[l] \in 0..Largest /\ at[l] \in 0..Largest /\ id[l] \in Ids
      /\ pc[l] \in Making => at[l] >= want[l]
      /\ store[id[l]] \in past[id[l]] \cup {None} /\ past[id[l]] \subseteq Pictures
      /\ SizedOK(l) /\ ThumbsSmaller
  BY DEF LoadersOK, DataTypes, TablesOwn, Sized
<1>3. ThumbsSmaller'
  <2> SUFFICES ASSUME NEW n \in Sizes, NEW i \in Ids, thumb'[n][i] \in Pictures
               PROVE  SizeOf[thumb'[n][i]] > n
    BY DEF ThumbsSmaller
  <2>1. CASE thumb'[n][i] = thumb[n][i]
    BY <2>1, <1>2 DEF ThumbsSmaller
  <2>2. CASE pc[l] = "store" /\ n = at[l] /\ i = id[l] /\ thumb'[n][i] = input[l]
    BY <2>2, <1>2 DEF SizedOK
  <2> QED
    BY <2>1, <2>2, StepTables
<1> DEFINE OK == SizedOK(l)'
<1>4. ASSUME pc[l] \in Making, NEW image, Fits(l, image), Return(l, image)
      PROVE  OK
  BY <1>1, <1>2, <1>4, ReturnSized
<1>5. ASSUME pc'[l] \notin {"lookup", "make", "scale", "save", "store"}
      PROVE  OK
  BY <1>5 DEF SizedOK, Making
<1>6. None \notin Pictures
  BY Distinct
<1> HIDE DEF OK
<1>7. Start(l) => OK
  <2> SUFFICES ASSUME Start(l) PROVE OK
    OBVIOUS
  <2>1. CASE Go(l, "lookup") /\ refSize[id[l]] >= want[l] + 1
    BY <2>1, <1>1, <1>2 DEF Go, OK, SizedOK, Others, Making
  <2>2. CASE Go(l, "finished") \/ Go(l, "direct")
    BY <2>2, <1>2, <1>5 DEF Go
  <2> QED
    BY <2>1, <2>2 DEF Start
<1>8. LookUp(l) => OK
  <2> SUFFICES ASSUME LookUp(l) PROVE OK
    OBVIOUS
  <2>1. refSize[id[l]] >= want[l] + 1
    BY <1>2 DEF LookUp, SizedOK
  <2>2. CASE Go(l, "make") /\ at' = [at EXCEPT ![l] = want[l]]
    <3>1. pc'[l] = "make" /\ at'[l] = want[l]
      BY <2>2, <1>2 DEF Go
    <3> QED
      BY <3>1, <2>1, <1>1 DEF OK, SizedOK, Others
  <2>3. CASE Go(l, "return")
    BY <2>3, <1>2, <1>5 DEF Go
  <2> QED
    BY <2>2, <2>3 DEF LookUp
<1>9. Make(l) => OK
  <2> SUFFICES ASSUME Make(l) PROVE OK
    OBVIOUS
  <2>1. /\ pc[l] = "make" /\ pc[l] \in Making /\ at[l] \in Sizes /\ input[l] = None
        /\ refSize[id[l]] >= at[l] + 1
    BY <1>2 DEF Make, LoadOK, Sizes, Making, SizedOK
  <2>2. Fits(l, Thumb(l, at[l])) /\ Fits(l, None)
    BY <2>1, <1>2, <1>6, ThumbGood DEF Fits
  <2>3. CASE Return(l, Thumb(l, at[l])) \/ Return(l, None)
    BY <2>1, <2>2, <2>3, <1>4
  <2>4. CASE refSize[id[l]] >= at[l] + 2 /\ at' = [at EXCEPT ![l] = @ + 1] /\ UNCHANGED pc
    <3>1. at'[l] = at[l] + 1 /\ pc'[l] = "make" /\ at[l] \in Nat
      BY <2>4, <2>1, <1>2
    <3>2. refSize[id[l]] \in Nat
      BY <2>1, <1>2 DEF LoadOK, DataTypes
    <3> QED
      BY <3>1, <3>2, <2>4, <1>1 DEF OK, SizedOK, Others
  <2>5. CASE Go(l, "scale") /\ UNCHANGED <<at, input>>
    BY <2>1, <2>5, <1>1, <1>2, <1>6 DEF Go, OK, SizedOK, Others
  <2> QED
    BY <2>3, <2>4, <2>5 DEF Make
<1>10. Scale(l) => OK
  <2> SUFFICES ASSUME Scale(l) PROVE OK
    OBVIOUS
  <2>1. /\ pc[l] = "scale" /\ pc[l] \in Making /\ refSize[id[l]] >= at[l] + 1
        /\ Fits(l, None) /\ (input[l] \in Pictures => SizeOf[input[l]] > at[l])
    BY <1>2, <1>6 DEF Scale, LoadOK, Making, SizedOK, Fits
  <2>2. CASE Return(l, None)
    BY <2>1, <2>2, <1>4
  <2>3. CASE Go(l, "save") /\ UNCHANGED <<at, input>>
    BY <2>1, <2>3, <1>1, <1>2 DEF Go, OK, SizedOK, Others
  <2>4. CASE store[id[l]] # None /\ Have(l, Decode(store[id[l]])) /\ Go(l, "save") /\ UNCHANGED at
    <3> DEFINE p == store[id[l]]
    <3>1. p \in past[id[l]] /\ p \in Pictures
      BY <2>4, <1>2
    <3>2. PICK q \in past[id[l]] : refSize[id[l]] = SizeOf[q]
      BY <2>1, <1>2 DEF Sized, OnePicture, LoadOK
    <3>3. q = p
      BY <3>1, <3>2, <1>2 DEF Sized, OnePicture
    <3>4. SizeOf[p] > at[l]
      BY <2>1, <3>1, <3>2, <3>3, <1>2, ThumbnailsAssumption
    <3>5. pc'[l] = "save" /\ at'[l] = at[l] /\ input'[l] \in {p, Empty}
      BY <2>4, <1>2 DEF Go, Have, Decode
    <3>6. Empty \notin Pictures
      BY Distinct
    <3> HIDE DEF p
    <3> QED
      BY <2>1, <3>4, <3>5, <3>6, <1>1 DEF OK, SizedOK, Others
  <2> QED
    BY <2>2, <2>3, <2>4 DEF Scale
<1>11. Save(l) => OK
  <2> SUFFICES ASSUME Save(l) PROVE OK
    OBVIOUS
  <2>1. /\ pc[l] = "save" /\ pc[l] \in Making /\ refSize[id[l]] >= at[l] + 1
        /\ Fits(l, IF input[l] = Empty THEN None ELSE input[l])
        /\ (input[l] \in Pictures => SizeOf[input[l]] > at[l])
    BY <1>2, <1>6 DEF Save, LoadOK, Making, SizedOK, Fits
  <2>2. CASE Return(l, IF input[l] = Empty THEN None ELSE input[l])
    BY <2>1, <2>2, <1>4
  <2>3. CASE Go(l, "store") /\ UNCHANGED <<at, input>>
    BY <2>1, <2>3, <1>1, <1>2 DEF Go, OK, SizedOK, Others
  <2> QED
    BY <2>2, <2>3 DEF Save
<1>12. Store(l) => OK
  <2> SUFFICES ASSUME Store(l) PROVE OK
    OBVIOUS
  <2>1. pc[l] \in Making /\ Fits(l, Made(l)) /\ Return(l, Made(l))
    BY <1>2, <1>6 DEF Store, LoadOK, Making, Made, SizedOK, Fits
  <2> QED
    BY <2>1, <1>4
<1>13. Answer(l) \/ Direct(l) \/ Raw(l) => OK
  BY <1>2, <1>5 DEF Answer, Direct, Raw, Go
<1>14. OK
  BY <1>7, <1>8, <1>9, <1>10, <1>11, <1>12, <1>13 DEF Step
<1> QED
  BY <1>1, <1>3, <1>14 DEF Sized, OK
--------------------------------------------------------------------------------
(* The steps of the others: requests, cancellations, and what happens to the library. *)

\* A nonempty set of ids has a greatest.
LEMMA GreatestId ==
  ASSUME NEW S \in SUBSET Ids, S # {}
  PROVE  \E i \in S : \A k \in S : k <= i
<1> DEFINE R == {MaxId - i : i \in S}
<1>1. MaxId \in Nat /\ \A i \in S : i \in Nat /\ i <= MaxId
  BY ThumbnailsAssumption DEF Ids
<1>2. R \subseteq Nat /\ R # {}
  <2>1. \A i \in S : MaxId - i \in Nat
    BY <1>1
  <2> QED
    BY <2>1
<1> HIDE DEF R
<1>3. IsWellFoundedOn(OpToRel(<, Nat), Nat)
  BY NatLessThanWellFounded, Zenon
<1>4. PICK n \in R : \A m \in R : <<m, n>> \notin OpToRel(<, Nat)
  BY <1>2, <1>3, WFMin, Zenon
<1>5. ASSUME NEW m \in R PROVE n <= m
  <2>1. m \in Nat /\ n \in Nat
    BY <1>2, <1>4
  <2>2. ~(m < n)
    BY <1>4, <2>1 DEF OpToRel
  <2> QED
    BY <2>1, <2>2
<1>6. PICK i \in S : n = MaxId - i
  BY DEF R
<1>7. \A k \in S : MaxId - k \in R
  BY DEF R
<1> QED
  BY <1>1, <1>5, <1>6, <1>7

\* writeImage's id is larger than every one in use.
LEMMA NextIdFresh ==
  ASSUME DataTypes, NextId \in Ids
  PROVE  \A k \in HasImage : k < NextId
<1>1. HasImage \subseteq Ids /\ Ids \subseteq Nat
  BY DEF HasImage, Ids
<1>2. CASE HasImage # {}
  <2>1. \E i \in HasImage : \A k \in HasImage : k <= i
    BY <1>1, <1>2, GreatestId
  <2>2. PICK i \in HasImage : NextId = 1 + i /\ \A k \in HasImage : k <= i
    BY <1>2, <2>1 DEF NextId
  <2> QED
    BY <2>2, <1>1
<1> QED
  BY <1>2

DInv == DataTypes /\ TablesOwn /\ LoadsOK

LEMMA RequestKeeps ==
  ASSUME IInv, DInv, NEW l \in Loaders, NEW i \in Ids, NEW n \in 0..Largest, Request(l, i, n)
  PROVE  DInv' /\ (Sized => Sized')
<1>1. /\ UNCHANGED <<store, thumb, refSize, past, changes>> /\ refSize[i] # None
      /\ requests' = requests + 1 /\ requests < MaxRequests
      /\ pc' = [pc EXCEPT ![l] = "start"] /\ id' = [id EXCEPT ![l] = i]
      /\ want' = [want EXCEPT ![l] = n] /\ at' = [at EXCEPT ![l] = 0]
      /\ input' = [input EXCEPT ![l] = None] /\ cancelled' = [cancelled EXCEPT ![l] = FALSE]
      /\ seen' = [seen EXCEPT ![l] = {store[i]}]
  BY DEF Request, tables, Go, Have
<1>2. /\ pc \in [Loaders -> Places] /\ want \in [Loaders -> 0..Largest]
      /\ at \in [Loaders -> 0..Largest] /\ id \in [Loaders -> Ids]
      /\ input \in [Loaders -> Images \cup {Empty}] /\ cancelled \in [Loaders -> BOOLEAN]
      /\ seen \in [Loaders -> SUBSET Images] /\ store[i] \in Images
      /\ store[i] \in past[i] \cup {None}
  BY DEF IInv, LoadersOK, DInv, DataTypes, TablesOwn
<1>3. /\ pc'[l] = "start" /\ id'[l] = i /\ input'[l] = None /\ seen'[l] = {store[i]}
      /\ \A k \in Loaders \ {l} :
           /\ pc'[k] = pc[k] /\ id'[k] = id[k] /\ want'[k] = want[k] /\ at'[k] = at[k]
           /\ input'[k] = input[k] /\ cancelled'[k] = cancelled[k] /\ seen'[k] = seen[k]
  BY <1>1, <1>2
<1>4. requests' \in 0..MaxRequests
  BY <1>1, ThumbnailsAssumption DEF DInv, DataTypes
<1>5. input' \in [Loaders -> Images \cup {Empty}] /\ id' \in [Loaders -> Ids]
      /\ cancelled' \in [Loaders -> BOOLEAN] /\ seen' \in [Loaders -> SUBSET Images]
  BY <1>1, <1>2 DEF Images
<1>6. DataTypes'
  BY <1>1, <1>4, <1>5 DEF DInv, DataTypes
<1>7. TablesOwn'
  BY <1>1 DEF DInv, TablesOwn, Good
<1>8. LoadOK(l)'
  BY <1>1, <1>2, <1>3, Distinct DEF LoadOK, Good
<1>9. \A k \in Loaders \ {l} : LoadOK(k)'
  BY <1>1, <1>3 DEF DInv, LoadsOK, LoadOK, Good
<1>10. ASSUME Sized PROVE Sized'
  <2>1. OnePicture' /\ ThumbsSmaller'
    BY <1>1, <1>10 DEF Sized, OnePicture, ThumbsSmaller
  <2>2. SizedOK(l)'
    BY <1>3 DEF SizedOK, Making
  <2>3. \A k \in Loaders \ {l} : SizedOK(k)'
    BY <1>1, <1>3, <1>10 DEF Sized, SizedOK
  <2> QED
    BY <2>1, <2>2, <2>3 DEF Sized
<1> QED
  BY <1>6, <1>7, <1>8, <1>9, <1>10 DEF DInv, LoadsOK

LEMMA CancelKeeps ==
  ASSUME DInv, NEW l \in Loaders, Cancel(l)
  PROVE  DInv' /\ (Sized => Sized')
<1>1. /\ UNCHANGED <<store, thumb, refSize, past, changes, requests, pc, id, want, at, input, seen>>
      /\ cancelled' = [cancelled EXCEPT ![l] = TRUE] /\ pc[l] # "finished"
      /\ cancelled \in [Loaders -> BOOLEAN]
  BY DEF Cancel, tables, DInv, DataTypes
<1>2. DataTypes' /\ TablesOwn'
  BY <1>1 DEF DInv, DataTypes, TablesOwn, Good
<1>3. LoadsOK'
  BY <1>1 DEF DInv, LoadsOK, LoadOK, Good
<1>4. ASSUME Sized PROVE Sized'
  BY <1>1, <1>4 DEF Sized, OnePicture, ThumbsSmaller, SizedOK
<1> QED
  BY <1>2, <1>3, <1>4 DEF DInv

\* The write thread's changes: an id only gains pictures, and each loader sees the new
\* state of the table.
LEMMA ChangeKeeps ==
  ASSUME DInv, Change,
         store' \in [Ids -> Images], past' \in [Ids -> SUBSET Pictures], UNCHANGED refSize,
         thumb' \in [Sizes -> [Ids -> Images \cup {Empty}]],
         \A i \in Ids : past[i] \subseteq past'[i] /\ store'[i] \in past'[i] \cup {None},
         \A n \in Sizes, i \in Ids : thumb'[n][i] \in {thumb[n][i], None}
  PROVE  DInv' /\ \A l \in Loaders : SizedOK(l) => SizedOK(l)'
<1>1. /\ UNCHANGED <<pc, id, want, at, input, cancelled, requests>>
      /\ changes' = changes + 1 /\ changes < MaxChanges
      /\ seen' = [l \in Loaders |-> seen[l] \cup {store'[id[l]]}]
  BY DEF Change
<1>2. id \in [Loaders -> Ids] /\ seen \in [Loaders -> SUBSET Images]
  BY DEF DInv, DataTypes
<1>3. \A l \in Loaders : /\ id[l] \in Ids /\ seen'[l] = seen[l] \cup {store'[id[l]]}
                         /\ store'[id[l]] \in Images
  BY <1>1, <1>2
<1>4. seen' \in [Loaders -> SUBSET Images]
  BY <1>1, <1>2, <1>3
<1>5. changes' \in 0..MaxChanges
  BY <1>1, ThumbnailsAssumption DEF DInv, DataTypes
<1>6. DataTypes'
  BY <1>1, <1>4, <1>5 DEF DInv, DataTypes
<1>7. TablesOwn'
  BY DEF DInv, TablesOwn, Good
<1>8. ASSUME NEW l \in Loaders PROVE LoadOK(l)'
  <2>1. /\ LoadOK(l) /\ past[id[l]] \subseteq past'[id[l]]
        /\ store'[id[l]] \in past'[id[l]] \cup {None}
        /\ seen'[l] = seen[l] \cup {store'[id[l]]}
    BY <1>3 DEF DInv, LoadsOK
  <2> QED
    BY <1>1, <2>1 DEF LoadOK, Good
<1>9. \A l \in Loaders : SizedOK(l) => SizedOK(l)'
  BY <1>1 DEF SizedOK
<1> QED
  BY <1>6, <1>7, <1>8, <1>9 DEF DInv, LoadsOK

LEMMA LibraryKeeps ==
  ASSUME DInv, (\E p \in Pictures : Import(p)) \/ (\E i \in Ids : Purge(i)) \/ Clear
  PROVE  DInv' /\ (~Reuse /\ Sized => Sized')
<1>1. /\ store \in [Ids -> Images] /\ past \in [Ids -> SUBSET Pictures]
      /\ thumb \in [Sizes -> [Ids -> Images \cup {Empty}]]
      /\ \A i \in Ids : store[i] \in past[i] \cup {None}
      /\ None \in Images /\ Pictures \subseteq Images /\ None \notin Pictures
  BY Distinct DEF DInv, DataTypes, TablesOwn, Images
<1>2. ASSUME NEW p \in Pictures, Import(p)
      PROVE  DInv' /\ (Sized => Sized')
  <2> DEFINE j == NextId
  <2>1. /\ j \in Ids /\ store' = [store EXCEPT ![j] = p]
        /\ past' = [past EXCEPT ![j] = past[j] \cup {p}]
        /\ UNCHANGED <<thumb, refSize>> /\ Change
    BY <1>2 DEF Import
  <2>2. \A k \in HasImage : k < j
    BY <2>1, NextIdFresh DEF DInv
  <2> HIDE DEF j
  <2>3. /\ store' \in [Ids -> Images] /\ past' \in [Ids -> SUBSET Pictures]
        /\ store'[j] = p /\ past'[j] = past[j] \cup {p}
        /\ \A i \in Ids \ {j} : store'[i] = store[i] /\ past'[i] = past[i]
    BY <1>1, <2>1
  <2>4. DInv' /\ \A l \in Loaders : SizedOK(l) => SizedOK(l)'
    <3>1. \A i \in Ids : past[i] \subseteq past'[i] /\ store'[i] \in past'[i] \cup {None}
      BY <1>1, <2>3
    <3>2. \A n \in Sizes, i \in Ids : thumb'[n][i] \in {thumb[n][i], None}
      BY <2>1
    <3>3. UNCHANGED refSize /\ thumb' \in [Sizes -> [Ids -> Images \cup {Empty}]]
      BY <1>1, <2>1
    <3> QED
      BY <2>1, <2>3, <3>1, <3>2, <3>3, ChangeKeeps
  <2>5. ASSUME Sized PROVE OnePicture' /\ ThumbsSmaller'
    <3>1. /\ \A i \in Ids : \A q, r \in past[i] : q = r
          /\ \A i \in Ids : past[i] # {} => \E k \in Ids : k >= i /\ store[k] # None
          /\ \A i \in Ids : refSize[i] # None => \E q \in past[i] : refSize[i] = SizeOf[q]
      BY <2>5 DEF Sized, OnePicture
    <3>2. past[j] = {}
      <4> SUFFICES ASSUME past[j] # {} PROVE FALSE
        OBVIOUS
      <4>1. PICK k \in Ids : k >= j /\ store[k] # None
        BY <2>1, <3>1
      <4>2. k < j /\ k \in Nat /\ j \in Nat
        BY <2>1, <2>2, <4>1 DEF HasImage, Ids
      <4> QED
        BY <4>1, <4>2
    <3>3. \A i \in Ids : \A q, r \in past'[i] : q = r
      BY <2>3, <3>1, <3>2
    <3>4. \A i \in Ids : past'[i] # {} => \E k \in Ids : k >= i /\ store'[k] # None
      <4> SUFFICES ASSUME NEW i \in Ids, past'[i] # {}
                   PROVE  \E k \in Ids : k >= i /\ store'[k] # None
        OBVIOUS
      <4>1. store'[j] # None /\ i >= i
        BY <1>1, <2>3 DEF Ids
      <4>2. CASE i = j
        BY <4>1, <4>2
      <4>3. CASE i # j
        <5>1. PICK k \in Ids : k >= i /\ store[k] # None
          BY <2>3, <3>1, <4>3
        <5>2. store'[k] # None
          BY <2>3, <4>1, <5>1
        <5> QED
          BY <5>1, <5>2
      <4> QED
        BY <4>2, <4>3
    <3>5. \A i \in Ids : refSize'[i] # None => \E q \in past'[i] : refSize'[i] = SizeOf[q]
      <4> SUFFICES ASSUME NEW i \in Ids, refSize'[i] # None
                   PROVE  \E q \in past'[i] : refSize'[i] = SizeOf[q]
        OBVIOUS
      <4>1. PICK q \in past[i] : refSize[i] = SizeOf[q]
        BY <2>1, <3>1
      <4>2. q \in past'[i]
        BY <2>3, <4>1
      <4> QED
        BY <2>1, <4>1, <4>2
    <3>6. ThumbsSmaller'
      BY <2>1, <2>5 DEF Sized, ThumbsSmaller
    <3> QED
      BY <3>3, <3>4, <3>5, <3>6 DEF OnePicture
  <2> QED
    BY <2>4, <2>5 DEF Sized
<1>3. ASSUME NEW j \in Ids, Purge(j)
      PROVE  DInv' /\ (~Reuse /\ Sized => Sized')
  <2>1. /\ store' = [store EXCEPT ![j] = None] /\ UNCHANGED <<thumb, refSize, past>> /\ Change
        /\ (Reuse \/ \E k \in HasImage : k > j)
    BY <1>3 DEF Purge
  <2>2. /\ store' \in [Ids -> Images] /\ store'[j] = None
        /\ \A i \in Ids \ {j} : store'[i] = store[i]
    BY <1>1, <2>1
  <2>3. DInv' /\ \A l \in Loaders : SizedOK(l) => SizedOK(l)'
    <3>1. \A i \in Ids : past[i] \subseteq past'[i] /\ store'[i] \in past'[i] \cup {None}
      BY <1>1, <2>1, <2>2
    <3>2. \A n \in Sizes, i \in Ids : thumb'[n][i] \in {thumb[n][i], None}
      BY <2>1
    <3>3. /\ UNCHANGED refSize /\ thumb' \in [Sizes -> [Ids -> Images \cup {Empty}]]
          /\ past' \in [Ids -> SUBSET Pictures]
      BY <1>1, <2>1
    <3> QED
      BY <2>1, <2>2, <3>1, <3>2, <3>3, ChangeKeeps
  <2>4. ASSUME ~Reuse, Sized PROVE OnePicture' /\ ThumbsSmaller'
    <3>1. PICK m \in HasImage : m > j
      BY <2>1, <2>4
    <3>2. m \in Ids /\ store'[m] # None /\ Ids \subseteq Nat
      BY <2>2, <3>1 DEF HasImage, Ids
    <3>3. \A i \in Ids : past'[i] # {} => \E k \in Ids : k >= i /\ store'[k] # None
      <4> SUFFICES ASSUME NEW i \in Ids, past'[i] # {}
                   PROVE  \E k \in Ids : k >= i /\ store'[k] # None
        OBVIOUS
      <4>1. PICK k \in Ids : k >= i /\ store[k] # None
        BY <2>1, <2>4 DEF Sized, OnePicture
      <4>2. CASE k = j
        <5>1. m >= i
          BY <3>1, <3>2, <4>1, <4>2
        <5> QED
          BY <3>2, <5>1
      <4>3. CASE k # j
        <5>1. store'[k] # None
          BY <2>2, <4>1, <4>3
        <5> QED
          BY <4>1, <5>1
      <4> QED
        BY <4>2, <4>3
    <3>4. ThumbsSmaller'
      BY <2>1, <2>4 DEF Sized, ThumbsSmaller
    <3> QED
      BY <2>1, <2>4, <3>3, <3>4 DEF Sized, OnePicture
  <2> QED
    BY <2>3, <2>4 DEF Sized
<1>4. ASSUME Clear
      PROVE  DInv' /\ (Sized => Sized')
  <2>1. /\ thumb' = [n \in Sizes |-> [i \in Ids |-> None]]
        /\ UNCHANGED <<store, refSize, past>> /\ Change
    BY <1>4 DEF Clear
  <2>2. /\ thumb' \in [Sizes -> [Ids -> Images \cup {Empty}]]
        /\ \A n \in Sizes, i \in Ids : thumb'[n][i] = None
    BY <1>1, <2>1
  <2>3. DInv' /\ \A l \in Loaders : SizedOK(l) => SizedOK(l)'
    <3>1. \A i \in Ids : past[i] \subseteq past'[i] /\ store'[i] \in past'[i] \cup {None}
      BY <1>1, <2>1
    <3>2. \A n \in Sizes, i \in Ids : thumb'[n][i] \in {thumb[n][i], None}
      BY <2>2
    <3>3. /\ UNCHANGED refSize /\ store' \in [Ids -> Images]
          /\ past' \in [Ids -> SUBSET Pictures]
      BY <1>1, <2>1
    <3> QED
      BY <2>1, <2>2, <3>1, <3>2, <3>3, ChangeKeeps
  <2>4. ASSUME Sized PROVE OnePicture' /\ ThumbsSmaller'
    <3>1. OnePicture'
      BY <2>1, <2>4 DEF Sized, OnePicture
    <3>2. ThumbsSmaller'
      BY <1>1, <2>2 DEF ThumbsSmaller
    <3> QED
      BY <3>1, <3>2
  <2> QED
    BY <2>3, <2>4 DEF Sized
<1> QED
  BY <1>2, <1>3, <1>4

LEMMA CreateRefKeeps ==
  ASSUME DInv, NEW j \in Ids, CreateRef(j)
  PROVE  DInv' /\ (Sized => Sized')
<1> DEFINE n == SizeOf[store[j]]
<1>1. /\ store[j] # None /\ refSize[j] # n /\ refSize' = [refSize EXCEPT ![j] = n]
      /\ UNCHANGED <<store, thumb, past, requests, changes, pc, id, want, at, input,
                     cancelled, seen>>
  BY DEF CreateRef, loader
<1>2. /\ store[j] \in past[j] /\ past[j] \subseteq Pictures
      /\ refSize \in [Ids -> Nat \cup {None}]
  BY <1>1 DEF DInv, TablesOwn, DataTypes
<1>3. n \in Nat /\ n # None
  BY <1>2, ThumbnailsAssumption
<1>4. /\ refSize' \in [Ids -> Nat \cup {None}] /\ refSize'[j] = n
      /\ \A i \in Ids \ {j} : refSize'[i] = refSize[i]
  BY <1>1, <1>2, <1>3
<1>5. DataTypes' /\ TablesOwn'
  BY <1>1, <1>4 DEF DInv, DataTypes, TablesOwn, Good
<1>6. LoadsOK'
  <2> SUFFICES ASSUME NEW l \in Loaders PROVE LoadOK(l)'
    BY DEF LoadsOK
  <2>1. LoadOK(l) /\ id[l] \in Ids
    BY DEF DInv, LoadsOK, DataTypes
  <2>2. refSize[id[l]] # None => refSize'[id[l]] # None
    BY <1>3, <1>4, <2>1
  <2> QED
    BY <1>1, <2>1, <2>2 DEF LoadOK, Good
<1> HIDE DEF n
<1>7. ASSUME Sized PROVE Sized'
  <2>1. refSize[j] = None
    <3> SUFFICES ASSUME refSize[j] # None PROVE FALSE
      OBVIOUS
    <3>1. PICK p \in past[j] : refSize[j] = SizeOf[p]
      BY <1>7 DEF Sized, OnePicture
    <3>2. p = store[j]
      BY <1>2, <1>7, <3>1 DEF Sized, OnePicture
    <3> QED
      BY <1>1, <3>1, <3>2 DEF n
  <2>2. OnePicture'
    <3>1. \A i \in Ids : refSize'[i] # None => \E p \in past'[i] : refSize'[i] = SizeOf[p]
      <4> SUFFICES ASSUME NEW i \in Ids, refSize'[i] # None
                   PROVE  \E p \in past[i] : refSize'[i] = SizeOf[p]
        BY <1>1
      <4>1. CASE i = j
        BY <1>2, <1>4, <4>1 DEF n
      <4>2. CASE i # j
        BY <1>4, <1>7, <4>2 DEF Sized, OnePicture
      <4> QED
        BY <4>1, <4>2
    <3> QED
      BY <1>1, <1>7, <3>1 DEF Sized, OnePicture
  <2>3. ThumbsSmaller'
    BY <1>1, <1>7 DEF Sized, ThumbsSmaller
  <2>4. ASSUME NEW l \in Loaders PROVE SizedOK(l)'
    <3>1. SizedOK(l) /\ LoadOK(l) /\ id[l] \in Ids
      BY <1>7 DEF Sized, DInv, LoadsOK, DataTypes
    <3>2. CASE pc[l] # "idle"
      <4>1. refSize[id[l]] # None
        BY <3>1, <3>2 DEF LoadOK
      <4>2. refSize'[id[l]] = refSize[id[l]]
        BY <1>4, <2>1, <3>1, <4>1
      <4> QED
        BY <1>1, <3>1, <4>2 DEF SizedOK
    <3>3. CASE pc[l] = "idle"
      BY <1>1, <3>3 DEF SizedOK, Making
    <3> QED
      BY <3>2, <3>3
  <2> QED
    BY <2>2, <2>3, <2>4 DEF Sized
<1> QED
  BY <1>5, <1>6, <1>7 DEF DInv
--------------------------------------------------------------------------------
LEMMA InitData == Init => DInv /\ Sized
<1> SUFFICES ASSUME Init PROVE DInv /\ Sized
  OBVIOUS
<1>1. InitialStore \in [Ids -> Images]
  BY ThumbnailsAssumption DEF InitialStore, Images, Ids
<1>2. /\ store = InitialStore /\ \A i \in Ids : store[i] \in Images
      /\ past = [i \in Ids |-> {InitialStore[i]} \ {None}]
  BY <1>1 DEF Init
<1>3. /\ \A i \in Ids : past[i] = {store[i]} \ {None}
      /\ past \in [Ids -> SUBSET Pictures]
  BY <1>2 DEF Images
<1>4. /\ refSize \in [Ids -> Nat \cup {None}]
      /\ \A i \in Ids : refSize[i] = IF store[i] = None THEN None ELSE SizeOf[store[i]]
  <2>1. refSize = [i \in Ids |-> IF store[i] = None THEN None ELSE SizeOf[store[i]]]
    BY DEF Init, SizeIn
  <2>2. \A i \in Ids : store[i] # None => SizeOf[store[i]] \in Nat
    BY <1>2, ThumbnailsAssumption DEF Images
  <2> QED
    BY <2>1, <2>2
<1>5. /\ thumb \in [Sizes -> [Ids -> Images \cup {Empty}]]
      /\ \A n \in Sizes, i \in Ids : thumb[n][i] = None
  BY DEF Init, Images
<1>6. /\ id \in [Loaders -> Ids] /\ input \in [Loaders -> Images \cup {Empty}]
      /\ cancelled \in [Loaders -> BOOLEAN] /\ seen \in [Loaders -> SUBSET Images]
      /\ \A l \in Loaders : pc[l] = "idle" /\ input[l] = None /\ seen[l] = {}
  BY ThumbnailsAssumption DEF Init, Ids, Images
<1>7. requests \in 0..MaxRequests /\ changes \in 0..MaxChanges
  BY ThumbnailsAssumption DEF Init
<1>8. DataTypes
  BY <1>1, <1>2, <1>3, <1>4, <1>5, <1>6, <1>7 DEF DataTypes
<1>9. TablesOwn
  BY <1>2, <1>3, <1>5 DEF TablesOwn, Images
<1>10. LoadsOK
  BY <1>6, Distinct DEF LoadsOK, LoadOK
<1>11. OnePicture
  <2>1. \A i \in Ids : \A p, q \in past[i] : p = q
    BY <1>3
  <2>2. \A i \in Ids : past[i] # {} => store[i] # None /\ i >= i
    BY <1>3 DEF Ids
  <2>3. \A i \in Ids : refSize[i] # None => store[i] \in past[i] /\ refSize[i] = SizeOf[store[i]]
    BY <1>3, <1>4
  <2>4. \A i \in Ids : past[i] # {} => \E k \in Ids : k >= i /\ store[k] # None
    BY <2>2
  <2>5. \A i \in Ids : refSize[i] # None => \E p \in past[i] : refSize[i] = SizeOf[p]
    BY <2>3
  <2> QED
    BY <2>1, <2>4, <2>5 DEF OnePicture
<1>12. ThumbsSmaller
  BY <1>5, Distinct DEF ThumbsSmaller
<1>13. \A l \in Loaders : SizedOK(l)
  BY <1>6 DEF SizedOK, Making
<1> QED
  BY <1>8, <1>9, <1>10, <1>11, <1>12, <1>13 DEF DInv, Sized

LEMMA DataInductive ==
  ASSUME IInv, DInv, [Next]_vars
  PROVE  DInv' /\ (~Reuse /\ Sized => Sized')
<1>1. ASSUME NEW l \in Loaders, Step(l)
      PROVE  DInv' /\ (Sized => Sized')
  <2>1. LoadersOK /\ DataTypes /\ TablesOwn /\ LoadOK(l) /\ LoadsOK
    BY DEF IInv, DInv, LoadsOK
  <2>2. DataTypes' /\ TablesOwn' /\ LoadOK(l)' /\ Others(l)
    BY <1>1, <2>1, StepTables, StepLoads, StepOthers
  <2>3. \A k \in Loaders \ {l} : LoadOK(k)'
    BY <2>1, <2>2, FrameKeeps
  <2>4. Sized => Sized'
    BY <1>1, <2>1, StepSized
  <2> QED
    BY <2>2, <2>3, <2>4 DEF DInv, LoadsOK
<1>2. ASSUME NEW l \in Loaders, NEW i \in Ids, NEW n \in 0..Largest, Request(l, i, n)
      PROVE  DInv' /\ (Sized => Sized')
  BY <1>2, RequestKeeps
<1>3. ASSUME NEW l \in Loaders, Cancel(l)
      PROVE  DInv' /\ (Sized => Sized')
  BY <1>3, CancelKeeps
<1>4. CASE (\E p \in Pictures : Import(p)) \/ (\E i \in Ids : Purge(i)) \/ Clear
  BY <1>4, LibraryKeeps
<1>5. ASSUME NEW i \in Ids, CreateRef(i)
      PROVE  DInv' /\ (Sized => Sized')
  BY <1>5, CreateRefKeeps
<1>6. CASE UNCHANGED vars
  <2>1. /\ UNCHANGED <<store, thumb, refSize, past, pc, id, want, at, input, cancelled, seen,
                       requests, changes>>
    BY <1>6 DEF vars, tables, loader
  <2>2. DataTypes' /\ TablesOwn'
    BY <2>1 DEF DInv, DataTypes, TablesOwn, Good
  <2>3. LoadsOK'
    BY <2>1 DEF DInv, LoadsOK, LoadOK, Good
  <2>4. Sized => Sized'
    BY <2>1 DEF Sized, OnePicture, ThumbsSmaller, SizedOK
  <2> QED
    BY <2>2, <2>3, <2>4 DEF DInv
<1> QED
  BY <1>1, <1>2, <1>3, <1>4, <1>5, <1>6 DEF Next

\* The data invariant, with and without reuse of ids.
LEMMA DataInvariant == Spec => []DInv
<1>1. Init => DInv
  BY InitData
<1>2. IInv /\ DInv /\ [Next]_vars => DInv'
  BY DataInductive
<1> QED
  BY <1>1, <1>2, Invariant, PTL DEF Spec

LEMMA SizedInvariant ==
  ASSUME ~Reuse
  PROVE  Spec => []Sized
<1>1. Init => Sized
  BY InitData
<1>2. IInv /\ DInv /\ Sized /\ [Next]_vars => Sized'
  BY DataInductive
<1> QED
  BY <1>1, <1>2, Invariant, DataInvariant, PTL DEF Spec

\* When the pool is empty every connection made is some loader's.
LEMMA AllInUse == PoolOK /\ pool = <<>> => made <= Cardinality(Loaders)
<1> SUFFICES ASSUME PoolOK, pool = <<>> PROVE made <= Cardinality(Loaders)
  OBVIOUS
<1>1. made \in Nat /\ \A k \in 1..made : \E l \in Loaders : conn[l] = k
  BY DEF PoolOK, InPool, InUse
<1> DEFINE f == [k \in 1..made |-> CHOOSE l \in Loaders : conn[l] = k]
<1>2. \A k \in 1..made : f[k] \in Loaders /\ conn[f[k]] = k
  BY <1>1
<1>3. f \in [1..made -> Loaders]
  BY <1>2
<1> HIDE DEF f
<1>4. f \in Injection(1..made, Loaders)
  BY <1>2, <1>3, Fun_IsInj
<1>5. Cardinality(1..made) <= Cardinality(Loaders)
  BY <1>4, LoadersAssumption, FS_Injection
<1>6. Cardinality(1..made) = made
  BY <1>1, FS_Interval
<1> QED
  BY <1>5, <1>6

LEMMA MadeBounded == Spec => [](made <= Cardinality(Loaders))
<1>1. Init => made <= Cardinality(Loaders)
  BY LoadersAssumption, FS_CardinalityType DEF Init
<1>2. IInv /\ made <= Cardinality(Loaders) /\ [Next]_vars => (made <= Cardinality(Loaders))'
  <2> SUFFICES ASSUME IInv, made <= Cardinality(Loaders), [Next]_vars
               PROVE  made' <= Cardinality(Loaders)
    OBVIOUS
  <2>1. CASE made' = made
    BY <2>1
  <2>2. CASE made' # made
    <3>1. pool' = <<>>
      <4>1. CASE \E l \in Loaders : Open(l) \/ Close(l)
        BY <2>2, <4>1 DEF Open, Close
      <4>2. CASE UNCHANGED connections
        BY <2>2, <4>2 DEF connections
      <4>3. (\E l \in Loaders : Open(l) \/ Close(l)) \/ UNCHANGED connections
        BY DEF Next, vars, Request, Cancel, Import, Purge, Clear, CreateRef, Change, Step,
               Start, LookUp, Make, Scale, Save, Store, Answer, Direct, Raw, storeRest
      <4> QED
        BY <4>1, <4>2, <4>3
    <3>2. PoolOK'
      BY Inductive DEF IInv
    <3>3. (PoolOK /\ pool = <<>> => made <= Cardinality(Loaders))'
      BY AllInUse, PTL
    <3> QED
      BY <3>1, <3>2, <3>3
  <2> QED
    BY <2>1, <2>2
<1> QED
  BY <1>1, <1>2, Invariant, PTL DEF Spec

\* The type invariant, for any loaders: with it, SQLiteConnectionPool never makes more
\* connections than there are threads, and makeThumbnail never leaves the sizes.
THEOREM TypesCorrect == Spec => []TypeOK
<1>1. IInv /\ DInv /\ made <= Cardinality(Loaders) => TypeOK
  <2> SUFFICES ASSUME IInv, DInv, made <= Cardinality(Loaders) PROVE TypeOK
    OBVIOUS
  <2>1. Cardinality(Loaders) \in Nat
    BY LoadersAssumption, FS_CardinalityType
  <2>2. made \in 0..Cardinality(Loaders)
    BY <2>1 DEF IInv, PoolOK
  <2>3. conn \in [Loaders -> 0..made] /\ pool \in Seq(1..made)
    BY DEF IInv, PoolOK
  <2>4. /\ want \in [Loaders -> 0..Largest] /\ at \in [Loaders -> 0..Largest]
        /\ pc \in [Loaders -> {"idle", "start", "lookup", "make", "scale", "save", "store",
                               "return", "direct", "raw", "finished"}]
    BY DEF IInv, LoadersOK, Places, Connected
  <2> QED
    BY <2>2, <2>3, <2>4 DEF DInv, DataTypes, TypeOK
<1> QED
  BY <1>1, Invariant, DataInvariant, MadeBounded, PTL

\* Also when ids are given away again: what requestImage answers is an image its id has
\* had, and a blank answer has a reason.
THEOREM AnswersAlwaysShow == Spec => []AnswersShow
<1>1. DInv => AnswersShow
  BY DEF DInv, LoadsOK, LoadOK, AnswersShow, Good
<1> QED
  BY <1>1, DataInvariant, PTL

\* While no id is given away again, requestImage answers with an image that its id has
\* had since the request, however thumbnails are made, stored and cleared meanwhile.
THEOREM AnswersStayRight ==
  ASSUME ~Reuse
  PROVE  Spec => []AnswersRight
<1>1. DInv => AnswersShow
  BY DEF DInv, LoadsOK, LoadOK, AnswersShow, Good
<1>2. IInv /\ DInv /\ Sized => AnswersFresh
  <2> SUFFICES ASSUME IInv, DInv, Sized, NEW l \in Loaders, pc[l] = "finished",
                      input[l] # None, None \notin seen[l]
               PROVE  input[l] \in seen[l]
    BY DEF AnswersFresh
  <2>1. /\ id[l] \in Ids /\ input[l] \in Good(id[l]) /\ store[id[l]] \in seen[l]
        /\ seen[l] \subseteq past[id[l]] \cup {None}
    BY DEF DInv, DataTypes, LoadsOK, LoadOK
  <2>2. store[id[l]] \in past[id[l]] /\ input[l] \in past[id[l]]
    BY <2>1 DEF Good
  <2>3. input[l] = store[id[l]]
    BY <2>1, <2>2 DEF Sized, OnePicture
  <2> QED
    BY <2>1, <2>3
<1>3. Spec => []Sized
  BY SizedInvariant
<1> QED
  BY <1>1, <1>2, <1>3, Invariant, DataInvariant, PTL DEF AnswersRight

\* While no id is given away again, makeThumbnail stores only pictures its id has had,
\* and never at a size they would have to be enlarged to.
THEOREM ThumbnailsStayOwn ==
  ASSUME ~Reuse
  PROVE  Spec => []ThumbnailsOwn
<1>1. DInv /\ Sized => ThumbnailsOwn
  BY Distinct DEF DInv, TablesOwn, Sized, ThumbsSmaller, ThumbnailsOwn, Good
<1>2. Spec => []Sized
  BY SizedInvariant
<1> QED
  BY <1>1, <1>2, DataInvariant, PTL
================================================================================
