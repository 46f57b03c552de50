------------------------------- MODULE Duplicates -------------------------------
(***************************************************************************)
(* findAllDuplicates: the images are gathered by perceptual hash, hashes   *)
(* at most a distance apart are put into one cluster, and the images of    *)
(* every cluster are listed.  Which hashes are near is any graph: with     *)
(* three bits per hash, one of them shared for every edge, and a distance  *)
(* of 4, every graph on four hashes is one.                                *)
(***************************************************************************)
EXTENDS Naturals, FiniteSets, Sequences

CONSTANTS Hashes,     \* perceptual hashes
          NoCluster,  \* a hash that is in no cluster
          MaxImages   \* bound on the images searched

ASSUME DuplicatesAssumption == /\ IsFiniteSet(Hashes) /\ MaxImages \in Nat
                               /\ NoCluster \notin Nat

VARIABLES
  phash,      \* the hash of each image, in the order of the list searched
  near,       \* the pairs of hashes at most maxDistance apart
  pc,         \* "collect", "compare" or "list"
  i, j,       \* the loop variables
  hashList,   \* the hashes seen, without duplicates
  irefLookup, \* hash -> the images that have it
  hashToCluster,
  clusters,   \* cluster -> its hashes, <<>> if there is no such cluster
  nextClusterId,
  unlisted,   \* the clusters still to be listed
  output      \* the images listed

given == <<phash, near>>
clustering == <<hashToCluster, clusters, nextClusterId>>
vars == <<given, pc, i, j, hashList, irefLookup, clustering, unlisted, output>>

ClusterIds == 0..Cardinality(Hashes)
Pairs == {{h, k} : h, k \in Hashes} \ {{h} : h \in Hashes}

Init == /\ phash \in UNION {[1..n -> Hashes] : n \in 0..MaxImages}
        /\ near \in SUBSET Pairs
        /\ pc = "collect" /\ i = 1 /\ j = 2
        /\ hashList = <<>> /\ irefLookup = [h \in Hashes |-> <<>>]
        /\ hashToCluster = [h \in Hashes |-> NoCluster]
        /\ clusters = [c \in ClusterIds |-> <<>>] /\ nextClusterId = 0
        /\ unlisted = {} /\ output = <<>>
--------------------------------------------------------------------------------
\* The hashes hs make up a new cluster.
NewCluster(hs) ==
  /\ clusters' = [clusters EXCEPT ![nextClusterId] = hs]
  /\ hashToCluster' = [h \in Hashes |-> IF \E n \in DOMAIN hs : hs[n] = h
                                        THEN nextClusterId ELSE hashToCluster[h]]
  /\ nextClusterId' = nextClusterId + 1

Put(h, c) == /\ clusters' = [clusters EXCEPT ![c] = Append(@, h)]
             /\ hashToCluster' = [hashToCluster EXCEPT ![h] = c]
             /\ UNCHANGED nextClusterId

\* Merging that moves only the hash it came upon.
MergeOne(c, d) ==
  /\ clusters' = [clusters EXCEPT ![c] = Append(@, hashList[j]),
                                  ![d] = SelectSeq(@, LAMBDA h : h # hashList[j])]
  /\ hashToCluster' = [hashToCluster EXCEPT ![hashList[j]] = c]
  /\ UNCHANGED nextClusterId

\* All hashes of cluster d go to cluster c, and d is erased.
Merge(c, d) ==
  /\ clusters' = [clusters EXCEPT ![c] = @ \o clusters[d], ![d] = <<>>]
  /\ hashToCluster' = [h \in Hashes |-> IF \E n \in DOMAIN clusters[d] : clusters[d][n] = h
                                        THEN c ELSE hashToCluster[h]]
  /\ UNCHANGED nextClusterId

\* Gathering that makes a cluster for every image with a known hash.
CollectEachTime ==
  /\ pc = "collect" /\ i <= Len(phash)
  /\ irefLookup' = [irefLookup EXCEPT ![phash[i]] = Append(@, i)]
  /\ hashList' = IF irefLookup[phash[i]] = <<>> THEN Append(hashList, phash[i]) ELSE hashList
  /\ IF irefLookup[phash[i]] # <<>> THEN NewCluster(<<phash[i]>>) ELSE UNCHANGED clustering
  /\ i' = i + 1
  /\ UNCHANGED <<given, pc, j, unlisted, output>>

\* Gathering that makes no clusters.
CollectNoCluster ==
  /\ pc = "collect" /\ i <= Len(phash)
  /\ irefLookup' = [irefLookup EXCEPT ![phash[i]] = Append(@, i)]
  /\ hashList' = IF irefLookup[phash[i]] = <<>> THEN Append(hashList, phash[i]) ELSE hashList
  /\ i' = i + 1
  /\ UNCHANGED <<given, pc, j, clustering, unlisted, output>>

\* The image is the first with its hash, or it joins the others; a hash that two
\* images have is a cluster of its own.
Collect ==
  /\ pc = "collect" /\ i <= Len(phash)
  /\ LET h == phash[i] IN
       /\ irefLookup' = [irefLookup EXCEPT ![h] = Append(@, i)]
       /\ hashList' = IF irefLookup[h] = <<>> THEN Append(hashList, h) ELSE hashList
       /\ IF irefLookup[h] # <<>> /\ hashToCluster[h] = NoCluster
          THEN NewCluster(<<h>>) ELSE UNCHANGED clustering
  /\ i' = i + 1
  /\ UNCHANGED <<given, pc, j, unlisted, output>>

StartCompare == /\ pc = "collect" /\ i > Len(phash)
                /\ pc' = "compare" /\ i' = 1 /\ j' = 2
                /\ UNCHANGED <<given, hashList, irefLookup, clustering, unlisted, output>>

\* The body of the two loops of findClusters, for two hashes near each other.
Cluster(h, k) ==
  LET c == hashToCluster[h]
      d == hashToCluster[k]
  IN  \/ c = NoCluster /\ d = NoCluster /\ NewCluster(<<h, k>>)
      \/ c = NoCluster /\ d # NoCluster /\ Put(h, d)
      \/ c # NoCluster /\ d = NoCluster /\ Put(k, c)
      \/ c # NoCluster /\ d # NoCluster /\ c # d /\ Merge(c, d)
      \/ c # NoCluster /\ c = d /\ UNCHANGED clustering

Compare ==
  /\ pc = "compare" /\ j <= Len(hashList)
  /\ IF {hashList[i], hashList[j]} \in near THEN Cluster(hashList[i], hashList[j])
     ELSE UNCHANGED clustering
  /\ IF j < Len(hashList) THEN j' = j + 1 /\ i' = i ELSE i' = i + 1 /\ j' = i + 2
  /\ UNCHANGED <<given, pc, hashList, irefLookup, unlisted, output>>

StartList == /\ pc = "compare" /\ j > Len(hashList)
             /\ pc' = "list"
             /\ unlisted' = {c \in ClusterIds : clusters[c] # <<>>}
             /\ UNCHANGED <<given, i, j, hashList, irefLookup, clustering, output>>

\* The images of the hashes hs, hash by hash.
ImagesOf(hs) == LET images[n \in 0..Len(hs)] ==
                      IF n = 0 THEN <<>> ELSE images[n - 1] \o irefLookup[hs[n]]
                IN  images[Len(hs)]

\* List a cluster; an unordered_map hands them out in any order.
List(c) == /\ pc = "list" /\ c \in unlisted
           /\ output' = output \o ImagesOf(clusters[c])
           /\ unlisted' = unlisted \ {c}
           /\ UNCHANGED <<given, pc, i, j, hashList, irefLookup, clustering>>

Next == \/ Collect \/ StartCompare \/ Compare \/ StartList
        \/ \E c \in ClusterIds : List(c)

Spec == Init /\ [][Next]_vars
--------------------------------------------------------------------------------
Elements(s) == {s[n] : n \in DOMAIN s}

TypeOK == /\ phash \in Seq(Hashes) /\ near \subseteq Pairs
          /\ pc \in {"collect", "compare", "list"} /\ i \in Nat /\ j \in Nat
          /\ hashList \in Seq(Hashes) /\ irefLookup \in [Hashes -> Seq(DOMAIN phash)]
          /\ hashToCluster \in [Hashes -> ClusterIds \cup {NoCluster}]
          /\ clusters \in [ClusterIds -> Seq(Hashes)]
          /\ nextClusterId \in 0..Cardinality({h \in Hashes : hashToCluster[h] # NoCluster})
          /\ unlisted \subseteq ClusterIds /\ output \in Seq(DOMAIN phash)

\* "Each hash belongs to at most one cluster" and "Each cluster consists of a number
\* of (unique) hashes": the two maps say the same, and no cluster has a hash twice.
ClustersPartition ==
  \A c \in ClusterIds :
    /\ Elements(clusters[c]) = {h \in Hashes : hashToCluster[h] = c}
    /\ Len(clusters[c]) = Cardinality(Elements(clusters[c]))

\* Two hashes are connected by the edges E if every set closed under E that has one
\* of them has the other.
Connected(E, h, k) ==
  \A S \in SUBSET Hashes :
    h \in S /\ (\A e \in E : e \cap S # {} => e \subseteq S) => k \in S

\* The near pairs that findClusters has compared.
Compared == IF pc = "collect" THEN {}
            ELSE {e \in near : \E a, b \in DOMAIN hashList :
                    /\ a < b /\ e = {hashList[a], hashList[b]}
                    /\ a < i \/ (a = i /\ b < j)}

\* A hash is in a cluster as soon as two images have it or a near one has been
\* met, and two hashes are in one cluster just when near pairs connect them:
\* however the pairs come, clusters that belong together are merged, and the maps
\* from cluster to hashes and back stay inverse to each other (findClusters).
ClustersAreComponents ==
  /\ ClustersPartition
  /\ \A h \in Hashes :
       /\ hashToCluster[h] # NoCluster
            <=> Len(irefLookup[h]) > 1 \/ \E e \in Compared : h \in e
       /\ \A k \in Hashes :
            hashToCluster[h] # NoCluster /\ hashToCluster[k] # NoCluster
              => (hashToCluster[h] = hashToCluster[k] <=> Connected(Compared, h, k))

\* What "Find duplicates" promises: the images that are alike are listed side by
\* side, each once, and no image without a counterpart is listed.
Alike(m, n) == phash[m] = phash[n] \/ {phash[m], phash[n]} \in near
Listed == /\ \A m, n \in DOMAIN output : m # n => output[m] # output[n]
          /\ Elements(output) = {m \in DOMAIN phash :
                                   \E n \in DOMAIN phash \ {m} : Alike(m, n)}
          /\ \A a, b, c \in DOMAIN output :
               a < b /\ b < c /\ Connected(Compared, phash[output[a]], phash[output[c]])
                 => Connected(Compared, phash[output[a]], phash[output[b]])
ListsDuplicates == pc = "list" /\ unlisted = {} => Listed
==================================================================================
