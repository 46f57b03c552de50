----------------------------- MODULE DownloadsProofs -----------------------------
(***************************************************************************)
(* Proofs about downloads, for any URLs, files, and numbers of drops and   *)
(* restarts: each step of Downloads is a step of Imports or none.          *)
(***************************************************************************)
EXTENDS Downloads, WellFoundedInduction, TLAPS
--------------------------------------------------------------------------------
(* Where redirects lead. *)

Closed(w, S) == \A x \in S : w[x] \in Urls => w[x] \in S

LEMMA ReachedIs ==
  ASSUME NEW w, NEW u \in Urls
  PROVE  /\ Reached(w, u) \in SUBSET Urls /\ u \in Reached(w, u) /\ Closed(w, Reached(w, u))
         /\ \A S \in SUBSET Urls : u \in S /\ Closed(w, S) => Reached(w, u) \subseteq S
<1>1. Reached(w, u) = {v \in Urls : \A S \in SUBSET Urls : u \in S /\ Closed(w, S) => v \in S}
  BY Zenon DEF Reached, Closed
<1>2. u \in Reached(w, u)
  BY <1>1
<1>3. Closed(w, Reached(w, u))
  <2> SUFFICES ASSUME NEW x \in Reached(w, u), w[x] \in Urls,
                      NEW S \in SUBSET Urls, u \in S, Closed(w, S)
               PROVE  w[x] \in S
    BY <1>1 DEF Closed
  <2>1. x \in S
    BY <1>1
  <2> QED
    BY <2>1 DEF Closed
<1> QED
  BY <1>1, <1>2, <1>3

\* What the answers to the URLs S are, but for redirects.
EndsOf(w, S) == {w[v] : v \in S} \ Urls

LEMMA EndOfIs ==
  ASSUME NEW w, NEW u, NEW ends, ends = EndsOf(w, Reached(w, u))
  PROVE  EndOf(w, u) = IF ends = {} THEN "endless" ELSE CHOOSE end \in ends : TRUE
  BY DEF EndOf, EndsOf

LEMMA EndFound ==
  ASSUME NEW w, NEW u \in Urls, w[u] \notin Urls
  PROVE  EndOf(w, u) = w[u]
<1>1. Closed(w, {u})
  BY DEF Closed
<1>2. Reached(w, u) = {u}
  BY <1>1, ReachedIs
<1>3. EndsOf(w, Reached(w, u)) = {w[u]}
  BY <1>2 DEF EndsOf
<1> QED
  BY <1>3, EndOfIs

LEMMA EndFollowed ==
  ASSUME NEW w, NEW u \in Urls, w[u] \in Urls
  PROVE  EndOf(w, u) = EndOf(w, w[u])
<1>1. PICK v \in Urls : v = w[u]
  OBVIOUS
<1>2. /\ Reached(w, u) \in SUBSET Urls /\ u \in Reached(w, u) /\ Closed(w, Reached(w, u))
      /\ \A S \in SUBSET Urls : u \in S /\ Closed(w, S) => Reached(w, u) \subseteq S
  BY ReachedIs
<1>3. /\ Reached(w, v) \in SUBSET Urls /\ v \in Reached(w, v) /\ Closed(w, Reached(w, v))
      /\ \A S \in SUBSET Urls : v \in S /\ Closed(w, S) => Reached(w, v) \subseteq S
  BY ReachedIs
<1>4. Closed(w, Reached(w, v) \cup {u})
  BY <1>1, <1>3 DEF Closed
<1>5. v \in Reached(w, u)
  BY <1>1, <1>2 DEF Closed
<1>6. Reached(w, u) = Reached(w, v) \cup {u}
  <2>1. Reached(w, u) \subseteq Reached(w, v) \cup {u}
    BY <1>2, <1>3, <1>4
  <2>2. Reached(w, v) \subseteq Reached(w, u)
    BY <1>2, <1>3, <1>5
  <2> QED
    BY <1>2, <2>1, <2>2
<1>7. PICK ends : ends = EndsOf(w, Reached(w, v))
  OBVIOUS
<1>8. EndsOf(w, Reached(w, u)) = ends
  BY <1>1, <1>6, <1>7 DEF EndsOf
<1> QED
  BY <1>1, <1>7, <1>8, EndOfIs

LEMMA EndIsEnd ==
  ASSUME NEW w \in [Urls -> Answers], NEW u \in Urls
  PROVE  EndOf(w, u) \in Files \cup {"error", "endless"}
<1>1. PICK ends : ends = EndsOf(w, Reached(w, u))
  OBVIOUS
<1>2. ends \subseteq Files \cup {"error"}
  <2>1. Reached(w, u) \subseteq Urls
    BY DEF Reached
  <2> QED
    BY <1>1, <2>1 DEF EndsOf, Answers
<1>3. CASE ends = {}
  BY <1>1, <1>3, EndOfIs
<1>4. CASE ends # {}
  <2>1. (CHOOSE end \in ends : TRUE) \in ends
    BY <1>4
  <2> QED
    BY <1>1, <1>2, <1>4, <2>1, EndOfIs
<1> QED
  BY <1>3, <1>4
--------------------------------------------------------------------------------
(* What is announced. *)

LEMMA IntervalInduction ==
  ASSUME NEW m \in Nat, NEW G, 0 \in G, \A n \in 1..m : n - 1 \in G => n \in G
  PROVE  \A n \in 0..m : n \in G
<1> SUFFICES ASSUME NEW k \in 0..m, k \notin G
             PROVE  FALSE
  OBVIOUS
<1> DEFINE B == {n \in 0..m : n \notin G}
<1>1. IsWellFoundedOn(OpToRel(<, Nat), Nat)
  BY NatLessThanWellFounded, Zenon
<1>2. B \subseteq Nat /\ B # {}
  OBVIOUS
<1> HIDE DEF B
<1>3. PICK x \in B : \A y \in B : ~ (<<y, x>> \in OpToRel(<, Nat))
  BY <1>1, <1>2, WFMin, Zenon
<1>4. x \in 0..m /\ x \notin G
  BY <1>3 DEF B
<1>5. x \in 1..m
  BY <1>4
<1>6. x - 1 \notin B
  <2>1. x \in Nat /\ x - 1 \in Nat /\ x - 1 < x
    BY <1>5
  <2> QED
    BY <1>3, <2>1 DEF OpToRel
<1>7. x - 1 \in G
  BY <1>5, <1>6 DEF B
<1> QED
  BY <1>4, <1>5, <1>7

\* c[n] is what is announced once n of the signals q are taken, from the view s on.
IsUpTo(c, q, s, m) ==
  /\ DOMAIN c = 0..m /\ c[0] = s
  /\ \A n \in 1..m : c[n] = IF q[n].sig = "writeComplete" THEN Append(c[n - 1], q[n].data)
                             ELSE c[n - 1]

\* The recursion of AnnouncedBy has a solution.
LEMMA UpToExists ==
  ASSUME NEW T, NEW q \in Seq(T), NEW s
  PROVE  \E c : c = [n \in 0..Len(q) |-> c[n]] /\ IsUpTo(c, q, s, Len(q))
<1> DEFINE G == {n \in 0..Len(q) : \E c : c = [k \in 0..n |-> c[k]] /\ IsUpTo(c, q, s, n)}
<1>1. Len(q) \in Nat
  OBVIOUS
<1>2. 0 \in G
  <2> DEFINE c == [k \in 0..0 |-> s]
  <2>1. c = [k \in 0..0 |-> c[k]] /\ IsUpTo(c, q, s, 0)
    BY DEF IsUpTo
  <2> HIDE DEF c
  <2> QED
    BY <1>1, <2>1
<1>3. ASSUME NEW n \in 1..Len(q), n - 1 \in G
      PROVE  n \in G
  <2>1. PICK c : c = [k \in 0..(n - 1) |-> c[k]] /\ IsUpTo(c, q, s, n - 1)
    BY <1>3
  <2> DEFINE d == [k \in 0..n |->
                     IF k = n THEN IF q[n].sig = "writeComplete" THEN Append(c[n - 1], q[n].data)
                                   ELSE c[n - 1]
                     ELSE c[k]]
  <2>2. /\ DOMAIN d = 0..n /\ d[n] = IF q[n].sig = "writeComplete" THEN Append(c[n - 1], q[n].data)
                                     ELSE c[n - 1]
        /\ \A k \in 0..(n - 1) : d[k] = c[k]
    BY <1>1
  <2>3. d = [k \in 0..n |-> d[k]]
    OBVIOUS
  <2> HIDE DEF d
  <2>4. d[0] = s
    <3>1. 0 \in 0..(n - 1)
      BY <1>1
    <3>2. c[0] = s
      BY <2>1 DEF IsUpTo
    <3> QED
      BY <2>2, <3>1, <3>2
  <2>5. ASSUME NEW k \in 1..n
        PROVE  d[k] = IF q[k].sig = "writeComplete" THEN Append(d[k - 1], q[k].data)
                      ELSE d[k - 1]
    <3>1. k - 1 \in 0..(n - 1) /\ d[k - 1] = c[k - 1]
      BY <1>1, <2>2
    <3>2. CASE k = n
      BY <2>2, <3>1, <3>2
    <3>3. CASE k # n
      <4>1. k \in 1..(n - 1) /\ k \in 0..(n - 1)
        BY <1>1, <3>3
      <4> QED
        BY <2>1, <2>2, <3>1, <4>1 DEF IsUpTo
    <3> QED
      BY <3>2, <3>3
  <2>6. IsUpTo(d, q, s, n)
    BY <2>2, <2>4, <2>5 DEF IsUpTo
  <2> QED
    BY <1>1, <2>3, <2>6
<1>4. Len(q) \in 0..Len(q)
  BY <1>1
<1> HIDE DEF G
<1>5. Len(q) \in G
  BY <1>1, <1>2, <1>3, <1>4, IntervalInduction
<1> QED
  BY <1>5 DEF G

LEMMA AnnouncedUpTo ==
  ASSUME NEW T, NEW q \in Seq(T), NEW s
  PROVE  \E c : IsUpTo(c, q, s, Len(q)) /\ AnnouncedBy(q, s) = c[Len(q)]
<1> DEFINE upTo[n \in 0..Len(q)] == IF n = 0 THEN s
                                      ELSE IF q[n].sig = "writeComplete"
                                           THEN Append(upTo[n - 1], q[n].data)
                                      ELSE upTo[n - 1]
<1>1. AnnouncedBy(q, s) = upTo[Len(q)]
  BY DEF AnnouncedBy
<1>2. Len(q) \in Nat
  OBVIOUS
<1>3. PICK c : c = [n \in 0..Len(q) |-> c[n]] /\ IsUpTo(c, q, s, Len(q))
  BY UpToExists
<1>4. c = [n \in 0..Len(q) |-> IF n = 0 THEN s
                               ELSE IF q[n].sig = "writeComplete"
                                    THEN Append(c[n - 1], q[n].data)
                               ELSE c[n - 1]]
  <2>1. ASSUME NEW n \in 0..Len(q)
        PROVE  c[n] = IF n = 0 THEN s
                      ELSE IF q[n].sig = "writeComplete" THEN Append(c[n - 1], q[n].data)
                           ELSE c[n - 1]
    <3>1. CASE n = 0
      BY <1>3, <3>1 DEF IsUpTo
    <3>2. CASE n # 0
      <4>1. n \in 1..Len(q)
        BY <1>2, <3>2
      <4>2. c[n] = IF q[n].sig = "writeComplete" THEN Append(c[n - 1], q[n].data)
                   ELSE c[n - 1]
        BY <1>3, <4>1, Zenon DEF IsUpTo
      <4> QED
        BY <3>2, <4>2, Zenon
    <3> QED
      BY <3>1, <3>2
  <2> QED
    BY <1>3, <2>1
<1>5. upTo = [n \in 0..Len(q) |-> IF n = 0 THEN s
                                    ELSE IF q[n].sig = "writeComplete"
                                         THEN Append(upTo[n - 1], q[n].data)
                                    ELSE upTo[n - 1]]
  BY <1>4, Zenon
<1> HIDE DEF upTo
<1>6. IsUpTo(upTo, q, s, Len(q))
  <2>1. DOMAIN upTo = 0..Len(q) /\ upTo[0] = s
    BY <1>2, <1>5
  <2>2. ASSUME NEW n \in 1..Len(q)
        PROVE  upTo[n] = IF q[n].sig = "writeComplete" THEN Append(upTo[n - 1], q[n].data)
                         ELSE upTo[n - 1]
    <3>1. n \in 0..Len(q) /\ n # 0
      BY <1>2
    <3> QED
      BY <1>5, <3>1
  <2> QED
    BY <2>1, <2>2 DEF IsUpTo
<1> QED
  BY <1>1, <1>6

LEMMA Appended ==
  ASSUME NEW S, NEW q \in Seq(S), NEW x \in S
  PROVE  /\ Append(q, x) \in Seq(S) /\ Len(Append(q, x)) = Len(q) + 1 /\ Len(q) \in Nat
         /\ DOMAIN q = 1..Len(q) /\ DOMAIN Append(q, x) = 1..(Len(q) + 1)
         /\ Append(q, x)[Len(q) + 1] = x
         /\ \A i \in 1..Len(q) : Append(q, x)[i] = q[i]
  OBVIOUS

LEMMA Taken ==
  ASSUME NEW S, NEW q \in Seq(S), q # <<>>
  PROVE  /\ Tail(q) \in Seq(S) /\ Len(q) \in Nat \ {0} /\ Len(Tail(q)) = Len(q) - 1
         /\ DOMAIN q = 1..Len(q) /\ DOMAIN Tail(q) = 1..(Len(q) - 1)
         /\ Head(q) = q[1] /\ Head(q) \in S
         /\ \A i \in 1..(Len(q) - 1) : Tail(q)[i] = q[i + 1]
  OBVIOUS

\* What one signal adds to what is announced.
Adds(a, x) == IF x.sig = "writeComplete" THEN Append(a, x.data) ELSE a

LEMMA UpToByAdds ==
  ASSUME NEW c, NEW q, NEW s, NEW m, IsUpTo(c, q, s, m)
  PROVE  c[0] = s /\ \A n \in 1..m : c[n] = Adds(c[n - 1], q[n])
  BY Zenon DEF IsUpTo, Adds

LEMMA NoneAnnounced ==
  ASSUME NEW s
  PROVE  AnnouncedBy(<<>>, s) = s
<1>1. PICK q : q = <<>>
  OBVIOUS
<1>2. q \in Seq({}) /\ Len(q) = 0
  BY <1>1
<1>3. PICK c : IsUpTo(c, q, s, Len(q)) /\ AnnouncedBy(q, s) = c[Len(q)]
  BY <1>2, AnnouncedUpTo
<1> QED
  BY <1>1, <1>2, <1>3, UpToByAdds

LEMMA SignalAppended ==
  ASSUME NEW T, NEW q \in Seq(T), NEW x \in T, NEW s
  PROVE  AnnouncedBy(Append(q, x), s) = Adds(AnnouncedBy(q, s), x)
<1>1. PICK r : r = Append(q, x)
  OBVIOUS
<1>2. /\ r \in Seq(T) /\ Len(r) = Len(q) + 1 /\ Len(q) \in Nat
      /\ r[Len(q) + 1] = x /\ \A i \in 1..Len(q) : r[i] = q[i]
  BY <1>1, Appended
<1>3. PICK c : IsUpTo(c, q, s, Len(q)) /\ AnnouncedBy(q, s) = c[Len(q)]
  BY AnnouncedUpTo
<1>4. PICK d : IsUpTo(d, r, s, Len(r)) /\ AnnouncedBy(r, s) = d[Len(r)]
  BY <1>2, AnnouncedUpTo
<1>5. /\ c[0] = s /\ \A n \in 1..Len(q) : c[n] = Adds(c[n - 1], q[n])
      /\ d[0] = s /\ \A n \in 1..Len(r) : d[n] = Adds(d[n - 1], r[n])
  BY <1>3, <1>4, UpToByAdds
<1> DEFINE G == {n \in 0..Len(q) : d[n] = c[n]}
<1>6. 0 \in G
  BY <1>2, <1>5
<1>7. ASSUME NEW n \in 1..Len(q), n - 1 \in G PROVE n \in G
  <2>1. d[n - 1] = c[n - 1] /\ n \in 1..Len(r) /\ n \in 0..Len(q) /\ r[n] = q[n]
    BY <1>2, <1>7
  <2>2. d[n] = Adds(d[n - 1], r[n]) /\ c[n] = Adds(c[n - 1], q[n])
    BY <1>5, <2>1
  <2> QED
    BY <2>1, <2>2
<1> HIDE DEF G
<1>8. Len(q) \in G
  <2>1. Len(q) \in 0..Len(q)
    BY <1>2
  <2> QED
    BY <1>2, <1>6, <1>7, <2>1, IntervalInduction
<1>9. d[Len(q)] = c[Len(q)]
  BY <1>8 DEF G
<1>10. Len(r) \in 1..Len(r) /\ Len(r) - 1 = Len(q) /\ r[Len(r)] = x
  BY <1>2
<1>11. d[Len(r)] = Adds(d[Len(q)], x)
  BY <1>5, <1>10
<1> QED
  BY <1>1, <1>3, <1>4, <1>9, <1>11

LEMMA SignalTaken ==
  ASSUME NEW T, NEW q \in Seq(T), q # <<>>, NEW s
  PROVE  AnnouncedBy(Tail(q), Adds(s, Head(q))) = AnnouncedBy(q, s)
<1>1. PICK r, t : r = Tail(q) /\ t = Adds(s, Head(q))
  OBVIOUS
<1>2. /\ r \in Seq(T) /\ Len(q) \in Nat \ {0} /\ Len(r) = Len(q) - 1 /\ Head(q) = q[1]
      /\ \A i \in 1..Len(r) : r[i] = q[i + 1]
  BY <1>1, Taken
<1>3. PICK c : IsUpTo(c, q, s, Len(q)) /\ AnnouncedBy(q, s) = c[Len(q)]
  BY AnnouncedUpTo
<1>4. PICK d : IsUpTo(d, r, t, Len(r)) /\ AnnouncedBy(r, t) = d[Len(r)]
  BY <1>2, AnnouncedUpTo
<1>5. /\ c[0] = s /\ \A n \in 1..Len(q) : c[n] = Adds(c[n - 1], q[n])
      /\ d[0] = t /\ \A n \in 1..Len(r) : d[n] = Adds(d[n - 1], r[n])
  BY <1>3, <1>4, UpToByAdds
<1> DEFINE G == {n \in 0..Len(r) : d[n] = c[n + 1]}
<1>6. 0 \in G
  <2>1. 1 \in 1..Len(q) /\ 0 \in 0..Len(r)
    BY <1>2
  <2>2. c[1] = Adds(c[1 - 1], q[1]) /\ 1 - 1 = 0 /\ 0 + 1 = 1
    BY <1>5, <2>1
  <2>3. c[0 + 1] = t
    BY <1>1, <1>2, <1>5, <2>2
  <2> QED
    BY <1>5, <2>1, <2>3
<1>7. ASSUME NEW n \in 1..Len(r), n - 1 \in G PROVE n \in G
  <2>1. /\ d[n - 1] = c[(n - 1) + 1] /\ (n - 1) + 1 = n /\ (n + 1) - 1 = n
        /\ n + 1 \in 1..Len(q) /\ n \in 0..Len(r) /\ r[n] = q[n + 1]
    BY <1>2, <1>7
  <2>2. d[n] = Adds(d[n - 1], r[n]) /\ c[n + 1] = Adds(c[(n + 1) - 1], q[n + 1])
    BY <1>5, <2>1
  <2> QED
    BY <2>1, <2>2
<1> HIDE DEF G
<1>8. Len(r) \in G
  <2>1. Len(r) \in 0..Len(r) /\ Len(r) \in Nat
    BY <1>2
  <2> QED
    BY <1>6, <1>7, <2>1, IntervalInduction
<1>9. d[Len(r)] = c[Len(r) + 1] /\ Len(r) + 1 = Len(q)
  BY <1>2, <1>8 DEF G
<1> QED
  BY <1>1, <1>3, <1>4, <1>9
--------------------------------------------------------------------------------
(* The drops in a queue. *)

\* The records at the places I of s are of different drops.
Distinct(s, I) == \A i, j \in I : s[i].of = s[j].of => i = j
OfAt(s, I) == {s[i].of : i \in I}

\* t is s with x behind, at place n; it may be counted with those at the places I.
PutsBehind(s, x, t, I, n) ==
  /\ Distinct(t, I) /\ OfAt(t, I) = OfAt(s, I)
  /\ x.of \notin OfAt(s, I) => Distinct(t, I \cup {n})
  /\ OfAt(t, I \cup {n}) = OfAt(s, I) \cup {x.of}

LEMMA PutBehind ==
  ASSUME NEW T, NEW s \in Seq(T), NEW x \in T, NEW t, t = Append(s, x),
         NEW I, I \subseteq DOMAIN s, Distinct(s, I), NEW n, n = Len(s) + 1
  PROVE  PutsBehind(s, x, t, I, n)
<1>2. t[n] = x /\ n \notin I /\ \A i \in I : t[i] = s[i]
  BY Appended
<1>3. Distinct(t, I) /\ OfAt(t, I) = OfAt(s, I)
  BY <1>2 DEF Distinct, OfAt
<1>4. ASSUME x.of \notin OfAt(s, I) PROVE Distinct(t, I \cup {n})
  <2>1. \A i \in I : s[i].of # x.of
    BY <1>4 DEF OfAt
  <2>2. \A i \in I : t[i].of # t[n].of
    BY <1>2, <2>1
  <2> QED
    BY <1>3, <2>2, Zenon DEF Distinct
<1>5. OfAt(t, I \cup {n}) = OfAt(s, I) \cup {x.of}
  BY <1>2 DEF OfAt
<1> QED
  BY <1>3, <1>4, <1>5 DEF PutsBehind

\* The places in t of what is at I before the first is taken; t is s without its first.
After(t, I) == {j \in DOMAIN t : j + 1 \in I}
TakesOff(s, t, I) ==
  /\ Distinct(t, After(t, I)) /\ OfAt(t, After(t, I)) = OfAt(s, I \ {1})
  /\ 1 \in I => OfAt(t, After(t, I)) = OfAt(s, I) \ {Head(s).of} /\ Head(s).of \in OfAt(s, I)

LEMMA TakenOff ==
  ASSUME NEW T, NEW s \in Seq(T), s # <<>>, NEW t, t = Tail(s),
         NEW I, I \subseteq DOMAIN s, Distinct(s, I)
  PROVE  TakesOff(s, t, I)
<1>0. PICK J : J = {j \in DOMAIN t : j + 1 \in I}
  OBVIOUS
<1>1. PICK n \in Nat : n = Len(s) /\ n # 0
  BY Taken
<1>2. /\ DOMAIN s = 1..n /\ DOMAIN t = 1..(n - 1) /\ Head(s) = s[1]
      /\ \A i \in 1..(n - 1) : t[i] = s[i + 1]
  BY <1>1, Taken
<1>3. /\ \A j \in J : j + 1 \in I \ {1} /\ t[j] = s[j + 1]
      /\ \A i \in I \ {1} : \E j \in J : i = j + 1
      /\ \A i, j \in J : i + 1 = j + 1 => i = j
  <2>1. \A j \in J : j \in 1..(n - 1) /\ j + 1 \in I /\ j + 1 # 1
    BY <1>0, <1>1, <1>2
  <2>2. ASSUME NEW i \in I \ {1} PROVE \E j \in J : i = j + 1
    <3>1. i \in 2..n
      BY <1>1, <1>2
    <3>2. i - 1 \in 1..(n - 1) /\ (i - 1) + 1 = i
      BY <1>1, <3>1
    <3> QED
      BY <1>0, <1>2, <3>2
  <2>3. \A j \in J : j \in Nat
    BY <2>1
  <2> QED
    BY <1>2, <2>1, <2>2, <2>3
<1>4. Distinct(t, J)
  <2> SUFFICES ASSUME NEW i \in J, NEW j \in J, t[i].of = t[j].of
               PROVE  i = j
    BY DEF Distinct
  <2>1. i + 1 \in I /\ j + 1 \in I /\ s[i + 1].of = s[j + 1].of
    BY <1>3
  <2>2. i + 1 = j + 1
    BY <2>1, Zenon DEF Distinct
  <2> QED
    BY <1>3, <2>2
<1>5. OfAt(t, J) = OfAt(s, I \ {1})
  <2>1. \A j \in J : t[j].of \in OfAt(s, I \ {1})
    BY <1>3, Zenon DEF OfAt
  <2>2. ASSUME NEW i \in I \ {1} PROVE s[i].of \in OfAt(t, J)
    <3>1. PICK j \in J : i = j + 1
      BY <1>3
    <3>2. s[i].of = t[j].of
      BY <1>3, <3>1
    <3> QED
      BY <3>2 DEF OfAt
  <2> QED
    BY <2>1, <2>2 DEF OfAt
<1>6. 1 \in I => OfAt(s, I \ {1}) = OfAt(s, I) \ {Head(s).of} /\ Head(s).of \in OfAt(s, I)
  BY <1>2 DEF OfAt, Distinct
<1> QED
  BY <1>0, <1>4, <1>5, <1>6 DEF TakesOff, After

\* The elements of t are among those of s, or x.
Among(t, s, x) == \A i \in DOMAIN t : t[i] = x \/ \E k \in DOMAIN s : t[i] = s[k]

LEMMA QueueTaken ==
  ASSUME NEW T, NEW s \in Seq(T), s # <<>>, Distinct(s, DOMAIN s), NEW t, t = Tail(s)
  PROVE  /\ t \in Seq(T) /\ Head(s) \in T /\ Distinct(t, DOMAIN t)
         /\ Of(t) = Of(s) \ {Head(s).of} /\ Head(s).of \in Of(s)
         /\ Among(t, s, Head(s)) /\ \E k \in DOMAIN s : Head(s) = s[k]
<1>1. PICK n \in Nat : n = Len(s) /\ n # 0
  BY Taken
<1>2. /\ t \in Seq(T) /\ DOMAIN s = 1..n /\ DOMAIN t = 1..(n - 1)
      /\ Head(s) = s[1] /\ Head(s) \in T
      /\ \A i \in 1..(n - 1) : t[i] = s[i + 1]
  BY <1>1, Taken
<1>3. 1 \in DOMAIN s /\ \A i \in DOMAIN t : i + 1 \in DOMAIN s
  BY <1>1, <1>2
<1>4. DOMAIN t = After(t, DOMAIN s)
  BY <1>3 DEF After
<1>5. /\ Distinct(t, DOMAIN t) /\ OfAt(t, DOMAIN t) = OfAt(s, DOMAIN s) \ {Head(s).of}
      /\ Head(s).of \in OfAt(s, DOMAIN s)
  <2>1. TakesOff(s, t, DOMAIN s)
    BY TakenOff, Zenon
  <2> QED
    BY <1>3, <1>4, <2>1 DEF TakesOff
<1>6. Among(t, s, Head(s))
  BY <1>2, <1>3 DEF Among
<1> QED
  BY <1>2, <1>3, <1>5, <1>6 DEF OfAt, Of

\* The queue t is s and then x.
PutsQueue(T, s, x, t) ==
  t \in Seq(T) /\ Distinct(t, DOMAIN t) /\ Of(t) = Of(s) \cup {x.of} /\ Among(t, s, x)

LEMMA QueuePut ==
  ASSUME NEW T, NEW s \in Seq(T), Distinct(s, DOMAIN s), NEW x \in T, x.of \notin Of(s),
         NEW t, t = Append(s, x)
  PROVE  PutsQueue(T, s, x, t)
<1>1. PICK n \in Nat : n = Len(s)
  BY Appended
<1>2. /\ t \in Seq(T) /\ DOMAIN s = 1..n /\ DOMAIN t = 1..(n + 1) /\ t[n + 1] = x
      /\ \A i \in 1..n : t[i] = s[i]
  BY <1>1, Appended
<1>3. DOMAIN t = DOMAIN s \cup {n + 1}
  BY <1>2
<1>4. /\ Distinct(t, DOMAIN t) /\ OfAt(t, DOMAIN t) = OfAt(s, DOMAIN s) \cup {x.of}
  <2>1. PutsBehind(s, x, t, DOMAIN s, n + 1)
    BY <1>1, PutBehind
  <2> QED
    BY <1>3, <2>1 DEF PutsBehind, OfAt, Of
<1>5. Among(t, s, x)
  BY <1>2, <1>3 DEF Among
<1> QED
  BY <1>2, <1>4, <1>5 DEF OfAt, Of, PutsQueue

\* What signals x is one of.
LEMMA SignalIs ==
  ASSUME NEW x \in Signals
  PROVE  /\ x.sig \in {"downloadComplete", "writeComplete"} /\ x.data \in Files
         /\ x.sig = "downloadComplete" => x.of \in Drops
  BY DEF Signals

\* The completed downloads of which the signals g tell.
Told(g) == OfAt(g, Completed(g))

\* The signals t are g without the first.
TakesSignal(g, t) ==
  /\ t \in Seq(Signals) /\ Head(g) \in Signals /\ Distinct(t, Completed(t))
  /\ Head(g).sig = "downloadComplete" =>
       /\ Told(t) = Told(g) \ {Head(g).of} /\ Head(g).of \in Told(g)
       /\ \E k \in Completed(g) : Head(g) = g[k]
  /\ Head(g).sig # "downloadComplete" => Told(t) = Told(g)
  /\ \A i \in Completed(t) : \E k \in Completed(g) : t[i] = g[k]

LEMMA SignalGone ==
  ASSUME NEW g \in Seq(Signals), g # <<>>, Distinct(g, Completed(g)), NEW t, t = Tail(g)
  PROVE  TakesSignal(g, t)
<1>1. PICK n \in Nat : n = Len(g) /\ n # 0
  BY Taken
<1>2. /\ t \in Seq(Signals) /\ DOMAIN g = 1..n /\ DOMAIN t = 1..(n - 1) /\ Head(g) = g[1]
      /\ Head(g) \in Signals /\ \A i \in 1..(n - 1) : t[i] = g[i + 1]
  BY <1>1, Taken
<1>3. 1 \in DOMAIN g /\ \A i \in DOMAIN t : i + 1 \in DOMAIN g /\ t[i] = g[i + 1]
  BY <1>1, <1>2
<1>4. Completed(t) = After(t, Completed(g))
  BY <1>3 DEF Completed, After
<1>5. /\ Completed(g) \subseteq DOMAIN g
      /\ 1 \in Completed(g) <=> Head(g).sig = "downloadComplete"
  BY <1>2, <1>3 DEF Completed
<1>6. /\ Distinct(t, Completed(t)) /\ OfAt(t, Completed(t)) = OfAt(g, Completed(g) \ {1})
      /\ 1 \in Completed(g) => /\ OfAt(t, Completed(t)) = OfAt(g, Completed(g)) \ {Head(g).of}
                               /\ Head(g).of \in OfAt(g, Completed(g))
  <2>1. TakesOff(g, t, Completed(g))
    BY <1>5, TakenOff, Zenon
  <2> QED
    BY <1>4, <2>1 DEF TakesOff
<1>7. 1 \notin Completed(g) => Completed(g) \ {1} = Completed(g)
  OBVIOUS
<1>8. \A i \in Completed(t) : \E k \in Completed(g) : t[i] = g[k]
  BY <1>3, <1>4 DEF After
<1> QED
  BY <1>2, <1>5, <1>6, <1>7, <1>8 DEF Told, TakesSignal

\* The signals t are g and then x.
PutsSignal(g, x, t) ==
  /\ t \in Seq(Signals) /\ Distinct(t, Completed(t))
  /\ Told(t) = IF x.sig = "downloadComplete" THEN Told(g) \cup {x.of} ELSE Told(g)
  /\ \A i \in Completed(t) : \/ t[i] = x /\ x.sig = "downloadComplete"
                             \/ \E k \in Completed(g) : t[i] = g[k]

LEMMA SignalPut ==
  ASSUME NEW g \in Seq(Signals), Distinct(g, Completed(g)), NEW x \in Signals,
         NEW t, t = Append(g, x), x.sig = "downloadComplete" => x.of \notin Told(g)
  PROVE  PutsSignal(g, x, t)
<1>1. PICK n \in Nat : n = Len(g)
  BY Appended
<1>2. /\ t \in Seq(Signals) /\ DOMAIN g = 1..n /\ DOMAIN t = 1..(n + 1) /\ t[n + 1] = x
      /\ \A i \in 1..n : t[i] = g[i]
  BY <1>1, Appended
<1>3. Completed(g) \subseteq DOMAIN g
  BY DEF Completed
<1>4. /\ Distinct(t, Completed(g)) /\ OfAt(t, Completed(g)) = OfAt(g, Completed(g))
      /\ x.of \notin OfAt(g, Completed(g)) => Distinct(t, Completed(g) \cup {n + 1})
      /\ OfAt(t, Completed(g) \cup {n + 1}) = OfAt(g, Completed(g)) \cup {x.of}
  <2>1. PutsBehind(g, x, t, Completed(g), n + 1)
    BY <1>1, <1>3, PutBehind
  <2> QED
    BY <2>1 DEF PutsBehind
<1>5. \A i \in Completed(g) : t[i] = g[i]
  BY <1>2, <1>3
<1>6. CASE x.sig = "downloadComplete"
  <2>1. Completed(t) = Completed(g) \cup {n + 1}
    BY <1>2, <1>6 DEF Completed
  <2> QED
    BY <1>2, <1>4, <1>5, <1>6, <2>1 DEF Told, PutsSignal
<1>7. CASE x.sig # "downloadComplete"
  <2>1. Completed(t) = Completed(g)
    BY <1>2, <1>7 DEF Completed
  <2> QED
    BY <1>2, <1>4, <1>5, <1>7, <2>1 DEF Told, PutsSignal
<1> QED
  BY <1>6, <1>7
--------------------------------------------------------------------------------
(* What is on its way: in the queues a of the download thread, g of the GUI thread and b *)
(* of the write thread, and in the requests u; w is the web, and ds are the drops.       *)

Numbers(S) == {f.of : f \in S}
OnWay(a, u, g, b) == Of(a) \cup Numbers(u) \cup Of(b) \cup Told(g)

\* No drop is in two places.
Apart(A, U, G, B) == /\ A \cap U = {} /\ A \cap G = {} /\ A \cap B = {}
                     /\ U \cap G = {} /\ U \cap B = {} /\ G \cap B = {}
Once(a, u, g, b) == /\ Distinct(a, DOMAIN a) /\ Distinct(g, Completed(g)) /\ Distinct(b, DOMAIN b)
                    /\ \A f, h \in u : f.of = h.of => f = h
                    /\ Apart(Of(a), Numbers(u), Told(g), Of(b))

\* What is on its way for a drop leads to, or is, what the URL dropped leads to.
FetchTrue(w, ds, f) == EndOf(w, f.url) = EndOf(w, ds[f.of])
DataTrue(w, ds, x) == x.data = EndOf(w, ds[x.of])
Faithful(w, ds, a, u, g, b) == /\ \A i \in DOMAIN a : FetchTrue(w, ds, a[i])
                               /\ \A f \in u : FetchTrue(w, ds, f)
                               /\ \A i \in Completed(g) : DataTrue(w, ds, g[i])
                               /\ \A i \in DOMAIN b : DataTrue(w, ds, b[i])

Typed(w, ds, a, u, g, b) ==
  /\ w \in [Urls -> Answers] /\ ds \in Seq(Urls) /\ Len(ds) <= MaxDrops
  /\ a \in Seq(Fetches) /\ u \in SUBSET Fetches /\ g \in Seq(Signals) /\ b \in Seq(Imported)

Good(w, ds, a, u, g, b) == /\ Typed(w, ds, a, u, g, b) /\ Once(a, u, g, b)
                           /\ Faithful(w, ds, a, u, g, b) /\ OnWay(a, u, g, b) \subseteq DOMAIN ds

\* What a step may do to what is on its way: nothing, take a drop that ended with e, or
\* add drops.
Moves(w, ds, a, u, g, b, c, v, h, k) ==
  Good(w, ds, c, v, h, k) /\ OnWay(c, v, h, k) = OnWay(a, u, g, b)
Loses(w, ds, a, u, g, b, c, v, h, k, d, e) ==
  /\ Good(w, ds, c, v, h, k) /\ d \in Drops /\ d \in OnWay(a, u, g, b)
  /\ OnWay(c, v, h, k) = OnWay(a, u, g, b) \ {d} /\ EndOf(w, ds[d]) = e
Gains(w, ds, a, u, g, b, c, v, h, k, D) ==
  Good(w, ds, c, v, h, k) /\ OnWay(c, v, h, k) = OnWay(a, u, g, b) \cup D

LEMMA NumberIn ==
  ASSUME NEW S, NEW f \in S
  PROVE  f.of \in Numbers(S)
  BY DEF Numbers

LEMMA Started ==
  ASSUME NEW w, NEW ds, NEW a, NEW u, NEW g, NEW b, Good(w, ds, a, u, g, b), a # <<>>,
         NEW c, c = Tail(a), NEW v, v = u \cup {Head(a)}
  PROVE  Moves(w, ds, a, u, g, b, c, v, g, b)
<1>1. PICK f : f = Head(a)
  OBVIOUS
<1>2. /\ Typed(w, ds, a, u, g, b) /\ Once(a, u, g, b) /\ Faithful(w, ds, a, u, g, b)
      /\ OnWay(a, u, g, b) \subseteq DOMAIN ds
  BY DEF Good
<1>3. a \in Seq(Fetches) /\ Distinct(a, DOMAIN a)
  BY <1>2 DEF Typed, Once
<1>4. /\ c \in Seq(Fetches) /\ f \in Fetches /\ Distinct(c, DOMAIN c)
      /\ Of(c) = Of(a) \ {f.of} /\ f.of \in Of(a)
      /\ Among(c, a, f) /\ \E k \in DOMAIN a : f = a[k]
  BY <1>1, <1>3, QueueTaken
<1>5. Numbers(v) = Numbers(u) \cup {f.of}
  BY <1>1 DEF Numbers
<1>6. Apart(Of(a), Numbers(u), Told(g), Of(b))
  BY <1>2 DEF Once
<1>7. Apart(Of(c), Numbers(v), Told(g), Of(b)) /\ f.of \notin Numbers(u)
  BY <1>4, <1>5, <1>6 DEF Apart
<1>8. OnWay(c, v, g, b) = OnWay(a, u, g, b)
  BY <1>4, <1>5 DEF OnWay
<1>9. \A h \in u : h.of # f.of
  BY <1>7, NumberIn
<1>10. Once(c, v, g, b)
  BY <1>1, <1>2, <1>4, <1>7, <1>9 DEF Once
<1>11. \A i \in DOMAIN a : FetchTrue(w, ds, a[i])
  BY <1>2 DEF Faithful
<1>12. FetchTrue(w, ds, f) /\ \A i \in DOMAIN c : FetchTrue(w, ds, c[i])
  BY <1>4, <1>11 DEF Among
<1>13. Faithful(w, ds, c, v, g, b)
  BY <1>1, <1>2, <1>12 DEF Faithful
<1>14. Typed(w, ds, c, v, g, b)
  BY <1>1, <1>2, <1>4 DEF Typed
<1> QED
  BY <1>2, <1>8, <1>10, <1>13, <1>14 DEF Good, Moves

\* A request is answered by a redirect, and made anew.
LEMMA Redirected ==
  ASSUME NEW w, NEW ds, NEW a, NEW u, NEW g, NEW b, Good(w, ds, a, u, g, b),
         NEW f \in u, w[f.url] \in Urls,
         NEW h, h = [f EXCEPT !.url = w[f.url]], NEW v, v = (u \ {f}) \cup {h}
  PROVE  Moves(w, ds, a, u, g, b, a, v, g, b)
<1>1. /\ Typed(w, ds, a, u, g, b) /\ Once(a, u, g, b) /\ Faithful(w, ds, a, u, g, b)
      /\ OnWay(a, u, g, b) \subseteq DOMAIN ds
  BY DEF Good
<1>2. f \in [of : Drops, url : Urls]
  BY <1>1 DEF Typed, Fetches
<1>3. h.of = f.of /\ h.url = w[f.url] /\ h \in Fetches /\ f.url \in Urls
  BY <1>2 DEF Fetches
<1>4. Numbers(v) = Numbers(u)
  BY <1>3 DEF Numbers
<1>5. \A k, l \in u : k.of = l.of => k = l
  BY <1>1 DEF Once
<1>6. \A k, l \in v : k.of = l.of => k = l
  <2>1. ASSUME NEW k \in v, NEW l \in v, k.of = l.of
        PROVE  k = l
    <3>1. k \in v => k = h \/ (k \in u /\ k # f)
      OBVIOUS
    <3>2. l \in v => l = h \/ (l \in u /\ l # f)
      OBVIOUS
    <3>3. \A m \in u : m.of = h.of => m = f
      BY <1>3, <1>5
    <3> QED
      BY <1>5, <2>1, <3>1, <3>2, <3>3
  <2> QED
    BY <2>1
<1>7. OnWay(a, v, g, b) = OnWay(a, u, g, b)
  BY <1>4 DEF OnWay
<1>8. Once(a, v, g, b)
  BY <1>1, <1>4, <1>6 DEF Once
<1>9. \A k \in u : FetchTrue(w, ds, k)
  BY <1>1 DEF Faithful
<1>10. FetchTrue(w, ds, h)
  <2>1. EndOf(w, f.url) = EndOf(w, w[f.url])
    BY <1>3, EndFollowed
  <2>2. EndOf(w, f.url) = EndOf(w, ds[f.of])
    BY <1>9 DEF FetchTrue
  <2> QED
    BY <1>3, <2>1, <2>2 DEF FetchTrue
<1>11. \A k \in v : FetchTrue(w, ds, k)
  BY <1>9, <1>10
<1>12. Faithful(w, ds, a, v, g, b)
  BY <1>1, <1>11 DEF Faithful
<1>13. Typed(w, ds, a, v, g, b)
  <2>1. v \in SUBSET Fetches
    BY <1>1, <1>3 DEF Typed
  <2> QED
    BY <1>1, <2>1 DEF Typed
<1> QED
  BY <1>1, <1>7, <1>8, <1>12, <1>13 DEF Good, Moves

\* A request has ended.
LEMMA Ended ==
  ASSUME NEW w, NEW ds, NEW a, NEW u, NEW g, NEW b, Good(w, ds, a, u, g, b),
         NEW f \in u, w[f.url] \notin Urls, NEW v, v = u \ {f}
  PROVE  Loses(w, ds, a, u, g, b, a, v, g, b, f.of, w[f.url])
<1>1. /\ Typed(w, ds, a, u, g, b) /\ Once(a, u, g, b) /\ Faithful(w, ds, a, u, g, b)
      /\ OnWay(a, u, g, b) \subseteq DOMAIN ds
  BY DEF Good
<1>2. f \in [of : Drops, url : Urls]
  BY <1>1 DEF Typed, Fetches
<1>3. f.of \in Drops /\ f.url \in Urls /\ f.of \in Numbers(u)
  BY <1>2, NumberIn
<1>4. \A k, l \in u : k.of = l.of => k = l
  BY <1>1 DEF Once
<1>5. Numbers(v) = Numbers(u) \ {f.of}
  BY <1>4 DEF Numbers
<1>6. Apart(Of(a), Numbers(u), Told(g), Of(b))
  BY <1>1 DEF Once
<1>7. Apart(Of(a), Numbers(v), Told(g), Of(b))
  BY <1>5, <1>6 DEF Apart
<1>8. f.of \in OnWay(a, u, g, b) /\ OnWay(a, v, g, b) = OnWay(a, u, g, b) \ {f.of}
  BY <1>3, <1>5, <1>6 DEF OnWay, Apart
<1>9. Once(a, v, g, b)
  BY <1>1, <1>4, <1>7 DEF Once
<1>10. Faithful(w, ds, a, v, g, b)
  BY <1>1 DEF Faithful
<1>11. Typed(w, ds, a, v, g, b)
  BY <1>1 DEF Typed
<1>12. EndOf(w, f.url) = w[f.url] /\ EndOf(w, f.url) = EndOf(w, ds[f.of])
  BY <1>1, <1>3, EndFound DEF Faithful, FetchTrue
<1> QED
  BY <1>1, <1>3, <1>8, <1>9, <1>10, <1>11, <1>12 DEF Good, Loses

\* A signal that a file has come for a drop that is nowhere on its way.
LEMMA Signalled ==
  ASSUME NEW w, NEW ds, NEW a, NEW u, NEW g, NEW b, Good(w, ds, a, u, g, b),
         NEW d \in Drops, d \in DOMAIN ds, d \notin OnWay(a, u, g, b),
         NEW file \in Files, file = EndOf(w, ds[d]),
         NEW x, x = [sig |-> "downloadComplete", of |-> d, data |-> file],
         NEW h, h = Append(g, x)
  PROVE  Gains(w, ds, a, u, g, b, a, u, h, b, {d})
<1>1. /\ Typed(w, ds, a, u, g, b) /\ Once(a, u, g, b) /\ Faithful(w, ds, a, u, g, b)
      /\ OnWay(a, u, g, b) \subseteq DOMAIN ds
  BY DEF Good
<1>2. x \in Signals /\ x.sig = "downloadComplete" /\ x.of = d /\ x.data = file
  BY DEF Signals
<1>3. d \notin Of(a) /\ d \notin Numbers(u) /\ d \notin Told(g) /\ d \notin Of(b)
  BY DEF OnWay
<1>4. /\ h \in Seq(Signals) /\ Distinct(h, Completed(h)) /\ Told(h) = Told(g) \cup {d}
      /\ \A i \in Completed(h) : h[i] = x \/ \E k \in Completed(g) : h[i] = g[k]
  <2>1. g \in Seq(Signals) /\ Distinct(g, Completed(g))
    BY <1>1 DEF Typed, Once
  <2>2. PutsSignal(g, x, h)
    BY <1>2, <1>3, <2>1, SignalPut, Zenon
  <2> QED
    BY <1>2, <2>2 DEF PutsSignal
<1>5. Apart(Of(a), Numbers(u), Told(h), Of(b))
  BY <1>1, <1>3, <1>4 DEF Once, Apart
<1>6. OnWay(a, u, h, b) = OnWay(a, u, g, b) \cup {d}
  BY <1>4 DEF OnWay
<1>7. Once(a, u, h, b)
  BY <1>1, <1>4, <1>5 DEF Once
<1>8. DataTrue(w, ds, x)
  BY <1>2 DEF DataTrue
<1>9. \A i \in Completed(h) : DataTrue(w, ds, h[i])
  BY <1>1, <1>4, <1>8 DEF Faithful
<1>10. Faithful(w, ds, a, u, h, b)
  BY <1>1, <1>9 DEF Faithful
<1>11. Typed(w, ds, a, u, h, b)
  BY <1>1, <1>4 DEF Typed
<1> QED
  BY <1>1, <1>6, <1>7, <1>10, <1>11 DEF Good, Gains

\* A signal that is not about a drop is added.
LEMMA OtherSignalled ==
  ASSUME NEW w, NEW ds, NEW a, NEW u, NEW g, NEW b, Good(w, ds, a, u, g, b),
         NEW x \in Signals, x.sig # "downloadComplete", NEW h, h = Append(g, x)
  PROVE  Moves(w, ds, a, u, g, b, a, u, h, b)
<1>1. /\ Typed(w, ds, a, u, g, b) /\ Once(a, u, g, b) /\ Faithful(w, ds, a, u, g, b)
      /\ OnWay(a, u, g, b) \subseteq DOMAIN ds
  BY DEF Good
<1>2. /\ h \in Seq(Signals) /\ Distinct(h, Completed(h)) /\ Told(h) = Told(g)
      /\ \A i \in Completed(h) : \E k \in Completed(g) : h[i] = g[k]
  <2>1. g \in Seq(Signals) /\ Distinct(g, Completed(g))
    BY <1>1 DEF Typed, Once
  <2>2. PutsSignal(g, x, h)
    BY <2>1, SignalPut, Zenon
  <2> QED
    BY <2>2 DEF PutsSignal
<1>3. OnWay(a, u, h, b) = OnWay(a, u, g, b)
  BY <1>2 DEF OnWay
<1>4. Once(a, u, h, b)
  BY <1>1, <1>2 DEF Once
<1>5. Faithful(w, ds, a, u, h, b)
  BY <1>1, <1>2 DEF Faithful
<1>6. Typed(w, ds, a, u, h, b)
  BY <1>1, <1>2 DEF Typed
<1> QED
  BY <1>1, <1>3, <1>4, <1>5, <1>6 DEF Good, Moves

\* A signal that is not about a drop is taken.
LEMMA OtherTaken ==
  ASSUME NEW w, NEW ds, NEW a, NEW u, NEW g, NEW b, Good(w, ds, a, u, g, b), g # <<>>,
         Head(g).sig # "downloadComplete", NEW h, h = Tail(g)
  PROVE  Moves(w, ds, a, u, g, b, a, u, h, b)
<1>1. /\ Typed(w, ds, a, u, g, b) /\ Once(a, u, g, b) /\ Faithful(w, ds, a, u, g, b)
      /\ OnWay(a, u, g, b) \subseteq DOMAIN ds
  BY DEF Good
<1>2. /\ h \in Seq(Signals) /\ Distinct(h, Completed(h)) /\ Told(h) = Told(g)
      /\ \A i \in Completed(h) : \E k \in Completed(g) : h[i] = g[k]
  <2>1. g \in Seq(Signals) /\ Distinct(g, Completed(g))
    BY <1>1 DEF Typed, Once
  <2>2. TakesSignal(g, h)
    BY <2>1, SignalGone, Zenon
  <2> QED
    BY <2>2 DEF TakesSignal
<1>3. OnWay(a, u, h, b) = OnWay(a, u, g, b)
  BY <1>2 DEF OnWay
<1>4. Once(a, u, h, b)
  BY <1>1, <1>2 DEF Once
<1>5. Faithful(w, ds, a, u, h, b)
  BY <1>1, <1>2 DEF Faithful
<1>6. Typed(w, ds, a, u, h, b)
  BY <1>1, <1>2 DEF Typed
<1> QED
  BY <1>1, <1>3, <1>4, <1>5, <1>6 DEF Good, Moves

\* A file that has come is passed on to the write thread.
LEMMA Forwarded ==
  ASSUME NEW w, NEW ds, NEW a, NEW u, NEW g, NEW b, Good(w, ds, a, u, g, b), g # <<>>,
         Head(g).sig = "downloadComplete", NEW h, h = Tail(g),
         NEW x, x = [of |-> Head(g).of, data |-> Head(g).data], NEW c, c = Append(b, x)
  PROVE  Moves(w, ds, a, u, g, b, a, u, h, c)
<1>1. /\ Typed(w, ds, a, u, g, b) /\ Once(a, u, g, b) /\ Faithful(w, ds, a, u, g, b)
      /\ OnWay(a, u, g, b) \subseteq DOMAIN ds
  BY DEF Good
<1>2. PICK y : y = Head(g)
  OBVIOUS
<1>3. /\ h \in Seq(Signals) /\ y \in Signals /\ Distinct(h, Completed(h))
      /\ Told(h) = Told(g) \ {y.of} /\ y.of \in Told(g)
      /\ \E k \in Completed(g) : y = g[k]
      /\ \A i \in Completed(h) : \E k \in Completed(g) : h[i] = g[k]
  <2>1. g \in Seq(Signals) /\ Distinct(g, Completed(g))
    BY <1>1 DEF Typed, Once
  <2>2. TakesSignal(g, h)
    BY <2>1, SignalGone, Zenon
  <2> QED
    BY <1>2, <2>2 DEF TakesSignal
<1>4. x.of = y.of /\ x.data = y.data /\ x \in Imported
  <2>1. y.data \in Files /\ y.of \in Drops
    BY <1>2, <1>3, SignalIs
  <2> QED
    BY <1>2, <2>1 DEF Imported
<1>5. Apart(Of(a), Numbers(u), Told(g), Of(b))
  BY <1>1 DEF Once
<1>6. x.of \notin Of(b)
  BY <1>3, <1>4, <1>5 DEF Apart
<1>7. /\ c \in Seq(Imported) /\ Distinct(c, DOMAIN c) /\ Of(c) = Of(b) \cup {x.of}
      /\ Among(c, b, x)
  <2>1. b \in Seq(Imported) /\ Distinct(b, DOMAIN b)
    BY <1>1 DEF Typed, Once
  <2>2. PutsQueue(Imported, b, x, c)
    BY <1>4, <1>6, <2>1, QueuePut, Zenon
  <2> QED
    BY <2>2 DEF PutsQueue
<1>8. Apart(Of(a), Numbers(u), Told(h), Of(c))
  BY <1>3, <1>4, <1>5, <1>7 DEF Apart
<1>9. OnWay(a, u, h, c) = OnWay(a, u, g, b)
  BY <1>3, <1>4, <1>7 DEF OnWay
<1>10. Once(a, u, h, c)
  BY <1>1, <1>3, <1>7, <1>8 DEF Once
<1>11. DataTrue(w, ds, x) /\ \A i \in Completed(h) : DataTrue(w, ds, h[i])
  <2>1. \A k \in Completed(g) : DataTrue(w, ds, g[k])
    BY <1>1 DEF Faithful
  <2>2. DataTrue(w, ds, y)
    BY <1>3, <2>1
  <2> QED
    BY <1>3, <1>4, <2>1, <2>2 DEF DataTrue
<1>12. \A i \in DOMAIN c : DataTrue(w, ds, c[i])
  <2>1. \A k \in DOMAIN b : DataTrue(w, ds, b[k])
    BY <1>1 DEF Faithful
  <2> QED
    BY <1>7, <1>11, <2>1 DEF Among
<1>13. Faithful(w, ds, a, u, h, c)
  BY <1>1, <1>11, <1>12 DEF Faithful
<1>14. Typed(w, ds, a, u, h, c)
  BY <1>1, <1>3, <1>7 DEF Typed
<1> QED
  BY <1>1, <1>9, <1>10, <1>13, <1>14 DEF Good, Moves

\* The write thread takes a file.
LEMMA Written ==
  ASSUME NEW w, NEW ds, NEW a, NEW u, NEW g, NEW b, Good(w, ds, a, u, g, b), b # <<>>,
         NEW x, x = Head(b), NEW c, c = Tail(b)
  PROVE  Loses(w, ds, a, u, g, b, a, u, g, c, x.of, x.data) /\ x.data \in Files
<1>1. /\ Typed(w, ds, a, u, g, b) /\ Once(a, u, g, b) /\ Faithful(w, ds, a, u, g, b)
      /\ OnWay(a, u, g, b) \subseteq DOMAIN ds
  BY DEF Good
<1>2. b \in Seq(Imported) /\ Distinct(b, DOMAIN b)
  BY <1>1 DEF Typed, Once
<1>3. /\ c \in Seq(Imported) /\ x \in Imported /\ Distinct(c, DOMAIN c)
      /\ Of(c) = Of(b) \ {x.of} /\ x.of \in Of(b)
      /\ Among(c, b, x) /\ \E k \in DOMAIN b : x = b[k]
  BY <1>2, QueueTaken
<1>4. x.of \in Drops /\ x.data \in Files
  BY <1>3 DEF Imported
<1>5. Apart(Of(a), Numbers(u), Told(g), Of(b))
  BY <1>1 DEF Once
<1>6. Apart(Of(a), Numbers(u), Told(g), Of(c))
  BY <1>3, <1>5 DEF Apart
<1>7. x.of \in OnWay(a, u, g, b) /\ OnWay(a, u, g, c) = OnWay(a, u, g, b) \ {x.of}
  BY <1>3, <1>5 DEF OnWay, Apart
<1>8. Once(a, u, g, c)
  BY <1>1, <1>3, <1>6 DEF Once
<1>9. \A k \in DOMAIN b : DataTrue(w, ds, b[k])
  BY <1>1 DEF Faithful
<1>10. DataTrue(w, ds, x) /\ \A i \in DOMAIN c : DataTrue(w, ds, c[i])
  BY <1>3, <1>9 DEF Among
<1>11. Faithful(w, ds, a, u, g, c)
  BY <1>1, <1>10 DEF Faithful
<1>12. Typed(w, ds, a, u, g, c)
  BY <1>1, <1>3 DEF Typed
<1> QED
  BY <1>1, <1>4, <1>7, <1>8, <1>10, <1>11, <1>12 DEF Good, DataTrue, Loses

\* Nothing is on its way.
LEMMA Forgotten ==
  ASSUME NEW w \in [Urls -> Answers], NEW ds \in Seq(Urls), Len(ds) <= MaxDrops
  PROVE  Good(w, ds, <<>>, {}, <<>>, <<>>) /\ OnWay(<<>>, {}, <<>>, <<>>) = {}
<1>1. PICK q : q = <<>>
  OBVIOUS
<1>2. DOMAIN q = {} /\ q \in Seq(Fetches) /\ q \in Seq(Signals) /\ q \in Seq(Imported)
  BY <1>1
<1>3. Completed(q) = {}
  BY <1>2 DEF Completed
<1>4. Of(q) = {} /\ Told(q) = {} /\ Numbers({}) = {}
  BY <1>2, <1>3 DEF Of, Told, OfAt, Numbers
<1>5. Once(q, {}, q, q)
  BY <1>2, <1>3, <1>4 DEF Once, Distinct, Apart
<1>6. Faithful(w, ds, q, {}, q, q)
  BY <1>2, <1>3 DEF Faithful
<1>7. Typed(w, ds, q, {}, q, q)
  BY <1>2 DEF Typed
<1>8. OnWay(q, {}, q, q) = {}
  BY <1>4 DEF OnWay
<1> QED
  BY <1>1, <1>5, <1>6, <1>7, <1>8 DEF Good

LEMMA Joined ==
  ASSUME NEW S, NEW s \in Seq(S), NEW t \in Seq(S), NEW r, r = s \o t
  PROVE  /\ r \in Seq(S) /\ Len(s) \in Nat /\ Len(t) \in Nat /\ Len(r) = Len(s) + Len(t)
         /\ DOMAIN s = 1..Len(s) /\ DOMAIN t = 1..Len(t) /\ DOMAIN r = 1..(Len(s) + Len(t))
         /\ \A i \in 1..Len(s) : r[i] = s[i]
         /\ \A j \in 1..Len(t) : r[Len(s) + j] = t[j]
  OBVIOUS

\* The places of the joined sequences: the first's, and the second's behind them.
Joins(s, t, r) == /\ \A i \in DOMAIN r : \/ i \in DOMAIN s /\ r[i] = s[i]
                                         \/ \E j \in DOMAIN t : i = Len(s) + j /\ r[i] = t[j]
                  /\ \A i \in DOMAIN s : i \in DOMAIN r /\ r[i] = s[i]
                  /\ \A j \in DOMAIN t : Len(s) + j \in DOMAIN r /\ r[Len(s) + j] = t[j]
                  /\ \A j \in DOMAIN t : Len(s) + j \notin DOMAIN s

LEMMA JoinedPlaces ==
  ASSUME NEW S, NEW s \in Seq(S), NEW t \in Seq(S), NEW r, r = s \o t
  PROVE  Joins(s, t, r) /\ r \in Seq(S)
<1>1. PICK m, n : m = Len(s) /\ n = Len(t)
  OBVIOUS
<1>2. /\ r \in Seq(S) /\ m \in Nat /\ n \in Nat
      /\ DOMAIN s = 1..m /\ DOMAIN t = 1..n /\ DOMAIN r = 1..(m + n)
      /\ \A i \in 1..m : r[i] = s[i]
      /\ \A j \in 1..n : r[m + j] = t[j]
  BY <1>1, Joined
<1>3. ASSUME NEW i \in 1..(m + n), i \notin 1..m
      PROVE  \E j \in 1..n : i = m + j
  <2>1. i - m \in 1..n /\ i = m + (i - m)
    BY <1>2, <1>3
  <2> QED
    BY <2>1
<1>4. ASSUME NEW j \in 1..n
      PROVE  m + j \in 1..(m + n) /\ m + j \notin 1..m
  BY <1>2
<1>5. \A i \in 1..m : i \in 1..(m + n)
  BY <1>2
<1>6. ASSUME NEW i \in 1..(m + n)
      PROVE  \/ i \in 1..m /\ r[i] = s[i]
             \/ \E j \in 1..n : i = m + j /\ r[i] = t[j]
  <2>1. CASE i \in 1..m
    BY <1>2, <2>1
  <2>2. CASE i \notin 1..m
    <3>1. PICK j \in 1..n : i = m + j
      BY <1>3, <2>2
    <3> QED
      BY <1>2, <3>1
  <2> QED
    BY <2>1, <2>2
<1>7. \A i \in DOMAIN r : \/ i \in DOMAIN s /\ r[i] = s[i]
                          \/ \E j \in DOMAIN t : i = Len(s) + j /\ r[i] = t[j]
  <2> SUFFICES ASSUME NEW i \in DOMAIN r
               PROVE  \/ i \in DOMAIN s /\ r[i] = s[i]
                      \/ \E j \in DOMAIN t : i = Len(s) + j /\ r[i] = t[j]
    BY Zenon
  <2>1. i \in 1..(m + n)
    BY <1>2
  <2>2. CASE i \in 1..m /\ r[i] = s[i]
    BY <1>2, <2>2
  <2>3. CASE \E j \in 1..n : i = m + j /\ r[i] = t[j]
    <3>1. PICK j \in 1..n : i = m + j /\ r[i] = t[j]
      BY <2>3
    <3>2. j \in DOMAIN t
      BY <1>2
    <3> QED
      BY <1>1, <3>1, <3>2
  <2> QED
    BY <1>6, <2>1, <2>2, <2>3
<1>8. \A i \in DOMAIN s : i \in DOMAIN r /\ r[i] = s[i]
  BY <1>2, <1>5
<1>9. \A j \in DOMAIN t : /\ Len(s) + j \in DOMAIN r /\ r[Len(s) + j] = t[j]
                          /\ Len(s) + j \notin DOMAIN s
  BY <1>1, <1>2, <1>4, Zenon
<1> QED
  BY <1>2, <1>7, <1>8, <1>9, Zenon DEF Joins

\* The calls for the URLs us that are dropped, n having been dropped before.
Calls(n, us) == [i \in DOMAIN us |-> [of |-> n + i, url |-> us[i]]]

LEMMA CallsAre ==
  ASSUME NEW n \in Nat, NEW us \in Seq(Urls), n + Len(us) <= MaxDrops, NEW c, c = Calls(n, us)
  PROVE  /\ c \in Seq(Fetches) /\ DOMAIN c = DOMAIN us
         /\ \A i \in DOMAIN us : c[i].of = n + i /\ c[i].url = us[i]
         /\ \A i, j \in DOMAIN us : n + i = n + j => i = j
<1>1. PICK l \in Nat : l = Len(us) /\ DOMAIN us = 1..l
  OBVIOUS
<1>2. MaxDrops \in Nat
  BY DownloadAssumption
<1>3. ASSUME NEW i \in 1..l
      PROVE  us[i] \in Urls /\ n + i \in Drops
  BY <1>1, <1>2 DEF Drops
<1>4. c = [i \in 1..l |-> [of |-> n + i, url |-> us[i]]]
  BY <1>1 DEF Calls
<1>5. c \in [1..l -> Fetches]
  BY <1>3, <1>4 DEF Fetches
<1>6. c \in Seq(Fetches)
  BY <1>5
<1> QED
  BY <1>1, <1>4, <1>6

\* The drops es are ds and more.
Extends(ds, es) == DOMAIN ds \subseteq DOMAIN es /\ \A d \in DOMAIN ds : es[d] = ds[d]

LEMMA Dropped ==
  ASSUME NEW w, NEW ds, NEW a, NEW u, NEW g, NEW b, Good(w, ds, a, u, g, b),
         NEW us \in Seq(Urls), Len(ds) + Len(us) <= MaxDrops, NEW es, es = ds \o us,
         NEW c, c = a \o Calls(Len(ds), us)
  PROVE  /\ Gains(w, es, a, u, g, b, c, u, g, b, DOMAIN es \ DOMAIN ds)
         /\ Extends(ds, es)
<1>1. /\ Typed(w, ds, a, u, g, b) /\ Once(a, u, g, b) /\ Faithful(w, ds, a, u, g, b)
      /\ OnWay(a, u, g, b) \subseteq DOMAIN ds
  BY DEF Good
<1>2. PICK n \in Nat : n = Len(ds) /\ DOMAIN ds = 1..n
  BY <1>1 DEF Typed
<1>3. PICK q : q = Calls(n, us)
  OBVIOUS
<1>4. /\ q \in Seq(Fetches) /\ DOMAIN q = DOMAIN us
      /\ \A i \in DOMAIN us : q[i].of = n + i /\ q[i].url = us[i]
      /\ \A i, j \in DOMAIN us : n + i = n + j => i = j
  BY <1>2, <1>3, CallsAre
<1>5. es \in Seq(Urls) /\ Len(es) <= MaxDrops /\ Joins(ds, us, es)
  <2>1. ds \in Seq(Urls)
    BY <1>1 DEF Typed
  <2>2. Joins(ds, us, es) /\ es \in Seq(Urls)
    BY <2>1, JoinedPlaces, Zenon
  <2> QED
    BY <2>1, <2>2
<1>6. c \in Seq(Fetches) /\ Joins(a, q, c)
  <2>1. a \in Seq(Fetches) /\ c = a \o q
    BY <1>1, <1>2, <1>3 DEF Typed
  <2> QED
    BY <1>4, <2>1, JoinedPlaces, Zenon
<1>7. DOMAIN ds \subseteq DOMAIN es /\ \A d \in DOMAIN ds : es[d] = ds[d]
  BY <1>5 DEF Joins
<1>8. Of(q) = DOMAIN es \ DOMAIN ds
  <2>1. \A d \in Of(q) : \E i \in DOMAIN us : d = n + i
    BY <1>4 DEF Of
  <2>2. ASSUME NEW i \in DOMAIN us
        PROVE  n + i \in Of(q)
    <3>1. n + i = q[i].of /\ i \in DOMAIN q
      BY <1>4
    <3> QED
      BY <3>1, Zenon DEF Of
  <2>3. \A i \in DOMAIN us : n + i \in DOMAIN es \ DOMAIN ds
    BY <1>2, <1>5 DEF Joins
  <2>4. \A d \in DOMAIN es \ DOMAIN ds : \E i \in DOMAIN us : d = n + i
    BY <1>2, <1>5 DEF Joins
  <2> QED
    BY <2>1, <2>2, <2>3, <2>4
<1>9. Of(c) = Of(a) \cup Of(q)
  <2>1. ASSUME NEW i \in DOMAIN c
        PROVE  c[i].of \in Of(a) \cup Of(q)
    BY <1>6, <2>1 DEF Joins, Of
  <2>2. ASSUME NEW i \in DOMAIN a
        PROVE  a[i].of \in Of(c)
    <3>1. i \in DOMAIN c /\ c[i].of = a[i].of
      BY <1>6 DEF Joins
    <3> QED
      BY <3>1, Zenon DEF Of
  <2>3. ASSUME NEW j \in DOMAIN q
        PROVE  q[j].of \in Of(c)
    <3>1. PICK i \in DOMAIN c : c[i].of = q[j].of
      BY <1>6 DEF Joins
    <3> QED
      BY <3>1 DEF Of
  <2>4. Of(c) \subseteq Of(a) \cup Of(q)
    BY <2>1 DEF Of
  <2>5. Of(a) \subseteq Of(c)
    BY <2>2 DEF Of
  <2>6. Of(q) \subseteq Of(c)
    BY <2>3 DEF Of
  <2> QED
    BY <2>4, <2>5, <2>6
<1>10. OnWay(c, u, g, b) = OnWay(a, u, g, b) \cup (DOMAIN es \ DOMAIN ds)
  BY <1>8, <1>9 DEF OnWay
<1>11. Of(a) \cap Of(q) = {} /\ Numbers(u) \cap Of(q) = {} /\ Told(g) \cap Of(q) = {}
       /\ Of(b) \cap Of(q) = {}
  BY <1>1, <1>8 DEF OnWay
<1>12. Distinct(c, DOMAIN c)
  <2>1. Distinct(a, DOMAIN a)
    BY <1>1 DEF Once
  <2>2. \A i \in DOMAIN a : a[i].of \in Of(a) /\ a[i].of \notin Of(q)
    BY <1>11 DEF Of
  <2>3. \A j \in DOMAIN q : q[j].of \in Of(q)
    BY DEF Of
  <2>4. \A j, k \in DOMAIN q : q[j].of = q[k].of => j = k
    BY <1>4
  <2> SUFFICES ASSUME NEW i \in DOMAIN c, NEW k \in DOMAIN c, c[i].of = c[k].of
               PROVE  i = k
    BY DEF Distinct
  <2>5. /\ \/ i \in DOMAIN a /\ c[i] = a[i]
           \/ \E j \in DOMAIN q : i = Len(a) + j /\ c[i] = q[j]
        /\ \/ k \in DOMAIN a /\ c[k] = a[k]
           \/ \E j \in DOMAIN q : k = Len(a) + j /\ c[k] = q[j]
    BY <1>6, Zenon DEF Joins
  <2>6. CASE i \in DOMAIN a /\ c[i] = a[i]
    BY <2>1, <2>2, <2>3, <2>5, <2>6 DEF Distinct
  <2>7. CASE \E j \in DOMAIN q : i = Len(a) + j /\ c[i] = q[j]
    BY <2>2, <2>3, <2>4, <2>5, <2>7
  <2> QED
    BY <2>5, <2>6, <2>7
<1>13. Once(c, u, g, b)
  <2>1. Apart(Of(c), Numbers(u), Told(g), Of(b))
    BY <1>1, <1>9, <1>11 DEF Once, Apart
  <2> QED
    BY <1>1, <1>12, <2>1 DEF Once
<1>14. /\ \A d \in Of(a) \cup Numbers(u) \cup Of(b) \cup Told(g) : es[d] = ds[d]
  BY <1>1, <1>7 DEF OnWay
<1>15. \A i \in DOMAIN c : FetchTrue(w, es, c[i])
  <2>1. ASSUME NEW i \in DOMAIN a PROVE FetchTrue(w, es, a[i])
    <3>1. FetchTrue(w, ds, a[i]) /\ a[i].of \in Of(a)
      BY <1>1 DEF Faithful, Of
    <3> QED
      BY <1>14, <3>1 DEF FetchTrue
  <2>2. ASSUME NEW j \in DOMAIN q PROVE FetchTrue(w, es, q[j])
    <3>1. es[q[j].of] = us[j] /\ q[j].url = us[j]
      BY <1>2, <1>4, <1>5 DEF Joins
    <3> QED
      BY <3>1 DEF FetchTrue
  <2> QED
    BY <1>6, <2>1, <2>2 DEF Joins
<1>16. \A f \in u : FetchTrue(w, es, f)
  <2> SUFFICES ASSUME NEW f \in u PROVE FetchTrue(w, es, f)
    OBVIOUS
  <2>1. FetchTrue(w, ds, f) /\ f.of \in Numbers(u)
    BY <1>1, NumberIn DEF Faithful
  <2> QED
    BY <1>14, <2>1 DEF FetchTrue
<1>17. \A i \in Completed(g) : DataTrue(w, es, g[i])
  <2> SUFFICES ASSUME NEW i \in Completed(g) PROVE DataTrue(w, es, g[i])
    OBVIOUS
  <2>1. DataTrue(w, ds, g[i]) /\ g[i].of \in Told(g)
    BY <1>1 DEF Faithful, Told, OfAt
  <2> QED
    BY <1>14, <2>1 DEF DataTrue
<1>18. \A i \in DOMAIN b : DataTrue(w, es, b[i])
  <2> SUFFICES ASSUME NEW i \in DOMAIN b PROVE DataTrue(w, es, b[i])
    OBVIOUS
  <2>1. DataTrue(w, ds, b[i]) /\ b[i].of \in Of(b)
    BY <1>1 DEF Faithful, Of
  <2> QED
    BY <1>14, <2>1 DEF DataTrue
<1>19. Faithful(w, es, c, u, g, b)
  BY <1>15, <1>16, <1>17, <1>18 DEF Faithful
<1>20. Typed(w, es, c, u, g, b)
  BY <1>1, <1>5, <1>6 DEF Typed
<1>21. OnWay(c, u, g, b) \subseteq DOMAIN es
  BY <1>1, <1>7, <1>10
<1> QED
  BY <1>7, <1>10, <1>13, <1>19, <1>20, <1>21 DEF Good, Gains, Extends
--------------------------------------------------------------------------------
(* What is pending, for the user. *)

Ending(w, ds, d) == [of |-> d, end |-> EndOf(w, ds[d])]
Awaited(w, ds, S) == {Ending(w, ds, d) : d \in S}

LEMMA AwaitedLess ==
  ASSUME NEW w, NEW ds, NEW S, NEW d \in S
  PROVE  /\ Ending(w, ds, d) \in Awaited(w, ds, S)
         /\ Awaited(w, ds, S \ {d}) = Awaited(w, ds, S) \ {Ending(w, ds, d)}
  BY DEF Awaited, Ending

LEMMA EndingTyped ==
  ASSUME NEW w \in [Urls -> Answers], NEW ds \in Seq(Urls), Len(ds) <= MaxDrops,
         NEW d \in DOMAIN ds
  PROVE  /\ Ending(w, ds, d) \in [of : Drops, end : Files \cup {"error", "endless"}]
         /\ Ending(w, ds, d).of = d /\ Ending(w, ds, d).end = EndOf(w, ds[d])
<1>1. d \in Drops
  <2>1. MaxDrops \in Nat /\ Len(ds) \in Nat /\ DOMAIN ds = 1..Len(ds)
    BY DownloadAssumption
  <2> QED
    BY <2>1 DEF Drops
<1>2. EndOf(w, ds[d]) \in Files \cup {"error", "endless"}
  BY EndIsEnd
<1> QED
  BY <1>1, <1>2 DEF Ending

\* The pending records q are p and those of the drops new.
Adding(p, q, new) ==
  /\ q \in SUBSET [of : Drops, end : Files \cup {"error", "endless"}] /\ p \subseteq q
  /\ \A x, y \in q : x.of = y.of => x = y
  /\ {x.of : x \in q \ p} = new

\* What the user has once he has dropped URLs: what he had, and the new drops.
LEMMA AwaitedMore ==
  ASSUME NEW w \in [Urls -> Answers], NEW ds, NEW es \in Seq(Urls), Len(es) <= MaxDrops,
         DOMAIN ds \subseteq DOMAIN es, \A d \in DOMAIN ds : es[d] = ds[d],
         NEW S, S \subseteq DOMAIN ds, NEW T, T = S \cup (DOMAIN es \ DOMAIN ds),
         NEW p, p = Awaited(w, ds, S), NEW q, q = Awaited(w, es, T)
  PROVE  Adding(p, q, DOMAIN es \ DOMAIN ds)
<1>1. \A d \in T : /\ Ending(w, es, d) \in [of : Drops, end : Files \cup {"error", "endless"}]
                   /\ Ending(w, es, d).of = d
  BY EndingTyped
<1>2. \A d \in S : Ending(w, es, d) = Ending(w, ds, d)
  BY DEF Ending
<1>3. p \subseteq q
  BY <1>2 DEF Awaited
<1>4. \A x \in q : x.of \in T /\ x = Ending(w, es, x.of)
  BY <1>1 DEF Awaited
<1>5. \A x \in q \ p : x.of \in DOMAIN es \ DOMAIN ds
  BY <1>2, <1>4 DEF Awaited
<1>6. ASSUME NEW d \in DOMAIN es \ DOMAIN ds
      PROVE  d \in {x.of : x \in q \ p}
  <2>1. PICK x : x = Ending(w, es, d)
    OBVIOUS
  <2>2. x \in q /\ x.of = d
    BY <1>1, <2>1 DEF Awaited
  <2>3. \A y \in p : y.of \in S
    BY <1>1, <1>2 DEF Awaited
  <2> QED
    BY <2>2, <2>3
<1>7. q \in SUBSET [of : Drops, end : Files \cup {"error", "endless"}]
  BY <1>1 DEF Awaited
<1>8. \A x, y \in q : x.of = y.of => x = y
  BY <1>4
<1>9. {x.of : x \in q \ p} \subseteq DOMAIN es \ DOMAIN ds
  BY <1>5
<1>10. {x.of : x \in q \ p} = DOMAIN es \ DOMAIN ds
  BY <1>6, <1>9
<1> QED
  BY <1>3, <1>7, <1>8, <1>10, Zenon DEF Adding
--------------------------------------------------------------------------------
(* The inductive invariant: no drop is in two places, what is on its way for it is what *)
(* it leads to, and what is in view or announced is what is stored, in its order.       *)

Way == OnWay(asked, underWay, toGui, toWriter)
IInv == /\ Good(web, dropped, asked, underWay, toGui, toWriter)
        /\ stored \in Seq(Files) /\ shown \in Seq(Files) /\ restarts \in 0..MaxRestarts
        /\ AnnouncedBy(toGui, shown) = stored

LEMMA WayIsPending == Pending = Way /\ Pending' = Way'
  BY DEF Pending, Way, OnWay, Numbers, Told, OfAt

LEMMA InvariantTypes == IInv => TypeOK
  BY WayIsPending DEF IInv, Good, Typed, Way, TypeOK

\* How a step looks to the user.
Kept == UNCHANGED <<web, dropped>> /\ Way' = Way /\ stored' = stored
Settled(d) ==
  /\ UNCHANGED <<web, dropped>> /\ d \in Way /\ d \in Drops /\ Way' = Way \ {d}
  /\ stored' = IF EndOf(web, dropped[d]) \in Files \ ToSet(stored)
               THEN Append(stored, EndOf(web, dropped[d])) ELSE stored

LEMMA KeptStutters == IInv /\ IInv' /\ Kept => UNCHANGED Promise!vars
<1> SUFFICES ASSUME IInv, IInv', Kept
             PROVE  UNCHANGED Promise!vars
  OBVIOUS
<1>1. Pending' = Pending
  BY WayIsPending DEF Kept
<1>2. AnnouncedBy(toGui, shown)' = AnnouncedBy(toGui, shown)
  BY DEF IInv, Kept
<1> QED
  BY <1>1, <1>2 DEF Kept, Promise!vars

LEMMA SettledSettles ==
  ASSUME IInv, IInv', NEW d, Settled(d)
  PROVE  Promise!Next
<1>1. d \in DOMAIN dropped /\ web \in [Urls -> Answers]
      /\ dropped \in Seq(Urls) /\ Len(dropped) <= MaxDrops
  BY DEF IInv, Good, Typed, Settled, Way
<1>2. PICK p : p = Ending(web, dropped, d)
  OBVIOUS
<1>3. /\ p \in [of : Drops, end : Files \cup {"error", "endless"}]
      /\ p.end = EndOf(web, dropped[d])
  BY <1>1, <1>2, EndingTyped
<1>4. /\ p \in Awaited(web, dropped, Way)
      /\ Awaited(web', dropped', Way') = Awaited(web, dropped, Way) \ {p}
  <2>1. /\ p \in Awaited(web, dropped, Way)
        /\ Awaited(web, dropped, Way \ {d}) = Awaited(web, dropped, Way) \ {p}
    <3>1. d \in Way
      BY DEF Settled
    <3>2. /\ Ending(web, dropped, d) \in Awaited(web, dropped, Way)
          /\ Awaited(web, dropped, Way \ {d})
               = Awaited(web, dropped, Way) \ {Ending(web, dropped, d)}
      BY <3>1, AwaitedLess, Zenon
    <3> QED
      BY <1>2, <3>2, Zenon
  <2>2. web' = web /\ dropped' = dropped /\ Way' = Way \ {d}
    BY DEF Settled
  <2> QED
    BY <2>1, <2>2
<1>5. /\ AnnouncedBy(toGui, shown) = stored /\ AnnouncedBy(toGui', shown') = stored'
  BY DEF IInv
<1>6. Promise!Settle(p)
  <2>1. /\ p \in {[of |-> e, end |-> EndOf(web, dropped[e])] : e \in Pending}
        /\ {[of |-> e, end |-> EndOf(web', dropped'[e])] : e \in Pending'}
             = {[of |-> e, end |-> EndOf(web, dropped[e])] : e \in Pending} \ {p}
    BY <1>4, WayIsPending DEF Awaited, Ending
  <2>2. UNCHANGED DOMAIN dropped
    BY DEF Settled
  <2>3. stored' = IF p.end \in Files \ ToSet(stored) THEN Append(stored, p.end) ELSE stored
    BY <1>3 DEF Settled
  <2> QED
    BY <1>5, <2>1, <2>2, <2>3 DEF Promise!Settle, ToSet, Promise!ToSet
<1> QED
  BY <1>3, <1>6 DEF Promise!Next, Promise!Pending
--------------------------------------------------------------------------------
(* The steps. *)

LEMMA ListsAre ==
  ASSUME NEW urls \in Lists
  PROVE  urls \in Seq(Urls)
<1>1. PICK n \in Drops : urls \in [1..n -> Urls]
  BY DEF Lists
<1>2. n \in Nat
  BY <1>1, DownloadAssumption DEF Drops
<1> QED
  BY <1>1, <1>2

LEMMA DropStep ==
  ASSUME IInv, NEW urls \in Lists, Drop(urls)
  PROVE  IInv' /\ Promise!Next
<1>1. /\ urls \in Seq(Urls) /\ Len(dropped) + Len(urls) <= MaxDrops
      /\ Good(web, dropped, asked, underWay, toGui, toWriter)
      /\ dropped' = dropped \o urls /\ asked' = asked \o Calls(Len(dropped), urls)
  BY ListsAre DEF IInv, Drop, Calls
<1>2. UNCHANGED <<web, underWay, toGui, toWriter, stored, shown, restarts>>
  BY DEF Drop
<1>3. /\ Good(web, dropped', asked', underWay, toGui, toWriter)
      /\ OnWay(asked', underWay, toGui, toWriter)
           = OnWay(asked, underWay, toGui, toWriter) \cup (DOMAIN dropped' \ DOMAIN dropped)
      /\ DOMAIN dropped \subseteq DOMAIN dropped'
      /\ \A d \in DOMAIN dropped : dropped'[d] = dropped[d]
  <2>1. /\ Gains(web, dropped', asked, underWay, toGui, toWriter,
               asked', underWay, toGui, toWriter, DOMAIN dropped' \ DOMAIN dropped)
        /\ Extends(dropped, dropped')
    BY <1>1, Dropped, Zenon
  <2> QED
    BY <2>1 DEF Gains, Extends
<1>4. IInv'
  BY <1>2, <1>3 DEF IInv
<1>5. /\ web \in [Urls -> Answers] /\ dropped' \in Seq(Urls) /\ Len(dropped') <= MaxDrops
      /\ Way \subseteq DOMAIN dropped
  BY <1>1, <1>3 DEF Good, Typed, Way
<1>6. Way' = Way \cup (DOMAIN dropped' \ DOMAIN dropped)
  BY <1>2, <1>3 DEF Way
<1>7. PICK p, q : p = Awaited(web, dropped, Way) /\ q = Awaited(web, dropped', Way')
  OBVIOUS
<1>8. /\ q \in SUBSET [of : Drops, end : Files \cup {"error", "endless"}] /\ p \subseteq q
      /\ \A x, y \in q : x.of = y.of => x = y
      /\ {x.of : x \in q \ p} = DOMAIN dropped' \ DOMAIN dropped
  <2>1. Adding(p, q, DOMAIN dropped' \ DOMAIN dropped)
    BY <1>3, <1>5, <1>6, <1>7, AwaitedMore, Zenon
  <2> QED
    BY <2>1 DEF Adding
<1>9. /\ p = {[of |-> d, end |-> EndOf(web, dropped[d])] : d \in Pending}
      /\ q = {[of |-> d, end |-> EndOf(web', dropped'[d])] : d \in Pending'}
  BY <1>2, <1>7, WayIsPending DEF Awaited, Ending
<1>10. /\ (DOMAIN dropped' \ DOMAIN dropped) \cap DOMAIN dropped = {}
       /\ DOMAIN dropped' = DOMAIN dropped \cup (DOMAIN dropped' \ DOMAIN dropped)
  BY <1>3
<1>11. AnnouncedBy(toGui', shown') = AnnouncedBy(toGui, shown)
  BY <1>2
<1>12. Promise!Drop
  BY <1>8, <1>9, <1>10, <1>11 DEF Promise!Drop, Promise!Pending
<1> QED
  BY <1>4, <1>12 DEF Promise!Next

LEMMA StartStep ==
  ASSUME IInv, StartDownload
  PROVE  IInv' /\ Kept
<1>1. /\ Good(web, dropped, asked, underWay, toGui, toWriter) /\ asked # <<>>
      /\ asked' = Tail(asked) /\ underWay' = underWay \cup {Head(asked)}
  BY DEF IInv, StartDownload
<1>2. UNCHANGED <<web, dropped, toGui, toWriter, stored, shown, restarts>>
  BY DEF StartDownload
<1>3. /\ Good(web, dropped, asked', underWay', toGui, toWriter)
      /\ OnWay(asked', underWay', toGui, toWriter) = OnWay(asked, underWay, toGui, toWriter)
  <2>1. Moves(web, dropped, asked, underWay, toGui, toWriter, 
              asked', underWay', toGui, toWriter)
    BY <1>1, Started, Zenon
  <2> QED
    BY <2>1 DEF Moves
<1> QED
  BY <1>2, <1>3 DEF IInv, Kept, Way

LEMMA ForwardStep ==
  ASSUME IInv, Forward
  PROVE  IInv' /\ Kept
<1>1. /\ Good(web, dropped, asked, underWay, toGui, toWriter) /\ toGui # <<>>
      /\ Head(toGui).sig = "downloadComplete" /\ toGui' = Tail(toGui)
      /\ toWriter' = Append(toWriter, [of |-> Head(toGui).of, data |-> Head(toGui).data])
  BY DEF IInv, Forward, Received
<1>2. UNCHANGED <<web, dropped, asked, underWay, stored, shown, restarts>>
  BY DEF Forward
<1>3. /\ Good(web, dropped, asked, underWay, toGui', toWriter')
      /\ OnWay(asked, underWay, toGui', toWriter') = OnWay(asked, underWay, toGui, toWriter)
  <2>1. Moves(web, dropped, asked, underWay, toGui, toWriter, 
              asked, underWay, toGui', toWriter')
    BY <1>1, Forwarded, Zenon
  <2> QED
    BY <2>1 DEF Moves
<1>4. AnnouncedBy(toGui', shown) = AnnouncedBy(toGui, shown)
  <2>1. toGui \in Seq(Signals) /\ Adds(shown, Head(toGui)) = shown
    BY <1>1 DEF Good, Typed, Adds
  <2> QED
    BY <1>1, <2>1, SignalTaken
<1> QED
  BY <1>2, <1>3, <1>4 DEF IInv, Kept, Way

LEMMA ReadyStep ==
  ASSUME IInv, ImageReady
  PROVE  IInv' /\ Kept
<1>1. /\ Good(web, dropped, asked, underWay, toGui, toWriter) /\ toGui # <<>>
      /\ Head(toGui).sig = "writeComplete" /\ Head(toGui).sig # "downloadComplete"
      /\ toGui' = Tail(toGui) /\ shown' = Append(shown, Head(toGui).data)
  BY DEF IInv, ImageReady, Received
<1>2. UNCHANGED <<web, dropped, asked, underWay, toWriter, stored, restarts>>
  BY DEF ImageReady
<1>3. /\ Good(web, dropped, asked, underWay, toGui', toWriter)
      /\ OnWay(asked, underWay, toGui', toWriter) = OnWay(asked, underWay, toGui, toWriter)
  <2>1. Moves(web, dropped, asked, underWay, toGui, toWriter, 
              asked, underWay, toGui', toWriter)
    BY <1>1, OtherTaken, Zenon
  <2> QED
    BY <2>1 DEF Moves
<1>4. toGui \in Seq(Signals) /\ Head(toGui) \in Signals /\ shown' = Adds(shown, Head(toGui))
  <2>1. toGui \in Seq(Signals)
    BY <1>1 DEF Good, Typed
  <2> QED
    BY <1>1, <2>1 DEF Adds
<1>5. AnnouncedBy(toGui', shown') = AnnouncedBy(toGui, shown)
  BY <1>1, <1>4, SignalTaken
<1>6. shown' \in Seq(Files)
  <2>1. Head(toGui).data \in Files /\ shown \in Seq(Files)
    BY <1>4, SignalIs DEF IInv
  <2> QED
    BY <1>1, <2>1
<1> QED
  BY <1>2, <1>3, <1>5, <1>6 DEF IInv, Kept, Way

LEMMA FinishedStep ==
  ASSUME IInv, NEW f \in underWay, Finished(f)
  PROVE  IInv' /\ (Kept \/ Settled(f.of))
<1> DEFINE answer == web[f.url]
<1>1. Good(web, dropped, asked, underWay, toGui, toWriter)
  BY DEF IInv
<1>2. UNCHANGED <<web, dropped, asked, toWriter, stored, shown, restarts>>
  BY DEF Finished
<1>3. CASE answer \in Urls
  <2>1. /\ underWay' = (underWay \ {f}) \cup {[f EXCEPT !.url = answer]}
        /\ UNCHANGED toGui
    BY <1>3 DEF Finished
  <2>2. /\ Good(web, dropped, asked, underWay', toGui, toWriter)
        /\ OnWay(asked, underWay', toGui, toWriter) = OnWay(asked, underWay, toGui, toWriter)
    <3>1. Moves(web, dropped, asked, underWay, toGui, toWriter, 
                asked, underWay', toGui, toWriter)
      BY <1>1, <1>3, <2>1, Redirected, Zenon
    <3> QED
      BY <3>1 DEF Moves
  <2> QED
    BY <1>2, <2>1, <2>2 DEF IInv, Kept, Way
<1>4. CASE answer \notin Urls
  <2>1. /\ underWay' = underWay \ {f}
        /\ toGui' = IF answer = "error" THEN toGui ELSE Complete(f, answer)
    BY <1>4 DEF Finished
  <2>2. /\ Good(web, dropped, asked, underWay', toGui, toWriter)
        /\ f.of \in Drops /\ f.of \in OnWay(asked, underWay, toGui, toWriter)
        /\ OnWay(asked, underWay', toGui, toWriter)
             = OnWay(asked, underWay, toGui, toWriter) \ {f.of}
        /\ EndOf(web, dropped[f.of]) = answer
    <3>1. Loses(web, dropped, asked, underWay, toGui, toWriter, 
                asked, underWay', toGui, toWriter, f.of, web[f.url])
      BY <1>1, <1>4, <2>1, Ended, Zenon
    <3> QED
      BY <3>1 DEF Loses
  <2>3. CASE answer = "error"
    <3>1. EndOf(web, dropped[f.of]) \notin Files
      BY <2>2, <2>3, DownloadAssumption
    <3> QED
      BY <1>2, <2>1, <2>2, <2>3, <3>1 DEF IInv, Settled, Way
  <2>4. CASE answer # "error"
    <3>1. f.of \in DOMAIN dropped /\ answer \in Files /\ toGui \in Seq(Signals)
      <4>1. f \in Fetches /\ web \in [Urls -> Answers] /\ toGui \in Seq(Signals)
        BY <1>1 DEF Good, Typed
      <4>2. answer \in Files
        BY <1>4, <2>4, <4>1 DEF Fetches, Answers
      <4>3. f.of \in DOMAIN dropped
        BY <1>1, <2>2 DEF Good
      <4> QED
        BY <4>1, <4>2, <4>3
    <3>2. PICK x : x = [sig |-> "downloadComplete", of |-> f.of, data |-> answer]
      OBVIOUS
    <3>3. toGui' = Append(toGui, x) /\ x \in Signals /\ x.sig # "writeComplete"
      BY <2>1, <2>2, <2>4, <3>1, <3>2 DEF Complete, Signals
    <3>4. f.of \notin OnWay(asked, underWay', toGui, toWriter)
      BY <2>2
    <3>5. /\ Good(web, dropped, asked, underWay', toGui', toWriter)
          /\ OnWay(asked, underWay', toGui', toWriter)
               = OnWay(asked, underWay', toGui, toWriter) \cup {f.of}
      <4>1. Gains(web, dropped, asked, underWay', toGui, toWriter,
                  asked, underWay', toGui', toWriter, {f.of})
        BY <2>2, <3>1, <3>2, <3>3, <3>4, Signalled, Zenon
      <4> QED
        BY <4>1 DEF Gains
    <3>6. OnWay(asked, underWay', toGui', toWriter) = OnWay(asked, underWay, toGui, toWriter)
      BY <2>2, <3>5
    <3>7. AnnouncedBy(toGui', shown) = AnnouncedBy(toGui, shown)
      BY <3>1, <3>3, SignalAppended DEF Adds
    <3> QED
      BY <1>2, <3>5, <3>6, <3>7 DEF IInv, Kept, Way
  <2> QED
    BY <2>3, <2>4
<1> QED
  BY <1>3, <1>4

LEMMA WriteStep ==
  ASSUME IInv, WriteImage
  PROVE  IInv' /\ Settled(Head(toWriter).of)
<1>1. PICK x : x = Head(toWriter)
  OBVIOUS
<1>2. /\ Good(web, dropped, asked, underWay, toGui, toWriter) /\ toWriter # <<>>
      /\ toWriter' = Tail(toWriter)
  BY DEF IInv, WriteImage
<1>3. UNCHANGED <<web, dropped, asked, underWay, shown, restarts>>
  BY DEF WriteImage
<1>4. /\ Good(web, dropped, asked, underWay, toGui, toWriter')
      /\ x.of \in Drops /\ x.data \in Files
      /\ x.of \in OnWay(asked, underWay, toGui, toWriter)
      /\ OnWay(asked, underWay, toGui, toWriter')
           = OnWay(asked, underWay, toGui, toWriter) \ {x.of}
      /\ EndOf(web, dropped[x.of]) = x.data
  <2>1. /\ Loses(web, dropped, asked, underWay, toGui, toWriter, 
                 asked, underWay, toGui, toWriter', x.of, x.data)
        /\ x.data \in Files
    BY <1>1, <1>2, Written, Zenon
  <2> QED
    BY <2>1 DEF Loses
<1>5. CASE x.data \in ToSet(stored)
  <2>1. UNCHANGED <<stored, toGui>>
    BY <1>1, <1>5 DEF WriteImage
  <2> QED
    BY <1>1, <1>3, <1>4, <1>5, <2>1 DEF IInv, Settled, Way
<1>6. CASE x.data \notin ToSet(stored)
  <2>1. PICK y : y = [sig |-> "writeComplete", data |-> x.data]
    OBVIOUS
  <2>2. /\ y \in Signals /\ y.sig = "writeComplete" /\ y.sig # "downloadComplete"
        /\ y.data = x.data
    BY <1>4, <2>1 DEF Signals
  <2>3. stored' = Append(stored, x.data) /\ toGui' = Append(toGui, y)
    BY <1>1, <1>6, <2>1 DEF WriteImage
  <2>4. /\ Good(web, dropped, asked, underWay, toGui', toWriter')
        /\ OnWay(asked, underWay, toGui', toWriter') = OnWay(asked, underWay, toGui, toWriter')
    <3>1. Moves(web, dropped, asked, underWay, toGui, toWriter',
                asked, underWay, toGui', toWriter')
      BY <1>4, <2>2, <2>3, OtherSignalled, Zenon
    <3> QED
      BY <3>1 DEF Moves
  <2>5. toGui \in Seq(Signals) /\ stored \in Seq(Files) /\ AnnouncedBy(toGui, shown) = stored
    BY <1>2 DEF Good, Typed, IInv
  <2>6. AnnouncedBy(toGui', shown) = Adds(stored, y)
    BY <2>2, <2>3, <2>5, SignalAppended
  <2>7. AnnouncedBy(toGui', shown) = stored' /\ stored' \in Seq(Files)
    BY <1>4, <2>2, <2>3, <2>5, <2>6 DEF Adds
  <2>8. IInv'
    BY <1>3, <2>4, <2>7 DEF IInv
  <2>9. Way' = Way \ {x.of}
    BY <1>3, <1>4, <2>4 DEF Way
  <2> QED
    BY <1>1, <1>3, <1>4, <1>6, <2>3, <2>8, <2>9 DEF Settled, Way
<1> QED
  BY <1>5, <1>6

LEMMA RestartStep ==
  ASSUME IInv, Restart
  PROVE  IInv' /\ Promise!Next
<1>1. /\ restarts' = restarts + 1 /\ restarts < MaxRestarts
      /\ asked' = <<>> /\ underWay' = {} /\ toGui' = <<>> /\ toWriter' = <<>>
      /\ shown' = stored /\ web' = web /\ dropped' = dropped /\ stored' = stored
  BY DEF Restart
<1>2. web \in [Urls -> Answers] /\ dropped \in Seq(Urls) /\ Len(dropped) <= MaxDrops
  BY DEF IInv, Good, Typed
<1>3. Good(web, dropped, <<>>, {}, <<>>, <<>>) /\ OnWay(<<>>, {}, <<>>, <<>>) = {}
  BY <1>2, Forgotten
<1>4. AnnouncedBy(toGui', shown') = stored'
  BY <1>1, NoneAnnounced
<1>5. restarts' \in 0..MaxRestarts
  BY <1>1, DownloadAssumption DEF IInv
<1>6. IInv'
  BY <1>1, <1>3, <1>4, <1>5 DEF IInv
<1>7. {[of |-> d, end |-> EndOf(web', dropped'[d])] : d \in Pending'} = {}
  <2>1. Pending' = {}
    BY <1>1, <1>3, WayIsPending DEF Way
  <2> QED
    BY <2>1
<1>8. AnnouncedBy(toGui', shown') = AnnouncedBy(toGui, shown)
  BY <1>1, <1>4 DEF IInv
<1>9. Promise!Restart
  BY <1>1, <1>7, <1>8 DEF Promise!Restart
<1> QED
  BY <1>6, <1>9 DEF Promise!Next

LEMMA InitIInv == Init => IInv
<1> SUFFICES ASSUME Init
             PROVE  IInv
  OBVIOUS
<1>1. /\ web \in [Urls -> Answers] /\ dropped = <<>> /\ asked = <<>> /\ underWay = {}
      /\ toGui = <<>> /\ toWriter = <<>> /\ stored = <<>> /\ shown = <<>> /\ restarts = 0
  BY DEF Init
<1>2. dropped \in Seq(Urls) /\ Len(dropped) <= MaxDrops /\ restarts \in 0..MaxRestarts
      /\ stored \in Seq(Files) /\ shown \in Seq(Files)
  BY <1>1, DownloadAssumption
<1>3. Good(web, dropped, <<>>, {}, <<>>, <<>>)
  BY <1>1, <1>2, Forgotten
<1> QED
  BY <1>1, <1>2, <1>3, NoneAnnounced DEF IInv

LEMMA StepIInv ==
  ASSUME IInv, [Next]_vars
  PROVE  IInv' /\ [Promise!Next]_Promise!vars
<1>1. ASSUME IInv', Kept
      PROVE  UNCHANGED Promise!vars
  BY <1>1, KeptStutters
<1>2. ASSUME NEW urls \in Lists, Drop(urls)
      PROVE  IInv' /\ Promise!Next
  BY <1>2, DropStep
<1>3. CASE Forward
  BY <1>1, <1>3, ForwardStep
<1>4. CASE ImageReady
  BY <1>1, <1>4, ReadyStep
<1>5. CASE StartDownload
  BY <1>1, <1>5, StartStep
<1>6. CASE WriteImage
  BY <1>6, WriteStep, SettledSettles
<1>7. ASSUME NEW f \in underWay, Finished(f)
      PROVE  IInv' /\ [Promise!Next]_Promise!vars
  BY <1>1, <1>7, FinishedStep, SettledSettles
<1>8. CASE Restart
  BY <1>8, RestartStep
<1>9. CASE UNCHANGED vars
  <2>1. IInv' /\ Kept
    BY <1>9 DEF vars, IInv, Kept, Way
  <2> QED
    BY <1>1, <2>1
<1> QED
  BY <1>2, <1>3, <1>4, <1>5, <1>6, <1>7, <1>8, <1>9 DEF Next, GuiStep

LEMMA Invariant == Spec => []IInv
<1>1. IInv /\ [Next]_vars => IInv'
  BY StepIInv
<1> QED
  BY <1>1, InitIInv, PTL DEF Spec

\* Calls, requests and signals are for URLs that were dropped (ImageFetcher,
\* deferredWriteImage, writeImage).
THEOREM OnItsWay == Spec => []TypeOK
  BY Invariant, InvariantTypes, PTL

\* No drop is in two places at a time, and whatever is on its way for a drop leads to, or
\* is, the end of the redirects of its URL (downloadFinished, deferredWriteImage).
THEOREM NothingMixedUp ==
  Spec => [](/\ Once(asked, underWay, toGui, toWriter)
             /\ Faithful(web, dropped, asked, underWay, toGui, toWriter))
<1>1. IInv => /\ Once(asked, underWay, toGui, toWriter)
              /\ Faithful(web, dropped, asked, underWay, toGui, toWriter)
  BY DEF IInv, Good
<1> QED
  BY <1>1, Invariant, PTL

\* Whatever the network answers, in whatever order and however the threads take turns, a
\* URL is settled once, by the end of its redirects, which is stored once and shown once,
\* in the order of storing (downloadFinished, writeImage, onImageReady, all).
THEOREM ImportsKept == Spec => Promise!Init /\ [][Promise!Next]_Promise!vars
<1>1. Init => Promise!Init
  <2> SUFFICES ASSUME Init
               PROVE  Promise!Init
    OBVIOUS
  <2>1. /\ dropped = <<>> /\ asked = <<>> /\ underWay = {} /\ toGui = <<>>
        /\ toWriter = <<>> /\ shown = <<>>
    BY DEF Init
  <2>2. OnWay(<<>>, {}, <<>>, <<>>) = {}
    BY DEF OnWay, Of, Numbers, Told, OfAt, Completed
  <2>3. Pending = {}
    BY <2>1, <2>2, WayIsPending DEF Way
  <2>4. AnnouncedBy(toGui, shown) = <<>>
    BY <2>1, NoneAnnounced
  <2>5. DOMAIN dropped = {}
    BY <2>1
  <2> QED
    BY <2>3, <2>4, <2>5 DEF Promise!Init
<1>2. IInv /\ [Next]_vars => [Promise!Next]_Promise!vars
  BY StepIInv
<1> QED
  BY <1>1, <1>2, Invariant, PTL DEF Spec
====
