--------------------------- MODULE ImageMetadataProofs ---------------------------
(***************************************************************************)
(* Proofs about what is done with image metadata: autoCrop finds the right *)
(* box in images of any size, and the search for duplicates lists the      *)
(* right images for any images, any hashes, and any relation of nearness.  *)
(***************************************************************************)
EXTENDS AutoCrop, Duplicates, FiniteSetTheorems, FunctionTheorems, WellFoundedInduction, TLAPS
--------------------------------------------------------------------------------
(* Cropping. *)

\* What is known once the rows before n have been scanned for the left edge.
LeftKnown(n) ==
  /\ \A p \in differs : (p[2] < n \/ left = 0 => left <= p[1]) /\ top <= p[2]
  /\ left < cols => /\ \E p \in differs : p[1] = left
                 /\ \E p \in differs : p[2] \in {top, top + 1}
  /\ left = cols => top = (IF n = 0 THEN 0 ELSE n - 1)

\* What is known once the rows after n have been scanned for the right edge.
RightKnown(n) ==
  /\ \A p \in differs : (n < p[2] \/ right = cols => p[1] < right) /\ p[2] < bottom
  /\ right > 0 => /\ \E p \in differs : p[1] = right - 1
                  /\ \E p \in differs : p[2] = bottom - 1
  /\ right = 0 => bottom = n + 1

LoopsKnow ==
  /\ loop = "down" => row \in 0..rows /\ LeftKnown(row) /\ right = 0 /\ bottom = rows
  /\ loop \in {"up", "cut"} => LeftKnown(rows) /\ RightKnown(IF loop = "up" THEN row ELSE -1)
  /\ loop = "up" => row \in -1..rows-1

CropInv == EdgesInImage /\ LoopsKnow /\ BoxTight
--------------------------------------------------------------------------------
LEMMA PixelsIn ==
  ASSUME EdgesInImage, NEW p \in differs
  PROVE  /\ p[1] \in 0..cols-1 /\ p[2] \in 0..rows-1
         /\ p = <<p[1], p[2]>> /\ cols \in Nat /\ rows \in Nat
  BY SizeAssumption DEF EdgesInImage

LEMMA CropStarts == CropInit => CropInv
<1> SUFFICES ASSUME CropInit PROVE CropInv
  OBVIOUS
<1>1. EdgesInImage
  BY SizeAssumption DEF CropInit, EdgesInImage
<1>2. LoopsKnow
  BY <1>1, PixelsIn, SizeAssumption DEF CropInit, LoopsKnow, LeftKnown, EdgesInImage
<1>3. BoxTight
  BY DEF CropInit, BoxTight
<1>4. QED
  BY <1>1, <1>2, <1>3 DEF CropInv

LEMMA DownKeeps == CropInv /\ ScanDown => CropInv'
<1> SUFFICES ASSUME CropInv, ScanDown PROVE CropInv'
  OBVIOUS
<1>1. /\ loop = "down" /\ row \in 0..rows-1 /\ LeftKnown(row) /\ right = 0 /\ bottom = rows
      /\ cols \in Nat \ {0} /\ rows \in Nat \ {0} /\ left \in 1..cols /\ top \in 0..rows
  BY SizeAssumption DEF CropInv, LoopsKnow, ScanDown, EdgesInImage
<1>2. PICK x \in 0..cols : FromLeft(x) /\ top' = (IF x = cols THEN row ELSE top) /\ left' = x
  BY DEF ScanDown
<1>3. /\ row' = row + 1 /\ loop' = "down" /\ cols' = cols /\ rows' = rows /\ differs' = differs
      /\ right' = 0 /\ bottom' = rows
  BY <1>1 DEF ScanDown
<1>4. \A p \in differs : /\ p[1] \in 0..cols-1 /\ p[2] \in 0..rows-1
                         /\ p[2] = row => p[1] \in Differing
  BY PixelsIn DEF Differing, CropInv
<1>5. x \in 0..left /\ (x = left \/ <<x, row>> \in differs)
  BY <1>2 DEF FromLeft, Differing
<1>6. \A p \in differs : p[2] < row + 1 => x <= p[1]
  <2>1. TAKE p \in differs
  <2>2. CASE p[2] < row
    BY <2>2, <1>1, <1>4, <1>5 DEF LeftKnown
  <2>3. CASE p[2] = row
    <3>1. p[1] \in Differing
      BY <2>3, <1>4
    <3>2. p[1] < left => x <= p[1]
      BY <3>1, <1>2 DEF FromLeft
    <3>3. QED
      BY <3>2, <1>1, <1>4, <1>5
  <2>4. QED
    BY <2>2, <2>3, <1>1, <1>4
<1>7. EdgesInImage'
  BY <1>1, <1>2, <1>3, <1>5 DEF EdgesInImage, CropInv
<1>8. LeftKnown(row)'
  <2>1. CASE x = cols
    <3>1. left = cols /\ left' = cols /\ top' = row
      BY <2>1, <1>1, <1>2, <1>5
    <3>2. \A p \in differs : row < p[2]
      BY <2>1, <1>1, <1>4, <1>6
    <3>3. QED
      BY <3>1, <3>2, <1>1, <1>3, <1>4, <1>6 DEF LeftKnown
  <2>2. CASE x < cols /\ x = left
    BY <2>2, <1>1, <1>2, <1>3, <1>4, <1>6 DEF LeftKnown
  <2>3. CASE x < left
    <3>1. <<x, row>> \in differs /\ left' = x /\ top' = top
      BY <2>3, <1>1, <1>2, <1>5
    <3>2. \E p \in differs : p[1] = x
      BY <3>1
    <3>3. \E p \in differs : p[2] \in {top, top + 1}
      <4>1. CASE left < cols
        BY <4>1, <1>1 DEF LeftKnown
      <4>2. CASE left = cols
        <5>1. row \in {top, top + 1}
          BY <4>2, <1>1 DEF LeftKnown
        <5>2. <<x, row>>[2] \in {top, top + 1}
          BY <5>1
        <5>3. QED
          BY <5>2, <3>1
      <4>3. QED
        BY <4>1, <4>2, <1>1
    <3>4. \A p \in differs : (p[2] < row + 1 \/ x = 0 => x <= p[1]) /\ top <= p[2]
      BY <1>1, <1>4, <1>6 DEF LeftKnown
    <3>5. x < cols
      BY <2>3, <1>1, <1>5
    <3>6. QED
      BY <3>1, <3>2, <3>3, <3>4, <3>5, <1>3 DEF LeftKnown
  <2>4. QED
    BY <2>1, <2>2, <2>3, <1>1, <1>5
<1>9. LoopsKnow'
  BY <1>8, <1>3, <1>1 DEF LoopsKnow, LeftKnown
<1>10. BoxTight'
  BY <1>3 DEF BoxTight
<1>11. QED
  BY <1>7, <1>9, <1>10 DEF CropInv

LEMMA UpKeeps == CropInv /\ ScanUp => CropInv'
<1> SUFFICES ASSUME CropInv, ScanUp PROVE CropInv'
  OBVIOUS
<1>1. /\ loop = "up" /\ row \in 0..rows-1 /\ LeftKnown(rows) /\ RightKnown(row)
      /\ cols \in Nat \ {0} /\ rows \in Nat \ {0} /\ right \in 0..cols-1 /\ bottom \in 0..rows
  BY SizeAssumption DEF CropInv, LoopsKnow, ScanUp, EdgesInImage
<1>2. PICK x \in -1..cols-1 : /\ FromRight(x) /\ right' = x + 1
                              /\ bottom' = (IF x = -1 THEN row ELSE bottom)
  BY DEF ScanUp
<1>3. /\ row' = row - 1 /\ loop' = "up" /\ cols' = cols /\ rows' = rows /\ differs' = differs
      /\ left' = left /\ top' = top
  BY <1>1 DEF ScanUp
<1>4. \A p \in differs : /\ p[1] \in 0..cols-1 /\ p[2] \in 0..rows-1
                         /\ p[2] = row => p[1] \in Differing
  BY PixelsIn DEF Differing, CropInv
<1>5. x \in right-1..cols-1 /\ (x = right - 1 \/ <<x, row>> \in differs)
  BY <1>2 DEF FromRight, Differing
<1>6. \A p \in differs : row - 1 < p[2] => p[1] < x + 1
  <2>1. TAKE p \in differs
  <2>2. CASE row < p[2]
    BY <2>2, <1>1, <1>4, <1>5 DEF RightKnown
  <2>3. CASE p[2] = row
    <3>1. p[1] \in Differing
      BY <2>3, <1>4
    <3>2. right <= p[1] => p[1] <= x
      BY <3>1, <1>2 DEF FromRight
    <3>3. QED
      BY <3>2, <1>1, <1>4, <1>5
  <2>4. QED
    BY <2>2, <2>3, <1>1, <1>4
<1>7. EdgesInImage'
  BY <1>1, <1>2, <1>3, <1>5 DEF EdgesInImage, CropInv
<1>8. RightKnown(row)'
  <2>1. CASE x = -1
    <3>1. right = 0 /\ right' = 0 /\ bottom' = row
      BY <2>1, <1>1, <1>2, <1>5
    <3>2. \A p \in differs : p[2] < row
      BY <2>1, <1>1, <1>4, <1>6
    <3>3. QED
      BY <3>1, <3>2, <1>1, <1>3, <1>4, <1>6 DEF RightKnown
  <2>2. CASE x # -1 /\ x = right - 1
    BY <2>2, <1>1, <1>2, <1>3, <1>4, <1>6 DEF RightKnown
  <2>3. CASE x >= right
    <3>1. <<x, row>> \in differs /\ right' = x + 1 /\ bottom' = bottom
      BY <2>3, <1>1, <1>2, <1>5
    <3>2. \E p \in differs : p[1] = (x + 1) - 1
      BY <3>1, <1>5, <1>1
    <3>3. \E p \in differs : p[2] = bottom - 1
      <4>1. CASE right > 0
        BY <4>1, <1>1 DEF RightKnown
      <4>2. CASE right = 0
        <5>1. <<x, row>>[2] = bottom - 1
          BY <4>2, <1>1 DEF RightKnown
        <5>2. QED
          BY <5>1, <3>1
      <4>3. QED
        BY <4>1, <4>2, <1>1
    <3>4. \A p \in differs : (row - 1 < p[2] \/ x + 1 = cols => p[1] < x + 1) /\ p[2] < bottom
      BY <1>1, <1>4, <1>6 DEF RightKnown
    <3>5. x + 1 > 0
      BY <2>3, <1>1, <1>5
    <3>6. QED
      BY <3>1, <3>2, <3>3, <3>4, <3>5, <1>3 DEF RightKnown
  <2>4. QED
    BY <2>1, <2>2, <2>3, <1>1, <1>5
<1>9. LeftKnown(rows)'
  BY <1>1, <1>3 DEF LeftKnown
<1>10. LoopsKnow'
  BY <1>8, <1>9, <1>3, <1>1 DEF LoopsKnow, RightKnown
<1>11. BoxTight'
  BY <1>3 DEF BoxTight
<1>12. QED
  BY <1>7, <1>10, <1>11 DEF CropInv

LEMMA TurnKeeps == CropInv /\ (TurnBack \/ LeaveLoop) => CropInv'
<1>1. ASSUME CropInv, TurnBack PROVE CropInv'
  <2>1. /\ loop = "down" /\ row \in 0..rows /\ LeftKnown(row) /\ right = 0 /\ bottom = rows
        /\ cols \in Nat \ {0} /\ rows \in Nat \ {0}
        /\ (row = rows \/ left = 0) /\ left \in 0..cols
    BY <1>1, SizeAssumption DEF CropInv, LoopsKnow, TurnBack, EdgesInImage
  <2>2. \A p \in differs : p[1] \in 0..cols-1 /\ p[2] \in 0..rows-1
    BY <1>1, PixelsIn DEF CropInv
  <2>3. LeftKnown(rows)' /\ RightKnown(rows - 1)'
    BY <1>1, <2>1, <2>2 DEF LeftKnown, RightKnown, TurnBack, edges
  <2>4. EdgesInImage'
    BY <1>1, <2>1 DEF CropInv, EdgesInImage, TurnBack, edges
  <2>5. LoopsKnow' /\ BoxTight'
    BY <1>1, <2>1, <2>3 DEF LoopsKnow, BoxTight, TurnBack, RightKnown, edges
  <2>6. QED
    BY <2>4, <2>5 DEF CropInv
<1>2. ASSUME CropInv, LeaveLoop PROVE CropInv'
  <2>1. /\ loop = "up" /\ row \in -1..rows-1 /\ LeftKnown(rows) /\ RightKnown(row)
        /\ cols \in Nat \ {0} /\ rows \in Nat \ {0}
        /\ (row = -1 \/ right = cols) /\ right \in 0..cols
    BY <1>2, SizeAssumption DEF CropInv, LoopsKnow, LeaveLoop, EdgesInImage
  <2>2. \A p \in differs : p[1] \in 0..cols-1 /\ p[2] \in 0..rows-1
    BY <1>2, PixelsIn DEF CropInv
  <2>3. LeftKnown(rows)' /\ RightKnown(-1)'
    BY <1>2, <2>1, <2>2 DEF LeftKnown, RightKnown, LeaveLoop, edges
  <2>4. EdgesInImage'
    BY <1>2, <2>1 DEF CropInv, EdgesInImage, LeaveLoop, edges
  <2>5. LoopsKnow' /\ BoxTight'
    BY <1>2, <2>1, <2>3 DEF LoopsKnow, BoxTight, LeaveLoop, edges
  <2>6. QED
    BY <2>4, <2>5 DEF CropInv
<1>3. QED
  BY <1>1, <1>2

LEMMA CutKeeps == CropInv /\ Cut => CropInv'
<1> SUFFICES ASSUME CropInv, Cut PROVE CropInv'
  OBVIOUS
<1>1. /\ loop = "cut" /\ LeftKnown(rows) /\ RightKnown(-1)
      /\ cols \in Nat \ {0} /\ rows \in Nat \ {0}
      /\ left \in 0..cols /\ right \in 0..cols /\ top \in 0..rows /\ bottom \in 0..rows
  BY SizeAssumption DEF CropInv, LoopsKnow, Cut, EdgesInImage
<1>2. loop' = "done" /\ differs' = differs /\ cols' = cols /\ rows' = rows /\ row' = row
  BY DEF Cut
<1>3. \A p \in differs : /\ p[1] \in 0..cols-1 /\ p[2] \in 0..rows-1 /\ p = <<p[1], p[2]>>
  BY PixelsIn DEF CropInv
<1>4. EdgesInImage'
  BY <1>1, <1>2 DEF CropInv, EdgesInImage, Cut, edges
<1>5. BoxTight'
  <2>1. CASE differs = {}
    <3>1. right = 0 /\ bottom = 0
      BY <2>1, <1>1 DEF RightKnown
    <3>2. edges' = <<0, 0, 1, 1>>
      BY <3>1, <1>1 DEF Cut, edges
    <3>3. QED
      BY <3>2, <2>1, <1>2 DEF BoxTight
  <2>2. CASE differs # {}
    <3>1. PICK q \in differs : TRUE
      BY <2>2
    <3>2. left <= q[1] /\ q[1] < right /\ top <= q[2] /\ q[2] < bottom
      BY <3>1, <1>1, <1>3 DEF LeftKnown, RightKnown
    <3>3. ~(bottom <= top) /\ left < cols /\ right > 0
      BY <3>1, <3>2, <1>1, <1>3
    <3>4. left' = left /\ top' = top /\ right' = right /\ bottom' = bottom
      BY <3>3 DEF Cut, edges
    <3>5. \A p \in differs : p[1] \in left..right-1 /\ p[2] \in top..bottom-1
      BY <1>1, <1>3 DEF LeftKnown, RightKnown
    <3>6. differs \subseteq (left..right-1) \X (top..bottom-1)
      BY <3>5, <1>3
    <3>7. /\ \E p \in differs : p[1] = left
          /\ \E p \in differs : p[1] = right - 1
          /\ \E p \in differs : p[2] = bottom - 1
          /\ \E p \in differs : p[2] \in {top, top + 1}
      BY <3>3, <1>1 DEF LeftKnown, RightKnown
    <3>8. QED
      BY <3>4, <3>6, <3>7, <2>2, <1>2 DEF BoxTight
  <2>3. QED
    BY <2>1, <2>2
<1>6. LoopsKnow'
  BY <1>2 DEF LoopsKnow
<1>7. QED
  BY <1>4, <1>5, <1>6 DEF CropInv

LEMMA CropAlways == CropSpec => []CropInv
<1>1. CropInv /\ [CropNext]_cropVars => CropInv'
  <2>1. ASSUME CropInv, UNCHANGED cropVars PROVE CropInv'
    BY <2>1
    DEF CropInv, EdgesInImage, LoopsKnow, LeftKnown, RightKnown, BoxTight, cropVars, edges
  <2>2. QED
    BY <2>1, DownKeeps, UpKeeps, TurnKeeps, CutKeeps DEF CropNext
<1>2. QED
  BY CropStarts, <1>1, PTL DEF CropSpec

\* For images of any size no row outside the image is read, and the edges never leave it
\* (the loops of autoCrop).
THEOREM CropStaysInImage == CropSpec => []EdgesInImage
<1>1. CropInv => EdgesInImage
  BY DEF CropInv
<1>2. QED
  BY CropAlways, <1>1, PTL

\* For images of any size and content autoCrop returns the box that BoxTight describes.
THEOREM CropsToBox == CropSpec => []BoxTight
<1>1. CropInv => BoxTight
  BY DEF CropInv
<1>2. QED
  BY CropAlways, <1>1, PTL
--------------------------------------------------------------------------------
(* Sequences without duplicates. *)

Unique(s) == \A m, n \in DOMAIN s : s[m] = s[n] => m = n

LEMMA Concatenated ==
  ASSUME NEW S, NEW a \in Seq(S), NEW b \in Seq(S)
  PROVE  /\ a \o b \in Seq(S) /\ Len(a) \in Nat /\ Len(b) \in Nat
         /\ DOMAIN a = 1..Len(a) /\ DOMAIN b = 1..Len(b)
         /\ DOMAIN (a \o b) = 1..(Len(a) + Len(b))
         /\ \A n \in 1..(Len(a) + Len(b)) :
              (a \o b)[n] = IF n <= Len(a) THEN a[n] ELSE b[n - Len(a)]
OBVIOUS

\* Where the elements of a concatenation come from.
LEMMA Concatenation ==
  ASSUME NEW S, NEW a \in Seq(S), NEW b \in Seq(S), NEW c, c = a \o b
  PROVE  /\ c \in Seq(S) /\ DOMAIN c = 1..(Len(a) + Len(b))
         /\ Len(a) \in Nat /\ Len(b) \in Nat
         /\ \A n \in DOMAIN c : \/ n \in DOMAIN a /\ c[n] = a[n]
                                \/ n - Len(a) \in DOMAIN b /\ c[n] = b[n - Len(a)]
         /\ \A n \in DOMAIN a : n \in DOMAIN c /\ c[n] = a[n]
         /\ \A n \in DOMAIN b : n + Len(a) \in DOMAIN c /\ c[n + Len(a)] = b[n]
<1>1. PICK p \in Nat : p = Len(a)
  OBVIOUS
<1>2. PICK q \in Nat : q = Len(b)
  OBVIOUS
<1>3. /\ c \in Seq(S) /\ DOMAIN a = 1..p /\ DOMAIN b = 1..q /\ DOMAIN c = 1..(p + q)
      /\ \A n \in 1..(p + q) : c[n] = IF n <= p THEN a[n] ELSE b[n - p]
  BY <1>1, <1>2, Concatenated
<1>4. ASSUME NEW n \in 1..(p + q)
      PROVE  \/ n \in 1..p /\ c[n] = a[n]
             \/ n - p \in 1..q /\ c[n] = b[n - p]
  BY <1>3
<1>5. ASSUME NEW n \in 1..p PROVE n \in 1..(p + q) /\ c[n] = a[n]
  BY <1>3
<1>6. ASSUME NEW n \in 1..q PROVE n + p \in 1..(p + q) /\ c[n + p] = b[n]
  <2>1. n + p \in 1..(p + q) /\ ~ (n + p <= p) /\ n + p - p = n
    OBVIOUS
  <2> QED
    BY <1>3, <2>1
<1> QED
  BY <1>1, <1>2, <1>3, <1>4, <1>5, <1>6

LEMMA UniqueConcatenation ==
  ASSUME NEW S, NEW a \in Seq(S), NEW b \in Seq(S), NEW c, c = a \o b
  PROVE  /\ \A y : y \in Elements(c) <=> y \in Elements(a) \/ y \in Elements(b)
         /\ Unique(a) /\ Unique(b) /\ Elements(a) \cap Elements(b) = {} => Unique(c)
<1>1. PICK p \in Nat : p = Len(a)
  OBVIOUS
<1>2. /\ \A n \in DOMAIN c : \/ n \in DOMAIN a /\ c[n] = a[n]
                             \/ n - p \in DOMAIN b /\ c[n] = b[n - p]
      /\ \A n \in DOMAIN a : n \in DOMAIN c /\ c[n] = a[n]
      /\ \A n \in DOMAIN b : n + p \in DOMAIN c /\ c[n + p] = b[n]
      /\ \A n \in DOMAIN c : n \in Int
  BY <1>1, Concatenation
<1>3. Elements(c) = Elements(a) \cup Elements(b)
  <2>1. \A n \in DOMAIN c : c[n] \in Elements(a) \cup Elements(b)
    BY <1>2 DEF Elements
  <2>2. \A n \in DOMAIN a : a[n] \in Elements(c)
    BY <1>2 DEF Elements
  <2>3. \A n \in DOMAIN b : b[n] \in Elements(c)
    BY <1>2 DEF Elements
  <2>4. PICK A : A = Elements(a)
    OBVIOUS
  <2>5. PICK B : B = Elements(b)
    OBVIOUS
  <2>6. Elements(c) \subseteq A \cup B
    BY <2>1, <2>4, <2>5 DEF Elements
  <2>7. A \subseteq Elements(c) /\ B \subseteq Elements(c)
    <3>1. A \subseteq Elements(c)
      BY <2>2, <2>4 DEF Elements
    <3>2. B \subseteq Elements(c)
      BY <2>3, <2>5 DEF Elements
    <3> QED
      BY <3>1, <3>2
  <2> QED
    BY <2>4, <2>5, <2>6, <2>7
<1>4. ASSUME Unique(a), Unique(b), Elements(a) \cap Elements(b) = {}
      PROVE  Unique(c)
  <2>1. ASSUME NEW m \in DOMAIN c, NEW n \in DOMAIN c, c[m] = c[n] PROVE m = n
    <3>1. \A k \in DOMAIN a, l \in DOMAIN b : a[k] # b[l]
      BY <1>4 DEF Elements
    <3>2. CASE m \in DOMAIN a /\ c[m] = a[m] /\ n \in DOMAIN a /\ c[n] = a[n]
      BY <1>4, <2>1, <3>2 DEF Unique
    <3>3. CASE /\ m - p \in DOMAIN b /\ c[m] = b[m - p]
               /\ n - p \in DOMAIN b /\ c[n] = b[n - p]
      <4>1. m - p = n - p
        BY <1>4, <2>1, <3>3 DEF Unique
      <4> QED
        BY <1>2, <4>1
    <3> QED
      BY <1>2, <2>1, <3>1, <3>2, <3>3
  <2> QED
    BY <2>1 DEF Unique
<1> QED
  BY <1>3, <1>4

LEMMA AppendedPlaces ==
  ASSUME NEW S, NEW s \in Seq(S), NEW x \in S, NEW t, t = Append(s, x)
  PROVE  /\ t \in Seq(S) /\ Len(t) = Len(s) + 1 /\ Len(s) \in Nat
         /\ DOMAIN s = 1..Len(s) /\ DOMAIN t = 1..(Len(s) + 1)
         /\ t[Len(s) + 1] = x /\ \A n \in 1..Len(s) : t[n] = s[n]
         /\ \A n \in 1..(Len(s) + 1) : n = Len(s) + 1 \/ n \in 1..Len(s)
         /\ \A n \in 1..Len(s) : n \in 1..(Len(s) + 1)
         /\ Len(s) + 1 \in 1..(Len(s) + 1)
OBVIOUS

Appends(S, s, x, t) == s \in Seq(S) /\ x \in S /\ t = Append(s, x)
Adds(s, x, t) == \A y : y \in Elements(t) <=> y \in Elements(s) \/ y = x

LEMMA AppendedElements ==
  ASSUME NEW S, NEW s, NEW x, NEW t, Appends(S, s, x, t)
  PROVE  Adds(s, x, t)
<1> SUFFICES ASSUME NEW y PROVE y \in Elements(t) <=> y \in Elements(s) \/ y = x
  BY DEF Adds
<1>0. s \in Seq(S) /\ x \in S /\ t = Append(s, x)
  BY DEF Appends
<1>1. PICK m \in Nat : m = Len(s)
  BY <1>0
<1>2. /\ DOMAIN s = 1..m /\ DOMAIN t = 1..(m + 1)
      /\ t[m + 1] = x /\ \A n \in 1..m : t[n] = s[n]
      /\ \A n \in 1..(m + 1) : n = m + 1 \/ n \in 1..m
      /\ \A n \in 1..m : n \in 1..(m + 1)
      /\ m + 1 \in 1..(m + 1)
  BY <1>0, <1>1, AppendedPlaces
<1>3. ASSUME y \in Elements(t) PROVE y \in Elements(s) \/ y = x
  <2>1. PICK n \in 1..(m + 1) : y = t[n]
    BY <1>2, <1>3 DEF Elements
  <2> QED
    BY <1>2, <2>1 DEF Elements
<1>4. ASSUME y \in Elements(s) PROVE y \in Elements(t)
  <2>1. PICK n \in 1..m : y = s[n]
    BY <1>2, <1>4 DEF Elements
  <2>2. y = t[n] /\ n \in DOMAIN t
    BY <1>2, <2>1
  <2> QED
    BY <2>2 DEF Elements
<1>5. x \in Elements(t)
  BY <1>2 DEF Elements
<1> QED
  BY <1>3, <1>4, <1>5

LEMMA Appended ==
  ASSUME NEW S, NEW s \in Seq(S), NEW x \in S, NEW t, t = Append(s, x)
  PROVE  /\ t \in Seq(S) /\ Len(t) = Len(s) + 1 /\ Len(s) \in Nat
         /\ Unique(s) /\ x \notin Elements(s) => Unique(t)
<1>1. PICK m \in Nat : m = Len(s)
  OBVIOUS
<1>2. /\ t \in Seq(S) /\ Len(t) = m + 1 /\ DOMAIN s = 1..m /\ DOMAIN t = 1..(m + 1)
      /\ t[m + 1] = x /\ \A n \in 1..m : t[n] = s[n]
      /\ \A n \in 1..(m + 1) : n = m + 1 \/ n \in 1..m
  BY <1>1, AppendedPlaces
<1>3. ASSUME Unique(s), x \notin Elements(s) PROVE Unique(t)
  <2>1. \A n \in 1..m : s[n] # x
    BY <1>2, <1>3 DEF Elements
  <2> QED
    BY <1>2, <1>3, <2>1 DEF Unique
<1> QED
  BY <1>1, <1>2, <1>3

LEMMA UniqueLength ==
  ASSUME NEW S, NEW s \in Seq(S), Unique(s)
  PROVE  Len(s) = Cardinality(Elements(s)) /\ IsFiniteSet(Elements(s))
<1>1. PICK m \in Nat : m = Len(s)
  OBVIOUS
<1>2. DOMAIN s = 1..m /\ s = [n \in 1..m |-> s[n]]
  BY <1>1
<1>3. s \in Surjection(1..m, Elements(s))
  <2>1. s \in [1..m -> Elements(s)] /\ \A x \in Elements(s) : \E n \in 1..m : s[n] = x
    BY <1>2 DEF Elements
  <2> QED
    BY <2>1 DEF Surjection
<1>4. s \in Injection(1..m, Elements(s))
  <2>1. s \in [1..m -> Elements(s)]
    BY <1>2 DEF Elements
  <2>2. \A k, n \in 1..m : s[k] = s[n] => k = n
    BY <1>2 DEF Unique
  <2> QED
    BY <2>1, <2>2 DEF Injection, IsInjective
<1>5. 1 \in Int /\ m \in Int
  OBVIOUS
<1>6. IsFiniteSet(1..m) /\ Cardinality(1..m) = IF 1 > m THEN 0 ELSE m - 1 + 1
  BY <1>5, FS_Interval
<1>7. Cardinality(1..m) = m
  BY <1>6
<1>8. /\ IsFiniteSet(Elements(s))
      /\ Cardinality(Elements(s)) = Cardinality(1..m)
  BY <1>3, <1>4, <1>6, FS_Surjection
<1> QED
  BY <1>1, <1>7, <1>8

\* A list without duplicates is longer than one if it has two elements.
LEMMA TwoElements ==
  ASSUME NEW S, NEW s \in Seq(S), Unique(s)
  PROVE  /\ Len(s) > 1 <=> \E x, y \in Elements(s) : x # y
         /\ s = <<>> <=> Elements(s) = {}
<1>1. PICK m \in Nat : m = Len(s)
  OBVIOUS
<1>2. DOMAIN s = 1..m /\ (s = <<>> <=> m = 0)
  BY <1>1
<1>3. ASSUME m > 1 PROVE \E x, y \in Elements(s) : x # y
  <2>1. 1 \in DOMAIN s /\ 2 \in DOMAIN s
    BY <1>2, <1>3
  <2>2. s[1] # s[2]
    BY <2>1 DEF Unique
  <2> QED
    BY <2>1, <2>2 DEF Elements
<1>4. ASSUME NEW x \in Elements(s), NEW y \in Elements(s), x # y PROVE m > 1
  <2>1. PICK k \in 1..m, l \in 1..m : s[k] = x /\ s[l] = y
    BY <1>2 DEF Elements
  <2>2. k # l
    BY <1>4, <2>1
  <2> QED
    BY <2>2
<1>5. m = 0 <=> Elements(s) = {}
  <2>1. m # 0 => 1 \in 1..m
    OBVIOUS
  <2>2. m = 0 => 1..m = {}
    OBVIOUS
  <2> QED
    BY <1>2, <2>1, <2>2 DEF Elements
<1> QED
  BY <1>1, <1>2, <1>3, <1>4, <1>5
--------------------------------------------------------------------------------
(* Connection by edges. *)

LEMMA PairsFacts ==
  ASSUME NEW e \in Pairs
  PROVE  e \subseteq Hashes
BY DEF Pairs

LEMMA ConnectedFacts ==
  ASSUME NEW E, \A e \in E : e \subseteq Hashes
  PROVE  /\ \A h \in Hashes : Connected(E, h, h)
         /\ \A h, k \in Hashes : Connected(E, h, k) => Connected(E, k, h)
         /\ \A h, k, l \in Hashes : Connected(E, h, k) /\ Connected(E, k, l) => Connected(E, h, l)
         /\ \A h, k \in Hashes : {h, k} \in E => Connected(E, h, k)
<1>1. \A h \in Hashes : Connected(E, h, h)
  BY DEF Connected
<1>2. ASSUME NEW h \in Hashes, NEW k \in Hashes, Connected(E, h, k) PROVE Connected(E, k, h)
  <2>1. ASSUME NEW S \in SUBSET Hashes, k \in S, \A e \in E : e \cap S # {} => e \subseteq S
        PROVE  h \in S
    <3>1. SUFFICES ASSUME h \notin S PROVE FALSE
      OBVIOUS
    <3>2. Hashes \ S \in SUBSET Hashes /\ h \in Hashes \ S
      BY <3>1
    <3>3. \A e \in E : e \cap (Hashes \ S) # {} => e \subseteq Hashes \ S
      BY <2>1
    <3>4. k \in Hashes \ S
      BY <1>2, <3>2, <3>3 DEF Connected
    <3> QED
      BY <2>1, <3>4
  <2> QED
    BY <2>1 DEF Connected
<1>3. ASSUME NEW h \in Hashes, NEW k \in Hashes, NEW l \in Hashes,
             Connected(E, h, k), Connected(E, k, l)
      PROVE  Connected(E, h, l)
  BY <1>3 DEF Connected
<1>4. ASSUME NEW h \in Hashes, NEW k \in Hashes, {h, k} \in E PROVE Connected(E, h, k)
  BY <1>4 DEF Connected
<1> QED
  BY <1>1, <1>2, <1>3, <1>4

LEMMA MoreEdges ==
  ASSUME NEW E, NEW F, E \subseteq F, NEW h, NEW k, Connected(E, h, k)
  PROVE  Connected(F, h, k)
BY DEF Connected
--------------------------------------------------------------------------------
(* The clusters: f is the map from hashes to clusters, cl the one back, E the edges *)
(* compared.                                                                        *)

Parted(f, cl) ==
  /\ f \in [Hashes -> ClusterIds \cup {NoCluster}] /\ cl \in [ClusterIds -> Seq(Hashes)]
  /\ \A c \in ClusterIds : Elements(cl[c]) = {h \in Hashes : f[h] = c} /\ Unique(cl[c])

\* The two ends of an edge are in one cluster, and what is in one cluster is connected.
JoinedBy(E, f) ==
  /\ \A e \in E : e \subseteq Hashes
  /\ \A e \in E : \A h, k \in e : f[h] # NoCluster /\ f[h] = f[k]
  /\ \A h, k \in Hashes : f[h] = f[k] /\ f[h] # NoCluster => Connected(E, h, k)

Clustered(f) == {h \in Hashes : f[h] # NoCluster}

\* The hashes of U, which are h and k and those in one cluster with either, become
\* cluster v.
Relabels(f, g, cl, dl, U, v, h, k) ==
  /\ U \subseteq Hashes /\ h \in U /\ k \in U /\ v \in ClusterIds
  /\ g = [x \in Hashes |-> IF x \in U THEN v ELSE f[x]]
  /\ \A x \in Hashes \ U : f[x] # v
  /\ \A x \in Hashes : f[x] # NoCluster /\ (f[x] = f[h] \/ f[x] = f[k]) => x \in U
  /\ \A x \in U : x = h \/ x = k \/ (f[x] # NoCluster /\ (f[x] = f[h] \/ f[x] = f[k]))
  /\ dl \in [ClusterIds -> Seq(Hashes)] /\ Elements(dl[v]) = U /\ Unique(dl[v])
  /\ \A c \in ClusterIds \ {v} : Elements(dl[c]) = Elements(cl[c]) \ U /\ Unique(dl[c])

LEMMA IdsAreNot == NoCluster \notin ClusterIds /\ ClusterIds \subseteq Nat
BY DuplicatesAssumption, FS_CardinalityType DEF ClusterIds

LEMMA RelabelledParts ==
  ASSUME NEW f, NEW g, NEW cl, NEW dl, NEW U, NEW v, NEW h, NEW k,
         Parted(f, cl), Relabels(f, g, cl, dl, U, v, h, k)
  PROVE  Parted(g, dl) /\ Clustered(g) = Clustered(f) \cup {h, k}
<1>1. /\ f \in [Hashes -> ClusterIds \cup {NoCluster}] /\ cl \in [ClusterIds -> Seq(Hashes)]
      /\ \A c \in ClusterIds : Elements(cl[c]) = {x \in Hashes : f[x] = c} /\ Unique(cl[c])
  BY DEF Parted
<1>2. /\ U \subseteq Hashes /\ h \in U /\ k \in U /\ v \in ClusterIds
      /\ g = [x \in Hashes |-> IF x \in U THEN v ELSE f[x]]
      /\ \A x \in Hashes \ U : f[x] # v
      /\ \A x \in U : x = h \/ x = k \/ f[x] # NoCluster
  BY DEF Relabels
<1>3. /\ dl \in [ClusterIds -> Seq(Hashes)] /\ Elements(dl[v]) = U /\ Unique(dl[v])
      /\ \A c \in ClusterIds \ {v} : Elements(dl[c]) = Elements(cl[c]) \ U /\ Unique(dl[c])
  BY DEF Relabels
<1>4. g \in [Hashes -> ClusterIds \cup {NoCluster}]
  BY <1>1, <1>2
<1>5. \A x \in Hashes : g[x] = IF x \in U THEN v ELSE f[x]
  BY <1>2
<1>6. ASSUME NEW c \in ClusterIds PROVE Elements(dl[c]) = {x \in Hashes : g[x] = c} /\ Unique(dl[c])
  <2>1. CASE c = v
    <3>1. U = {x \in Hashes : g[x] = v}
      BY <1>2, <1>5
    <3> QED
      BY <1>3, <2>1, <3>1
  <2>2. CASE c # v
    <3>1. Elements(dl[c]) = {x \in Hashes : f[x] = c} \ U /\ Unique(dl[c])
      BY <1>1, <1>3, <2>2
    <3>2. {x \in Hashes : f[x] = c} \ U = {x \in Hashes : g[x] = c}
      BY <1>5, <2>2
    <3> QED
      BY <3>1, <3>2
  <2> QED
    BY <2>1, <2>2
<1>7. Clustered(g) = Clustered(f) \cup {h, k}
  <2>1. v # NoCluster
    BY <1>2, IdsAreNot
  <2>2. \A x \in Hashes : g[x] # NoCluster <=> f[x] # NoCluster \/ x \in {h, k}
    BY <1>2, <1>5, <2>1
  <2> QED
    BY <1>2, <2>2 DEF Clustered
<1> QED
  BY <1>3, <1>4, <1>6, <1>7 DEF Parted

LEMMA RelabelledEdges ==
  ASSUME NEW f, NEW g, NEW cl, NEW dl, NEW U, NEW v, NEW h, NEW k,
         NEW E, NEW F, JoinedBy(E, f), Relabels(f, g, cl, dl, U, v, h, k),
         E \subseteq F, F \subseteq E \cup {{h, k}}, h = k \/ {h, k} \in F
  PROVE  JoinedBy(F, g)
<1>1. /\ \A e \in E : e \subseteq Hashes
      /\ \A e \in E : \A x, y \in e : f[x] # NoCluster /\ f[x] = f[y]
      /\ \A x, y \in Hashes : f[x] = f[y] /\ f[x] # NoCluster => Connected(E, x, y)
  BY DEF JoinedBy
<1>2. /\ U \subseteq Hashes /\ h \in U /\ k \in U /\ v \in ClusterIds
      /\ g = [x \in Hashes |-> IF x \in U THEN v ELSE f[x]]
      /\ \A x \in Hashes \ U : f[x] # v
      /\ \A x \in Hashes : f[x] # NoCluster /\ (f[x] = f[h] \/ f[x] = f[k]) => x \in U
      /\ \A x \in U : x = h \/ x = k \/ (f[x] # NoCluster /\ (f[x] = f[h] \/ f[x] = f[k]))
  BY DEF Relabels
<1>3. h \in Hashes /\ k \in Hashes /\ v # NoCluster
  BY <1>2, IdsAreNot
<1>4. \A x \in Hashes : g[x] = IF x \in U THEN v ELSE f[x]
  BY <1>2
<1>5. \A e \in F : e \subseteq Hashes
  BY <1>1, <1>3
<1>6. ASSUME NEW e \in F, NEW x \in e, NEW y \in e PROVE g[x] # NoCluster /\ g[x] = g[y]
  <2>1. CASE e = {h, k}
    BY <1>2, <1>3, <1>4, <2>1
  <2>2. CASE e \in E
    <3>1. x \in Hashes /\ y \in Hashes /\ f[x] # NoCluster /\ f[x] = f[y]
      BY <1>1, <2>2
    <3>2. x \in U <=> y \in U
      BY <1>2, <3>1
    <3> QED
      BY <1>3, <1>4, <3>1, <3>2
  <2> QED
    BY <2>1, <2>2
<1>7. /\ \A x \in Hashes : Connected(F, x, x)
      /\ \A x, y \in Hashes : Connected(F, x, y) => Connected(F, y, x)
      /\ \A x, y, z \in Hashes : Connected(F, x, y) /\ Connected(F, y, z) => Connected(F, x, z)
      /\ \A x, y \in Hashes : {x, y} \in F => Connected(F, x, y)
  BY <1>5, ConnectedFacts
<1>8. \A x, y \in Hashes : f[x] = f[y] /\ f[x] # NoCluster => Connected(F, x, y)
  BY <1>1, MoreEdges
<1>9. Connected(F, k, h)
  BY <1>3, <1>7
<1>10. ASSUME NEW x \in U PROVE Connected(F, x, h)
  <2>1. x \in Hashes
    BY <1>2
  <2>2. CASE x = h
    BY <1>7, <2>1, <2>2
  <2>3. CASE x = k
    BY <1>9, <2>3
  <2>4. CASE f[x] # NoCluster /\ f[x] = f[h]
    BY <1>3, <1>8, <2>1, <2>4
  <2>5. CASE f[x] # NoCluster /\ f[x] = f[k]
    <3>1. Connected(F, x, k)
      BY <1>3, <1>8, <2>1, <2>5
    <3> QED
      BY <1>3, <1>7, <1>9, <2>1, <3>1
  <2> QED
    BY <1>2, <2>2, <2>3, <2>4, <2>5
<1>11. ASSUME NEW x \in Hashes, NEW y \in Hashes, g[x] = g[y], g[x] # NoCluster
       PROVE  Connected(F, x, y)
  <2>1. CASE x \in U /\ y \in U
    <3>1. Connected(F, x, h) /\ Connected(F, h, y)
      BY <1>3, <1>7, <1>10, <2>1
    <3> QED
      BY <1>3, <1>7, <3>1
  <2>2. CASE x \notin U /\ y \notin U
    BY <1>4, <1>8, <1>11, <2>2
  <2>3. CASE ~ (x \in U <=> y \in U)
    BY <1>2, <1>4, <1>11, <2>3
  <2> QED
    BY <2>1, <2>2, <2>3
<1> QED
  BY <1>5, <1>6, <1>11 DEF JoinedBy

\* What the edges connect with a hash in a cluster is in the cluster.
LEMMA ConnectedStays ==
  ASSUME NEW E, NEW f, JoinedBy(E, f), NEW h \in Hashes, NEW k \in Hashes,
         f[h] # NoCluster, Connected(E, h, k)
  PROVE  f[h] = f[k]
<1> DEFINE S == {x \in Hashes : f[x] = f[h]}
<1>1. S \in SUBSET Hashes /\ h \in S
  OBVIOUS
<1>2. \A e \in E : e \cap S # {} => e \subseteq S
  BY DEF JoinedBy
<1>3. k \in S
  <2> HIDE DEF S
  <2> QED
    BY <1>1, <1>2 DEF Connected
<1> QED
  BY <1>3
--------------------------------------------------------------------------------
(* The cases of the loop body: a new cluster, one more hash, two clusters in one. *)

Numbered(f, n) == /\ n \in 0..Cardinality(Clustered(f))
                  /\ \A h \in Hashes : f[h] # NoCluster => f[h] < n
Clusters(f, cl, n) == Parted(f, cl) /\ Numbered(f, n)

\* The edges F are the edges E and perhaps one more, which is needed to connect h and k.
Edge(E, F, h, k) == E \subseteq F /\ F \subseteq E \cup {{h, k}} /\ (h = k \/ {h, k} \in F)

Joins(f, g, dl, n, F, h, k) ==
  /\ Clusters(g, dl, n) /\ JoinedBy(F, g) /\ Clustered(g) = Clustered(f) \cup {h, k}

LEMMA Relabelled ==
  ASSUME NEW E, NEW F, NEW f, NEW g, NEW cl, NEW dl, NEW U, NEW v, NEW h, NEW k,
         Parted(f, cl), JoinedBy(E, f), Edge(E, F, h, k), Relabels(f, g, cl, dl, U, v, h, k),
         NEW n, Numbered(g, n)
  PROVE  Joins(f, g, dl, n, F, h, k)
<1>1. E \subseteq F /\ F \subseteq E \cup {{h, k}} /\ (h = k \/ {h, k} \in F)
  BY DEF Edge
<1>2. JoinedBy(F, g)
  BY <1>1, RelabelledEdges
<1>3. Parted(g, dl) /\ Clustered(g) = Clustered(f) \cup {h, k}
  BY RelabelledParts
<1> QED
  BY <1>2, <1>3 DEF Joins, Clusters

LEMMA ClusteredFinite ==
  ASSUME NEW f
  PROVE  /\ IsFiniteSet(Clustered(f)) /\ Cardinality(Clustered(f)) \in Nat
         /\ Cardinality(Clustered(f)) <= Cardinality(Hashes) /\ Cardinality(Hashes) \in Nat
<1>1. IsFiniteSet(Hashes) /\ Clustered(f) \in SUBSET Hashes
  BY DuplicatesAssumption DEF Clustered
<1>2. IsFiniteSet(Clustered(f)) /\ Cardinality(Clustered(f)) <= Cardinality(Hashes)
  BY <1>1, FS_Subset
<1> QED
  BY <1>1, <1>2, FS_CardinalityType

\* What was numbered below n stays so when some hashes get number v below n.
Renumbers(f, g, U, v, n) ==
  /\ Numbered(f, n) /\ v \in Nat /\ v < n /\ NoCluster # v
  /\ g = [x \in Hashes |-> IF x \in U THEN v ELSE f[x]]

LEMMA StillNumbered ==
  ASSUME NEW f, NEW g, NEW U, NEW v, NEW n, Renumbers(f, g, U, v, n)
  PROVE  Numbered(g, n)
<1>1. n \in 0..Cardinality(Clustered(f)) /\ \A h \in Hashes : f[h] # NoCluster => f[h] < n
  BY DEF Renumbers, Numbered
<1>2. /\ \A x \in Hashes : g[x] = IF x \in U THEN v ELSE f[x]
      /\ v \in Nat /\ v < n /\ NoCluster # v
  BY DEF Renumbers
<1>3. Clustered(f) \in SUBSET Clustered(g)
  BY <1>2 DEF Clustered
<1>4. IsFiniteSet(Clustered(g)) /\ Cardinality(Clustered(g)) \in Nat
  BY ClusteredFinite
<1>5. Cardinality(Clustered(f)) <= Cardinality(Clustered(g)) /\ Cardinality(Clustered(f)) \in Nat
  BY <1>3, <1>4, FS_Subset, ClusteredFinite
<1>6. n \in 0..Cardinality(Clustered(g))
  BY <1>1, <1>4, <1>5
<1> QED
  BY <1>1, <1>2, <1>6 DEF Numbered

LEMMA NewOne ==
  ASSUME NEW E, NEW F, NEW f, NEW g, NEW cl, NEW dl, NEW n, NEW h \in Hashes, NEW k \in Hashes,
         Clusters(f, cl, n), JoinedBy(E, f), Edge(E, F, h, k),
         f[h] = NoCluster, f[k] = NoCluster,
         NEW hs \in Seq(Hashes), Elements(hs) = {h, k}, Unique(hs),
         g = [x \in Hashes |-> IF \E m \in DOMAIN hs : hs[m] = x THEN n ELSE f[x]],
         dl = [cl EXCEPT ![n] = hs]
  PROVE  Joins(f, g, dl, n + 1, F, h, k)
<1>1. /\ f \in [Hashes -> ClusterIds \cup {NoCluster}] /\ cl \in [ClusterIds -> Seq(Hashes)]
      /\ \A c \in ClusterIds : Elements(cl[c]) = {x \in Hashes : f[x] = c} /\ Unique(cl[c])
  BY DEF Clusters, Parted
<1>2. /\ n \in 0..Cardinality(Clustered(f)) /\ \A x \in Hashes : f[x] # NoCluster => f[x] < n
  BY DEF Clusters, Numbered
<1>3. /\ Cardinality(Clustered(f)) \in Nat /\ Cardinality(Clustered(f)) <= Cardinality(Hashes)
      /\ Cardinality(Hashes) \in Nat /\ IsFiniteSet(Clustered(f))
  BY ClusteredFinite
<1>4. n \in Nat /\ n \in ClusterIds
  BY <1>2, <1>3 DEF ClusterIds
<1>5. NoCluster # n /\ NoCluster \notin ClusterIds /\ ClusterIds \subseteq Nat
  BY <1>4, IdsAreNot
<1>6. PICK U : U = {h, k}
  OBVIOUS
<1>7. g = [x \in Hashes |-> IF x \in U THEN n ELSE f[x]]
  <2>1. \A x \in Hashes : (\E m \in DOMAIN hs : hs[m] = x) <=> x \in U
    BY <1>6 DEF Elements
  <2> QED
    BY <2>1
<1>8. \A x \in Hashes : f[x] # n
  <2>1. ~ (n < n)
    BY <1>4
  <2> QED
    BY <1>2, <1>5, <2>1
<1>9. Relabels(f, g, cl, dl, U, n, h, k)
  <2>1. dl \in [ClusterIds -> Seq(Hashes)] /\ dl[n] = hs
        /\ \A c \in ClusterIds \ {n} : dl[c] = cl[c]
    BY <1>1, <1>4
  <2>2. ASSUME NEW c \in ClusterIds \ {n}
        PROVE  Elements(dl[c]) = Elements(cl[c]) \ U /\ Unique(dl[c])
    <3>1. Elements(cl[c]) = {x \in Hashes : f[x] = c}
      BY <1>1
    <3>2. c # NoCluster
      BY <1>5
    <3>3. h \notin Elements(cl[c]) /\ k \notin Elements(cl[c])
      BY <3>1, <3>2
    <3> QED
      BY <1>1, <1>6, <2>1, <3>3
  <2>3. Elements(dl[n]) = U /\ Unique(dl[n])
    BY <1>6, <2>1
  <2>4. \A x \in U : x = h \/ x = k
    BY <1>6
  <2>5. \A x \in Hashes : ~ (f[x] # NoCluster /\ (f[x] = f[h] \/ f[x] = f[k]))
    OBVIOUS
  <2>6. U \subseteq Hashes /\ h \in U /\ k \in U
    BY <1>6
  <2> QED
    BY <1>4, <1>7, <1>8, <2>1, <2>2, <2>3, <2>4, <2>5, <2>6 DEF Relabels
<1>10. Numbered(g, n + 1)
  <2>1. \A x \in Hashes : g[x] = IF x \in U THEN n ELSE f[x]
    BY <1>7
  <2>2. Clustered(f) \cup {h} \in SUBSET Clustered(g) /\ h \notin Clustered(f)
    BY <1>5, <1>6, <2>1 DEF Clustered
  <2>3. Cardinality(Clustered(f) \cup {h}) = Cardinality(Clustered(f)) + 1
    BY <1>3, <2>2, FS_AddElement
  <2>4. IsFiniteSet(Clustered(g)) /\ Cardinality(Clustered(g)) \in Nat
    BY ClusteredFinite
  <2>5. Cardinality(Clustered(f) \cup {h}) <= Cardinality(Clustered(g))
    BY <2>2, <2>4, FS_Subset
  <2>6. n + 1 \in 0..Cardinality(Clustered(g))
    BY <1>2, <1>3, <2>3, <2>4, <2>5
  <2>7. ASSUME NEW x \in Hashes, g[x] # NoCluster PROVE g[x] < n + 1
    <3>1. CASE x \in U
      BY <1>4, <2>1, <3>1
    <3>2. CASE x \notin U
      <4>1. g[x] = f[x] /\ f[x] < n /\ f[x] \in ClusterIds
        BY <1>1, <1>2, <2>1, <2>7, <3>2
      <4>2. f[x] \in Nat
        BY <1>5, <4>1
      <4> QED
        BY <1>4, <4>1, <4>2
    <3> QED
      BY <3>1, <3>2
  <2> QED
    BY <2>6, <2>7 DEF Numbered
<1>11. Parted(f, cl)
  BY DEF Clusters
<1> QED
  BY <1>9, <1>10, <1>11, Relabelled

\* h is in no cluster, k in cluster c.
LEMMA JoinsOne ==
  ASSUME NEW E, NEW F, NEW f, NEW g, NEW cl, NEW dl, NEW n, NEW h \in Hashes, NEW k \in Hashes,
         Clusters(f, cl, n), JoinedBy(E, f), Edge(E, F, h, k),
         f[h] = NoCluster, NEW c, f[k] = c, c # NoCluster,
         g = [f EXCEPT ![h] = c], dl = [cl EXCEPT ![c] = Append(@, h)]
  PROVE  Joins(f, g, dl, n, F, h, k)
<1>1. /\ f \in [Hashes -> ClusterIds \cup {NoCluster}] /\ cl \in [ClusterIds -> Seq(Hashes)]
      /\ \A d \in ClusterIds : Elements(cl[d]) = {x \in Hashes : f[x] = d} /\ Unique(cl[d])
  BY DEF Clusters, Parted
<1>2. c \in ClusterIds /\ NoCluster \notin ClusterIds /\ c \in Nat
  BY <1>1, IdsAreNot
<1>3. PICK U : U = {x \in Hashes : f[x] = c} \cup {h}
  OBVIOUS
<1>4. g = [x \in Hashes |-> IF x \in U THEN c ELSE f[x]]
  BY <1>1, <1>3
<1>5. PICK t : t = Append(cl[c], h)
  OBVIOUS
<1>6. t \in Seq(Hashes) /\ Elements(t) = U /\ Unique(t)
  <2>1. cl[c] \in Seq(Hashes) /\ Elements(cl[c]) = {x \in Hashes : f[x] = c} /\ Unique(cl[c])
    BY <1>1, <1>2
  <2>2. PICK s : s = cl[c]
    OBVIOUS
  <2>3. s \in Seq(Hashes) /\ Elements(s) = {x \in Hashes : f[x] = c} /\ Unique(s)
    BY <2>1, <2>2
  <2>4. h \notin Elements(s) /\ t = Append(s, h) /\ U = Elements(s) \cup {h}
    BY <1>3, <1>5, <2>2, <2>3
  <2>5. t \in Seq(Hashes) /\ Elements(t) = Elements(s) \cup {h} /\ Unique(t)
    <3>1. s \in Seq(Hashes) /\ Unique(s) /\ h \notin Elements(s) /\ t = Append(s, h)
      BY <2>3, <2>4
    <3>2. t \in Seq(Hashes) /\ Unique(t)
      BY <3>1, Appended
    <3>3. Appends(Hashes, s, h, t)
      BY <3>1 DEF Appends
    <3>4. Adds(s, h, t)
      BY <3>3, AppendedElements
    <3> QED
      BY <3>2, <3>4 DEF Adds
  <2> QED
    BY <2>4, <2>5
<1>7. /\ dl \in [ClusterIds -> Seq(Hashes)] /\ dl[c] = t
      /\ \A d \in ClusterIds \ {c} : dl[d] = cl[d]
  BY <1>1, <1>2, <1>5, <1>6
<1>8. Relabels(f, g, cl, dl, U, c, h, k)
  <2>1. ASSUME NEW d \in ClusterIds \ {c}
        PROVE  Elements(dl[d]) = Elements(cl[d]) \ U /\ Unique(dl[d])
    <3>1. Elements(cl[d]) = {x \in Hashes : f[x] = d} /\ d # NoCluster /\ d # c
      BY <1>1, <1>2
    <3>2. \A x \in U : x \notin Elements(cl[d])
      BY <1>3, <3>1
    <3>3. Elements(cl[d]) = Elements(cl[d]) \ U
      BY <3>2
    <3> QED
      BY <1>1, <1>7, <3>3
  <2>2. \A x \in Hashes \ U : f[x] # c
    BY <1>3
  <2>3. \A x \in U : x = h \/ x = k \/ (f[x] # NoCluster /\ (f[x] = f[h] \/ f[x] = f[k]))
    BY <1>3
  <2>4. \A x \in Hashes : f[x] # NoCluster /\ (f[x] = f[h] \/ f[x] = f[k]) => x \in U
    BY <1>3
  <2>5. U \subseteq Hashes /\ h \in U /\ k \in U
    BY <1>3
  <2> QED
    BY <1>2, <1>4, <1>6, <1>7, <2>1, <2>2, <2>3, <2>4, <2>5 DEF Relabels
<1>9. Numbered(g, n)
  <2>1. Numbered(f, n) /\ c < n
    BY DEF Clusters, Numbered
  <2>2. c \in Nat /\ NoCluster # c
    BY <1>2
  <2>3. Renumbers(f, g, U, c, n)
    BY <1>4, <2>1, <2>2, Zenon DEF Renumbers
  <2> QED
    BY <2>3, StillNumbered
<1>10. Parted(f, cl)
  BY DEF Clusters
<1> QED
  BY <1>8, <1>9, <1>10, Relabelled

\* h is in cluster c, k in cluster d.
Moves(f, g, cl, dl, c, d) ==
  /\ g = [x \in Hashes |-> IF \E m \in DOMAIN cl[d] : cl[d][m] = x THEN c ELSE f[x]]
  /\ dl = [cl EXCEPT ![c] = @ \o cl[d], ![d] = <<>>]

LEMMA JoinsTwo ==
  ASSUME NEW E, NEW F, NEW f, NEW g, NEW cl, NEW dl, NEW n, NEW h \in Hashes, NEW k \in Hashes,
         Clusters(f, cl, n), JoinedBy(E, f), Edge(E, F, h, k),
         NEW c, f[h] = c, c # NoCluster, NEW d, f[k] = d, d # NoCluster, c # d,
         Moves(f, g, cl, dl, c, d)
  PROVE  Joins(f, g, dl, n, F, h, k)
<1>0. /\ g = [x \in Hashes |-> IF \E m \in DOMAIN cl[d] : cl[d][m] = x THEN c ELSE f[x]]
      /\ dl = [cl EXCEPT ![c] = @ \o cl[d], ![d] = <<>>]
  BY DEF Moves
<1>1. /\ f \in [Hashes -> ClusterIds \cup {NoCluster}] /\ cl \in [ClusterIds -> Seq(Hashes)]
      /\ \A b \in ClusterIds : Elements(cl[b]) = {x \in Hashes : f[x] = b} /\ Unique(cl[b])
  BY DEF Clusters, Parted
<1>2. c \in ClusterIds /\ d \in ClusterIds /\ NoCluster \notin ClusterIds /\ c \in Nat
  BY <1>1, IdsAreNot
<1>3. PICK U : U = {x \in Hashes : f[x] = c \/ f[x] = d}
  OBVIOUS
<1>4. g = [x \in Hashes |-> IF x \in U THEN c ELSE f[x]]
  <2>1. \A x \in Hashes : (\E m \in DOMAIN cl[d] : cl[d][m] = x) <=> f[x] = d
    BY <1>1, <1>2 DEF Elements
  <2>2. \A x \in Hashes : (IF f[x] = d THEN c ELSE f[x]) = IF x \in U THEN c ELSE f[x]
    BY <1>3
  <2>3. g = [x \in Hashes |-> IF f[x] = d THEN c ELSE f[x]]
    BY <1>0, <2>1
  <2> QED
    BY <2>2, <2>3
<1>5. PICK t : t = cl[c] \o cl[d]
  OBVIOUS
<1>6. t \in Seq(Hashes) /\ Elements(t) = U /\ Unique(t)
  <2>1. /\ cl[c] \in Seq(Hashes) /\ Elements(cl[c]) = {x \in Hashes : f[x] = c} /\ Unique(cl[c])
        /\ cl[d] \in Seq(Hashes) /\ Elements(cl[d]) = {x \in Hashes : f[x] = d} /\ Unique(cl[d])
    BY <1>1, <1>2
  <2>2. PICK a : a = cl[c]
    OBVIOUS
  <2>3. PICK b : b = cl[d]
    OBVIOUS
  <2>4. /\ a \in Seq(Hashes) /\ Elements(a) = {x \in Hashes : f[x] = c} /\ Unique(a)
        /\ b \in Seq(Hashes) /\ Elements(b) = {x \in Hashes : f[x] = d} /\ Unique(b)
        /\ t = a \o b
    BY <1>5, <2>1, <2>2, <2>3
  <2>5. Elements(a) \cap Elements(b) = {} /\ Elements(a) \cup Elements(b) = U
    BY <1>3, <2>4
  <2>6. t \in Seq(Hashes)
    BY <2>4, Concatenation
  <2>7. Elements(t) = Elements(a) \cup Elements(b) /\ Unique(t)
    <3>1. /\ a \in Seq(Hashes) /\ b \in Seq(Hashes) /\ t = a \o b
          /\ Unique(a) /\ Unique(b) /\ Elements(a) \cap Elements(b) = {}
      BY <2>4, <2>5
    <3>2. /\ \A y : y \in Elements(t) <=> y \in Elements(a) \/ y \in Elements(b)
          /\ Unique(t)
      BY <3>1, UniqueConcatenation
    <3> QED
      BY <3>2
  <2> QED
    BY <2>5, <2>6, <2>7
<1>7. /\ dl \in [ClusterIds -> Seq(Hashes)] /\ dl[c] = t /\ dl[d] = <<>>
      /\ \A b \in ClusterIds \ {c, d} : dl[b] = cl[b]
  <2>1. dl = [b \in ClusterIds |-> IF b = d THEN <<>> ELSE IF b = c THEN t ELSE cl[b]]
    BY <1>0, <1>1, <1>2, <1>5
  <2>2. <<>> \in Seq(Hashes)
    OBVIOUS
  <2>3. dl[c] = t /\ dl[d] = <<>> /\ \A b \in ClusterIds \ {c, d} : dl[b] = cl[b]
    BY <1>2, <2>1
  <2>4. \A b \in ClusterIds : dl[b] \in Seq(Hashes)
    <3>1. \A b \in ClusterIds : cl[b] \in Seq(Hashes)
      BY <1>1
    <3> QED
      BY <1>6, <2>2, <2>3, <3>1
  <2>5. dl = [b \in ClusterIds |-> dl[b]]
    BY <2>1
  <2> QED
    BY <2>3, <2>4, <2>5
<1>8. Relabels(f, g, cl, dl, U, c, h, k)
  <2>1. ASSUME NEW b \in ClusterIds \ {c}
        PROVE  Elements(dl[b]) = Elements(cl[b]) \ U /\ Unique(dl[b])
    <3>1. CASE b = d
      <4>1. Elements(<<>>) = {} /\ Unique(<<>>)
        BY DEF Elements, Unique
      <4>2. Elements(cl[d]) \ U = {}
        BY <1>1, <1>2, <1>3
      <4> QED
        BY <1>7, <3>1, <4>1, <4>2
    <3>2. CASE b # d
      <4>1. Elements(cl[b]) = {x \in Hashes : f[x] = b} /\ b # d /\ b # c
        BY <1>1, <3>2
      <4>2. \A x \in U : x \notin Elements(cl[b])
        BY <1>3, <4>1
      <4>3. Elements(cl[b]) = Elements(cl[b]) \ U
        BY <4>2
      <4> QED
        BY <1>1, <1>7, <3>2, <4>3
    <3> QED
      BY <3>1, <3>2
  <2>2. \A x \in Hashes \ U : f[x] # c
    BY <1>3
  <2>3. \A x \in U : x = h \/ x = k \/ (f[x] # NoCluster /\ (f[x] = f[h] \/ f[x] = f[k]))
    BY <1>3
  <2>4. \A x \in Hashes : f[x] # NoCluster /\ (f[x] = f[h] \/ f[x] = f[k]) => x \in U
    BY <1>3
  <2>5. U \subseteq Hashes /\ h \in U /\ k \in U
    BY <1>3
  <2> QED
    BY <1>2, <1>4, <1>6, <1>7, <2>1, <2>2, <2>3, <2>4, <2>5 DEF Relabels
<1>9. Numbered(g, n)
  <2>1. Numbered(f, n) /\ c < n
    BY DEF Clusters, Numbered
  <2>2. c \in Nat /\ NoCluster # c
    BY <1>2
  <2>3. Renumbers(f, g, U, c, n)
    BY <1>4, <2>1, <2>2, Zenon DEF Renumbers
  <2> QED
    BY <2>3, StillNumbered
<1>10. Parted(f, cl)
  BY DEF Clusters
<1> QED
  BY <1>8, <1>9, <1>10, Relabelled

\* h and k are in one cluster.
LEMMA JoinsNone ==
  ASSUME NEW E, NEW F, NEW f, NEW cl, NEW n, NEW h \in Hashes, NEW k \in Hashes,
         Clusters(f, cl, n), JoinedBy(E, f), Edge(E, F, h, k), f[h] = f[k], f[h] # NoCluster
  PROVE  Joins(f, f, cl, n, F, h, k)
<1>1. E \subseteq F /\ F \subseteq E \cup {{h, k}}
  BY DEF Edge
<1>2. \A x, y \in Hashes : f[x] = f[y] /\ f[x] # NoCluster => Connected(F, x, y)
  BY <1>1, MoreEdges DEF JoinedBy
<1>3. /\ \A e \in F : e \subseteq Hashes
      /\ \A e \in F : \A x, y \in e : f[x] # NoCluster /\ f[x] = f[y]
  BY <1>1 DEF JoinedBy
<1>4. Clustered(f) = Clustered(f) \cup {h, k}
  BY DEF Clustered
<1> QED
  BY <1>2, <1>3, <1>4 DEF Joins, JoinedBy
--------------------------------------------------------------------------------
(* Gathering the images by hash. *)

Gathered(ph, m, hl, look) ==
  /\ ph \in Seq(Hashes) /\ m \in 0..Len(ph)
  /\ hl \in Seq(Hashes) /\ Unique(hl) /\ look \in [Hashes -> Seq(DOMAIN ph)]
  /\ \A h \in Hashes : /\ Unique(look[h])
                       /\ \A n : n \in Elements(look[h]) <=> n \in 1..m /\ ph[n] = h
  /\ \A h : h \in Elements(hl) <=> h \in Hashes /\ look[h] # <<>>

LEMMA GatherStart ==
  ASSUME NEW ph \in Seq(Hashes)
  PROVE  Gathered(ph, 0, <<>>, [h \in Hashes |-> <<>>])
<1>1. PICK look : look = [h \in Hashes |-> <<>>]
  OBVIOUS
<1>2. <<>> \in Seq(Hashes) /\ <<>> \in Seq(DOMAIN ph) /\ Len(ph) \in Nat
  OBVIOUS
<1>3. Elements(<<>>) = {} /\ Unique(<<>>) /\ 1..0 = {}
  BY DEF Elements, Unique
<1>4. look \in [Hashes -> Seq(DOMAIN ph)] /\ \A h \in Hashes : look[h] = <<>>
  BY <1>1, <1>2
<1>5. 0 \in 0..Len(ph)
  BY <1>2
<1>6. \A h \in Hashes : /\ Unique(look[h])
                        /\ \A n : n \in Elements(look[h]) <=> n \in 1..0 /\ ph[n] = h
  BY <1>3, <1>4
<1>7. \A h : h \in Elements(<<>>) <=> h \in Hashes /\ look[h] # <<>>
  BY <1>3, <1>4
<1>8. Gathered(ph, 0, <<>>, look)
  BY <1>2, <1>3, <1>4, <1>5, <1>6, <1>7 DEF Gathered
<1> QED
  BY <1>1, <1>8

\* Image k is gathered, whose hash is h; the second image of a hash makes it count.
Gathers(ph, k, h, hl, hl2, look, look2) ==
  /\ Gathered(ph, k - 1, hl, look) /\ k \in 1..Len(ph) /\ h = ph[k]
  /\ look2 = [look EXCEPT ![h] = Append(@, k)]
  /\ hl2 = IF look[h] = <<>> THEN Append(hl, h) ELSE hl
SecondImage(h, look, look2) ==
  /\ h \in Hashes
  /\ \A x \in Hashes : Len(look2[x]) > 1 <=> Len(look[x]) > 1 \/ (x = h /\ look[h] # <<>>)

LEMMA OneMore ==
  ASSUME NEW q \in Nat, NEW k \in 1..q
  PROVE  \A n : n \in 1..k <=> n \in 1..(k - 1) \/ n = k
OBVIOUS

LEMMA GatherStep ==
  ASSUME NEW ph, NEW k, NEW h, NEW hl, NEW hl2, NEW look, NEW look2,
         Gathers(ph, k, h, hl, hl2, look, look2)
  PROVE  Gathered(ph, k, hl2, look2) /\ SecondImage(h, look, look2)
<1>0. /\ Gathered(ph, k - 1, hl, look) /\ k \in 1..Len(ph) /\ h = ph[k]
      /\ look2 = [look EXCEPT ![h] = Append(@, k)]
      /\ hl2 = IF look[h] = <<>> THEN Append(hl, h) ELSE hl
  BY DEF Gathers
<1>1. /\ ph \in Seq(Hashes) /\ hl \in Seq(Hashes) /\ Unique(hl) /\ look \in [Hashes -> Seq(DOMAIN ph)]
      /\ \A x \in Hashes : /\ Unique(look[x])
                           /\ \A n : n \in Elements(look[x]) <=> n \in 1..(k - 1) /\ ph[n] = x
      /\ \A x : x \in Elements(hl) <=> x \in Hashes /\ look[x] # <<>>
  BY <1>0 DEF Gathered
<1>2. /\ Len(ph) \in Nat /\ k \in Nat /\ k \in DOMAIN ph /\ h \in Hashes
      /\ k \in 0..Len(ph) /\ k \notin 1..(k - 1)
      /\ \A n : n \in 1..k <=> n \in 1..(k - 1) \/ n = k
  <2>1. PICK q : q = Len(ph)
    OBVIOUS
  <2>2. q \in Nat /\ DOMAIN ph = 1..q /\ k \in 1..q /\ \A n \in 1..q : ph[n] \in Hashes
    BY <1>0, <1>1, <2>1
  <2>3. h \in Hashes
    BY <1>0, <2>2
  <2>4. k \in Nat /\ k \in 0..q /\ k \notin 1..(k - 1)
    BY <2>2
  <2>5. \A n : n \in 1..k <=> n \in 1..(k - 1) \/ n = k
    BY <2>2, OneMore
  <2> QED
    BY <2>1, <2>2, <2>3, <2>4, <2>5
<1>3. PICK s : s = look[h]
  OBVIOUS
<1>4. PICK t : t = Append(s, k)
  OBVIOUS
<1>5. s \in Seq(DOMAIN ph) /\ Unique(s) /\ k \notin Elements(s)
  BY <1>1, <1>2, <1>3
<1>6. /\ t \in Seq(DOMAIN ph) /\ Unique(t) /\ Len(t) = Len(s) + 1 /\ Len(s) \in Nat
      /\ \A y : y \in Elements(t) <=> y \in Elements(s) \/ y = k
  <2>1. PICK D : D = DOMAIN ph
    OBVIOUS
  <2>2. s \in Seq(D) /\ Unique(s) /\ k \notin Elements(s) /\ k \in D /\ t = Append(s, k)
    BY <1>2, <1>4, <1>5, <2>1
  <2>3. /\ t \in Seq(D) /\ Unique(t) /\ Len(t) = Len(s) + 1 /\ Len(s) \in Nat
        /\ \A y : y \in Elements(t) <=> y \in Elements(s) \/ y = k
    <3>1. t \in Seq(D)
      BY <2>2, Appended
    <3>2. Unique(t)
      BY <2>2, Appended
    <3>3. Len(t) = Len(s) + 1 /\ Len(s) \in Nat
      BY <2>2, Appended
    <3>4. Appends(D, s, k, t)
      BY <2>2 DEF Appends
    <3>5. Adds(s, k, t)
      BY <3>4, AppendedElements
    <3>6. \A y : y \in Elements(t) <=> y \in Elements(s) \/ y = k
      BY <3>5 DEF Adds
    <3> QED
      BY <3>1, <3>2, <3>3, <3>6
  <2> QED
    BY <2>1, <2>3
<1>7. look2 = [look EXCEPT ![h] = t]
  BY <1>0, <1>3, <1>4
<1>8. /\ look2 \in [Hashes -> Seq(DOMAIN ph)] /\ look2[h] = t
      /\ \A x \in Hashes : x # h => look2[x] = look[x]
  <2>1. PICK Q : Q = Seq(DOMAIN ph)
    OBVIOUS
  <2>2. look \in [Hashes -> Q] /\ t \in Q /\ h \in Hashes
    BY <1>1, <1>2, <1>6, <2>1
  <2>3. /\ look2 \in [Hashes -> Q] /\ look2[h] = t
        /\ \A x \in Hashes : x # h => look2[x] = look[x]
    BY <1>7, <2>2
  <2> QED
    BY <2>1, <2>3
<1>9. ASSUME NEW x \in Hashes
      PROVE  Unique(look2[x]) /\ \A n : n \in Elements(look2[x]) <=> n \in 1..k /\ ph[n] = x
  <2>1. CASE x = h
    <3>1. \A n : n \in Elements(s) <=> n \in 1..(k - 1) /\ ph[n] = h
      BY <1>1, <1>2, <1>3
    <3> QED
      BY <1>0, <1>2, <1>6, <1>8, <2>1, <3>1
  <2>2. CASE x # h
    BY <1>0, <1>1, <1>2, <1>8, <2>2
  <2> QED
    BY <2>1, <2>2
<1>10. t # <<>>
  BY <1>6
<1>11. hl2 \in Seq(Hashes) /\ Unique(hl2)
       /\ \A x : x \in Elements(hl2) <=> x \in Elements(hl) \/ x = h
  <2>1. CASE look[h] = <<>>
    <3>1. hl2 = Append(hl, h) /\ h \notin Elements(hl)
      BY <1>0, <1>1, <2>1
    <3>2. hl \in Seq(Hashes) /\ Unique(hl) /\ h \in Hashes
      BY <1>1, <1>2
    <3>3. hl2 \in Seq(Hashes)
      BY <3>1, <3>2, Appended
    <3>4. Unique(hl2)
      BY <3>1, <3>2, Appended
    <3>5. Appends(Hashes, hl, h, hl2)
      BY <3>1, <3>2 DEF Appends
    <3>6. Adds(hl, h, hl2)
      BY <3>5, AppendedElements
    <3> QED
      BY <3>3, <3>4, <3>6 DEF Adds
  <2>2. CASE look[h] # <<>>
    BY <1>0, <1>1, <1>2, <2>2
  <2> QED
    BY <2>1, <2>2
<1>12. \A x : x \in Elements(hl2) <=> x \in Hashes /\ look2[x] # <<>>
  <2>1. \A x : x \in Elements(hl) <=> x \in Hashes /\ look[x] # <<>>
    BY <1>1
  <2>2. ASSUME NEW x
        PROVE  x \in Elements(hl2) <=> x \in Hashes /\ look2[x] # <<>>
    <3>1. CASE x = h
      BY <1>2, <1>8, <1>10, <1>11, <3>1
    <3>2. CASE x # h
      BY <1>8, <1>11, <2>1, <3>2
    <3> QED
      BY <3>1, <3>2
  <2> QED
    BY <2>2
<1>13. Gathered(ph, k, hl2, look2)
  BY <1>1, <1>2, <1>8, <1>9, <1>11, <1>12 DEF Gathered
<1>14. ASSUME NEW x \in Hashes
       PROVE  Len(look2[x]) > 1 <=> Len(look[x]) > 1 \/ (x = h /\ look[h] # <<>>)
  <2>1. CASE x = h
    <3>1. s # <<>> <=> Len(s) > 0
      BY <1>5
    <3>2. Len(t) > 1 <=> Len(s) > 0
      BY <1>6
    <3>3. Len(s) > 1 => Len(s) > 0
      BY <1>6
    <3> QED
      BY <1>3, <1>8, <2>1, <3>1, <3>2, <3>3
  <2>2. CASE x # h
    BY <1>8, <2>2
  <2> QED
    BY <2>1, <2>2
<1> QED
  BY <1>2, <1>13, <1>14 DEF SecondImage

\* A hash has two images just when one of its images has a second.
LEMMA TwoImages ==
  ASSUME NEW ph, NEW hl, NEW look, Gathered(ph, Len(ph), hl, look), NEW n \in DOMAIN ph
  PROVE  /\ Len(look[ph[n]]) > 1 <=> \E m \in DOMAIN ph \ {n} : ph[m] = ph[n]
         /\ ph[n] \in Elements(hl) /\ ph[n] \in Hashes
<1>1. /\ ph \in Seq(Hashes) /\ look \in [Hashes -> Seq(DOMAIN ph)]
      /\ \A x \in Hashes : /\ Unique(look[x])
                           /\ \A m : m \in Elements(look[x]) <=> m \in 1..Len(ph) /\ ph[m] = x
      /\ \A x : x \in Elements(hl) <=> x \in Hashes /\ look[x] # <<>>
  BY DEF Gathered
<1>2. DOMAIN ph = 1..Len(ph) /\ ph[n] \in Hashes
  BY <1>1
<1>3. PICK s : s = look[ph[n]]
  OBVIOUS
<1>4. /\ s \in Seq(DOMAIN ph) /\ Unique(s)
      /\ \A m : m \in Elements(s) <=> m \in DOMAIN ph /\ ph[m] = ph[n]
  BY <1>1, <1>2, <1>3
<1>5. /\ Len(s) > 1 <=> \E x, y \in Elements(s) : x # y
      /\ s = <<>> <=> Elements(s) = {}
  BY <1>4, TwoElements
<1>6. n \in Elements(s)
  BY <1>4
<1>7. Len(s) > 1 <=> \E m \in DOMAIN ph \ {n} : ph[m] = ph[n]
  BY <1>4, <1>5, <1>6
<1> QED
  BY <1>1, <1>2, <1>3, <1>5, <1>6, <1>7
--------------------------------------------------------------------------------
(* The pairs compared. *)

ComparedTo(nr, hl, a1, b1) ==
  {e \in nr : \E a, b \in DOMAIN hl : /\ a < b /\ e = {hl[a], hl[b]}
                                      /\ a < a1 \/ (a = a1 /\ b < b1)}

LEMMA ComparedStart ==
  ASSUME NEW nr, NEW hl \in Seq(Hashes)
  PROVE  ComparedTo(nr, hl, 1, 2) = {}
<1>1. \A a, b \in DOMAIN hl : a < b => ~ (a < 1) /\ ~ (a = 1 /\ b < 2)
  OBVIOUS
<1> QED
  BY <1>1 DEF ComparedTo

\* One step of the two loops compares one pair.
Advances(hl, a1, b1, a2, b2) ==
  /\ hl \in Seq(Hashes) /\ a1 \in Nat /\ b1 \in Nat /\ 1 <= a1 /\ a1 < b1 /\ b1 <= Len(hl)
  /\ IF b1 < Len(hl) THEN b2 = b1 + 1 /\ a2 = a1 ELSE a2 = a1 + 1 /\ b2 = a1 + 2
Compares(nr, hl, a1, b1, a2, b2, E, F) ==
  /\ {hl[a1], hl[b1]} \in nr => F = E \cup {{hl[a1], hl[b1]}}
  /\ {hl[a1], hl[b1]} \notin nr => F = E
  /\ hl[a1] \in Hashes /\ hl[b1] \in Hashes /\ a1 \in DOMAIN hl /\ b1 \in DOMAIN hl
  /\ a2 \in Nat /\ b2 \in Nat /\ 1 <= a2 /\ a2 < b2 /\ (b2 <= Len(hl) \/ b2 = a2 + 1)

LEMMA ComparedStep ==
  ASSUME NEW nr, NEW hl, NEW a1, NEW b1, NEW a2, NEW b2, Advances(hl, a1, b1, a2, b2),
         NEW E, E = ComparedTo(nr, hl, a1, b1), NEW F, F = ComparedTo(nr, hl, a2, b2)
  PROVE  Compares(nr, hl, a1, b1, a2, b2, E, F)
<1>0. /\ hl \in Seq(Hashes) /\ a1 \in Nat /\ b1 \in Nat /\ 1 <= a1 /\ a1 < b1 /\ b1 <= Len(hl)
      /\ IF b1 < Len(hl) THEN b2 = b1 + 1 /\ a2 = a1 ELSE a2 = a1 + 1 /\ b2 = a1 + 2
  BY DEF Advances
<1>1. PICK m \in Nat : m = Len(hl)
  BY <1>0
<1>2. DOMAIN hl = 1..m /\ \A n \in 1..m : hl[n] \in Hashes
  BY <1>0, <1>1
<1>3. a1 \in 1..m /\ b1 \in 1..m
  BY <1>0, <1>1
<1>4. ASSUME NEW a \in 1..m, NEW b \in 1..m, a < b
      PROVE  a < a2 \/ (a = a2 /\ b < b2)
               <=> a < a1 \/ (a = a1 /\ b < b1) \/ (a = a1 /\ b = b1)
  <2>1. CASE b1 < m
    <3>1. a2 = a1 /\ b2 = b1 + 1
      BY <1>0, <1>1, <2>1
    <3> QED
      BY <1>0, <3>1
  <2>2. CASE ~ (b1 < m)
    <3>1. a2 = a1 + 1 /\ b2 = a1 + 2 /\ b1 = m
      BY <1>0, <1>1, <1>3, <2>2
    <3>2. b < b1 \/ b = b1
      BY <1>0, <3>1
    <3>3. ~ (a = a2 /\ b < b2)
      BY <1>0, <1>4, <3>1
    <3>4. a < a2 <=> a < a1 \/ a = a1
      BY <1>0, <3>1
    <3> QED
      BY <3>2, <3>3, <3>4
  <2> QED
    BY <2>1, <2>2
<1>5. \A e : e \in F <=> e \in nr /\ (e \in E \/ e = {hl[a1], hl[b1]})
  <2>1. ASSUME NEW e
        PROVE  e \in F <=> e \in nr /\ \E a, b \in 1..m : /\ a < b /\ e = {hl[a], hl[b]}
                                                         /\ \/ a < a1 \/ (a = a1 /\ b < b1)
                                                            \/ a = a1 /\ b = b1
    BY <1>2, <1>4 DEF ComparedTo
  <2>2. ASSUME NEW e
        PROVE  e \in E <=> e \in nr /\ \E a, b \in 1..m : /\ a < b /\ e = {hl[a], hl[b]}
                                                         /\ (a < a1 \/ (a = a1 /\ b < b1))
    BY <1>2 DEF ComparedTo
  <2>3. a1 < b1 /\ a1 = a1 /\ b1 = b1
    BY <1>0
  <2>4. ASSUME NEW e PROVE e \in F <=> e \in nr /\ (e \in E \/ e = {hl[a1], hl[b1]})
    <3>1. ASSUME e \in F PROVE e \in nr /\ (e \in E \/ e = {hl[a1], hl[b1]})
      <4>1. PICK a \in 1..m, b \in 1..m : /\ a < b /\ e = {hl[a], hl[b]}
                                        /\ \/ a < a1 \/ (a = a1 /\ b < b1)
                                           \/ a = a1 /\ b = b1
        BY <2>1, <3>1
      <4> QED
        BY <2>1, <2>2, <3>1, <4>1
    <3>2. ASSUME e \in nr, e \in E PROVE e \in F
      BY <2>1, <2>2, <3>2
    <3>3. ASSUME e \in nr, e = {hl[a1], hl[b1]} PROVE e \in F
      BY <1>3, <2>1, <2>3, <3>3
    <3> QED
      BY <3>1, <3>2, <3>3
  <2> QED
    BY <2>4
<1>6. \A e \in E : e \in nr
  BY DEF ComparedTo
<1>7. /\ {hl[a1], hl[b1]} \in nr => F = E \cup {{hl[a1], hl[b1]}}
      /\ {hl[a1], hl[b1]} \notin nr => F = E
  BY <1>5, <1>6
<1>8. a2 \in Nat /\ b2 \in Nat /\ 1 <= a2 /\ a2 < b2 /\ (b2 <= Len(hl) \/ b2 = a2 + 1)
  BY <1>0, <1>1
<1> QED
  BY <1>2, <1>3, <1>7, <1>8 DEF Compares

\* In the end all pairs of hashes are.
LEMMA ComparedAll ==
  ASSUME NEW nr, NEW hl \in Seq(Hashes), NEW a1 \in Nat, a1 + 1 > Len(hl),
         NEW x \in Elements(hl), NEW y \in Elements(hl), x # y, {x, y} \in nr
  PROVE  {x, y} \in ComparedTo(nr, hl, a1, a1 + 1)
<1>1. PICK m \in Nat : m = Len(hl)
  OBVIOUS
<1>2. DOMAIN hl = 1..m
  BY <1>1
<1>3. PICK p \in 1..m, q \in 1..m : hl[p] = x /\ hl[q] = y
  BY <1>2 DEF Elements
<1>4. p # q
  BY <1>3
<1>5. \E a, b \in 1..m : a < b /\ {x, y} = {hl[a], hl[b]}
  <2>1. CASE p < q
    BY <1>3, <2>1
  <2>2. CASE q < p
    <3>1. {x, y} = {hl[q], hl[p]}
      BY <1>3
    <3> QED
      BY <2>2, <3>1
  <2>3. p < q \/ q < p
    BY <1>4
  <2> QED
    BY <2>1, <2>2, <2>3, Zenon
<1>6. \A a, b \in 1..m : a < b => a < a1
  BY <1>1
<1> QED
  BY <1>2, <1>5, <1>6 DEF ComparedTo
--------------------------------------------------------------------------------
(* The images of a cluster. *)

\* Induction up to m, for a set of numbers that has 0 and with each number the next.
LEMMA IntervalInduction ==
  ASSUME NEW m \in Nat, NEW G, 0 \in G, \A n \in 1..m : n - 1 \in G => n \in G
  PROVE  \A n \in 0..m : n \in G
<1> SUFFICES ASSUME NEW k \in 0..m, k \notin G
             PROVE  FALSE
  OBVIOUS
<1> DEFINE B == {n \in 0..m : n \notin G}
<1>1. IsWellFoundedOn(OpToRel(<, Nat), Nat)
  BY NatLessThanWellFounded, Zenon
<1>2. B \subseteq Nat /\ B # {}
  OBVIOUS
<1> HIDE DEF B
<1>3. PICK x \in B : \A y \in B : ~ (<<y, x>> \in OpToRel(<, Nat))
  BY <1>1, <1>2, WFMin, Zenon
<1>4. x \in 0..m /\ x \notin G
  BY <1>3 DEF B
<1>5. x \in 1..m
  BY <1>4
<1>6. x - 1 \notin B
  <2>1. x \in Nat /\ x - 1 \in Nat /\ x - 1 < x
    BY <1>5
  <2> QED
    BY <1>3, <2>1 DEF OpToRel
<1>7. x - 1 \in G
  BY <1>5, <1>6 DEF B
<1> QED
  BY <1>4, <1>5, <1>7

IsImages(c, hs, look, m) ==
  /\ DOMAIN c = 0..m /\ c[0] = <<>>
  /\ \A n \in 1..m : c[n] = c[n - 1] \o look[hs[n]]

\* The recursion of ImagesOf has a solution.
LEMMA ImagesExist ==
  ASSUME NEW m \in Nat, NEW hs, NEW look
  PROVE  \E c : c = [n \in 0..m |-> c[n]] /\ IsImages(c, hs, look, m)
<1> DEFINE G == {n \in 0..m : \E c : c = [k \in 0..n |-> c[k]] /\ IsImages(c, hs, look, n)}
<1>1. 0 \in G
  <2> DEFINE c == [k \in 0..0 |-> <<>>]
  <2>1. c = [k \in 0..0 |-> c[k]] /\ IsImages(c, hs, look, 0)
    BY DEF IsImages
  <2> HIDE DEF c
  <2> QED
    BY <2>1
<1>2. ASSUME NEW n \in 1..m, n - 1 \in G
      PROVE  n \in G
  <2>1. PICK c : c = [k \in 0..(n - 1) |-> c[k]] /\ IsImages(c, hs, look, n - 1)
    BY <1>2
  <2> DEFINE d == [k \in 0..n |-> IF k = n THEN c[n - 1] \o look[hs[n]] ELSE c[k]]
  <2>2. /\ DOMAIN d = 0..n /\ d[n] = c[n - 1] \o look[hs[n]]
        /\ \A k \in 0..(n - 1) : d[k] = c[k]
    OBVIOUS
  <2>3. d = [k \in 0..n |-> d[k]]
    OBVIOUS
  <2> HIDE DEF d
  <2>4. d[0] = <<>>
    BY <2>1, <2>2 DEF IsImages
  <2>5. ASSUME NEW k \in 1..n
        PROVE  d[k] = d[k - 1] \o look[hs[k]]
    <3>1. k - 1 \in 0..(n - 1) /\ d[k - 1] = c[k - 1]
      BY <2>2
    <3>2. CASE k = n
      BY <2>2, <3>1, <3>2
    <3>3. CASE k # n
      <4>1. k \in 1..(n - 1) /\ k \in 0..(n - 1)
        BY <3>3
      <4> QED
        BY <2>1, <2>2, <3>1, <4>1 DEF IsImages
    <3> QED
      BY <3>2, <3>3
  <2>6. IsImages(d, hs, look, n)
    BY <2>2, <2>4, <2>5 DEF IsImages
  <2> QED
    BY <2>3, <2>6
<1>3. m \in 0..m
  OBVIOUS
<1> HIDE DEF G
<1>4. m \in G
  BY <1>1, <1>2, <1>3, IntervalInduction
<1> QED
  BY <1>4 DEF G

LEMMA ImagesOfIs ==
  ASSUME NEW hs \in Seq(Hashes)
  PROVE  \E c : IsImages(c, hs, irefLookup, Len(hs)) /\ ImagesOf(hs) = c[Len(hs)]
<1> DEFINE images[n \in 0..Len(hs)] ==
             IF n = 0 THEN <<>> ELSE images[n - 1] \o irefLookup[hs[n]]
<1>1. ImagesOf(hs) = images[Len(hs)]
  BY DEF ImagesOf
<1>2. Len(hs) \in Nat
  OBVIOUS
<1>3. PICK c : c = [n \in 0..Len(hs) |-> c[n]] /\ IsImages(c, hs, irefLookup, Len(hs))
  BY <1>2, ImagesExist
<1>4. c = [n \in 0..Len(hs) |-> IF n = 0 THEN <<>> ELSE c[n - 1] \o irefLookup[hs[n]]]
  <2>1. ASSUME NEW n \in 0..Len(hs)
        PROVE  c[n] = IF n = 0 THEN <<>> ELSE c[n - 1] \o irefLookup[hs[n]]
    BY <1>2, <1>3 DEF IsImages
  <2> QED
    BY <1>3, <2>1
<1>5. images = [n \in 0..Len(hs) |-> IF n = 0 THEN <<>> ELSE images[n - 1] \o irefLookup[hs[n]]]
  BY <1>4, Zenon
<1> HIDE DEF images
<1>6. IsImages(images, hs, irefLookup, Len(hs))
  <2>1. DOMAIN images = 0..Len(hs) /\ images[0] = <<>>
    BY <1>2, <1>5
  <2>2. ASSUME NEW n \in 1..Len(hs) PROVE images[n] = images[n - 1] \o irefLookup[hs[n]]
    <3>1. n \in 0..Len(hs) /\ n # 0
      BY <1>2
    <3> QED
      BY <1>5, <3>1
  <2> QED
    BY <2>1, <2>2 DEF IsImages
<1> QED
  BY <1>1, <1>6

\* The images of the first n hashes of hs.
Images(ph, m, hs, n, s) ==
  /\ s \in Seq(DOMAIN ph) /\ Unique(s)
  /\ \A x : x \in Elements(s) <=> x \in 1..m /\ \E k \in 1..n : ph[x] = hs[k]

LEMMA MoreImages ==
  ASSUME NEW ph, NEW m, NEW hl, NEW look, Gathered(ph, m, hl, look),
         NEW hs \in Seq(Hashes), Unique(hs), NEW n \in 1..Len(hs), NEW s, Images(ph, m, hs, n - 1, s),
         NEW t, t = s \o look[hs[n]]
  PROVE  Images(ph, m, hs, n, t)
<1>1. /\ look \in [Hashes -> Seq(DOMAIN ph)]
      /\ \A h \in Hashes : /\ Unique(look[h])
                           /\ \A x : x \in Elements(look[h]) <=> x \in 1..m /\ ph[x] = h
  BY DEF Gathered
<1>2. /\ s \in Seq(DOMAIN ph) /\ Unique(s)
      /\ \A x : x \in Elements(s) <=> x \in 1..m /\ \E k \in 1..(n - 1) : ph[x] = hs[k]
  BY DEF Images
<1>3. /\ DOMAIN hs = 1..Len(hs) /\ hs[n] \in Hashes
      /\ \A k \in 1..(n - 1) : k \in DOMAIN hs /\ k # n
      /\ \A k : k \in 1..n <=> k \in 1..(n - 1) \/ k = n
  OBVIOUS
<1>4. PICK r : r = look[hs[n]]
  OBVIOUS
<1>5. PICK D : D = DOMAIN ph
  OBVIOUS
<1>6. /\ r \in Seq(D) /\ Unique(r)
      /\ \A x : x \in Elements(r) <=> x \in 1..m /\ ph[x] = hs[n]
  BY <1>1, <1>3, <1>4, <1>5
<1>7. s \in Seq(D) /\ t = s \o r
  BY <1>2, <1>4, <1>5
<1>8. Elements(s) \cap Elements(r) = {}
  <2>1. \A k \in 1..(n - 1) : hs[k] # hs[n]
    BY <1>3 DEF Unique
  <2> QED
    BY <1>2, <1>6, <2>1
<1>9. t \in Seq(D)
  BY <1>6, <1>7
<1>10. /\ \A y : y \in Elements(t) <=> y \in Elements(s) \/ y \in Elements(r)
       /\ Unique(s) /\ Unique(r) /\ Elements(s) \cap Elements(r) = {} => Unique(t)
  BY <1>6, <1>7, UniqueConcatenation
<1>11. Unique(t)
  BY <1>2, <1>6, <1>8, <1>10
<1>12. ASSUME NEW x PROVE x \in Elements(t) <=> x \in 1..m /\ \E k \in 1..n : ph[x] = hs[k]
  BY <1>2, <1>3, <1>6, <1>10
<1> QED
  BY <1>5, <1>9, <1>11, <1>12 DEF Images

LEMMA ImagesOfFacts ==
  ASSUME NEW m, Gathered(phash, m, hashList, irefLookup),
         NEW hs \in Seq(Hashes), Unique(hs)
  PROVE  /\ ImagesOf(hs) \in Seq(DOMAIN phash) /\ Unique(ImagesOf(hs))
         /\ \A x : x \in Elements(ImagesOf(hs)) <=> x \in 1..m /\ phash[x] \in Elements(hs)
<1>1. PICK c : IsImages(c, hs, irefLookup, Len(hs)) /\ ImagesOf(hs) = c[Len(hs)]
  BY ImagesOfIs
<1>2. Len(hs) \in Nat /\ Len(hs) \in 0..Len(hs) /\ DOMAIN hs = 1..Len(hs)
  OBVIOUS
<1> DEFINE G == {n \in 0..Len(hs) : Images(phash, m, hs, n, c[n])}
<1>3. 0 \in G
  <2>1. c[0] = <<>>
    BY <1>1 DEF IsImages
  <2>2. <<>> \in Seq(DOMAIN phash) /\ Elements(<<>>) = {} /\ Unique(<<>>)
    BY DEF Elements, Unique
  <2>3. ~ \E k \in 1..0 : TRUE
    OBVIOUS
  <2>4. Images(phash, m, hs, 0, c[0])
    BY <2>1, <2>2, <2>3 DEF Images
  <2> QED
    BY <1>2, <2>4
<1>4. ASSUME NEW n \in 1..Len(hs), n - 1 \in G PROVE n \in G
  <2>1. c[n] = c[n - 1] \o irefLookup[hs[n]]
    BY <1>1 DEF IsImages
  <2>2. Images(phash, m, hs, n - 1, c[n - 1])
    BY <1>4
  <2>3. Images(phash, m, hs, n, c[n])
    BY <2>1, <2>2, MoreImages
  <2> QED
    BY <1>2, <2>3
<1> HIDE DEF G
<1>5. Len(hs) \in G
  BY <1>2, <1>3, <1>4, IntervalInduction
<1>6. PICK s : s = ImagesOf(hs)
  OBVIOUS
<1>7. Images(phash, m, hs, Len(hs), s)
  BY <1>1, <1>5, <1>6 DEF G
<1>8. \A y : y \in Elements(hs) <=> \E k \in 1..Len(hs) : y = hs[k]
  BY <1>2 DEF Elements
<1> QED
  BY <1>6, <1>7, <1>8 DEF Images
--------------------------------------------------------------------------------
(* The list: the images of the clusters that are not in unl any more. *)

Together(ph, f, s) ==
  \A a, b, c \in DOMAIN s : a < b /\ b < c /\ f[ph[s[a]]] = f[ph[s[c]]]
                              => f[ph[s[b]]] = f[ph[s[a]]]
ListedBut(ph, f, unl, s) ==
  /\ s \in Seq(DOMAIN ph) /\ Unique(s)
  /\ \A x : x \in Elements(s) <=> x \in DOMAIN ph /\ f[ph[x]] # NoCluster /\ f[ph[x]] \notin unl
  /\ Together(ph, f, s)

\* A cluster's images go behind the others, and none is between two of another cluster.
Follows(ph, f, D, s, r, t, d) ==
  /\ s \in Seq(D) /\ r \in Seq(D) /\ t = s \o r /\ Together(ph, f, s)
  /\ \A x \in Elements(r) : f[ph[x]] = d
  /\ \A x \in Elements(s) : f[ph[x]] # d

LEMMA StillTogether ==
  ASSUME NEW ph, NEW f, NEW D, NEW s, NEW r, NEW t, NEW d, Follows(ph, f, D, s, r, t, d)
  PROVE  Together(ph, f, t)
<1>0. /\ s \in Seq(D) /\ r \in Seq(D) /\ t = s \o r /\ Together(ph, f, s)
      /\ \A x \in Elements(r) : f[ph[x]] = d
      /\ \A x \in Elements(s) : f[ph[x]] # d
  BY DEF Follows
<1>1. PICK p : p = Len(s)
  OBVIOUS
<1>2. PICK q : q = Len(r)
  OBVIOUS
<1>3. /\ p \in Nat /\ q \in Nat /\ DOMAIN s = 1..p /\ DOMAIN r = 1..q /\ DOMAIN t = 1..(p + q)
      /\ \A n \in DOMAIN t : \/ n \in DOMAIN s /\ t[n] = s[n]
                             \/ n - p \in DOMAIN r /\ t[n] = r[n - p]
  <2>1. /\ p \in Nat /\ q \in Nat /\ DOMAIN s = 1..p /\ DOMAIN r = 1..q
    BY <1>0, <1>1, <1>2
  <2>2. DOMAIN t = 1..(p + q)
    BY <1>0, <1>1, <1>2, Concatenation
  <2>3. \A n \in DOMAIN t : \/ n \in DOMAIN s /\ t[n] = s[n]
                            \/ n - p \in DOMAIN r /\ t[n] = r[n - p]
    BY <1>0, <1>1, Concatenation
  <2> QED
    BY <2>1, <2>2, <2>3
<1>4. ASSUME NEW n \in DOMAIN t
      PROVE  \/ n \in 1..p /\ t[n] = s[n] /\ f[ph[t[n]]] # d
             \/ n > p /\ f[ph[t[n]]] = d
  <2>1. CASE n \in DOMAIN s /\ t[n] = s[n]
    <3>1. s[n] \in Elements(s)
      BY <1>0, <2>1 DEF Elements
    <3> QED
      BY <1>0, <1>3, <2>1, <3>1
  <2>2. CASE n - p \in DOMAIN r /\ t[n] = r[n - p]
    <3>1. r[n - p] \in Elements(r)
      BY <2>2 DEF Elements
    <3>2. n > p
      BY <1>3, <2>2
    <3> QED
      BY <1>0, <2>2, <3>1, <3>2
  <2> QED
    BY <1>3, <2>1, <2>2
<1>5. ASSUME NEW a \in DOMAIN t, NEW b \in DOMAIN t, NEW c \in DOMAIN t,
             a < b, b < c, f[ph[t[a]]] = f[ph[t[c]]]
      PROVE  f[ph[t[b]]] = f[ph[t[a]]]
  <2>0. a \in Nat /\ b \in Nat /\ c \in Nat
    BY <1>3
  <2>1. CASE f[ph[t[a]]] = d
    <3>1. a > p /\ f[ph[t[a]]] = d
      BY <1>4, <2>1
    <3>2. ~ (b \in 1..p)
      BY <1>3, <1>5, <2>0, <3>1
    <3>3. f[ph[t[b]]] = d
      BY <1>4, <3>2
    <3> QED
      BY <3>1, <3>3
  <2>2. CASE f[ph[t[a]]] # d
    <3>1. c \in 1..p /\ t[c] = s[c] /\ a \in 1..p /\ t[a] = s[a]
      BY <1>4, <1>5, <2>2
    <3>2. b \in 1..p
      BY <1>3, <1>5, <2>0, <3>1
    <3>3. ~ (b > p)
      BY <1>3, <3>2
    <3>4. t[b] = s[b]
      BY <1>4, <3>3
    <3>5. f[ph[s[a]]] = f[ph[s[c]]] /\ a \in DOMAIN s /\ b \in DOMAIN s /\ c \in DOMAIN s
      BY <1>3, <1>5, <3>1, <3>2
    <3>6. f[ph[s[b]]] = f[ph[s[a]]]
      BY <1>0, <1>5, <3>5 DEF Together
    <3> QED
      BY <3>1, <3>4, <3>6
  <2> QED
    BY <2>1, <2>2
<1> QED
  BY <1>5 DEF Together

\* Listing one more cluster.
LEMMA ListOne ==
  ASSUME NEW ph, NEW f, NEW unl, NEW s, ListedBut(ph, f, unl, s), NEW d \in unl, d # NoCluster,
         NEW r \in Seq(DOMAIN ph), Unique(r),
         \A x : x \in Elements(r) <=> x \in DOMAIN ph /\ f[ph[x]] = d,
         NEW t, t = s \o r
  PROVE  ListedBut(ph, f, unl \ {d}, t)
<1>1. PICK D : D = DOMAIN ph
  OBVIOUS
<1>2. /\ s \in Seq(D) /\ Unique(s) /\ Together(ph, f, s) /\ r \in Seq(D)
      /\ \A x : x \in Elements(s) <=> x \in D /\ f[ph[x]] # NoCluster /\ f[ph[x]] \notin unl
      /\ \A x : x \in Elements(r) <=> x \in D /\ f[ph[x]] = d
  BY <1>1 DEF ListedBut
<1>3. t \in Seq(D)
  BY <1>2
<1>4. Elements(s) \cap Elements(r) = {}
  BY <1>2
<1>5. /\ \A y : y \in Elements(t) <=> y \in Elements(s) \/ y \in Elements(r)
      /\ Unique(t)
  <2>1. /\ \A y : y \in Elements(t) <=> y \in Elements(s) \/ y \in Elements(r)
        /\ Unique(s) /\ Unique(r) /\ Elements(s) \cap Elements(r) = {} => Unique(t)
    BY <1>2, UniqueConcatenation
  <2> QED
    BY <1>2, <1>4, <2>1
<1>6. \A x : x \in Elements(t) <=> x \in D /\ f[ph[x]] # NoCluster /\ f[ph[x]] \notin unl \ {d}
  BY <1>2, <1>5
<1>7. Together(ph, f, t)
  <2>1. \A x \in Elements(r) : f[ph[x]] = d
    BY <1>2
  <2>2. \A x \in Elements(s) : f[ph[x]] # d
    BY <1>2
  <2>3. Follows(ph, f, D, s, r, t, d)
    BY <1>2, <2>1, <2>2 DEF Follows
  <2> QED
    BY <2>3, StillTogether
<1> QED
  BY <1>1, <1>3, <1>5, <1>6, <1>7 DEF ListedBut
--------------------------------------------------------------------------------
(* The invariant. *)

\* A hash counts as clustered when two images have it or an edge of E does.
CountsAs(f, look, E) ==
  \A h \in Hashes : f[h] # NoCluster <=> Len(look[h]) > 1 \/ \E e \in E : h \in e
Clustering(f, cl, n, look, E) == Clusters(f, cl, n) /\ JoinedBy(E, f) /\ CountsAs(f, look, E)

Collecting == /\ pc = "collect" /\ Gathered(phash, i - 1, hashList, irefLookup) /\ j = 2
              /\ Clustering(hashToCluster, clusters, nextClusterId, irefLookup, {})
              /\ unlisted = {} /\ output = <<>>
AllGathered == /\ Gathered(phash, Len(phash), hashList, irefLookup)
               /\ i < j /\ (j <= Len(hashList) \/ j = i + 1)
               /\ Clustering(hashToCluster, clusters, nextClusterId, irefLookup,
                             ComparedTo(near, hashList, i, j))
Comparing == pc = "compare" /\ AllGathered /\ unlisted = {} /\ output = <<>>
Listing == /\ pc = "list" /\ AllGathered /\ j > Len(hashList) /\ unlisted \subseteq ClusterIds
           /\ ListedBut(phash, hashToCluster, unlisted, output)
DupInv == /\ near \subseteq Pairs /\ i \in Nat /\ j \in Nat /\ 1 <= i
          /\ Collecting \/ Comparing \/ Listing

\* The second image of a hash makes it a cluster.
Counts(h, look, f, g, cl, dl, n, o) ==
  IF look[h] # <<>> /\ f[h] = NoCluster
  THEN /\ dl = [cl EXCEPT ![n] = <<h>>] /\ o = n + 1
       /\ g = [x \in Hashes |-> IF \E m \in DOMAIN <<h>> : <<h>>[m] = x THEN n ELSE f[x]]
  ELSE dl = cl /\ g = f /\ o = n

LEMMA CollectStep ==
  ASSUME NEW ph, NEW k, NEW h, NEW hl, NEW hl2, NEW look, NEW look2,
         Gathers(ph, k, h, hl, hl2, look, look2),
         NEW f, NEW cl, NEW n, Clustering(f, cl, n, look, {}), NEW g, NEW dl, NEW o,
         Counts(h, look, f, g, cl, dl, n, o)
  PROVE  Gathered(ph, k, hl2, look2) /\ Clustering(g, dl, o, look2, {})
<1>0. Gathered(ph, k, hl2, look2) /\ SecondImage(h, look, look2)
  BY GatherStep
<1>1. Gathered(ph, k, hl2, look2) /\ h \in Hashes
  BY <1>0 DEF SecondImage
<1>2. \A x \in Hashes : Len(look2[x]) > 1 <=> Len(look[x]) > 1 \/ (x = h /\ look[h] # <<>>)
  BY <1>0 DEF SecondImage
<1>3. /\ Clusters(f, cl, n) /\ JoinedBy({}, f)
      /\ \A x \in Hashes : f[x] # NoCluster <=> Len(look[x]) > 1
  BY DEF Clustering, CountsAs
<1>4. CASE look[h] # <<>> /\ f[h] = NoCluster
  <2>1. /\ dl = [cl EXCEPT ![n] = <<h>>] /\ o = n + 1
        /\ g = [x \in Hashes |-> IF \E m \in DOMAIN <<h>> : <<h>>[m] = x THEN n ELSE f[x]]
    BY <1>4 DEF Counts
  <2>2. PICK hs : hs = <<h>>
    OBVIOUS
  <2>3. hs \in Seq(Hashes) /\ Elements(hs) = {h, h} /\ Unique(hs)
    <3>1. hs \in Seq(Hashes) /\ DOMAIN hs = {1} /\ hs[1] = h
      BY <1>1, <2>2
    <3> QED
      BY <3>1 DEF Elements, Unique
  <2>4. Edge({}, {}, h, h)
    BY DEF Edge
  <2>5. dl = [cl EXCEPT ![n] = hs]
    BY <2>1, <2>2
  <2>6. g = [x \in Hashes |-> IF \E m \in DOMAIN hs : hs[m] = x THEN n ELSE f[x]]
    BY <2>1, <2>2
  <2>7. Joins(f, g, dl, n + 1, {}, h, h)
    BY <1>1, <1>3, <1>4, <2>3, <2>4, <2>5, <2>6, NewOne
  <2>8. Clusters(g, dl, o) /\ JoinedBy({}, g) /\ Clustered(g) = Clustered(f) \cup {h, h}
    BY <2>1, <2>7 DEF Joins
  <2>9. \A x \in Hashes : g[x] # NoCluster <=> f[x] # NoCluster \/ x = h
    BY <2>8 DEF Clustered
  <2>10. CountsAs(g, look2, {})
    BY <1>2, <1>3, <1>4, <2>9 DEF CountsAs
  <2> QED
    BY <1>1, <2>8, <2>10 DEF Clustering
<1>5. CASE ~ (look[h] # <<>> /\ f[h] = NoCluster)
  <2>1. dl = cl /\ g = f /\ o = n
    BY <1>5 DEF Counts
  <2>2. CountsAs(g, look2, {})
    BY <1>1, <1>2, <1>3, <1>5, <2>1 DEF CountsAs
  <2> QED
    BY <1>1, <1>3, <2>1, <2>2 DEF Clustering
<1> QED
  BY <1>4, <1>5

\* One pair of hashes more.
LEMMA JoinStep ==
  ASSUME NEW f, NEW cl, NEW n, NEW look, NEW E, Clustering(f, cl, n, look, E),
         NEW g, NEW dl, NEW o, NEW F, NEW h, NEW k, F = E \cup {{h, k}},
         Joins(f, g, dl, o, F, h, k)
  PROVE  Clustering(g, dl, o, look, F)
<1>1. /\ Clusters(g, dl, o) /\ JoinedBy(F, g) /\ Clustered(g) = Clustered(f) \cup {h, k}
  BY DEF Joins
<1>2. \A x \in Hashes : f[x] # NoCluster <=> Len(look[x]) > 1 \/ \E e \in E : x \in e
  BY DEF Clustering, CountsAs
<1>3. \A x \in Hashes : g[x] # NoCluster <=> f[x] # NoCluster \/ x \in {h, k}
  BY <1>1 DEF Clustered
<1>4. \A x : (\E e \in F : x \in e) <=> (\E e \in E : x \in e) \/ x \in {h, k}
  OBVIOUS
<1>5. CountsAs(g, look, F)
  BY <1>2, <1>3, <1>4 DEF CountsAs
<1> QED
  BY <1>1, <1>5 DEF Clustering
--------------------------------------------------------------------------------
(* The steps. *)

\* The loop body of findClusters keeps the clusters true to the pairs compared.
LEMMA ClusterStep ==
  ASSUME NEW E, Clustering(hashToCluster, clusters, nextClusterId, irefLookup, E),
         NEW h \in Hashes, NEW k \in Hashes, h # k, Cluster(h, k), NEW F, F = E \cup {{h, k}}
  PROVE  Clustering(hashToCluster', clusters', nextClusterId', irefLookup, F)
<1>1. PICK f : f = hashToCluster
  OBVIOUS
<1>2. PICK g : g = hashToCluster'
  OBVIOUS
<1>3. PICK cl : cl = clusters
  OBVIOUS
<1>4. PICK dl : dl = clusters'
  OBVIOUS
<1>5. PICK n : n = nextClusterId
  OBVIOUS
<1>6. PICK o : o = nextClusterId'
  OBVIOUS
<1>7. PICK look : look = irefLookup
  OBVIOUS
<1>8. Clustering(f, cl, n, look, E)
  BY <1>1, <1>3, <1>5, <1>7
<1>9. Clusters(f, cl, n) /\ JoinedBy(E, f)
  BY <1>8 DEF Clustering
<1>10. Edge(E, F, h, k) /\ Edge(E, F, k, h) /\ {k, h} = {h, k}
  BY DEF Edge
<1>11. Joins(f, g, dl, o, F, h, k)
  <2>1. CASE f[h] = NoCluster /\ f[k] = NoCluster
    <3>1. NewCluster(<<h, k>>)
      BY <1>1, <2>1 DEF Cluster
    <3>2. PICK hs : hs = <<h, k>>
      OBVIOUS
    <3>3. hs \in Seq(Hashes) /\ Elements(hs) = {h, k} /\ Unique(hs)
      <4>1. hs \in Seq(Hashes) /\ DOMAIN hs = 1..2 /\ hs[1] = h /\ hs[2] = k
        BY <3>2
      <4>2. \A m : m \in 1..2 <=> m = 1 \/ m = 2
        OBVIOUS
      <4>3. Elements(hs) = {h, k}
        BY <4>1, <4>2 DEF Elements
      <4>4. Unique(hs)
        BY <4>1, <4>2 DEF Unique
      <4> QED
        BY <4>1, <4>3, <4>4
    <3>4. dl = [cl EXCEPT ![n] = hs] /\ o = n + 1
      BY <1>3, <1>4, <1>5, <1>6, <3>1, <3>2 DEF NewCluster
    <3>5. g = [x \in Hashes |-> IF \E m \in DOMAIN hs : hs[m] = x THEN n ELSE f[x]]
      BY <1>1, <1>2, <1>5, <3>1, <3>2 DEF NewCluster
    <3>6. Joins(f, g, dl, n + 1, F, h, k)
      BY <1>9, <1>10, <2>1, <3>3, <3>4, <3>5, NewOne
    <3> QED
      BY <3>4, <3>6
  <2>2. CASE f[h] = NoCluster /\ f[k] # NoCluster
    <3>1. PICK d : d = f[k]
      OBVIOUS
    <3>2. Put(h, d)
      BY <1>1, <2>2, <3>1 DEF Cluster
    <3>3. g = [f EXCEPT ![h] = d] /\ dl = [cl EXCEPT ![d] = Append(@, h)] /\ o = n
      BY <1>1, <1>2, <1>3, <1>4, <1>5, <1>6, <3>2 DEF Put
    <3>4. Joins(f, g, dl, n, F, h, k)
      BY <1>9, <1>10, <2>2, <3>1, <3>3, JoinsOne
    <3> QED
      BY <3>3, <3>4
  <2>3. CASE f[h] # NoCluster /\ f[k] = NoCluster
    <3>1. PICK c : c = f[h]
      OBVIOUS
    <3>2. Put(k, c)
      BY <1>1, <2>3, <3>1 DEF Cluster
    <3>3. g = [f EXCEPT ![k] = c] /\ dl = [cl EXCEPT ![c] = Append(@, k)] /\ o = n
      BY <1>1, <1>2, <1>3, <1>4, <1>5, <1>6, <3>2 DEF Put
    <3>4. Joins(f, g, dl, n, F, k, h)
      BY <1>9, <1>10, <2>3, <3>1, <3>3, JoinsOne
    <3> QED
      BY <1>10, <3>3, <3>4 DEF Joins
  <2>4. CASE f[h] # NoCluster /\ f[k] # NoCluster /\ f[h] # f[k]
    <3>1. PICK c : c = f[h]
      OBVIOUS
    <3>2. PICK d : d = f[k]
      OBVIOUS
    <3>3. Merge(c, d)
      BY <1>1, <2>4, <3>1, <3>2 DEF Cluster
    <3>4. /\ g = [x \in Hashes |-> IF \E m \in DOMAIN cl[d] : cl[d][m] = x THEN c ELSE f[x]]
          /\ o = n
      BY <1>1, <1>2, <1>3, <1>5, <1>6, <3>3 DEF Merge
    <3>5. dl = [cl EXCEPT ![c] = @ \o cl[d], ![d] = <<>>]
      BY <1>3, <1>4, <3>3 DEF Merge
    <3>6. Moves(f, g, cl, dl, c, d)
      BY <3>4, <3>5 DEF Moves
    <3>7. Joins(f, g, dl, n, F, h, k)
      BY <1>9, <1>10, <2>4, <3>1, <3>2, <3>6, JoinsTwo
    <3> QED
      BY <3>4, <3>7
  <2>5. CASE f[h] # NoCluster /\ f[h] = f[k]
    <3>1. g = f /\ dl = cl /\ o = n
      BY <1>1, <1>2, <1>3, <1>4, <1>5, <1>6, <2>5 DEF Cluster, clustering
    <3>2. Joins(f, f, cl, n, F, h, k)
      BY <1>9, <1>10, <2>5, JoinsNone
    <3> QED
      BY <3>1, <3>2
  <2> QED
    BY <2>1, <2>2, <2>3, <2>4, <2>5
<1>12. Clustering(g, dl, o, look, F)
  BY <1>8, <1>11, JoinStep
<1> QED
  BY <1>2, <1>4, <1>6, <1>7, <1>12

\* The search starts with nothing gathered.
LEMMA DupInit == Init => DupInv
<1> SUFFICES ASSUME Init PROVE DupInv
  OBVIOUS
<1> USE DEF Init
<1>1. phash \in Seq(Hashes)
  <2>1. PICK n \in 0..MaxImages : phash \in [1..n -> Hashes]
    OBVIOUS
  <2> QED
    BY <2>1, DuplicatesAssumption
<1>2. /\ near \subseteq Pairs /\ pc = "collect" /\ i = 1 /\ j = 2 /\ i - 1 = 0
      /\ hashList = <<>> /\ irefLookup = [h \in Hashes |-> <<>>]
      /\ hashToCluster = [h \in Hashes |-> NoCluster]
      /\ clusters = [c \in ClusterIds |-> <<>>] /\ nextClusterId = 0
      /\ unlisted = {} /\ output = <<>>
  OBVIOUS
<1> HIDE DEF Init
<1>3. Gathered(phash, i - 1, hashList, irefLookup)
  BY <1>1, <1>2, GatherStart
<1>4. PICK f : f = hashToCluster
  OBVIOUS
<1>5. PICK cl : cl = clusters
  OBVIOUS
<1>6. f = [h \in Hashes |-> NoCluster] /\ cl = [c \in ClusterIds |-> <<>>]
  BY <1>2, <1>4, <1>5
<1>7. Elements(<<>>) = {} /\ Unique(<<>>) /\ <<>> \in Seq(Hashes)
  BY DEF Elements, Unique
<1>8. Parted(f, cl)
  <2>1. f \in [Hashes -> ClusterIds \cup {NoCluster}] /\ cl \in [ClusterIds -> Seq(Hashes)]
    BY <1>6, <1>7
  <2>2. \A c \in ClusterIds : Elements(cl[c]) = {h \in Hashes : f[h] = c} /\ Unique(cl[c])
    BY <1>6, <1>7, IdsAreNot
  <2> QED
    BY <2>1, <2>2 DEF Parted
<1>9. Numbered(f, 0)
  BY <1>6, ClusteredFinite DEF Numbered
<1>10. JoinedBy({}, f)
  BY <1>6 DEF JoinedBy
<1>11. CountsAs(f, irefLookup, {})
  <2>1. \A h \in Hashes : f[h] = NoCluster /\ irefLookup[h] = <<>>
    BY <1>2, <1>6
  <2>2. ~ (Len(<<>>) > 1)
    OBVIOUS
  <2> QED
    BY <2>1, <2>2 DEF CountsAs
<1>12. Clustering(hashToCluster, clusters, nextClusterId, irefLookup, {})
  BY <1>2, <1>4, <1>5, <1>8, <1>9, <1>10, <1>11 DEF Clustering, Clusters
<1> QED
  BY <1>2, <1>3, <1>12 DEF DupInv, Collecting

LEMMA CollectKeeps == DupInv /\ Collect => DupInv'
<1> SUFFICES ASSUME DupInv, Collect PROVE DupInv'
  OBVIOUS
<1>1. /\ pc = "collect" /\ i <= Len(phash) /\ near \subseteq Pairs /\ i \in Nat /\ j \in Nat /\ 1 <= i
      /\ Gathered(phash, i - 1, hashList, irefLookup) /\ j = 2
      /\ Clustering(hashToCluster, clusters, nextClusterId, irefLookup, {})
      /\ unlisted = {} /\ output = <<>>
  BY DEF DupInv, Collect, Collecting, Comparing, Listing
<1>2. /\ phash' = phash /\ near' = near /\ pc' = pc /\ i' = i + 1 /\ j' = j
      /\ unlisted' = unlisted /\ output' = output
  BY DEF Collect, given
<1>3. PICK h : h = phash[i]
  OBVIOUS
<1>4. PICK hl : hl = hashList'
  OBVIOUS
<1>5. PICK look : look = irefLookup'
  OBVIOUS
<1>6. PICK g : g = hashToCluster'
  OBVIOUS
<1>7. PICK dl : dl = clusters'
  OBVIOUS
<1>8. PICK o : o = nextClusterId'
  OBVIOUS
<1>9. phash \in Seq(Hashes) /\ Len(phash) \in Nat /\ i \in 1..Len(phash)
  BY <1>1 DEF Gathered
<1>10. Gathers(phash, i, h, hashList, hl, irefLookup, look)
  BY <1>1, <1>3, <1>4, <1>5, <1>9 DEF Collect, Gathers
<1>11. Counts(h, irefLookup, hashToCluster, g, clusters, dl, nextClusterId, o)
  <2>1. IF irefLookup[h] # <<>> /\ hashToCluster[h] = NoCluster
        THEN NewCluster(<<h>>) ELSE UNCHANGED clustering
    BY <1>3 DEF Collect
  <2>2. CASE irefLookup[h] # <<>> /\ hashToCluster[h] = NoCluster
    <3>1. NewCluster(<<h>>)
      BY <2>1, <2>2
    <3> QED
      BY <1>6, <1>7, <1>8, <2>2, <3>1 DEF NewCluster, Counts
  <2>3. CASE ~ (irefLookup[h] # <<>> /\ hashToCluster[h] = NoCluster)
    BY <1>6, <1>7, <1>8, <2>1, <2>3 DEF clustering, Counts
  <2> QED
    BY <2>2, <2>3
<1>12. Gathered(phash, i, hl, look) /\ Clustering(g, dl, o, look, {})
  BY <1>1, <1>10, <1>11, CollectStep
<1>13. i' - 1 = i /\ i' \in Nat /\ 1 <= i' /\ j' \in Nat
  BY <1>1, <1>2
<1>14. Gathered(phash', i' - 1, hashList', irefLookup')
  BY <1>2, <1>4, <1>5, <1>12, <1>13
<1>15. Clustering(hashToCluster', clusters', nextClusterId', irefLookup', {})
  BY <1>5, <1>6, <1>7, <1>8, <1>12
<1>16. Collecting'
  BY <1>1, <1>2, <1>14, <1>15 DEF Collecting
<1> QED
  BY <1>1, <1>2, <1>13, <1>16 DEF DupInv

LEMMA StartCompareKeeps == DupInv /\ StartCompare => DupInv'
<1> SUFFICES ASSUME DupInv, StartCompare PROVE DupInv'
  OBVIOUS
<1>1. /\ pc = "collect" /\ i > Len(phash) /\ near \subseteq Pairs /\ i \in Nat /\ 1 <= i
      /\ Gathered(phash, i - 1, hashList, irefLookup)
      /\ Clustering(hashToCluster, clusters, nextClusterId, irefLookup, {})
      /\ unlisted = {} /\ output = <<>>
  BY DEF DupInv, StartCompare, Collecting, Comparing, Listing
<1>2. /\ phash' = phash /\ near' = near /\ pc' = "compare" /\ i' = 1 /\ j' = 2
      /\ unlisted' = unlisted /\ output' = output /\ hashList' = hashList
      /\ irefLookup' = irefLookup /\ hashToCluster' = hashToCluster /\ clusters' = clusters
      /\ nextClusterId' = nextClusterId
  BY DEF StartCompare, given, clustering
<1>3. hashList \in Seq(Hashes) /\ i - 1 = Len(phash)
  BY <1>1 DEF Gathered
<1>4. Gathered(phash', Len(phash'), hashList', irefLookup')
  BY <1>1, <1>2, <1>3
<1>5. ComparedTo(near', hashList', i', j') = {}
  BY <1>2, <1>3, ComparedStart
<1>6. Clustering(hashToCluster', clusters', nextClusterId', irefLookup',
                 ComparedTo(near', hashList', i', j'))
  BY <1>1, <1>2, <1>5
<1>7. i' < j' /\ j' = i' + 1 /\ i' \in Nat /\ j' \in Nat /\ 1 <= i'
  BY <1>2
<1>8. AllGathered'
  BY <1>4, <1>6, <1>7 DEF AllGathered
<1> QED
  BY <1>1, <1>2, <1>7, <1>8 DEF DupInv, Comparing

LEMMA CompareKeeps == DupInv /\ Compare => DupInv'
<1> SUFFICES ASSUME DupInv, Compare PROVE DupInv'
  OBVIOUS
<1>1. /\ pc = "compare" /\ j <= Len(hashList) /\ near \subseteq Pairs
      /\ i \in Nat /\ j \in Nat /\ 1 <= i /\ unlisted = {} /\ output = <<>>
      /\ Gathered(phash, Len(phash), hashList, irefLookup) /\ i < j
  BY DEF DupInv, Compare, Collecting, Comparing, Listing, AllGathered
<1>2. Clustering(hashToCluster, clusters, nextClusterId, irefLookup,
                 ComparedTo(near, hashList, i, j))
  BY <1>1 DEF DupInv, Collecting, Comparing, Listing, AllGathered
<1>3. /\ phash' = phash /\ near' = near /\ pc' = "compare"
      /\ IF j < Len(hashList) THEN j' = j + 1 /\ i' = i ELSE i' = i + 1 /\ j' = i + 2
      /\ unlisted' = unlisted /\ output' = output /\ hashList' = hashList
      /\ irefLookup' = irefLookup
  BY <1>1 DEF Compare, given
<1>4. hashList \in Seq(Hashes) /\ Unique(hashList)
  BY <1>1 DEF Gathered
<1>5. PICK a : a = i'
  OBVIOUS
<1>6. PICK b : b = j'
  OBVIOUS
<1>7. PICK E : E = ComparedTo(near, hashList, i, j)
  OBVIOUS
<1>8. PICK F : F = ComparedTo(near, hashList, a, b)
  OBVIOUS
<1>9. Advances(hashList, i, j, a, b)
  BY <1>1, <1>3, <1>4, <1>5, <1>6 DEF Advances
<1>0. Compares(near, hashList, i, j, a, b, E, F)
  BY <1>7, <1>8, <1>9, ComparedStep
<1>10. /\ {hashList[i], hashList[j]} \in near => F = E \cup {{hashList[i], hashList[j]}}
       /\ {hashList[i], hashList[j]} \notin near => F = E
       /\ hashList[i] \in Hashes /\ hashList[j] \in Hashes
       /\ i \in DOMAIN hashList /\ j \in DOMAIN hashList
       /\ a \in Nat /\ b \in Nat /\ 1 <= a /\ a < b /\ (b <= Len(hashList) \/ b = a + 1)
  BY <1>0 DEF Compares
<1>11. hashList[i] # hashList[j]
  BY <1>1, <1>4, <1>10 DEF Unique
<1>12. Clustering(hashToCluster', clusters', nextClusterId', irefLookup, F)
  <2>0. Clustering(hashToCluster, clusters, nextClusterId, irefLookup, E)
    BY <1>2, <1>7
  <2>1. CASE {hashList[i], hashList[j]} \in near
    <3>1. PICK h : h = hashList[i]
      OBVIOUS
    <3>2. PICK k : k = hashList[j]
      OBVIOUS
    <3>3. Cluster(h, k)
      BY <2>1, <3>1, <3>2 DEF Compare
    <3>4. h \in Hashes /\ k \in Hashes /\ h # k /\ F = E \cup {{h, k}}
      BY <1>10, <1>11, <2>1, <3>1, <3>2
    <3> QED
      BY <2>0, <3>3, <3>4, ClusterStep
  <2>2. CASE {hashList[i], hashList[j]} \notin near
    <3>1. UNCHANGED clustering
      BY <2>2 DEF Compare
    <3> QED
      BY <1>10, <2>0, <2>2, <3>1 DEF clustering
  <2> QED
    BY <2>1, <2>2
<1>13. Clustering(hashToCluster', clusters', nextClusterId', irefLookup',
                  ComparedTo(near', hashList', i', j'))
  BY <1>3, <1>5, <1>6, <1>8, <1>12
<1>14. Gathered(phash', Len(phash'), hashList', irefLookup')
  BY <1>1, <1>3
<1>15. i' < j' /\ (j' <= Len(hashList') \/ j' = i' + 1) /\ i' \in Nat /\ j' \in Nat /\ 1 <= i'
  BY <1>3, <1>5, <1>6, <1>10
<1>16. AllGathered'
  BY <1>13, <1>14, <1>15 DEF AllGathered
<1> QED
  BY <1>1, <1>3, <1>15, <1>16 DEF DupInv, Comparing

LEMMA StartListKeeps == DupInv /\ StartList => DupInv'
<1> SUFFICES ASSUME DupInv, StartList PROVE DupInv'
  OBVIOUS
<1>1. /\ pc = "compare" /\ j > Len(hashList) /\ near \subseteq Pairs
      /\ i \in Nat /\ j \in Nat /\ 1 <= i /\ output = <<>> /\ AllGathered
  BY DEF DupInv, StartList, Collecting, Comparing, Listing
<1>2. /\ phash' = phash /\ near' = near /\ pc' = "list" /\ i' = i /\ j' = j
      /\ unlisted' = {c \in ClusterIds : clusters[c] # <<>>}
      /\ output' = output /\ hashList' = hashList
      /\ irefLookup' = irefLookup /\ hashToCluster' = hashToCluster /\ clusters' = clusters
      /\ nextClusterId' = nextClusterId
  BY DEF StartList, given, clustering
<1>3. AllGathered'
  BY <1>1, <1>2 DEF AllGathered
<1>4. /\ phash \in Seq(Hashes) /\ hashToCluster \in [Hashes -> ClusterIds \cup {NoCluster}]
      /\ \A c \in ClusterIds : Elements(clusters[c]) = {h \in Hashes : hashToCluster[h] = c}
  BY <1>1 DEF AllGathered, Gathered, Clustering, Clusters, Parted
<1>5. Elements(<<>>) = {} /\ Unique(<<>>) /\ <<>> \in Seq(DOMAIN phash)
  BY DEF Elements, Unique
<1>6. PICK unl : unl = {c \in ClusterIds : clusters[c] # <<>>}
  OBVIOUS
<1>7. ASSUME NEW x \in DOMAIN phash, hashToCluster[phash[x]] # NoCluster
      PROVE  hashToCluster[phash[x]] \in unl
  <2>1. phash[x] \in Hashes
    BY <1>4
  <2>2. PICK c : c = hashToCluster[phash[x]]
    OBVIOUS
  <2>3. c \in ClusterIds /\ phash[x] \in Elements(clusters[c])
    BY <1>4, <1>7, <2>1, <2>2
  <2>4. clusters[c] # <<>>
    BY <1>5, <2>3
  <2> QED
    BY <1>6, <2>2, <2>3, <2>4
<1>8. PICK s : s = <<>>
  OBVIOUS
<1>9. s \in Seq(DOMAIN phash) /\ Unique(s) /\ Elements(s) = {} /\ Together(phash, hashToCluster, s)
  BY <1>5, <1>8 DEF Together
<1>10. ListedBut(phash, hashToCluster, unl, s)
  BY <1>7, <1>9 DEF ListedBut
<1>11. ListedBut(phash', hashToCluster', unlisted', output')
  BY <1>1, <1>2, <1>6, <1>8, <1>10
<1>12. unlisted' \subseteq ClusterIds /\ j' > Len(hashList')
  BY <1>1, <1>2
<1> QED
  BY <1>1, <1>2, <1>3, <1>11, <1>12 DEF DupInv, Listing

LEMMA ListKeeps == ASSUME DupInv, NEW d \in ClusterIds, List(d) PROVE DupInv'
<1>1. /\ pc = "list" /\ j > Len(hashList) /\ near \subseteq Pairs /\ i \in Nat /\ j \in Nat /\ 1 <= i
      /\ AllGathered /\ unlisted \subseteq ClusterIds /\ d \in unlisted
      /\ ListedBut(phash, hashToCluster, unlisted, output)
  BY DEF DupInv, List, Collecting, Comparing, Listing
<1>2. /\ phash' = phash /\ near' = near /\ pc' = pc /\ i' = i /\ j' = j
      /\ unlisted' = unlisted \ {d} /\ output' = output \o ImagesOf(clusters[d])
      /\ hashList' = hashList /\ irefLookup' = irefLookup /\ hashToCluster' = hashToCluster
      /\ clusters' = clusters /\ nextClusterId' = nextClusterId
  BY DEF List, given, clustering
<1>3. AllGathered'
  BY <1>1, <1>2 DEF AllGathered
<1>4. /\ phash \in Seq(Hashes) /\ Gathered(phash, Len(phash), hashList, irefLookup)
      /\ clusters \in [ClusterIds -> Seq(Hashes)] /\ Unique(clusters[d])
      /\ Elements(clusters[d]) = {h \in Hashes : hashToCluster[h] = d}
  BY <1>1 DEF AllGathered, Gathered, Clustering, Clusters, Parted
<1>5. PICK hs : hs = clusters[d]
  OBVIOUS
<1>6. PICK r : r = ImagesOf(hs)
  OBVIOUS
<1>7. hs \in Seq(Hashes) /\ Unique(hs)
  BY <1>4, <1>5
<1>8. /\ r \in Seq(DOMAIN phash) /\ Unique(r)
      /\ \A x : x \in Elements(r) <=> x \in 1..Len(phash) /\ phash[x] \in Elements(hs)
  BY <1>4, <1>6, <1>7, ImagesOfFacts
<1>9. \A x : x \in Elements(r) <=> x \in DOMAIN phash /\ hashToCluster[phash[x]] = d
  <2>1. DOMAIN phash = 1..Len(phash) /\ \A x \in DOMAIN phash : phash[x] \in Hashes
    BY <1>4
  <2> QED
    BY <1>4, <1>5, <1>8, <2>1
<1>10. d # NoCluster
  BY IdsAreNot
<1>11. PICK t : t = output \o r
  OBVIOUS
<1>12. ListedBut(phash, hashToCluster, unlisted \ {d}, t)
  BY <1>1, <1>8, <1>9, <1>10, <1>11, ListOne
<1>13. ListedBut(phash', hashToCluster', unlisted', output')
  BY <1>2, <1>5, <1>6, <1>11, <1>12
<1> QED
  BY <1>1, <1>2, <1>3, <1>13 DEF DupInv, Listing

LEMMA DupStep == DupInv /\ [Next]_vars => DupInv'
<1> SUFFICES ASSUME DupInv, [Next]_vars PROVE DupInv'
  OBVIOUS
<1>1. CASE Collect
  BY <1>1, CollectKeeps
<1>2. CASE StartCompare
  BY <1>2, StartCompareKeeps
<1>3. CASE Compare
  BY <1>3, CompareKeeps
<1>4. CASE StartList
  BY <1>4, StartListKeeps
<1>5. CASE \E c \in ClusterIds : List(c)
  BY <1>5, ListKeeps
<1>6. CASE UNCHANGED vars
  BY <1>6 DEF vars, given, clustering, DupInv, Collecting, Comparing, Listing, AllGathered
<1> QED
  BY <1>1, <1>2, <1>3, <1>4, <1>5, <1>6 DEF Next

LEMMA DupAlways == Spec => []DupInv
BY DupInit, DupStep, PTL DEF Spec
--------------------------------------------------------------------------------
(* What the invariant means for the properties. *)

LEMMA DupFacts ==
  DupInv => /\ Clustering(hashToCluster, clusters, nextClusterId, irefLookup, Compared)
            /\ hashList \in Seq(Hashes) /\ phash \in Seq(Hashes)
            /\ irefLookup \in [Hashes -> Seq(DOMAIN phash)]
            /\ near \subseteq Pairs /\ pc \in {"collect", "compare", "list"}
            /\ i \in Nat /\ j \in Nat /\ unlisted \subseteq ClusterIds
            /\ output \in Seq(DOMAIN phash)
<1> SUFFICES ASSUME DupInv
             PROVE  /\ Clustering(hashToCluster, clusters, nextClusterId, irefLookup, Compared)
                    /\ hashList \in Seq(Hashes) /\ phash \in Seq(Hashes)
                    /\ irefLookup \in [Hashes -> Seq(DOMAIN phash)]
                    /\ near \subseteq Pairs /\ pc \in {"collect", "compare", "list"}
                    /\ i \in Nat /\ j \in Nat /\ unlisted \subseteq ClusterIds
                    /\ output \in Seq(DOMAIN phash)
  OBVIOUS
<1>1. near \subseteq Pairs /\ i \in Nat /\ j \in Nat
  BY DEF DupInv
<1>2. <<>> \in Seq(DOMAIN phash)
  OBVIOUS
<1>3. CASE Collecting
  <2>1. Compared = {}
    BY <1>3 DEF Collecting, Compared
  <2> QED
    BY <1>1, <1>2, <1>3, <2>1 DEF Collecting, Gathered
<1>4. CASE pc # "collect" /\ AllGathered
  <2>1. Compared = ComparedTo(near, hashList, i, j)
    BY <1>4 DEF Compared, ComparedTo
  <2>2. /\ Clustering(hashToCluster, clusters, nextClusterId, irefLookup, Compared)
        /\ hashList \in Seq(Hashes) /\ phash \in Seq(Hashes)
        /\ irefLookup \in [Hashes -> Seq(DOMAIN phash)]
    BY <1>4, <2>1 DEF AllGathered, Gathered
  <2>3. CASE Comparing
    BY <1>1, <1>2, <2>2, <2>3 DEF Comparing
  <2>4. CASE Listing
    BY <1>1, <2>2, <2>4 DEF Listing, ListedBut
  <2> QED
    BY <1>4, <2>3, <2>4 DEF DupInv, Collecting
<1> QED
  BY <1>3, <1>4 DEF DupInv, Comparing, Listing

\* The search's variables have their types; a cluster's number is below the number of
\* hashes that are in clusters, so clusters are never numbered past the hashes (imagedao.cpp,
\* findAllDuplicates and findClusters).
THEOREM TypesCorrect == Spec => []TypeOK
<1>1. DupInv => TypeOK
  <2> SUFFICES ASSUME DupInv PROVE TypeOK
    OBVIOUS
  <2>1. /\ Clusters(hashToCluster, clusters, nextClusterId)
        /\ hashList \in Seq(Hashes) /\ phash \in Seq(Hashes)
        /\ irefLookup \in [Hashes -> Seq(DOMAIN phash)]
        /\ near \subseteq Pairs /\ pc \in {"collect", "compare", "list"}
        /\ i \in Nat /\ j \in Nat /\ unlisted \subseteq ClusterIds
        /\ output \in Seq(DOMAIN phash)
    BY DupFacts DEF Clustering
  <2>2. /\ hashToCluster \in [Hashes -> ClusterIds \cup {NoCluster}]
        /\ clusters \in [ClusterIds -> Seq(Hashes)]
        /\ nextClusterId \in 0..Cardinality(Clustered(hashToCluster))
    BY <2>1 DEF Clusters, Parted, Numbered
  <2>3. Clustered(hashToCluster) = {h \in Hashes : hashToCluster[h] # NoCluster}
    BY DEF Clustered
  <2> QED
    BY <2>1, <2>2, <2>3 DEF TypeOK
<1> QED
  BY <1>1, DupAlways, PTL

LEMMA ClusteringMeans ==
  ASSUME NEW f, NEW cl, NEW n, NEW look, NEW E, Clustering(f, cl, n, look, E)
  PROVE  /\ \A c \in ClusterIds : /\ Elements(cl[c]) = {h \in Hashes : f[h] = c}
                                  /\ Len(cl[c]) = Cardinality(Elements(cl[c]))
         /\ \A h \in Hashes :
              /\ f[h] # NoCluster <=> Len(look[h]) > 1 \/ \E e \in E : h \in e
              /\ \A k \in Hashes :
                   f[h] # NoCluster /\ f[k] # NoCluster => (f[h] = f[k] <=> Connected(E, h, k))
<1>1. Parted(f, cl) /\ JoinedBy(E, f) /\ CountsAs(f, look, E)
  BY DEF Clustering, Clusters
<1>2. ASSUME NEW c \in ClusterIds
      PROVE  Elements(cl[c]) = {h \in Hashes : f[h] = c} /\ Len(cl[c]) = Cardinality(Elements(cl[c]))
  <2>1. cl[c] \in Seq(Hashes) /\ Elements(cl[c]) = {h \in Hashes : f[h] = c} /\ Unique(cl[c])
    BY <1>1 DEF Parted
  <2>2. PICK s : s = cl[c]
    OBVIOUS
  <2>3. s \in Seq(Hashes) /\ Unique(s)
    BY <2>1, <2>2
  <2>4. Len(s) = Cardinality(Elements(s))
    BY <2>3, UniqueLength
  <2> QED
    BY <2>1, <2>2, <2>4
<1>3. ASSUME NEW h \in Hashes, NEW k \in Hashes, f[h] # NoCluster, f[k] # NoCluster
      PROVE  f[h] = f[k] <=> Connected(E, h, k)
  <2>1. f[h] = f[k] => Connected(E, h, k)
    BY <1>1, <1>3 DEF JoinedBy
  <2>2. Connected(E, h, k) => f[h] = f[k]
    BY <1>1, <1>3, ConnectedStays
  <2> QED
    BY <2>1, <2>2
<1>4. \A h \in Hashes : f[h] # NoCluster <=> Len(look[h]) > 1 \/ \E e \in E : h \in e
  BY <1>1 DEF CountsAs
<1> QED
  BY <1>2, <1>3, <1>4

\* For any images, any hashes and any relation of nearness, and after every comparison:
\* the maps between hashes and clusters are inverse to each other, a hash is in a cluster
\* just when two images have it or a near hash was met, and two hashes are in one cluster
\* just when the near pairs compared so far connect them (imagedao.cpp, findClusters).
THEOREM ClustersFound == Spec => []ClustersAreComponents
<1>1. DupInv => ClustersAreComponents
  <2> SUFFICES ASSUME DupInv PROVE ClustersAreComponents
    OBVIOUS
  <2>1. Clustering(hashToCluster, clusters, nextClusterId, irefLookup, Compared)
    BY DupFacts
  <2>2. PICK E : E = Compared
    OBVIOUS
  <2>3. /\ \A c \in ClusterIds :
             /\ Elements(clusters[c]) = {h \in Hashes : hashToCluster[h] = c}
             /\ Len(clusters[c]) = Cardinality(Elements(clusters[c]))
        /\ \A h \in Hashes :
             /\ hashToCluster[h] # NoCluster
                  <=> Len(irefLookup[h]) > 1 \/ \E e \in E : h \in e
             /\ \A k \in Hashes :
                  hashToCluster[h] # NoCluster /\ hashToCluster[k] # NoCluster
                    => (hashToCluster[h] = hashToCluster[k] <=> Connected(E, h, k))
    BY <2>1, <2>2, ClusteringMeans
  <2> QED
    BY <2>2, <2>3 DEF ClustersAreComponents, ClustersPartition
<1> QED
  BY <1>1, DupAlways, PTL

\* Everything is gathered and every pair of hashes compared.
Searched(ph, hl, look, nr, a, f) ==
  /\ Gathered(ph, Len(ph), hl, look) /\ nr \subseteq Pairs /\ a \in Nat /\ a + 1 > Len(hl)
  /\ CountsAs(f, look, ComparedTo(nr, hl, a, a + 1))

HasCounterpart(ph, nr, m) ==
  \E n \in DOMAIN ph \ {m} : ph[m] = ph[n] \/ {ph[m], ph[n]} \in nr

\* Then a hash is in a cluster just when its image has a counterpart.
LEMMA CounterpartClusters ==
  ASSUME NEW ph, NEW hl, NEW look, NEW nr, NEW a, NEW f, Searched(ph, hl, look, nr, a, f),
         NEW m \in DOMAIN ph
  PROVE  f[ph[m]] # NoCluster <=> HasCounterpart(ph, nr, m)
<1>0. /\ Gathered(ph, Len(ph), hl, look) /\ nr \subseteq Pairs /\ a \in Nat /\ a + 1 > Len(hl)
      /\ CountsAs(f, look, ComparedTo(nr, hl, a, a + 1))
  BY DEF Searched
<1> DEFINE E == ComparedTo(nr, hl, a, a + 1)
<1>1. /\ ph \in Seq(Hashes) /\ hl \in Seq(Hashes) /\ Unique(hl) /\ look \in [Hashes -> Seq(DOMAIN ph)]
      /\ \A h \in Hashes : /\ Unique(look[h])
                           /\ \A n : n \in Elements(look[h]) <=> n \in 1..Len(ph) /\ ph[n] = h
      /\ \A h : h \in Elements(hl) <=> h \in Hashes /\ look[h] # <<>>
  BY <1>0 DEF Gathered
<1>2. DOMAIN ph = 1..Len(ph) /\ \A n \in DOMAIN ph : ph[n] \in Hashes
  BY <1>1
<1>3. f[ph[m]] # NoCluster <=> Len(look[ph[m]]) > 1 \/ \E e \in E : ph[m] \in e
  BY <1>0, <1>2 DEF CountsAs
<1>4. Len(look[ph[m]]) > 1 <=> \E n \in DOMAIN ph \ {m} : ph[n] = ph[m]
  BY <1>0, TwoImages
<1>5. \A n \in DOMAIN ph : ph[n] \in Elements(hl)
  BY <1>0, TwoImages
<1>6. ASSUME NEW e \in E, ph[m] \in e
      PROVE  \E n \in DOMAIN ph \ {m} : {ph[m], ph[n]} \in nr
  <2>1. PICK p, q \in DOMAIN hl : p < q /\ e = {hl[p], hl[q]} /\ e \in nr
    BY <1>6 DEF ComparedTo
  <2>2. p \in Nat /\ q \in Nat
    BY <1>1
  <2>3. hl[p] # hl[q]
    <3>1. p # q
      BY <2>1, <2>2
    <3> QED
      BY <1>1, <3>1 DEF Unique
  <2>4. PICK y \in Elements(hl) : e = {ph[m], y} /\ y # ph[m]
    <3>1. CASE ph[m] = hl[p]
      BY <2>1, <2>3, <3>1 DEF Elements
    <3>2. CASE ph[m] = hl[q]
      <4>1. e = {ph[m], hl[p]} /\ hl[p] # ph[m] /\ hl[p] \in Elements(hl)
        BY <2>1, <2>3, <3>2 DEF Elements
      <4> QED
        BY <4>1
    <3> QED
      BY <1>6, <2>1, <3>1, <3>2
  <2>5. y \in Hashes /\ look[y] # <<>>
    BY <1>1
  <2>6. PICK s : s = look[y]
    OBVIOUS
  <2>7. s \in Seq(DOMAIN ph) /\ Unique(s) /\ s # <<>>
    BY <1>1, <2>5, <2>6
  <2>8. Elements(s) # {}
    BY <2>7, TwoElements
  <2>9. PICK n : n \in Elements(s)
    BY <2>8
  <2>10. n \in DOMAIN ph /\ ph[n] = y
    BY <1>1, <1>2, <2>5, <2>6, <2>9
  <2>11. n # m
    BY <2>4, <2>10
  <2> QED
    BY <2>1, <2>4, <2>10, <2>11
<1>7. ASSUME NEW n \in DOMAIN ph \ {m}, {ph[m], ph[n]} \in nr, ph[m] # ph[n]
      PROVE  \E e \in E : ph[m] \in e
  <2>1. PICK x : x = ph[m]
    OBVIOUS
  <2>2. PICK y : y = ph[n]
    OBVIOUS
  <2>3. x \in Elements(hl) /\ y \in Elements(hl) /\ x # y /\ {x, y} \in nr
    BY <1>5, <1>7, <2>1, <2>2
  <2>4. {x, y} \in E
    BY <1>0, <1>1, <2>3, ComparedAll
  <2> QED
    BY <2>1, <2>4
<1>8. ASSUME f[ph[m]] # NoCluster
      PROVE  \E n \in DOMAIN ph \ {m} : ph[m] = ph[n] \/ {ph[m], ph[n]} \in nr
  <2>1. CASE Len(look[ph[m]]) > 1
    <3>1. PICK n \in DOMAIN ph \ {m} : ph[n] = ph[m]
      BY <1>4, <2>1
    <3> QED
      BY <3>1
  <2>2. CASE \E e \in E : ph[m] \in e
    <3>1. PICK n \in DOMAIN ph \ {m} : {ph[m], ph[n]} \in nr
      BY <1>6, <2>2
    <3> QED
      BY <3>1
  <2> QED
    BY <1>3, <1>8, <2>1, <2>2
<1>9. ASSUME NEW n \in DOMAIN ph \ {m}, ph[m] = ph[n] \/ {ph[m], ph[n]} \in nr
      PROVE  f[ph[m]] # NoCluster
  <2>1. CASE ph[m] = ph[n]
    BY <1>3, <1>4, <2>1
  <2>2. CASE ph[m] # ph[n]
    <3>1. \E e \in E : ph[m] \in e
      BY <1>7, <1>9, <2>2
    <3> QED
      BY <1>3, <3>1
  <2> QED
    BY <2>1, <2>2
<1> QED
  BY <1>8, <1>9 DEF HasCounterpart

\* When the search is over, the images listed are just those that have a counterpart, equal
\* or near, each once, and images that near pairs connect lie side by side, for any images
\* and any relation of nearness (imagedao.cpp, findAllDuplicates).
THEOREM DuplicatesListed == Spec => []ListsDuplicates
<1>1. DupInv => ListsDuplicates
  <2> SUFFICES ASSUME DupInv, pc = "list", unlisted = {} PROVE Listed
    BY DEF ListsDuplicates
  <2>1. /\ near \subseteq Pairs /\ i \in Nat /\ j \in Nat /\ AllGathered /\ j > Len(hashList)
        /\ ListedBut(phash, hashToCluster, {}, output)
    BY DEF DupInv, Collecting, Comparing, Listing
  <2>2. /\ Gathered(phash, Len(phash), hashList, irefLookup) /\ hashList \in Seq(Hashes)
        /\ phash \in Seq(Hashes) /\ j = i + 1 /\ i + 1 > Len(hashList)
    <3>1. /\ Gathered(phash, Len(phash), hashList, irefLookup)
          /\ j <= Len(hashList) \/ j = i + 1
      BY <2>1 DEF AllGathered
    <3>2. hashList \in Seq(Hashes) /\ phash \in Seq(Hashes)
      BY <3>1 DEF Gathered
    <3>3. Len(hashList) \in Nat
      BY <3>2
    <3>4. ~ (j <= Len(hashList))
      BY <2>1, <3>3
    <3> QED
      BY <2>1, <3>1, <3>2, <3>4
  <2>3. PICK E : E = Compared
    OBVIOUS
  <2>4. E = ComparedTo(near, hashList, i, i + 1)
    BY <2>2, <2>3 DEF Compared, ComparedTo
  <2>5. JoinedBy(E, hashToCluster) /\ CountsAs(hashToCluster, irefLookup, E)
    BY <2>3, DupFacts DEF Clustering
  <2>6. /\ output \in Seq(DOMAIN phash) /\ Unique(output)
        /\ \A x : x \in Elements(output) <=> x \in DOMAIN phash /\ hashToCluster[phash[x]] # NoCluster
        /\ Together(phash, hashToCluster, output)
    BY <2>1 DEF ListedBut
  <2>7. \A m, n \in DOMAIN output : m # n => output[m] # output[n]
    BY <2>6 DEF Unique
  <2>8. ASSUME NEW m \in DOMAIN phash
        PROVE  hashToCluster[phash[m]] # NoCluster <=> \E n \in DOMAIN phash \ {m} : Alike(m, n)
    <3>1. hashToCluster[phash[m]] # NoCluster <=> HasCounterpart(phash, near, m)
      <4>1. Searched(phash, hashList, irefLookup, near, i, hashToCluster)
        BY <2>1, <2>2, <2>4, <2>5 DEF Searched
      <4> QED
        BY <4>1, CounterpartClusters
    <3> QED
      BY <3>1 DEF Alike, HasCounterpart
  <2>9. Elements(output) = {m \in DOMAIN phash : \E n \in DOMAIN phash \ {m} : Alike(m, n)}
    BY <2>6, <2>8
  <2>10. ASSUME NEW a \in DOMAIN output, NEW b \in DOMAIN output, NEW c \in DOMAIN output,
                a < b, b < c, Connected(E, phash[output[a]], phash[output[c]])
         PROVE  Connected(E, phash[output[a]], phash[output[b]])
    <3>1. PICK x : x = phash[output[a]]
      OBVIOUS
    <3>2. PICK y : y = phash[output[b]]
      OBVIOUS
    <3>3. PICK z : z = phash[output[c]]
      OBVIOUS
    <3>4. output[a] \in Elements(output)
      BY DEF Elements
    <3>5. x \in Hashes /\ y \in Hashes /\ z \in Hashes /\ hashToCluster[x] # NoCluster
      BY <2>2, <2>6, <3>1, <3>2, <3>3, <3>4
    <3>6. hashToCluster[x] = hashToCluster[z]
      <4>1. Connected(E, x, z)
        BY <2>10, <3>1, <3>3
      <4> QED
        BY <2>5, <3>5, <4>1, ConnectedStays
    <3>7. hashToCluster[y] = hashToCluster[x]
      BY <2>6, <2>10, <3>1, <3>2, <3>3, <3>6 DEF Together
    <3>8. Connected(E, x, y)
      BY <2>5, <3>5, <3>7 DEF JoinedBy
    <3> QED
      BY <3>1, <3>2, <3>8
  <2> QED
    BY <2>3, <2>7, <2>9, <2>10 DEF Listed
<1> QED
  BY <1>1, DupAlways, PTL
================================================================================
