-------------------------------- MODULE AutoCrop --------------------------------
(***************************************************************************)
(* autoCrop: the box that an image is cut down to before its perceptual    *)
(* hash is made.  Of a pixel only counts whether it differs from the pixel *)
(* at the origin by more than the threshold.  Rows are scanned from above  *)
(* for the left edge and from below for the right edge; each scan of a row *)
(* ends at the edge found so far, and each loop at the edge of the image.  *)
(***************************************************************************)
EXTENDS Integers

CONSTANTS MaxWidth, MaxHeight   \* bounds on the size of an image
ASSUME SizeAssumption == MaxWidth \in Nat /\ MaxHeight \in Nat

VARIABLES
  cols, rows, \* the size of the image
  differs,    \* the pixels <<x, y>> that differ from the base color
  left, top, right, bottom,
  row,
  loop        \* "down" and "up", the two loops, then "cut" and "done"
edges == <<left, top, right, bottom>>
cropVars == <<cols, rows, differs, edges, row, loop>>

CropInit ==
  /\ cols \in 1..MaxWidth /\ rows \in 1..MaxHeight
  /\ differs \in SUBSET ((0..cols-1) \X (0..rows-1)) /\ <<0, 0>> \notin differs
  /\ left = cols /\ top = 0 /\ right = 0 /\ bottom = rows
  /\ row = 0 /\ loop = "down"
--------------------------------------------------------------------------------
\* The columns of row that differ.
Differing == {x \in 0..cols-1 : <<x, row>> \in differs}

\* Where the scan of the row for the left edge stops, and for the right edge.
FromLeft(x)  == /\ x \in 0..left /\ (x = left \/ x \in Differing)
                /\ \A v \in Differing : v < left => x <= v
FromRight(x) == /\ x \in right-1..cols-1 /\ (x = right - 1 \/ x \in Differing)
                /\ \A v \in Differing : right <= v => v <= x

\* Scanning that takes a row that is blank as far as it was scanned for a blank one.
ScanDownTaking == /\ loop = "down" /\ row < rows /\ left > 0
                  /\ \E x \in 0..cols : /\ FromLeft(x)
                                        /\ top' = IF x = left THEN row ELSE top
                                        /\ left' = x
                  /\ row' = row + 1
                  /\ UNCHANGED <<cols, rows, differs, right, bottom, loop>>

\* Scanning that does not stop at the last row.
ScanDownPast == /\ loop = "down" /\ row <= rows /\ left > 0
                /\ \E x \in 0..cols : /\ FromLeft(x)
                                      /\ top' = IF x = cols THEN row ELSE top
                                      /\ left' = x
                /\ row' = row + 1
                /\ UNCHANGED <<cols, rows, differs, right, bottom, loop>>

\* One row for the left edge; as long as all were blank it is the last of them.
ScanDown == /\ loop = "down" /\ row < rows /\ left > 0
            /\ \E x \in 0..cols : /\ FromLeft(x)
                                  /\ top' = IF x = cols THEN row ELSE top
                                  /\ left' = x
            /\ row' = row + 1
            /\ UNCHANGED <<cols, rows, differs, right, bottom, loop>>

TurnBack == /\ loop = "down" /\ ~(row < rows /\ left > 0)
            /\ row' = rows - 1 /\ loop' = "up"
            /\ UNCHANGED <<cols, rows, differs, edges>>

ScanUp == /\ loop = "up" /\ row >= 0 /\ right < cols
          /\ \E x \in -1..cols-1 : /\ FromRight(x)
                                   /\ bottom' = IF x = -1 THEN row ELSE bottom
                                   /\ right' = x + 1
          /\ row' = row - 1
          /\ UNCHANGED <<cols, rows, differs, left, top, loop>>

LeaveLoop == /\ loop = "up" /\ ~(row >= 0 /\ right < cols)
             /\ loop' = "cut"
             /\ UNCHANGED <<cols, rows, differs, edges, row>>

\* The image that is left: a single pixel, if the box is empty.
Cut == /\ loop = "cut" /\ loop' = "done"
       /\ IF bottom <= top THEN left' = 0 /\ top' = 0 /\ right' = 1 /\ bottom' = 1
          ELSE UNCHANGED edges
       /\ UNCHANGED <<cols, rows, differs, row>>

CropNext == ScanDown \/ TurnBack \/ ScanUp \/ LeaveLoop \/ Cut

CropSpec == CropInit /\ [][CropNext]_cropVars
--------------------------------------------------------------------------------
\* Every row that is scanned is one of the image, and the edges stay within it.
EdgesInImage ==
  /\ cols \in 1..MaxWidth /\ rows \in 1..MaxHeight
  /\ differs \subseteq (0..cols-1) \X (0..rows-1)
  /\ left \in 0..cols /\ right \in 0..cols /\ top \in 0..rows /\ bottom \in 0..rows
  /\ row \in -1..rows
  /\ loop \in {"down", "up", "cut", "done"}

\* The box holds every pixel that differs, has one in its first, its last column and
\* its last row, and at most one blank row above the first: two scans that each stop
\* early together find what a look at every pixel would.  A blank image becomes one
\* pixel.  The image that is hashed is never empty.
BoxTight ==
  loop = "done" =>
    IF differs = {} THEN edges = <<0, 0, 1, 1>>
    ELSE /\ differs \subseteq (left..right-1) \X (top..bottom-1)
         /\ \E p \in differs : p[1] = left
         /\ \E p \in differs : p[1] = right - 1
         /\ \E p \in differs : p[2] = bottom - 1
         /\ \E p \in differs : p[2] \in {top, top + 1}
==================================================================================
