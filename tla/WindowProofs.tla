------------------------------ MODULE WindowProofs ------------------------------
(***************************************************************************)
(* Proofs about the window, for any tags, refs, and steps.                 *)
(***************************************************************************)
EXTENDS Window, FunctionTheorems, FiniteSetTheorems, WellFoundedInduction, TLAPS

\* The history and the refs: the type invariant of module UndoHistory, without its
\* records, and what the entries of the history do.
UndoInv == RefsOK /\ UndoTypeOK /\ UndoRestores

\* What the last Ctrl+Z did is undone by the entry on top, if it had an effect.
ToggleReady ==
  toggled # <<>> /\ toggled # <<refs>> => history # <<>> /\ toggled = <<Apply(Top, refs)>>

--------------------------------------------------------------------------------
(* Edits and their inverses. *)

LEMMA ApplyTyped ==
  ASSUME NEW r \in Seq(SUBSET Labels), NEW e, e.label \in Labels
  PROVE  /\ Apply(e, r) \in Seq(SUBSET Labels) /\ Len(Apply(e, r)) = Len(r)
         /\ DOMAIN Apply(e, r) = DOMAIN r
<1>1. DOMAIN r = 1..Len(r) /\ Len(r) \in Nat /\ \A i \in DOMAIN r : r[i] \subseteq Labels
  OBVIOUS
<1>2. Apply(e, r) \in [1..Len(r) -> SUBSET Labels]
  BY <1>1 DEF Apply
<1> QED
  BY <1>1, <1>2

\* The inverse of an edit, for the refs that it changes, takes it back.
LEMMA InverseRestores ==
  ASSUME NEW r \in Seq(SUBSET Labels), NEW e, e.op \in {"add", "remove"}, e.label \in Labels,
         e.on \subseteq DOMAIN r
  PROVE  Apply(InverseOf(e, Changed(e, r)), Apply(e, r)) = r
<1> DEFINE s == Apply(e, r)
           f == InverseOf(e, Changed(e, r))
<1>1. /\ DOMAIN s = DOMAIN r
      /\ \A i \in DOMAIN r : s[i] = IF i \notin e.on THEN r[i]
                                    ELSE IF e.op = "add" THEN r[i] \cup {e.label}
                                    ELSE r[i] \ {e.label}
  BY DEF Apply
<1>2. /\ f.op = IF e.op = "add" THEN "remove" ELSE "add"
      /\ f.on = Changed(e, r) /\ f.label = e.label
  BY DEF InverseOf
<1> HIDE DEF s, f
<1>3. Apply(f, s) = [i \in DOMAIN s |-> IF i \notin f.on THEN s[i]
                                        ELSE IF f.op = "add" THEN s[i] \cup {f.label}
                                        ELSE s[i] \ {f.label}]
  BY DEF Apply
<1>4. ASSUME NEW i \in DOMAIN r
      PROVE  Apply(f, s)[i] = r[i]
  <2>1. i \in Changed(e, r) <=> i \in e.on /\ (e.op = "add" <=> e.label \notin r[i])
    BY DEF Changed
  <2>2. CASE i \notin e.on
    BY <1>1, <1>2, <1>3, <2>1, <2>2
  <2>3. CASE i \in e.on /\ e.op = "add"
    <3>1. s[i] = r[i] \cup {e.label} /\ f.op = "remove" /\ (i \in f.on <=> e.label \notin r[i])
      BY <1>1, <1>2, <2>1, <2>3
    <3>2. Apply(f, s)[i] = IF i \in f.on THEN s[i] \ {e.label} ELSE s[i]
      BY <1>1, <1>2, <1>3, <3>1
    <3> QED
      BY <3>1, <3>2
  <2>4. CASE i \in e.on /\ e.op = "remove"
    <3>1. s[i] = r[i] \ {e.label} /\ f.op = "add" /\ (i \in f.on <=> e.label \in r[i])
      BY <1>1, <1>2, <2>1, <2>4
    <3>2. Apply(f, s)[i] = IF i \in f.on THEN s[i] \cup {e.label} ELSE s[i]
      BY <1>1, <1>2, <1>3, <3>1
    <3> QED
      BY <3>1, <3>2
  <2> QED
    BY <2>2, <2>3, <2>4
<1> QED
  BY <1>1, <1>3, <1>4 DEF s, f

\* An edit that changes nothing leaves the refs as they are.
LEMMA IdleEdit ==
  ASSUME NEW r \in Seq(SUBSET Labels), NEW e, e.op \in {"add", "remove"}, e.label \in Labels,
         e.on \subseteq DOMAIN r, Changed(e, r) = {}
  PROVE  Apply(e, r) = r
<1>1. \A i \in e.on : ~ (e.op = "add" <=> e.label \notin r[i])
  BY DEF Changed
<1>2. ASSUME NEW i \in DOMAIN r
      PROVE  Apply(e, r)[i] = r[i]
  <2>1. Apply(e, r)[i] = IF i \notin e.on THEN r[i]
                         ELSE IF e.op = "add" THEN r[i] \cup {e.label} ELSE r[i] \ {e.label}
    BY DEF Apply
  <2>2. CASE i \in e.on
    BY <1>1, <2>1, <2>2
  <2> QED
    BY <2>1, <2>2
<1>3. Apply(e, r) \in Seq(SUBSET Labels) /\ Len(Apply(e, r)) = Len(r)
  BY ApplyTyped
<1> QED
  BY <1>2, <1>3

\* An edit of old refs does not reach a new one.
LEMMA ApplyAppend ==
  ASSUME NEW r \in Seq(SUBSET Labels), NEW e, e.label \in Labels, e.on \subseteq DOMAIN r,
         NEW labels \in SUBSET Labels
  PROVE  Apply(e, Append(r, labels)) = Append(Apply(e, r), labels)
<1> DEFINE q == Append(r, labels)
           n == Len(r) + 1
<1>1. /\ q \in Seq(SUBSET Labels) /\ Len(q) = n /\ q[n] = labels /\ DOMAIN q = 1..n
      /\ Len(r) \in Nat /\ DOMAIN r = 1..Len(r) /\ \A i \in DOMAIN r : q[i] = r[i]
  OBVIOUS
<1> HIDE DEF q
<1>2. Apply(e, q) \in Seq(SUBSET Labels) /\ Len(Apply(e, q)) = n
  BY <1>1, ApplyTyped
<1>3. Apply(e, r) \in Seq(SUBSET Labels) /\ Len(Apply(e, r)) = Len(r)
  BY ApplyTyped
<1> DEFINE s == Append(Apply(e, r), labels)
<1>4. /\ s \in Seq(SUBSET Labels) /\ Len(s) = n /\ s[n] = labels
      /\ \A i \in 1..Len(r) : s[i] = Apply(e, r)[i]
  BY <1>3
<1>5. ASSUME NEW i \in 1..n
      PROVE  Apply(e, q)[i] = s[i]
  <2>1. Apply(e, q)[i] = IF i \notin e.on THEN q[i]
                         ELSE IF e.op = "add" THEN q[i] \cup {e.label} ELSE q[i] \ {e.label}
    BY <1>1 DEF Apply
  <2>2. CASE i = n
    BY <1>1, <1>4, <2>1, <2>2
  <2>3. CASE i # n
    <3>1. i \in 1..Len(r)
      BY <1>1, <2>3
    <3>2. Apply(e, r)[i] = IF i \notin e.on THEN r[i]
                           ELSE IF e.op = "add" THEN r[i] \cup {e.label} ELSE r[i] \ {e.label}
      BY <1>1, <3>1 DEF Apply
    <3> QED
      BY <1>1, <1>4, <2>1, <3>1, <3>2
  <2> QED
    BY <2>2, <2>3
<1> HIDE DEF s
<1>6. Apply(e, q) = s
  BY <1>2, <1>4, <1>5
<1> QED
  BY <1>6 DEF q, s
--------------------------------------------------------------------------------
(* The history. *)

LEMMA Appended ==
  ASSUME NEW S, NEW q \in Seq(S), NEW x \in S
  PROVE  /\ Append(q, x) \in Seq(S) /\ Len(Append(q, x)) = Len(q) + 1 /\ Len(q) \in Nat
         /\ DOMAIN q = 1..Len(q) /\ DOMAIN Append(q, x) = 1..(Len(q) + 1)
         /\ Append(q, x)[Len(q) + 1] = x
         /\ \A i \in 1..Len(q) : Append(q, x)[i] = q[i]
  OBVIOUS

EditOf(r) == [op : {"add", "remove"}, on : (SUBSET DOMAIN r) \ {{}}, label : Labels]
EditFor(e, r) == e.op \in {"add", "remove"} /\ e.label \in Labels /\ e.on \subseteq DOMAIN r

\* A history h, with its past p, of the refs r.
HistoryOf(h, p, r) == /\ h \in Seq(EditOf(r)) /\ p \in Seq(Seq(SUBSET Labels))
                      /\ Len(p) = Len(h) /\ \A i \in DOMAIN p : Len(p[i]) = Len(r)

\* The edit e makes s of r and of the history h, with its past p, k and q.
Recorded(e, r, h, p, s, k, q) ==
  /\ s = Apply(e, r)
  /\ IF Changed(e, r) = {} THEN k = h /\ q = p
     ELSE k = Append(h, InverseOf(e, Changed(e, r))) /\ q = Append(p, r)

\* Each entry of the history h turns what the next older action left into its past.
Restores(h, p, r) ==
  \A i \in DOMAIN h : Apply(h[i], IF i = Len(h) THEN r ELSE p[i + 1]) = p[i]

\* The inverse that is recorded.
LEMMA InverseTyped ==
  ASSUME NEW r, NEW e, EditFor(e, r), Changed(e, r) # {}
  PROVE  InverseOf(e, Changed(e, r)) \in EditOf(r)
<1>1. Changed(e, r) \subseteq DOMAIN r
  BY DEF Changed, EditFor
<1>2. (IF e.op = "add" THEN "remove" ELSE "add") \in {"add", "remove"}
  OBVIOUS
<1>3. Changed(e, r) \in (SUBSET DOMAIN r) \ {{}} /\ e.label \in Labels
  BY <1>1 DEF EditFor
<1> HIDE DEF Changed
<1> QED
  BY <1>2, <1>3 DEF InverseOf, EditOf

\* An edit of refs that exist, recorded on their history.
LEMMA ActKeeps ==
  ASSUME NEW r \in Seq(SUBSET Labels), NEW s, NEW h, NEW p, NEW k, NEW q,
         NEW e, EditFor(e, r), HistoryOf(h, p, r), Recorded(e, r, h, p, s, k, q)
  PROVE  s \in Seq(SUBSET Labels) /\ Len(s) = Len(r) /\ HistoryOf(k, q, s)
<1>1. s \in Seq(SUBSET Labels) /\ Len(s) = Len(r) /\ DOMAIN s = DOMAIN r
  BY ApplyTyped DEF EditFor, Recorded
<1>0. EditOf(s) = EditOf(r)
  BY <1>1 DEF EditOf
<1>2. CASE Changed(e, r) = {}
  <2>1. k = h /\ q = p
    BY <1>2 DEF Recorded
  <2> QED
    BY <1>0, <1>1, <2>1 DEF HistoryOf
<1>3. CASE Changed(e, r) # {}
  <2> DEFINE x == InverseOf(e, Changed(e, r))
  <2>1. x \in EditOf(r)
    BY <1>3, InverseTyped
  <2>b. k = Append(h, x) /\ q = Append(p, r)
    BY <1>3 DEF Recorded
  <2> HIDE DEF x
  <2>a. /\ h \in Seq(EditOf(r)) /\ p \in Seq(Seq(SUBSET Labels))
        /\ Len(p) = Len(h) /\ \A i \in DOMAIN p : Len(p[i]) = Len(r)
    BY DEF HistoryOf
  <2>2. k \in Seq(EditOf(r)) /\ Len(k) = Len(h) + 1
    BY <2>a, <2>b, <2>1, Appended
  <2>3. /\ q \in Seq(Seq(SUBSET Labels)) /\ Len(q) = Len(p) + 1 /\ Len(p) \in Nat
        /\ DOMAIN q = 1..(Len(p) + 1) /\ DOMAIN p = 1..Len(p)
        /\ q[Len(p) + 1] = r /\ \A i \in 1..Len(p) : q[i] = p[i]
    BY <2>a, <2>b, Appended
  <2>4. ASSUME NEW i \in DOMAIN q PROVE Len(q[i]) = Len(s)
    <3>1. i = Len(p) + 1 \/ i \in 1..Len(p)
      BY <2>3
    <3> QED
      BY <1>1, <2>a, <2>3, <3>1
  <2> QED
    BY <1>0, <1>1, <2>a, <2>2, <2>3, <2>4 DEF HistoryOf
<1> QED
  BY <1>2, <1>3

LEMMA Popped ==
  ASSUME NEW S, NEW q \in Seq(S), q # <<>>
  PROVE  /\ Pop(q) \in Seq(S) /\ Len(Pop(q)) = Len(q) - 1 /\ Len(q) \in Nat \ {0}
         /\ DOMAIN q = 1..Len(q) /\ DOMAIN Pop(q) = 1..(Len(q) - 1)
         /\ \A i \in 1..(Len(q) - 1) : Pop(q)[i] = q[i]
         /\ q[Len(q)] \in S
<1> DEFINE n == Len(q) - 1
<1>1. Len(q) \in Nat \ {0} /\ DOMAIN q = 1..Len(q) /\ \A i \in 1..Len(q) : q[i] \in S
  OBVIOUS
<1>2. n \in Nat /\ n <= Len(q) /\ Len(q) = n + 1
  BY <1>1
<1>3. SubSeq(q, 1, n) = [i \in 1..n |-> q[i]]
  BY <1>1, <1>2
<1>4. [i \in 1..n |-> q[i]] \in Seq(S)
  <2>1. \A i \in 1..n : q[i] \in S
    BY <1>1, <1>2
  <2> QED
    BY <1>2, <2>1
<1>5. Pop(q) = [i \in 1..n |-> q[i]]
  BY <1>3 DEF Pop
<1> HIDE DEF n
<1>6. DOMAIN Pop(q) = 1..n /\ \A i \in 1..n : Pop(q)[i] = q[i]
  BY <1>5
<1>7. Pop(q) \in Seq(S)
  BY <1>4, <1>5
<1>8. Len(Pop(q)) = n
  BY <1>2, <1>6, <1>7
<1> QED
  BY <1>1, <1>2, <1>6, <1>7, <1>8

LEMMA RestoresAt ==
  ASSUME NEW h, NEW p, NEW r, Restores(h, p, r), NEW i \in DOMAIN h
  PROVE  /\ i = Len(h) => Apply(h[i], r) = p[i]
         /\ i # Len(h) => Apply(h[i], p[i + 1]) = p[i]
  BY DEF Restores

LEMMA RestoresFrom ==
  ASSUME NEW h, NEW p, NEW r,
         ASSUME NEW i \in DOMAIN h
         PROVE  /\ i = Len(h) => Apply(h[i], r) = p[i]
                /\ i # Len(h) => Apply(h[i], p[i + 1]) = p[i]
  PROVE  Restores(h, p, r)
  BY DEF Restores

LEMMA ActRestores ==
  ASSUME NEW r \in Seq(SUBSET Labels), NEW s, NEW h, NEW p, NEW k, NEW q,
         NEW e, EditFor(e, r), HistoryOf(h, p, r), Restores(h, p, r),
         Recorded(e, r, h, p, s, k, q)
  PROVE  Restores(k, q, s)
<1>1. CASE Changed(e, r) = {}
  <2>1. Apply(e, r) = r
    BY <1>1, IdleEdit DEF EditFor
  <2> QED
    BY <1>1, <2>1 DEF Recorded
<1>2. CASE Changed(e, r) # {}
  <2> DEFINE x == InverseOf(e, Changed(e, r))
  <2>0. s = Apply(e, r)
    BY DEF Recorded
  <2>1. x \in EditOf(r)
    BY <1>2, InverseTyped
  <2>5. Apply(x, s) = r
    BY <2>0, InverseRestores DEF EditFor
  <2>2. k = Append(h, x) /\ q = Append(p, r)
    BY <1>2 DEF Recorded
  <2> HIDE DEF x
  <2>a. h \in Seq(EditOf(r)) /\ p \in Seq(Seq(SUBSET Labels)) /\ Len(p) = Len(h)
    BY DEF HistoryOf
  <2>b. PICK n : n = Len(h)
    OBVIOUS
  <2>3. /\ Len(k) = n + 1 /\ n \in Nat /\ DOMAIN h = 1..n /\ DOMAIN k = 1..(n + 1)
        /\ k[n + 1] = x /\ \A i \in 1..n : k[i] = h[i]
    BY <2>1, <2>2, <2>a, <2>b, Appended
  <2>4. q[n + 1] = r /\ \A i \in 1..n : q[i] = p[i]
    BY <2>2, <2>a, <2>b, Appended
  <2>6. ASSUME NEW i \in DOMAIN k
        PROVE  /\ i = Len(k) => Apply(k[i], s) = q[i]
               /\ i # Len(k) => Apply(k[i], q[i + 1]) = q[i]
    <3>1. CASE i = n + 1
      BY <2>3, <2>4, <2>5, <3>1
    <3>2. CASE i = n /\ n \in DOMAIN h
      <4>1. Apply(h[n], r) = p[n]
        BY <2>b, <3>2, RestoresAt
      <4>2. i # Len(k) /\ k[i] = h[n] /\ q[i + 1] = r /\ q[i] = p[n]
        BY <2>3, <2>4, <3>2
      <4> QED
        BY <4>1, <4>2
    <3>3. CASE i \in 1..(n - 1)
      <4>1. i \in DOMAIN h /\ i # n /\ i \in 1..n /\ i + 1 \in 1..n /\ i # n + 1
        BY <2>3, <3>3
      <4>2. Apply(h[i], p[i + 1]) = p[i]
        BY <2>b, <4>1, RestoresAt
      <4>3. i # Len(k) /\ k[i] = h[i] /\ q[i + 1] = p[i + 1] /\ q[i] = p[i]
        BY <2>3, <2>4, <4>1
      <4> QED
        BY <4>2, <4>3
    <3> QED
      BY <2>3, <3>1, <3>2, <3>3
  <2> QED
    BY <2>6, RestoresFrom
<1> QED
  BY <1>1, <1>2

LEMMA PopRestores ==
  ASSUME NEW r, NEW h, NEW p, HistoryOf(h, p, r), h # <<>>, Restores(h, p, r)
  PROVE  Restores(Pop(h), Pop(p), Apply(h[Len(h)], r))
<1>0. PICK n : n = Len(h)
  OBVIOUS
<1>a. h \in Seq(EditOf(r)) /\ p \in Seq(Seq(SUBSET Labels)) /\ Len(p) = Len(h)
  BY DEF HistoryOf
<1>1. /\ n \in Nat \ {0} /\ DOMAIN h = 1..n /\ DOMAIN Pop(h) = 1..(n - 1)
      /\ Len(Pop(h)) = n - 1 /\ \A i \in 1..(n - 1) : Pop(h)[i] = h[i]
  BY <1>0, <1>a, Popped
<1>2. p # <<>>
  BY <1>0, <1>a, <1>1
<1>3. \A i \in 1..(n - 1) : Pop(p)[i] = p[i]
  BY <1>0, <1>a, <1>2, Popped
<1>4. Apply(h[n], r) = p[n]
  BY <1>0, <1>1, RestoresAt
<1>5. ASSUME NEW i \in DOMAIN Pop(h)
      PROVE  /\ i = Len(Pop(h)) => Apply(Pop(h)[i], Apply(h[Len(h)], r)) = Pop(p)[i]
             /\ i # Len(Pop(h)) => Apply(Pop(h)[i], Pop(p)[i + 1]) = Pop(p)[i]
  <2>0. i \in DOMAIN h /\ i # n /\ i \in 1..(n - 1)
    BY <1>1
  <2>1. Apply(h[i], p[i + 1]) = p[i]
    BY <1>0, <2>0, RestoresAt
  <2>2. CASE i = n - 1
    BY <1>0, <1>1, <1>3, <1>4, <2>0, <2>1, <2>2
  <2>3. CASE i # n - 1
    <3>1. i + 1 \in 1..(n - 1)
      BY <1>1, <2>0, <2>3
    <3> QED
      BY <1>1, <1>3, <2>0, <2>1, <2>3, <3>1
  <2> QED
    BY <2>2, <2>3
<1> QED
  BY <1>5, RestoresFrom

LEMMA HistoryFacts ==
  ASSUME UndoInv
  PROVE  /\ refs \in Seq(SUBSET Labels) /\ Len(refs) <= MaxRefs
         /\ HistoryOf(history, past, refs)
         /\ toggled \in Seq(Seq(SUBSET Labels)) /\ Len(toggled) <= 1 /\ mixed \in BOOLEAN
         /\ ~mixed => Restores(history, past, refs)
<1>1. /\ refs \in Seq(SUBSET Labels) /\ Len(refs) <= MaxRefs
      /\ HistoryOf(history, past, refs)
      /\ toggled \in Seq(Seq(SUBSET Labels)) /\ Len(toggled) <= 1 /\ mixed \in BOOLEAN
  BY DEF UndoInv, RefsOK, UndoTypeOK, Edits, EditOf, HistoryOf
<1>2. ~mixed => Restores(history, past, refs)
  BY DEF UndoInv, UndoRestores, Restores, After
<1> QED
  BY <1>1, <1>2

\* The other way round.
LEMMA HistoryFrom ==
     /\ refs \in Seq(SUBSET Labels) /\ Len(refs) <= MaxRefs
     /\ HistoryOf(history, past, refs)
     /\ toggled \in Seq(Seq(SUBSET Labels)) /\ Len(toggled) <= 1 /\ mixed \in BOOLEAN
     /\ ~mixed => Restores(history, past, refs)
  => UndoInv
<1> SUFFICES ASSUME refs \in Seq(SUBSET Labels), Len(refs) <= MaxRefs,
                    HistoryOf(history, past, refs),
                    toggled \in Seq(Seq(SUBSET Labels)), Len(toggled) <= 1, mixed \in BOOLEAN,
                    ~mixed => Restores(history, past, refs)
             PROVE  UndoInv
  OBVIOUS
<1>1. RefsOK
  BY DEF RefsOK
<1>2. UndoTypeOK
  BY DEF UndoTypeOK, Edits, EditOf, HistoryOf
<1>3. UndoRestores
  BY DEF UndoRestores, Restores, After
<1> QED
  BY <1>1, <1>2, <1>3 DEF UndoInv

\* For the next state.
LEMMA HistoryNext ==
  ASSUME refs' \in Seq(SUBSET Labels), Len(refs') <= MaxRefs,
         HistoryOf(history', past', refs'),
         toggled' \in Seq(Seq(SUBSET Labels)), Len(toggled') <= 1, mixed' \in BOOLEAN,
         ~mixed' => Restores(history', past', refs')
  PROVE  UndoInv'
<1>1. (  /\ refs \in Seq(SUBSET Labels) /\ Len(refs) <= MaxRefs
         /\ HistoryOf(history, past, refs)
         /\ toggled \in Seq(Seq(SUBSET Labels)) /\ Len(toggled) <= 1 /\ mixed \in BOOLEAN
         /\ ~mixed => Restores(history, past, refs)
      => UndoInv)'
  BY HistoryFrom, PTL
<1>2. (/\ refs \in Seq(SUBSET Labels) /\ Len(refs) <= MaxRefs
       /\ HistoryOf(history, past, refs)
       /\ toggled \in Seq(Seq(SUBSET Labels)) /\ Len(toggled) <= 1 /\ mixed \in BOOLEAN
       /\ ~mixed => Restores(history, past, refs))'
  OBVIOUS
<1> QED
  BY <1>1, <1>2

\* One of the functions action*, on some of the refs.
LEMMA EditKeeps ==
  ASSUME UndoInv, NEW op \in {"add", "remove"}, NEW S \in SUBSET DOMAIN refs,
         NEW label \in Labels, Edit(op, S, label)
  PROVE  UndoInv' /\ ToggleReady' /\ Len(refs') = Len(refs)
<1> DEFINE e == [op |-> op, on |-> S, label |-> label]
<1>1. /\ Recorded(e, refs, history, past, refs', history', past')
      /\ toggled' = <<>> /\ mixed' = mixed
  BY DEF Edit, Act, Recorded
<1>2. EditFor(e, refs)
  BY DEF EditFor
<1> HIDE DEF e
<1>3. /\ refs \in Seq(SUBSET Labels) /\ Len(refs) <= MaxRefs /\ mixed \in BOOLEAN
      /\ HistoryOf(history, past, refs) /\ (~mixed => Restores(history, past, refs))
  BY HistoryFacts
<1>4. refs' \in Seq(SUBSET Labels) /\ Len(refs') = Len(refs)
  BY <1>1, <1>2, <1>3, ActKeeps
<1>5. HistoryOf(history', past', refs')
  BY <1>1, <1>2, <1>3, ActKeeps
<1>6. ASSUME ~mixed' PROVE Restores(history', past', refs')
  BY <1>1, <1>2, <1>3, <1>6, ActRestores
<1>7. toggled' \in Seq(Seq(SUBSET Labels)) /\ Len(toggled') <= 1
  BY <1>1
<1>8. UndoInv'
  BY <1>1, <1>3, <1>4, <1>5, <1>6, <1>7, HistoryNext
<1>9. ToggleReady'
  BY <1>1 DEF ToggleReady
<1> QED
  BY <1>4, <1>8, <1>9

LEMMA TopEdit ==
  ASSUME UndoInv, history # <<>>
  PROVE  Top \in EditOf(refs) /\ EditFor(Top, refs)
<1>1. history \in Seq(EditOf(refs))
  BY HistoryFacts DEF HistoryOf
<1>2. Top \in EditOf(refs)
  BY <1>1, Popped DEF Top
<1> QED
  BY <1>2 DEF EditOf, EditFor

\* What is left of the history is one of the same refs.
LEMMA PoppedHistory ==
  ASSUME UndoInv, history # <<>>
  PROVE  HistoryOf(Pop(history), Pop(past), refs)
<1>1. /\ history \in Seq(EditOf(refs)) /\ past \in Seq(Seq(SUBSET Labels))
      /\ Len(past) = Len(history) /\ \A i \in DOMAIN past : Len(past[i]) = Len(refs)
  BY HistoryFacts DEF HistoryOf
<1>2. Pop(history) \in Seq(EditOf(refs)) /\ Len(Pop(history)) = Len(history) - 1
      /\ Len(history) \in Nat \ {0}
  BY <1>1, Popped
<1>3. past # <<>>
  BY <1>1, <1>2
<1>4. /\ Pop(past) \in Seq(Seq(SUBSET Labels)) /\ Len(Pop(past)) = Len(past) - 1
      /\ DOMAIN past = 1..Len(past) /\ DOMAIN Pop(past) = 1..(Len(past) - 1)
      /\ \A i \in 1..(Len(past) - 1) : Pop(past)[i] = past[i]
  BY <1>1, <1>3, Popped
<1>5. \A i \in DOMAIN Pop(past) : i \in DOMAIN past /\ Pop(past)[i] = past[i]
  BY <1>1, <1>2, <1>4
<1> QED
  BY <1>1, <1>2, <1>4, <1>5 DEF HistoryOf

LEMMA UndoKeeps ==
  ASSUME UndoInv, Undo
  PROVE  UndoInv' /\ ToggleReady' /\ Len(refs') = Len(refs)
<1>1. /\ history # <<>> /\ refs' = Apply(Top, refs) /\ history' = Pop(history)
      /\ past' = Pop(past) /\ toggled' = <<>> /\ mixed' = mixed
  BY DEF Undo
<1>2. /\ refs \in Seq(SUBSET Labels) /\ Len(refs) <= MaxRefs /\ mixed \in BOOLEAN
      /\ HistoryOf(history, past, refs) /\ (~mixed => Restores(history, past, refs))
  BY HistoryFacts
<1>3. refs' \in Seq(SUBSET Labels) /\ Len(refs') = Len(refs) /\ DOMAIN refs' = DOMAIN refs
  BY <1>1, <1>2, TopEdit, ApplyTyped DEF EditFor
<1>4. HistoryOf(history', past', refs')
  BY <1>1, <1>3, PoppedHistory DEF HistoryOf, EditOf
<1>5. ASSUME ~mixed' PROVE Restores(history', past', refs')
  BY <1>1, <1>2, <1>5, PopRestores DEF Top
<1>7. toggled' \in Seq(Seq(SUBSET Labels)) /\ Len(toggled') <= 1
  BY <1>1
<1>8. UndoInv'
  BY <1>1, <1>2, <1>3, <1>4, <1>5, <1>7, HistoryNext
<1>9. ToggleReady'
  BY <1>1 DEF ToggleReady
<1> QED
  BY <1>3, <1>8, <1>9

\* What the edit e made of the refs, the entry that it recorded takes back.
LEMMA RecordedRestores ==
  ASSUME NEW r \in Seq(SUBSET Labels), NEW s, NEW h, NEW p, NEW k, NEW q,
         NEW e, EditFor(e, r), HistoryOf(h, p, r), Recorded(e, r, h, p, s, k, q), s # r
  PROVE  k # <<>> /\ Apply(k[Len(k)], s) = r
<1>0. s = Apply(e, r)
  BY DEF Recorded
<1>1. Changed(e, r) # {}
  BY <1>0, IdleEdit DEF EditFor
<1> DEFINE x == InverseOf(e, Changed(e, r))
<1>2. x \in EditOf(r)
  BY <1>1, InverseTyped
<1>3. Apply(x, s) = r
  BY <1>0, InverseRestores DEF EditFor
<1>4. k = Append(h, x)
  BY <1>1 DEF Recorded
<1> HIDE DEF x
<1>5. h \in Seq(EditOf(r))
  BY DEF HistoryOf
<1>6. Len(k) = Len(h) + 1 /\ Len(h) \in Nat /\ k[Len(h) + 1] = x
  BY <1>2, <1>4, <1>5, Appended
<1> QED
  BY <1>3, <1>6

\* Ctrl+Z; and pressed twice it brings back what there was.
LEMMA UndoRedoKeeps ==
  ASSUME UndoInv, UndoRedo
  PROVE  /\ UndoInv' /\ ToggleReady' /\ Len(refs') = Len(refs)
         /\ ToggleReady /\ toggled # <<>> /\ toggled # <<refs>> => <<refs'>> = toggled
<1>1. /\ history # <<>> /\ refs' = Apply(Top, refs) /\ toggled' = <<refs>> /\ mixed' = TRUE
      /\ Recorded(Top, refs, Pop(history), Pop(past), refs', history', past')
  BY DEF UndoRedo, Act, Recorded
<1>2. refs \in Seq(SUBSET Labels) /\ Len(refs) <= MaxRefs
  BY HistoryFacts
<1>3. EditFor(Top, refs) /\ HistoryOf(Pop(history), Pop(past), refs)
  BY <1>1, TopEdit, PoppedHistory
<1>4. refs' \in Seq(SUBSET Labels) /\ Len(refs') = Len(refs)
  BY <1>1, <1>2, <1>3, ActKeeps
<1>5. HistoryOf(history', past', refs')
  BY <1>1, <1>2, <1>3, ActKeeps
<1>6. refs' # refs => history' # <<>> /\ Apply(history'[Len(history')], refs') = refs
  BY <1>1, <1>2, <1>3, RecordedRestores
<1>7. toggled' \in Seq(Seq(SUBSET Labels)) /\ Len(toggled') <= 1
  BY <1>1, <1>2
<1>8. UndoInv'
  BY <1>1, <1>2, <1>4, <1>5, <1>7, HistoryNext
<1>9. ToggleReady'
  BY <1>1, <1>6 DEF ToggleReady, Top
<1>10. ToggleReady /\ toggled # <<>> /\ toggled # <<refs>> => <<refs'>> = toggled
  BY <1>1 DEF ToggleReady
<1> QED
  BY <1>4, <1>8, <1>9, <1>10

LEMMA HistoryGrows ==
  ASSUME NEW r \in Seq(SUBSET Labels), NEW labels \in SUBSET Labels, NEW h, NEW p, NEW q,
         HistoryOf(h, p, r), q = [i \in DOMAIN p |-> Append(p[i], labels)]
  PROVE  HistoryOf(h, q, Append(r, labels))
<1> DEFINE s == Append(r, labels)
<1>1. /\ h \in Seq(EditOf(r)) /\ p \in Seq(Seq(SUBSET Labels))
      /\ Len(p) = Len(h) /\ \A i \in DOMAIN p : Len(p[i]) = Len(r)
  BY DEF HistoryOf
<1>2. /\ s \in Seq(SUBSET Labels) /\ Len(s) = Len(r) + 1 /\ Len(r) \in Nat
      /\ DOMAIN r = 1..Len(r) /\ DOMAIN s = 1..(Len(r) + 1)
  BY Appended
<1> HIDE DEF s
<1>3. EditOf(r) \subseteq EditOf(s)
  <2>1. DOMAIN r \subseteq DOMAIN s
    BY <1>2
  <2> QED
    BY <2>1 DEF EditOf
<1>4. h \in Seq(EditOf(s))
  <2>1. Len(h) \in Nat /\ DOMAIN h = 1..Len(h) /\ \A i \in 1..Len(h) : h[i] \in EditOf(r)
    BY <1>1
  <2>2. \A i \in 1..Len(h) : h[i] \in EditOf(s)
    BY <1>3, <2>1
  <2>3. PICK E : E = EditOf(s)
    OBVIOUS
  <2>4. PICK m : m = Len(h)
    OBVIOUS
  <2>5. h = [i \in 1..m |-> h[i]]
    BY <1>1, <2>4
  <2>6. m \in Nat /\ \A i \in 1..m : h[i] \in E
    BY <2>1, <2>2, <2>3, <2>4
  <2>7. h \in Seq(E)
    BY <2>5, <2>6
  <2> QED
    BY <2>3, <2>7
<1>5. /\ Len(p) \in Nat /\ DOMAIN p = 1..Len(p)
      /\ \A i \in DOMAIN p : p[i] \in Seq(SUBSET Labels)
  BY <1>1
<1>6. ASSUME NEW i \in DOMAIN p
      PROVE  q[i] \in Seq(SUBSET Labels) /\ Len(q[i]) = Len(s)
  <2>1. q[i] = Append(p[i], labels) /\ p[i] \in Seq(SUBSET Labels) /\ Len(p[i]) = Len(r)
    BY <1>1, <1>5
  <2> QED
    BY <1>2, <2>1, Appended
<1>7. q \in Seq(Seq(SUBSET Labels)) /\ Len(q) = Len(p) /\ DOMAIN q = DOMAIN p
  BY <1>5, <1>6
<1> QED
  BY <1>1, <1>4, <1>6, <1>7 DEF HistoryOf, s

\* The entries of the history are bound to the refs there were: a new one changes nothing.
LEMMA RestoresGrows ==
  ASSUME NEW r \in Seq(SUBSET Labels), NEW labels \in SUBSET Labels, NEW h, NEW p, NEW q,
         HistoryOf(h, p, r), q = [i \in DOMAIN p |-> Append(p[i], labels)],
         Restores(h, p, r)
  PROVE  Restores(h, q, Append(r, labels))
<1>1. /\ h \in Seq(EditOf(r)) /\ p \in Seq(Seq(SUBSET Labels))
      /\ Len(p) = Len(h) /\ \A i \in DOMAIN p : Len(p[i]) = Len(r)
      /\ Len(h) \in Nat /\ DOMAIN h = 1..Len(h) /\ DOMAIN p = 1..Len(h)
  BY DEF HistoryOf
<1>2. ASSUME NEW i \in DOMAIN h
      PROVE  /\ i = Len(h) => Apply(h[i], Append(r, labels)) = q[i]
             /\ i # Len(h) => Apply(h[i], q[i + 1]) = q[i]
  <2>1. q[i] = Append(p[i], labels) /\ h[i] \in EditOf(r)
    BY <1>1
  <2>2. h[i].label \in Labels /\ h[i].on \subseteq DOMAIN r
    BY <2>1 DEF EditOf
  <2>3. CASE i = Len(h)
    <3>1. Apply(h[i], r) = p[i]
      BY <2>3, RestoresAt
    <3>2. Apply(h[i], Append(r, labels)) = Append(Apply(h[i], r), labels)
      BY <2>2, ApplyAppend
    <3> QED
      BY <2>1, <2>3, <3>1, <3>2
  <2>4. CASE i # Len(h)
    <3>1. Apply(h[i], p[i + 1]) = p[i]
      BY <2>4, RestoresAt
    <3>2. i + 1 \in DOMAIN p /\ q[i + 1] = Append(p[i + 1], labels)
      BY <1>1, <2>4
    <3>3. p[i + 1] \in Seq(SUBSET Labels) /\ DOMAIN p[i + 1] = DOMAIN r
      BY <1>1, <3>2
    <3>4. Apply(h[i], Append(p[i + 1], labels)) = Append(Apply(h[i], p[i + 1]), labels)
      BY <2>2, <3>3, ApplyAppend
    <3> QED
      BY <2>1, <2>4, <3>1, <3>2, <3>4
  <2> QED
    BY <2>3, <2>4
<1> QED
  BY <1>2, RestoresFrom

LEMMA ImportKeeps ==
  ASSUME UndoInv, NEW labels \in SUBSET Labels, Import(labels)
  PROVE  UndoInv' /\ ToggleReady'
<1>1. /\ Len(refs) < MaxRefs /\ refs' = Append(refs, labels) /\ toggled' = <<>>
      /\ past' = [i \in DOMAIN past |-> Append(past[i], labels)]
      /\ history' = history /\ mixed' = mixed
  BY DEF Import
<1>2. /\ refs \in Seq(SUBSET Labels) /\ Len(refs) <= MaxRefs /\ mixed \in BOOLEAN
      /\ HistoryOf(history, past, refs) /\ (~mixed => Restores(history, past, refs))
  BY HistoryFacts
<1>3. refs' \in Seq(SUBSET Labels) /\ Len(refs') <= MaxRefs
  BY <1>1, <1>2, ImageRefsAssumption
<1>4. HistoryOf(history', past', refs')
  BY <1>1, <1>2, HistoryGrows
<1>5. ASSUME ~mixed' PROVE Restores(history', past', refs')
  BY <1>1, <1>2, <1>5, RestoresGrows
<1>6. toggled' \in Seq(Seq(SUBSET Labels)) /\ Len(toggled') <= 1
  BY <1>1
<1>7. UndoInv'
  BY <1>1, <1>2, <1>3, <1>4, <1>5, <1>6, HistoryNext
<1> QED
  BY <1>1, <1>7 DEF ToggleReady
--------------------------------------------------------------------------------
(* The refs of a list that are in a set. *)

\* Induction over an interval, for the set of the numbers that have a property.
LEMMA IntervalInduction ==
  ASSUME NEW m \in Nat, NEW G, 0 \in G, \A n \in 1..m : n - 1 \in G => n \in G
  PROVE  \A n \in 0..m : n \in G
<1> SUFFICES ASSUME NEW k \in 0..m, k \notin G
             PROVE  FALSE
  OBVIOUS
<1> DEFINE B == {n \in 0..m : n \notin G}
<1>1. IsWellFoundedOn(OpToRel(<, Nat), Nat)
  BY NatLessThanWellFounded, Zenon
<1>2. B \subseteq Nat /\ B # {}
  OBVIOUS
<1> HIDE DEF B
<1>3. PICK x \in B : \A y \in B : ~ (<<y, x>> \in OpToRel(<, Nat))
  BY <1>1, <1>2, WFMin, Zenon
<1>4. x \in 0..m /\ x \notin G
  BY <1>3 DEF B
<1>5. x \in 1..m
  BY <1>4
<1>6. x - 1 \notin B
  <2>1. x \in Nat /\ x - 1 \in Nat /\ x - 1 < x
    BY <1>5
  <2> QED
    BY <1>3, <2>1 DEF OpToRel
<1>7. x - 1 \in G
  BY <1>5, <1>6 DEF B
<1> QED
  BY <1>4, <1>5, <1>7

IsChosen(c, v, S, m) ==
  /\ DOMAIN c = 0..m /\ c[0] = <<>>
  /\ \A n \in 1..m : c[n] = IF v[n] \in S THEN Append(c[n - 1], v[n]) ELSE c[n - 1]

\* The recursion of Selected has a solution.
LEMMA ChosenExists ==
  ASSUME NEW T, NEW v \in Seq(T), NEW S
  PROVE  \E c : c = [n \in 0..Len(v) |-> c[n]] /\ IsChosen(c, v, S, Len(v))
<1> DEFINE G == {n \in 0..Len(v) : \E c : c = [k \in 0..n |-> c[k]] /\ IsChosen(c, v, S, n)}
<1>1. Len(v) \in Nat
  OBVIOUS
<1>2. 0 \in G
  <2> DEFINE c == [k \in 0..0 |-> <<>>]
  <2>1. c = [k \in 0..0 |-> c[k]] /\ IsChosen(c, v, S, 0)
    BY DEF IsChosen
  <2> HIDE DEF c
  <2> QED
    BY <1>1, <2>1
<1>3. ASSUME NEW n \in 1..Len(v), n - 1 \in G
      PROVE  n \in G
  <2>1. PICK c : c = [k \in 0..(n - 1) |-> c[k]] /\ IsChosen(c, v, S, n - 1)
    BY <1>3
  <2> DEFINE d == [k \in 0..n |->
                     IF k = n THEN IF v[n] \in S THEN Append(c[n - 1], v[n]) ELSE c[n - 1]
                     ELSE c[k]]
  <2>2. /\ DOMAIN d = 0..n /\ d[n] = IF v[n] \in S THEN Append(c[n - 1], v[n]) ELSE c[n - 1]
        /\ \A k \in 0..(n - 1) : d[k] = c[k]
    BY <1>1
  <2>3. d = [k \in 0..n |-> d[k]]
    OBVIOUS
  <2> HIDE DEF d
  <2>4. d[0] = <<>>
    <3>1. 0 \in 0..(n - 1)
      BY <1>1
    <3>2. c[0] = <<>>
      BY <2>1 DEF IsChosen
    <3> QED
      BY <2>2, <3>1, <3>2
  <2>5. ASSUME NEW k \in 1..n
        PROVE  d[k] = IF v[k] \in S THEN Append(d[k - 1], v[k]) ELSE d[k - 1]
    <3>1. k - 1 \in 0..(n - 1) /\ d[k - 1] = c[k - 1]
      BY <1>1, <2>2
    <3>2. CASE k = n
      BY <2>2, <3>1, <3>2
    <3>3. CASE k # n
      <4>1. k \in 1..(n - 1) /\ k \in 0..(n - 1)
        BY <1>1, <3>3
      <4> QED
        BY <2>1, <2>2, <3>1, <4>1 DEF IsChosen
    <3> QED
      BY <3>2, <3>3
  <2>6. IsChosen(d, v, S, n)
    BY <2>2, <2>4, <2>5 DEF IsChosen
  <2> QED
    BY <1>1, <2>3, <2>6
<1>4. Len(v) \in 0..Len(v)
  BY <1>1
<1> HIDE DEF G
<1>5. Len(v) \in G
  BY <1>1, <1>2, <1>3, <1>4, IntervalInduction
<1> QED
  BY <1>5 DEF G

LEMMA SelectedChosen ==
  ASSUME NEW T, NEW v \in Seq(T), NEW S
  PROVE  \E c : IsChosen(c, v, S, Len(v)) /\ Selected(v, S) = c[Len(v)]
<1> DEFINE chosen[n \in 0..Len(v)] == IF n = 0 THEN <<>>
                                      ELSE IF v[n] \in S THEN Append(chosen[n - 1], v[n])
                                      ELSE chosen[n - 1]
<1>1. Selected(v, S) = chosen[Len(v)]
  BY DEF Selected
<1>2. Len(v) \in Nat
  OBVIOUS
<1>3. PICK c : c = [n \in 0..Len(v) |-> c[n]] /\ IsChosen(c, v, S, Len(v))
  BY ChosenExists
<1>4. c = [n \in 0..Len(v) |-> IF n = 0 THEN <<>>
                               ELSE IF v[n] \in S THEN Append(c[n - 1], v[n])
                               ELSE c[n - 1]]
  <2>1. ASSUME NEW n \in 0..Len(v)
        PROVE  c[n] = IF n = 0 THEN <<>>
                      ELSE IF v[n] \in S THEN Append(c[n - 1], v[n]) ELSE c[n - 1]
    BY <1>2, <1>3 DEF IsChosen
  <2> QED
    BY <1>3, <2>1
<1>5. chosen = [n \in 0..Len(v) |-> IF n = 0 THEN <<>>
                                    ELSE IF v[n] \in S THEN Append(chosen[n - 1], v[n])
                                    ELSE chosen[n - 1]]
  BY <1>4, Zenon
<1> HIDE DEF chosen
<1>6. IsChosen(chosen, v, S, Len(v))
  <2>1. DOMAIN chosen = 0..Len(v) /\ chosen[0] = <<>>
    BY <1>2, <1>5
  <2>2. ASSUME NEW n \in 1..Len(v)
        PROVE  chosen[n] = IF v[n] \in S THEN Append(chosen[n - 1], v[n]) ELSE chosen[n - 1]
    <3>1. n \in 0..Len(v) /\ n # 0
      BY <1>2
    <3> QED
      BY <1>5, <3>1
  <2> QED
    BY <2>1, <2>2 DEF IsChosen
<1> QED
  BY <1>1, <1>6

LEMMA AppendedSet ==
  ASSUME NEW T, NEW s \in Seq(T), NEW x \in T
  PROVE  /\ ToSet(Append(s, x)) = ToSet(s) \cup {x}
         /\ IsInjective(s) /\ x \notin ToSet(s) => IsInjective(Append(s, x))
<1> DEFINE a == Append(s, x)
           n == Len(s)
<1>1. /\ n \in Nat /\ DOMAIN s = 1..n /\ DOMAIN a = 1..(n + 1) /\ a[n + 1] = x
      /\ \A i \in 1..n : a[i] = s[i]
  BY Appended
<1> HIDE DEF a, n
<1>2. ToSet(a) = ToSet(s) \cup {x}
  <2>1. ASSUME NEW y \in ToSet(a) PROVE y \in ToSet(s) \cup {x}
    <3>1. PICK i \in DOMAIN a : y = a[i]
      BY <2>1 DEF ToSet
    <3>2. i = n + 1 \/ i \in 1..n
      BY <1>1
    <3> QED
      BY <1>1, <3>1, <3>2 DEF ToSet
  <2>2. ASSUME NEW y \in ToSet(s) PROVE y \in ToSet(a)
    <3>1. PICK i \in DOMAIN s : y = s[i]
      BY <2>2 DEF ToSet
    <3>2. i \in DOMAIN a /\ a[i] = y
      BY <1>1, <3>1
    <3> QED
      BY <3>2 DEF ToSet
  <2>3. x \in ToSet(a)
    <3>1. n + 1 \in DOMAIN a
      BY <1>1
    <3> QED
      BY <1>1, <3>1 DEF ToSet
  <2> QED
    BY <2>1, <2>2, <2>3
<1>3. ASSUME IsInjective(s), x \notin ToSet(s) PROVE IsInjective(a)
  <2>1. ASSUME NEW i \in DOMAIN a, NEW j \in DOMAIN a, a[i] = a[j] PROVE i = j
    <3>1. (i = n + 1 \/ i \in 1..n) /\ (j = n + 1 \/ j \in 1..n)
      BY <1>1
    <3>2. \A k \in 1..n : s[k] # x
      BY <1>1, <1>3 DEF ToSet
    <3>3. CASE i \in 1..n /\ j \in 1..n
      BY <1>1, <1>3, <2>1, <3>3 DEF IsInjective
    <3> QED
      BY <1>1, <2>1, <3>1, <3>2, <3>3
  <2> QED
    BY <2>1 DEF IsInjective
<1> QED
  BY <1>2, <1>3 DEF a

\* What Selected returns: the refs of the list that are in the set, each as often.
LEMMA SelectedFacts ==
  ASSUME NEW T, NEW v \in Seq(T), NEW S
  PROVE  /\ Selected(v, S) \in Seq(T) /\ Len(Selected(v, S)) <= Len(v)
         /\ ToSet(Selected(v, S)) = ToSet(v) \cap S
         /\ IsInjective(v) => IsInjective(Selected(v, S))
<1>1. PICK c : IsChosen(c, v, S, Len(v)) /\ Selected(v, S) = c[Len(v)]
  BY SelectedChosen
<1>2. Len(v) \in Nat /\ DOMAIN v = 1..Len(v) /\ \A n \in 1..Len(v) : v[n] \in T
  OBVIOUS
<1>3. c[0] = <<>>
  BY <1>1 DEF IsChosen
<1> DEFINE Before(n) == {v[k] : k \in 1..n}
           G == {n \in 0..Len(v) : /\ c[n] \in Seq(T) /\ Len(c[n]) <= n
                                   /\ ToSet(c[n]) = Before(n) \cap S
                                   /\ IsInjective(v) => IsInjective(c[n])}
<1>4. 0 \in G
  <2>1. c[0] \in Seq(T) /\ Len(c[0]) <= 0 /\ DOMAIN c[0] = {}
    BY <1>3
  <2>2. Before(0) = {}
    OBVIOUS
  <2> HIDE DEF Before
  <2>3. ToSet(c[0]) = Before(0) \cap S /\ IsInjective(c[0])
    BY <2>1, <2>2 DEF ToSet, IsInjective
  <2> QED
    BY <1>2, <2>1, <2>3
<1>5. ASSUME NEW n \in 1..Len(v), n - 1 \in G
      PROVE  n \in G
  <2>1. n \in 0..Len(v) /\ n - 1 \in Nat /\ n \in Nat /\ v[n] \in T /\ n \in DOMAIN v
    BY <1>2
  <2>2. c[n] = IF v[n] \in S THEN Append(c[n - 1], v[n]) ELSE c[n - 1]
    BY <1>1 DEF IsChosen
  <2>3. /\ c[n - 1] \in Seq(T) /\ Len(c[n - 1]) <= n - 1
        /\ ToSet(c[n - 1]) = Before(n - 1) \cap S
        /\ IsInjective(v) => IsInjective(c[n - 1])
    BY <1>5
  <2>4. Before(n) = Before(n - 1) \cup {v[n]}
    BY <2>1
  <2>5. IsInjective(v) => v[n] \notin Before(n - 1)
    <3>1. \A k \in 1..(n - 1) : k \in DOMAIN v /\ k # n
      BY <1>2, <2>1
    <3> QED
      BY <2>1, <3>1 DEF IsInjective
  <2> HIDE DEF Before
  <2>6. CASE v[n] \in S
    <3>1. c[n] = Append(c[n - 1], v[n])
      BY <2>2, <2>6
    <3>2. /\ c[n] \in Seq(T) /\ Len(c[n]) = Len(c[n - 1]) + 1 /\ Len(c[n - 1]) \in Nat
      BY <2>1, <2>3, <3>1, Appended
    <3>3. Len(c[n]) <= n
      BY <2>1, <2>3, <3>2
    <3>4. ToSet(c[n]) = ToSet(c[n - 1]) \cup {v[n]}
      BY <2>1, <2>3, <3>1, AppendedSet
    <3>5. ToSet(c[n]) = Before(n) \cap S
      BY <2>3, <2>4, <2>6, <3>4
    <3>6. ASSUME IsInjective(v) PROVE IsInjective(c[n])
      <4>1. IsInjective(c[n - 1]) /\ v[n] \notin ToSet(c[n - 1])
        BY <2>3, <2>5, <3>6
      <4> QED
        BY <2>1, <2>3, <3>1, <4>1, AppendedSet
    <3> QED
      BY <2>1, <3>2, <3>3, <3>5, <3>6
  <2>7. CASE v[n] \notin S
    <3>1. c[n] = c[n - 1]
      BY <2>2, <2>7
    <3>2. Len(c[n]) <= n
      BY <2>1, <2>3, <3>1
    <3>3. ToSet(c[n]) = Before(n) \cap S
      BY <2>3, <2>4, <2>7, <3>1
    <3> QED
      BY <2>1, <2>3, <3>1, <3>2, <3>3
  <2> QED
    BY <2>6, <2>7
<1> HIDE DEF G
<1>6. Len(v) \in G
  <2>1. Len(v) \in 0..Len(v)
    BY <1>2
  <2> QED
    BY <1>2, <1>4, <1>5, <2>1, IntervalInduction
<1>7. Before(Len(v)) = ToSet(v)
  BY <1>2 DEF ToSet
<1> QED
  BY <1>1, <1>6, <1>7 DEF G

\* A ref that is put at the end of the list without being in the set is not selected.
LEMMA SelectedAppend ==
  ASSUME NEW T, NEW v \in Seq(T), NEW x \in T, NEW S, x \notin S
  PROVE  Selected(Append(v, x), S) = Selected(v, S)
<1> DEFINE w == Append(v, x)
<1>1. /\ w \in Seq(T) /\ Len(w) = Len(v) + 1 /\ Len(v) \in Nat
      /\ w[Len(v) + 1] = x /\ \A i \in 1..Len(v) : w[i] = v[i]
  BY Appended
<1> HIDE DEF w
<1>2. PICK c : IsChosen(c, v, S, Len(v)) /\ Selected(v, S) = c[Len(v)]
  BY SelectedChosen
<1>3. PICK d : IsChosen(d, w, S, Len(w)) /\ Selected(w, S) = d[Len(w)]
  BY <1>1, SelectedChosen
<1> DEFINE G == {n \in 0..Len(v) : d[n] = c[n]}
<1>4. 0 \in G
  BY <1>1, <1>2, <1>3 DEF IsChosen
<1>5. ASSUME NEW n \in 1..Len(v), n - 1 \in G PROVE n \in G
  <2>1. d[n - 1] = c[n - 1] /\ n \in 1..Len(w) /\ n \in 0..Len(v) /\ w[n] = v[n]
    BY <1>1, <1>5
  <2>2. d[n] = IF w[n] \in S THEN Append(d[n - 1], w[n]) ELSE d[n - 1]
    BY <1>3, <2>1 DEF IsChosen
  <2>3. c[n] = IF v[n] \in S THEN Append(c[n - 1], v[n]) ELSE c[n - 1]
    BY <1>2 DEF IsChosen
  <2> QED
    BY <2>1, <2>2, <2>3
<1> HIDE DEF G
<1>6. Len(v) \in G
  <2>1. Len(v) \in 0..Len(v)
    BY <1>1
  <2> QED
    BY <1>1, <1>4, <1>5, <2>1, IntervalInduction
<1>7. d[Len(v)] = c[Len(v)]
  BY <1>6 DEF G
<1>8. Len(w) \in 1..Len(w) /\ Len(w) - 1 = Len(v) /\ w[Len(w)] = x
  BY <1>1
<1>9. d[Len(w)] = d[Len(v)]
  BY <1>3, <1>8 DEF IsChosen
<1> QED
  BY <1>2, <1>3, <1>7, <1>9 DEF w
--------------------------------------------------------------------------------
(* The selection. *)

\* The refs T: the view v, the selected S, the current item c, the selection m in the
\* view, and the effective selection e.
SelectionOK(T, v, S, c, m, e) ==
  /\ v \in Seq(T) /\ IsInjective(v) /\ S \subseteq T /\ c \in 0..Len(v)
  /\ m = Selected(v, S) /\ e \in Seq(T)
  /\ IF m # <<>> THEN e = m ELSE Len(e) <= 1 /\ ToSet(e) \subseteq ToSet(v)

SelectionInv == /\ SelectionOK(all, view, selected, currentIndex, selectionModel, effective)
                /\ watching \in BOOLEAN

LEMMA EffectiveOK ==
  ASSUME NEW T, NEW v \in Seq(T), IsInjective(v), NEW S \in SUBSET T, NEW c \in 0..Len(v)
  PROVE  SelectionOK(T, v, S, c, Selected(v, S), Effective(Selected(v, S), v, c))
<1>0. PICK m : m = Selected(v, S)
  OBVIOUS
<1>1. m \in Seq(T)
  BY <1>0, SelectedFacts
<1>2. PICK e : e = Effective(m, v, c)
  OBVIOUS
<1>3. e \in Seq(T) /\ IF m # <<>> THEN e = m ELSE Len(e) <= 1 /\ ToSet(e) \subseteq ToSet(v)
  <2>1. CASE m # <<>>
    BY <1>1, <1>2, <2>1 DEF Effective
  <2>2. CASE m = <<>> /\ v # <<>> /\ c # 0
    <3>1. e = <<v[c]>> /\ c \in DOMAIN v /\ v[c] \in T
      BY <1>2, <2>2 DEF Effective
    <3>2. e \in Seq(T) /\ Len(e) = 1 /\ DOMAIN e = {1} /\ e[1] = v[c]
      BY <3>1
    <3>3. ToSet(e) \subseteq ToSet(v)
      BY <3>1, <3>2 DEF ToSet
    <3> QED
      BY <2>2, <3>2, <3>3
  <2>3. CASE m = <<>> /\ ~(v # <<>> /\ c # 0)
    <3>1. e = <<>>
      BY <1>2, <2>3 DEF Effective
    <3>2. e \in Seq(T) /\ Len(e) = 0 /\ DOMAIN e = {}
      BY <3>1
    <3>3. ToSet(e) \subseteq ToSet(v)
      BY <3>2 DEF ToSet
    <3> QED
      BY <2>3, <3>2, <3>3
  <2> QED
    BY <2>1, <2>2, <2>3
<1>4. SelectionOK(T, v, S, c, m, e)
  BY <1>0, <1>3 DEF SelectionOK
<1> QED
  BY <1>0, <1>2, <1>4

LEMMA WiderSeq ==
  ASSUME NEW S, NEW T, S \subseteq T, NEW s \in Seq(S)
  PROVE  s \in Seq(T)
<1>1. Len(s) \in Nat /\ s = [i \in 1..Len(s) |-> s[i]] /\ \A i \in 1..Len(s) : s[i] \in S
  OBVIOUS
<1>2. \A i \in 1..Len(s) : s[i] \in T
  BY <1>1
<1>3. [i \in 1..Len(s) |-> s[i]] \in Seq(T)
  BY <1>1, <1>2
<1> QED
  BY <1>1, <1>3

LEMMA EvaluateKeeps ==
  ASSUME NEW T, T = all', view' \in Seq(T), IsInjective(view'), selected' \subseteq T,
         currentIndex' \in 0..Len(view'), selectionModel' = Selected(view', selected'),
         Evaluate
  PROVE  SelectionInv'
<1>1. /\ effective' = Effective(Selected(view', selected'), view', currentIndex')
      /\ watching' \in BOOLEAN
  BY DEF Evaluate
<1>2. SelectionOK(T, view', selected', currentIndex', Selected(view', selected'),
                  Effective(Selected(view', selected'), view', currentIndex'))
  BY EffectiveOK
<1>3. SelectionOK(T, view', selected', currentIndex', selectionModel', effective')
  BY <1>1, <1>2
<1> QED
  BY <1>1, <1>3 DEF SelectionInv

\* setViewList with refs that there are, each once.
LEMMA ViewKeeps ==
  ASSUME SelectionInv, UNCHANGED refs, NEW v \in Seq(all), IsInjective(v), setViewList(v)
  PROVE  SelectionInv' /\ Evaluate
<1>1. /\ view' = v /\ currentIndex' = (IF v = <<>> THEN 0 ELSE 1) /\ selected' = selected
      /\ selectionModel' = Selected(view', selected') /\ Evaluate
  BY DEF setViewList, Rebuild
<1>2. all' = all
  BY DEF all
<1>3. selected \subseteq all
  BY DEF SelectionInv, SelectionOK
<1>4. currentIndex' \in 0..Len(v)
  BY <1>1
<1> QED
  BY <1>1, <1>2, <1>3, <1>4, EvaluateKeeps

LEMMA SearchKeeps ==
  ASSUME SelectionInv, UNCHANGED refs, refs \in Seq(SUBSET Labels), NEW tags, Search(tags)
  PROVE  SelectionInv' /\ Evaluate
<1> DEFINE l == [i \in all |-> i]
<1>1. l \in Seq(all) /\ IsInjective(l)
  <2>1. all = 1..Len(refs) /\ Len(refs) \in Nat
    BY DEF all
  <2> QED
    BY <2>1 DEF IsInjective
<1>2. PICK S : S = {r \in all : tags \subseteq refs[r]}
  OBVIOUS
<1>3. setViewList(Selected(l, S))
  BY <1>2 DEF Search, Found
<1> HIDE DEF l
<1>4. Selected(l, S) \in Seq(all) /\ IsInjective(Selected(l, S))
  BY <1>1, SelectedFacts
<1> QED
  BY <1>3, <1>4, ViewKeeps

LEMMA FindKeeps ==
  ASSUME SelectionInv, UNCHANGED refs, refs \in Seq(SUBSET Labels), NEW S \in SUBSET all,
         NEW v \in SetToSeqs(S), FindDuplicates(v)
  PROVE  SelectionInv' /\ Evaluate
<1>1. IsFiniteSet(S)
  <2>1. all = 1..Len(refs) /\ Len(refs) \in Nat
    BY DEF all
  <2>2. IsFiniteSet(all)
    BY <2>1, FS_Interval
  <2> QED
    BY <2>2, FS_Subset
<1>2. Cardinality(S) \in Nat
  BY <1>1, FS_CardinalityType
<1>3. v \in [1..Cardinality(S) -> S] /\ \A i, j \in 1..Cardinality(S) : i # j => v[i] # v[j]
  BY DEF SetToSeqs
<1>4. v \in Seq(all) /\ IsInjective(v)
  BY <1>2, <1>3 DEF IsInjective
<1> QED
  BY <1>4, ViewKeeps DEF FindDuplicates

LEMMA SelectKeeps ==
  ASSUME SelectionInv, UNCHANGED refs, NEW S \in SUBSET all, NEW i \in 0..Len(view),
         Select(S, i)
  PROVE  SelectionInv' /\ Evaluate
<1>1. /\ view' = view /\ currentIndex' = i /\ selected' = S
      /\ selectionModel' = Selected(view', selected') /\ Evaluate
  BY DEF Select, Rebuild
<1>2. all' = all
  BY DEF all
<1>3. view \in Seq(all) /\ IsInjective(view)
  BY DEF SelectionInv, SelectionOK
<1> QED
  BY <1>1, <1>2, <1>3, EvaluateKeeps

LEMMA ClickKeeps ==
  ASSUME SelectionInv, UNCHANGED refs, NEW i \in 0..Len(view), Click(i)
  PROVE  SelectionInv' /\ (Evaluate \/ UNCHANGED bindingVars)
<1>1. /\ view' = view /\ currentIndex' = i /\ selected' = selected
      /\ selectionModel' = selectionModel
      /\ Evaluate \/ UNCHANGED bindingVars
  BY DEF Click, Follow
<1>2. all' = all
  BY DEF all
<1>3. /\ view \in Seq(all) /\ IsInjective(view) /\ selected \subseteq all
      /\ selectionModel = Selected(view, selected)
  BY DEF SelectionInv, SelectionOK
<1>4. CASE Evaluate
  BY <1>1, <1>2, <1>3, <1>4, EvaluateKeeps
<1>5. CASE UNCHANGED bindingVars
  <2>1. effective' = effective /\ watching' = watching
    BY <1>5 DEF bindingVars
  <2>2. SelectionOK(all, view, selected, currentIndex', selectionModel, effective)
    BY <1>1 DEF SelectionInv, SelectionOK
  <2> QED
    BY <1>1, <1>2, <2>1, <2>2 DEF SelectionInv
<1> QED
  BY <1>1, <1>4, <1>5

\* The new ref is not selected, and nobody acts on it unless it is the first there is.
LEMMA ShowNewKeeps ==
  ASSUME SelectionInv, refs \in Seq(SUBSET Labels), NEW labels \in SUBSET Labels,
         refs' = Append(refs, labels), ShowNew
  PROVE  /\ SelectionInv' /\ (Evaluate \/ UNCHANGED bindingVars)
         /\ selected' = selected
<1> DEFINE x == Len(refs) + 1
           T == 1..x
<1>1. /\ view' = Append(view, x) /\ currentIndex' \in {0, 1, currentIndex}
      /\ selected' = selected
      /\ selectionModel' = selectionModel /\ (Evaluate \/ UNCHANGED bindingVars)
  BY DEF ShowNew, Follow
<1>2. all' = T /\ all = 1..Len(refs) /\ Len(refs) \in Nat /\ all \subseteq T /\ x \in T
      /\ x \notin all
  BY DEF all
<1>3. /\ view \in Seq(all) /\ IsInjective(view) /\ selected \subseteq all
      /\ selectionModel = Selected(view, selected) /\ currentIndex \in 0..Len(view)
      /\ effective \in Seq(all)
      /\ IF selectionModel # <<>> THEN effective = selectionModel
         ELSE Len(effective) <= 1 /\ ToSet(effective) \subseteq ToSet(view)
  BY DEF SelectionInv, SelectionOK
<1> HIDE DEF x, T
<1>4. view \in Seq(T) /\ effective \in Seq(T)
  BY <1>2, <1>3, WiderSeq
<1>5. /\ view' \in Seq(T) /\ Len(view') = Len(view) + 1 /\ Len(view) \in Nat
      /\ ToSet(view') = ToSet(view) \cup {x}
  BY <1>1, <1>2, <1>4, Appended, AppendedSet
<1>6. IsInjective(view')
  <2>1. x \notin ToSet(view)
    BY <1>2, <1>3 DEF ToSet
  <2> QED
    BY <1>1, <1>2, <1>3, <1>4, <2>1, AppendedSet
<1>7. Selected(view', selected') = Selected(view, selected)
  BY <1>1, <1>2, <1>3, <1>4, SelectedAppend
<1>8. currentIndex' \in 0..Len(view')
  BY <1>1, <1>3, <1>5
<1>9. CASE Evaluate
  BY <1>1, <1>2, <1>3, <1>5, <1>6, <1>7, <1>8, <1>9, EvaluateKeeps
<1>10. CASE UNCHANGED bindingVars
  <2>1. effective' = effective /\ watching' = watching
    BY <1>10 DEF bindingVars
  <2>2. IF selectionModel # <<>> THEN effective = selectionModel
        ELSE Len(effective) <= 1 /\ ToSet(effective) \subseteq ToSet(view')
    BY <1>3, <1>5
  <2>4. selected' \subseteq T
    BY <1>1, <1>2, <1>3
  <2>5. selectionModel = Selected(view', selected')
    BY <1>3, <1>7
  <2>3. SelectionOK(T, view', selected', currentIndex', selectionModel, effective)
    BY <1>4, <1>5, <1>6, <1>8, <2>2, <2>4, <2>5 DEF SelectionOK
  <2> QED
    BY <1>1, <1>2, <2>1, <2>3 DEF SelectionInv
<1> QED
  BY <1>1, <1>9, <1>10

\* What the view does not show keeps its selection.
Hidden == \A r \in all : r \in ToSet(view') \/ (r \in selected' <=> r \in selected)

LEMMA ShownFacts ==
  ASSUME SelectionInv
  PROVE  /\ Shown \subseteq all /\ selected \subseteq all /\ Len(view) \in Nat
         /\ \A i \in DOMAIN view : view[i] \in Shown /\ i \in 0..Len(view)
         /\ currentIndex # 0 => currentIndex \in DOMAIN view
         /\ currentIndex \in 0..Len(view)
         /\ \A i, k \in DOMAIN view : Between(i, k) \subseteq Shown
<1>1. view \in Seq(all) /\ selected \subseteq all /\ currentIndex \in 0..Len(view)
  BY DEF SelectionInv, SelectionOK
<1>2. DOMAIN view = 1..Len(view) /\ Len(view) \in Nat /\ \A i \in DOMAIN view : view[i] \in all
  BY <1>1
<1>3. Shown \subseteq all /\ \A i \in DOMAIN view : view[i] \in Shown
  BY <1>2 DEF Shown, ToSet
<1>4. ASSUME NEW i \in DOMAIN view, NEW k \in DOMAIN view PROVE Between(i, k) \subseteq Shown
  <2>1. (i..k) \cup (k..i) \subseteq DOMAIN view
    BY <1>2
  <2> QED
    BY <1>3, <2>1 DEF Between
<1> QED
  BY <1>1, <1>2, <1>3, <1>4

LEMMA SelectStep ==
  ASSUME SelectionInv, UNCHANGED refs, NEW S \in SUBSET all, NEW i \in 0..Len(view),
         Select(S, i), \A r \in all : r \in Shown \/ (r \in S <=> r \in selected)
  PROVE  SelectionInv' /\ Evaluate /\ Hidden /\ view' = view
<1>1. view' = view /\ selected' = S
  BY DEF Select
<1> QED
  BY <1>1, SelectKeeps DEF Hidden, Shown

LEMMA ChangeSelectionKeeps ==
  ASSUME SelectionInv, ChangeSelection
  PROVE  SelectionInv' /\ (Evaluate \/ UNCHANGED bindingVars) /\ Hidden /\ view' = view
<1>1. UNCHANGED refs
  BY DEF ChangeSelection
<1>2. /\ Shown \subseteq all /\ selected \subseteq all /\ Len(view) \in Nat
      /\ \A i \in DOMAIN view : view[i] \in Shown /\ i \in 0..Len(view)
      /\ currentIndex # 0 => currentIndex \in DOMAIN view
      /\ currentIndex \in 0..Len(view)
      /\ \A i, k \in DOMAIN view : Between(i, k) \subseteq Shown
  BY ShownFacts
<1>3. CASE SelectAll
  <2>1. PICK S : S = selected \cup Shown
    OBVIOUS
  <2>2. S \in SUBSET all /\ \A r \in all : r \in Shown \/ (r \in S <=> r \in selected)
    BY <1>2, <2>1
  <2> QED
    BY <1>1, <1>2, <1>3, <2>1, <2>2, SelectStep DEF SelectAll
<1>4. CASE Deselect
  <2>1. PICK S : S = selected \ Shown
    OBVIOUS
  <2>2. S \in SUBSET all /\ \A r \in all : r \in Shown \/ (r \in S <=> r \in selected)
    BY <1>2, <2>1
  <2> QED
    BY <1>1, <1>2, <1>4, <2>1, <2>2, SelectStep DEF Deselect
<1>5. CASE Invert
  <2>1. PICK S : S = (selected \ Shown) \cup (Shown \ selected)
    OBVIOUS
  <2>2. S \in SUBSET all /\ \A r \in all : r \in Shown \/ (r \in S <=> r \in selected)
    BY <1>2, <2>1
  <2> QED
    BY <1>1, <1>2, <1>5, <2>1, <2>2, SelectStep DEF Invert
<1>6. CASE Space
  <2>1. PICK S : S = Toggled(selected, view[currentIndex])
    OBVIOUS
  <2>2. view[currentIndex] \in Shown
    BY <1>2, <1>6 DEF Space
  <2>3. S \in SUBSET all /\ \A r \in all : r \in Shown \/ (r \in S <=> r \in selected)
    BY <1>2, <2>1, <2>2 DEF Toggled
  <2> QED
    BY <1>1, <1>2, <1>6, <2>1, <2>3, SelectStep DEF Space
<1>7. ASSUME NEW i \in DOMAIN view, Click(i)
      PROVE  SelectionInv' /\ (Evaluate \/ UNCHANGED bindingVars) /\ Hidden /\ view' = view
  <2>1. view' = view /\ selected' = selected
    BY <1>7 DEF Click
  <2>2. Hidden
    BY <2>1 DEF Hidden
  <2> QED
    BY <1>1, <1>2, <1>7, <2>1, <2>2, ClickKeeps
<1>8. ASSUME NEW i \in DOMAIN view, ShiftClick(i)
      PROVE  SelectionInv' /\ (Evaluate \/ UNCHANGED bindingVars) /\ Hidden /\ view' = view
  <2>1. PICK S : S = selected \cup Between(currentIndex, i)
    OBVIOUS
  <2>2. Between(currentIndex, i) \subseteq Shown
    BY <1>2, <1>8 DEF ShiftClick
  <2>3. S \in SUBSET all /\ \A r \in all : r \in Shown \/ (r \in S <=> r \in selected)
    BY <1>2, <2>1, <2>2
  <2> QED
    BY <1>1, <1>2, <1>8, <2>1, <2>3, SelectStep DEF ShiftClick
<1>9. ASSUME NEW i \in DOMAIN view, CtrlShiftClick(i)
      PROVE  SelectionInv' /\ (Evaluate \/ UNCHANGED bindingVars) /\ Hidden /\ view' = view
  <2>1. PICK S : S = selected \ Between(currentIndex, i)
    OBVIOUS
  <2>2. Between(currentIndex, i) \subseteq Shown
    BY <1>2, <1>9 DEF CtrlShiftClick
  <2>3. S \in SUBSET all /\ \A r \in all : r \in Shown \/ (r \in S <=> r \in selected)
    BY <1>2, <2>1, <2>2
  <2> QED
    BY <1>1, <1>2, <1>9, <2>1, <2>3, SelectStep DEF CtrlShiftClick
<1>10. ASSUME NEW i \in DOMAIN view, CtrlClick(i)
       PROVE  SelectionInv' /\ (Evaluate \/ UNCHANGED bindingVars) /\ Hidden /\ view' = view
  <2>1. PICK R : R = IF selectionModel = <<>> THEN selected \cup {view[currentIndex]}
                     ELSE selected
    OBVIOUS
  <2>2. PICK S : S = Toggled(R, view[i])
    OBVIOUS
  <2>3. Select(S, i) /\ (currentIndex # 0 \/ selectionModel # <<>>)
    BY <1>10, <2>1, <2>2 DEF CtrlClick
  <2>4. R \subseteq all /\ \A r \in all : r \in Shown \/ (r \in R <=> r \in selected)
    BY <1>2, <2>1, <2>3
  <2>5. S \in SUBSET all /\ \A r \in all : r \in Shown \/ (r \in S <=> r \in selected)
    BY <1>2, <2>2, <2>4 DEF Toggled
  <2> QED
    BY <1>1, <1>2, <2>3, <2>5, SelectStep
<1>11. ASSUME NEW tags \in SUBSET Tags, EditComplete(tags)
       PROVE  SelectionInv' /\ (Evaluate \/ UNCHANGED bindingVars) /\ Hidden /\ view' = view
  <2>1. PICK S : S = (selected \ Shown) \cup ToSet(Found(view, tags))
    OBVIOUS
  <2>2. ToSet(Found(view, tags)) \subseteq Shown
    BY SelectedFacts DEF SelectionInv, SelectionOK, Found, Shown
  <2>3. S \in SUBSET all /\ \A r \in all : r \in Shown \/ (r \in S <=> r \in selected)
    BY <1>2, <2>1, <2>2
  <2>4. Select(S, currentIndex)
    BY <1>11, <2>1 DEF EditComplete
  <2> QED
    BY <1>1, <1>2, <2>3, <2>4, SelectStep
<1> QED
  BY <1>3, <1>4, <1>5, <1>6, <1>7, <1>8, <1>9, <1>10, <1>11 DEF ChangeSelection

LEMMA ChangeViewKeeps ==
  ASSUME SelectionInv, refs \in Seq(SUBSET Labels), ChangeView
  PROVE  SelectionInv' /\ Evaluate /\ Hidden
<1>1. UNCHANGED refs /\ selected' = selected
  BY DEF ChangeView, Search, FindDuplicates, setViewList
<1>2. Hidden
  BY <1>1 DEF Hidden
<1>3. CASE \E tags \in SUBSET Tags : Search(tags)
  BY <1>1, <1>2, <1>3, SearchKeeps
<1>4. CASE \E S \in SUBSET all : \E v \in SetToSeqs(S) : FindDuplicates(v)
  BY <1>1, <1>2, <1>4, FindKeeps
<1> QED
  BY <1>3, <1>4 DEF ChangeView

\* An edit of the refs there are leaves the selection alone.
LEMMA EditKeepsSelection ==
  ASSUME SelectionInv, refs \in Seq(SUBSET Labels), refs' \in Seq(SUBSET Labels),
         Len(refs') = Len(refs),
         UNCHANGED <<view, selected, currentIndex, selectionModel, effective, watching>>
  PROVE  SelectionInv' /\ Hidden
<1>1. all' = all
  BY DEF all
<1>2. SelectionInv'
  BY <1>1 DEF SelectionInv
<1> QED
  BY <1>2 DEF Hidden
--------------------------------------------------------------------------------
(* The lists of tags. *)

LEMMA TagCountSame ==
  ASSUME NEW r, NEW s, NEW l,
         \A n \in DOMAIN l : \A t \in Tags : t \in r[l[n]] <=> t \in s[l[n]]
  PROVE  TagCount(r, l) = TagCount(s, l)
<1>1. {t \in Tags : \E n \in DOMAIN l : t \in r[l[n]]}
      = {t \in Tags : \E n \in DOMAIN l : t \in s[l[n]]}
  OBVIOUS
<1>2. \A t \in Tags : {n \in DOMAIN l : t \in r[l[n]]} = {n \in DOMAIN l : t \in s[l[n]]}
  OBVIOUS
<1>3. \A t \in {t \in Tags : \E n \in DOMAIN l : t \in r[l[n]]} :
         Cardinality({n \in DOMAIN l : t \in r[l[n]]})
         = Cardinality({n \in DOMAIN l : t \in s[l[n]]})
  BY <1>2
<1> QED
  BY <1>1, <1>3 DEF TagCount

\* A tag is counted at most once for each ref of the list.
LEMMA TagCountTyped ==
  ASSUME NEW r, NEW T, NEW l \in Seq(T), Len(l) <= MaxRefs
  PROVE  TagCount(r, l) \in TagCounts
<1> DEFINE S == {t \in Tags : \E n \in DOMAIN l : t \in r[l[n]]}
           At(t) == {n \in DOMAIN l : t \in r[l[n]]}
<1>1. Len(l) \in Nat /\ DOMAIN l = 1..Len(l) /\ MaxRefs \in Nat
  BY ImageRefsAssumption
<1>2. ASSUME NEW t \in S PROVE Cardinality(At(t)) \in 1..MaxRefs
  <2>1. IsFiniteSet(1..Len(l)) /\ Cardinality(1..Len(l)) = Len(l)
    <3>1. 1 \in Int /\ Len(l) \in Int
      BY <1>1
    <3>2. /\ IsFiniteSet(1..Len(l))
          /\ Cardinality(1..Len(l)) = IF 1 > Len(l) THEN 0 ELSE Len(l) - 1 + 1
      BY <3>1, FS_Interval
    <3> QED
      BY <1>1, <3>2
  <2>2. At(t) \subseteq 1..Len(l) /\ At(t) # {}
    BY <1>1
  <2> HIDE DEF At
  <2>3. IsFiniteSet(At(t)) /\ Cardinality(At(t)) <= Len(l)
    BY <2>1, <2>2, FS_Subset
  <2>4. Cardinality(At(t)) \in Nat /\ Cardinality(At(t)) # 0
    BY <2>2, <2>3, FS_CardinalityType, FS_EmptySet
  <2> QED
    BY <1>1, <2>3, <2>4
<1>3. TagCount(r, l) = [t \in S |-> Cardinality(At(t))]
  BY DEF TagCount
<1>4. S \in SUBSET Tags
  OBVIOUS
<1> HIDE DEF S, At
<1>5. TagCount(r, l) \in [S -> 1..MaxRefs]
  BY <1>2, <1>3
<1> QED
  BY <1>4, <1>5 DEF TagCounts

\* The count c is one of a list v that may have grown since.
CountsPrefix(r, v, c) == \E n \in 0..Len(v) : c = TagCount(r, SubSeq(v, 1, n))

LEMMA Prefix ==
  ASSUME NEW T, NEW v \in Seq(T), NEW n \in 0..Len(v)
  PROVE  /\ SubSeq(v, 1, n) \in Seq(T) /\ Len(SubSeq(v, 1, n)) = n
         /\ DOMAIN SubSeq(v, 1, n) = 1..n /\ \A i \in 1..n : SubSeq(v, 1, n)[i] = v[i]
<1>1. n \in Nat /\ Len(v) \in Nat /\ \A i \in 1..n : i \in 1..Len(v) /\ v[i] \in T
  OBVIOUS
<1>2. SubSeq(v, 1, n) = [i \in 1..n |-> v[i]]
  BY <1>1
<1>3. [i \in 1..n |-> v[i]] \in Seq(T)
  BY <1>1
<1> QED
  BY <1>1, <1>2, <1>3

LEMMA PrefixWhole ==
  ASSUME NEW r, NEW T, NEW v \in Seq(T)
  PROVE  CountsPrefix(r, v, TagCount(r, v))
<1>1. PICK n : n = Len(v)
  OBVIOUS
<1>2. n \in 0..Len(v)
  BY <1>1
<1>3. SubSeq(v, 1, n) = v
  BY <1>1, <1>2, Prefix
<1> QED
  BY <1>2, <1>3 DEF CountsPrefix

LEMMA PrefixNone ==
  ASSUME NEW r, NEW T, NEW v \in Seq(T)
  PROVE  CountsPrefix(r, v, <<>>)
<1>1. PICK e : e = SubSeq(v, 1, 0)
  OBVIOUS
<1>2. 0 \in 0..Len(v) /\ DOMAIN e = {}
  BY <1>1, Prefix
<1>3. TagCount(r, e) = [t \in {} |-> Cardinality({n \in DOMAIN e : t \in r[e[n]]})]
  <2>1. {t \in Tags : \E n \in DOMAIN e : t \in r[e[n]]} = {}
    BY <1>2
  <2> QED
    BY <2>1 DEF TagCount
<1>4. TagCount(r, e) = <<>>
  BY <1>3
<1> QED
  BY <1>1, <1>2, <1>4 DEF CountsPrefix

LEMMA PrefixSame ==
  ASSUME NEW r, NEW s, NEW T, NEW v \in Seq(T),
         \A i \in T : \A t \in Tags : t \in r[i] <=> t \in s[i],
         NEW c, CountsPrefix(r, v, c)
  PROVE  CountsPrefix(s, v, c)
<1>1. PICK n \in 0..Len(v) : c = TagCount(r, SubSeq(v, 1, n))
  BY DEF CountsPrefix
<1>2. PICK l : l = SubSeq(v, 1, n)
  OBVIOUS
<1>3. \A i \in DOMAIN l : l[i] \in T
  BY <1>2, Prefix
<1>4. TagCount(r, l) = TagCount(s, l)
  BY <1>3, TagCountSame
<1> QED
  BY <1>1, <1>2, <1>4 DEF CountsPrefix

LEMMA PrefixAppend ==
  ASSUME NEW r, NEW T, NEW v \in Seq(T), NEW x, NEW c, CountsPrefix(r, v, c)
  PROVE  CountsPrefix(r, Append(v, x), c)
<1>1. PICK n \in 0..Len(v) : c = TagCount(r, SubSeq(v, 1, n))
  BY DEF CountsPrefix
<1>2. PICK w : w = Append(v, x)
  OBVIOUS
<1> DEFINE U == T \cup {x}
<1>3. v \in Seq(U) /\ x \in U
  BY WiderSeq
<1>4. /\ w \in Seq(U) /\ Len(w) = Len(v) + 1 /\ Len(v) \in Nat
      /\ \A i \in 1..Len(v) : w[i] = v[i]
  BY <1>2, <1>3, Appended
<1> HIDE DEF U
<1>5. n \in 0..Len(w)
  BY <1>4
<1>6. /\ SubSeq(w, 1, n) \in Seq(U) /\ SubSeq(v, 1, n) \in Seq(U)
      /\ Len(SubSeq(w, 1, n)) = n /\ Len(SubSeq(v, 1, n)) = n
      /\ \A i \in 1..n : SubSeq(w, 1, n)[i] = w[i] /\ SubSeq(v, 1, n)[i] = v[i]
  BY <1>3, <1>4, <1>5, Prefix
<1>7. SubSeq(w, 1, n) = SubSeq(v, 1, n)
  <2>1. \A i \in 1..n : SubSeq(w, 1, n)[i] = SubSeq(v, 1, n)[i]
    BY <1>4, <1>6
  <2> QED
    BY <1>6, <2>1
<1> QED
  BY <1>1, <1>2, <1>5, <1>7 DEF CountsPrefix

LEMMA AllSeq ==
  ASSUME NEW r \in Seq(SUBSET Labels)
  PROVE  All(r) \in Seq(DOMAIN r) /\ Len(All(r)) = Len(r)
<1>1. Len(r) \in Nat /\ DOMAIN r = 1..Len(r)
  OBVIOUS
<1> QED
  BY <1>1 DEF All

LEMMA AllAppend ==
  ASSUME NEW r \in Seq(SUBSET Labels), NEW labels \in SUBSET Labels
  PROVE  All(Append(r, labels)) = Append(All(r), Len(r) + 1)
<1>1. PICK s : s = Append(r, labels)
  OBVIOUS
<1>2. /\ s \in Seq(SUBSET Labels) /\ Len(s) = Len(r) + 1 /\ Len(r) \in Nat
      /\ DOMAIN s = 1..(Len(r) + 1) /\ DOMAIN r = 1..Len(r)
  BY <1>1, Appended
<1>3. All(r) = [i \in 1..Len(r) |-> i] /\ All(s) = [i \in 1..(Len(r) + 1) |-> i]
  BY <1>2 DEF All
<1>4. PICK n : n = Len(r)
  OBVIOUS
<1>5. Append([i \in 1..n |-> i], n + 1) = [i \in 1..(n + 1) |-> i]
  <2>1. n \in Nat /\ [i \in 1..n |-> i] \in Seq(Nat)
    BY <1>2, <1>4
  <2> QED
    BY <2>1
<1> QED
  BY <1>1, <1>3, <1>4, <1>5

\* The three lists.
TagsOK(r, e, s, v, c, a) ==
  s = TagCount(r, e) /\ CountsPrefix(r, v, c) /\ CountsPrefix(r, All(r), a)
TagsInv == TagsOK(refs, effective, selectionTags, view, viewTags, allTags)

LEMMA TagsSame ==
  ASSUME NEW r \in Seq(SUBSET Labels), NEW s \in Seq(SUBSET Labels), Len(s) = Len(r),
         \A i \in DOMAIN r : \A t \in Tags : t \in r[i] <=> t \in s[i],
         NEW e \in Seq(DOMAIN r), NEW v \in Seq(DOMAIN r), NEW x, NEW c, NEW a,
         TagsOK(r, e, x, v, c, a)
  PROVE  TagsOK(s, e, x, v, c, a)
<1>1. TagCount(r, e) = TagCount(s, e)
  <2>1. \A n \in DOMAIN e : e[n] \in DOMAIN r
    OBVIOUS
  <2> QED
    BY <2>1, TagCountSame
<1>2. CountsPrefix(s, v, c)
  BY PrefixSame DEF TagsOK
<1>3. CountsPrefix(s, All(r), a)
  BY AllSeq, PrefixSame DEF TagsOK
<1>4. All(s) = All(r)
  <2>1. DOMAIN s = DOMAIN r
    OBVIOUS
  <2> QED
    BY <2>1 DEF All
<1> QED
  BY <1>1, <1>2, <1>3, <1>4 DEF TagsOK
--------------------------------------------------------------------------------
(* The window. *)

WindowInv == /\ UndoInv /\ ToggleReady /\ SelectionInv /\ TagsInv
             /\ steps \in 0..MaxSteps

LEMMA WindowFacts ==
  ASSUME WindowInv
  PROVE  /\ refs \in Seq(SUBSET Labels) /\ Len(refs) <= MaxRefs /\ all = DOMAIN refs
         /\ view \in Seq(all) /\ effective \in Seq(all) /\ acted \in SUBSET DOMAIN refs
         /\ TagsOK(refs, effective, selectionTags, view, viewTags, allTags)
         /\ DOMAIN selectionTags \subseteq Tags
<1>1. refs \in Seq(SUBSET Labels) /\ Len(refs) <= MaxRefs
  BY HistoryFacts DEF WindowInv
<1>2. view \in Seq(all) /\ effective \in Seq(all) /\ all = DOMAIN refs
  BY DEF WindowInv, SelectionInv, SelectionOK, all
<1>3. acted \in SUBSET DOMAIN refs
  <2>1. \A n \in DOMAIN effective : effective[n] \in DOMAIN refs
    BY <1>2
  <2> QED
    BY <2>1 DEF acted, ToSet
<1>4. TagsOK(refs, effective, selectionTags, view, viewTags, allTags)
  BY DEF WindowInv, TagsInv
<1>5. DOMAIN selectionTags \subseteq Tags
  BY <1>4 DEF TagsOK, TagCount
<1> QED
  BY <1>1, <1>2, <1>3, <1>4, <1>5

LEMMA StepKeeps ==
  ASSUME steps \in 0..MaxSteps, Step
  PROVE  steps' \in 0..MaxSteps
BY WindowAssumption DEF Step

\* What onEffectiveSelectionModelChanged counts is true; the list of all tags is left.
LEMMA RebuiltTags ==
  ASSUME SelectionInv', rebuildTagModels, CountsPrefix(refs', All(refs'), allTags')
  PROVE  TagsInv'
<1>1. view' \in Seq(all')
  BY DEF SelectionInv, SelectionOK
<1>2. selectionTags' = TagCount(refs', effective') /\ viewTags' = TagCount(refs', view')
  BY DEF rebuildTagModels
<1>3. PICK T : T = all'
  OBVIOUS
<1>4. CountsPrefix(refs', view', viewTags')
  BY <1>1, <1>2, <1>3, PrefixWhole
<1> QED
  BY <1>2, <1>4 DEF TagsInv, TagsOK

LEMMA EditTagsKeeps ==
  ASSUME SelectionInv', refs' \in Seq(SUBSET Labels), EditTags
  PROVE  TagsInv'
<1>1. rebuildTagModels /\ allTags' = TagCount(refs', All(refs'))
  BY DEF EditTags, rebuildAllTagModel
<1>2. CountsPrefix(refs', All(refs'), allTags')
  BY <1>1, AllSeq, PrefixWhole
<1> QED
  BY <1>1, <1>2, RebuiltTags

\* Marking changes no tag.
LEMMA EditMarksKeeps ==
  ASSUME WindowInv, refs' \in Seq(SUBSET Labels), Len(refs') = Len(refs), EditMarks,
         NEW e, e.label = Mark, refs' = Apply(e, refs)
  PROVE  TagsInv'
<1>1. /\ refs \in Seq(SUBSET Labels) /\ view \in Seq(DOMAIN refs)
      /\ effective \in Seq(DOMAIN refs)
      /\ TagsOK(refs, effective, selectionTags, view, viewTags, allTags)
  BY WindowFacts
<1>2. /\ effective' = effective /\ view' = view /\ selectionTags' = selectionTags
      /\ viewTags' = viewTags /\ allTags' = allTags
  BY DEF EditMarks, selectionVars, bindingVars
<1>3. ASSUME NEW i \in DOMAIN refs, NEW t \in Tags
      PROVE  t \in refs[i] <=> t \in refs'[i]
  <2>1. refs'[i] = IF i \notin e.on THEN refs[i]
                   ELSE IF e.op = "add" THEN refs[i] \cup {e.label} ELSE refs[i] \ {e.label}
    BY DEF Apply
  <2>2. t # e.label
    BY ImageRefsAssumption
  <2> QED
    BY <2>1, <2>2
<1>4. TagsOK(refs', effective, selectionTags, view, viewTags, allTags)
  BY <1>1, <1>3, TagsSame
<1> QED
  BY <1>2, <1>4 DEF TagsInv

LEMMA EditSelectionKeeps ==
  ASSUME WindowInv, EditSelection
  PROVE  WindowInv' /\ Hidden
<1>1. UndoInv /\ SelectionInv /\ steps' \in 0..MaxSteps
  BY StepKeeps DEF WindowInv, EditSelection
<1>2. /\ refs \in Seq(SUBSET Labels) /\ acted \in SUBSET DOMAIN refs
      /\ DOMAIN selectionTags \subseteq Tags
  BY WindowFacts
<1>3. ASSUME NEW op \in {"add", "remove"}, NEW t \in Tags, Edit(op, acted, t), EditTags
      PROVE  WindowInv' /\ Hidden
  <2>1. UndoInv' /\ ToggleReady' /\ Len(refs') = Len(refs)
    BY <1>1, <1>2, <1>3, EditKeeps DEF Labels
  <2>2. refs' \in Seq(SUBSET Labels)
    BY <2>1 DEF UndoInv, RefsOK
  <2>3. SelectionInv' /\ Hidden
    BY <1>1, <1>2, <1>3, <2>1, <2>2, EditKeepsSelection DEF EditTags
  <2>4. TagsInv'
    BY <1>3, <2>2, <2>3, EditTagsKeeps
  <2> QED
    BY <1>1, <2>1, <2>3, <2>4 DEF WindowInv
<1>4. ASSUME NEW op \in {"add", "remove"}, Edit(op, acted, Mark), EditMarks
      PROVE  WindowInv' /\ Hidden
  <2>1. UndoInv' /\ ToggleReady' /\ Len(refs') = Len(refs)
    BY <1>1, <1>2, <1>4, EditKeeps DEF Labels
  <2>2. refs' \in Seq(SUBSET Labels)
    BY <2>1 DEF UndoInv, RefsOK
  <2>3. SelectionInv' /\ Hidden
    BY <1>1, <1>2, <1>4, <2>1, <2>2, EditKeepsSelection
       DEF EditMarks, selectionVars, bindingVars
  <2>4. PICK e : e = [op |-> op, on |-> acted, label |-> Mark]
    OBVIOUS
  <2>5. e.label = Mark /\ refs' = Apply(e, refs)
    BY <1>4, <2>4 DEF Edit, Act
  <2>6. TagsInv'
    BY <1>4, <2>1, <2>2, <2>5, EditMarksKeeps
  <2> QED
    BY <1>1, <2>1, <2>3, <2>6 DEF WindowInv
<1>5. \/ \E op \in {"add", "remove"}, t \in Tags : Edit(op, acted, t) /\ EditTags
      \/ \E op \in {"add", "remove"} : Edit(op, acted, Mark) /\ EditMarks
  BY <1>2 DEF EditSelection, actionAddTag, actionRemoveTag, actionDelete, actionUndelete
<1> QED
  BY <1>3, <1>4, <1>5

LEMMA UndoEditKeeps ==
  ASSUME WindowInv, UndoEdit
  PROVE  WindowInv' /\ Hidden
<1>1. UndoInv /\ SelectionInv /\ steps' \in 0..MaxSteps /\ history # <<>>
  BY StepKeeps DEF WindowInv, UndoEdit, Undo, UndoRedo
<1>2. refs \in Seq(SUBSET Labels)
  BY WindowFacts
<1>3. UndoInv' /\ ToggleReady' /\ Len(refs') = Len(refs)
  BY <1>1, UndoKeeps, UndoRedoKeeps DEF UndoEdit
<1>4. refs' \in Seq(SUBSET Labels)
  BY <1>3 DEF UndoInv, RefsOK
<1>5. UNCHANGED <<view, selected, currentIndex, selectionModel, effective, watching>>
  BY DEF UndoEdit, EditTags, EditMarks, selectionVars, bindingVars
<1>6. SelectionInv' /\ Hidden
  BY <1>1, <1>2, <1>3, <1>4, <1>5, EditKeepsSelection
<1>7. TagsInv'
  <2>1. CASE Top.label \in Tags
    BY <1>4, <1>6, <2>1, EditTagsKeeps DEF UndoEdit
  <2>2. CASE Top.label \notin Tags
    <3>1. PICK e : e = Top
      OBVIOUS
    <3>2. EditFor(Top, refs)
      BY <1>1, TopEdit
    <3>3. e.label = Mark
      BY <2>2, <3>1, <3>2 DEF EditFor, Labels
    <3>4. refs' = Apply(e, refs)
      BY <3>1 DEF UndoEdit, Undo, UndoRedo, Act
    <3>5. EditMarks
      BY <2>2 DEF UndoEdit
    <3> QED
      BY <1>3, <1>4, <3>3, <3>4, <3>5, EditMarksKeeps
  <2> QED
    BY <2>1, <2>2
<1> QED
  BY <1>1, <1>3, <1>6, <1>7 DEF WindowInv

LEMMA ImageReadyKeeps ==
  ASSUME WindowInv, ImageReady
  PROVE  WindowInv' /\ Hidden
<1>1. UndoInv /\ SelectionInv /\ steps' \in 0..MaxSteps
  BY StepKeeps DEF WindowInv, ImageReady
<1>2. /\ refs \in Seq(SUBSET Labels) /\ view \in Seq(all) /\ effective \in Seq(all)
      /\ all = DOMAIN refs
      /\ TagsOK(refs, effective, selectionTags, view, viewTags, allTags)
  BY WindowFacts
<1>3. PICK labels \in SUBSET Labels : Import(labels)
  BY DEF ImageReady, Labels
<1>4. ShowNew /\ allTags' = allTags
  BY DEF ImageReady
<1>5. UndoInv' /\ ToggleReady'
  BY <1>1, <1>3, ImportKeeps
<1>6. refs' = Append(refs, labels)
  BY <1>3 DEF Import
<1>7. SelectionInv' /\ (Evaluate \/ UNCHANGED bindingVars) /\ selected' = selected
  BY <1>1, <1>2, <1>4, <1>6, ShowNewKeeps
<1>8. Hidden
  BY <1>7 DEF Hidden
<1>9. /\ refs' \in Seq(SUBSET Labels) /\ DOMAIN refs' = DOMAIN refs \cup {Len(refs) + 1}
      /\ \A i \in DOMAIN refs : refs'[i] = refs[i]
  <2>1. /\ refs' \in Seq(SUBSET Labels) /\ Len(refs) \in Nat
        /\ DOMAIN refs = 1..Len(refs) /\ DOMAIN refs' = 1..(Len(refs) + 1)
        /\ \A i \in 1..Len(refs) : refs'[i] = refs[i]
    BY <1>2, <1>6, Appended
  <2> QED
    BY <2>1
<1>10. \A i \in DOMAIN refs : \A t \in Tags : t \in refs[i] <=> t \in refs'[i]
  BY <1>9
<1>11. CountsPrefix(refs', All(refs'), allTags')
  <2>1. CountsPrefix(refs', All(refs), allTags)
    BY <1>2, <1>10, AllSeq, PrefixSame DEF TagsOK
  <2>2. All(refs') = Append(All(refs), Len(refs) + 1)
    BY <1>2, <1>6, AllAppend
  <2> QED
    BY <1>2, <1>4, <2>1, <2>2, AllSeq, PrefixAppend
<1>12. CASE Evaluate
  <2>1. TagsInv'
    BY <1>7, <1>11, <1>12, RebuiltTags DEF Evaluate
  <2> QED
    BY <1>1, <1>5, <1>7, <1>8, <2>1 DEF WindowInv
<1>13. CASE UNCHANGED bindingVars
  <2>1. effective' = effective /\ selectionTags' = selectionTags /\ viewTags' = viewTags
    BY <1>13 DEF bindingVars
  <2>2. TagCount(refs, effective) = TagCount(refs', effective)
    <3>1. \A n \in DOMAIN effective : effective[n] \in DOMAIN refs
      BY <1>2
    <3> QED
      BY <1>10, <3>1, TagCountSame
  <2>3. CountsPrefix(refs', view, viewTags)
    BY <1>2, <1>10, PrefixSame DEF TagsOK
  <2>4. CountsPrefix(refs', view', viewTags)
    BY <1>2, <1>4, <2>3, PrefixAppend DEF ShowNew
  <2>5. TagsInv'
    BY <1>2, <1>11, <2>1, <2>2, <2>4 DEF TagsInv, TagsOK
  <2> QED
    BY <1>1, <1>5, <1>7, <1>8, <2>5 DEF WindowInv
<1> QED
  BY <1>7, <1>12, <1>13

\* The steps that edit nothing.
LEMMA LookKeeps ==
  ASSUME WindowInv, UNCHANGED <<refs, undoVars, allTags>>, SelectionInv',
         Evaluate \/ (UNCHANGED bindingVars /\ view' = view), steps' \in 0..MaxSteps
  PROVE  WindowInv'
<1>1. /\ refs' = refs /\ history' = history /\ past' = past /\ toggled' = toggled
      /\ mixed' = mixed /\ allTags' = allTags
  BY DEF undoVars
<1>2. TagsOK(refs, effective, selectionTags, view, viewTags, allTags)
  BY WindowFacts
<1>3. UndoInv'
  BY <1>1 DEF WindowInv, UndoInv, RefsOK, UndoTypeOK, UndoRestores, Edits, After
<1>4. ToggleReady'
  BY <1>1 DEF WindowInv, ToggleReady, Top
<1>5. CASE Evaluate
  <2>1. CountsPrefix(refs', All(refs'), allTags')
    BY <1>1, <1>2 DEF TagsOK
  <2>2. TagsInv'
    BY <1>5, <2>1, RebuiltTags DEF Evaluate
  <2> QED
    BY <1>3, <1>4, <2>2 DEF WindowInv
<1>6. CASE UNCHANGED bindingVars /\ view' = view
  <2>1. TagsInv'
    BY <1>1, <1>2, <1>6 DEF TagsInv, bindingVars
  <2> QED
    BY <1>3, <1>4, <2>1 DEF WindowInv
<1> QED
  BY <1>5, <1>6

LEMMA WindowNext ==
  ASSUME WindowInv, [Next]_vars
  PROVE  WindowInv' /\ Hidden
<1>1. SelectionInv /\ refs \in Seq(SUBSET Labels) /\ steps \in 0..MaxSteps
  BY WindowFacts DEF WindowInv
<1>2. CASE ChangeView
  <2>1. SelectionInv' /\ Evaluate /\ Hidden
    BY <1>1, <1>2, ChangeViewKeeps
  <2>2. UNCHANGED <<refs, undoVars, allTags>> /\ steps' \in 0..MaxSteps
    BY <1>1, <1>2, StepKeeps DEF ChangeView
  <2> QED
    BY <2>1, <2>2, LookKeeps
<1>3. CASE ChangeSelection
  <2>1. SelectionInv' /\ (Evaluate \/ UNCHANGED bindingVars) /\ Hidden /\ view' = view
    BY <1>1, <1>3, ChangeSelectionKeeps
  <2>2. UNCHANGED <<refs, undoVars, allTags>> /\ steps' \in 0..MaxSteps
    BY <1>1, <1>3, StepKeeps DEF ChangeSelection
  <2> QED
    BY <2>1, <2>2, LookKeeps
<1>4. CASE UNCHANGED vars
  <2>1. /\ UNCHANGED <<refs, undoVars, allTags>> /\ steps' \in 0..MaxSteps
        /\ UNCHANGED bindingVars /\ view' = view /\ selected' = selected
        /\ currentIndex' = currentIndex /\ selectionModel' = selectionModel
    BY <1>1, <1>4 DEF vars, selectionVars
  <2>2. SelectionInv'
    BY <1>1, <2>1 DEF SelectionInv, bindingVars, all
  <2>3. Hidden
    BY <2>1 DEF Hidden
  <2> QED
    BY <2>1, <2>2, <2>3, LookKeeps
<1> QED
  BY <1>2, <1>3, <1>4, EditSelectionKeeps, UndoEditKeeps, ImageReadyKeeps DEF Next
--------------------------------------------------------------------------------
LEMMA WindowInit == Init => WindowInv
<1> SUFFICES ASSUME Init PROVE WindowInv
  OBVIOUS
<1>1. PICK n \in 0..MaxRefs : refs \in [1..n -> SUBSET Labels]
  BY DEF Init
<1>2. /\ refs \in Seq(SUBSET Labels) /\ Len(refs) <= MaxRefs /\ all = DOMAIN refs
      /\ Len(refs) \in Nat /\ DOMAIN refs = 1..Len(refs)
  BY <1>1, ImageRefsAssumption DEF all
<1>3. history = <<>> /\ past = <<>> /\ toggled = <<>> /\ mixed = FALSE
  BY DEF Init, UndoInit
<1>4. UndoInv /\ ToggleReady
  <2>1. HistoryOf(history, past, refs) /\ Restores(history, past, refs)
    BY <1>3 DEF HistoryOf, Restores
  <2>2. toggled \in Seq(Seq(SUBSET Labels)) /\ Len(toggled) <= 1
    BY <1>3
  <2>3. mixed \in BOOLEAN
    BY <1>3
  <2> QED
    BY <1>2, <1>3, <2>1, <2>2, <2>3, HistoryFrom DEF ToggleReady
<1>5. /\ view = [i \in all |-> i] /\ selected = {}
      /\ currentIndex = (IF view = <<>> THEN 0 ELSE 1)
      /\ selectionModel = <<>> /\ effective = Effective(<<>>, view, currentIndex)
      /\ watching \in BOOLEAN
      /\ selectionTags = TagCount(refs, effective) /\ viewTags = TagCount(refs, view)
  BY DEF Init, SelectionInit
<1>6. view \in Seq(all) /\ IsInjective(view) /\ currentIndex \in 0..Len(view)
  <2>1. view = [i \in 1..Len(refs) |-> i] /\ all = 1..Len(refs)
    BY <1>2, <1>5
  <2>2. view \in Seq(all) /\ Len(view) \in Nat
    BY <1>2, <2>1
  <2>3. IsInjective(view)
    BY <2>1 DEF IsInjective
  <2>4. view # <<>> => Len(view) # 0
    BY <2>2
  <2> QED
    BY <1>5, <2>2, <2>3, <2>4
<1>7. SelectionInv
  <2>1. SelectionOK(all, view, {}, currentIndex, Selected(view, {}),
                    Effective(Selected(view, {}), view, currentIndex))
    BY <1>6, EffectiveOK
  <2>2. Selected(view, {}) = <<>>
    <3>1. Selected(view, {}) \in Seq(all) /\ ToSet(Selected(view, {})) = {}
      BY <1>6, SelectedFacts
    <3>2. PICK m : m = Selected(view, {})
      OBVIOUS
    <3>3. m \in Seq(all) /\ \A i \in DOMAIN m : FALSE
      BY <3>1, <3>2 DEF ToSet
    <3>4. Len(m) \in Nat /\ DOMAIN m = 1..Len(m)
      BY <3>3
    <3>5. Len(m) = 0
      BY <3>3, <3>4
    <3>6. m = <<>>
      BY <3>3, <3>5
    <3> QED
      BY <3>2, <3>6
  <2> QED
    BY <1>5, <2>1, <2>2 DEF SelectionInv
<1>8. TagsInv
  <2>1. CountsPrefix(refs, view, viewTags)
    BY <1>5, <1>6, PrefixWhole
  <2>2. CountsPrefix(refs, All(refs), allTags)
    <3>1. allTags = <<>> \/ allTags = TagCount(refs, All(refs))
      BY DEF Init
    <3>2. All(refs) \in Seq(DOMAIN refs)
      BY <1>2, AllSeq
    <3> QED
      BY <3>1, <3>2, PrefixNone, PrefixWhole
  <2> QED
    BY <1>5, <2>1, <2>2 DEF TagsInv, TagsOK
<1>9. steps \in 0..MaxSteps
  BY WindowAssumption DEF Init
<1> QED
  BY <1>4, <1>7, <1>8, <1>9 DEF WindowInv

LEMMA WindowAlways == Spec => []WindowInv
<1>1. WindowInv /\ [Next]_vars => WindowInv'
  BY WindowNext
<1> QED
  BY WindowInit, <1>1, PTL DEF Spec

\* As long as only Ctrl+Shift+Z is used, each entry of the history takes back the action
\* that recorded it, however the edits overlap and whatever is imported in between
\* (actionHistory and the functions action* in main.qml).
THEOREM HistoryTakesBack == Spec => []UndoRestores
<1>1. WindowInv => UndoRestores
  BY DEF WindowInv, UndoInv
<1> QED
  BY WindowAlways, <1>1, PTL

\* Ctrl+Z twice, the first time to an effect, leaves the refs as they were: the entry
\* that the first one records is exactly the inverse of what it did.
THEOREM ToggleTakesBack == Spec => ToggleTwice
<1>1. WindowInv
      => [UndoRedo /\ toggled # <<>> /\ toggled # <<refs>> => <<refs'>> = toggled]_vars
  BY UndoRedoKeeps DEF WindowInv
<1> QED
  BY WindowAlways, <1>1, PTL DEF ToggleTwice

\* Whatever the user does with the selection, the view and the history, a ref that the
\* view hides stays as selected as it was.
THEOREM HiddenStaysSelected == Spec => HiddenKept
<1>1. WindowInv /\ [Next]_vars
      => [\A r \in all : r \in ToSet(view') \/ (r \in selected' <=> r \in selected)]_vars
  BY WindowNext DEF Hidden
<1> QED
  BY WindowAlways, <1>1, PTL DEF HiddenKept, Spec

\* Tagging, marking and rendering act on what the view shows as selected, or on one item
\* at most of the view: the binding is never stale in a way that matters, though a push
\* onto viewModelSimpleList does not evaluate it.
THEOREM EditsWhatIsShown == Spec => []ActsOnShown
<1>1. WindowInv => ActsOnShown
  <2> SUFFICES ASSUME WindowInv PROVE ActsOnShown
    OBVIOUS
  <2>1. /\ view \in Seq(all) /\ selectionModel = Selected(view, selected)
        /\ IF selectionModel # <<>> THEN effective = selectionModel
           ELSE Len(effective) <= 1 /\ ToSet(effective) \subseteq ToSet(view)
    BY DEF WindowInv, SelectionInv, SelectionOK
  <2>2. ToSet(selectionModel) \subseteq ToSet(view)
    BY <2>1, SelectedFacts
  <2> QED
    BY <2>1, <2>2 DEF ActsOnShown, Shown
<1> QED
  BY WindowAlways, <1>1, PTL

\* The tags listed for the selection, which are clicked to remove them, are those of the
\* refs acted on, with the right counts; the other lists count all but the newest refs.
THEOREM TagListsCount == Spec => []TagListsTrue
<1>1. WindowInv => TagListsTrue
  <2> SUFFICES ASSUME WindowInv PROVE TagListsTrue
    OBVIOUS
  <2>1. /\ selectionTags = TagCount(refs, effective)
        /\ CountsPrefix(refs, view, viewTags) /\ CountsPrefix(refs, All(refs), allTags)
    BY DEF WindowInv, TagsInv, TagsOK
  <2>2. Len(All(refs)) = Len(refs)
    BY WindowFacts, AllSeq
  <2> QED
    BY <2>1, <2>2 DEF CountsPrefix, TagListsTrue
<1> QED
  BY WindowAlways, <1>1, PTL

LEMMA ListBounds ==
  ASSUME WindowInv
  PROVE  Len(view) <= MaxRefs /\ Len(effective) <= MaxRefs /\ selectionModel \in Seq(all)
<1>1. /\ view \in Seq(all) /\ IsInjective(view) /\ effective \in Seq(all)
      /\ selectionModel = Selected(view, selected)
      /\ IF selectionModel # <<>> THEN effective = selectionModel
         ELSE Len(effective) <= 1 /\ ToSet(effective) \subseteq ToSet(view)
  BY DEF WindowInv, SelectionInv, SelectionOK
<1>2. /\ all = 1..Len(refs) /\ Len(refs) \in Nat /\ Len(refs) <= MaxRefs /\ MaxRefs \in Nat
      /\ Len(view) \in Nat /\ Len(effective) \in Nat
  BY <1>1, WindowFacts, ImageRefsAssumption
<1>3. ASSUME NEW k \in Nat PROVE IsFiniteSet(1..k) /\ Cardinality(1..k) = k
  <2>1. 1 \in Int /\ k \in Int
    BY <1>3
  <2>2. IsFiniteSet(1..k) /\ Cardinality(1..k) = IF 1 > k THEN 0 ELSE k - 1 + 1
    BY <2>1, FS_Interval
  <2> QED
    BY <1>3, <2>2
<1>4. Len(view) <= Len(refs)
  <2>1. view \in Injection(1..Len(view), 1..Len(refs))
    <3>1. view \in [1..Len(view) -> 1..Len(refs)]
      BY <1>1, <1>2
    <3> QED
      BY <1>1, <3>1 DEF Injection
  <2>2. Cardinality(1..Len(view)) <= Cardinality(1..Len(refs))
    BY <1>2, <1>3, <2>1, FS_Injection
  <2> QED
    BY <1>2, <1>3, <2>2
<1>5. selectionModel \in Seq(all) /\ Len(selectionModel) <= Len(view)
  BY <1>1, SelectedFacts
<1>6. Len(effective) <= Len(view)
  <2>1. CASE selectionModel # <<>>
    BY <1>1, <1>5, <2>1
  <2>2. CASE selectionModel = <<>> /\ Len(effective) = 1
    <3>1. effective[1] \in ToSet(effective)
      BY <1>1, <2>2 DEF ToSet
    <3>2. effective[1] \in ToSet(view)
      BY <1>1, <2>2, <3>1
    <3>3. PICK i \in DOMAIN view : TRUE
      BY <3>2 DEF ToSet
    <3>4. Len(view) >= 1
      BY <1>1, <1>2, <3>3
    <3> QED
      BY <1>2, <2>2, <3>4
  <2>3. CASE selectionModel = <<>> /\ Len(effective) = 0
    BY <1>2, <2>3
  <2>4. selectionModel = <<>> => Len(effective) = 1 \/ Len(effective) = 0
    <3>1. selectionModel = <<>> => Len(effective) <= 1
      BY <1>1, Zenon
    <3>2. Len(effective) <= 1 => Len(effective) = 1 \/ Len(effective) = 0
      <4>1. \A k \in Nat : k <= 1 => k = 1 \/ k = 0
        OBVIOUS
      <4> QED
        BY <1>2, <4>1, Zenon
    <3> QED
      BY <3>1, <3>2
  <2> QED
    BY <2>1, <2>2, <2>3, <2>4
<1>7. Len(view) <= MaxRefs /\ Len(effective) <= MaxRefs
  BY <1>2, <1>4, <1>6
<1> QED
  BY <1>5, <1>7

\* The types of the window's state; in particular no list of tags counts more refs than
\* there are, so no view and no selection holds a ref twice.
THEOREM WindowTypes == Spec => []TypeOK
<1>1. WindowInv => TypeOK
  <2> SUFFICES ASSUME WindowInv PROVE TypeOK
    OBVIOUS
  <2>1. RefsOK /\ UndoTypeOK /\ steps \in 0..MaxSteps
    BY DEF WindowInv, UndoInv
  <2>2. /\ refs \in Seq(SUBSET Labels) /\ Len(refs) <= MaxRefs /\ all = DOMAIN refs
        /\ view \in Seq(all) /\ effective \in Seq(all)
        /\ TagsOK(refs, effective, selectionTags, view, viewTags, allTags)
    BY WindowFacts
  <2>3. Len(view) <= MaxRefs /\ Len(effective) <= MaxRefs /\ selectionModel \in Seq(all)
    BY ListBounds
  <2>4. selectionTags \in TagCounts
    BY <2>2, <2>3, TagCountTyped DEF TagsOK
  <2>5. ASSUME NEW T, NEW v \in Seq(T), Len(v) <= MaxRefs, NEW c, CountsPrefix(refs, v, c)
        PROVE  c \in TagCounts
    <3>1. PICK n \in 0..Len(v) : c = TagCount(refs, SubSeq(v, 1, n))
      BY <2>5 DEF CountsPrefix
    <3>2. SubSeq(v, 1, n) \in Seq(T) /\ Len(SubSeq(v, 1, n)) <= MaxRefs
      <4>1. SubSeq(v, 1, n) \in Seq(T) /\ Len(SubSeq(v, 1, n)) = n
        BY Prefix
      <4>2. n <= MaxRefs
        BY <2>5, ImageRefsAssumption
      <4> QED
        BY <4>1, <4>2
    <3> QED
      BY <3>1, <3>2, TagCountTyped
  <2>6. viewTags \in TagCounts
    BY <2>2, <2>3, <2>5 DEF TagsOK
  <2>7. allTags \in TagCounts
    <3>1. All(refs) \in Seq(DOMAIN refs) /\ Len(All(refs)) <= MaxRefs
      BY <2>2, AllSeq
    <3> QED
      BY <2>2, <2>5, <3>1 DEF TagsOK
  <2>8. SelectionTypeOK
    BY <2>2, <2>3, <2>4, <2>6 DEF SelectionTypeOK, WindowInv, SelectionInv, SelectionOK
  <2> QED
    BY <2>1, <2>7, <2>8 DEF TypeOK
<1> QED
  BY WindowAlways, <1>1, PTL
================================================================================
