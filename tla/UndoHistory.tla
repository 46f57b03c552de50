------------------------------- MODULE UndoHistory -------------------------------
(***************************************************************************)
(* The undo history of main.qml: a stack of closures, each the inverse of  *)
(* an edit of the ImageRefs.  Adding and removing a tag and marking and    *)
(* unmarking for removal are four functions of one shape, so a ref is the  *)
(* set of its labels, its tags and the mark.                               *)
(***************************************************************************)
EXTENDS ImageRefs

VARIABLES
  history,   \* actionHistory: the edits that take back what was done
  past,      \* what refs was before each action in the history
  toggled,   \* <<refs before it>> if the last edit was by Ctrl+Z, <<>> otherwise
  mixed      \* whether Ctrl+Z was ever pressed; these three are not in the code
undoVars == <<history, past, toggled, mixed>>

Edits == [op : {"add", "remove"}, on : (SUBSET DOMAIN refs) \ {{}}, label : Labels]

UndoInit == history = <<>> /\ past = <<>> /\ toggled = <<>> /\ mixed = FALSE
--------------------------------------------------------------------------------
\* The refs that an edit of the labels in r changes, and what it makes of r.
Changed(e, r) == {i \in e.on : e.op = "add" <=> e.label \notin r[i]}
Apply(e, r) ==
  [i \in DOMAIN r |-> IF i \notin e.on THEN r[i]
                      ELSE IF e.op = "add" THEN r[i] \cup {e.label}
                      ELSE r[i] \ {e.label}]

\* The inverse of an edit, for the refs that it has changed.
InverseOf(e, on) == [op |-> IF e.op = "add" THEN "remove" ELSE "add",
                   on |-> on, label |-> e.label]

\* Perform e with h the history; push its inverse.
ActRecordingSelection(e, h, p) ==
  /\ refs' = Apply(e, refs)
  /\ IF Changed(e, refs) = {} THEN history' = h /\ past' = p
     ELSE history' = Append(h, InverseOf(e, e.on)) /\ past' = Append(p, refs)

ActRecordingAll(e, h, p) ==
  /\ refs' = Apply(e, refs)
  /\ history' = Append(h, InverseOf(e, Changed(e, refs))) /\ past' = Append(p, refs)

\* The functions action* with record on: perform the edit e, and push its inverse
\* on the history h if it changed anything.
Act(e, h, p) ==
  /\ refs' = Apply(e, refs)
  /\ IF Changed(e, refs) = {} THEN history' = h /\ past' = p
     ELSE history' = Append(h, InverseOf(e, Changed(e, refs))) /\ past' = Append(p, refs)

Edit(op, S, label) == /\ Act([op |-> op, on |-> S, label |-> label], history, past)
                      /\ toggled' = <<>> /\ UNCHANGED mixed

actionAddTag(S, t)    == Edit("add", S, t)
actionRemoveTag(S, t) == Edit("remove", S, t)
actionDelete(S)       == Edit("add", S, Mark)
actionUndelete(S)     == Edit("remove", S, Mark)

Top    == history[Len(history)]
Pop(s) == SubSeq(s, 1, Len(s) - 1)

\* Ctrl+Shift+Z: pop an edit and perform it without recording it.
Undo == /\ history # <<>>
        /\ refs' = Apply(Top, refs)
        /\ history' = Pop(history) /\ past' = Pop(past)
        /\ toggled' = <<>> /\ UNCHANGED mixed

\* Ctrl+Z that forgets to record.
UndoRedoUnrecorded == /\ history # <<>>
                      /\ refs' = Apply(Top, refs)
                      /\ history' = Pop(history) /\ past' = Pop(past)
                      /\ toggled' = <<refs>> /\ mixed' = TRUE

\* Ctrl+Z: pop an edit and perform it as an action of its own.
UndoRedo == /\ history # <<>>
            /\ Act(Top, Pop(history), Pop(past))
            /\ toggled' = <<refs>> /\ mixed' = TRUE

\* onImageReady: a new ref, with tags that are not in the history.
Import(labels) == /\ Len(refs) < MaxRefs
                  /\ refs' = Append(refs, labels)
                  /\ past' = [i \in DOMAIN past |-> Append(past[i], labels)]
                  /\ toggled' = <<>>
                  /\ UNCHANGED <<history, mixed>>
--------------------------------------------------------------------------------
UndoTypeOK == /\ history \in Seq(Edits)
              /\ past \in Seq(Seq(SUBSET Labels)) /\ Len(past) = Len(history)
              /\ \A i \in DOMAIN past : Len(past[i]) = Len(refs)
              /\ toggled \in Seq(Seq(SUBSET Labels)) /\ Len(toggled) <= 1
              /\ mixed \in BOOLEAN

\* As long as only Ctrl+Shift+Z is used, pressing it again and again takes back the
\* actions one after the other: each entry of the history turns what the next older
\* action left into what there was before it, whatever the edits had in common,
\* whatever was searched and selected, and whatever was imported since (the refs an
\* entry is bound to are those that ImageDao's methods returned).
After(i) == IF i = Len(history) THEN refs ELSE past[i + 1]
UndoRestores == ~mixed => \A i \in DOMAIN history : Apply(history[i], After(i)) = past[i]

\* No undo is idle: the entry on top of the history changes all the refs it names.
UndoChanges == history # <<>> => Changed(Top, refs) = Top.on
==================================================================================
