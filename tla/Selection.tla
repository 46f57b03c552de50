-------------------------------- MODULE Selection --------------------------------
(***************************************************************************)
(* The selection in main.qml: the refs the view shows, the ones selected   *)
(* in it, and effectiveSelectionModel, the refs that tagging, marking and  *)
(* rendering act on: the selection, or the current item if there is none.  *)
(*                                                                         *)
(* effectiveSelectionModel is a QML binding.  It is evaluated again when a *)
(* property that its last evaluation read is assigned; pushing a ref onto  *)
(* viewModelSimpleList does not assign it.  Its handler counts the tags of *)
(* the selection and of the view for the two lists of tags in the footer.  *)
(***************************************************************************)
EXTENDS ImageRefs, SequencesExt

VARIABLES
  view,          \* viewModelSimpleList; refs go by their number
  selected,      \* the refs that are selected
  currentIndex,  \* of the GridView: the place of the current item in view, 0 for none
  selectionModel,
  effective,     \* the value of effectiveSelectionModel
  watching,      \* whether its last evaluation read currentIndex
  selectionTags, \* selectionTagModelList, as a count of tags
  viewTags       \* viewTagModelList
bindingVars == <<effective, watching, selectionTags, viewTags>>
selectionVars == <<view, selected, currentIndex, selectionModel, bindingVars>>

\* The refs of a list that are in S, in the order of the list.
Selected(v, S) ==
  LET chosen[n \in 0..Len(v)] == IF n = 0 THEN <<>>
                                 ELSE IF v[n] \in S THEN Append(chosen[n - 1], v[n])
                                 ELSE chosen[n - 1]
  IN  chosen[Len(v)]

\* The expression of the binding.
Effective(selection, v, current) ==
  IF selection # <<>> THEN selection
  ELSE IF v # <<>> /\ current # 0 THEN <<v[current]>> ELSE <<>>

all == DOMAIN refs

SelectionInit ==
  /\ view = [i \in all |-> i] /\ selected = {}
  /\ currentIndex = (IF view = <<>> THEN 0 ELSE 1)
  /\ selectionModel = <<>> /\ effective = Effective(<<>>, view, currentIndex)
  /\ watching = (view # <<>>)
  /\ selectionTags = TagCount(refs, effective) /\ viewTags = TagCount(refs, view)
--------------------------------------------------------------------------------
\* rebuildTagModels that counts the tags of what is selected, and not of the item that
\* is acted on when nothing is.
rebuildTagModelsSelected == /\ selectionTags' = TagCount(refs', selectionModel')
                            /\ viewTags' = TagCount(refs', view')

rebuildTagModels == /\ selectionTags' = TagCount(refs', effective')
                    /\ viewTags' = TagCount(refs', view')

Evaluate == /\ effective' = Effective(selectionModel', view', currentIndex')
            /\ watching' = (selectionModel' = <<>> /\ view' # <<>>)
            /\ rebuildTagModels

\* rebuildSelectionModel assigns selectionModel, so the binding is evaluated.
Rebuild == selectionModel' = Selected(view', selected') /\ Evaluate

\* setViewList that keeps the selection made in the old view.
setViewListOnly(v) == /\ view' = v /\ currentIndex' = (IF v = <<>> THEN 0 ELSE 1)
                      /\ UNCHANGED <<selected, selectionModel>>
                      /\ Evaluate

\* setViewList: the new view makes its first item the current one.
setViewList(v) == /\ view' = v /\ currentIndex' = (IF v = <<>> THEN 0 ELSE 1)
                  /\ UNCHANGED selected
                  /\ Rebuild

\* The refs of a list that have all the tags.
Found(list, tags) == Selected(list, {r \in all : tags \subseteq refs[r]})

\* A search shows the refs among all that have all the tags; "Find duplicates" some of
\* them, in any order.
Search(tags) == setViewList(Found([i \in all |-> i], tags))
FindDuplicates(v) == setViewList(v)

\* The current item changes: the binding is evaluated if it watches it.
Follow == IF watching /\ currentIndex' # currentIndex THEN Evaluate
          ELSE UNCHANGED bindingVars

\* onImageReady: whatever is searched for, the new ref is put at the end of the view.
\* A GridView without a current item may make it the current one.
ShowNew == /\ view' = Append(view, Len(refs) + 1)
           /\ currentIndex' \in IF currentIndex = 0 THEN {0, 1} ELSE {currentIndex}
           /\ UNCHANGED <<selected, selectionModel>>
           /\ Follow

\* A step that selects the refs S and makes item i the current one.
Select(S, i) == /\ selected' = S /\ currentIndex' = i
                /\ UNCHANGED view
                /\ Rebuild

Shown == ToSet(view)
Between(i, k) == {view[n] : n \in (i..k) \cup (k..i)}
Toggled(S, r) == IF r \in S THEN S \ {r} ELSE S \cup {r}

\* Ctrl+A, Ctrl+D and Ctrl+I.
SelectAll == Select(selected \cup Shown, currentIndex)
DeselectEverything == Select({}, currentIndex)
Deselect == Select(selected \ Shown, currentIndex)
Invert == Select((selected \ Shown) \cup (Shown \ selected), currentIndex)

\* Space: toggle the current item.
Space == currentIndex # 0 /\ Select(Toggled(selected, view[currentIndex]), currentIndex)

\* A click makes the item the current one.
Click(i) == /\ currentIndex' = i
            /\ UNCHANGED <<view, selected, selectionModel>>
            /\ Follow

\* Shift+click selects and Ctrl+Shift+click deselects from the current item to this one.
ShiftClick(i) == currentIndex # 0 /\ Select(selected \cup Between(currentIndex, i), i)
CtrlShiftClick(i) == currentIndex # 0 /\ Select(selected \ Between(currentIndex, i), i)

\* Ctrl+click toggles the item; if nothing was selected, the current item is, first.
CtrlClick(i) ==
  LET S == IF selectionModel = <<>> THEN selected \cup {view[currentIndex]} ELSE selected
  IN  /\ currentIndex # 0 \/ selectionModel # <<>>
      /\ Select(Toggled(S, view[i]), i)

\* The "Select" popup: of the tags that are listed for the view some are checked; select
\* just the refs shown that have all of them, if any has.
EditComplete(tags) ==
  LET found == ToSet(Found(view, tags))
  IN  /\ tags \subseteq DOMAIN viewTags /\ found # {}
      /\ Select((selected \ Shown) \cup found, currentIndex)
--------------------------------------------------------------------------------
SelectionTypeOK ==
  /\ view \in Seq(all) /\ selected \subseteq all
  /\ currentIndex \in 0..Len(view)
  /\ selectionModel \in Seq(all) /\ effective \in Seq(all)
  /\ watching \in BOOLEAN
  /\ selectionTags \in TagCounts /\ viewTags \in TagCounts

\* What tagging, marking and rendering act on can be seen, whatever is selected
\* elsewhere: it is what the view shows as selected, in the order of the view, or one
\* item at most if nothing is.
ActsOnShown ==
  LET shownSelected == Selected(view, selected)
  IN  /\ ToSet(effective) \subseteq Shown
      /\ IF shownSelected # <<>> THEN effective = shownSelected ELSE Len(effective) <= 1

\* With nothing selected it is the focused image that is tagged ("A: Add (new) tag to
\* selection", Settings.qml 209, of the image that "Click: Focus image" has focused).
ActsOnFocused ==
  selectionModel = <<>> /\ currentIndex # 0 => effective = <<view[currentIndex]>>
==================================================================================
