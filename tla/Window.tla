--------------------------------- MODULE Window ---------------------------------
(***************************************************************************)
(* The window: the user searches, selects, tags, marks and undoes while    *)
(* downloads put new images into the view.  Edits act on the effective     *)
(* selection, searches find refs by the tags that the edits have given     *)
(* them, and the history is undone whatever the view shows by then.        *)
(***************************************************************************)
EXTENDS UndoHistory, Selection

CONSTANT MaxSteps   \* bound on the steps of a behaviour
ASSUME WindowAssumption == MaxSteps \in Nat

VARIABLES
  allTags,   \* allTagModelList, as a count of tags
  steps
vars == <<refs, undoVars, selectionVars, allTags, steps>>

All(r) == [i \in DOMAIN r |-> i]

\* Nothing says whether the list of all tags or the list of all refs is completed first.
Init == /\ refs \in UNION {[1..n -> SUBSET Labels] : n \in 0..MaxRefs}
        /\ UndoInit /\ SelectionInit /\ steps = 0
        /\ allTags \in {<<>>, TagCount(refs, All(refs))}
--------------------------------------------------------------------------------
Step == steps < MaxSteps /\ steps' = steps + 1

rebuildAllTagModel == allTags' = TagCount(refs', All(refs'))

\* Adding and removing a tag count the tags again, marking does not.
EditTags == /\ UNCHANGED <<view, selected, currentIndex, selectionModel, effective, watching>>
            /\ rebuildTagModels /\ rebuildAllTagModel
EditMarks == UNCHANGED <<selectionVars, allTags>>

\* A tag is typed, or clicked in the list of the view; one listed for the selection is
\* clicked.  Delete marks and Insert unmarks.
acted == ToSet(effective)
EditSelection ==
  /\ Step
  /\ \/ \E t \in Tags : actionAddTag(acted, t) /\ EditTags
     \/ \E t \in DOMAIN selectionTags : actionRemoveTag(acted, t) /\ EditTags
     \/ (actionDelete(acted) \/ actionUndelete(acted)) /\ EditMarks

UndoEdit == /\ Step
            /\ Undo \/ UndoRedo
            /\ IF Top.label \in Tags THEN EditTags ELSE EditMarks

ImageReady == /\ Step
              /\ \E tags \in SUBSET Tags : Import(tags)
              /\ ShowNew
              /\ UNCHANGED allTags

\* Tags to search for are typed, or checked in the list of all tags.
ChangeView == /\ Step
              /\ UNCHANGED <<refs, undoVars, allTags>>
              /\ \/ \E tags \in SUBSET Tags : Search(tags)
                 \/ \E S \in SUBSET all : \E v \in SetToSeqs(S) : FindDuplicates(v)

ChangeSelection ==
  /\ Step
  /\ UNCHANGED <<refs, undoVars, allTags>>
  /\ \/ SelectAll \/ Deselect \/ Invert \/ Space
     \/ \E i \in DOMAIN view : Click(i) \/ ShiftClick(i) \/ CtrlShiftClick(i) \/ CtrlClick(i)
     \/ \E tags \in SUBSET Tags : EditComplete(tags)

Next == EditSelection \/ UndoEdit \/ ImageReady \/ ChangeView \/ ChangeSelection

Spec == Init /\ [][Next]_vars
--------------------------------------------------------------------------------
TypeOK == /\ RefsOK /\ UndoTypeOK /\ SelectionTypeOK
          /\ allTags \in TagCounts /\ steps \in 0..MaxSteps

\* Ctrl+Z pressed twice, the first time to an effect, leaves the refs as they were,
\* whatever was searched for and selected in between.
ToggleTwice ==
  [][UndoRedo /\ toggled # <<>> /\ toggled # <<refs>> => <<refs'>> = toggled]_vars

\* Nothing is selected or deselected out of sight: refs that a search has hidden come
\* back as they were.
HiddenKept == [][\A r \in all : r \in ToSet(view') \/ (r \in selected' <=> r \in selected)]_vars

\* The tags listed for the selection are those of the images that a click removes a tag
\* from, with the right counts, whatever was edited, undone, searched for or imported.
\* The other two lists may lag, but by nothing except the images imported last
\* (rebuildTagModels, rebuildAllTagModel, onImageReady).
TagListsTrue ==
  /\ selectionTags = TagCount(refs, effective)
  /\ \E n \in 0..Len(view) : viewTags = TagCount(refs, SubSeq(view, 1, n))
  /\ \E n \in 0..Len(refs) : allTags = TagCount(refs, SubSeq(All(refs), 1, n))
==================================================================================
