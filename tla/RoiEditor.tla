------------------------------- MODULE RoiEditor -------------------------------
(***************************************************************************)
(* The editor of the IVA setup: IvaSettingsPage (src/src/pages/            *)
(* ivasettingspage.cpp) with its table of areas, the fields of the         *)
(* selected one, the draft drawn on its canvas, the parking slot that is   *)
(* mapped to it, and a save that writes the areas to the camera and then   *)
(* the crop region of the slot to the Pi (ParkingController).  IvaSetup    *)
(* has the dialogs and the requests of the camera's client; here a request *)
(* is a job that succeeds or fails.  Everything starts after the first     *)
(* load.  While a request runs the operator can still select rows and type *)
(* into the fields, which are never disabled.                              *)
(*                                                                         *)
(* Left out: detection modes, filters, durations and the switch of the     *)
(* channel, which are edited like a name; channels without a capability;   *)
(* and a change of the camera.                                             *)
(***************************************************************************)
EXTENDS VideoCanvas, SequencesExt, FiniteSetsExt

CONSTANTS
    NChannels,       \* channels 1 .. NChannels
    Indices,         \* the indices that a channel allows for its areas
    Mappings,        \* sequence of [slot, channel, index]: the parking map
    LargeInPreview,  \* the rectangles of 8 by 8 pixels or more of the preview
    FirstCamera,     \* what the camera has at first, channel by channel
    MaxEdits         \* bound on what the operator edits

Channels == 1..NChannels
Slots == {Mappings[k].slot : k \in DOMAIN Mappings}
OtherName == 0       \* a name that is not "name<index>"
Names == Indices \cup {OtherName}
Area == [channel : Channels, index : Indices, name : Names, rect : Rects]

\* The parking map has zones, and each slot once: so is a map that the program
\* has saved (validateLayout), and the one that it begins with (loadLayout).
ASSUME EditorAssumption ==
    /\ NChannels \in Nat \ {0}
    /\ Mappings \in Seq([slot : Slots, channel : Channels, index : Indices])
    /\ Mappings # << >>
    /\ \A j, k \in DOMAIN Mappings : Mappings[j].slot = Mappings[k].slot => j = k
    /\ FirstCamera \in [Channels -> Seq(Area)]
    /\ None \notin Indices /\ None \notin Slots

VARIABLES
    camera,    \* channel -> sequence of the areas the camera has
    job,       \* the request of the camera's client that runs
    roi,       \* the request of the controller that runs: "none", "put", "verify"
    page,      \* the page, a record of
               \*   canvas     the canvas, of m_selectedChannel
               \*   config     m_configuration
               \*   saved      m_savedConfiguration
               \*   row        m_selectedArea, 0 for none
               \*   fields     the index, name and rectangle in the editor
               \*   channel    m_selectedChannel
               \*   slot       m_piSlotCombo, None for no mapping
               \*   draft      m_draftChannel, m_draftAreaIndex and what it replaces
               \*   dirty      m_cameraDirty
               \*   piDirty    m_piDirty
               \*   inFlight   m_requestInFlight
               \*   stage      m_saveStage
               \*   pi         the slot and the region of piRoiSaveRequested
               \*              while m_piRoiRequestInFlight
               \*   then       m_continueWithPiAfterCamera
               \*   combined   m_cameraSavedBeforePi
               \*   deleting   m_pendingDeletedAreaIndex is set
               \*   preview    m_currentPreviewFrameSize is valid
               \*   leaving    m_pendingLeaveAfterSave
               \*   away       another page is current
    edits      \* how much the operator has edited

roiVars == <<camera, job, roi, page, edits>>

NoJob == [what |-> "none", channel |-> 1, areas |-> << >>]
NoFields == [index |-> None, name |-> None, rect |-> None]

\* The areas of the camera, channel by channel.
All(cam) ==
    LET upTo[c \in 0..NChannels] == IF c = 0 THEN << >> ELSE upTo[c - 1] \o cam[c]
    IN  upTo[NChannels]

\* The rows of a configuration that are in the set rows, in their order.
Only(config, rows) ==
    LET upTo[k \in 0..Len(config)] ==
            IF k = 0 THEN << >>
            ELSE IF k \in rows THEN Append(upTo[k - 1], config[k]) ELSE upTo[k - 1]
    IN  upTo[Len(config)]

RowsOf(config, c) == {k \in DOMAIN config : config[k].channel = c}
OnChannel(config, c) == Only(config, RowsOf(config, c))

----------------------------------------------------------------------------
(* The mapping of slots to areas.                                          *)

Mapping(s) == CHOOSE m \in ToSet(Mappings) : m.slot = s

\* mappedParkingAreaIndex.
MappedIndex(s) == IF s = None THEN None ELSE Mapping(s).index

\* selectParkingZoneForArea: the slot of that area or, without an area, the
\* first slot of the channel.
SlotFor(c, i) ==
    LET fits == {k \in DOMAIN Mappings :
                    Mappings[k].channel = c /\ (i = None \/ Mappings[k].index = i)}
    IN IF fits = {} THEN None ELSE Mappings[Min(fits)].slot

\* editorMatchesParkingArea.
Matches(p) ==
    /\ p.row \in DOMAIN p.config /\ p.slot # None
    /\ p.config[p.row].channel = p.channel
    /\ p.fields.index = MappedIndex(p.slot) /\ p.fields.name = MappedIndex(p.slot)

----------------------------------------------------------------------------
(* The parts of the page that follow each other, as functions of it.       *)

AnyRequest(p) == p.inFlight \/ p.pi # None \/ p.stage # "idle"

\* updateButtons.
UpdateButtons(p) ==
    LET usable == ~AnyRequest(p) /\ p.canvas.frame
        selected == p.row \in DOMAIN p.config /\ p.config[p.row].channel = p.channel
    IN [p EXCEPT !.canvas = SetEditMode(SetDrawMode(@, usable /\ p.draft = None),
                                        usable /\ selected)]

\* setSelectedAreaIndex, with the rectangle of that area on the canvas.
ShowSelected(p, i) ==
    LET drawn == {k \in RowsOf(p.config, p.channel) : p.config[k].index = i}
    IN [p EXCEPT !.canvas = SetSelected(@, i, IF drawn = {} THEN None
                                              ELSE p.config[Min(drawn)].rect)]

\* updateVideoOverlays.
UpdateOverlays(p) ==
    LET q == [p EXCEPT !.canvas = SetAreas(@)]
    IN IF p.row \in RowsOf(p.config, p.channel) THEN ShowSelected(q, p.config[p.row].index)
       ELSE q

\* selectChannel.
SelectChannel(p, c) ==
    UpdateButtons(UpdateOverlays(
        [p EXCEPT !.channel = c, !.preview = FALSE, !.canvas = SetChannel(@),
                  !.slot = SlotFor(c, MappedIndex(p.slot))]))

\* clearEditor.
ClearEditor(p) == UpdateButtons([p EXCEPT !.row = 0, !.fields = NoFields])

\* populateEditor.
PopulateEditor(p, row) ==
    IF row \notin DOMAIN p.config THEN ClearEditor(p)
    ELSE LET a == p.config[row]
             q == [p EXCEPT !.row = row]
             r == ShowSelected(IF a.channel = p.channel THEN q ELSE SelectChannel(q, a.channel),
                               a.index)
         IN UpdateButtons([r EXCEPT !.slot = SlotFor(a.channel, a.index),
                                    !.fields = [index |-> a.index, name |-> a.name,
                                                rect |-> a.rect]])

\* Mistake: an editor that shows the area of the slot already is not filled again.
SelectMappedUnlessShown(p) ==
    IF p.draft # None \/ Matches(p) THEN p
    ELSE LET fits == {k \in RowsOf(p.config, p.channel) :
                         MappedIndex(p.slot) \in {p.config[k].name, p.config[k].index}}
         IN IF fits # {} THEN PopulateEditor(p, Min(fits))
            ELSE UpdateButtons(ShowSelected(ClearEditor(p), None))

\* selectMappedParkingArea: by its name, or else by its index.
SelectMapped(p) ==
    IF p.draft # None THEN p
    ELSE LET here == RowsOf(p.config, p.channel)
             named == {k \in here : p.slot # None /\ p.config[k].name = MappedIndex(p.slot)}
             indexed == {k \in here : p.config[k].index = MappedIndex(p.slot)}
         IN IF named # {} THEN PopulateEditor(p, Min(named))
            ELSE IF indexed # {} THEN PopulateEditor(p, Max(indexed))
            ELSE UpdateButtons(ShowSelected(ClearEditor(p), None))

\* populateAreaTable.  When the current row goes, the table makes its last row
\* the current one, which fills the editor.
ShowTable(p) ==
    IF p.row > Len(p.config) THEN PopulateEditor(p, Len(p.config)) ELSE p

Load(p, config) ==
    ShowTable([p EXCEPT !.config = config, !.saved = config, !.draft = None])

\* setEditorDirtyFeedback.
MarkDirty(p, geometry) ==
    IF p.inFlight \/ p.row \notin DOMAIN p.config THEN p
    ELSE [p EXCEPT !.dirty = TRUE, !.piDirty = @ \/ (geometry /\ Matches(p))]

\* collectEditedArea, which keeps the channel of the row.
Edited(p) == [channel |-> p.config[p.row].channel, index |-> p.fields.index,
              name |-> p.fields.name, rect |-> p.fields.rect]

----------------------------------------------------------------------------
(* What the page hears.                                                    *)

\* finishPendingSave; the window then shows the page that was asked for.
FinishSave(p, success) ==
    [p EXCEPT !.leaving = FALSE, !.away = @ \/ (p.leaving /\ success)]

\* setOptions and setCapabilities, which fill the editor and the canvas again.
SetOptions(p) == IF p.row # 0 THEN PopulateEditor(p, p.row) ELSE p
SetCapabilities(p) == SelectChannel(p, p.channel)

\* setConfiguration.
SetConfiguration(p, config) ==
    LET continuing == p.stage = "camera" /\ p.then
    IN UpdateButtons([UpdateOverlays(SelectMapped(Load(p, config)))
                          EXCEPT !.inFlight = FALSE, !.dirty = FALSE,
                                 !.piDirty = continuing /\ p.piDirty])

\* requestPiRoiSave, which has done nothing but end the save if it refuses.
Savable(p) == p.pi = None /\ Matches(p) /\ p.preview /\ p.fields.rect \in LargeInPreview
RequestPi(p) ==
    UpdateButtons(IF Savable(p) THEN 
                      [p EXCEPT !.pi = [slot |-> p.slot, rect |-> p.fields.rect], !.stage = "pi"]
                  ELSE [p EXCEPT !.stage = "idle"])

\* setApplySuccess.
ApplySuccess(p, config) ==
    LET continues == ~p.deleting /\ p.then
        q == [UpdateOverlays(SelectMapped(Load([p EXCEPT !.inFlight = FALSE, !.dirty = FALSE],
                                               config))) EXCEPT !.deleting = FALSE]
        sent == IF continues THEN RequestPi([q EXCEPT !.then = FALSE, !.combined = TRUE]) ELSE q
    IN IF continues /\ sent.pi # None THEN sent
       ELSE UpdateButtons(FinishSave([sent EXCEPT !.stage = "idle"], TRUE))

\* setApplyError.
ApplyError(p) ==
    UpdateButtons(FinishSave(
        [p EXCEPT !.inFlight = FALSE, !.stage = "idle", !.then = FALSE, !.combined = FALSE,
                  !.deleting = FALSE], FALSE))

\* setPiRoiResult and setPiRoiError.
PiResult(p) ==
    UpdateButtons(FinishSave(
        [p EXCEPT !.pi = None, !.piDirty = FALSE, !.stage = "idle", !.combined = FALSE], TRUE))
\* Mistake: an error of the Pi leaves the save at its stage.
PiErrorButSaving(p) ==
    UpdateButtons(FinishSave([p EXCEPT !.pi = None, !.combined = FALSE], FALSE))
PiError(p) ==
    UpdateButtons(FinishSave(
        [p EXCEPT !.pi = None, !.stage = "idle", !.combined = FALSE], FALSE))

----------------------------------------------------------------------------
(* The camera's requests.                                                  *)

\* buildChannelPayload: a channel has each of its indices once.
Buildable(areas) == \A i, k \in DOMAIN areas : areas[i].index = areas[k].index => i = k

\* payloadMatchesChannel: the same areas, in any order.
MatchesCamera(areas, read) ==
    Len(areas) = Len(read) /\ \A i \in DOMAIN areas : \E k \in DOMAIN read : read[k] = areas[i]

\* applyChannelConfiguration and setApplyStarted, or what they refuse at once.
StartApply(p, what, c, areas) ==
    IF ~Buildable(areas) \/ areas = OnChannel(p.saved, c)
    THEN [page |-> ApplyError(p), job |-> NoJob]
    ELSE [page |-> UpdateButtons([p EXCEPT !.inFlight = TRUE, !.stage = "camera"]),
          job |-> [what |-> what, channel |-> c, areas |-> areas]]

\* What the controller begins once the page is p.
RoiFor(p) == IF page.pi = None /\ p.pi # None THEN "put" ELSE roi

Written == [camera EXCEPT ![job.channel] = job.areas]

\* The camera's answer was verified: the page hears the configuration, then the
\* end of the save.  A camera that does not keep what was written is put back.
JobSettles ==
    /\ job.what # "none"
    /\ IF job.what = "read"
       THEN /\ page' = SetConfiguration(SetCapabilities(SetOptions(page)), All(camera))
            /\ UNCHANGED camera
       ELSE \E after \in {camera, Written} :
               /\ camera' = after
               /\ page' = IF MatchesCamera(job.areas, after[job.channel])
                          THEN ApplySuccess(SetConfiguration(page, All(after)), All(after))
                          ELSE ApplyError(SetConfiguration(page, All(camera)))
    /\ job' = NoJob /\ roi' = RoiFor(page') /\ UNCHANGED edits

\* Any of its requests fails; what was written may stay.
JobFails ==
    /\ job.what # "none"
    /\ camera' \in IF job.what = "read" THEN {camera} ELSE {camera, Written}
    /\ IF job.what = "read"
       THEN \E p \in {page, SetOptions(page), SetCapabilities(SetOptions(page))} :
               page' = UpdateButtons([p EXCEPT !.inFlight = FALSE])
       ELSE page' = ApplyError(page)
    /\ job' = NoJob /\ UNCHANGED <<roi, edits>>

----------------------------------------------------------------------------
(* The Pi's requests: updateParkingRoi, which puts the region, reads it    *)
(* again and compares.                                                     *)

PutAnswered ==
    /\ roi = "put" /\ roi' = "verify"
    /\ UNCHANGED <<camera, job, page, edits>>

VerifyAnswered ==
    /\ roi = "verify" /\ roi' = "none"
    /\ \E same \in BOOLEAN : page' = IF same THEN PiResult(page) ELSE PiError(page)
    /\ UNCHANGED <<camera, job, edits>>

\* An error, a broken or refused answer, a time-out or a new connection.
RoiFails ==
    /\ roi # "none" /\ roi' = "none"
    /\ page' = PiError(page)
    /\ UNCHANGED <<camera, job, edits>>

----------------------------------------------------------------------------
(* What the operator edits.                                                *)

OnPage == ~page.away
Becomes(p) == page' = p /\ UNCHANGED <<camera, job, roi, edits>>
Edits(p) ==
    /\ edits < MaxEdits
    /\ edits' = edits + 1 /\ page' = p
    /\ UNCHANGED <<camera, job, roi>>

\* A row of the table, or its area in the picture (areaSelected).
SelectRow ==
    /\ OnPage
    /\ \E row \in DOMAIN page.config : row # page.row /\ Becomes(PopulateEditor(page, row))

ClickChannel ==
    /\ OnPage
    /\ \E c \in Channels : Becomes(SelectMapped(SelectChannel(page, c)))

\* The slot's box, and setParkingSelection from the parking map.
SelectSlot(p, s) ==
    LET c == Mapping(s).channel
        q == [p EXCEPT !.slot = s]
    IN UpdateButtons(SelectMapped(IF c = p.channel THEN q ELSE SelectChannel(q, c)))
ChooseSlot ==
    /\ OnPage /\ ~AnyRequest(page) /\ page.draft = None
    /\ \E s \in Slots \ {page.slot} : Becomes(SelectSlot(page, s))

TypeIndex ==
    /\ OnPage /\ page.row # 0
    /\ \E i \in Indices \ {page.fields.index} :
          Edits(UpdateButtons(MarkDirty([page EXCEPT !.fields.index = i], FALSE)))
TypeName ==
    /\ OnPage /\ page.row # 0
    /\ \E n \in Names \ {page.fields.name} :
          Edits(UpdateButtons(MarkDirty([page EXCEPT !.fields.name = n], FALSE)))
TypeCoordinates ==
    /\ OnPage /\ page.row # 0
    /\ \E r \in Rects \ {page.fields.rect} :
          Edits(MarkDirty([page EXCEPT !.fields.rect = r], TRUE))

\* createRectangleDraft: a new area for the slot, which has none.
Taken(p) == {k \in RowsOf(p.config, p.channel) :
                p.config[k].name = MappedIndex(p.slot) \/ p.config[k].index = MappedIndex(p.slot)}
CreateDraft(p, r) ==
    IF p.draft # None \/ p.slot = None THEN p
    ELSE IF Taken(p) # {} THEN UpdateButtons(p)
    ELSE LET i == MappedIndex(p.slot)
             a == [channel |-> p.channel, index |-> i, name |-> i, rect |-> r]
             q == [p EXCEPT !.config = Append(@, a),
                            !.draft = [channel |-> p.channel, index |-> i, replaces |-> None]]
         IN UpdateButtons(MarkDirty(UpdateOverlays(
                PopulateEditor(ShowTable(q), Len(q.config))), TRUE))

\* updateRectangleDraft: the fields of the row and the new rectangle.
UpdateDraft(p, r) ==
    IF p.row = 0 THEN CreateDraft(p, r)
    ELSE LET a == Edited(p)
             q == [p EXCEPT !.config[p.row] = [a EXCEPT !.rect = r],
                            !.draft = IF @ # None THEN @
                                      ELSE [channel |-> a.channel, index |-> a.index,
                                            replaces |-> p.config[p.row]]]
         IN UpdateButtons(MarkDirty(UpdateOverlays(PopulateEditor(ShowTable(q), p.row)), TRUE))

\* updateRectangleDraft when collectEditedArea refuses what the fields hold, a
\* text that Names and Rects leave out: the canvas shows the area as it was.  A
\* save with such fields has not begun at all.
Redrawn(p) == UpdateOverlays(p)

\* discardRectangleDraft: the last area with the draft's channel and index.
Discard(p) ==
    LET d == p.draft
        drafted == {k \in RowsOf(p.config, d.channel) : p.config[k].index = d.index}
        config == IF drafted = {} THEN p.config
                  ELSE IF d.replaces = None THEN RemoveAt(p.config, Max(drafted))
                  ELSE ReplaceAt(p.config, Max(drafted), d.replaces)
    IN UpdateButtons(SelectMapped(SelectChannel(ClearEditor(ShowTable(
           [p EXCEPT !.config = config, !.draft = None, !.dirty = FALSE, !.piDirty = FALSE])),
           d.channel)))
DiscardDraft ==
    /\ OnPage /\ ~AnyRequest(page) /\ page.draft # None
    /\ Becomes(Discard(page))

----------------------------------------------------------------------------
(* The mouse on the canvas.                                                *)

OnCanvas(c) == Becomes([page EXCEPT !.canvas = c])
Still == page.canvas.drag = NoDrag

GrabArea ==
    /\ OnPage /\ Still /\ page.canvas.edit /\ page.canvas.rect # None
    /\ \E mode \in {"move", "corner"} : OnCanvas(Press(page.canvas, mode))

BeginRectangle ==
    /\ OnPage /\ Still /\ page.canvas.draw /\ page.canvas.frame
    /\ OnCanvas(PressToDraw(page.canvas))

Drag ==
    /\ OnPage
    /\ \/ \E r \in Reached(page.canvas) : OnCanvas(DragTo(page.canvas, r))
       \/ /\ page.canvas.drag.mode = "draw"
          /\ \E r \in Rects \cup {TooSmall} : OnCanvas(DrawTo(page.canvas, r))

\* rectangleDrafted, rectangleEdited or rectangleRejected.
EndDrag ==
    /\ OnPage
    /\ LET c == page.canvas
           p == [page EXCEPT !.canvas = Release(c)]
       IN CASE c.drag.mode = "none" -> FALSE
            [] c.drag.mode = "draw" /\ c.rubber = TooSmall -> Edits(UpdateButtons(p))
            [] c.drag.mode = "draw" /\ c.rubber # TooSmall -> Edits(CreateDraft(p, c.rubber))
            [] OTHER -> \/ Edits(UpdateDraft(p, c.rect))
                        \/ p.row # 0 /\ Becomes(Redrawn(p))

\* setPreviewFrame: no frame, one of another ratio than the camera's, or one
\* that fits; frameCompatibilityChanged if what is said of it changes.
Frame ==
    /\ OnPage
    /\ \E image, fits, changed \in BOOLEAN :
          LET p == [page EXCEPT !.preview = @ \/ image, !.canvas.frame = fits] IN
          /\ fits => image
          /\ fits # page.canvas.frame => changed
          /\ Becomes(IF changed THEN UpdateButtons(p) ELSE p)

----------------------------------------------------------------------------
(* Saving, refreshing and leaving.                                         *)

\* startSaveChangesInternal.
SavesPi(p) == (p.dirty \/ p.piDirty) /\ Matches(p) /\ p.preview
CanStart(p) == ~AnyRequest(p) /\ p.row # 0 /\ (p.dirty \/ SavesPi(p))
StartSave(p) ==
    LET q == [p EXCEPT !.then = p.dirty /\ SavesPi(p), !.combined = FALSE]
        c == p.config[p.row].channel
        areas == OnChannel([p.config EXCEPT ![p.row] = Edited(p)], c)
    IN IF p.dirty THEN StartApply([q EXCEPT !.stage = "camera"], "apply", c, areas)
       ELSE [page |-> RequestPi(q), job |-> NoJob]

Starts(started) ==
    /\ page' = started.page /\ job' = started.job
    /\ roi' = RoiFor(started.page)
    /\ UNCHANGED <<camera, edits>>

SaveChanges ==
    /\ OnPage /\ CanStart(page)
    /\ Starts(StartSave(page))

DeleteArea ==
    /\ OnPage /\ ~AnyRequest(page) /\ page.row # 0 /\ page.draft = None
    /\ LET a == page.config[page.row]
           here == OnChannel(page.saved, a.channel)
       IN Starts(StartApply([page EXCEPT !.deleting = TRUE], "delete", a.channel,
                            Only(here, {k \in DOMAIN here : here[k].index # a.index})))

\* The refresh timer.
RefreshTimer ==
    /\ OnPage /\ ~AnyRequest(page) /\ ~page.dirty /\ ~page.piDirty /\ page.draft = None
    /\ Starts([page |-> UpdateButtons([page EXCEPT !.inFlight = TRUE]),
               job |-> [NoJob EXCEPT !.what = "read"]])

\* confirmPendingChanges, when the page is left or the window closed.
Pending(p) == p.dirty \/ p.piDirty
LeaveSaving ==
    /\ OnPage /\ Pending(page) /\ CanStart(page)
    /\ LET started == StartSave([page EXCEPT !.leaving = TRUE])
       IN Starts(IF page.dirty \/ started.page.pi # None THEN started
                 ELSE [started EXCEPT !.page.leaving = FALSE])
LeaveDiscarding ==
    /\ OnPage /\ Pending(page) /\ ~AnyRequest(page)
    /\ Becomes([UpdateButtons(UpdateOverlays(SelectMapped(ShowTable(
                   [page EXCEPT !.config = page.saved, !.draft = None, !.dirty = FALSE,
                                !.piDirty = FALSE, !.leaving = FALSE])))) EXCEPT !.away = TRUE])

\* The window shows the page again.
Return == ~OnPage /\ Becomes([page EXCEPT !.away = FALSE])

----------------------------------------------------------------------------
EditorInit ==
    /\ camera = FirstCamera
    /\ job = NoJob /\ roi = "none"
    /\ page = SetConfiguration(
                 [canvas |-> Blank, config |-> << >>, saved |-> << >>, row |-> 0,
                  fields |-> NoFields, channel |-> 1, slot |-> Mappings[1].slot, draft |-> None,
                  dirty |-> FALSE, piDirty |-> FALSE, inFlight |-> TRUE, stage |-> "idle",
                  pi |-> None, then |-> FALSE, combined |-> FALSE, deleting |-> FALSE,
                  preview |-> FALSE, leaving |-> FALSE, away |-> FALSE], All(FirstCamera))
    /\ edits = 0

EditorNext ==
    \/ JobSettles \/ JobFails \/ PutAnswered \/ VerifyAnswered \/ RoiFails
    \/ SelectRow \/ ClickChannel \/ ChooseSlot \/ TypeIndex \/ TypeName \/ TypeCoordinates
    \/ DiscardDraft \/ GrabArea \/ BeginRectangle \/ Drag \/ EndDrag \/ Frame
    \/ SaveChanges \/ DeleteArea \/ RefreshTimer \/ LeaveSaving \/ LeaveDiscarding \/ Return

\* Every request of the camera and of the Pi has a time-out, so a job ends and
\* the region's request goes on; only JobSettles and JobFails end a job.
JobEnds == job.what # "none" /\ job' = NoJob
RoiGoesOn == roi # "none" /\ roi' \in {"none", "verify"} \ {roi}

EditorSpec == EditorInit /\ [][EditorNext]_roiVars /\ WF_job(JobEnds) /\ WF_roi(RoiGoesOn)
----------------------------------------------------------------------------
(* Properties.                                                             *)

CanvasType ==
    [frame : BOOLEAN, draw : BOOLEAN, edit : BOOLEAN, selected : Indices \cup {None},
     rect : Rects \cup {None}, rubber : Rects \cup {TooSmall, None}, drag : Drags]
PageType ==
    [canvas : CanvasType, config : Seq(Area), saved : Seq(Area), row : Nat,
     fields : [index : Indices, name : Names, rect : Rects] \cup {NoFields},
     channel : Channels, slot : Slots \cup {None},
     draft : [channel : Channels, index : Indices, replaces : Area \cup {None}] \cup {None},
     dirty : BOOLEAN, piDirty : BOOLEAN, inFlight : BOOLEAN, stage : {"idle", "camera", "pi"},
     pi : [slot : Slots, rect : Rects] \cup {None}, then : BOOLEAN, combined : BOOLEAN,
     deleting : BOOLEAN, preview : BOOLEAN, leaving : BOOLEAN, away : BOOLEAN]

\* Types: every rectangle that is drawn, moved or stretched stays in the picture
\* and no side becomes shorter than MinSide (mouseMoveEvent), whichever rows,
\* channels and configurations come in between; and the editor is of a row
\* that the table has (populateAreaTable, populateEditor).
EditorTypeOK ==
    /\ page \in PageType
    /\ page.row \in 0..Len(page.config) /\ (page.row = 0 <=> page.fields = NoFields)
    /\ \A c \in Channels : camera[c] \in Seq(Area)

\* The region that a save sends to the Pi after the camera is the one the camera
\* has verified for the area of that slot, whatever the operator selects or
\* types while the camera is written; and none is sent while the camera's part
\* is unsaved ("only if it succeeded does the Pi ROI start", showHelpDialog).
RegionIsVerified ==
    page'.pi # None /\ page.pi = None =>
        /\ ~page'.dirty
        /\ page'.combined => \E k \in DOMAIN page'.saved :
              /\ page'.saved[k].channel = Mapping(page'.pi.slot).channel
              /\ page'.saved[k].index = Mapping(page'.pi.slot).index
              /\ page'.saved[k].rect = page'.pi.rect
RoiFollowsCamera == [][RegionIsVerified]_roiVars

\* A drag ends on the area it began on: while it goes on, no load, selection,
\* change of channel, edit of a row or save changes the row into which
\* updateRectangleDraft will write (updateButtons ends it through setDrawMode).
EditingDrags == {"move", "corner"}
KeepsItsRow ==
    page.canvas.drag.mode \in EditingDrags /\ page'.canvas.drag.mode \in EditingDrags =>
        /\ ~AnyRequest(page')
        /\ page'.row = page.row /\ page'.config = page.config
        /\ page'.canvas.selected = page.canvas.selected
DragKeepsItsRow == [][KeepsItsRow]_roiVars

\* A save comes to its end, in each of its parts and whatever fails.
SavesEnd == page.stage # "idle" ~> page.stage = "idle"
=============================================================================
