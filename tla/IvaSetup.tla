------------------------------- MODULE IvaSetup -------------------------------
(***************************************************************************)
(* The IVA setup of the desk: IvaSettingsPage (src/src/pages/              *)
(* ivasettingspage.cpp) with its unsaved edits and its dialogs, the part   *)
(* of MainWindow that guards leaving the page and closing the window, and  *)
(* the Settings page's change of camera, composed with WiseAiClient.  The  *)
(* page hears the client's signals within the step that emits them.  A     *)
(* message box runs a nested event loop: while it is open the operator can *)
(* do nothing else, but requests finish and timers fire.                   *)
(*                                                                         *)
(* Left out: the ROI that a save may send to the Pi after the camera, and  *)
(* the contents of the editor: an edit makes the page dirty, and what it   *)
(* changed (one area) is chosen when it is saved.                          *)
(***************************************************************************)
EXTENDS WiseAiClient

VARIABLES
    ui,      \* the page and the window, a record of
             \*   inFlight    m_requestInFlight
             \*   saving      m_saveStage is Camera
             \*   dirty       m_cameraDirty
             \*   config      m_savedConfiguration, None before m_loadedOnce
             \*   ready       m_hasOptions and m_hasCapabilities
             \*   dialog      the message box that is open
             \*   leaving     m_pendingLeaveAfterSave
             \*   target      m_pendingPageIndex is set
             \*   closeAfter  m_closeAfterIvaSave
             \*   away        another page is current
             \*   closed      the window is closed
    asked,   \* the update the operator asked for that is pending
    dropped  \* saving the camera's credentials stopped the verification of the
             \* update that is pending

ivaVars == <<camera, client, ui, asked, dropped>>

NoDialog == [what |-> "none", area |-> None, value |-> None]
Dialog(what) == [NoDialog EXCEPT !.what = what]
NotAsked == [what |-> "none", area |-> None, config |-> None]

IvaInit ==
    /\ ClientInit
    /\ ui = [inFlight |-> FALSE, saving |-> FALSE, dirty |-> FALSE, config |-> None,
             ready |-> FALSE, dialog |-> NoDialog, leaving |-> FALSE, target |-> FALSE,
             closeAfter |-> FALSE, away |-> TRUE, closed |-> FALSE]
    /\ asked = NotAsked
    /\ dropped = FALSE

----------------------------------------------------------------------------
(* The slots of the page and of the window, as functions of ui.            *)

CloseWindow(u) == IF u.dirty THEN u ELSE [u EXCEPT !.closed = TRUE]

\* finishPendingIvaNavigation.
Navigate(u) ==
    IF u.closeAfter THEN CloseWindow([u EXCEPT !.closeAfter = FALSE])
    ELSE IF u.target THEN [u EXCEPT !.target = FALSE, !.away = TRUE]
    ELSE u

\* finishPendingSave.
FinishSave(u, success) ==
    IF u.leaving /\ success THEN Navigate([u EXCEPT !.leaving = FALSE])
    ELSE [u EXCEPT !.leaving = FALSE]

\* Mistake: the page forgets that the failure of a save ends its request.
HearButKeepFlag(u, s) ==
    CASE s.what = "capabilitiesReceived" -> [u EXCEPT !.ready = TRUE]
      [] s.what = "configurationReceived" ->
            [u EXCEPT !.config = s.read, !.inFlight = FALSE, !.dirty = FALSE]
      [] s.what = "requestFailed" -> [u EXCEPT !.inFlight = FALSE]
      [] s.what = "applyStarted" -> [u EXCEPT !.inFlight = TRUE, !.saving = TRUE]
      [] s.what = "applySucceeded" ->
            FinishSave([u EXCEPT !.inFlight = FALSE, !.saving = FALSE, !.dirty = FALSE,
                                 !.config = s.read], TRUE)
      [] s.what = "applyFailed" -> FinishSave([u EXCEPT !.saving = FALSE], FALSE)

\* What the page does on each signal of the client.
Hear(u, s) ==
    CASE s.what = "capabilitiesReceived" -> [u EXCEPT !.ready = TRUE]
      [] s.what = "configurationReceived" ->
            [u EXCEPT !.config = s.read, !.inFlight = FALSE, !.dirty = FALSE]
      [] s.what = "requestFailed" -> [u EXCEPT !.inFlight = FALSE]
      [] s.what = "applyStarted" -> [u EXCEPT !.inFlight = TRUE, !.saving = TRUE]
      [] s.what = "applySucceeded" ->
            FinishSave([u EXCEPT !.inFlight = FALSE, !.saving = FALSE, !.dirty = FALSE,
                                 !.config = s.read], TRUE)
      [] s.what = "applyFailed" ->
            FinishSave([u EXCEPT !.inFlight = FALSE, !.saving = FALSE], FALSE)

\* The page hears the client's signals in the order they were emitted.
Heard(u, k) ==
    LET after[n \in 0..Len(k.out)] == IF n = 0 THEN u ELSE Hear(after[n - 1], k.out[n])
    IN  after[Len(k.out)]

\* A window about to close, with the page as in u, may ask about the layout of the
\* map and stay open (closeEvent; MapSession has the question).
LayoutAnswered(u) == {u, [u EXCEPT !.closed = ui.closed]}

\* The client has become k, for the request a of the operator, and ui becomes u.
Follow(k, u, a, d) ==
    /\ client' = [k EXCEPT !.out = << >>]
    /\ ui' \in LayoutAnswered(u)
    /\ asked' = IF k.update = NoUpdate THEN NotAsked ELSE a
    /\ dropped' = (d /\ k.update # NoUpdate)

\* The client has become k and the page, at u, hears its signals.
Become(k, u) == Follow(k, Heard(u, k), asked, dropped)

\* setCameraIp.
ResetCamera(u, same) ==
    IF same THEN u
    ELSE [u EXCEPT !.config = None, !.ready = FALSE, !.dirty = FALSE, !.saving = FALSE]

----------------------------------------------------------------------------
(* What the operator does on the page.                                     *)

OperatorFree == ui.dialog = NoDialog /\ ~ui.closed
OnPage == OperatorFree /\ ~ui.away
Idle(u) == ~u.inFlight /\ ~u.saving

Ask(d) == ui' = [ui EXCEPT !.dialog = d] /\ UNCHANGED <<camera, client, asked, dropped>>

\* setRequestStarted, then refreshRequested.
StartRefresh(u) == Become(Fetch(client), [u EXCEPT !.inFlight = TRUE])

\* The timer of 10 s, whose slot also runs in the nested loop of a message box.
RefreshTimer ==
    /\ ~ui.closed /\ ~ui.away /\ Idle(ui) /\ ~ui.dirty
    /\ StartRefresh(ui)
    /\ UNCHANGED camera

HasAreas == ui.config # None /\ \E i \in Areas : ui.config[i] # None

\* An area of the table is changed, or a new one drawn.
Edit ==
    /\ OnPage /\ ~ui.inFlight /\ ~ui.dirty
    /\ HasAreas \/ (ui.ready /\ ~ui.saving)
    /\ ui' = [ui EXCEPT !.dirty = TRUE]
    /\ UNCHANGED <<camera, client, asked, dropped>>

DiscardDraft ==
    /\ OnPage /\ Idle(ui) /\ ui.dirty
    /\ ui' = [ui EXCEPT !.dirty = FALSE]
    /\ UNCHANGED <<camera, client, asked, dropped>>

AskSave ==
    /\ OnPage /\ Idle(ui) /\ ui.ready /\ ui.dirty
    /\ \E i \in Areas, v \in Values : Ask([what |-> "save", area |-> i, value |-> v])

AskDelete ==
    /\ OnPage /\ Idle(ui) /\ ui.config # None
    /\ \E i \in Areas : ui.config[i] # None /\ Ask([Dialog("delete") EXCEPT !.area = i])

\* The end of startSaveChangesInternal: the edited area in the table as it is now.
Edited(u, i, v) == IF u.config = None THEN None ELSE [u.config EXCEPT ![i] = v]
SaveEdit(u, i, v, closing) ==
    LET k == ApplyConfiguration(client, Edited(u, i, v)) IN
    Follow(k, [Heard([u EXCEPT !.saving = TRUE], k) EXCEPT !.closeAfter = @ \/ closing],
           [what |-> "save", area |-> None, config |-> Edited(u, i, v)], dropped)

ConfirmSave ==
    /\ ui.dialog.what = "save"
    /\ SaveEdit([ui EXCEPT !.dialog = NoDialog], ui.dialog.area, ui.dialog.value, FALSE)
    /\ UNCHANGED camera

ConfirmDelete ==
    /\ ui.dialog.what = "delete"
    /\ LET k == DeleteArea(client, ui.dialog.area) IN
       Follow(k, Heard([ui EXCEPT !.dialog = NoDialog], k),
              [what |-> "delete", area |-> ui.dialog.area, config |-> None], dropped)
    /\ UNCHANGED camera

\* No, Cancel, or a save that its validation refuses.
RejectDialog ==
    /\ ui.dialog # NoDialog
    /\ ui' = [ui EXCEPT !.dialog = NoDialog,
                        !.target = @ /\ ui.dialog.what # "leave"]
    /\ UNCHANGED <<camera, client, asked, dropped>>

----------------------------------------------------------------------------
(* Leaving the page and closing the window.                                *)

\* showEvent, which fetches what was never loaded.
Shown(u) ==
    IF u.config # None \/ u.inFlight
    THEN Become(client, u)
    ELSE StartRefresh(u)

Return ==
    /\ OperatorFree /\ ui.away
    /\ Shown([ui EXCEPT !.away = FALSE])
    /\ UNCHANGED camera

LeaveClean ==
    /\ OnPage /\ ~ui.dirty
    /\ ui' = [ui EXCEPT !.away = TRUE]
    /\ UNCHANGED <<camera, client, asked, dropped>>

\* handlePageChanged shows the page again, and only then asks.
LeaveDirty ==
    /\ OnPage /\ ui.dirty
    /\ IF ui.config = None /\ ~ui.inFlight /\ ~Busy(client)
       THEN Shown([ui EXCEPT !.target = FALSE])
       ELSE /\ ui' = IF Idle(ui) THEN [ui EXCEPT !.target = TRUE, !.dialog = Dialog("leave")]
                                 ELSE [ui EXCEPT !.target = FALSE]
            /\ UNCHANGED <<client, asked, dropped>>
    /\ UNCHANGED camera

\* closeEvent.
Close ==
    /\ OperatorFree
    /\ IF ~ui.closeAfter /\ ui.dirty
       THEN Idle(ui) /\ ui' = [ui EXCEPT !.dialog = Dialog("close")]
       ELSE ui' \in LayoutAnswered([ui EXCEPT !.closed = TRUE])
    /\ UNCHANGED <<camera, client, asked, dropped>>

\* The answers to "Unsaved IVA changes".
Asking == ui.dialog.what \in {"leave", "close"}

SaveFirst ==
    /\ Asking /\ Idle(ui) /\ ui.dirty
    /\ \E i \in Areas, v \in Values :
          SaveEdit([ui EXCEPT !.dialog = NoDialog, !.leaving = TRUE], i, v,
                   ui.dialog.what = "close")
    /\ UNCHANGED camera

\* discardPendingChanges, which does nothing before the first load.
Discard(u) ==
    IF u.config = None \/ ~Idle(u) THEN u
    ELSE [u EXCEPT !.dirty = FALSE, !.leaving = FALSE]

DiscardFirst ==
    /\ Asking
    /\ LET u == Discard(ui) IN
       ui' \in LayoutAnswered(
                  IF ui.dialog.what = "leave" THEN Navigate([u EXCEPT !.dialog = NoDialog])
                  ELSE IF u.dirty THEN ui
                  ELSE [u EXCEPT !.dialog = NoDialog, !.closed = TRUE])
    /\ UNCHANGED <<camera, client, asked, dropped>>

----------------------------------------------------------------------------
(* The settings, the network, the timer and the cameras.                   *)

\* Saving stops a verification that waits for its timer, without a signal.
Drops == client.request = NoRequest /\ client.waiting # "none"

\* saveCameraCredentials.
SaveCredentials(c) ==
    /\ OperatorFree /\ ui.away
    /\ LET k == Fetch(SetConnectionOptions(client, c)) IN
          Follow(k, Heard(ResetCamera(ui, c = client.conn), k), asked, dropped \/ Drops)
    /\ UNCHANGED camera

Answer ==
    /\ ~ui.closed /\ client.request # NoRequest /\ Answerable(client)
    /\ Become(Succeeded(Finished(client), client.request.kind, client.request.read), ui)
    /\ UNCHANGED camera

\* An error, a refused or broken reply, or no answer within the transfer timeout.
Fail ==
    /\ ~ui.closed /\ client.request # NoRequest
    /\ Become(Failed(Finished(client), client.request.kind), ui)
    /\ UNCHANGED camera

VerificationTimer ==
    /\ ~ui.closed /\ client.waiting # "none"
    /\ Become(Start([client EXCEPT !.waiting = "none"], client.waiting), ui)
    /\ UNCHANGED camera

Serve ==
    /\ ~ui.closed
    /\ ServeRead \/ ServeWrite
    /\ UNCHANGED <<ui, asked, dropped>>

Elsewhere ==
    /\ \E c \in Cameras, cfg \in Configs : EditCamera(c, cfg)
    /\ UNCHANGED <<ui, asked, dropped>>

IvaNext ==
    \/ RefreshTimer \/ Edit \/ DiscardDraft
    \/ AskSave \/ AskDelete \/ ConfirmSave \/ ConfirmDelete \/ RejectDialog
    \/ Return \/ LeaveClean \/ LeaveDirty \/ Close \/ SaveFirst \/ DiscardFirst
    \/ \E c \in Cameras : SaveCredentials(c)
    \/ Answer \/ Fail \/ VerificationTimer \/ Serve \/ Elsewhere

\* The transfer timeout ends every request and the event loop runs every timer
\* that is due, as long as the window is open.
IvaSpec ==
    /\ IvaInit /\ [][IvaNext]_ivaVars
    /\ WF_ivaVars(Answer \/ Fail) /\ WF_ivaVars(VerificationTimer)
----------------------------------------------------------------------------
(* Properties.                                                             *)

UpdateType ==
    [from : Cameras \cup {None}, baseline : Configs \cup {None},
     intended : Configs \cup {None}, deleted : Areas \cup {None}, attempt : 0..3]
ClientType ==
    [conn : Cameras, has : SUBSET Fetching, last : Configs \cup {None},
     request : [kind : Kinds, to : Cameras, done : BOOLEAN, read : Configs \cup {None}]
                  \cup {NoRequest},
     waiting : Verifying \cup {"none"}, update : UpdateType, out : {<< >>}]
UiType ==
    [inFlight : BOOLEAN, saving : BOOLEAN, dirty : BOOLEAN, config : Configs \cup {None},
     ready : BOOLEAN,
     dialog : [what : {"none", "save", "delete", "leave", "close"},
               area : Areas \cup {None}, value : Values \cup {None}],
     leaving : BOOLEAN, target : BOOLEAN, closeAfter : BOOLEAN, away : BOOLEAN,
     closed : BOOLEAN]

\* Types; a save or a rollback is verified by three reads at most
\* (scheduleVerification, processSuccess), there is a request or a timer but
\* never both, and the configuration the page shows is the one the client
\* compares with.
IvaTypeOK ==
    /\ camera \in [Cameras -> Configs]
    /\ client \in ClientType /\ ui \in UiType
    /\ client.request = NoRequest \/ client.waiting = "none"

\* The conflict check of a save compares with the configuration that the page
\* shows: every configuration the client learns reaches the page, also over
\* rollbacks, conflicts and changes of camera (configurationReceived).
PageShowsBaseline ==
    /\ ui.config # None => ui.config = client.last
    /\ client.request.kind \in {"preflight", "put", "delete"}
          => client.update.baseline = ui.config

Pursued(k) ==
    \/ k.request.kind \in {"preflight"} \cup Writing \cup Verifying
    \/ k.waiting # "none"

\* A step of a save has the update it belongs to: no failure, cancellation or
\* new request clears m_pendingUpdate under a request or timer that uses it.
StepsHaveUpdate ==
    Pursued(client) => client.update.intended # None /\ client.update.baseline # None

\* While the page says it is saving, the client is at work on the update, or a
\* change of the credentials has stopped it; while it says it is loading, there
\* is a request or a timer that will tell it to stop.
PageWaitsForClient ==
    /\ ui.saving => client.update # NoUpdate /\ (Pursued(client) \/ dropped)
    /\ ui.inFlight => Busy(client)

\* What is sent to the camera is what the operator asked for last, also after
\* failures and retries (applyChannelConfiguration reuses m_pendingUpdate and
\* relies on its deletedAreaIndex having been cleared), and it goes only to the
\* camera its baseline was loaded from, even if the operator changes the camera
\* while the update runs (setConnectionOptions).
SendsDelete == client.request.kind = "delete"
WritesWhatWasAsked ==
    /\ client.request.kind = "put"
          => asked.what = "save" /\ asked.config = client.update.intended
    /\ SendsDelete /\ ~dropped
          => asked.what = "delete" /\ asked.area = client.update.deleted
    /\ client.request.kind \in {"put", "delete"} => client.request.to = client.update.from

\* The page is left with unsaved edits only before its first load, when
\* discarding does nothing (confirmPendingChanges, discardPendingChanges).
EditsDoNotLeavePage == ui.away /\ ui.dirty => ui.config = None

\* These together: the page, the window and the client agree on what is
\* loaded, under way and unsaved.
IvaConsistent ==
    IvaTypeOK /\ PageShowsBaseline /\ StepsHaveUpdate /\ PageWaitsForClient
    /\ EditsDoNotLeavePage

\* A write follows only a check in which the camera answered what the page
\* shows at that moment.
ChecksBeforeWriting ==
    client'.request.kind \in {"put", "delete"} /\ client.request.kind \notin {"put", "delete"}
       => client.request.kind = "preflight" /\ client.request.read = ui.config
OverwritesOnlyWhatIsShown == [][ChecksBeforeWriting]_ivaVars

\* A save ends, whatever the camera answers and whoever edits it, unless its
\* verification is stopped by a change of the credentials or the window closes.
SaveEnds == ui.saving ~> ~ui.saving \/ dropped \/ ui.closed

----------------------------------------------------------------------------
\* The page announces "conflict check -> PUT -> camera verification" for a save
\* of edits (setApplyStarted): it deletes no area nobody asks to delete.
OnlyDeletesWhenAsked == SendsDelete => asked.what = "delete"
=============================================================================
