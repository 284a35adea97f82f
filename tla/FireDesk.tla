------------------------------- MODULE FireDesk -------------------------------
(***************************************************************************)
(* The operator's desk: MainWindow's fire popups (src/src/mainwindow.cpp,  *)
(* src/src/dialogs/firealarmpopup.cpp) composed with the controller of     *)
(* FireAlarm.  The window hears the controller's fireConfirmation* signals *)
(* within the step that emits them, and posts two kinds of events to its   *)
(* own queue: a retry that shows a popup again (QTimer::singleShot(0)) and *)
(* the deletion of a popup (deleteLater).  Qt delivers posted events in    *)
(* the order they were posted; controller steps may come first, because    *)
(* one read of the socket handles many packets, while clicks find the      *)
(* queue empty.                                                            *)
(***************************************************************************)
EXTENDS FireAlarm

CONSTANTS
    Popups,    \* FireAlarmPopup objects; a deleted one's name is used again
    NoPopup    \* no entry in m_fireAlarmPopups, or a null QPointer

ASSUME DeskConstants ==
    /\ NoPopup \notin Popups
    /\ IsFiniteSet(Popups)
    /\ IsFiniteSet(Channels)

VARIABLES
    ui,     \* the window's state, a record of
            \*   popup    what each FireAlarmPopup shows
            \*   tracked  m_fireAlarmPopups
            \*   shown    m_shownFireAlarmIds
            \*   queue    the posted events
    \* History, which no step of the code reads:
    settled,  \* channels whose last shown alarm was not, at some time since it
              \* was shown, the unacknowledged one
    underWay, \* channels whose open alarm has a command that was published since
              \* it opened and was not lost with its session
    leaked    \* keys of m_fireAckCommandKeys that nothing removes in time

past == <<settled, underWay, leaked>>
deskVars == <<fireVars, ui, past>>

Unused == [ch |-> NoId, alarm |-> NoId, visible |-> FALSE]
PopupType == [ch : Channels, alarm : Alarms, visible : BOOLEAN] \cup {Unused}
Retry(ch, a) == [kind |-> "retry", ch |-> ch, alarm |-> a]
Deletion(p) == [kind |-> "delete", popup |-> p]
Posted == {Retry(c, a) : c \in Channels, a \in Alarms} \cup {Deletion(p) : p \in Popups}

DeskInit ==
    /\ FireInit
    /\ ui = [popup |-> [p \in Popups |-> Unused],
             tracked |-> [c \in Channels |-> NoPopup],
             shown |-> [c \in Channels |-> NoId],
             queue |-> << >>]
    /\ settled = {} /\ underWay = {} /\ leaked = {}

FreePopups(u) == {p \in Popups : u.popup[p] = Unused}
Retries(u) == {i \in DOMAIN u.queue : u.queue[i].kind = "retry"}

\* The bound of the model on the popups alive at once: n are free beside those
\* that the posted retries may still open.
Room(n) == Cardinality(FreePopups(ui)) >= n + Cardinality(Retries(ui))

----------------------------------------------------------------------------
(* The window's slots, as functions of its state.                          *)

\* deleteLater: a second call for the same object changes nothing.
DeleteLater(u, p) ==
    IF \E i \in DOMAIN u.queue : u.queue[i] = Deletion(p) THEN u
    ELSE [u EXCEPT !.queue = Append(@, Deletion(p))]

\* A popup of f hides.
Hide(f, p) == [f EXCEPT ![p].visible = FALSE]

\* closeFireAlarmPopup: the tracked popup is dismissed and forgotten, while
\* m_shownFireAlarmIds keeps the alarm.
Close(u, c) ==
    LET p == u.tracked[c] IN
    IF p = NoPopup THEN u
    ELSE DeleteLater([u EXCEPT !.popup = Hide(u.popup, p), !.tracked[c] = NoPopup], p)

\* showFireAlarmPopup: nothing when the alarm was the last one shown.
Show(u, c, a) ==
    IF u.shown[c] = a THEN u
    ELSE LET v == Close(u, c)
             p == CHOOSE p \in FreePopups(v) : TRUE
         IN [v EXCEPT !.shown[c] = a, !.tracked[c] = p,
                      !.popup[p] = [ch |-> c, alarm |-> a, visible |-> TRUE]]

\* Mistake: a retry that forgets to forget.
ShowAgainIfNew(u, c, a) == Show(u, c, a)

\* What a posted retry does: it forgets the alarm last shown first.
ShowAgain(u, c, a) == Show([u EXCEPT !.shown[c] = NoId], c, a)

Hear(u, s) == IF s.kind = "requested" THEN Show(u, s.ch, s.alarm) ELSE Close(u, s.ch)

\* The sequences that hold each element of a finite set once.
Orders(S) ==
    {q \in [1 .. Cardinality(S) -> S] : \A x \in S : \E i \in DOMAIN q : q[i] = x}

\* The window once it has heard the signals of one step: a request or a close by
\* itself, or the retries of a lost session, which are posted in the order of the
\* client's hash of pending publishes, any order there is.
Heard(u, ss) ==
    IF \E s \in ss : s.kind # "retry"
    THEN {Hear(u, s) : s \in ss}
    ELSE {[u EXCEPT !.queue = u.queue \o q] :
             q \in Orders({Retry(s.ch, s.alarm) : s \in ss})}

\* Mistake: the window keeps a pointer to the deleted popup.
DestroyDangling(u, p) == [u EXCEPT !.popup[p] = Unused]

\* The popup is gone; its QPointers are null, and destroyed() drops the entry of
\* its channel if the alarm last shown there is the popup's, whosever it is.
Destroy(u, p) ==
    LET c == u.popup[p].ch IN
    [u EXCEPT !.popup[p] = Unused,
              !.tracked[c] = IF u.tracked[c] = p \/ u.shown[c] = u.popup[p].alarm
                             THEN NoPopup ELSE u.tracked[c]]

----------------------------------------------------------------------------
\* What the history becomes, for UnansweredHasAWay; no counterpart in the code.
Settle ==
    settled' =
      {c \in Channels :
         /\ ui'.shown[c] # NoId
         /\ \/ ~(Unanswered(c)' /\ alarm'[c].id = ui'.shown[c])
            \/ c \in settled /\ ui'.shown[c] = ui.shown[c]}

\* The alarm that waits for its answer does so before and after the step.
StaysOpen(c) == Unanswered(c) /\ Unanswered(c)' /\ alarm'[c].id = alarm[c].id

\* A session ends before the broker has confirmed what was published.
LosesCommand(c) == ready /\ ~ready' /\ pending[c] > 0

\* The two ways in which the code leaves a key behind: the client is dropped with
\* its publications, or a revision acknowledges another alarm than the open one.
LeavesKey(c) ==
    /\ Unanswered(c)
    /\ \/ LosesCommand(c) /\ DropClient
       \/ alarm'[c].acked /\ alarm'[c].id # alarm[c].id

Account ==
    /\ underWay' =
         {c \in Channels :
            /\ StaysOpen(c) /\ ~LosesCommand(c)
            /\ c \in underWay \/ pending'[c] > pending[c]}
    /\ leaked' =
         (leaked \cup {CommandKey(c) : c \in {d \in Channels : LeavesKey(d)}})
           \cap ackKeys'

Recall == Settle /\ Account

\* A step of the controller that no popup started; the window hears its signals.
ControllerStep ==
    /\ Room(Cardinality(Channels) + 1)
    /\ \/ \E m \in Messages : ReceiveFire(m)
       \/ \E c \in Channels : ConfirmPublish(c)
       \/ Disconnect
       \/ Connect
       \/ ReloadMqtt
    /\ ui' \in Heard(ui, signals')
    /\ Recall

\* Check: the popup hides, its channel's alarm is acknowledged whichever alarm
\* the popup was opened for, and the popup deletes itself later.
Check(p) ==
    /\ Room(1) /\ ui.queue = << >>
    /\ ui.popup[p].visible
    /\ AcknowledgeFireAlarm(ui.popup[p].ch)
    /\ \E u \in Heard([ui EXCEPT !.popup = Hide(ui.popup, p)], signals') :
          ui' = DeleteLater(u, p)
    /\ Recall

RunPosted ==
    /\ ui.queue # << >>
    /\ LET e == Head(ui.queue)
           u == [ui EXCEPT !.queue = Tail(ui.queue)]
       IN ui' = IF e.kind = "retry" THEN ShowAgain(u, e.ch, e.alarm)
                ELSE Destroy(u, e.popup)
    /\ signals' = {}
    /\ UNCHANGED <<fireState, history, command>>
    /\ Recall

DeskNext ==
    \/ ControllerStep
    \/ \E p \in Popups : Check(p)
    \/ RunPosted

\* The event loop delivers what was posted; nothing else is owed: the broker,
\* the Pi and the operator may all be silent.
DeskSpec == DeskInit /\ [][DeskNext]_deskVars /\ WF_deskVars(RunPosted)

----------------------------------------------------------------------------
VisibleOn(c) == \E p \in Popups : ui.popup[p].visible /\ ui.popup[p].ch = c
RetryPosted(c) == \E i \in Retries(ui) : ui.queue[i].ch = c

\* Types of the window's state, beside the controller's.
DeskTypeOK ==
    /\ FireTypeOK
    /\ settled \subseteq Channels /\ underWay \subseteq Channels /\ leaked \subseteq ackKeys
    /\ ui.popup \in [Popups -> PopupType]
    /\ ui.tracked \in [Channels -> Popups \cup {NoPopup}]
    /\ ui.shown \in [Channels -> Alarms \cup {NoId}]
    /\ \A i \in DOMAIN ui.queue : ui.queue[i] \in Posted

\* The popup the window would dismiss for a channel exists, belongs to that
\* channel and shows the alarm m_shownFireAlarmIds names for it, across
\* deletions that arrive after their popup was replaced.
TrackedPopupIsShown ==
    \A c \in Channels :
        ui.tracked[c] # NoPopup =>
            /\ ui.popup[ui.tracked[c]] # Unused
            /\ ui.popup[ui.tracked[c]].ch = c
            /\ ui.popup[ui.tracked[c]].alarm = ui.shown[c]

\* Both: the window keeps no pointer to a popup that is gone or another's.
DeskConsistent == DeskTypeOK /\ TrackedPopupIsShown

\* A Check of the alarm would be suppressed as a duplicate.
Suppressed(c) == CommandKey(c) \in ackKeys

\* An unacknowledged alarm can be answered: while a Check counts, there is a
\* popup on its channel or a retry about to open one; while a Check would be
\* suppressed, a command for it is under way that the Pi may still answer.  The
\* code has two exceptions.  The id last shown was closed, acknowledged or
\* replaced, and the alarm opens again under it: no popup.  And a key was left
\* behind (LeavesKey), by a reload that drops the client or by the acknowledgement
\* of another alarm: nothing is under way, and every Check is suppressed.
HasAWay(c) ==
    /\ ~Suppressed(c) =>
         VisibleOn(c) \/ RetryPosted(c) \/ (c \in settled /\ ui.shown[c] = alarm[c].id)
    /\ Suppressed(c) => c \in underWay \/ CommandKey(c) \in leaked

UnansweredHasAWay == \A c \in Channels : Unanswered(c) => HasAWay(c)

\* A Check whose command could not be published brings the popup back, unless
\* the alarm is answered or replaced meanwhile.
RetryComesBack ==
    \A c \in Channels :
        RetryPosted(c) /\ Unanswered(c) ~> VisibleOn(c) \/ ~Unanswered(c)
=============================================================================
