----------------------------- MODULE MapSession -----------------------------
(***************************************************************************)
(* The parking-map layout over the life of the program: the login and the  *)
(* monitoring session of main.cpp, the page that loads the layout and      *)
(* writes it back (pages/parkingmappage.cpp), and the questions that the   *)
(* main window asks before a changed layout is lost: at its close and at   *)
(* the end of the session (mainwindow.cpp).                                *)
(*                                                                         *)
(* Every question and dialog runs an event loop of its own: the session    *)
(* can end while one is open, and its question opens on top of it.  `asks' *)
(* holds the open ones, the last on top.                                   *)
(*                                                                         *)
(* The file is overwritten in place: it is truncated when it is opened,    *)
(* and the result of the write is not looked at.  Whatever the disk or a   *)
(* crash make of it, the next start reads what is there.                   *)
(*                                                                         *)
(* Left out: the toolbar that adds, moves and deletes zones, which is      *)
(* hidden and disabled; the question about unsaved IVA settings that comes *)
(* first at a close (IvaSetup).                                            *)
(***************************************************************************)
EXTENDS ZoneFile, SequencesExt

CONSTANT Found      \* the files that may be there at the first start

VARIABLES
  file,      \* the layout file
  phase,     \* "closed", "login" or "monitoring"
  signingIn, \* a login request is in flight
  page,      \* what the map shows: zones and overview
  dirty,     \* m_layoutDirty
  asks,      \* the open dialogs, the last on top
  dialog,    \* the overview dialog: its camera, its copy, its slot box
  ending,    \* reauthenticationInProgress
  own,       \* history: this program wrote the file, to its end
  lost,      \* history: a write reported as saved is not on the disk
  agreed     \* history: how the last session came to its end

vars == <<file, phase, signingIn, page, dirty, asks, dialog, ending,
          own, lost, agreed>>

FileType ==
  [kind : {"absent", "broken", "text"}, entries : Seq(ZoneType),
   overview : [Cameras -> [role : Roles, slots : Int]]]
ASSUME FoundAssumption == Found \subseteq FileType

NoDialog == [camera |-> CHOOSE c \in Cameras : TRUE,
             working |-> DefaultOverview, spin |-> 1]
AbsentFile == [kind |-> "absent", entries |-> <<>>, overview |-> DefaultOverview]
BrokenFile == [AbsentFile EXCEPT !.kind = "broken"]

Init ==
  /\ file \in Found
  /\ phase = "closed" /\ signingIn = FALSE
  /\ page = Loaded(file) /\ dirty = FALSE
  /\ asks = <<>> /\ dialog = NoDialog /\ ending = FALSE
  /\ own = FALSE /\ lost = FALSE /\ agreed = "none"

Top(ask) == phase = "monitoring" /\ asks # <<>> /\ Last(asks) = ask
Push(ask) == Append(asks, ask)
Pop == Front(asks)
Swap(ask) == Append(Pop, ask)

session == <<phase, ending, agreed>>
login == <<phase, signingIn, ending, agreed>>
layout == <<file, page, dirty, own, lost>>

-----------------------------------------------------------------------------
(* Login.                                                                  *)

StartProgram ==
  /\ phase = "closed"
  /\ phase' = "login" /\ signingIn' = FALSE
  /\ UNCHANGED <<layout, asks, dialog, ending, agreed>>

Submit ==
  /\ phase = "login" /\ ~signingIn
  /\ signingIn' = TRUE
  /\ UNCHANGED <<layout, session, asks, dialog>>

LoginFails ==
  /\ phase = "login" /\ signingIn
  /\ signingIn' = FALSE
  /\ UNCHANGED <<layout, session, asks, dialog>>

(* A new window loads the layout and monitors, unless the token has run    *)
(* out by then: the next login starts at once.                             *)
LoginSucceeds ==
  /\ phase = "login" /\ signingIn
  /\ signingIn' = FALSE
  /\ \/ /\ phase' = "monitoring"
        /\ page' = Loaded(file) /\ dirty' = FALSE
        /\ lost' = FALSE /\ agreed' = "none" /\ ending' = FALSE
     \/ UNCHANGED <<session, page, dirty, lost>>
  /\ UNCHANGED <<file, own, asks, dialog>>

CancelLogin ==
  /\ phase = "login"
  /\ phase' = "closed" /\ signingIn' = FALSE
  /\ UNCHANGED <<layout, asks, dialog, ending, agreed>>

-----------------------------------------------------------------------------
(* Saving the layout.                                                      *)

(* Mistake: a refused layout is reported as saved.                         *)
SaveLayoutNowUnchecked(overview, out) ==
  LET zones == Synced(page.zones)
      ok == out \in {"written", "lost"}
  IN  [ok |-> ok,
       page |-> [zones |-> zones, overview |-> overview],
       dirty |-> ~ok,
       file |-> IF ok /\ Valid(zones)
                THEN IF out = "written" THEN Stored(zones, overview)
                     ELSE BrokenFile
                ELSE file,
       own |-> IF ok THEN out = "written" ELSE own,
       lost |-> IF ok THEN out = "lost" ELSE lost]

(* What a save comes to: refused by validateLayout, unable to open the     *)
(* file, "written" to its end, or "lost": opened and truncated, but not    *)
(* written, which the program does not notice.                             *)
SaveLayoutNow(overview, out) ==
  LET zones == Synced(page.zones)
      ok == Valid(zones) /\ out \in {"written", "lost"}
  IN  [ok |-> ok,
       page |-> [zones |-> zones, overview |-> overview],
       dirty |-> ~ok,
       file |-> IF ~ok THEN file
                ELSE IF out = "written" THEN Stored(zones, overview)
                ELSE BrokenFile,
       own |-> IF ok THEN out = "written" ELSE own,
       lost |-> IF ok THEN out = "lost" ELSE lost]

Outcomes == {"written", "lost", "cannot open"}

Saved(result) ==
  /\ page' = result.page /\ dirty' = result.dirty /\ file' = result.file
  /\ own' = result.own /\ lost' = result.lost

(* The program dies: at any time, or between the truncation and the end of *)
(* the write of a save it had begun.                                       *)
Crash ==
  /\ phase = "monitoring"
  /\ phase' = "closed" /\ asks' = <<>> /\ agreed' = "crash" /\ ending' = FALSE
  /\ \/ UNCHANGED <<file, own>>
     \/ /\ Valid(Synced(page.zones))
        /\ \/ Top("overview")
           \/ dirty /\ (Top("close") \/ Top("session"))
        /\ file' = BrokenFile /\ own' = FALSE
  /\ dialog' = NoDialog
  /\ UNCHANGED <<signingIn, page, dirty, lost>>

-----------------------------------------------------------------------------
(* The overview dialog, the one editor of the map an operator can reach.   *)

LoadCamera(c, working) ==
  [camera |-> c, working |-> working, spin |-> Bounded(working[c].slots)]

OpenOverview ==
  /\ phase = "monitoring" /\ asks = <<>>
  /\ asks' = Push("overview")
  /\ \E c \in Cameras : dialog' = LoadCamera(c, page.overview)
  /\ UNCHANGED <<layout, login>>

PickCamera(c) ==
  /\ Top("overview") /\ c # dialog.camera
  /\ dialog' = LoadCamera(c, dialog.working)
  /\ UNCHANGED <<layout, login, asks>>

StoreChannel(role, spin) ==
  dialog' = [dialog EXCEPT
    !.spin = spin,
    !.working[dialog.camera] =
       [role |-> role, slots |-> IF role = "PARKING" THEN spin ELSE 0]]

PickRole(role) ==
  /\ Top("overview") /\ role # dialog.working[dialog.camera].role
  /\ StoreChannel(role, dialog.spin)
  /\ UNCHANGED <<layout, login, asks>>

(* The slot box is enabled for a parking channel only.                     *)
PickSlots(n) ==
  /\ Top("overview") /\ n # dialog.spin
  /\ dialog.working[dialog.camera].role = "PARKING"
  /\ StoreChannel("PARKING", n)
  /\ UNCHANGED <<layout, login, asks>>

CancelOverview ==
  /\ Top("overview")
  /\ asks' = Pop /\ dialog' = NoDialog
  /\ UNCHANGED <<layout, login>>

(* An accepted copy becomes the page's and is saved at once; a failure is  *)
(* told in a warning and leaves the layout dirty.                          *)
AcceptOverview(out) ==
  /\ Top("overview")
  /\ LET result == SaveLayoutNow(dialog.working, out) IN
       /\ Saved(result)
       /\ asks' = IF result.ok THEN Pop ELSE Swap("warning")
  /\ dialog' = NoDialog
  /\ UNCHANGED login

DismissWarning ==
  /\ Top("warning")
  /\ asks' = Pop
  /\ UNCHANGED <<layout, login, dialog>>

-----------------------------------------------------------------------------
(* Closing the window.                                                     *)

(* The session is over: every open dialog is left, unanswered.             *)
LeaveTo(next, how) ==
  /\ phase' = next /\ agreed' = how
  /\ asks' = <<>> /\ dialog' = NoDialog /\ ending' = FALSE
  /\ UNCHANGED signingIn

CloseWindow ==
  /\ phase = "monitoring" /\ asks = <<>>
  /\ IF dirty THEN asks' = Push("close") /\ UNCHANGED <<login, dialog>>
     ELSE LeaveTo("closed", "clean")
  /\ UNCHANGED layout

(* Mistake: the window closes although the save has failed.                *)
CloseSaveAnyway(out) ==
  /\ Top("close")
  /\ Saved(SaveLayoutNow(page.overview, out))
  /\ LeaveTo("closed", "clean")

CloseSave(out) ==
  /\ Top("close")
  /\ LET result == SaveLayoutNow(page.overview, out) IN
       /\ Saved(result)
       /\ IF result.ok THEN LeaveTo("closed", "clean")
          ELSE asks' = Swap("warning") /\ UNCHANGED <<login, dialog>>

CloseDiscard ==
  /\ Top("close")
  /\ LeaveTo("closed", "discard")
  /\ UNCHANGED layout

CloseCancel ==
  /\ Top("close")
  /\ asks' = Pop
  /\ UNCHANGED <<layout, login, dialog>>

-----------------------------------------------------------------------------
(* The end of the session: its timer, or a refused token.                  *)

(* Mistake: a second signal asks again while the first is being answered.  *)
SessionEndsAgain ==
  /\ phase = "monitoring"
  /\ Len(asks) < 3
  /\ IF dirty
     THEN /\ ending' = TRUE /\ asks' = Push("session")
          /\ UNCHANGED <<phase, signingIn, agreed, dialog>>
     ELSE LeaveTo("login", "clean")
  /\ UNCHANGED layout

SessionEnds ==
  /\ phase = "monitoring" /\ ~ending
  /\ IF dirty
     THEN /\ ending' = TRUE /\ asks' = Push("session")
          /\ UNCHANGED <<phase, signingIn, agreed, dialog>>
     ELSE LeaveTo("login", "clean")
  /\ UNCHANGED layout

SessionSave(out) ==
  /\ Top("session")
  /\ LET result == SaveLayoutNow(page.overview, out) IN
       /\ Saved(result)
       /\ IF result.ok THEN LeaveTo("login", "clean")
          ELSE asks' = Swap("failure") /\ UNCHANGED <<login, dialog>>

SessionDiscard ==
  /\ Top("session") \/ Top("failure")
  /\ LeaveTo("login", "discard")
  /\ UNCHANGED layout

SessionRetry ==
  /\ Top("failure")
  /\ asks' = Swap("session")
  /\ UNCHANGED <<layout, login, dialog>>

-----------------------------------------------------------------------------
Next ==
  \/ StartProgram \/ Submit \/ LoginFails \/ LoginSucceeds \/ CancelLogin
  \/ Crash
  \/ OpenOverview \/ CancelOverview \/ DismissWarning
  \/ \E c \in Cameras : PickCamera(c)
  \/ \E role \in Roles : PickRole(role)
  \/ \E n \in 1..MaxSlots : PickSlots(n)
  \/ CloseWindow \/ CloseDiscard \/ CloseCancel
  \/ SessionEnds \/ SessionDiscard \/ SessionRetry
  \/ \E out \in Outcomes : AcceptOverview(out) \/ CloseSave(out) \/ SessionSave(out)

MapSpec == Init /\ [][Next]_vars

-----------------------------------------------------------------------------
Overviews == [Cameras -> [role : Roles, slots : 0..MaxSlots]]

(* The state has its types; a question about the end of the session is     *)
(* open while one is under way, once, and above every other dialog.        *)
MapTypeOK ==
  /\ file.kind \in {"absent", "broken", "text"}
  /\ phase \in {"closed", "login", "monitoring"}
  /\ {signingIn, dirty, ending, own, lost} \subseteq BOOLEAN
  /\ page.zones # <<>>
  /\ \A i \in DOMAIN page.zones :
       LET z == page.zones[i] IN
         /\ z.id # NoId /\ z.ch \in ParkingChannels /\ z.order \in Nat \ {0}
         /\ z.area \in Areas \cup {0}
         /\ z.rect.panel \in Channels \cup {"none"} /\ z.rect.inside \in BOOLEAN
  /\ page.overview \in Overviews /\ dialog.working \in Overviews
  /\ dialog.camera \in Cameras /\ dialog.spin \in 1..MaxSlots
  /\ agreed \in {"none", "clean", "discard", "crash"}
  /\ ending => Last(asks) \in {"session", "failure"}
  /\ \A i \in DOMAIN asks :
       asks[i] \in {"session", "failure"} => ending /\ i = Len(asks)

(* While nothing is reported as unsaved, the next start shows what the map *)
(* shows now, channels, areas and overview included: what a save rearranges*)
(* is what it writes, and what it writes is read back as it was.  The one  *)
(* exception is a write that the disk lost, which the code reports as done.*)
CleanMeansStored ==
  phase = "monitoring" /\ ~dirty /\ ~lost => Loaded(file) = page

(* A session that ends, by its timer or by a close, and whichever dialogs  *)
(* were open, leaves the layout of the map on the disk, unless the         *)
(* operator answered that it be discarded, the program died or the disk    *)
(* lost the write.                                                         *)
EndKeepsTheLayout ==
  [][phase = "monitoring" /\ phase' # "monitoring"
       => Loaded(file') = page' \/ agreed' \in {"discard", "crash"} \/ lost']_vars

(* A file this program has written to its end can be loaded and saved      *)
(* again: the layout does not get stuck on its own output.                 *)
WrittenIsSavable ==
  own => Valid(Synced(Loaded(file).zones))
=============================================================================
