------------------------------ MODULE VideoCanvas ------------------------------
(***************************************************************************)
(* The picture on which areas are drawn: IvaVideoCanvas (src/src/iva/      *)
(* ivavideocanvas.cpp).  An area is the rectangle around its polygon, a    *)
(* record of the coordinates of its left, top, right and bottom sides.     *)
(*                                                                         *)
(* A move of the mouse computes the rectangle anew from the one the drag   *)
(* began with, which is all that the drag keeps: the last move decides, so *)
(* where the mouse was pressed and which corner it holds are chosen with   *)
(* it.  A rectangle drawn too small to become an area is just TooSmall.    *)
(***************************************************************************)
EXTENDS Integers

CONSTANTS
    Width, Height,  \* the resolution of the camera's coordinates
    MinSide,        \* the least side of a rectangle, 8.0 in the code
    TooSmall,       \* a rectangle drawn with a smaller side
    None

ASSUME PictureAssumption ==
    /\ Width \in Nat /\ Height \in Nat /\ MinSide \in Nat \ {0}
    /\ MinSide <= Width /\ MinSide <= Height

Sides == [l : 0..Width, t : 0..Height, r : 0..Width, b : 0..Height]
Rects == {s \in Sides : s.r - s.l >= MinSide /\ s.b - s.t >= MinSide}
Points == [x : 0..Width, y : 0..Height]
Offsets == [x : -Width..Width, y : -Height..Height]
Corners == 0..3   \* clockwise, from the upper left one

\* What stands for no rectangle is none.
ASSUME MarkersAssumption == TooSmall \notin Rects /\ None \notin Rects /\ TooSmall # None

Least(m, n) == IF m <= n THEN m ELSE n
Most(m, n) == IF m >= n THEN m ELSE n
Bound(low, v, high) == Most(low, Least(v, high))   \* qBound

----------------------------------------------------------------------------
(* mouseMoveEvent.                                                         *)

Moved(f, d) ==
    LET w == f.r - f.l
        h == f.b - f.t
        left == Bound(0, f.l + d.x, Width - w)
        top == Bound(0, f.t + d.y, Height - h)
    IN [l |-> left, t |-> top, r |-> left + w, b |-> top + h]

\* Mistake: only the side that is dragged is kept from crossing the other one.
StretchedOutside(f, c, p) ==
    [l |-> IF c \in {0, 3} THEN Least(p.x, f.r - MinSide) ELSE f.l,
     t |-> IF c \in {0, 1} THEN Least(p.y, f.b - MinSide) ELSE f.t,
     r |-> IF c \in {1, 2} THEN Most(p.x, f.l) ELSE f.r,
     b |-> IF c \in {2, 3} THEN Most(p.y, f.t + MinSide) ELSE f.b]

Stretched(f, c, p) ==
    LET left == IF c \in {0, 3} THEN Least(p.x, f.r - MinSide) ELSE f.l
        top == IF c \in {0, 1} THEN Least(p.y, f.b - MinSide) ELSE f.t
        right == IF c \in {1, 2} THEN Most(p.x, f.l + MinSide) ELSE f.r
        bottom == IF c \in {2, 3} THEN Most(p.y, f.t + MinSide) ELSE f.b
    IN [l |-> Bound(0, left, Width - MinSide), t |-> Bound(0, top, Height - MinSide),
        r |-> Bound(MinSide, right, Width), b |-> Bound(MinSide, bottom, Height)]

----------------------------------------------------------------------------
(* The state of the canvas, a record of                                    *)
(*   frame     m_frameCompatible                                           *)
(*   draw      m_drawMode                                                  *)
(*   edit      m_editMode                                                  *)
(*   selected  m_selectedAreaIndex, None for -1                            *)
(*   rect      m_editRectangle                                             *)
(*   rubber    the rectangle of m_draftItem                                *)
(*   drag      m_interactionMode and m_dragStartRectangle                  *)

NoDrag == [mode |-> "none", from |-> None]
Drags == [mode : {"none", "draw", "move", "corner"}, from : Rects \cup {None}]

Blank == [frame |-> FALSE, draw |-> FALSE, edit |-> FALSE, selected |-> None, rect |-> None,
          rubber |-> None, drag |-> NoDrag]

\* setChannel.
SetChannel(c) ==
    [c EXCEPT !.selected = None, !.drag = NoDrag, !.rect = None, !.frame = FALSE,
              !.rubber = None]

\* setAreas, which forgets the rectangle that is being edited.
SetAreas(c) == [c EXCEPT !.rect = None]

\* setSelectedAreaIndex, where r is the rectangle of that area on the canvas.
SetSelected(c, i, r) == [c EXCEPT !.selected = i, !.rect = r]

\* Mistake: a drag that edits is not ended.
SetDrawModeKeepingDrag(c, on) ==
    [c EXCEPT !.draw = on, !.drag = IF @.mode = "draw" THEN NoDrag ELSE @,
              !.rubber = IF on THEN @ ELSE None]

\* setDrawMode ends every drag, also one that edits.
SetDrawMode(c, on) ==
    [c EXCEPT !.draw = on, !.drag = NoDrag, !.rubber = IF on THEN @ ELSE None]

\* setEditMode.
SetEditMode(c, on) ==
    [c EXCEPT !.edit = on,
              !.drag = IF ~on /\ @.mode \in {"move", "corner"} THEN NoDrag ELSE @]

\* mousePressEvent on the selected area or a corner of it, and on the picture.
\* The rectangle drawn before stays until the mouse moves.
Press(c, mode) == [c EXCEPT !.drag = [mode |-> mode, from |-> c.rect]]
PressToDraw(c) ==
    [c EXCEPT !.drag = [NoDrag EXCEPT !.mode = "draw"],
              !.rubber = IF @ = None THEN TooSmall ELSE @]

\* mouseMoveEvent, with what the rectangle can become.
Reached(c) ==
    CASE c.drag.mode = "move" -> {Moved(c.drag.from, d) : d \in Offsets}
      [] c.drag.mode = "corner" -> {Stretched(c.drag.from, v, p) : v \in Corners, p \in Points}
      [] OTHER -> {}
DragTo(c, r) == [c EXCEPT !.rect = r]
DrawTo(c, r) == [c EXCEPT !.rubber = r]

\* mouseReleaseEvent, up to its signal.
Release(c) ==
    [c EXCEPT !.drag = NoDrag, !.rubber = IF @ = TooSmall THEN None ELSE @]
=============================================================================
