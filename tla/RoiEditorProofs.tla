--------------------------- MODULE RoiEditorProofs ---------------------------
(***************************************************************************)
(* Proofs about RoiEditor and the VideoCanvas it draws on, for a picture   *)
(* of any size and any areas, slots and configurations: no drag leaves the *)
(* picture, the region that is sent to the Pi is the one the camera has    *)
(* verified for its slot, and a drag that edits ends on the row it began   *)
(* on.                                                                     *)
(*                                                                         *)
(* The page is a record that functions make from one another; each of them *)
(* has lemmas that say of which type its result is, which fields it leaves *)
(* alone (the frames Same...), and that it ends every drag (Quiet).  What  *)
(* the three properties need beyond their own statement is only DragOk: a  *)
(* drag that edits has a rectangle, and none goes on while a request runs. *)
(***************************************************************************)
EXTENDS RoiEditor, Recursion, SequenceTheorems

-----------------------------------------------------------------------------
(* Rectangles of the picture.                                              *)

(* An area that is moved keeps its size and stays in the picture.          *)
LEMMA MovedStays ==
  ASSUME NEW f \in Rects, NEW d \in Offsets
  PROVE  Moved(f, d) \in Rects
<1>1. /\ Width \in Nat /\ Height \in Nat /\ MinSide \in Nat \ {0}
      /\ f.l \in 0..Width /\ f.r \in 0..Width /\ f.t \in 0..Height /\ f.b \in 0..Height
      /\ f.r - f.l >= MinSide /\ f.b - f.t >= MinSide
      /\ d.x \in Int /\ d.y \in Int
  BY PictureAssumption DEF Rects, Sides, Offsets
<1>2. PICK w, h, left, top :
        /\ w = f.r - f.l /\ h = f.b - f.t
        /\ left = Bound(0, f.l + d.x, Width - w) /\ top = Bound(0, f.t + d.y, Height - h)
  OBVIOUS
<1>3. left \in 0..(Width - w) /\ top \in 0..(Height - h)
  BY <1>1, <1>2 DEF Bound, Least, Most
<1>4. PICK right, bottom : right = left + w /\ bottom = top + h
  OBVIOUS
<1>5. Moved(f, d) = [l |-> left, t |-> top, r |-> right, b |-> bottom]
  BY <1>2, <1>4 DEF Moved
<1>6. /\ left \in 0..Width /\ top \in 0..Height /\ right \in 0..Width /\ bottom \in 0..Height
      /\ right - left >= MinSide /\ bottom - top >= MinSide
  BY <1>1, <1>2, <1>3, <1>4
<1> QED BY <1>5, <1>6 DEF Rects, Sides

(* An area that is stretched keeps its sides in the picture and apart.      *)
LEMMA StretchedStays ==
  ASSUME NEW f \in Rects, NEW c \in Corners, NEW p \in Points
  PROVE  Stretched(f, c, p) \in Rects
<1>1. /\ Width \in Nat /\ Height \in Nat /\ MinSide \in Nat /\ MinSide <= Width
      /\ MinSide <= Height
      /\ f.l \in 0..Width /\ f.r \in 0..Width /\ f.t \in 0..Height /\ f.b \in 0..Height
      /\ f.r - f.l >= MinSide /\ f.b - f.t >= MinSide
      /\ p.x \in 0..Width /\ p.y \in 0..Height /\ c \in 0..3
  BY PictureAssumption DEF Rects, Sides, Points, Corners
<1>2. PICK left, top, right, bottom :
        /\ left = IF c \in {0, 3} THEN Least(p.x, f.r - MinSide) ELSE f.l
        /\ top = IF c \in {0, 1} THEN Least(p.y, f.b - MinSide) ELSE f.t
        /\ right = IF c \in {1, 2} THEN Most(p.x, f.l + MinSide) ELSE f.r
        /\ bottom = IF c \in {2, 3} THEN Most(p.y, f.t + MinSide) ELSE f.b
  OBVIOUS
<1>3. PICK l, t, r, b :
        /\ l = Bound(0, left, Width - MinSide) /\ t = Bound(0, top, Height - MinSide)
        /\ r = Bound(MinSide, right, Width) /\ b = Bound(MinSide, bottom, Height)
  OBVIOUS
<1>4. l \in 0..Width /\ r \in 0..Width /\ r - l >= MinSide
  <2>1. CASE c \in {0, 3}
    <3>1. l = Bound(0, Least(p.x, f.r - MinSide), Width - MinSide) /\ r = Bound(MinSide, f.r, Width)
      BY <1>1, <1>2, <1>3, <2>1
    <3> QED BY <1>1, <3>1 DEF Bound, Least, Most
  <2>2. CASE c \notin {0, 3}
    <3>1. l = Bound(0, f.l, Width - MinSide) /\ r = Bound(MinSide, Most(p.x, f.l + MinSide), Width)
      BY <1>1, <1>2, <1>3, <2>2
    <3> QED BY <1>1, <3>1 DEF Bound, Least, Most
  <2> QED BY <2>1, <2>2
<1>5. t \in 0..Height /\ b \in 0..Height /\ b - t >= MinSide
  <2>1. CASE c \in {0, 1}
    <3>1. t = Bound(0, Least(p.y, f.b - MinSide), Height - MinSide) /\ b = Bound(MinSide, f.b, Height)
      BY <1>1, <1>2, <1>3, <2>1
    <3> QED BY <1>1, <3>1 DEF Bound, Least, Most
  <2>2. CASE c \notin {0, 1}
    <3>1. t = Bound(0, f.t, Height - MinSide) /\ b = Bound(MinSide, Most(p.y, f.t + MinSide), Height)
      BY <1>1, <1>2, <1>3, <2>2
    <3> QED BY <1>1, <3>1 DEF Bound, Least, Most
  <2> QED BY <2>1, <2>2
<1>6. Stretched(f, c, p) = [l |-> l, t |-> t, r |-> r, b |-> b]
  BY <1>2, <1>3 DEF Stretched
<1> QED BY <1>4, <1>5, <1>6 DEF Rects, Sides

-----------------------------------------------------------------------------
(* Configurations.                                                         *)

(* Each row is an area.                                                    *)
LEMMA RowsAreAreas ==
  ASSUME NEW config \in Seq(Area)
  PROVE  /\ Len(config) \in Nat /\ DOMAIN config = 1..Len(config)
         /\ \A k \in DOMAIN config : k \in Nat \ {0} /\ config[k] \in Area
BY LenProperties, ElementOfSeq

(* The areas of the camera, channel by channel, are a configuration.       *)
LEMMA AllTyped ==
  ASSUME NEW cam \in [Channels -> Seq(Area)]
  PROVE  All(cam) \in Seq(Area)
<1> DEFINE V == Seq(Area)
           N == NChannels
           Next(v, k) == v \o cam[k]
           step == [k \in 1..N |-> [v \in V |-> Next(v, k)]]
           After(f) == [k \in 0..N |-> IF k = 0 THEN <<>> ELSE Next(f[k - 1], k)]
           upTo == CHOOSE f : f = After(f)
<1>1. All(cam) = upTo[N]
  BY DEF All
<1>2. N \in Nat /\ <<>> \in V
  BY EditorAssumption
<1>3. \A v \in V, k \in 1..N : Next(v, k) \in V
  <2>1. \A k \in 1..N : cam[k] \in V
    BY DEF Channels
  <2>2. \A v, w \in V : v \o w \in V
    BY ConcatProperties
  <2> QED BY <2>1, <2>2
<1> HIDE DEF Next, V, N
<1>4. step \in [1..N -> [V -> V]]
  BY <1>3
<1>5. PICK g : IsRun(g, N, V, <<>>, step)
  <2>1. step \in Steps(N, V)
    BY <1>4 DEF Steps
  <2> HIDE DEF step
  <2> QED BY <1>2, <2>1, RecursionRuns
<1>6. \A k \in 1..N : k - 1 \in 0..N /\ g[k - 1] \in V
  BY <1>2, <1>5 DEF IsRun
<1>7. \A k \in 1..N : g[k] = Next(g[k - 1], k)
  BY <1>5, <1>6 DEF IsRun
<1>8. g = After(g)
  BY <1>2, <1>5, <1>7 DEF IsRun
<1>9. upTo = After(upTo)
  <2> HIDE DEF After
  <2> QED BY <1>8
<1> HIDE DEF upTo
<1>10. upTo[0] = <<>> /\ \A k \in 1..N : upTo[k] = Next(upTo[k - 1], k)
  BY <1>2, <1>9
<1> DEFINE T == {k \in 0..N : upTo[k] \in V}
<1>11. 0 \in T
  BY <1>2, <1>10
<1>12. ASSUME NEW k \in 1..N, k - 1 \in T PROVE k \in T
  BY <1>2, <1>3, <1>10, <1>12
<1>13. N \in T
  <2> HIDE DEF T
  <2>1. \A k \in 0..N : k \in T
    BY <1>2, <1>11, <1>12, UpTo
  <2> QED BY <1>2, <2>1
<1> QED BY <1>1, <1>13 DEF V

(* Some rows of a configuration are a configuration.                       *)
LEMMA OnlyTyped ==
  ASSUME NEW config \in Seq(Area), NEW rows
  PROVE  Only(config, rows) \in Seq(Area)
<1> DEFINE V == Seq(Area)
           N == Len(config)
           Next(v, k) == IF k \in rows THEN Append(v, config[k]) ELSE v
           step == [k \in 1..N |-> [v \in V |-> Next(v, k)]]
           After(f) == [k \in 0..N |-> IF k = 0 THEN <<>> ELSE Next(f[k - 1], k)]
           upTo == CHOOSE f : f = After(f)
<1>1. Only(config, rows) = upTo[N]
  BY DEF Only
<1>2. N \in Nat /\ <<>> \in V
  BY RowsAreAreas
<1>3. \A v \in V, k \in 1..N : Next(v, k) \in V
  <2>1. \A k \in 1..N : config[k] \in Area
    BY RowsAreAreas
  <2>2. \A v \in V, a \in Area : Append(v, a) \in V
    BY AppendProperties
  <2> QED BY <2>1, <2>2
<1> HIDE DEF Next, V, N
<1>4. step \in [1..N -> [V -> V]]
  BY <1>3
<1>5. PICK g : IsRun(g, N, V, <<>>, step)
  <2>1. step \in Steps(N, V)
    BY <1>4 DEF Steps
  <2> HIDE DEF step
  <2> QED BY <1>2, <2>1, RecursionRuns
<1>6. \A k \in 1..N : k - 1 \in 0..N /\ g[k - 1] \in V
  BY <1>2, <1>5 DEF IsRun
<1>7. \A k \in 1..N : g[k] = Next(g[k - 1], k)
  BY <1>5, <1>6 DEF IsRun
<1>8. g = After(g)
  BY <1>2, <1>5, <1>7 DEF IsRun
<1>9. upTo = After(upTo)
  <2> HIDE DEF After
  <2> QED BY <1>8
<1> HIDE DEF upTo
<1>10. upTo[0] = <<>> /\ \A k \in 1..N : upTo[k] = Next(upTo[k - 1], k)
  BY <1>2, <1>9
<1> DEFINE T == {k \in 0..N : upTo[k] \in V}
<1>11. 0 \in T
  BY <1>2, <1>10
<1>12. ASSUME NEW k \in 1..N, k - 1 \in T PROVE k \in T
  BY <1>2, <1>3, <1>10, <1>12
<1>13. N \in T
  <2> HIDE DEF T
  <2>1. \A k \in 0..N : k \in T
    BY <1>2, <1>11, <1>12, UpTo
  <2> QED BY <1>2, <2>1
<1> QED BY <1>1, <1>13 DEF V

(* The first and the last of some rows are among them.                     *)
LEMMA FirstAndLast ==
  ASSUME NEW S \in SUBSET Nat, NEW n \in Nat, S \subseteq 1..n, S # {}
  PROVE  Min(S) \in S /\ Max(S) \in S
<1>1. \E m \in S : \A j \in S : j <= m
  BY GreatestExists
<1>2. \E m \in S : \A j \in S : m <= j
  <2> DEFINE U == {n + 1 - j : j \in S}
  <2>1. U \in SUBSET (1..n) /\ U # {}
    <3>1. \A j \in S : n + 1 - j \in 1..n
      OBVIOUS
    <3> QED BY <3>1
  <2>2. PICK u \in U : \A v \in U : v <= u
    BY <2>1, GreatestExists
  <2>3. PICK m \in S : u = n + 1 - m
    BY <2>2
  <2>4. ASSUME NEW j \in S PROVE m <= j
    <3>1. n + 1 - j \in U
      BY <2>4
    <3>2. n + 1 - j <= n + 1 - m
      BY <2>2, <2>3, <3>1
    <3> QED BY <3>2
  <2> QED BY <2>4
<1> QED BY <1>1, <1>2 DEF Min, Max

LEMMA SomeRow ==
  ASSUME NEW config \in Seq(Area), NEW S \in SUBSET (DOMAIN config), S # {}
  PROVE  Min(S) \in S /\ Max(S) \in S
BY RowsAreAreas, FirstAndLast

(* A row is removed, or another area put into it.                          *)
LEMMA RowChanges ==
  ASSUME NEW config \in Seq(Area), NEW k \in DOMAIN config, NEW a \in Area
  PROVE  /\ RemoveAt(config, k) \in Seq(Area)
         /\ ReplaceAt(config, k, a) \in Seq(Area)
         /\ [config EXCEPT ![k] = a] \in Seq(Area)
         /\ Len([config EXCEPT ![k] = a]) = Len(config)
<1>1. Len(config) \in Nat /\ k \in 1..Len(config)
  BY RowsAreAreas
<1>2. SubSeq(config, 1, k - 1) \in Seq(Area) /\ SubSeq(config, k + 1, Len(config)) \in Seq(Area)
  BY <1>1
<1>3. RemoveAt(config, k) \in Seq(Area)
  BY <1>2, ConcatProperties DEF RemoveAt
<1>4. [config EXCEPT ![k] = a] \in Seq(Area) /\ Len([config EXCEPT ![k] = a]) = Len(config)
  BY <1>1, ExceptSeq
<1> QED BY <1>3, <1>4 DEF ReplaceAt

-----------------------------------------------------------------------------
(* The canvas.                                                             *)

(* A drag that edits has the rectangle it began with and the one it has    *)
(* come to, and goes on only while areas can be edited; one that draws has *)
(* drawn something.                                                        *)
DragOk(c) ==
  /\ c.drag.mode \in EditingDrags => c.drag.from \in Rects /\ c.rect \in Rects /\ c.edit
  /\ c.drag.mode = "draw" => c.rubber # None

LEMMA SettersTyped ==
  ASSUME NEW c \in CanvasType
  PROVE  /\ SetChannel(c) \in CanvasType /\ SetAreas(c) \in CanvasType
         /\ \A i \in Indices \cup {None}, r \in Rects \cup {None} :
              SetSelected(c, i, r) \in CanvasType
<1>1. SetChannel(c) \in CanvasType
  BY DEF SetChannel, CanvasType, NoDrag, Drags
<1>2. SetAreas(c) \in CanvasType
  BY DEF SetAreas, CanvasType
<1>3. ASSUME NEW i \in Indices \cup {None}, NEW r \in Rects \cup {None}
      PROVE  SetSelected(c, i, r) \in CanvasType
  BY DEF SetSelected, CanvasType
<1> QED BY <1>1, <1>2, <1>3

(* What the buttons allow; every drag ends.                                *)
LEMMA ButtonsEndDrags ==
  ASSUME NEW c \in CanvasType, NEW draw \in BOOLEAN, NEW edit \in BOOLEAN
  PROVE  /\ SetEditMode(SetDrawMode(c, draw), edit) \in CanvasType
         /\ SetEditMode(SetDrawMode(c, draw), edit).drag = NoDrag
         /\ SetEditMode(SetDrawMode(c, draw), edit).edit = edit
<1>1. PICK u : u = SetDrawMode(c, draw)
  OBVIOUS
<1>2. u \in CanvasType /\ u.drag = NoDrag
  BY <1>1 DEF SetDrawMode, CanvasType, NoDrag, Drags
<1>3. PICK v : v = SetEditMode(u, edit)
  OBVIOUS
<1>4. v = [u EXCEPT !.edit = edit]
  <2>1. u.drag.mode \notin {"move", "corner"}
    BY <1>2 DEF NoDrag
  <2>2. v = [u EXCEPT !.edit = edit, !.drag = u.drag]
    BY <1>3, <2>1 DEF SetEditMode
  <2> QED BY <1>2, <2>2 DEF CanvasType
<1>5. v \in CanvasType /\ v.drag = NoDrag /\ v.edit = edit
  BY <1>2, <1>4 DEF CanvasType
<1> QED BY <1>1, <1>3, <1>5

(* The mouse is pressed.                                                   *)
LEMMA PressesOk ==
  ASSUME NEW c \in CanvasType
  PROVE  /\ \A mode \in EditingDrags : c.edit /\ c.rect # None =>
              Press(c, mode) \in CanvasType /\ DragOk(Press(c, mode))
              /\ Press(c, mode).edit = c.edit
         /\ PressToDraw(c) \in CanvasType /\ DragOk(PressToDraw(c))
         /\ PressToDraw(c).edit = c.edit /\ PressToDraw(c).drag.mode = "draw"
<1>1. ASSUME NEW mode \in EditingDrags, c.edit, c.rect # None
      PROVE  Press(c, mode) \in CanvasType /\ DragOk(Press(c, mode))
             /\ Press(c, mode).edit = c.edit
  <2>1. c.rect \in Rects
    BY <1>1 DEF CanvasType
  <2>2. PICK d : d = [mode |-> mode, from |-> c.rect]
    OBVIOUS
  <2>3. d \in Drags /\ d.mode = mode /\ d.from = c.rect /\ mode # "draw"
    BY <2>1, <2>2 DEF Drags, EditingDrags
  <2>4. PICK v : v = [c EXCEPT !.drag = d]
    OBVIOUS
  <2>5. v \in CanvasType /\ v.drag = d /\ v.rect = c.rect /\ v.edit = c.edit
    BY <2>3, <2>4 DEF CanvasType
  <2>6. v = Press(c, mode)
    BY <2>2, <2>4 DEF Press
  <2> QED BY <1>1, <2>1, <2>3, <2>5, <2>6 DEF DragOk
<1>2. /\ PressToDraw(c) \in CanvasType /\ DragOk(PressToDraw(c))
      /\ PressToDraw(c).edit = c.edit /\ PressToDraw(c).drag.mode = "draw"
  <2>1. PICK d : d = [NoDrag EXCEPT !.mode = "draw"]
    OBVIOUS
  <2>2. d \in Drags /\ d.mode = "draw" /\ d.mode \notin EditingDrags
    BY <2>1 DEF Drags, NoDrag, EditingDrags
  <2>3. PICK rubber : rubber = IF c.rubber = None THEN TooSmall ELSE c.rubber
    OBVIOUS
  <2>4. rubber \in Rects \cup {TooSmall, None} /\ rubber # None
    BY <2>3, MarkersAssumption DEF CanvasType
  <2>5. PICK v : v = [c EXCEPT !.drag = d, !.rubber = rubber]
    OBVIOUS
  <2>6. v \in CanvasType /\ v.drag = d /\ v.rubber = rubber /\ v.edit = c.edit
    BY <2>2, <2>4, <2>5 DEF CanvasType
  <2>7. v = PressToDraw(c)
    BY <2>1, <2>3, <2>5 DEF PressToDraw
  <2> QED BY <2>2, <2>4, <2>6, <2>7 DEF DragOk
<1> QED BY <1>1, <1>2

(* It moves: an area that is edited stays in the picture.                  *)
LEMMA ReachedStays ==
  ASSUME NEW c \in CanvasType, DragOk(c), NEW r \in Reached(c)
  PROVE  r \in Rects /\ c.drag.mode \in EditingDrags
<1>1. CASE c.drag.mode = "move"
  <2>1. c.drag.from \in Rects /\ c.drag.mode \in EditingDrags
    BY <1>1 DEF DragOk, EditingDrags
  <2>2. PICK d \in Offsets : r = Moved(c.drag.from, d)
    BY <1>1 DEF Reached
  <2> QED BY <2>1, <2>2, MovedStays
<1>2. CASE c.drag.mode = "corner"
  <2>1. c.drag.from \in Rects /\ c.drag.mode \in EditingDrags
    BY <1>2 DEF DragOk, EditingDrags
  <2>2. PICK v \in Corners, p \in Points : r = Stretched(c.drag.from, v, p)
    BY <1>2 DEF Reached
  <2> QED BY <2>1, <2>2, StretchedStays
<1>3. CASE c.drag.mode # "move" /\ c.drag.mode # "corner"
  BY <1>3 DEF Reached
<1> QED BY <1>1, <1>2, <1>3

LEMMA MovesOk ==
  ASSUME NEW c \in CanvasType, DragOk(c)
  PROVE  /\ \A r \in Reached(c) :
              /\ DragTo(c, r) \in CanvasType /\ DragOk(DragTo(c, r))
              /\ DragTo(c, r).edit = c.edit /\ DragTo(c, r).drag = c.drag
              /\ DragTo(c, r).selected = c.selected
         /\ \A r \in Rects \cup {TooSmall} : c.drag.mode = "draw" =>
              /\ DrawTo(c, r) \in CanvasType /\ DragOk(DrawTo(c, r))
              /\ DrawTo(c, r).edit = c.edit /\ DrawTo(c, r).drag = c.drag
<1>1. ASSUME NEW r \in Reached(c)
      PROVE  /\ DragTo(c, r) \in CanvasType /\ DragOk(DragTo(c, r))
             /\ DragTo(c, r).edit = c.edit /\ DragTo(c, r).drag = c.drag
             /\ DragTo(c, r).selected = c.selected
  <2>1. r \in Rects /\ c.drag.mode \in EditingDrags
    BY ReachedStays
  <2>2. PICK v : v = DragTo(c, r)
    OBVIOUS
  <2>3. /\ v \in CanvasType /\ v.drag = c.drag /\ v.rect = r /\ v.edit = c.edit
        /\ v.rubber = c.rubber /\ v.selected = c.selected
    BY <2>1, <2>2 DEF DragTo, CanvasType
  <2> QED BY <2>1, <2>2, <2>3 DEF DragOk
<1>2. ASSUME NEW r \in Rects \cup {TooSmall}, c.drag.mode = "draw"
      PROVE  /\ DrawTo(c, r) \in CanvasType /\ DragOk(DrawTo(c, r))
             /\ DrawTo(c, r).edit = c.edit /\ DrawTo(c, r).drag = c.drag
  <2>1. r # None
    BY MarkersAssumption
  <2>2. PICK v : v = DrawTo(c, r)
    OBVIOUS
  <2>3. v \in CanvasType /\ v.drag = c.drag /\ v.rect = c.rect /\ v.edit = c.edit /\ v.rubber = r
    BY <2>2 DEF DrawTo, CanvasType
  <2> QED BY <2>1, <2>2, <2>3 DEF DragOk
<1> QED BY <1>1, <1>2

(* It is released.                                                         *)
LEMMA ReleaseOk ==
  ASSUME NEW c \in CanvasType
  PROVE  /\ Release(c) \in CanvasType /\ Release(c).drag = NoDrag
         /\ Release(c).edit = c.edit
BY DEF Release, CanvasType, NoDrag, Drags

-----------------------------------------------------------------------------
(* The page: what its functions return and what they leave alone.          *)

SameConfig(q, p) == q.config = p.config /\ q.saved = p.saved /\ q.draft = p.draft
SameEdits(q, p) ==
  /\ q.dirty = p.dirty /\ q.piDirty = p.piDirty /\ q.deleting = p.deleting
  /\ q.then = p.then /\ q.combined = p.combined /\ q.leaving = p.leaving /\ q.away = p.away
SameRequest(q, p) == q.inFlight = p.inFlight /\ q.stage = p.stage /\ q.pi = p.pi
SameEditor(q, p) ==
  q.row = p.row /\ q.fields = p.fields /\ q.channel = p.channel /\ q.slot = p.slot
  /\ q.preview = p.preview

(* Nothing of what a save reads and writes, and of what it is about.       *)
SameSave(q, p) == SameConfig(q, p) /\ SameEdits(q, p) /\ SameRequest(q, p)

(* No drag goes on, and none that edits can begin while a request runs.    *)
Quiet(p) == p.canvas.drag = NoDrag /\ (p.canvas.edit => ~AnyRequest(p))

Rectangle(r) == r \in Rects \cup {None}
FieldsType == [index : Indices, name : Names, rect : Rects]

LEMMA ChainsOfSaves ==
  ASSUME NEW p, NEW q, NEW r, SameSave(q, p), SameSave(r, q)
  PROVE  SameSave(r, p)
BY DEF SameSave, SameConfig, SameEdits, SameRequest

(* A new canvas.                                                           *)
LEMMA OnlyTheCanvas ==
  ASSUME NEW p \in PageType, NEW c \in CanvasType
  PROVE  LET v == [p EXCEPT !.canvas = c] IN
         /\ v \in PageType /\ v.canvas = c
         /\ SameSave(v, p) /\ SameEditor(v, p)
BY DEF PageType, SameSave, SameConfig, SameEdits, SameRequest, SameEditor

LEMMA UpdatesButtons ==
  ASSUME NEW p \in PageType
  PROVE  /\ UpdateButtons(p) \in PageType /\ Quiet(UpdateButtons(p))
         /\ SameSave(UpdateButtons(p), p) /\ SameEditor(UpdateButtons(p), p)
<1>1. PICK draw \in BOOLEAN, edit \in BOOLEAN :
        /\ UpdateButtons(p) =
             [p EXCEPT !.canvas = SetEditMode(SetDrawMode(p.canvas, draw), edit)]
        /\ edit => ~AnyRequest(p)
  BY DEF UpdateButtons, PageType, CanvasType, AnyRequest
<1>2. PICK c : c = SetEditMode(SetDrawMode(p.canvas, draw), edit)
  OBVIOUS
<1>3. c \in CanvasType /\ c.drag = NoDrag /\ c.edit = edit
  <2>1. p.canvas \in CanvasType
    BY DEF PageType
  <2> QED BY <1>2, <2>1, ButtonsEndDrags
<1>4. PICK v : v = [p EXCEPT !.canvas = c]
  OBVIOUS
<1>5. v \in PageType /\ v.canvas = c /\ SameSave(v, p) /\ SameEditor(v, p)
  BY <1>3, <1>4, OnlyTheCanvas
<1>6. v = UpdateButtons(p)
  BY <1>1, <1>2, <1>4
<1>7. Quiet(v)
  BY <1>1, <1>3, <1>5 DEF Quiet, AnyRequest, SameSave, SameRequest
<1> QED BY <1>5, <1>6, <1>7

LEMMA ShowsSelected ==
  ASSUME NEW p \in PageType, NEW i \in Indices \cup {None}
  PROVE  /\ ShowSelected(p, i) \in PageType
         /\ SameSave(ShowSelected(p, i), p) /\ SameEditor(ShowSelected(p, i), p)
<1> DEFINE drawn == {k \in RowsOf(p.config, p.channel) : p.config[k].index = i}
<1>1. PICK r : r = IF drawn = {} THEN None ELSE p.config[Min(drawn)].rect
  OBVIOUS
<1>2. r \in Rects \cup {None}
  <2>1. CASE drawn = {}
    BY <1>1, <2>1
  <2>2. CASE drawn # {}
    <3>1. p.config \in Seq(Area) /\ drawn \in SUBSET (DOMAIN p.config)
      BY DEF PageType, RowsOf
    <3>2. Min(drawn) \in DOMAIN p.config
      <4> HIDE DEF drawn
      <4> QED BY <2>2, <3>1, SomeRow
    <3>3. p.config[Min(drawn)] \in Area
      BY <3>1, <3>2, RowsAreAreas
    <3> QED BY <1>1, <2>2, <3>3 DEF Area
  <2> QED BY <2>1, <2>2
<1>3. PICK c : c = SetSelected(p.canvas, i, r)
  OBVIOUS
<1>4. c \in CanvasType
  <2>1. p.canvas \in CanvasType
    BY DEF PageType
  <2> QED BY <1>2, <1>3, <2>1, SettersTyped
<1>5. ShowSelected(p, i) = [p EXCEPT !.canvas = c]
  BY <1>1, <1>3 DEF ShowSelected
<1> QED BY <1>4, <1>5, OnlyTheCanvas

LEMMA UpdatesOverlays ==
  ASSUME NEW p \in PageType
  PROVE  /\ UpdateOverlays(p) \in PageType
         /\ SameSave(UpdateOverlays(p), p) /\ SameEditor(UpdateOverlays(p), p)
<1>1. PICK q : q = [p EXCEPT !.canvas = SetAreas(p.canvas)]
  OBVIOUS
<1>2. q \in PageType /\ SameSave(q, p) /\ SameEditor(q, p)
  <2>1. PICK c : c = SetAreas(p.canvas)
    OBVIOUS
  <2>2. c \in CanvasType
    BY <2>1, SettersTyped DEF PageType
  <2> QED BY <1>1, <2>1, <2>2, OnlyTheCanvas
<1>3. CASE p.row \in RowsOf(p.config, p.channel)
  <2>1. PICK i : i = p.config[p.row].index
    OBVIOUS
  <2>2. i \in Indices \cup {None}
    <3>1. p.config \in Seq(Area) /\ p.row \in DOMAIN p.config
      BY <1>3 DEF PageType, RowsOf
    <3> QED BY <2>1, <3>1, RowsAreAreas DEF Area
  <2>3. UpdateOverlays(p) = ShowSelected(q, i)
    <3>1. q.config = p.config
      BY <1>2 DEF SameSave, SameConfig
    <3>2. UpdateOverlays(p) = ShowSelected(q, p.config[p.row].index)
      BY <1>1, <1>3 DEF UpdateOverlays
    <3> QED BY <2>1, <3>2
  <2>4. PICK v : v = ShowSelected(q, i)
    OBVIOUS
  <2>5. v \in PageType /\ SameSave(v, q) /\ SameEditor(v, q)
    BY <1>2, <2>2, <2>4, ShowsSelected
  <2>6. SameSave(v, p) /\ SameEditor(v, p)
    BY <1>2, <2>5, ChainsOfSaves DEF SameEditor
  <2> QED BY <2>3, <2>4, <2>5, <2>6
<1>4. CASE p.row \notin RowsOf(p.config, p.channel)
  <2>1. UpdateOverlays(p) = q
    BY <1>1, <1>4 DEF UpdateOverlays
  <2> QED BY <1>2, <2>1
<1> QED BY <1>3, <1>4

(* The slot that is mapped to an area is a slot of the map.                *)
LEMMA SlotsOfAreas ==
  ASSUME NEW c, NEW i
  PROVE  /\ SlotFor(c, i) \in Slots \cup {None}
         /\ SlotFor(c, i) # None =>
              /\ Mapping(SlotFor(c, i)).channel = c
              /\ i # None => Mapping(SlotFor(c, i)).index = i
<1> DEFINE fits == {k \in DOMAIN Mappings :
                      Mappings[k].channel = c /\ (i = None \/ Mappings[k].index = i)}
<1>1. SlotFor(c, i) = IF fits = {} THEN None ELSE Mappings[Min(fits)].slot
  BY DEF SlotFor
<1>2. CASE fits = {}
  BY <1>1, <1>2
<1>3. CASE fits # {}
  <2>1. PICK n \in Nat : DOMAIN Mappings = 1..n
    <3>1. Len(Mappings) \in Nat /\ DOMAIN Mappings = 1..Len(Mappings)
      BY EditorAssumption, LenProperties
    <3> QED BY <3>1
  <2>2. Min(fits) \in fits
    <3>1. fits \in SUBSET Nat /\ fits \subseteq 1..n
      BY <2>1
    <3> HIDE DEF fits
    <3> QED BY <1>3, <3>1, FirstAndLast
  <2>3. PICK k \in DOMAIN Mappings :
          /\ k = Min(fits) /\ Mappings[k].channel = c /\ (i = None \/ Mappings[k].index = i)
    BY <2>2
  <2>4. SlotFor(c, i) = Mappings[k].slot
    <3> HIDE DEF fits
    <3> QED BY <1>1, <1>3, <2>3
  <2>5. Mapping(Mappings[k].slot) = Mappings[k]
    <3>1. \A m \in ToSet(Mappings) : m.slot = Mappings[k].slot => m = Mappings[k]
      BY EditorAssumption DEF ToSet
    <3>2. Mappings[k] \in ToSet(Mappings)
      BY DEF ToSet
    <3> QED BY <3>1, <3>2 DEF Mapping
  <2>6. Mappings[k].slot \in Slots
    BY DEF Slots
  <2> HIDE DEF fits
  <2> QED BY <2>3, <2>4, <2>5, <2>6
<1> QED BY <1>2, <1>3

(* Each slot is mapped to an area that a camera can have.                  *)
LEMMA MappingTyped ==
  ASSUME NEW s \in Slots
  PROVE  /\ Mapping(s).channel \in Channels /\ Mapping(s).index \in Indices
         /\ s # None /\ MappedIndex(s) = Mapping(s).index
<1>1. PICK k \in DOMAIN Mappings : s = Mappings[k].slot
  BY DEF Slots
<1>2. Mapping(s) \in ToSet(Mappings)
  BY <1>1 DEF Mapping, ToSet
<1>3. \A m \in ToSet(Mappings) : m.channel \in Channels /\ m.index \in Indices
  <2>1. \A j \in DOMAIN Mappings :
          Mappings[j] \in [slot : Slots, channel : Channels, index : Indices]
    BY EditorAssumption, LenProperties, ElementOfSeq
  <2> QED BY <2>1 DEF ToSet
<1>4. s # None
  BY EditorAssumption
<1> QED BY <1>2, <1>3, <1>4 DEF MappedIndex

-----------------------------------------------------------------------------
(* The editor: the selected row and its fields.                            *)

FieldsOk(p) == p.row = 0 <=> p.fields = NoFields

(* The editor is empty or of a row of the table.                           *)
Filled(p) == p \in PageType /\ FieldsOk(p) /\ p.row \in 0..Len(p.config)

(* It shows its row as the table has it, and the slot mapped to that area. *)
Showing(p) ==
  p.row # 0 =>
    /\ p.row \in DOMAIN p.config
    /\ p.fields.index = p.config[p.row].index /\ p.fields.rect = p.config[p.row].rect
    /\ p.slot = SlotFor(p.config[p.row].channel, p.config[p.row].index)

LEMMA FieldsAreSome ==
  ASSUME NEW f \in FieldsType
  PROVE  f # NoFields
BY EditorAssumption DEF FieldsType, NoFields

LEMMA StaysFilled ==
  ASSUME NEW p, Filled(p), NEW v \in PageType, SameEditor(v, p), v.config = p.config
  PROVE  Filled(v)
BY DEF Filled, FieldsOk, SameEditor

LEMMA StaysShowing ==
  ASSUME NEW p, Showing(p), NEW v, SameEditor(v, p), v.config = p.config
  PROVE  Showing(v)
BY DEF Showing, SameEditor

LEMMA SelectsChannel ==
  ASSUME NEW p \in PageType, NEW c \in Channels
  PROVE  LET v == SelectChannel(p, c) IN
         /\ v \in PageType /\ Quiet(v) /\ SameSave(v, p)
         /\ v.row = p.row /\ v.fields = p.fields /\ v.channel = c
<1>1. PICK s : s = SlotFor(c, MappedIndex(p.slot))
  OBVIOUS
<1>2. s \in Slots \cup {None}
  BY <1>1, SlotsOfAreas
<1>3. PICK x : x = SetChannel(p.canvas)
  OBVIOUS
<1>4. x \in CanvasType
  BY <1>3, SettersTyped DEF PageType
<1>5. PICK q : q = [p EXCEPT !.channel = c, !.preview = FALSE, !.canvas = x, !.slot = s]
  OBVIOUS
<1>6. /\ q \in PageType /\ SameSave(q, p)
      /\ q.row = p.row /\ q.fields = p.fields /\ q.channel = c
  BY <1>2, <1>4, <1>5 DEF PageType, SameSave, SameConfig, SameEdits, SameRequest
<1>7. PICK u : u = UpdateOverlays(q)
  OBVIOUS
<1>8. u \in PageType /\ SameSave(u, q) /\ SameEditor(u, q)
  BY <1>6, <1>7, UpdatesOverlays
<1>9. PICK v : v = UpdateButtons(u)
  OBVIOUS
<1>10. v \in PageType /\ Quiet(v) /\ SameSave(v, u) /\ SameEditor(v, u)
  BY <1>8, <1>9, UpdatesButtons
<1>11. SelectChannel(p, c) = v
  BY <1>1, <1>3, <1>5, <1>7, <1>9 DEF SelectChannel
<1>12. SameSave(v, p)
  BY <1>6, <1>8, <1>10, ChainsOfSaves
<1>13. v.row = p.row /\ v.fields = p.fields /\ v.channel = c
  BY <1>6, <1>8, <1>10 DEF SameEditor
<1> QED BY <1>10, <1>11, <1>12, <1>13

LEMMA ClearsEditor ==
  ASSUME NEW p \in PageType
  PROVE  LET v == ClearEditor(p) IN
         /\ Filled(v) /\ Showing(v) /\ Quiet(v) /\ SameSave(v, p)
         /\ v.row = 0
<1>1. PICK q : q = [p EXCEPT !.row = 0, !.fields = NoFields]
  OBVIOUS
<1>2. q \in PageType /\ SameSave(q, p) /\ q.row = 0 /\ q.fields = NoFields
  BY <1>1 DEF PageType, SameSave, SameConfig, SameEdits, SameRequest
<1>3. PICK v : v = UpdateButtons(q)
  OBVIOUS
<1>4. v \in PageType /\ Quiet(v) /\ SameSave(v, q) /\ SameEditor(v, q)
  BY <1>2, <1>3, UpdatesButtons
<1>5. ClearEditor(p) = v
  BY <1>1, <1>3 DEF ClearEditor
<1>6. SameSave(v, p)
  BY <1>2, <1>4, ChainsOfSaves
<1>7. v.row = 0 /\ v.fields = NoFields
  BY <1>2, <1>4 DEF SameEditor
<1>8. Len(v.config) \in Nat
  BY <1>4, RowsAreAreas DEF PageType
<1>9. Filled(v) /\ Showing(v)
  BY <1>4, <1>7, <1>8 DEF Filled, FieldsOk, Showing
<1> QED BY <1>4, <1>5, <1>6, <1>7, <1>9

LEMMA PopulatesEditor ==
  ASSUME NEW p \in PageType, NEW row
  PROVE  LET v == PopulateEditor(p, row) IN
         Filled(v) /\ Showing(v) /\ Quiet(v) /\ SameSave(v, p)
<1>1. CASE row \notin DOMAIN p.config
  <2>1. PopulateEditor(p, row) = ClearEditor(p)
    BY <1>1 DEF PopulateEditor
  <2> QED BY <2>1, ClearsEditor
<1>2. CASE row \in DOMAIN p.config
  <2>1. p.config \in Seq(Area)
    BY DEF PageType
  <2>2. row \in 1..Len(p.config) /\ row \in Nat \ {0} /\ Len(p.config) \in Nat
    BY <1>2, <2>1, RowsAreAreas
  <2>3. PICK a \in Area : a = p.config[row]
    BY <1>2, <2>1, RowsAreAreas
  <2>4. a.channel \in Channels /\ a.index \in Indices /\ a.name \in Names /\ a.rect \in Rects
    BY DEF Area
  <2>5. PICK q : q = [p EXCEPT !.row = row]
    OBVIOUS
  <2>6. q \in PageType /\ SameSave(q, p) /\ q.row = row
    BY <2>2, <2>5 DEF PageType, SameSave, SameConfig, SameEdits, SameRequest
  <2>7. PICK s : s = IF a.channel = p.channel THEN q ELSE SelectChannel(q, a.channel)
    OBVIOUS
  <2>8. s \in PageType /\ SameSave(s, p) /\ s.row = row
    <3>1. CASE a.channel = p.channel
      BY <2>6, <2>7, <3>1
    <3>2. CASE a.channel # p.channel
      <4>1. s \in PageType /\ SameSave(s, q) /\ s.row = q.row
        BY <2>4, <2>6, <2>7, <3>2, SelectsChannel
      <4>2. SameSave(s, p)
        BY <2>6, <4>1, ChainsOfSaves
      <4> QED BY <2>6, <4>1, <4>2
    <3> QED BY <3>1, <3>2
  <2>9. PICK r : r = ShowSelected(s, a.index)
    OBVIOUS
  <2>10. r \in PageType /\ SameSave(r, s) /\ r.row = row
    <3>1. r \in PageType /\ SameSave(r, s) /\ SameEditor(r, s)
      BY <2>4, <2>8, <2>9, ShowsSelected
    <3> QED BY <2>8, <3>1 DEF SameEditor
  <2>11. PICK slot : slot = SlotFor(a.channel, a.index)
    OBVIOUS
  <2>12. PICK f : f = [index |-> a.index, name |-> a.name, rect |-> a.rect]
    OBVIOUS
  <2>13. f \in FieldsType /\ f.index = a.index /\ f.rect = a.rect
    BY <2>4, <2>12 DEF FieldsType
  <2>14. slot \in Slots \cup {None}
    BY <2>11, SlotsOfAreas
  <2>15. PICK w : w = [r EXCEPT !.slot = slot, !.fields = f]
    OBVIOUS
  <2>16. w \in PageType /\ SameSave(w, r) /\ w.row = row /\ w.slot = slot /\ w.fields = f
    BY <2>10, <2>13, <2>14, <2>15
       DEF PageType, FieldsType, SameSave, SameConfig, SameEdits, SameRequest
  <2>17. PICK v : v = UpdateButtons(w)
    OBVIOUS
  <2>18. v \in PageType /\ Quiet(v) /\ SameSave(v, w) /\ SameEditor(v, w)
    BY <2>16, <2>17, UpdatesButtons
  <2>19. PopulateEditor(p, row) = v
    BY <1>2, <2>3, <2>5, <2>7, <2>9, <2>11, <2>12, <2>15, <2>17 DEF PopulateEditor
  <2>20. SameSave(v, p)
    <3>1. SameSave(r, p)
      BY <2>8, <2>10, ChainsOfSaves
    <3>2. SameSave(w, p)
      BY <2>16, <3>1, ChainsOfSaves
    <3> QED BY <2>18, <3>2, ChainsOfSaves
  <2>21. v.row = row /\ v.slot = slot /\ v.fields = f /\ v.config = p.config
    BY <2>16, <2>18, <2>20 DEF SameEditor, SameSave, SameConfig
  <2>22. Filled(v)
    BY <2>2, <2>13, <2>18, <2>21, FieldsAreSome DEF Filled, FieldsOk
  <2>23. Showing(v)
    BY <1>2, <2>3, <2>11, <2>13, <2>21 DEF Showing
  <2> QED BY <2>18, <2>19, <2>20, <2>22, <2>23
<1> QED BY <1>1, <1>2

LEMMA ClearsMapped ==
  ASSUME NEW p \in PageType
  PROVE  LET v == UpdateButtons(ShowSelected(ClearEditor(p), None)) IN
         Filled(v) /\ Showing(v) /\ Quiet(v) /\ SameSave(v, p)
<1>1. PICK q : q = ClearEditor(p)
  OBVIOUS
<1>2. Filled(q) /\ Showing(q) /\ SameSave(q, p)
  BY <1>1, ClearsEditor
<1>3. PICK r : r = ShowSelected(q, None)
  OBVIOUS
<1>4. r \in PageType /\ SameSave(r, q) /\ SameEditor(r, q)
  <2>1. q \in PageType
    BY <1>2 DEF Filled
  <2> QED BY <1>3, <2>1, ShowsSelected
<1>5. PICK v : v = UpdateButtons(r)
  OBVIOUS
<1>6. v \in PageType /\ Quiet(v) /\ SameSave(v, r) /\ SameEditor(v, r)
  BY <1>4, <1>5, UpdatesButtons
<1>7. SameSave(v, p) /\ SameSave(v, q)
  BY <1>2, <1>4, <1>6, ChainsOfSaves
<1>8. SameEditor(v, q) /\ v.config = q.config
  BY <1>4, <1>6, <1>7 DEF SameEditor, SameSave, SameConfig
<1>9. Filled(v) /\ Showing(v)
  BY <1>2, <1>6, <1>8, StaysFilled, StaysShowing
<1> QED BY <1>1, <1>3, <1>5, <1>6, <1>7, <1>9

LEMMA SelectsMapped ==
  ASSUME NEW p \in PageType, p.draft = None
  PROVE  LET v == SelectMapped(p) IN
         Filled(v) /\ Showing(v) /\ Quiet(v) /\ SameSave(v, p)
<1>1. \/ \E row : SelectMapped(p) = PopulateEditor(p, row)
      \/ SelectMapped(p) = UpdateButtons(ShowSelected(ClearEditor(p), None))
  BY DEF SelectMapped
<1> QED BY <1>1, PopulatesEditor, ClearsMapped

(* With a draft it stays as it is.                                         *)
LEMMA SelectsAnyhow ==
  ASSUME NEW p, Filled(p), Quiet(p)
  PROVE  LET v == SelectMapped(p) IN Filled(v) /\ Quiet(v) /\ SameSave(v, p)
<1>1. CASE p.draft = None
  BY <1>1, SelectsMapped DEF Filled
<1>2. CASE p.draft # None
  <2>1. SelectMapped(p) = p
    BY <1>2 DEF SelectMapped
  <2> QED BY <2>1 DEF SameSave, SameConfig, SameEdits, SameRequest
<1> QED BY <1>1, <1>2

LEMMA ShowsTable ==
  ASSUME NEW p \in PageType, FieldsOk(p)
  PROVE  LET v == ShowTable(p) IN Filled(v) /\ SameSave(v, p)
<1>1. p.row \in Nat /\ Len(p.config) \in Nat
  BY RowsAreAreas DEF PageType
<1>2. CASE p.row > Len(p.config)
  <2>1. ShowTable(p) = PopulateEditor(p, Len(p.config))
    BY <1>2 DEF ShowTable
  <2> QED BY <2>1, PopulatesEditor
<1>3. CASE ~(p.row > Len(p.config))
  <2>1. ShowTable(p) = p
    BY <1>3 DEF ShowTable
  <2> QED BY <1>1, <1>3, <2>1 DEF Filled, SameSave, SameConfig, SameEdits, SameRequest
<1> QED BY <1>2, <1>3

LEMMA Loads ==
  ASSUME NEW p \in PageType, FieldsOk(p), NEW config \in Seq(Area)
  PROVE  LET v == Load(p, config) IN
         /\ Filled(v) /\ SameEdits(v, p) /\ SameRequest(v, p)
         /\ v.config = config /\ v.saved = config /\ v.draft = None
<1>1. PICK q : q = [p EXCEPT !.config = config, !.saved = config, !.draft = None]
  OBVIOUS
<1>2. /\ q \in PageType /\ FieldsOk(q) /\ SameEdits(q, p) /\ SameRequest(q, p)
      /\ q.config = config /\ q.saved = config /\ q.draft = None
  BY <1>1 DEF PageType, FieldsOk, SameEdits, SameRequest
<1>3. PICK v : v = ShowTable(q)
  OBVIOUS
<1>4. Filled(v) /\ SameSave(v, q)
  BY <1>2, <1>3, ShowsTable
<1>5. Load(p, config) = v
  BY <1>1, <1>3 DEF Load
<1>6. SameEdits(v, p) /\ SameRequest(v, p)
  BY <1>2, <1>4 DEF SameSave, SameEdits, SameRequest
<1>7. v.config = config /\ v.saved = config /\ v.draft = None
  BY <1>2, <1>4 DEF SameSave, SameConfig
<1> QED BY <1>4, <1>5, <1>6, <1>7

LEMMA MarksDirty ==
  ASSUME NEW p, Filled(p), NEW geometry \in BOOLEAN
  PROVE  LET v == MarkDirty(p, geometry) IN
         /\ Filled(v) /\ v.canvas = p.canvas /\ SameEditor(v, p)
         /\ SameConfig(v, p) /\ SameRequest(v, p)
<1>1. PICK b \in BOOLEAN, d \in BOOLEAN :
        MarkDirty(p, geometry) = [p EXCEPT !.dirty = d, !.piDirty = b]
  <2>1. CASE p.inFlight \/ p.row \notin DOMAIN p.config
    <3>1. MarkDirty(p, geometry) = p
      BY <2>1 DEF MarkDirty
    <3>2. p = [p EXCEPT !.dirty = p.dirty, !.piDirty = p.piDirty]
      BY DEF Filled, PageType
    <3>3. p.dirty \in BOOLEAN /\ p.piDirty \in BOOLEAN
      BY DEF Filled, PageType
    <3> QED BY <3>1, <3>2, <3>3
  <2>2. CASE ~(p.inFlight \/ p.row \notin DOMAIN p.config)
    <3>1. PICK b \in BOOLEAN : b = (p.piDirty \/ (geometry /\ Matches(p)))
      OBVIOUS
    <3>2. MarkDirty(p, geometry) = [p EXCEPT !.dirty = TRUE, !.piDirty = b]
      BY <2>2, <3>1 DEF MarkDirty
    <3> QED BY <3>2
  <2> QED BY <2>1, <2>2
<1>2. PICK v : v = [p EXCEPT !.dirty = d, !.piDirty = b]
  OBVIOUS
<1>3. /\ v \in PageType /\ v.canvas = p.canvas /\ SameEditor(v, p)
      /\ SameConfig(v, p) /\ SameRequest(v, p)
  <2>1. p \in PageType
    BY DEF Filled
  <2>2. v \in PageType
    BY <1>2, <2>1 DEF PageType
  <2> QED BY <1>2, <2>1, <2>2 DEF PageType, SameEditor, SameConfig, SameRequest
<1>4. Filled(v)
  BY <1>3, StaysFilled DEF SameConfig
<1> QED BY <1>1, <1>2, <1>3, <1>4

-----------------------------------------------------------------------------
(* What the page hears.                                                    *)

(* A step that leaves the editor alone and updates the buttons.            *)
LEMMA EndsWithButtons ==
  ASSUME NEW p, Filled(p), NEW q \in PageType, SameEditor(q, p), q.config = p.config
  PROVE  LET v == UpdateButtons(q) IN
         Filled(v) /\ Quiet(v) /\ SameSave(v, q) /\ SameEditor(v, p)
<1>1. PICK v : v = UpdateButtons(q)
  OBVIOUS
<1>2. v \in PageType /\ Quiet(v) /\ SameSave(v, q) /\ SameEditor(v, q)
  BY <1>1, UpdatesButtons
<1>3. SameEditor(v, p) /\ v.config = p.config
  BY <1>2 DEF SameEditor, SameSave, SameConfig
<1>4. Filled(v)
  BY <1>2, <1>3, StaysFilled
<1> QED BY <1>1, <1>2, <1>3, <1>4

LEMMA SetsOptions ==
  ASSUME NEW p, Filled(p)
  PROVE  LET v == SetOptions(p) IN Filled(v) /\ SameSave(v, p) /\ (v = p \/ Quiet(v))
<1>1. CASE p.row # 0
  <2>1. SetOptions(p) = PopulateEditor(p, p.row)
    BY <1>1 DEF SetOptions
  <2> QED BY <2>1, PopulatesEditor DEF Filled
<1>2. CASE p.row = 0
  <2>1. SetOptions(p) = p
    BY <1>2 DEF SetOptions
  <2> QED BY <2>1 DEF SameSave, SameConfig, SameEdits, SameRequest
<1> QED BY <1>1, <1>2

LEMMA SelectsFilled ==
  ASSUME NEW p, Filled(p), NEW c \in Channels
  PROVE  LET v == SelectChannel(p, c) IN Filled(v) /\ Quiet(v) /\ SameSave(v, p)
<1>1. PICK v : v = SelectChannel(p, c)
  OBVIOUS
<1>2. /\ v \in PageType /\ Quiet(v) /\ SameSave(v, p)
      /\ v.row = p.row /\ v.fields = p.fields /\ v.config = p.config
  BY <1>1, SelectsChannel DEF Filled, SameSave, SameConfig
<1>3. Filled(v)
  BY <1>2 DEF Filled, FieldsOk
<1> QED BY <1>1, <1>2, <1>3

LEMMA SetsCapabilities ==
  ASSUME NEW p, Filled(p)
  PROVE  LET v == SetCapabilities(p) IN Filled(v) /\ Quiet(v) /\ SameSave(v, p)
BY SelectsFilled DEF SetCapabilities, Filled, PageType

(* A configuration is loaded and its mapped area selected.                 *)
LEMMA LoadsAndSelects ==
  ASSUME NEW p \in PageType, FieldsOk(p), NEW config \in Seq(Area)
  PROVE  LET v == UpdateOverlays(SelectMapped(Load(p, config))) IN
         /\ Filled(v) /\ Showing(v) /\ SameEdits(v, p) /\ SameRequest(v, p)
         /\ v.config = config /\ v.saved = config
<1>1. PICK q : q = Load(p, config)
  OBVIOUS
<1>2. /\ Filled(q) /\ SameEdits(q, p) /\ SameRequest(q, p)
      /\ q.config = config /\ q.saved = config /\ q.draft = None
  BY <1>1, Loads
<1>3. PICK s : s = SelectMapped(q)
  OBVIOUS
<1>4. Filled(s) /\ Showing(s) /\ SameSave(s, q)
  BY <1>2, <1>3, SelectsMapped DEF Filled
<1>5. PICK v : v = UpdateOverlays(s)
  OBVIOUS
<1>6. v \in PageType /\ SameSave(v, s) /\ SameEditor(v, s)
  BY <1>4, <1>5, UpdatesOverlays DEF Filled
<1>7. SameSave(v, q) /\ v.config = s.config
  BY <1>4, <1>6, ChainsOfSaves DEF SameSave, SameConfig
<1>8. Filled(v) /\ Showing(v)
  BY <1>4, <1>6, <1>7, StaysFilled, StaysShowing
<1>9. SameEdits(v, p) /\ SameRequest(v, p) /\ v.config = config /\ v.saved = config
  BY <1>2, <1>7 DEF SameSave, SameConfig, SameEdits, SameRequest
<1> QED BY <1>1, <1>3, <1>5, <1>8, <1>9

LEMMA SetsConfiguration ==
  ASSUME NEW p \in PageType, FieldsOk(p), NEW config \in Seq(Area)
  PROVE  LET v == SetConfiguration(p, config) IN Filled(v) /\ Quiet(v) /\ v.pi = p.pi
<1>1. PICK u : u = UpdateOverlays(SelectMapped(Load(p, config)))
  OBVIOUS
<1>2. Filled(u) /\ SameRequest(u, p)
  BY <1>1, LoadsAndSelects
<1>3. PICK b \in BOOLEAN : b = ((p.stage = "camera" /\ p.then) /\ p.piDirty)
  OBVIOUS
<1>4. PICK w : w = [u EXCEPT !.inFlight = FALSE, !.dirty = FALSE, !.piDirty = b]
  OBVIOUS
<1>5. w \in PageType /\ SameEditor(w, u) /\ w.config = u.config /\ w.pi = p.pi
  <2>1. u \in PageType /\ u.pi = p.pi
    BY <1>2 DEF Filled, SameRequest
  <2>2. PICK q : q = [u EXCEPT !.inFlight = FALSE]
    OBVIOUS
  <2>3. PICK r : r = [q EXCEPT !.dirty = FALSE]
    OBVIOUS
  <2>4. q \in PageType
    BY <2>1, <2>2 DEF PageType
  <2>5. r \in PageType
    BY <2>3, <2>4 DEF PageType
  <2>6. w = [r EXCEPT !.piDirty = b]
    BY <1>4, <2>1, <2>2, <2>3 DEF PageType
  <2>7. w \in PageType
    BY <2>5, <2>6 DEF PageType
  <2> QED BY <1>4, <2>1, <2>7 DEF PageType, SameEditor
<1>6. PICK v : v = UpdateButtons(w)
  OBVIOUS
<1>7. Filled(v) /\ Quiet(v) /\ SameSave(v, w)
  BY <1>2, <1>5, <1>6, EndsWithButtons
<1>8. SetConfiguration(p, config) = v
  BY <1>1, <1>3, <1>4, <1>6 DEF SetConfiguration
<1>9. v.pi = p.pi
  BY <1>5, <1>7 DEF SameSave, SameRequest
<1> QED BY <1>7, <1>8, <1>9

(* The region that is sent is the one in the editor, which is of the area  *)
(* mapped to the slot.                                                     *)
LEMMA RequestsPi ==
  ASSUME NEW p, Filled(p)
  PROVE  LET v == RequestPi(p) IN
         /\ Filled(v) /\ Quiet(v) /\ SameEditor(v, p) /\ SameConfig(v, p) /\ SameEdits(v, p)
         /\ v.pi # p.pi =>
              Matches(p) /\ p.row # 0 /\ v.pi.slot = p.slot /\ v.pi.rect = p.fields.rect
<1>1. CASE Savable(p)
  <2>1. Matches(p) /\ p.row # 0 /\ p.slot \in Slots /\ p.fields \in FieldsType
    <3>1. Matches(p) /\ p.row \in DOMAIN p.config /\ p.slot # None
      BY <1>1 DEF Savable, Matches
    <3>2. p.row # 0
      BY <3>1, RowsAreAreas DEF Filled, PageType
    <3>3. p.slot \in Slots /\ p.fields \in FieldsType
      BY <3>1, <3>2 DEF Filled, FieldsOk, PageType, FieldsType
    <3> QED BY <3>1, <3>2, <3>3
  <2>2. PICK r : r = [slot |-> p.slot, rect |-> p.fields.rect]
    OBVIOUS
  <2>3. r \in [slot : Slots, rect : Rects] /\ r.slot = p.slot /\ r.rect = p.fields.rect
    BY <2>1, <2>2 DEF FieldsType
  <2>4. PICK w : w = [p EXCEPT !.pi = r, !.stage = "pi"]
    OBVIOUS
  <2>5. w \in PageType /\ SameEditor(w, p) /\ SameConfig(w, p) /\ SameEdits(w, p) /\ w.pi = r
    BY <2>3, <2>4 DEF Filled, PageType, SameEditor, SameConfig, SameEdits
  <2>6. PICK v : v = UpdateButtons(w)
    OBVIOUS
  <2>7. Filled(v) /\ Quiet(v) /\ SameSave(v, w) /\ SameEditor(v, p)
    BY <2>5, <2>6, EndsWithButtons DEF SameConfig
  <2>8. RequestPi(p) = v
    BY <1>1, <2>2, <2>4, <2>6 DEF RequestPi
  <2>9. SameConfig(v, p) /\ SameEdits(v, p) /\ v.pi = r
    BY <2>5, <2>7 DEF SameSave, SameConfig, SameEdits, SameRequest
  <2> QED BY <2>1, <2>3, <2>7, <2>8, <2>9
<1>2. CASE ~Savable(p)
  <2>1. PICK w : w = [p EXCEPT !.stage = "idle"]
    OBVIOUS
  <2>2. /\ w \in PageType /\ SameEditor(w, p) /\ SameConfig(w, p) /\ SameEdits(w, p)
        /\ w.pi = p.pi
    BY <2>1 DEF Filled, PageType, SameEditor, SameConfig, SameEdits
  <2>3. PICK v : v = UpdateButtons(w)
    OBVIOUS
  <2>4. Filled(v) /\ Quiet(v) /\ SameSave(v, w) /\ SameEditor(v, p)
    BY <2>2, <2>3, EndsWithButtons DEF SameConfig
  <2>5. RequestPi(p) = v
    BY <1>2, <2>1, <2>3 DEF RequestPi
  <2>6. SameConfig(v, p) /\ SameEdits(v, p) /\ v.pi = p.pi
    BY <2>2, <2>4 DEF SameSave, SameConfig, SameEdits, SameRequest
  <2> QED BY <2>4, <2>5, <2>6
<1> QED BY <1>1, <1>2

(* What RegionIsVerified asks of the page that has begun to send a region. *)
Verified(p) ==
  /\ ~p.dirty
  /\ p.combined => \E k \in DOMAIN p.saved :
       /\ p.saved[k].channel = Mapping(p.pi.slot).channel
       /\ p.saved[k].index = Mapping(p.pi.slot).index
       /\ p.saved[k].rect = p.pi.rect

(* The region of a page that shows what was just loaded is that of an area *)
(* which the camera has.                                                   *)
LEMMA LoadedIsVerified ==
  ASSUME NEW p, Filled(p), Showing(p), p.saved = p.config, ~p.dirty,
         NEW v, v = RequestPi(p), v.pi # p.pi
  PROVE  Verified(v)
<1>1. /\ SameConfig(v, p) /\ SameEdits(v, p) /\ Matches(p) /\ p.row # 0
      /\ v.pi.slot = p.slot /\ v.pi.rect = p.fields.rect
  BY RequestsPi
<1>2. PICK a : a = p.config[p.row]
  OBVIOUS
<1>3. /\ p.row \in DOMAIN p.config /\ p.fields.index = a.index /\ p.fields.rect = a.rect
      /\ p.slot = SlotFor(a.channel, a.index)
  BY <1>1, <1>2 DEF Showing
<1>4. p.slot # None /\ a.index # None
  <2>1. a.index \in Indices
    BY <1>2, <1>3, RowsAreAreas DEF Filled, PageType, Area
  <2> QED BY <1>1, <2>1, EditorAssumption DEF Matches
<1>5. Mapping(p.slot).channel = a.channel /\ Mapping(p.slot).index = a.index
  BY <1>3, <1>4, SlotsOfAreas
<1>6. v.saved = p.config /\ ~v.dirty
  BY <1>1 DEF SameConfig, SameEdits
<1> QED BY <1>1, <1>2, <1>3, <1>5, <1>6 DEF Verified

LEMMA FinishesSave ==
  ASSUME NEW p \in PageType, NEW success \in BOOLEAN
  PROVE  LET v == FinishSave(p, success) IN
         v \in PageType /\ SameConfig(v, p) /\ SameEditor(v, p) /\ v.pi = p.pi
<1>1. PICK b \in BOOLEAN : FinishSave(p, success) = [p EXCEPT !.leaving = FALSE, !.away = b]
  <2>1. PICK b \in BOOLEAN : b = (p.away \/ (p.leaving /\ success))
    OBVIOUS
  <2>2. FinishSave(p, success) = [p EXCEPT !.leaving = FALSE, !.away = b]
    BY <2>1 DEF FinishSave
  <2> QED BY <2>2
<1>2. PICK v : v = [p EXCEPT !.leaving = FALSE, !.away = b]
  OBVIOUS
<1>3. v \in PageType /\ SameConfig(v, p) /\ SameEditor(v, p) /\ v.pi = p.pi
  BY <1>2 DEF PageType, SameConfig, SameEditor
<1> QED BY <1>1, <1>2, <1>3

(* A save that ends, in whatever way.                                      *)
LEMMA EndsSave ==
  ASSUME NEW p, Filled(p), NEW q \in PageType, SameEditor(q, p), q.config = p.config,
         NEW success \in BOOLEAN
  PROVE  LET v == UpdateButtons(FinishSave(q, success)) IN
         Filled(v) /\ Quiet(v) /\ v.pi = q.pi
<1>1. PICK w : w = FinishSave(q, success)
  OBVIOUS
<1>2. w \in PageType /\ SameConfig(w, q) /\ SameEditor(w, q) /\ w.pi = q.pi
  BY <1>1, FinishesSave
<1>3. SameEditor(w, p) /\ w.config = p.config
  BY <1>2 DEF SameConfig, SameEditor
<1>4. PICK v : v = UpdateButtons(w)
  OBVIOUS
<1>5. Filled(v) /\ Quiet(v) /\ SameSave(v, w)
  BY <1>2, <1>3, <1>4, EndsWithButtons
<1>6. v.pi = q.pi
  BY <1>2, <1>5 DEF SameSave, SameRequest
<1> QED BY <1>1, <1>4, <1>5, <1>6

LEMMA AppliesInVain ==
  ASSUME NEW p, Filled(p)
  PROVE  LET v == ApplyError(p) IN Filled(v) /\ Quiet(v) /\ v.pi = p.pi
<1>1. PICK q : q = [p EXCEPT !.inFlight = FALSE, !.stage = "idle", !.then = FALSE,
                             !.combined = FALSE, !.deleting = FALSE]
  OBVIOUS
<1>2. q \in PageType /\ SameEditor(q, p) /\ q.config = p.config /\ q.pi = p.pi
  BY <1>1 DEF Filled, PageType, SameEditor
<1>3. ApplyError(p) = UpdateButtons(FinishSave(q, FALSE))
  BY <1>1 DEF ApplyError
<1> QED BY <1>2, <1>3, EndsSave

LEMMA HearsOfPi ==
  ASSUME NEW p, Filled(p)
  PROVE  /\ LET v == PiResult(p) IN Filled(v) /\ Quiet(v) /\ v.pi = None
         /\ LET v == PiError(p) IN Filled(v) /\ Quiet(v) /\ v.pi = None
<1>1. LET v == PiResult(p) IN Filled(v) /\ Quiet(v) /\ v.pi = None
  <2>1. PICK q : q = [p EXCEPT !.pi = None, !.piDirty = FALSE, !.stage = "idle",
                               !.combined = FALSE]
    OBVIOUS
  <2>2. q \in PageType /\ SameEditor(q, p) /\ q.config = p.config /\ q.pi = None
    BY <2>1 DEF Filled, PageType, SameEditor
  <2>3. PiResult(p) = UpdateButtons(FinishSave(q, TRUE))
    BY <2>1 DEF PiResult
  <2> QED BY <2>2, <2>3, EndsSave
<1>2. LET v == PiError(p) IN Filled(v) /\ Quiet(v) /\ v.pi = None
  <2>1. PICK q : q = [p EXCEPT !.pi = None, !.stage = "idle", !.combined = FALSE]
    OBVIOUS
  <2>2. q \in PageType /\ SameEditor(q, p) /\ q.config = p.config /\ q.pi = None
    BY <2>1 DEF Filled, PageType, SameEditor
  <2>3. PiError(p) = UpdateButtons(FinishSave(q, FALSE))
    BY <2>1 DEF PiError
  <2> QED BY <2>2, <2>3, EndsSave
<1> QED BY <1>1, <1>2

(* A save that the camera has answered goes on with the Pi.                *)
LEMMA Applies ==
  ASSUME NEW p, Filled(p), NEW config \in Seq(Area)
  PROVE  LET v == ApplySuccess(p, config) IN
         Filled(v) /\ Quiet(v) /\ (v.pi # None /\ v.pi # p.pi => Verified(v))
<1>1. PICK s : s = [p EXCEPT !.inFlight = FALSE, !.dirty = FALSE]
  OBVIOUS
<1>2. s \in PageType /\ FieldsOk(s) /\ s.dirty = FALSE /\ s.pi = p.pi
  BY <1>1 DEF Filled, PageType, FieldsOk
<1>3. PICK u : u = UpdateOverlays(SelectMapped(Load(s, config)))
  OBVIOUS
<1>4. /\ Filled(u) /\ Showing(u) /\ u.dirty = FALSE /\ u.pi = p.pi
      /\ u.config = config /\ u.saved = config
  <2>1. /\ Filled(u) /\ Showing(u) /\ SameEdits(u, s) /\ SameRequest(u, s)
        /\ u.config = config /\ u.saved = config
    BY <1>2, <1>3, LoadsAndSelects
  <2> QED BY <1>2, <2>1 DEF SameEdits, SameRequest
<1>5. PICK q : q = [u EXCEPT !.deleting = FALSE]
  OBVIOUS
<1>6. /\ q \in PageType /\ SameEditor(q, u) /\ q.dirty = FALSE /\ q.pi = p.pi
      /\ q.config = config /\ q.saved = config
  BY <1>4, <1>5 DEF Filled, PageType, SameEditor
<1>7. PICK c : c = [q EXCEPT !.then = FALSE, !.combined = TRUE]
  OBVIOUS
<1>8. /\ c \in PageType /\ SameEditor(c, u) /\ c.dirty = FALSE /\ c.pi = p.pi
      /\ c.config = config /\ c.saved = config
  BY <1>6, <1>7 DEF PageType, SameEditor
<1>9. Filled(q) /\ Filled(c) /\ Showing(c)
  BY <1>4, <1>6, <1>8, StaysFilled, StaysShowing
<1>10. PICK r : r = RequestPi(c)
  OBVIOUS
<1>11. Filled(r) /\ Quiet(r) /\ (r.pi # p.pi => Verified(r))
  BY <1>8, <1>9, <1>10, RequestsPi, LoadedIsVerified
<1>12. PICK continues \in BOOLEAN : continues = (~p.deleting /\ p.then)
  OBVIOUS
<1>13. PICK sent : sent = IF continues THEN r ELSE q
  OBVIOUS
<1>14. Filled(sent)
  BY <1>9, <1>11, <1>13
<1>15. PICK w : w = [sent EXCEPT !.stage = "idle"]
  OBVIOUS
<1>16. w \in PageType /\ SameEditor(w, sent) /\ w.config = sent.config /\ w.pi = sent.pi
  BY <1>14, <1>15 DEF Filled, PageType, SameEditor
<1>17. PICK v : v = UpdateButtons(FinishSave(w, TRUE))
  OBVIOUS
<1>18. Filled(v) /\ Quiet(v) /\ v.pi = sent.pi
  BY <1>14, <1>16, <1>17, EndsSave
<1>19. ApplySuccess(p, config) = IF continues /\ sent.pi # None THEN sent ELSE v
  BY <1>1, <1>3, <1>5, <1>7, <1>10, <1>12, <1>13, <1>15, <1>17 DEF ApplySuccess
<1>20. CASE continues /\ sent.pi # None
  BY <1>11, <1>13, <1>19, <1>20
<1>21. CASE ~(continues /\ sent.pi # None)
  <2>1. ApplySuccess(p, config) = v
    BY <1>19, <1>21
  <2>2. v.pi # None => v.pi = p.pi
    BY <1>6, <1>11, <1>13, <1>18, <1>21
  <2> QED BY <1>18, <2>1, <2>2
<1> QED BY <1>20, <1>21

-----------------------------------------------------------------------------
(* What the operator starts.                                               *)

Jobs == [what : {"none", "read", "apply", "delete"}, channel : Channels, areas : Seq(Area)]

(* A new region is sent only as RegionIsVerified has it.                   *)
SendsVerified(v, p) == v.pi # None /\ v.pi # p.pi => Verified(v)

LEMMA NoJobTyped == NoJob \in Jobs
<1>1. 1 \in Channels
  BY EditorAssumption DEF Channels
<1> QED BY <1>1 DEF NoJob, Jobs

LEMMA StartsApply ==
  ASSUME NEW p, Filled(p), NEW what \in {"apply", "delete"}, NEW c \in Channels,
         NEW areas \in Seq(Area)
  PROVE  LET s == StartApply(p, what, c, areas) IN
         Filled(s.page) /\ Quiet(s.page) /\ s.page.pi = p.pi /\ s.job \in Jobs
<1>1. CASE ~Buildable(areas) \/ areas = OnChannel(p.saved, c)
  <2>1. StartApply(p, what, c, areas) = [page |-> ApplyError(p), job |-> NoJob]
    BY <1>1 DEF StartApply
  <2>2. PICK v : v = ApplyError(p)
    OBVIOUS
  <2>3. Filled(v) /\ Quiet(v) /\ v.pi = p.pi
    BY <2>2, AppliesInVain
  <2> QED BY <2>1, <2>2, <2>3, NoJobTyped
<1>2. CASE ~(~Buildable(areas) \/ areas = OnChannel(p.saved, c))
  <2>1. PICK q : q = [p EXCEPT !.inFlight = TRUE, !.stage = "camera"]
    OBVIOUS
  <2>2. q \in PageType /\ SameEditor(q, p) /\ q.config = p.config /\ q.pi = p.pi
    BY <2>1 DEF Filled, PageType, SameEditor
  <2>3. PICK v : v = UpdateButtons(q)
    OBVIOUS
  <2>4. Filled(v) /\ Quiet(v) /\ v.pi = p.pi
    BY <2>2, <2>3, EndsWithButtons DEF SameSave, SameRequest
  <2>5. PICK j : j = [what |-> what, channel |-> c, areas |-> areas]
    OBVIOUS
  <2>6. j \in Jobs
    BY <2>5 DEF Jobs
  <2>7. StartApply(p, what, c, areas) = [page |-> v, job |-> j]
    BY <1>2, <2>1, <2>3, <2>5 DEF StartApply
  <2> QED BY <2>4, <2>6, <2>7
<1> QED BY <1>1, <1>2

(* The fields are those of an area when a row is selected.                 *)
LEMMA EditedTyped ==
  ASSUME NEW p, Filled(p), p.row # 0
  PROVE  /\ p.config \in Seq(Area) /\ p.row \in DOMAIN p.config /\ p.fields \in FieldsType
         /\ p.config[p.row] \in Area /\ p.config[p.row].channel \in Channels
         /\ p.config[p.row].index \in Indices /\ Edited(p) \in Area
         /\ Edited(p).channel = p.config[p.row].channel /\ Edited(p).index = p.fields.index
<1>1. p.config \in Seq(Area) /\ p.fields \in FieldsType
  BY DEF Filled, FieldsOk, PageType, FieldsType
<1>2. p.row \in DOMAIN p.config
  <2>1. DOMAIN p.config = 1..Len(p.config) /\ Len(p.config) \in Nat
    BY <1>1, RowsAreAreas
  <2> QED BY <2>1 DEF Filled
<1>3. p.config[p.row] \in Area
  BY <1>1, <1>2, RowsAreAreas
<1>4. p.config[p.row].channel \in Channels /\ p.config[p.row].index \in Indices
  BY <1>3 DEF Area
<1>5. PICK a : a = Edited(p)
  OBVIOUS
<1>6. a \in Area /\ a.channel = p.config[p.row].channel /\ a.index = p.fields.index
  BY <1>1, <1>4, <1>5 DEF Edited, Area, FieldsType
<1> QED BY <1>1, <1>2, <1>3, <1>4, <1>5, <1>6

LEMMA StartsSave ==
  ASSUME NEW p, Filled(p), p.row # 0
  PROVE  LET s == StartSave(p) IN
         Filled(s.page) /\ Quiet(s.page) /\ s.job \in Jobs /\ SendsVerified(s.page, p)
<1>1. PICK b \in BOOLEAN : b = (p.dirty /\ SavesPi(p))
  BY DEF Filled, PageType
<1>2. PICK q : q = [p EXCEPT !.then = b, !.combined = FALSE]
  OBVIOUS
<1>3. /\ q \in PageType /\ SameEditor(q, p) /\ q.config = p.config /\ q.pi = p.pi
      /\ q.dirty = p.dirty /\ q.combined = FALSE
  <2>1. p \in PageType
    BY DEF Filled
  <2>2. PICK r : r = [p EXCEPT !.then = b]
    OBVIOUS
  <2>3. r \in PageType
    BY <2>1, <2>2 DEF PageType
  <2>4. q = [r EXCEPT !.combined = FALSE]
    BY <1>2, <2>1, <2>2 DEF PageType
  <2>5. q \in PageType
    BY <2>3, <2>4 DEF PageType
  <2> QED BY <1>2, <2>1, <2>5 DEF PageType, SameEditor
<1>4. Filled(q)
  BY <1>3, StaysFilled
<1>5. CASE p.dirty
  <2>1. PICK u : u = [q EXCEPT !.stage = "camera"]
    OBVIOUS
  <2>2. u \in PageType /\ SameEditor(u, q) /\ u.config = q.config /\ u.pi = p.pi
    BY <1>3, <2>1 DEF PageType, SameEditor
  <2>3. Filled(u)
    BY <1>4, <2>2, StaysFilled
  <2>4. PICK c \in Channels : c = p.config[p.row].channel
    BY EditedTyped
  <2>5. PICK config : config = [p.config EXCEPT ![p.row] = Edited(p)]
    OBVIOUS
  <2>6. config \in Seq(Area)
    BY <2>5, EditedTyped, RowChanges
  <2>7. PICK areas : areas = OnChannel(config, c)
    OBVIOUS
  <2>8. areas \in Seq(Area)
    BY <2>6, <2>7, OnlyTyped DEF OnChannel
  <2>9. StartSave(p) = StartApply(u, "apply", c, areas)
    BY <1>1, <1>2, <1>5, <2>1, <2>4, <2>5, <2>7 DEF StartSave
  <2>10. PICK s : s = StartApply(u, "apply", c, areas)
    OBVIOUS
  <2>11. Filled(s.page) /\ Quiet(s.page) /\ s.page.pi = u.pi /\ s.job \in Jobs
    BY <2>3, <2>8, <2>10, StartsApply
  <2> QED BY <2>2, <2>9, <2>10, <2>11 DEF SendsVerified
<1>6. CASE ~p.dirty
  <2>1. PICK v : v = RequestPi(q)
    OBVIOUS
  <2>2. Filled(v) /\ Quiet(v) /\ SameEdits(v, q)
    BY <1>4, <2>1, RequestsPi
  <2>3. Verified(v)
    BY <1>3, <1>6, <2>2 DEF Verified, SameEdits
  <2>4. StartSave(p) = [page |-> v, job |-> NoJob]
    BY <1>1, <1>2, <1>6, <2>1 DEF StartSave
  <2> QED BY <2>2, <2>3, <2>4, NoJobTyped DEF SendsVerified
<1> QED BY <1>5, <1>6

-----------------------------------------------------------------------------
(* What the operator draws.                                                *)

LEMMA Redraws ==
  ASSUME NEW q \in PageType, FieldsOk(q), NEW row
  PROVE  LET v == UpdateButtons(MarkDirty(UpdateOverlays(PopulateEditor(ShowTable(q), row)),
                                          TRUE)) IN
         Filled(v) /\ Quiet(v) /\ v.pi = q.pi
<1>1. PICK s : s = ShowTable(q)
  OBVIOUS
<1>2. Filled(s) /\ SameSave(s, q)
  BY <1>1, ShowsTable
<1>3. PICK t : t = PopulateEditor(s, row)
  OBVIOUS
<1>4. Filled(t) /\ SameSave(t, s)
  BY <1>2, <1>3, PopulatesEditor DEF Filled
<1>5. PICK u : u = UpdateOverlays(t)
  OBVIOUS
<1>6. u \in PageType /\ SameSave(u, t) /\ SameEditor(u, t)
  BY <1>4, <1>5, UpdatesOverlays DEF Filled
<1>7. Filled(u)
  BY <1>4, <1>6, StaysFilled DEF SameSave, SameConfig
<1>8. PICK m : m = MarkDirty(u, TRUE)
  OBVIOUS
<1>9. Filled(m) /\ SameRequest(m, u)
  BY <1>7, <1>8, MarksDirty
<1>10. PICK v : v = UpdateButtons(m)
  OBVIOUS
<1>11. Filled(v) /\ Quiet(v) /\ SameSave(v, m)
  <2>1. m \in PageType /\ SameEditor(m, m)
    BY <1>9 DEF Filled, SameEditor
  <2> QED BY <1>9, <1>10, <2>1, EndsWithButtons
<1>12. v.pi = q.pi
  BY <1>2, <1>4, <1>6, <1>9, <1>11 DEF SameSave, SameRequest
<1> QED BY <1>1, <1>3, <1>5, <1>8, <1>10, <1>11, <1>12

LEMMA CreatesDraft ==
  ASSUME NEW p, Filled(p), Quiet(p), NEW r \in Rects
  PROVE  LET v == CreateDraft(p, r) IN Filled(v) /\ Quiet(v) /\ v.pi = p.pi
<1>1. CASE p.draft # None \/ p.slot = None
  <2>1. CreateDraft(p, r) = p
    BY <1>1 DEF CreateDraft
  <2> QED BY <2>1
<1>2. CASE ~(p.draft # None \/ p.slot = None) /\ Taken(p) # {}
  <2>1. CreateDraft(p, r) = UpdateButtons(p)
    BY <1>2 DEF CreateDraft
  <2>2. p \in PageType /\ SameEditor(p, p)
    BY DEF Filled, SameEditor
  <2>3. PICK v : v = UpdateButtons(p)
    OBVIOUS
  <2>4. Filled(v) /\ Quiet(v) /\ SameSave(v, p)
    BY <2>2, <2>3, EndsWithButtons
  <2> QED BY <2>1, <2>3, <2>4 DEF SameSave, SameRequest
<1>3. CASE ~(p.draft # None \/ p.slot = None) /\ Taken(p) = {}
  <2>1. p.slot \in Slots /\ p.channel \in Channels /\ p.config \in Seq(Area)
    BY <1>3 DEF Filled, PageType
  <2>2. PICK i \in Indices : i = MappedIndex(p.slot)
    BY <2>1, MappingTyped
  <2>3. PICK a : a = [channel |-> p.channel, index |-> i, name |-> i, rect |-> r]
    OBVIOUS
  <2>4. a \in Area
    BY <2>1, <2>3 DEF Area, Names
  <2>5. PICK config : config = Append(p.config, a)
    OBVIOUS
  <2>6. config \in Seq(Area)
    BY <2>1, <2>4, <2>5, AppendProperties
  <2>7. PICK d : d = [channel |-> p.channel, index |-> i, replaces |-> None]
    OBVIOUS
  <2>8. d \in [channel : Channels, index : Indices, replaces : Area \cup {None}]
    BY <2>1, <2>7
  <2>9. PICK q : q = [p EXCEPT !.config = config, !.draft = d]
    OBVIOUS
  <2>10. q \in PageType /\ FieldsOk(q) /\ q.pi = p.pi
    BY <2>6, <2>8, <2>9 DEF Filled, PageType, FieldsOk
  <2>11. PICK v : v = UpdateButtons(MarkDirty(UpdateOverlays(
                        PopulateEditor(ShowTable(q), Len(q.config))), TRUE))
    OBVIOUS
  <2>12. CreateDraft(p, r) = v
    BY <1>3, <2>2, <2>3, <2>5, <2>7, <2>9, <2>11 DEF CreateDraft
  <2>13. Filled(v) /\ Quiet(v) /\ v.pi = q.pi
    BY <2>10, <2>11, Redraws
  <2> QED BY <2>10, <2>12, <2>13
<1> QED BY <1>1, <1>2, <1>3

LEMMA UpdatesDraft ==
  ASSUME NEW p, Filled(p), Quiet(p), NEW r \in Rects
  PROVE  LET v == UpdateDraft(p, r) IN Filled(v) /\ Quiet(v) /\ v.pi = p.pi
<1>1. CASE p.row = 0
  <2>1. UpdateDraft(p, r) = CreateDraft(p, r)
    BY <1>1 DEF UpdateDraft
  <2> QED BY <2>1, CreatesDraft
<1>2. CASE p.row # 0
  <2>1. /\ p.config \in Seq(Area) /\ p.row \in DOMAIN p.config /\ p.config[p.row] \in Area
        /\ Edited(p) \in Area
    BY <1>2, EditedTyped
  <2>2. PICK a \in Area : a = Edited(p)
    BY <2>1
  <2>3. PICK x : x = [a EXCEPT !.rect = r]
    OBVIOUS
  <2>4. x \in Area /\ a.channel \in Channels /\ a.index \in Indices
    BY <2>3 DEF Area
  <2>5. PICK config : config = [p.config EXCEPT ![p.row] = x]
    OBVIOUS
  <2>6. config \in Seq(Area)
    BY <2>1, <2>4, <2>5, RowChanges
  <2>7. PICK d : d = IF p.draft # None THEN p.draft
                     ELSE [channel |-> a.channel, index |-> a.index, replaces |-> p.config[p.row]]
    OBVIOUS
  <2>8. d \in [channel : Channels, index : Indices, replaces : Area \cup {None}] \cup {None}
    BY <2>1, <2>4, <2>7 DEF Filled, PageType
  <2>9. PICK q : q = [p EXCEPT !.config = config, !.draft = d]
    OBVIOUS
  <2>10. q \in PageType /\ FieldsOk(q) /\ q.pi = p.pi
    BY <2>6, <2>8, <2>9 DEF Filled, PageType, FieldsOk
  <2>11. PICK v : v = UpdateButtons(MarkDirty(UpdateOverlays(
                        PopulateEditor(ShowTable(q), p.row)), TRUE))
    OBVIOUS
  <2>12. q = [p EXCEPT !.config[p.row] = x, !.draft = d]
    BY <2>5, <2>9
  <2>13. UpdateDraft(p, r) = v
    BY <1>2, <2>2, <2>3, <2>7, <2>11, <2>12 DEF UpdateDraft
  <2>14. Filled(v) /\ Quiet(v) /\ v.pi = q.pi
    BY <2>10, <2>11, Redraws
  <2> QED BY <2>10, <2>13, <2>14
<1> QED BY <1>1, <1>2

LEMMA Discards ==
  ASSUME NEW p, Filled(p), p.draft # None
  PROVE  LET v == Discard(p) IN Filled(v) /\ Quiet(v) /\ v.pi = p.pi
<1>1. PICK d : d = p.draft
  OBVIOUS
<1>2. d \in [channel : Channels, index : Indices, replaces : Area \cup {None}]
  BY <1>1 DEF Filled, PageType
<1>3. PICK drafted : drafted = {k \in RowsOf(p.config, d.channel) : p.config[k].index = d.index}
  OBVIOUS
<1>4. p.config \in Seq(Area) /\ drafted \in SUBSET (DOMAIN p.config)
  BY <1>3 DEF Filled, PageType, RowsOf
<1>5. PICK config : config = IF drafted = {} THEN p.config
                             ELSE IF d.replaces = None THEN RemoveAt(p.config, Max(drafted))
                             ELSE ReplaceAt(p.config, Max(drafted), d.replaces)
  OBVIOUS
<1>6. config \in Seq(Area)
  <2>1. CASE drafted = {}
    BY <1>4, <1>5, <2>1
  <2>2. CASE drafted # {}
    <3>1. PICK k \in DOMAIN p.config : k = Max(drafted)
      BY <1>4, <2>2, SomeRow
    <3>2. CASE d.replaces = None
      <4>1. config = RemoveAt(p.config, k)
        BY <1>5, <2>2, <3>1, <3>2
      <4>2. p.config[k] \in Area
        BY <1>4, RowsAreAreas
      <4> QED BY <1>4, <4>1, <4>2, RowChanges
    <3>3. CASE d.replaces # None
      <4>1. config = ReplaceAt(p.config, k, d.replaces) /\ d.replaces \in Area
        BY <1>2, <1>5, <2>2, <3>1, <3>3
      <4> QED BY <1>4, <4>1, RowChanges
    <3> QED BY <3>2, <3>3
  <2> QED BY <2>1, <2>2
<1>7. PICK q : q = [p EXCEPT !.config = config, !.draft = None, !.dirty = FALSE,
                             !.piDirty = FALSE]
  OBVIOUS
<1>8. q \in PageType /\ FieldsOk(q) /\ q.pi = p.pi /\ q.draft = None
  BY <1>6, <1>7 DEF Filled, PageType, FieldsOk
<1>9. PICK s : s = ShowTable(q)
  OBVIOUS
<1>10. Filled(s) /\ SameSave(s, q)
  BY <1>8, <1>9, ShowsTable
<1>11. PICK t : t = ClearEditor(s)
  OBVIOUS
<1>12. Filled(t) /\ SameSave(t, s)
  BY <1>10, <1>11, ClearsEditor DEF Filled
<1>13. PICK u : u = SelectChannel(t, d.channel)
  OBVIOUS
<1>14. Filled(u) /\ SameSave(u, t)
  BY <1>2, <1>12, <1>13, SelectsFilled
<1>15. PICK m : m = SelectMapped(u)
  OBVIOUS
<1>16. Filled(m) /\ SameSave(m, u)
  <2>1. u.draft = None /\ u \in PageType
    BY <1>8, <1>10, <1>12, <1>14 DEF SameSave, SameConfig, Filled
  <2> QED BY <1>15, <2>1, SelectsMapped
<1>17. PICK v : v = UpdateButtons(m)
  OBVIOUS
<1>18. Filled(v) /\ Quiet(v) /\ SameSave(v, m)
  <2>1. m \in PageType /\ SameEditor(m, m)
    BY <1>16 DEF Filled, SameEditor
  <2> QED BY <1>16, <1>17, <2>1, EndsWithButtons
<1>19. Discard(p) = v
  BY <1>1, <1>3, <1>5, <1>7, <1>9, <1>11, <1>13, <1>15, <1>17 DEF Discard
<1>20. v.pi = p.pi
  BY <1>8, <1>10, <1>12, <1>14, <1>16, <1>18 DEF SameSave, SameRequest
<1> QED BY <1>18, <1>19, <1>20

LEMMA SelectsSlot ==
  ASSUME NEW p, Filled(p), p.draft = None, NEW s \in Slots
  PROVE  LET v == SelectSlot(p, s) IN Filled(v) /\ Quiet(v) /\ v.pi = p.pi
<1>1. PICK c \in Channels : c = Mapping(s).channel
  BY MappingTyped
<1>2. PICK q : q = [p EXCEPT !.slot = s]
  OBVIOUS
<1>3. q \in PageType /\ FieldsOk(q) /\ SameSave(q, p) /\ q.row = p.row
  BY <1>2 DEF Filled, PageType, FieldsOk, SameSave, SameConfig, SameEdits, SameRequest
<1>4. PICK u : u = IF c = p.channel THEN q ELSE SelectChannel(q, c)
  OBVIOUS
<1>5. u \in PageType /\ SameSave(u, p)
  <2>1. CASE c = p.channel
    BY <1>3, <1>4, <2>1
  <2>2. CASE c # p.channel
    <3>1. u \in PageType /\ SameSave(u, q)
      BY <1>3, <1>4, <2>2, SelectsChannel
    <3> QED BY <1>3, <3>1, ChainsOfSaves
  <2> QED BY <2>1, <2>2
<1>6. PICK m : m = SelectMapped(u)
  OBVIOUS
<1>7. Filled(m) /\ SameSave(m, u)
  <2>1. u.draft = None
    BY <1>5 DEF SameSave, SameConfig
  <2> QED BY <1>5, <1>6, <2>1, SelectsMapped
<1>8. PICK v : v = UpdateButtons(m)
  OBVIOUS
<1>9. Filled(v) /\ Quiet(v) /\ SameSave(v, m)
  <2>1. m \in PageType /\ SameEditor(m, m)
    BY <1>7 DEF Filled, SameEditor
  <2> QED BY <1>7, <1>8, <2>1, EndsWithButtons
<1>10. SelectSlot(p, s) = v
  BY <1>1, <1>2, <1>4, <1>6, <1>8 DEF SelectSlot
<1>11. v.pi = p.pi
  BY <1>5, <1>7, <1>9 DEF SameSave, SameRequest
<1> QED BY <1>9, <1>10, <1>11

(* The fields of the selected row are typed over.                          *)
LEMMA Retypes ==
  ASSUME NEW p, Filled(p), p.row # 0, NEW f \in FieldsType
  PROVE  LET v == [p EXCEPT !.fields = f] IN
         /\ Filled(v) /\ v.canvas = p.canvas /\ v.row = p.row
         /\ SameConfig(v, p) /\ SameRequest(v, p)
<1>1. PICK v : v = [p EXCEPT !.fields = f]
  OBVIOUS
<1>2. /\ v \in PageType /\ v.canvas = p.canvas /\ v.row = p.row /\ v.fields = f
      /\ SameConfig(v, p) /\ SameRequest(v, p)
  BY <1>1 DEF Filled, PageType, FieldsType, SameConfig, SameRequest
<1>3. Filled(v)
  BY <1>2, FieldsAreSome DEF Filled, FieldsOk, SameConfig
<1> QED BY <1>1, <1>2, <1>3

-----------------------------------------------------------------------------
(* The inductive invariant.                                                *)

Sound(p) == Filled(p) /\ DragOk(p.canvas) /\ (p.canvas.edit => ~AnyRequest(p))
CameraOk == camera \in [Channels -> Seq(Area)] /\ job \in Jobs
EditorInv == Sound(page) /\ CameraOk

(* Most steps end every drag.                                              *)
QuietStep(p, v) == Filled(v) /\ Quiet(v) /\ SendsVerified(v, p)

LEMMA QuietIsSound ==
  ASSUME NEW p, Filled(p), Quiet(p)
  PROVE  Sound(p)
BY DEF Sound, Quiet, DragOk, NoDrag, EditingDrags

LEMMA QuietKeeps ==
  ASSUME NEW p, NEW v, Filled(v), Quiet(v), v.pi = p.pi
  PROVE  QuietStep(p, v)
BY DEF QuietStep, SendsVerified

LEMMA QuietStepKeeps ==
  ASSUME QuietStep(page, page')
  PROVE  Sound(page') /\ RegionIsVerified /\ KeepsItsRow
<1>1. Sound(page')
  BY QuietIsSound DEF QuietStep
<1>2. RegionIsVerified
  BY DEF QuietStep, SendsVerified, Verified, RegionIsVerified
<1>3. page'.canvas.drag.mode \notin EditingDrags
  BY DEF QuietStep, Quiet, NoDrag, EditingDrags
<1> QED BY <1>1, <1>2, <1>3 DEF KeepsItsRow

(* What a step of the other kind keeps.                                    *)
LEMMA SameRegion ==
  ASSUME page'.pi = page.pi
  PROVE  RegionIsVerified
BY DEF RegionIsVerified

-----------------------------------------------------------------------------
(* The steps, one by one.                                                  *)

LEMMA CanvasOfPage ==
  ASSUME NEW p, Filled(p)
  PROVE  p \in PageType /\ p.canvas \in CanvasType /\ p.channel \in Channels
BY DEF Filled, PageType

LEMMA InitSound ==
  ASSUME EditorInit
  PROVE  EditorInv
<1>1. FirstCamera \in [Channels -> Seq(Area)] /\ job \in Jobs
  BY EditorAssumption, NoJobTyped DEF EditorInit
<1>2. All(FirstCamera) \in Seq(Area)
  BY <1>1, AllTyped
<1>3. PICK slot \in Slots : slot = Mappings[1].slot
  <2>1. 1 \in DOMAIN Mappings
    BY EditorAssumption, LenProperties, EmptySeq
  <2> QED BY <2>1 DEF Slots
<1>4. Blank \in CanvasType /\ 1 \in Channels
  BY EditorAssumption DEF Blank, CanvasType, NoDrag, Drags, Channels
<1>5. PICK p : p =
        [canvas |-> Blank, config |-> << >>, saved |-> << >>, row |-> 0,
         fields |-> NoFields, channel |-> 1, slot |-> slot, draft |-> None,
         dirty |-> FALSE, piDirty |-> FALSE, inFlight |-> TRUE, stage |-> "idle",
         pi |-> None, then |-> FALSE, combined |-> FALSE, deleting |-> FALSE,
         preview |-> FALSE, leaving |-> FALSE, away |-> FALSE]
  OBVIOUS
<1>6. p \in PageType /\ FieldsOk(p)
  <2>1. << >> \in Seq(Area)
    BY EmptySeq
  <2> QED BY <1>3, <1>4, <1>5, <2>1 DEF PageType, FieldsOk
<1>7. page = SetConfiguration(p, All(FirstCamera))
  BY <1>3, <1>5 DEF EditorInit
<1>8. Filled(page) /\ Quiet(page)
  BY <1>2, <1>6, <1>7, SetsConfiguration
<1>9. camera \in [Channels -> Seq(Area)]
  BY <1>1 DEF EditorInit
<1> QED BY <1>1, <1>8, <1>9, QuietIsSound DEF EditorInv, CameraOk

LEMMA JobSettlesStep ==
  ASSUME EditorInv, JobSettles
  PROVE  QuietStep(page, page') /\ CameraOk'
<1>1. Filled(page) /\ camera \in [Channels -> Seq(Area)] /\ job \in Jobs
  BY DEF EditorInv, Sound, CameraOk
<1>2. page \in PageType /\ FieldsOk(page)
  BY <1>1 DEF Filled
<1>3. job' \in Jobs
  BY NoJobTyped DEF JobSettles
<1>4. CASE job.what = "read"
  <2>1. page' = SetConfiguration(SetCapabilities(SetOptions(page)), All(camera)) /\ camera' = camera
    BY <1>4 DEF JobSettles
  <2>2. PICK q : q = SetOptions(page)
    OBVIOUS
  <2>3. Filled(q) /\ SameSave(q, page)
    BY <1>1, <2>2, SetsOptions
  <2>4. PICK r : r = SetCapabilities(q)
    OBVIOUS
  <2>5. Filled(r) /\ SameSave(r, q)
    BY <2>3, <2>4, SetsCapabilities
  <2>6. r \in PageType /\ FieldsOk(r) /\ r.pi = page.pi
    BY <2>3, <2>5 DEF Filled, SameSave, SameRequest
  <2>7. All(camera) \in Seq(Area)
    BY <1>1, AllTyped
  <2>8. Filled(page') /\ Quiet(page') /\ page'.pi = page.pi
    BY <2>1, <2>2, <2>4, <2>6, <2>7, SetsConfiguration
  <2> QED BY <1>1, <1>3, <2>1, <2>8, QuietKeeps DEF CameraOk
<1>5. CASE job.what # "read"
  <2>1. PICK after \in {camera, Written} :
          /\ camera' = after
          /\ page' = IF MatchesCamera(job.areas, after[job.channel])
                     THEN ApplySuccess(SetConfiguration(page, All(after)), All(after))
                     ELSE ApplyError(SetConfiguration(page, All(camera)))
    BY <1>5 DEF JobSettles
  <2>2. after \in [Channels -> Seq(Area)]
    <3>1. job.channel \in Channels /\ job.areas \in Seq(Area)
      BY <1>1 DEF Jobs
    <3> QED BY <1>1, <2>1, <3>1 DEF Written
  <2>3. PICK config \in Seq(Area) : config = All(after)
    BY <2>2, AllTyped
  <2>4. PICK before \in Seq(Area) : before = All(camera)
    BY <1>1, AllTyped
  <2>5. QuietStep(page, page')
    <3>1. CASE MatchesCamera(job.areas, after[job.channel])
      <4>1. PICK q : q = SetConfiguration(page, config)
        OBVIOUS
      <4>2. Filled(q) /\ q.pi = page.pi
        BY <1>2, <4>1, SetsConfiguration
      <4>3. page' = ApplySuccess(q, config)
        BY <2>1, <2>3, <3>1, <4>1
      <4> QED BY <4>2, <4>3, Applies DEF QuietStep, SendsVerified
    <3>2. CASE ~MatchesCamera(job.areas, after[job.channel])
      <4>1. PICK q : q = SetConfiguration(page, before)
        OBVIOUS
      <4>2. Filled(q) /\ q.pi = page.pi
        BY <1>2, <4>1, SetsConfiguration
      <4>3. page' = ApplyError(q)
        BY <2>1, <2>4, <3>2, <4>1
      <4>4. Filled(page') /\ Quiet(page') /\ page'.pi = page.pi
        BY <4>2, <4>3, AppliesInVain
      <4> QED BY <4>4, QuietKeeps
    <3> QED BY <3>1, <3>2
  <2> QED BY <1>3, <2>1, <2>2, <2>5 DEF CameraOk
<1> QED BY <1>4, <1>5

LEMMA JobFailsStep ==
  ASSUME EditorInv, JobFails
  PROVE  QuietStep(page, page') /\ CameraOk'
<1>1. Filled(page) /\ camera \in [Channels -> Seq(Area)] /\ job \in Jobs
  BY DEF EditorInv, Sound, CameraOk
<1>2. CameraOk'
  <2>1. job.channel \in Channels /\ job.areas \in Seq(Area) /\ job' \in Jobs
    BY <1>1, NoJobTyped DEF Jobs, JobFails
  <2>2. camera' \in {camera, Written}
    BY DEF JobFails
  <2> QED BY <1>1, <2>1, <2>2 DEF Written, CameraOk
<1>3. CASE job.what = "read"
  <2>1. PICK p \in {page, SetOptions(page), SetCapabilities(SetOptions(page))} :
          page' = UpdateButtons([p EXCEPT !.inFlight = FALSE])
    BY <1>3 DEF JobFails
  <2>2. Filled(p) /\ SameSave(p, page)
    <3>1. PICK q : q = SetOptions(page)
      OBVIOUS
    <3>2. Filled(q) /\ SameSave(q, page)
      BY <1>1, <3>1, SetsOptions
    <3>3. PICK r : r = SetCapabilities(q)
      OBVIOUS
    <3>4. Filled(r) /\ SameSave(r, q)
      BY <3>2, <3>3, SetsCapabilities
    <3>5. SameSave(page, page) /\ SameSave(r, page)
      BY <3>2, <3>4, ChainsOfSaves DEF SameSave, SameConfig, SameEdits, SameRequest
    <3>6. p = page \/ p = q \/ p = r
      BY <2>1, <3>1, <3>3
    <3> QED BY <1>1, <3>2, <3>4, <3>5, <3>6
  <2>3. PICK q : q = [p EXCEPT !.inFlight = FALSE]
    OBVIOUS
  <2>4. q \in PageType /\ SameEditor(q, p) /\ q.config = p.config /\ q.pi = page.pi
    BY <2>2, <2>3 DEF Filled, PageType, SameEditor, SameSave, SameRequest
  <2>5. Filled(page') /\ Quiet(page') /\ SameSave(page', q)
    BY <2>1, <2>2, <2>3, <2>4, EndsWithButtons
  <2>6. page'.pi = page.pi
    BY <2>4, <2>5 DEF SameSave, SameRequest
  <2> QED BY <1>2, <2>5, <2>6, QuietKeeps
<1>4. CASE job.what # "read"
  <2>1. page' = ApplyError(page)
    BY <1>4 DEF JobFails
  <2>2. Filled(page') /\ Quiet(page') /\ page'.pi = page.pi
    BY <1>1, <2>1, AppliesInVain
  <2> QED BY <1>2, <2>2, QuietKeeps
<1> QED BY <1>3, <1>4

LEMMA PiSteps ==
  ASSUME EditorInv, VerifyAnswered \/ RoiFails
  PROVE  QuietStep(page, page')
<1>1. Filled(page)
  BY DEF EditorInv, Sound
<1>2. page' = PiResult(page) \/ page' = PiError(page)
  BY DEF VerifyAnswered, RoiFails
<1>3. Filled(page') /\ Quiet(page') /\ page'.pi = None
  BY <1>1, <1>2, HearsOfPi
<1> QED BY <1>3 DEF QuietStep, SendsVerified

(* What the operator selects, types and discards.                          *)
LEMMA SelectSteps ==
  ASSUME EditorInv, SelectRow \/ ClickChannel \/ ChooseSlot \/ DiscardDraft
  PROVE  QuietStep(page, page') /\ camera' = camera /\ job' = job
<1>1. Filled(page) /\ page \in PageType
  BY DEF EditorInv, Sound, Filled
<1>2. CASE SelectRow
  <2>1. PICK row : Becomes(PopulateEditor(page, row))
    BY <1>2 DEF SelectRow
  <2>2. Filled(page') /\ Quiet(page') /\ SameSave(page', page)
    BY <1>1, <2>1, PopulatesEditor DEF Becomes
  <2> QED BY <2>1, <2>2, QuietKeeps DEF Becomes, SameSave, SameRequest
<1>3. CASE ClickChannel
  <2>1. PICK c \in Channels : Becomes(SelectMapped(SelectChannel(page, c)))
    BY <1>3 DEF ClickChannel
  <2>2. PICK q : q = SelectChannel(page, c)
    OBVIOUS
  <2>3. Filled(q) /\ Quiet(q) /\ SameSave(q, page)
    BY <1>1, <2>2, SelectsFilled
  <2>4. Filled(page') /\ Quiet(page') /\ SameSave(page', q)
    BY <2>1, <2>2, <2>3, SelectsAnyhow DEF Becomes
  <2>5. page'.pi = page.pi
    BY <2>3, <2>4 DEF SameSave, SameRequest
  <2> QED BY <2>1, <2>4, <2>5, QuietKeeps DEF Becomes
<1>4. CASE ChooseSlot
  <2>1. PICK s \in Slots : Becomes(SelectSlot(page, s)) /\ page.draft = None
    BY <1>4 DEF ChooseSlot
  <2>2. Filled(page') /\ Quiet(page') /\ page'.pi = page.pi
    BY <1>1, <2>1, SelectsSlot DEF Becomes
  <2> QED BY <2>1, <2>2, QuietKeeps DEF Becomes
<1>5. CASE DiscardDraft
  <2>1. Becomes(Discard(page)) /\ page.draft # None
    BY <1>5 DEF DiscardDraft
  <2>2. Filled(page') /\ Quiet(page') /\ page'.pi = page.pi
    BY <1>1, <2>1, Discards DEF Becomes
  <2> QED BY <2>1, <2>2, QuietKeeps DEF Becomes
<1> QED BY <1>2, <1>3, <1>4, <1>5

LEMMA TypeSteps ==
  ASSUME EditorInv, TypeIndex \/ TypeName
  PROVE  QuietStep(page, page') /\ camera' = camera /\ job' = job
<1>1. Filled(page) /\ page.row # 0
  BY DEF EditorInv, Sound, TypeIndex, TypeName
<1>2. page.fields \in FieldsType /\ page \in PageType
  BY <1>1, EditedTyped DEF Filled
<1>3. PICK f \in FieldsType : Edits(UpdateButtons(MarkDirty([page EXCEPT !.fields = f], FALSE)))
  <2>1. CASE TypeIndex
    <3>1. PICK i \in Indices : Edits(UpdateButtons(MarkDirty([page EXCEPT !.fields.index = i], FALSE)))
      BY <2>1 DEF TypeIndex
    <3>2. PICK f : f = [page.fields EXCEPT !.index = i]
      OBVIOUS
    <3>3. f \in FieldsType
      BY <1>2, <3>2 DEF FieldsType
    <3>4. [page EXCEPT !.fields.index = i] = [page EXCEPT !.fields = f]
      BY <3>2
    <3> QED BY <3>1, <3>3, <3>4
  <2>2. CASE TypeName
    <3>1. PICK n \in Names : Edits(UpdateButtons(MarkDirty([page EXCEPT !.fields.name = n], FALSE)))
      BY <2>2 DEF TypeName
    <3>2. PICK f : f = [page.fields EXCEPT !.name = n]
      OBVIOUS
    <3>3. f \in FieldsType
      BY <1>2, <3>2 DEF FieldsType
    <3>4. [page EXCEPT !.fields.name = n] = [page EXCEPT !.fields = f]
      BY <3>2
    <3> QED BY <3>1, <3>3, <3>4
  <2> QED BY <2>1, <2>2
<1>4. PICK q : q = [page EXCEPT !.fields = f]
  OBVIOUS
<1>5. Filled(q) /\ q.pi = page.pi
  BY <1>1, <1>4, Retypes DEF SameRequest
<1>6. PICK m : m = MarkDirty(q, FALSE)
  OBVIOUS
<1>7. Filled(m) /\ m.pi = page.pi /\ SameEditor(m, m)
  BY <1>5, <1>6, MarksDirty DEF SameRequest, SameEditor
<1>8. page' = UpdateButtons(m)
  BY <1>3, <1>4, <1>6 DEF Edits
<1>9. Filled(page') /\ Quiet(page') /\ SameSave(page', m)
  BY <1>7, <1>8, EndsWithButtons DEF Filled
<1>10. page'.pi = page.pi
  BY <1>7, <1>9 DEF SameSave, SameRequest
<1> QED BY <1>3, <1>9, <1>10, QuietKeeps DEF Edits

(* The overlays are drawn again: no drag begins, and the row is the same.   *)
LEMMA RedrawnOnly ==
  ASSUME NEW p, Filled(p), Quiet(p)
  PROVE  LET v == UpdateOverlays(p) IN Filled(v) /\ Quiet(v) /\ v.pi = p.pi
<1>1. PICK v : v = UpdateOverlays(p)
  OBVIOUS
<1>2. p \in PageType
  BY DEF Filled
<1>3. v \in PageType /\ SameSave(v, p) /\ SameEditor(v, p)
  BY <1>1, <1>2, UpdatesOverlays
<1>4. Filled(v) /\ v.pi = p.pi
  BY <1>3, StaysFilled DEF SameSave, SameConfig, SameRequest
<1>5. v.canvas.drag = p.canvas.drag /\ v.canvas.edit = p.canvas.edit
  BY <1>1, <1>2 DEF UpdateOverlays, ShowSelected, SetAreas, SetSelected, PageType, CanvasType
<1>6. Quiet(v)
  BY <1>3, <1>5 DEF Quiet, AnyRequest, SameSave, SameRequest
<1> QED BY <1>1, <1>4, <1>6

LEMMA EndDragStep ==
  ASSUME EditorInv, EndDrag
  PROVE  QuietStep(page, page') /\ camera' = camera /\ job' = job
<1>1. Filled(page) /\ DragOk(page.canvas) /\ (page.canvas.edit => ~AnyRequest(page))
  BY DEF EditorInv, Sound
<1>2. PICK c \in CanvasType : c = page.canvas
  BY <1>1, CanvasOfPage
<1>3. PICK released : released = Release(c)
  OBVIOUS
<1>4. released \in CanvasType /\ released.drag = NoDrag /\ released.edit = c.edit
  BY <1>3, ReleaseOk
<1>5. PICK p : p = [page EXCEPT !.canvas = released]
  OBVIOUS
<1>6. p \in PageType /\ p.canvas = released /\ SameSave(p, page) /\ SameEditor(p, page)
  BY <1>1, <1>4, <1>5, CanvasOfPage, OnlyTheCanvas
<1>7. Filled(p) /\ Quiet(p) /\ p.pi = page.pi
  <2>1. Filled(p)
    BY <1>1, <1>6, StaysFilled DEF SameSave, SameConfig
  <2>2. Quiet(p)
    BY <1>1, <1>2, <1>4, <1>6 DEF Quiet, AnyRequest, SameSave, SameRequest
  <2> QED BY <1>6, <2>1, <2>2 DEF SameSave, SameRequest
<1>8. \/ Edits(UpdateButtons(p))
      \/ c.drag.mode = "draw" /\ c.rubber # TooSmall /\ Edits(CreateDraft(p, c.rubber))
      \/ c.drag.mode \in EditingDrags /\ Edits(UpdateDraft(p, c.rect))
      \/ Becomes(Redrawn(p))
  <2>1. c.drag.mode \in {"none", "draw", "move", "corner"}
    BY DEF CanvasType, Drags
  <2>2. CASE c.drag.mode = "none"
    BY <1>2, <2>2 DEF EndDrag
  <2>3. CASE c.drag.mode = "draw" /\ c.rubber = TooSmall
    BY <1>2, <1>3, <1>5, <2>3 DEF EndDrag
  <2>4. CASE c.drag.mode = "draw" /\ c.rubber # TooSmall
    BY <1>2, <1>3, <1>5, <2>4 DEF EndDrag
  <2>5. CASE c.drag.mode \in EditingDrags
    BY <1>2, <1>3, <1>5, <2>5 DEF EndDrag, EditingDrags
  <2> QED BY <2>1, <2>2, <2>3, <2>4, <2>5 DEF EditingDrags
<1>9. Filled(page') /\ Quiet(page') /\ page'.pi = page.pi
  <2>1. CASE Edits(UpdateButtons(p))
    <3>1. SameEditor(p, p)
      BY DEF SameEditor
    <3>2. Filled(page') /\ Quiet(page') /\ SameSave(page', p)
      BY <1>6, <1>7, <2>1, <3>1, EndsWithButtons DEF Edits
    <3> QED BY <1>7, <3>2 DEF SameSave, SameRequest
  <2>2. CASE c.drag.mode = "draw" /\ c.rubber # TooSmall /\ Edits(CreateDraft(p, c.rubber))
    <3>1. c.rubber \in Rects
      BY <1>1, <1>2, <2>2 DEF DragOk, CanvasType
    <3> QED BY <1>7, <2>2, <3>1, CreatesDraft DEF Edits
  <2>3. CASE c.drag.mode \in EditingDrags /\ Edits(UpdateDraft(p, c.rect))
    <3>1. c.rect \in Rects
      BY <1>1, <1>2, <2>3 DEF DragOk
    <3> QED BY <1>7, <2>3, <3>1, UpdatesDraft DEF Edits
  <2>4. CASE Becomes(Redrawn(p))
    <3>1. page' = UpdateOverlays(p)
      BY <2>4 DEF Becomes, Redrawn
    <3> QED BY <1>7, <3>1, RedrawnOnly DEF Filled
  <2> QED BY <1>8, <2>1, <2>2, <2>3, <2>4
<1> QED BY <1>8, <1>9, QuietKeeps DEF Edits, Becomes

(* What is started.                                                        *)
LEMMA SaveSteps ==
  ASSUME EditorInv, SaveChanges \/ LeaveSaving
  PROVE  QuietStep(page, page') /\ CameraOk'
<1>1. Filled(page) /\ camera \in [Channels -> Seq(Area)]
  BY DEF EditorInv, Sound, CameraOk
<1>2. page.row # 0
  BY DEF SaveChanges, LeaveSaving, CanStart
<1>3. CASE SaveChanges
  <2>1. PICK s : s = StartSave(page) /\ Starts(s)
    BY <1>3 DEF SaveChanges
  <2>2. Filled(s.page) /\ Quiet(s.page) /\ s.job \in Jobs /\ SendsVerified(s.page, page)
    BY <1>1, <1>2, <2>1, StartsSave
  <2> QED BY <1>1, <2>1, <2>2 DEF Starts, QuietStep, CameraOk
<1>4. CASE LeaveSaving
  <2>1. PICK p : p = [page EXCEPT !.leaving = TRUE]
    OBVIOUS
  <2>2. /\ p \in PageType /\ SameEditor(p, page) /\ p.config = page.config
        /\ p.pi = page.pi
    BY <1>1, <2>1 DEF Filled, PageType, SameEditor
  <2>3. Filled(p) /\ p.row # 0
    BY <1>1, <1>2, <2>2, StaysFilled DEF SameEditor
  <2>4. PICK s : s = StartSave(p)
    OBVIOUS
  <2>5. Filled(s.page) /\ Quiet(s.page) /\ s.job \in Jobs /\ SendsVerified(s.page, page)
    BY <2>2, <2>3, <2>4, StartsSave DEF SendsVerified
  <2>6. Starts(IF page.dirty \/ s.page.pi # None THEN s ELSE [s EXCEPT !.page.leaving = FALSE])
    BY <1>4, <2>1, <2>4 DEF LeaveSaving
  <2>7. CASE page.dirty \/ s.page.pi # None
    BY <1>1, <2>5, <2>6, <2>7 DEF Starts, QuietStep, CameraOk
  <2>8. CASE ~(page.dirty \/ s.page.pi # None)
    <3>1. PICK v : v = [s.page EXCEPT !.leaving = FALSE]
      OBVIOUS
    <3>2. /\ v \in PageType /\ SameEditor(v, s.page) /\ v.config = s.page.config
          /\ v.canvas = s.page.canvas /\ v.pi = None /\ SameRequest(v, s.page)
      BY <2>5, <2>8, <3>1 DEF Filled, PageType, SameEditor, SameRequest
    <3>3. Filled(v) /\ Quiet(v)
      BY <2>5, <3>2, StaysFilled DEF Quiet, AnyRequest, SameRequest
    <3>4. StartSave(p).page = s.page /\ "page" \in DOMAIN s /\ "job" \in DOMAIN s
      <4>1. \E x, y : s = [page |-> x, job |-> y]
        BY <2>4 DEF StartSave, StartApply
      <4> QED BY <2>4, <4>1
    <3>5. PICK t : t = [s EXCEPT !.page.leaving = FALSE]
      OBVIOUS
    <3>6. t.page = v /\ t.job = s.job
      BY <3>1, <3>4, <3>5
    <3>7. page' = v /\ job' = s.job /\ camera' = camera
      BY <2>6, <2>8, <3>5, <3>6 DEF Starts
    <3> QED BY <1>1, <2>5, <3>2, <3>3, <3>7 DEF QuietStep, SendsVerified, CameraOk
  <2> QED BY <2>7, <2>8
<1> QED BY <1>3, <1>4

LEMMA DeleteAreaStep ==
  ASSUME EditorInv, DeleteArea
  PROVE  QuietStep(page, page') /\ CameraOk'
<1>1. Filled(page) /\ camera \in [Channels -> Seq(Area)] /\ page.row # 0
  BY DEF EditorInv, Sound, CameraOk, DeleteArea
<1>2. PICK a \in Area : a = page.config[page.row] /\ a.channel \in Channels
  BY <1>1, EditedTyped
<1>3. PICK here : here = OnChannel(page.saved, a.channel)
  OBVIOUS
<1>4. here \in Seq(Area)
  BY <1>1, <1>3, OnlyTyped DEF OnChannel, Filled, PageType
<1>5. PICK areas : areas = Only(here, {k \in DOMAIN here : here[k].index # a.index})
  OBVIOUS
<1>6. areas \in Seq(Area)
  BY <1>4, <1>5, OnlyTyped
<1>7. PICK p : p = [page EXCEPT !.deleting = TRUE]
  OBVIOUS
<1>8. p \in PageType /\ SameEditor(p, page) /\ p.config = page.config /\ p.pi = page.pi
  BY <1>1, <1>7 DEF Filled, PageType, SameEditor
<1>9. Filled(p)
  BY <1>1, <1>8, StaysFilled
<1>10. PICK s : s = StartApply(p, "delete", a.channel, areas)
  OBVIOUS
<1>11. Filled(s.page) /\ Quiet(s.page) /\ s.page.pi = page.pi /\ s.job \in Jobs
  BY <1>2, <1>6, <1>8, <1>9, <1>10, StartsApply
<1>12. Starts(s)
  BY <1>2, <1>3, <1>5, <1>7, <1>10 DEF DeleteArea
<1> QED BY <1>1, <1>11, <1>12, QuietKeeps DEF Starts, CameraOk

LEMMA RefreshTimerStep ==
  ASSUME EditorInv, RefreshTimer
  PROVE  QuietStep(page, page') /\ CameraOk'
<1>1. Filled(page) /\ camera \in [Channels -> Seq(Area)]
  BY DEF EditorInv, Sound, CameraOk
<1>2. PICK q : q = [page EXCEPT !.inFlight = TRUE]
  OBVIOUS
<1>3. q \in PageType /\ SameEditor(q, page) /\ q.config = page.config /\ q.pi = page.pi
  BY <1>1, <1>2 DEF Filled, PageType, SameEditor
<1>4. PICK v : v = UpdateButtons(q)
  OBVIOUS
<1>5. Filled(v) /\ Quiet(v) /\ v.pi = page.pi
  BY <1>1, <1>3, <1>4, EndsWithButtons DEF SameSave, SameRequest
<1>6. [NoJob EXCEPT !.what = "read"] \in Jobs
  BY NoJobTyped DEF Jobs, NoJob
<1>7. page' = v /\ job' = [NoJob EXCEPT !.what = "read"] /\ camera' = camera
  BY <1>2, <1>4 DEF RefreshTimer, Starts
<1> QED BY <1>1, <1>5, <1>6, <1>7, QuietKeeps DEF CameraOk

LEMMA LeaveDiscardingStep ==
  ASSUME EditorInv, LeaveDiscarding
  PROVE  QuietStep(page, page') /\ camera' = camera /\ job' = job
<1>1. Filled(page)
  BY DEF EditorInv, Sound
<1>2. PICK q : q = [page EXCEPT !.config = page.saved, !.draft = None, !.dirty = FALSE,
                                !.piDirty = FALSE, !.leaving = FALSE]
  OBVIOUS
<1>3. q \in PageType /\ FieldsOk(q) /\ q.draft = None /\ q.pi = page.pi
  BY <1>1, <1>2 DEF Filled, PageType, FieldsOk
<1>4. PICK s : s = ShowTable(q)
  OBVIOUS
<1>5. Filled(s) /\ SameSave(s, q)
  BY <1>3, <1>4, ShowsTable
<1>6. PICK m : m = SelectMapped(s)
  OBVIOUS
<1>7. Filled(m) /\ SameSave(m, s)
  <2>1. s.draft = None /\ s \in PageType
    BY <1>3, <1>5 DEF SameSave, SameConfig, Filled
  <2> QED BY <1>6, <2>1, SelectsMapped
<1>8. PICK u : u = UpdateOverlays(m)
  OBVIOUS
<1>9. u \in PageType /\ SameSave(u, m) /\ SameEditor(u, m)
  BY <1>7, <1>8, UpdatesOverlays DEF Filled
<1>10. PICK w : w = UpdateButtons(u)
  OBVIOUS
<1>11. Filled(w) /\ Quiet(w) /\ SameSave(w, u)
  BY <1>7, <1>9, <1>10, EndsWithButtons DEF SameSave, SameConfig
<1>12. PICK v : v = [w EXCEPT !.away = TRUE]
  OBVIOUS
<1>13. /\ v \in PageType /\ SameEditor(v, w) /\ v.config = w.config
       /\ v.canvas = w.canvas /\ SameRequest(v, w)
  BY <1>11, <1>12 DEF Filled, PageType, SameEditor, SameRequest
<1>14. Filled(v) /\ Quiet(v) /\ v.pi = page.pi
  <2>1. Filled(v)
    BY <1>11, <1>13, StaysFilled
  <2>2. Quiet(v)
    BY <1>11, <1>13 DEF Quiet, AnyRequest, SameRequest
  <2>3. v.pi = page.pi
    BY <1>3, <1>5, <1>7, <1>9, <1>11, <1>13 DEF SameSave, SameRequest
  <2> QED BY <2>1, <2>2, <2>3
<1>15. Becomes(v)
  BY <1>2, <1>4, <1>6, <1>8, <1>10, <1>12 DEF LeaveDiscarding
<1> QED BY <1>14, <1>15, QuietKeeps DEF Becomes

(* The steps that let a drag go on, and do not touch what it edits.        *)
LEMMA StaysOnRow ==
  ASSUME Sound(page), page'.row = page.row, page'.config = page.config,
         page'.canvas.selected = page.canvas.selected, SameRequest(page', page)
  PROVE  KeepsItsRow /\ RegionIsVerified
<1>1. page.canvas.drag.mode \in EditingDrags => ~AnyRequest(page')
  BY DEF Sound, DragOk, AnyRequest, SameRequest
<1> QED BY <1>1, SameRegion DEF KeepsItsRow, SameRequest

(* Another canvas, on which areas can be edited as before.                 *)
LEMMA OnTheCanvas ==
  ASSUME EditorInv, NEW c \in CanvasType, OnCanvas(c), DragOk(c), c.edit = page.canvas.edit
  PROVE  /\ Sound(page') /\ CameraOk' /\ page'.canvas = c
         /\ SameSave(page', page) /\ SameEditor(page', page)
<1>1. Filled(page) /\ page \in PageType /\ (page.canvas.edit => ~AnyRequest(page))
  BY DEF EditorInv, Sound, Filled
<1>2. page' = [page EXCEPT !.canvas = c]
  BY DEF OnCanvas, Becomes
<1>3. page' \in PageType /\ page'.canvas = c /\ SameSave(page', page) /\ SameEditor(page', page)
  BY <1>1, <1>2, OnlyTheCanvas
<1>4. Filled(page')
  BY <1>1, <1>3, StaysFilled DEF SameSave, SameConfig
<1>5. Sound(page')
  BY <1>1, <1>3, <1>4 DEF Sound, AnyRequest, SameSave, SameRequest
<1>6. CameraOk'
  BY DEF EditorInv, CameraOk, OnCanvas, Becomes
<1> QED BY <1>3, <1>5, <1>6

LEMMA PressSteps ==
  ASSUME EditorInv, GrabArea \/ BeginRectangle
  PROVE  Sound(page') /\ CameraOk' /\ RegionIsVerified /\ KeepsItsRow
<1>1. PICK c \in CanvasType : c = page.canvas
  BY CanvasOfPage DEF EditorInv, Sound
<1>2. page.canvas.drag = NoDrag
  BY DEF GrabArea, BeginRectangle, Still
<1>3. PICK d \in CanvasType : OnCanvas(d) /\ DragOk(d) /\ d.edit = page.canvas.edit
  <2>1. CASE GrabArea
    <3>1. PICK mode \in EditingDrags : OnCanvas(Press(c, mode)) /\ c.edit /\ c.rect # None
      BY <1>1, <2>1 DEF GrabArea, EditingDrags
    <3>2. PICK d : d = Press(c, mode)
      OBVIOUS
    <3> QED BY <1>1, <3>1, <3>2, PressesOk
  <2>2. CASE BeginRectangle
    <3>1. PICK d : d = PressToDraw(c)
      OBVIOUS
    <3>2. OnCanvas(d)
      BY <1>1, <2>2, <3>1 DEF BeginRectangle
    <3> QED BY <1>1, <3>1, <3>2, PressesOk
  <2> QED BY <2>1, <2>2
<1>4. Sound(page') /\ CameraOk' /\ SameSave(page', page)
  BY <1>3, OnTheCanvas
<1>5. RegionIsVerified
  BY <1>4, SameRegion DEF SameSave, SameRequest
<1>6. page.canvas.drag.mode \notin EditingDrags
  BY <1>2 DEF NoDrag, EditingDrags
<1> QED BY <1>4, <1>5, <1>6 DEF KeepsItsRow

LEMMA DragStep ==
  ASSUME EditorInv, Drag
  PROVE  Sound(page') /\ CameraOk' /\ RegionIsVerified /\ KeepsItsRow
<1>1. PICK c \in CanvasType : c = page.canvas /\ DragOk(c)
  BY CanvasOfPage DEF EditorInv, Sound
<1>2. CASE \E r \in Reached(c) : OnCanvas(DragTo(c, r))
  <2>1. PICK r \in Reached(c) : OnCanvas(DragTo(c, r))
    BY <1>2
  <2>2. PICK d : d = DragTo(c, r)
    OBVIOUS
  <2>3. /\ d \in CanvasType /\ DragOk(d) /\ d.edit = c.edit /\ d.selected = c.selected
    BY <1>1, <2>2, MovesOk
  <2>4. OnCanvas(d)
    BY <2>1, <2>2
  <2>5. /\ Sound(page') /\ CameraOk' /\ page'.canvas = d
        /\ SameSave(page', page) /\ SameEditor(page', page)
    BY <1>1, <2>3, <2>4, OnTheCanvas
  <2>6. KeepsItsRow /\ RegionIsVerified
    <3>1. /\ page'.row = page.row /\ page'.config = page.config
          /\ page'.canvas.selected = page.canvas.selected /\ SameRequest(page', page)
      BY <1>1, <2>3, <2>5 DEF SameSave, SameConfig, SameEditor
    <3> QED BY <3>1, StaysOnRow DEF EditorInv
  <2> QED BY <2>5, <2>6
<1>3. CASE c.drag.mode = "draw" /\ \E r \in Rects \cup {TooSmall} : OnCanvas(DrawTo(c, r))
  <2>1. PICK r \in Rects \cup {TooSmall} : OnCanvas(DrawTo(c, r))
    BY <1>3
  <2>2. PICK d : d = DrawTo(c, r)
    OBVIOUS
  <2>3. d \in CanvasType /\ DragOk(d) /\ d.edit = c.edit
    BY <1>1, <1>3, <2>2, MovesOk
  <2>4. OnCanvas(d)
    BY <2>1, <2>2
  <2>5. Sound(page') /\ CameraOk' /\ SameSave(page', page)
    BY <1>1, <2>3, <2>4, OnTheCanvas
  <2>6. RegionIsVerified
    BY <2>5, SameRegion DEF SameSave, SameRequest
  <2>7. page.canvas.drag.mode \notin EditingDrags
    BY <1>1, <1>3 DEF EditingDrags
  <2> QED BY <2>5, <2>6, <2>7 DEF KeepsItsRow
<1> QED BY <1>1, <1>2, <1>3 DEF Drag

LEMMA FrameStep ==
  ASSUME EditorInv, Frame
  PROVE  Sound(page') /\ CameraOk' /\ RegionIsVerified /\ KeepsItsRow
<1>1. /\ Filled(page) /\ page \in PageType /\ DragOk(page.canvas)
      /\ (page.canvas.edit => ~AnyRequest(page))
  BY DEF EditorInv, Sound, Filled
<1>2. PICK seen \in BOOLEAN, fits \in BOOLEAN, changed \in BOOLEAN :
        LET p == [page EXCEPT !.preview = seen, !.canvas.frame = fits] IN
        Becomes(IF changed THEN UpdateButtons(p) ELSE p)
  <2>1. PICK image \in BOOLEAN, fits \in BOOLEAN, changed \in BOOLEAN :
          LET p == [page EXCEPT !.preview = @ \/ image, !.canvas.frame = fits] IN
          Becomes(IF changed THEN UpdateButtons(p) ELSE p)
    BY DEF Frame
  <2>2. PICK seen \in BOOLEAN : seen = (page.preview \/ image)
    OBVIOUS
  <2> QED BY <2>1, <2>2
<1>3. PICK c : c = [page.canvas EXCEPT !.frame = fits]
  OBVIOUS
<1>4. /\ c \in CanvasType /\ c.drag = page.canvas.drag /\ c.rect = page.canvas.rect
      /\ c.edit = page.canvas.edit /\ c.selected = page.canvas.selected
      /\ c.rubber = page.canvas.rubber
  BY <1>1, <1>3 DEF PageType, CanvasType
<1>5. PICK p : p = [page EXCEPT !.preview = seen, !.canvas = c]
  OBVIOUS
<1>6. /\ p \in PageType /\ p.canvas = c /\ p.row = page.row /\ p.fields = page.fields
      /\ SameSave(p, page)
  BY <1>1, <1>4, <1>5 DEF PageType, SameSave, SameConfig, SameEdits, SameRequest
<1>7. Filled(p)
  BY <1>1, <1>6 DEF Filled, FieldsOk, SameSave, SameConfig
<1>8. Becomes(IF changed THEN UpdateButtons(p) ELSE p)
  <2>1. p = [page EXCEPT !.preview = seen, !.canvas.frame = fits]
    BY <1>3, <1>5
  <2> QED BY <1>2, <2>1
<1>9. CameraOk'
  BY <1>8 DEF EditorInv, CameraOk, Becomes
<1>10. CASE changed
  <2>1. page' = UpdateButtons(p) /\ SameEditor(p, p)
    BY <1>8, <1>10 DEF Becomes, SameEditor
  <2>2. Filled(page') /\ Quiet(page') /\ SameSave(page', p)
    BY <1>6, <1>7, <2>1, EndsWithButtons
  <2>3. page'.pi = page.pi
    BY <1>6, <2>2 DEF SameSave, SameRequest
  <2> QED BY <1>9, <2>2, <2>3, QuietKeeps, QuietStepKeeps
<1>11. CASE ~changed
  <2>1. page' = p
    BY <1>8, <1>11 DEF Becomes
  <2>2. Sound(page')
    BY <1>1, <1>4, <1>6, <1>7, <2>1 DEF Sound, DragOk, AnyRequest, SameSave, SameRequest
  <2>3. KeepsItsRow /\ RegionIsVerified
    <3>1. /\ page'.row = page.row /\ page'.config = page.config
          /\ page'.canvas.selected = page.canvas.selected /\ SameRequest(page', page)
      BY <1>4, <1>6, <2>1 DEF SameSave, SameConfig
    <3> QED BY <3>1, StaysOnRow DEF EditorInv
  <2> QED BY <1>9, <2>2, <2>3
<1> QED BY <1>10, <1>11

LEMMA TypeCoordinatesStep ==
  ASSUME EditorInv, TypeCoordinates
  PROVE  Sound(page') /\ CameraOk' /\ RegionIsVerified /\ KeepsItsRow
<1>1. /\ Filled(page) /\ page.row # 0 /\ DragOk(page.canvas)
      /\ (page.canvas.edit => ~AnyRequest(page))
  BY DEF EditorInv, Sound, TypeCoordinates
<1>2. page.fields \in FieldsType
  BY <1>1, EditedTyped
<1>3. PICK r \in Rects : Edits(MarkDirty([page EXCEPT !.fields.rect = r], TRUE))
  BY DEF TypeCoordinates
<1>4. PICK f : f = [page.fields EXCEPT !.rect = r]
  OBVIOUS
<1>5. f \in FieldsType
  BY <1>2, <1>4 DEF FieldsType
<1>6. PICK q : q = [page EXCEPT !.fields = f]
  OBVIOUS
<1>7. /\ Filled(q) /\ q.canvas = page.canvas /\ q.row = page.row
      /\ SameConfig(q, page) /\ SameRequest(q, page)
  BY <1>1, <1>5, <1>6, Retypes
<1>8. page' = MarkDirty(q, TRUE) /\ camera' = camera /\ job' = job
  <2>1. q = [page EXCEPT !.fields.rect = r]
    BY <1>4, <1>6
  <2> QED BY <1>3, <2>1 DEF Edits
<1>9. /\ Filled(page') /\ page'.canvas = page.canvas /\ page'.row = page.row
      /\ page'.config = page.config /\ SameRequest(page', page)
  <2>1. /\ Filled(page') /\ page'.canvas = q.canvas /\ SameEditor(page', q)
        /\ SameConfig(page', q) /\ SameRequest(page', q)
    BY <1>7, <1>8, MarksDirty
  <2> QED BY <1>7, <2>1 DEF SameEditor, SameConfig, SameRequest
<1>10. Sound(page')
  BY <1>1, <1>9 DEF Sound, AnyRequest, SameRequest
<1>11. KeepsItsRow /\ RegionIsVerified
  BY <1>9, StaysOnRow DEF EditorInv
<1>12. CameraOk'
  BY <1>8 DEF EditorInv, CameraOk
<1> QED BY <1>10, <1>11, <1>12

LEMMA IdleSteps ==
  ASSUME EditorInv, PutAnswered \/ Return \/ UNCHANGED roiVars
  PROVE  Sound(page') /\ CameraOk' /\ RegionIsVerified /\ KeepsItsRow
<1>1. /\ Filled(page) /\ DragOk(page.canvas) /\ (page.canvas.edit => ~AnyRequest(page))
  BY DEF EditorInv, Sound
<1>2. page' = page \/ page' = [page EXCEPT !.away = FALSE]
  BY DEF PutAnswered, Return, Becomes, roiVars
<1>3. CameraOk'
  BY DEF EditorInv, CameraOk, PutAnswered, Return, Becomes, roiVars
<1>4. /\ page' \in PageType /\ page'.canvas = page.canvas /\ SameEditor(page', page)
      /\ page'.config = page.config /\ SameRequest(page', page)
  <2>1. CASE page' = page
    BY <1>1, <2>1 DEF Filled, SameEditor, SameRequest
  <2>2. CASE page' = [page EXCEPT !.away = FALSE]
    BY <1>1, <2>2 DEF Filled, PageType, SameEditor, SameRequest
  <2> QED BY <1>2, <2>1, <2>2
<1>5. Filled(page')
  BY <1>1, <1>4, StaysFilled
<1>6. Sound(page')
  BY <1>1, <1>4, <1>5 DEF Sound, AnyRequest, SameRequest
<1>7. KeepsItsRow /\ RegionIsVerified
  BY <1>4, StaysOnRow DEF EditorInv, SameEditor
<1> QED BY <1>3, <1>6, <1>7

(* Each step keeps the invariant and has both action properties.           *)
LEMMA EveryStep ==
  ASSUME EditorInv, [EditorNext]_roiVars
  PROVE  EditorInv' /\ RegionIsVerified /\ KeepsItsRow
<1>1. CASE QuietStep(page, page') /\ CameraOk'
  BY <1>1, QuietStepKeeps DEF EditorInv
<1>2. CASE Sound(page') /\ CameraOk' /\ RegionIsVerified /\ KeepsItsRow
  BY <1>2 DEF EditorInv
<1>3. ASSUME camera' = camera, job' = job PROVE CameraOk'
  BY <1>3 DEF EditorInv, CameraOk
<1>4. CASE JobSettles
  BY <1>1, <1>4, JobSettlesStep
<1>5. CASE JobFails
  BY <1>1, <1>5, JobFailsStep
<1>6. CASE VerifyAnswered \/ RoiFails
  BY <1>1, <1>3, <1>6, PiSteps DEF VerifyAnswered, RoiFails
<1>7. CASE SelectRow \/ ClickChannel \/ ChooseSlot \/ DiscardDraft
  BY <1>1, <1>3, <1>7, SelectSteps
<1>8. CASE TypeIndex \/ TypeName
  BY <1>1, <1>3, <1>8, TypeSteps
<1>9. CASE EndDrag
  BY <1>1, <1>3, <1>9, EndDragStep
<1>10. CASE SaveChanges \/ LeaveSaving
  BY <1>1, <1>10, SaveSteps
<1>11. CASE DeleteArea
  BY <1>1, <1>11, DeleteAreaStep
<1>12. CASE RefreshTimer
  BY <1>1, <1>12, RefreshTimerStep
<1>13. CASE LeaveDiscarding
  BY <1>1, <1>3, <1>13, LeaveDiscardingStep
<1>14. CASE GrabArea \/ BeginRectangle
  BY <1>2, <1>14, PressSteps
<1>15. CASE Drag
  BY <1>2, <1>15, DragStep
<1>16. CASE Frame
  BY <1>2, <1>16, FrameStep
<1>17. CASE TypeCoordinates
  BY <1>2, <1>17, TypeCoordinatesStep
<1>18. CASE PutAnswered \/ Return \/ UNCHANGED roiVars
  BY <1>2, <1>18, IdleSteps
<1> QED BY <1>4, <1>5, <1>6, <1>7, <1>8, <1>9, <1>10, <1>11, <1>12, <1>13, <1>14, <1>15,
           <1>16, <1>17, <1>18 DEF EditorNext

-----------------------------------------------------------------------------
(* The theorems.                                                           *)

(* Table, editor and canvas of the page fit together after any steps: the  *)
(* editor is empty or of a row of the table, a drag that edits has a       *)
(* rectangle, and none goes on while a request runs (populateEditor,       *)
(* updateButtons).                                                         *)
THEOREM EditorInvariant == EditorSpec => []EditorInv
<1>1. EditorInit => EditorInv
  BY InitSound
<1>2. EditorInv /\ [EditorNext]_roiVars => EditorInv'
  BY EveryStep
<1> QED BY <1>1, <1>2, PTL DEF EditorSpec

(* Whatever is drawn, moved or stretched, and whichever rows, channels and *)
(* configurations come in between, every rectangle stays in the picture    *)
(* and no side becomes shorter than MinSide (mouseMoveEvent), and the      *)
(* editor is of a row that the table has (populateAreaTable).              *)
THEOREM EditorTyped == EditorSpec => []EditorTypeOK
<1>1. EditorInv => EditorTypeOK
  BY DEF EditorInv, Sound, Filled, FieldsOk, CameraOk, EditorTypeOK
<1> QED BY <1>1, EditorInvariant, PTL

(* The region that a save sends to the Pi after the camera is the one the  *)
(* camera has verified for the area of that slot, whatever the operator    *)
(* selects or types while the camera is written (setApplySuccess,          *)
(* requestPiRoiSave).                                                      *)
THEOREM RoiIsVerified == EditorSpec => RoiFollowsCamera
<1>1. EditorInv /\ [EditorNext]_roiVars => [RegionIsVerified]_roiVars
  BY EveryStep
<1> QED BY <1>1, EditorInvariant, PTL DEF EditorSpec, RoiFollowsCamera

(* While a drag edits, no load, selection, change of channel, edit of a    *)
(* row or save changes the row into which updateRectangleDraft will write  *)
(* (updateButtons ends it through setDrawMode).                            *)
THEOREM DragsKeepTheirRow == EditorSpec => DragKeepsItsRow
<1>1. EditorInv /\ [EditorNext]_roiVars => [KeepsItsRow]_roiVars
  BY EveryStep
<1> QED BY <1>1, EditorInvariant, PTL DEF EditorSpec, DragKeepsItsRow
=============================================================================
