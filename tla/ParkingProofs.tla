--------------------------- MODULE ParkingProofs ---------------------------
(***************************************************************************)
(* Proofs about the parking slots: first MapSession, which draws and saves *)
(* their map, then SlotBoard with Notices, which shows their states.       *)
(*                                                                         *)
(* MapSession, for any cameras and slot counts and any files found at the  *)
(* first start, of any length: what the map shows is on the disk when the  *)
(* program says so, and what is on the disk comes back.  Reading, filling, *)
(* filtering and settling go through the zones one by one.  What they come *)
(* to after n of them is proved by induction (UpTo) and recursion          *)
(* (RecursionRuns); the lemmas named Runs say that the model's operator is *)
(* that function, those named Typed what it returns, and StoredIsLoaded    *)
(* that what is written of a valid layout is loaded as it was.             *)
(*                                                                         *)
(* MapInv is its inductive invariant.  It adds to the properties of the    *)
(* runs that the overviews of the page and of the dialog are as the file   *)
(* gives them back (Neat), and that no question about the end of the       *)
(* session is below another (AskInv).                                      *)
(*                                                                         *)
(* SlotBoard, for any slots, any events and reports that keep to the texts *)
(* the client knows, and any limits: the two pictures of a slot agree, a   *)
(* poll neither ends nor reopens an alarm, and a notification goes only    *)
(* with its alarm.  BoardInv is its inductive invariant: the types, by     *)
(* their parts, of the slots, the seen events and the notifications, which *)
(* are named once.                                                         *)
(***************************************************************************)
EXTENDS MapSession, SlotBoard, Recursion, SequenceTheorems

-----------------------------------------------------------------------------
(* The zones of a file and of the map.                                     *)

(* A zone that has been read, and one that the page shows.                 *)
ReadType == {z \in ZoneType : z.id # NoId /\ z.order > 0 /\ z.area \in Areas \cup {0}}
PageZone == {z \in ReadType : z.ch \in ParkingChannels}

(* Sequences of zones are functions of their places.                       *)
LEMMA ZonesAreByPlace ==
  ASSUME NEW Z, NEW zones \in Seq(Z)
  PROVE  /\ Len(zones) \in Nat /\ DOMAIN zones = 1..Len(zones)
         /\ zones \in [1..Len(zones) -> Z]
         /\ \A s : s \in [1..Len(zones) -> Z] => s \in Seq(Z) /\ Len(s) = Len(zones)
BY LenProperties, SeqDef

(* The least of the areas that are free.                                   *)
LEMMA LeastAreaIsFree ==
  ASSUME NEW S \in SUBSET Areas, S # {}
  PROVE  LeastOf(S) \in S
<1>1. \A x \in Areas : x = 1 \/ x = 2 \/ x = 3 \/ x = 4
  BY DEF Areas
<1>2. \E x \in S : \A y \in S : x <= y
  <2>1. CASE 1 \in S
    BY <1>1, <2>1
  <2>2. CASE 1 \notin S /\ 2 \in S
    BY <1>1, <2>2
  <2>3. CASE 1 \notin S /\ 2 \notin S /\ 3 \in S
    BY <1>1, <2>3
  <2>4. CASE 1 \notin S /\ 2 \notin S /\ 3 \notin S
    BY <1>1, <2>4
  <2> QED BY <2>1, <2>2, <2>3, <2>4
<1> QED BY <1>2 DEF LeastOf

(* An entry is read field by field.                                        *)
LEMMA EntryByField ==
  ASSUME NEW e \in ZoneType, NEW order \in Nat
  PROVE  ZoneFromFile(e, order) =
           [id |-> e.id, ch |-> e.ch, order |-> order,
            area |-> IF e.area \in Areas THEN e.area ELSE 0,
            rect |-> IF IsFixed(e.ch, order) THEN FixedRect(e.ch) ELSE e.rect]
<1>1. /\ e = [id |-> e.id, ch |-> e.ch, order |-> e.order, area |-> e.area, rect |-> e.rect]
      /\ e.rect \in RectType /\ e.id \in IdWords \X Nat /\ e.ch \in Channels
  BY DEF ZoneType
<1>2. PICK z : z = ZoneFromFile(e, order)
  OBVIOUS
<1>3. z = [id |-> e.id, ch |-> e.ch, order |-> order,
           area |-> IF e.area \in Areas THEN e.area ELSE 0,
           rect |-> IF IsFixed(e.ch, order) THEN FixedRect(e.ch) ELSE e.rect]
  BY <1>1, <1>2 DEF ZoneFromFile
<1> QED BY <1>2, <1>3

(* An entry keeps what it is of, unless it is dropped.                     *)
LEMMA EntryIsRead ==
  ASSUME NEW e \in ZoneType, NEW order \in Nat \ {0}
  PROVE  /\ ZoneFromFile(e, order) \in ZoneType
         /\ e.id # NoId => ZoneFromFile(e, order) \in ReadType
<1>0. PICK z : z = ZoneFromFile(e, order)
  OBVIOUS
<1>1. FixedRect(e.ch) \in RectType /\ Areas \subseteq Int
  BY DEF FixedRect, RectType, ZoneType, Areas
<1>2. /\ z \in ZoneType
      /\ z.id = e.id /\ z.order = order /\ z.area \in Areas \cup {0}
  <2>1. e = [id |-> e.id, ch |-> e.ch, order |-> e.order, area |-> e.area, rect |-> e.rect]
        /\ e.rect \in RectType /\ e.id \in IdWords \X Nat /\ e.ch \in Channels
    BY DEF ZoneType
  <2>2. z = [id |-> e.id, ch |-> e.ch, order |-> order,
             area |-> IF e.area \in Areas THEN e.area ELSE 0,
             rect |-> IF IsFixed(e.ch, order) THEN FixedRect(e.ch) ELSE e.rect]
    BY <1>0, EntryByField
  <2>3. (IF IsFixed(e.ch, order) THEN FixedRect(e.ch) ELSE e.rect) \in RectType
    BY <1>1, <2>1
  <2>4. (IF e.area \in Areas THEN e.area ELSE 0) \in Areas \cup {0}
    OBVIOUS
  <2> QED BY <1>1, <2>1, <2>2, <2>3, <2>4 DEF ZoneType
<1>3. e.id # NoId => z \in ReadType
  BY <1>2 DEF ReadType
<1> QED BY <1>0, <1>2, <1>3

-----------------------------------------------------------------------------
(* Reading.                                                                *)

TakenType == [zones : Seq(ReadType), last : [Channels -> Nat]]
NothingTaken == [zones |-> <<>>, last |-> [ch \in Channels |-> 0]]

(* An entry that is taken keeps what has been taken typed.                 *)
LEMMA TakesTyped ==
  ASSUME NEW acc \in TakenType, NEW e \in ZoneType
  PROVE  TakeEntry(acc, e) \in TakenType
<1> DEFINE order == IF e.order <= 0 THEN acc.last[e.ch] + 1 ELSE e.order
<1>1. e.ch \in Channels /\ e.order \in Int /\ acc.last \in [Channels -> Nat]
      /\ acc.zones \in Seq(ReadType)
  BY DEF ZoneType, TakenType
<1>2. order \in Nat \ {0}
  BY <1>1
<1> HIDE DEF order
<1>3. e.id # NoId => Append(acc.zones, ZoneFromFile(e, order)) \in Seq(ReadType)
  BY <1>1, <1>2, EntryIsRead, AppendProperties
<1>4. [acc.last EXCEPT ![e.ch] = IF order > @ THEN order ELSE @] \in [Channels -> Nat]
  BY <1>1, <1>2
<1> QED BY <1>1, <1>3, <1>4 DEF TakeEntry, TakenType, order

(* Reading takes the entries one after the other.                          *)
LEMMA ReadRuns ==
  ASSUME NEW entries \in Seq(ZoneType)
  PROVE  \E g \in [0..Len(entries) -> TakenType] :
           /\ Read(entries) = g[Len(entries)].zones
           /\ g[0] = NothingTaken
           /\ \A k \in 1..Len(entries) : g[k] = TakeEntry(g[k - 1], entries[k])
<1> DEFINE L == Len(entries)
           step == [k \in 1..L |-> [v \in TakenType |-> TakeEntry(v, entries[k])]]
           After(f) == [n \in 0..L |-> IF n = 0 THEN NothingTaken
                                      ELSE TakeEntry(f[n - 1], entries[n])]
           taken == CHOOSE f : f = After(f)
<1>1. Read(entries) = taken[L].zones
  BY DEF Read, NothingTaken
<1>2. L \in Nat /\ \A k \in 1..L : entries[k] \in ZoneType
  BY ZonesAreByPlace
<1>3. step \in [1..L -> [TakenType -> TakenType]]
  BY <1>2, TakesTyped
<1>4. NothingTaken \in TakenType
  <2>1. <<>> \in Seq(ReadType)
    OBVIOUS
  <2> QED BY <2>1 DEF NothingTaken, TakenType
<1>5. PICK g : IsRun(g, L, TakenType, NothingTaken, step)
  <2>1. L \in Nat /\ step \in Steps(L, TakenType)
    BY <1>2, <1>3 DEF Steps
  <2> HIDE DEF L, step
  <2> QED BY <1>4, <2>1, RecursionRuns
<1>6. \A k \in 1..L : k - 1 \in 0..L /\ g[k - 1] \in TakenType
  BY <1>2, <1>5 DEF IsRun
<1>7. \A k \in 1..L : g[k] = TakeEntry(g[k - 1], entries[k])
  BY <1>5, <1>6 DEF IsRun
<1>8. g = After(g)
  BY <1>2, <1>5, <1>7 DEF IsRun
<1>9. taken = After(taken)
  <2> HIDE DEF After
  <2> QED BY <1>8
<1> HIDE DEF taken
<1>10. taken[0] = NothingTaken /\ \A k \in 1..L : taken[k] = TakeEntry(taken[k - 1], entries[k])
  BY <1>2, <1>9
<1>11. \A k \in 0..L : taken[k] \in TakenType
  <2> DEFINE T == {k \in 0..L : taken[k] \in TakenType}
  <2>1. 0 \in T
    BY <1>2, <1>4, <1>10
  <2>2. ASSUME NEW k \in 1..L, k - 1 \in T PROVE k \in T
    BY <1>2, <1>10, <2>2, TakesTyped
  <2>3. \A k \in 0..L : k \in T
    <3> HIDE DEF T, L
    <3> QED BY <1>2, <2>1, <2>2, UpTo
  <2> QED BY <2>3
<1>12. taken \in [0..L -> TakenType]
  BY <1>9, <1>11
<1> QED BY <1>1, <1>10, <1>12

(* What is read are zones with an id, an order and an area or none.        *)
LEMMA ReadTyped ==
  ASSUME NEW entries \in Seq(ZoneType)
  PROVE  Read(entries) \in Seq(ReadType)
<1>1. PICK g \in [0..Len(entries) -> TakenType] : Read(entries) = g[Len(entries)].zones
  BY ReadRuns
<1>2. Len(entries) \in 0..Len(entries)
  BY ZonesAreByPlace
<1> QED BY <1>1, <1>2 DEF TakenType


-----------------------------------------------------------------------------
(* The areas that are missing.                                             *)

(* An area is given to one zone, and to one of the areas.                  *)
LEMMA FillsTyped ==
  ASSUME NEW n \in Nat, NEW zones \in [1..n -> ReadType], NEW i \in 1..n
  PROVE  FillArea(zones, i) \in [1..n -> ReadType]
<1> DEFINE free == Areas \ UsedAreas(zones, zones[i].ch)
<1>1. CASE zones[i].area # 0 \/ free = {}
  BY <1>1 DEF FillArea
<1>2. CASE ~(zones[i].area # 0 \/ free = {})
  <2>1. PICK a : a = LeastOf(free)
    OBVIOUS
  <2>2. a \in Areas
    <3>1. free \in SUBSET Areas /\ free # {}
      BY <1>2
    <3> HIDE DEF free
    <3> QED BY <2>1, <3>1, LeastAreaIsFree
  <2>3. FillArea(zones, i) = [zones EXCEPT ![i].area = a]
    BY <1>2, <2>1 DEF FillArea
  <2>4. [zones[i] EXCEPT !.area = a] \in ReadType
    <3>1. a \in Int
      BY <2>2 DEF Areas
    <3> QED BY <2>2, <3>1 DEF ReadType, ZoneType
  <2> QED BY <2>3, <2>4
<1> QED BY <1>1, <1>2

(* The missing areas are given in the order of the zones.                  *)
LEMMA FillRuns ==
  ASSUME NEW zones \in Seq(ReadType)
  PROVE  \E g \in [0..Len(zones) -> [1..Len(zones) -> ReadType]] :
           /\ FillMissingAreas(zones) = g[Len(zones)]
           /\ g[0] = zones
           /\ \A k \in 1..Len(zones) : g[k] = FillArea(g[k - 1], k)
<1> DEFINE L == Len(zones)
           V == [1..L -> ReadType]
           step == [k \in 1..L |-> [v \in V |-> FillArea(v, k)]]
           After(f) == [n \in 0..L |-> IF n = 0 THEN zones ELSE FillArea(f[n - 1], n)]
           filled == CHOOSE f : f = After(f)
<1>1. FillMissingAreas(zones) = filled[L]
  BY DEF FillMissingAreas
<1>2. L \in Nat /\ zones \in V
  BY ZonesAreByPlace
<1>3. step \in [1..L -> [V -> V]]
  BY <1>2, FillsTyped
<1>5. PICK g : IsRun(g, L, V, zones, step)
  <2>1. L \in Nat /\ step \in Steps(L, V)
    BY <1>2, <1>3 DEF Steps
  <2> HIDE DEF L, step, V
  <2> QED BY <1>2, <2>1, RecursionRuns
<1>6. \A k \in 1..L : k - 1 \in 0..L /\ g[k - 1] \in V
  <2> HIDE DEF V
  <2> QED BY <1>2, <1>5 DEF IsRun
<1>7. \A k \in 1..L : g[k] = FillArea(g[k - 1], k)
  BY <1>5, <1>6 DEF IsRun
<1>8. g = After(g)
  <2> HIDE DEF V
  <2> QED BY <1>2, <1>5, <1>7 DEF IsRun
<1>9. filled = After(filled)
  <2> HIDE DEF After
  <2> QED BY <1>8
<1> HIDE DEF filled
<1>10. filled[0] = zones /\ \A k \in 1..L : filled[k] = FillArea(filled[k - 1], k)
  BY <1>2, <1>9
<1>11. \A k \in 0..L : filled[k] \in V
  <2> DEFINE T == {k \in 0..L : filled[k] \in V}
  <2>1. 0 \in T
    BY <1>2, <1>10
  <2>2. ASSUME NEW k \in 1..L, k - 1 \in T PROVE k \in T
    <3>1. PICK v \in V : v = filled[k - 1]
      BY <2>2
    <3>2. FillArea(v, k) \in V
      BY <1>2, FillsTyped
    <3> HIDE DEF V
    <3> QED BY <1>2, <1>10, <3>1, <3>2
  <2>3. \A k \in 0..L : k \in T
    <3> HIDE DEF T, L
    <3> QED BY <1>2, <2>1, <2>2, UpTo
  <2> QED BY <2>3
<1>12. filled \in [0..L -> V]
  <2> HIDE DEF V
  <2> QED BY <1>9, <1>11
<1> QED BY <1>1, <1>10, <1>12

(* Filling keeps the zones and their number.                               *)
LEMMA FillTyped ==
  ASSUME NEW zones \in Seq(ReadType)
  PROVE  /\ FillMissingAreas(zones) \in Seq(ReadType)
         /\ Len(FillMissingAreas(zones)) = Len(zones)
<1>1. PICK g \in [0..Len(zones) -> [1..Len(zones) -> ReadType]] :
        FillMissingAreas(zones) = g[Len(zones)]
  BY FillRuns
<1>2. Len(zones) \in 0..Len(zones)
  BY ZonesAreByPlace
<1>3. FillMissingAreas(zones) \in [1..Len(zones) -> ReadType]
  BY <1>1, <1>2
<1> QED BY <1>3, ZonesAreByPlace


-----------------------------------------------------------------------------
(* The zones that the page shows.                                          *)

ShownAfter(kept, z) == IF z.ch \in ParkingChannels THEN Append(kept, z) ELSE kept

(* A zone that is shown is of a parking channel.                           *)
LEMMA ShowsTyped ==
  ASSUME NEW kept \in Seq(PageZone), NEW z \in ReadType
  PROVE  ShownAfter(kept, z) \in Seq(PageZone)
<1>1. z.ch \in ParkingChannels => z \in PageZone
  BY DEF PageZone
<1> HIDE DEF PageZone
<1> QED BY <1>1, AppendProperties DEF ShownAfter

(* The zones are shown in their order.                                     *)
LEMMA ShowRuns ==
  ASSUME NEW zones \in Seq(ReadType)
  PROVE  \E g \in [0..Len(zones) -> Seq(PageZone)] :
           /\ ParkingOnly(zones) = g[Len(zones)]
           /\ g[0] = <<>>
           /\ \A k \in 1..Len(zones) : g[k] = ShownAfter(g[k - 1], zones[k])
<1> DEFINE L == Len(zones)
           V == Seq(PageZone)
           step == [k \in 1..L |-> [v \in V |-> ShownAfter(v, zones[k])]]
           After(f) == [n \in 0..L |-> IF n = 0 THEN <<>>
                                      ELSE ShownAfter(f[n - 1], zones[n])]
           kept == CHOOSE f : f = After(f)
<1>1. ParkingOnly(zones) = kept[L]
  BY DEF ParkingOnly, ShownAfter
<1>2. L \in Nat /\ <<>> \in V /\ \A k \in 1..L : zones[k] \in ReadType
  BY ZonesAreByPlace
<1>3. step \in [1..L -> [V -> V]]
  BY <1>2, ShowsTyped
<1>4. PICK g : IsRun(g, L, V, <<>>, step)
  <2>1. L \in Nat /\ step \in Steps(L, V)
    BY <1>2, <1>3 DEF Steps
  <2> HIDE DEF L, step, V
  <2> QED BY <1>2, <2>1, RecursionRuns
<1>5. \A k \in 1..L : k - 1 \in 0..L /\ g[k - 1] \in V
  <2> HIDE DEF V
  <2> QED BY <1>2, <1>4 DEF IsRun
<1>6. \A k \in 1..L : g[k] = ShownAfter(g[k - 1], zones[k])
  BY <1>4, <1>5 DEF IsRun
<1>7. g = After(g)
  <2> HIDE DEF V
  <2> QED BY <1>2, <1>4, <1>6 DEF IsRun
<1>8. kept = After(kept)
  <2> HIDE DEF After
  <2> QED BY <1>7
<1> HIDE DEF kept
<1>9. kept[0] = <<>> /\ \A k \in 1..L : kept[k] = ShownAfter(kept[k - 1], zones[k])
  BY <1>2, <1>8
<1>10. \A k \in 0..L : kept[k] \in V
  <2> DEFINE T == {k \in 0..L : kept[k] \in V}
  <2>1. 0 \in T
    <3> HIDE DEF V
    <3> QED BY <1>2, <1>9
  <2>2. ASSUME NEW k \in 1..L, k - 1 \in T PROVE k \in T
    <3>1. PICK v \in V : v = kept[k - 1]
      BY <2>2
    <3>2. ShownAfter(v, zones[k]) \in V
      BY <1>2, ShowsTyped
    <3> HIDE DEF V
    <3> QED BY <1>2, <1>9, <3>1, <3>2
  <2>3. \A k \in 0..L : k \in T
    <3> HIDE DEF T, L
    <3> QED BY <1>2, <2>1, <2>2, UpTo
  <2> QED BY <2>3
<1>11. kept \in [0..L -> V]
  <2> HIDE DEF V
  <2> QED BY <1>8, <1>10
<1> QED BY <1>1, <1>9, <1>11

(* The zones that are shown are those of a page.                           *)
LEMMA ShownTyped ==
  ASSUME NEW zones \in Seq(ReadType)
  PROVE  ParkingOnly(zones) \in Seq(PageZone)
<1>1. PICK g \in [0..Len(zones) -> Seq(PageZone)] : ParkingOnly(zones) = g[Len(zones)]
  BY ShowRuns
<1>2. Len(zones) \in 0..Len(zones)
  BY ZonesAreByPlace
<1> QED BY <1>1, <1>2

-----------------------------------------------------------------------------
(* The zones before a write.                                               *)

(* A zone takes the place of an item, a parking channel and an area.       *)
LEMMA SettlesTyped ==
  ASSUME NEW n \in Nat, NEW zones \in [1..n -> PageZone], NEW i \in 1..n
  PROVE  SettleZone(zones, i) \in [1..n -> PageZone]
<1> DEFINE z == zones[i]
           Same == {j \in 1..n : zones[j].id = z.id}
<1>1. PICK rect : rect = ItemRect(zones, z.id)
  OBVIOUS
<1>2. rect \in RectType
  <2>1. PICK m \in Same : \A j \in Same : j <= m
    <3>1. Same \in SUBSET (1..n) /\ Same # {}
      OBVIOUS
    <3> HIDE DEF Same
    <3> QED BY <3>1, GreatestExists
  <2>2. PICK k \in 1..n : ItemRect(zones, z.id) = zones[k].rect
    <3>1. \E k : k \in DOMAIN zones /\ zones[k].id = z.id
                 /\ \A j \in DOMAIN zones : zones[j].id = z.id => j <= k
      BY <2>1
    <3> DEFINE c == CHOOSE k \in DOMAIN zones :
                      /\ zones[k].id = z.id
                      /\ \A j \in DOMAIN zones : zones[j].id = z.id => j <= k
    <3>2. c \in DOMAIN zones
      BY <3>1
    <3>3. ItemRect(zones, z.id) = zones[c].rect
      BY DEF ItemRect
    <3> HIDE DEF c
    <3> QED BY <3>2, <3>3
  <2> QED BY <1>1, <2>2 DEF PageZone, ReadType, ZoneType
<1> DEFINE shown == IF rect.panel \in Channels THEN rect.panel ELSE z.ch
           keeps(ch) == z.area \in Areas /\ z.area \notin AreasOfOthers(zones, ch, z.id)
<1>3. PICK ch : ch = IF shown \in ParkingChannels THEN shown ELSE "CH1"
  OBVIOUS
<1>4. ch \in ParkingChannels /\ ch \in Channels
  BY <1>3 DEF ParkingChannels, Channels
<1>5. PICK area : area = IF keeps(ch) THEN z.area ELSE NextArea(zones, ch, z.id)
  OBVIOUS
<1>6. area \in Areas
  <2>1. CASE keeps(ch)
    BY <1>5, <2>1
  <2>2. CASE ~keeps(ch)
    <3> DEFINE free == Areas \ AreasOfOthers(zones, ch, z.id)
    <3>1. free \in SUBSET Areas /\ area = IF free = {} THEN 1 ELSE LeastOf(free)
      BY <1>5, <2>2 DEF NextArea
    <3> HIDE DEF free
    <3>2. 1 \in Areas
      BY DEF Areas
    <3> QED BY <3>1, <3>2, LeastAreaIsFree
  <2> QED BY <2>1, <2>2
<1>7. SettleZone(zones, i) =
        [zones EXCEPT ![i] = [z EXCEPT !.rect = rect, !.ch = ch, !.area = area]]
  BY <1>1, <1>3, <1>5 DEF SettleZone
<1>8. [z EXCEPT !.rect = rect, !.ch = ch, !.area = area] \in PageZone
  <2>1. area \in Int
    BY <1>6 DEF Areas
  <2>2. z \in PageZone
    OBVIOUS
  <2> HIDE DEF z, shown, keeps
  <2> QED BY <1>2, <1>4, <1>6, <2>1, <2>2 DEF PageZone, ReadType, ZoneType
<1> HIDE DEF z, shown, keeps, Same
<1> QED BY <1>7, <1>8


(* The zones are settled in their order.                                   *)
LEMMA SettleRuns ==
  ASSUME NEW zones \in Seq(PageZone)
  PROVE  \E g \in [0..Len(zones) -> [1..Len(zones) -> PageZone]] :
           /\ Synced(zones) = g[Len(zones)]
           /\ g[0] = zones
           /\ \A k \in 1..Len(zones) : g[k] = SettleZone(g[k - 1], k)
<1> DEFINE L == Len(zones)
           V == [1..L -> PageZone]
           step == [k \in 1..L |-> [v \in V |-> SettleZone(v, k)]]
           After(f) == [n \in 0..L |-> IF n = 0 THEN zones ELSE SettleZone(f[n - 1], n)]
           settled == CHOOSE f : f = After(f)
<1>1. Synced(zones) = settled[L]
  BY DEF Synced
<1>2. L \in Nat /\ zones \in V
  BY ZonesAreByPlace
<1>3. step \in [1..L -> [V -> V]]
  BY <1>2, SettlesTyped
<1>5. PICK g : IsRun(g, L, V, zones, step)
  <2>1. L \in Nat /\ step \in Steps(L, V)
    BY <1>2, <1>3 DEF Steps
  <2> HIDE DEF L, step, V
  <2> QED BY <1>2, <2>1, RecursionRuns
<1>6. \A k \in 1..L : k - 1 \in 0..L /\ g[k - 1] \in V
  <2> HIDE DEF V
  <2> QED BY <1>2, <1>5 DEF IsRun
<1>7. \A k \in 1..L : g[k] = SettleZone(g[k - 1], k)
  BY <1>5, <1>6 DEF IsRun
<1>8. g = After(g)
  <2> HIDE DEF V
  <2> QED BY <1>2, <1>5, <1>7 DEF IsRun
<1>9. settled = After(settled)
  <2> HIDE DEF After
  <2> QED BY <1>8
<1> HIDE DEF settled
<1>10. settled[0] = zones /\ \A k \in 1..L : settled[k] = SettleZone(settled[k - 1], k)
  BY <1>2, <1>9
<1>11. \A k \in 0..L : settled[k] \in V
  <2> DEFINE T == {k \in 0..L : settled[k] \in V}
  <2>1. 0 \in T
    BY <1>2, <1>10
  <2>2. ASSUME NEW k \in 1..L, k - 1 \in T PROVE k \in T
    <3>1. PICK v \in V : v = settled[k - 1]
      BY <2>2
    <3>2. SettleZone(v, k) \in V
      BY <1>2, SettlesTyped
    <3> HIDE DEF V
    <3> QED BY <1>2, <1>10, <3>1, <3>2
  <2>3. \A k \in 0..L : k \in T
    <3> HIDE DEF T, L
    <3> QED BY <1>2, <2>1, <2>2, UpTo
  <2> QED BY <2>3
<1>12. settled \in [0..L -> V]
  <2> HIDE DEF V
  <2> QED BY <1>9, <1>11
<1> QED BY <1>1, <1>10, <1>12

(* Settling keeps the zones and their number.                              *)
LEMMA SyncedTyped ==
  ASSUME NEW zones \in Seq(PageZone)
  PROVE  Synced(zones) \in Seq(PageZone) /\ Len(Synced(zones)) = Len(zones)
<1>1. PICK g \in [0..Len(zones) -> [1..Len(zones) -> PageZone]] :
        Synced(zones) = g[Len(zones)]
  BY SettleRuns
<1>2. Len(zones) \in 0..Len(zones)
  BY ZonesAreByPlace
<1>3. Synced(zones) \in [1..Len(zones) -> PageZone]
  BY <1>1, <1>2
<1> QED BY <1>3, ZonesAreByPlace

-----------------------------------------------------------------------------
(* What is loaded.                                                         *)

(* An overview as the dialog makes it and the file gives it back.          *)
Neat(overview) ==
  \E o \in Overviews :
    overview = o /\ \A c \in Cameras : o[c] = ChannelLayout(o[c].role, o[c].slots)

(* A slot count is bounded, and one in its bounds stays.                   *)
LEMMA BoundedIsBounded ==
  ASSUME NEW n \in Int
  PROVE  Bounded(n) \in 1..MaxSlots /\ (n \in 1..MaxSlots => Bounded(n) = n)
BY OverviewAssumption DEF Bounded

(* A channel that has been bounded is not changed again.                   *)
LEMMA LayoutIsNeat ==
  ASSUME NEW role \in Roles, NEW n \in Int
  PROVE  /\ ChannelLayout(role, n) \in [role : Roles, slots : 0..MaxSlots]
         /\ ChannelLayout(role, n) =
              ChannelLayout(ChannelLayout(role, n).role, ChannelLayout(role, n).slots)
<1>1. PICK m : m = Bounded(n)
  OBVIOUS
<1>2. m \in 1..MaxSlots /\ m \in 0..MaxSlots /\ 0 \in 0..MaxSlots /\ Bounded(m) = m
  BY <1>1, BoundedIsBounded, OverviewAssumption
<1>3. CASE role = "PARKING"
  <2>1. ChannelLayout(role, n) = [role |-> role, slots |-> m]
    BY <1>1, <1>3 DEF ChannelLayout
  <2>2. ChannelLayout(role, m) = [role |-> role, slots |-> m]
    BY <1>2, <1>3 DEF ChannelLayout
  <2> QED BY <1>2, <2>1, <2>2
<1>4. CASE role # "PARKING"
  <2>1. ChannelLayout(role, n) = [role |-> role, slots |-> 0]
        /\ ChannelLayout(role, 0) = [role |-> role, slots |-> 0]
    BY <1>4 DEF ChannelLayout
  <2> QED BY <1>2, <2>1
<1> QED BY <1>3, <1>4

(* Nor is an overview.                                                     *)
LEMMA OverviewIsNeat ==
  ASSUME NEW overview \in [Cameras -> [role : Roles, slots : Int]]
  PROVE  Neat([c \in Cameras |-> ChannelLayout(overview[c].role, overview[c].slots)])
<1> DEFINE Of(c) == ChannelLayout(overview[c].role, overview[c].slots)
<1>1. \A c \in Cameras : /\ Of(c) \in [role : Roles, slots : 0..MaxSlots]
                         /\ Of(c) = ChannelLayout(Of(c).role, Of(c).slots)
  BY LayoutIsNeat
<1> HIDE DEF Of
<1>2. [c \in Cameras |-> Of(c)] \in Overviews
  BY <1>1 DEF Overviews
<1>3. Neat([c \in Cameras |-> Of(c)])
  BY <1>1, <1>2 DEF Neat
<1> QED BY <1>3 DEF Of

(* The default layout is one that a page may show.                         *)
LEMMA DefaultsTyped ==
  /\ DefaultZones \in Seq(PageZone) /\ DefaultZones # <<>>
  /\ Neat(DefaultOverview)
<1> DEFINE Zone(prefix, ch, i) == [id |-> <<prefix, i>>, ch |-> ch, order |-> 5 - i,
                                   area |-> i, rect |-> FixedRect(ch)]
           Row(prefix, ch) == [i \in 1..4 |-> Zone(prefix, ch, i)]
<1>1. ASSUME NEW prefix \in {"EV", "P"}, NEW ch \in ParkingChannels, NEW i \in 1..4
      PROVE  Zone(prefix, ch, i) \in PageZone
  <2>1. FixedRect(ch) \in RectType /\ ch \in Channels
    BY DEF FixedRect, RectType, ParkingChannels, Channels
  <2>2. <<prefix, i>> \in IdWords \X Nat /\ <<prefix, i>> # NoId
    <3>1. prefix \in IdWords
      BY IdAssumption
    <3>2. i # 0 /\ i \in Nat
      OBVIOUS
    <3>3. <<prefix, i>> # <<"", 0>>
      BY <3>2
    <3> QED BY <3>1, <3>2, <3>3 DEF NoId
  <2>3. Zone(prefix, ch, i) \in ZoneType
    BY <2>1, <2>2 DEF ZoneType
  <2>4. Zone(prefix, ch, i).order > 0 /\ Zone(prefix, ch, i).area \in Areas \cup {0}
    BY DEF Areas
  <2> QED BY <2>2, <2>3, <2>4 DEF PageZone, ReadType
<1> HIDE DEF Zone
<1>2. \A prefix \in {"EV", "P"}, ch \in ParkingChannels :
        Row(prefix, ch) \in Seq(PageZone) /\ Len(Row(prefix, ch)) = 4
  BY <1>1, SeqDef
<1> HIDE DEF Row
<1>3. DefaultZones = Row("EV", "CH1") \o Row("P", "CH3")
  BY DEF DefaultZones, Row, Zone
<1>4. "CH1" \in ParkingChannels /\ "CH3" \in ParkingChannels
  BY DEF ParkingChannels
<1>5. DefaultZones \in Seq(PageZone) /\ Len(DefaultZones) = 8
  <2>1. PICK first \in Seq(PageZone) : first = Row("EV", "CH1") /\ Len(first) = 4
    BY <1>2, <1>4
  <2>2. PICK second \in Seq(PageZone) : second = Row("P", "CH3") /\ Len(second) = 4
    BY <1>2, <1>4
  <2>3. first \o second \in Seq(PageZone) /\ Len(first \o second) = 8
    <3>1. first \o second \in Seq(PageZone) /\ Len(first \o second) = Len(first) + Len(second)
      BY ConcatProperties
    <3>2. Len(first) = 4 /\ Len(second) = 4
      BY <2>1, <2>2, Zenon
    <3> QED BY <3>1, <3>2
  <2> QED BY <1>3, <2>1, <2>2, <2>3
<1>6. Neat(DefaultOverview)
  <2>1. [c \in Cameras |-> [role |-> "PARKING", slots |-> 4]]
          \in [Cameras -> [role : Roles, slots : Int]]
    BY DEF Roles
  <2> QED BY <2>1, OverviewIsNeat DEF DefaultOverview
<1> QED BY <1>5, <1>6


(* Whatever file there is, the map shows zones of its channels, and a neat *)
(* overview.                                                               *)
LEMMA LoadedTyped ==
  ASSUME NEW f \in FileType
  PROVE  /\ Loaded(f).zones \in Seq(PageZone) /\ Loaded(f).zones # <<>>
         /\ Neat(Loaded(f).overview)
<1>1. f.entries \in Seq(ZoneType) /\ f.overview \in [Cameras -> [role : Roles, slots : Int]]
  BY DEF FileType
<1>2. PICK found \in Seq(ReadType) : found = Read(f.entries)
  BY <1>1, ReadTyped
<1>3. PICK filled \in Seq(ReadType) : filled = FillMissingAreas(found)
  BY FillTyped
<1>4. PICK parking \in Seq(PageZone) : parking = ParkingOnly(filled)
  BY ShownTyped
<1>5. PICK overview : overview = OverviewFromFile(f.overview)
  OBVIOUS
<1>6. Neat(overview)
  BY <1>1, <1>5, OverviewIsNeat DEF OverviewFromFile
<1>7. Loaded(f) = IF f.kind # "text" \/ found = <<>>
                  THEN [zones |-> DefaultZones, overview |-> DefaultOverview]
                  ELSE [zones |-> IF parking = <<>> THEN DefaultZones ELSE parking,
                        overview |-> overview]
  BY <1>2, <1>3, <1>4, <1>5 DEF Loaded
<1>8. CASE f.kind # "text" \/ found = <<>>
  <2>1. Loaded(f).zones = DefaultZones /\ Loaded(f).overview = DefaultOverview
    BY <1>7, <1>8
  <2> QED BY <2>1, DefaultsTyped
<1>9. CASE ~(f.kind # "text" \/ found = <<>>)
  <2>1. /\ Loaded(f).zones = IF parking = <<>> THEN DefaultZones ELSE parking
        /\ Loaded(f).overview = overview
    BY <1>7, <1>9
  <2> QED BY <1>6, <2>1, DefaultsTyped
<1> QED BY <1>8, <1>9

-----------------------------------------------------------------------------
(* A valid layout is written, read and settled unchanged.                  *)

(* The zones up to a place.                                                *)
UpToPlace(zones, k) == [i \in 1..k |-> zones[i]]

(* The zones up to a place are taken one by one.                           *)
LEMMA PlacesAddUp ==
  ASSUME NEW Z, NEW zones \in Seq(Z)
  PROVE  /\ UpToPlace(zones, 0) = <<>>
         /\ UpToPlace(zones, Len(zones)) = zones
         /\ \A k \in 1..Len(zones) :
              Append(UpToPlace(zones, k - 1), zones[k]) = UpToPlace(zones, k)
<1>1. Len(zones) \in Nat /\ zones \in [1..Len(zones) -> Z]
  BY ZonesAreByPlace
<1>2. UpToPlace(zones, 0) = <<>>
  BY DEF UpToPlace
<1>3. UpToPlace(zones, Len(zones)) = zones
  BY <1>1 DEF UpToPlace
<1>4. ASSUME NEW k \in 1..Len(zones)
      PROVE  Append(UpToPlace(zones, k - 1), zones[k]) = UpToPlace(zones, k)
  <2>1. PICK s : s = UpToPlace(zones, k - 1)
    OBVIOUS
  <2>2. s \in [1..(k - 1) -> Z] /\ k - 1 \in Nat
    BY <1>1, <2>1 DEF UpToPlace
  <2>3. s \in Seq(Z) /\ Len(s) = k - 1
    BY <2>2, SeqDef
  <2>4. PICK t \in Seq(Z) : t = Append(s, zones[k])
    BY <1>1, <2>3, AppendProperties
  <2>5. /\ Len(t) = k /\ t[k] = zones[k]
        /\ \A i \in 1..(k - 1) : t[i] = s[i]
    BY <1>1, <2>3, <2>4, AppendProperties
  <2>6. t = [i \in 1..k |-> t[i]]
    BY <2>5, ZonesAreByPlace
  <2>7. \A i \in 1..k : t[i] = zones[i]
    <3>1. \A i \in 1..(k - 1) : s[i] = zones[i]
      BY <2>1 DEF UpToPlace
    <3>2. \A i \in 1..k : i = k \/ i \in 1..(k - 1)
      BY <1>1
    <3> QED BY <2>5, <3>1, <3>2
  <2>8. t = UpToPlace(zones, k)
    BY <2>6, <2>7 DEF UpToPlace
  <2> QED BY <2>1, <2>4, <2>8
<1> QED BY <1>2, <1>3, <1>4

(* In a valid layout every zone is in the place of its own item.           *)
LEMMA ValidIsInPlace ==
  ASSUME NEW zones \in Seq(PageZone), Valid(zones), NEW i \in 1..Len(zones)
  PROVE  /\ ItemRect(zones, zones[i].id) = zones[i].rect
         /\ zones[i].rect = FixedRect(zones[i].ch)
<1>1. DOMAIN zones = 1..Len(zones) /\ Len(zones) \in Nat
  BY ZonesAreByPlace
<1>2. \A j \in DOMAIN zones : zones[j].id = zones[i].id <=> j = i
  BY <1>1 DEF Valid
<1> DEFINE c == CHOOSE k \in DOMAIN zones :
                  /\ zones[k].id = zones[i].id
                  /\ \A j \in DOMAIN zones : zones[j].id = zones[i].id => j <= k
<1>3. c = i
  <2>1. \A k \in DOMAIN zones :
          (/\ zones[k].id = zones[i].id
           /\ \A j \in DOMAIN zones : zones[j].id = zones[i].id => j <= k) <=> k = i
    BY <1>1, <1>2
  <2> QED BY <1>1, <2>1
<1>4. ItemRect(zones, zones[i].id) = zones[c].rect
  BY DEF ItemRect
<1> HIDE DEF c
<1>5. ItemRect(zones, zones[i].id) = FixedRect(zones[i].ch)
  BY <1>1 DEF Valid
<1> QED BY <1>3, <1>4, <1>5

(* A zone of a valid layout keeps its place, its channel and its area.     *)
LEMMA ValidIsSettled ==
  ASSUME NEW zones \in Seq(PageZone), Valid(zones), NEW i \in 1..Len(zones)
  PROVE  SettleZone(zones, i) = zones
<1> DEFINE z == zones[i]
<1>1. DOMAIN zones = 1..Len(zones) /\ zones \in [1..Len(zones) -> PageZone]
  BY ZonesAreByPlace
<1>2. z \in PageZone /\ z.ch \in ParkingChannels /\ z.ch \in Channels /\ z.area \in Areas
  BY <1>1 DEF Valid, PageZone, ReadType, ZoneType
<1>3. ItemRect(zones, z.id) = z.rect /\ z.rect.panel = z.ch
  <2>1. ItemRect(zones, z.id) = z.rect /\ z.rect = FixedRect(z.ch)
    BY ValidIsInPlace, Zenon
  <2>2. FixedRect(z.ch).panel = z.ch
    BY DEF FixedRect
  <2> HIDE DEF z
  <2> QED BY <2>1, <2>2
<1>4. z.area \notin AreasOfOthers(zones, z.ch, z.id)
  <2>1. \A j \in DOMAIN zones : zones[j].ch = z.ch /\ zones[j].id # z.id
                                  => zones[j].area # z.area
    BY <1>1 DEF Valid
  <2> HIDE DEF z
  <2> QED BY <2>1 DEF AreasOfOthers
<1>5. SettleZone(zones, i) =
        [zones EXCEPT ![i] = [z EXCEPT !.rect = z.rect, !.ch = z.ch, !.area = z.area]]
  BY <1>2, <1>3, <1>4 DEF SettleZone
<1>6. [z EXCEPT !.rect = z.rect, !.ch = z.ch, !.area = z.area] = z
  <2>1. z \in ZoneType
    BY <1>2 DEF PageZone, ReadType
  <2> HIDE DEF z
  <2> QED BY <2>1 DEF ZoneType
<1>7. [zones EXCEPT ![i] = z] = zones
  BY <1>1
<1> HIDE DEF z
<1> QED BY <1>5, <1>6, <1>7

(* A valid layout is not changed before it is written.                     *)
LEMMA ValidIsSynced ==
  ASSUME NEW zones \in Seq(PageZone), Valid(zones)
  PROVE  Synced(zones) = zones
<1> DEFINE L == Len(zones)
<1>1. PICK g \in [0..L -> [1..L -> PageZone]] :
        /\ Synced(zones) = g[L] /\ g[0] = zones
        /\ \A k \in 1..L : g[k] = SettleZone(g[k - 1], k)
  BY SettleRuns
<1>2. L \in Nat
  BY ZonesAreByPlace
<1> DEFINE T == {k \in 0..L : g[k] = zones}
<1>3. 0 \in T
  BY <1>1, <1>2
<1>4. ASSUME NEW k \in 1..L, k - 1 \in T PROVE k \in T
  BY <1>1, <1>2, <1>4, ValidIsSettled
<1>5. \A k \in 0..L : k \in T
  <2> HIDE DEF T, L
  <2> QED BY <1>2, <1>3, <1>4, UpTo
<1>6. g[L] = zones
  BY <1>2, <1>5
<1> QED BY <1>1, <1>6


(* The entries of a valid layout are read back as its zones.               *)
LEMMA ValidIsReadBack ==
  ASSUME NEW zones \in Seq(PageZone), Valid(zones)
  PROVE  LET entries == [i \in DOMAIN zones |-> ZoneToFile(zones[i])] IN
           entries \in Seq(ZoneType) /\ Read(entries) = zones
<1> DEFINE L == Len(zones)
<1>1. PICK entries : entries = [i \in DOMAIN zones |-> ZoneToFile(zones[i])]
  OBVIOUS
<1>2. L \in Nat /\ DOMAIN zones = 1..L /\ \A i \in 1..L : zones[i] \in PageZone
  BY ZonesAreByPlace
<1>3. ASSUME NEW i \in 1..L
      PROVE  /\ entries[i] \in ZoneType
             /\ \A last : TakeEntry(last, entries[i]).zones = Append(last.zones, zones[i])
  <2>1. PICK z \in PageZone : z = zones[i]
    BY <1>2
  <2>2. /\ z.id # NoId /\ z.ch \in ParkingChannels /\ z.order \in 1..4 /\ z.area \in Areas
        /\ z.rect = FixedRect(z.ch)
    BY <1>2, <2>1, ValidIsInPlace DEF Valid
  <2>3. z \in ZoneType
        /\ z = [id |-> z.id, ch |-> z.ch, order |-> z.order, area |-> z.area, rect |-> z.rect]
    BY DEF PageZone, ReadType, ZoneType
  <2>4. PICK e : e = [id |-> z.id, ch |-> z.ch, order |-> z.order, area |-> z.area,
                      rect |-> CornerRect]
    OBVIOUS
  <2>5. entries[i] = e
    BY <1>1, <1>2, <2>1, <2>3, <2>4 DEF ZoneToFile
  <2>6. CornerRect \in RectType
    BY DEF CornerRect, RectType, Channels
  <2>7. e \in ZoneType
    BY <2>3, <2>4, <2>6 DEF ZoneType
  <2>8. ZoneFromFile(e, z.order) = z
    <3>1. ZoneFromFile(e, z.order) =
            [id |-> z.id, ch |-> z.ch, order |-> z.order,
             area |-> IF z.area \in Areas THEN z.area ELSE 0,
             rect |-> IF IsFixed(z.ch, z.order) THEN FixedRect(z.ch) ELSE CornerRect]
      <4> z.order \in Nat
        BY <2>2
      <4>1. ZoneFromFile(e, z.order) =
              [id |-> e.id, ch |-> e.ch, order |-> z.order,
               area |-> IF e.area \in Areas THEN e.area ELSE 0,
               rect |-> IF IsFixed(e.ch, z.order) THEN FixedRect(e.ch) ELSE e.rect]
        BY <2>7, EntryByField
      <4>2. e.id = z.id /\ e.ch = z.ch /\ e.area = z.area /\ e.rect = CornerRect
        BY <2>4
      <4> QED BY <4>1, <4>2, Zenon
    <3>2. IsFixed(z.ch, z.order)
      BY <2>2 DEF IsFixed
    <3> QED BY <2>2, <2>3, <3>1, <3>2
  <2>9. \A last : TakeEntry(last, e).zones = Append(last.zones, z)
    <3>1. e.order = z.order /\ ~(e.order <= 0) /\ e.id # NoId
      BY <2>2, <2>4
    <3> QED BY <2>8, <3>1 DEF TakeEntry
  <2> QED BY <2>1, <2>5, <2>7, <2>9
<1>4. entries \in Seq(ZoneType) /\ Len(entries) = L
  <2>1. entries \in [1..L -> ZoneType]
    BY <1>1, <1>2, <1>3
  <2> QED BY <1>2, <2>1, SeqDef
<1>5. PICK g \in [0..L -> TakenType] :
        /\ Read(entries) = g[L].zones /\ g[0] = NothingTaken
        /\ \A k \in 1..L : g[k] = TakeEntry(g[k - 1], entries[k])
  BY <1>4, ReadRuns
<1> DEFINE T == {k \in 0..L : g[k].zones = UpToPlace(zones, k)}
<1>6. 0 \in T
  BY <1>2, <1>5, PlacesAddUp DEF NothingTaken
<1>7. ASSUME NEW k \in 1..L, k - 1 \in T PROVE k \in T
  <2>1. PICK v : v = g[k - 1]
    OBVIOUS
  <2>2. g[k].zones = Append(v.zones, zones[k])
    BY <1>3, <1>5, <2>1
  <2>3. v.zones = UpToPlace(zones, k - 1)
    BY <1>7, <2>1
  <2>4. Append(UpToPlace(zones, k - 1), zones[k]) = UpToPlace(zones, k)
    BY PlacesAddUp
  <2>5. g[k].zones = UpToPlace(zones, k)
    BY <2>2, <2>3, <2>4, Zenon
  <2> QED BY <1>2, <2>5
<1>8. \A k \in 0..L : k \in T
  <2> HIDE DEF T, L
  <2> QED BY <1>2, <1>6, <1>7, UpTo
<1>9. g[L].zones = UpToPlace(zones, L)
  BY <1>2, <1>8
<1> QED BY <1>1, <1>4, <1>5, <1>9, PlacesAddUp

(* A valid layout lacks no area.                                           *)
LEMMA ValidIsFilled ==
  ASSUME NEW zones \in Seq(PageZone), Valid(zones)
  PROVE  FillMissingAreas(zones) = zones
<1> DEFINE L == Len(zones)
<1>1. PICK g \in [0..L -> [1..L -> ReadType]] :
        /\ FillMissingAreas(zones) = g[L] /\ g[0] = zones
        /\ \A k \in 1..L : g[k] = FillArea(g[k - 1], k)
  <2>1. zones \in Seq(ReadType)
    BY ZonesAreByPlace DEF PageZone
  <2> QED BY <2>1, FillRuns
<1>2. L \in Nat /\ DOMAIN zones = 1..L
  BY ZonesAreByPlace
<1>3. \A k \in 1..L : zones[k].area # 0
  BY <1>2 DEF Valid, Areas
<1> DEFINE T == {k \in 0..L : g[k] = zones}
<1>4. 0 \in T
  BY <1>1, <1>2
<1>5. ASSUME NEW k \in 1..L, k - 1 \in T PROVE k \in T
  <2>1. FillArea(zones, k) = zones
    BY <1>3 DEF FillArea
  <2>2. g[k] = zones
    BY <1>1, <1>5, <2>1
  <2> QED BY <1>2, <2>2
<1>6. \A k \in 0..L : k \in T
  <2> HIDE DEF T, L
  <2> QED BY <1>2, <1>4, <1>5, UpTo
<1>7. g[L] = zones
  BY <1>2, <1>6
<1> QED BY <1>1, <1>7

(* And is shown whole.                                                     *)
LEMMA ValidIsShown ==
  ASSUME NEW zones \in Seq(PageZone), Valid(zones)
  PROVE  ParkingOnly(zones) = zones
<1> DEFINE L == Len(zones)
<1>1. PICK g \in [0..L -> Seq(PageZone)] :
        /\ ParkingOnly(zones) = g[L] /\ g[0] = <<>>
        /\ \A k \in 1..L : g[k] = ShownAfter(g[k - 1], zones[k])
  <2>1. zones \in Seq(ReadType)
    BY ZonesAreByPlace DEF PageZone
  <2> QED BY <2>1, ShowRuns
<1>2. L \in Nat /\ \A k \in 1..L : zones[k].ch \in ParkingChannels
  BY ZonesAreByPlace DEF Valid
<1> DEFINE T == {k \in 0..L : g[k] = UpToPlace(zones, k)}
<1>3. 0 \in T
  BY <1>1, <1>2, PlacesAddUp
<1>4. ASSUME NEW k \in 1..L, k - 1 \in T PROVE k \in T
  <2>1. g[k] = Append(UpToPlace(zones, k - 1), zones[k])
    BY <1>1, <1>2, <1>4 DEF ShownAfter
  <2>2. Append(UpToPlace(zones, k - 1), zones[k]) = UpToPlace(zones, k)
    BY PlacesAddUp
  <2>3. g[k] = UpToPlace(zones, k)
    BY <2>1, <2>2, Zenon
  <2> QED BY <1>2, <2>3
<1>5. \A k \in 0..L : k \in T
  <2> HIDE DEF T, L
  <2> QED BY <1>2, <1>3, <1>4, UpTo
<1>6. g[L] = UpToPlace(zones, L)
  BY <1>2, <1>5
<1> QED BY <1>1, <1>6, PlacesAddUp

(* What is written of a valid layout and a neat overview is loaded as it   *)
(* was.                                                                    *)
LEMMA StoredIsLoaded ==
  ASSUME NEW zones \in Seq(PageZone), zones # <<>>, Valid(zones),
         NEW overview, Neat(overview)
  PROVE  /\ Stored(zones, overview) \in FileType
         /\ Loaded(Stored(zones, overview)) = [zones |-> zones, overview |-> overview]
<1>1. PICK f : f = Stored(zones, overview)
  OBVIOUS
<1>2. /\ f.kind = "text" /\ f.overview = OverviewToFile(overview)
      /\ f.entries = [i \in DOMAIN zones |-> ZoneToFile(zones[i])]
      /\ f = [kind |-> f.kind, entries |-> f.entries, overview |-> f.overview]
  BY <1>1 DEF Stored
<1>3. f.entries \in Seq(ZoneType) /\ Read(f.entries) = zones
  BY <1>2, ValidIsReadBack
<1>4. /\ OverviewToFile(overview) = overview /\ OverviewFromFile(overview) = overview
      /\ overview \in Overviews
  BY DEF Neat, Overviews, OverviewToFile, OverviewFromFile
<1>5. overview \in [Cameras -> [role : Roles, slots : Int]]
  BY <1>4 DEF Overviews
<1>6. f \in FileType
  BY <1>2, <1>3, <1>4, <1>5 DEF FileType
<1>7. Loaded(f) = [zones |-> zones, overview |-> overview]
  BY <1>2, <1>3, <1>4, ValidIsFilled, ValidIsShown DEF Loaded
<1> QED BY <1>1, <1>6, <1>7


-----------------------------------------------------------------------------
(* The open dialogs.                                                       *)

AskKinds == {"overview", "warning", "close", "session", "failure"}
OfTheEnd == {"session", "failure"}

(* A question about the end of the session is open while one is under way, *)
(* and on top.                                                             *)
AskInv(open, isEnding) ==
  /\ open \in Seq(AskKinds)
  /\ isEnding => open # <<>> /\ Last(open) \in OfTheEnd
  /\ \A i \in 1..Len(open) : open[i] \in OfTheEnd => isEnding /\ i = Len(open)

(* With nothing open the session is not ending.                            *)
LEMMA NoneIsOpen == AskInv(<<>>, FALSE)
BY DEF AskInv

(* Without the one on top, no question about the end is left.              *)
LEMMA FrontIsPlain ==
  ASSUME NEW open, NEW isEnding, AskInv(open, isEnding), open # <<>>
  PROVE  AskInv(Front(open), FALSE)
<1>0. open \in Seq(AskKinds)
  BY DEF AskInv
<1>1. open \in Seq(AskKinds) /\ Len(open) \in Nat \ {0}
  BY <1>0, EmptySeq, LenProperties
<1>2. PICK n \in Nat : n + 1 = Len(open)
  <2>1. \A l \in Nat \ {0} : \E n \in Nat : n + 1 = l
    <3> SUFFICES ASSUME NEW l \in Nat \ {0} PROVE l - 1 \in Nat /\ (l - 1) + 1 = l
      OBVIOUS
    <3> QED OBVIOUS
  <2> QED BY <1>1, <2>1, Zenon
<1>3. \A i \in 1..n : open[i] \in AskKinds /\ open[i] \notin OfTheEnd
  BY <1>1, <1>2 DEF AskInv
<1>4. Front(open) = [i \in 1..n |-> open[i]]
  BY <1>1, <1>2 DEF Front
<1>5. PICK s : s = Front(open)
  OBVIOUS
<1>6. s \in [1..n -> AskKinds] /\ \A i \in 1..n : s[i] \notin OfTheEnd
  BY <1>3, <1>4, <1>5
<1>7. s \in Seq(AskKinds) /\ Len(s) = n
  BY <1>6, SeqDef
<1> QED BY <1>5, <1>6, <1>7 DEF AskInv

(* A question may open on any other but one about the end.                 *)
LEMMA AskOpens ==
  ASSUME NEW open, AskInv(open, FALSE), NEW ask \in AskKinds
  PROVE  AskInv(Append(open, ask), ask \in OfTheEnd)
<1>1. open \in Seq(AskKinds) /\ Len(open) \in Nat
      /\ \A i \in 1..Len(open) : open[i] \notin OfTheEnd
  BY DEF AskInv
<1>2. PICK s \in Seq(AskKinds) : s = Append(open, ask)
  BY <1>1, AppendProperties
<1>3. /\ Len(s) = Len(open) + 1 /\ s[Len(s)] = ask
      /\ \A i \in 1..Len(open) : s[i] = open[i]
  BY <1>1, <1>2, AppendProperties
<1>4. s # <<>> /\ Last(s) = ask
  BY <1>1, <1>3 DEF Last
<1>5. ASSUME NEW i \in 1..Len(s), s[i] \in OfTheEnd
      PROVE  ask \in OfTheEnd /\ i = Len(s)
  BY <1>1, <1>3, <1>5
<1>6. AskInv(s, ask \in OfTheEnd)
  BY <1>4, <1>5 DEF AskInv
<1> QED BY <1>2, <1>6

(* Any other question leaves the session as it is.                         *)
LEMMA PlainAskOpens ==
  ASSUME NEW open, AskInv(open, FALSE), NEW ask \in AskKinds \ OfTheEnd
  PROVE  AskInv(Append(open, ask), FALSE)
<1>1. AskInv(Append(open, ask), ask \in OfTheEnd)
  BY AskOpens
<1> QED BY <1>1 DEF AskInv

(* A question about the end is on top of the others.                       *)
LEMMA EndAskOpens ==
  ASSUME NEW open, AskInv(open, FALSE), NEW ask \in OfTheEnd
  PROVE  AskInv(Append(open, ask), TRUE)
<1>1. ask \in AskKinds
  BY DEF OfTheEnd, AskKinds
<1>2. AskInv(Append(open, ask), ask \in OfTheEnd)
  BY <1>1, AskOpens
<1> QED BY <1>2 DEF AskInv

(* The question on top tells whether the session is ending.                *)
LEMMA TopTells ==
  ASSUME AskInv(asks, ending), ending \in BOOLEAN, NEW ask, Top(ask)
  PROVE  /\ phase = "monitoring" /\ asks # <<>>
         /\ ask \in OfTheEnd => ending = TRUE
         /\ ask \notin OfTheEnd => ending = FALSE
<1>1. phase = "monitoring" /\ asks # <<>> /\ asks[Len(asks)] = ask
  BY DEF Top, Last
<1>2. asks \in Seq(AskKinds) /\ Len(asks) \in 1..Len(asks)
  BY <1>1 DEF AskInv
<1>3. ending => ask \in OfTheEnd
  BY <1>1 DEF AskInv, Last
<1>4. ask \in OfTheEnd => ending
  BY <1>1, <1>2 DEF AskInv
<1> QED BY <1>1, <1>3, <1>4

-----------------------------------------------------------------------------
(* The invariant.                                                          *)

LayoutInv ==
  /\ file \in FileType
  /\ dirty \in BOOLEAN /\ own \in BOOLEAN /\ lost \in BOOLEAN
  /\ page.zones \in Seq(PageZone) /\ page.zones # <<>> /\ Neat(page.overview)
  /\ WrittenIsSavable

DialogType ==
  {d \in [camera : Cameras, working : Overviews, spin : 1..MaxSlots] : Neat(d.working)}

LoginInv ==
  /\ phase \in {"closed", "login", "monitoring"}
  /\ signingIn \in BOOLEAN /\ ending \in BOOLEAN
  /\ agreed \in {"none", "clean", "discard", "crash"}
  /\ AskInv(asks, ending)
  /\ phase # "monitoring" => asks = <<>> /\ ending = FALSE

MapInv ==
  LayoutInv /\ CleanMeansStored /\ dialog \in DialogType /\ LoginInv

(* The overview dialog before it is opened.                                *)
LEMMA NoDialogTyped == NoDialog \in DialogType
<1>1. (CHOOSE c \in Cameras : TRUE) \in Cameras
  BY OverviewAssumption
<1>2. Neat(DefaultOverview) /\ DefaultOverview \in Overviews
  BY DefaultsTyped DEF Neat
<1>3. 1 \in 1..MaxSlots
  BY OverviewAssumption
<1> QED BY <1>1, <1>2, <1>3 DEF NoDialog, DialogType

(* A write that was cut short leaves a file.                               *)
LEMMA BrokenTyped == BrokenFile \in FileType
<1>1. DefaultOverview \in Overviews
  BY DefaultsTyped DEF Neat
<1>2. DefaultOverview \in [Cameras -> [role : Roles, slots : Int]]
  BY <1>1 DEF Overviews
<1>3. <<>> \in Seq(ZoneType)
  OBVIOUS
<1> QED BY <1>2, <1>3 DEF BrokenFile, AbsentFile, FileType

(* The program starts with the layout it found.                            *)
LEMMA MapInit == Init => MapInv
<1> SUFFICES ASSUME Init PROVE MapInv
  OBVIOUS
<1>1. file \in FileType
  BY FoundAssumption DEF Init
<1>2. page.zones \in Seq(PageZone) /\ page.zones # <<>> /\ Neat(page.overview)
  BY <1>1, LoadedTyped DEF Init
<1>3. LayoutInv
  BY <1>1, <1>2 DEF Init, LayoutInv, WrittenIsSavable
<1>4. CleanMeansStored
  BY DEF Init, CleanMeansStored
<1>5. dialog \in DialogType
  BY NoDialogTyped DEF Init
<1>6. LoginInv
  BY NoneIsOpen DEF Init, LoginInv
<1> QED BY <1>3, <1>4, <1>5, <1>6 DEF MapInv


-----------------------------------------------------------------------------
(* Each step keeps the layout.                                             *)

(* What a save comes to is told from what is on the disk, unless the disk  *)
(* has lost it.                                                            *)
LEMMA SaveIsTold ==
  ASSUME LayoutInv, NEW overview, Neat(overview), NEW out \in Outcomes,
         Saved(SaveLayoutNow(overview, out))
  PROVE  /\ LayoutInv' /\ SaveLayoutNow(overview, out).ok = ~dirty'
         /\ dirty' \/ lost' \/ Loaded(file') = page'
<1>1. PICK zones : zones = Synced(page.zones)
  OBVIOUS
<1>2. zones \in Seq(PageZone) /\ zones # <<>>
  <2>1. page.zones \in Seq(PageZone) /\ page.zones # <<>>
    BY DEF LayoutInv
  <2>2. zones \in Seq(PageZone) /\ Len(zones) = Len(page.zones)
    BY <1>1, <2>1, SyncedTyped
  <2> QED BY <2>1, <2>2
<1>3. PICK ok \in BOOLEAN : ok = (Valid(zones) /\ out \in {"written", "lost"})
  BY Zenon
<1>4. SaveLayoutNow(overview, out) =
        [ok |-> ok, page |-> [zones |-> zones, overview |-> overview], dirty |-> ~ok,
         file |-> IF ~ok THEN file
                  ELSE IF out = "written" THEN Stored(zones, overview) ELSE BrokenFile,
         own |-> IF ok THEN out = "written" ELSE own,
         lost |-> IF ok THEN out = "lost" ELSE lost]
  BY <1>1, <1>3, Zenon DEF SaveLayoutNow
<1>5. /\ SaveLayoutNow(overview, out).ok = ok
      /\ page' = [zones |-> zones, overview |-> overview] /\ dirty' = ~ok
      /\ file' = IF ~ok THEN file
                 ELSE IF out = "written" THEN Stored(zones, overview) ELSE BrokenFile
      /\ own' = IF ok THEN out = "written" ELSE own
      /\ lost' = IF ok THEN out = "lost" ELSE lost
  BY <1>4 DEF Saved
<1>6. page'.zones = zones /\ page'.overview = overview
  BY <1>5
<1>7. CASE ~ok
  <2>1. file' = file /\ own' = own /\ lost' = lost /\ dirty' = TRUE
    BY <1>5, <1>7
  <2>2. WrittenIsSavable'
    BY <2>1 DEF LayoutInv, WrittenIsSavable
  <2>3. LayoutInv'
    BY <1>2, <1>6, <2>1, <2>2 DEF LayoutInv
  <2> QED BY <1>5, <1>7, <2>1, <2>3
<1>8. CASE ok /\ out = "written"
  <2>1. file' = Stored(zones, overview) /\ own' = TRUE /\ lost' = FALSE /\ dirty' = FALSE
    BY <1>5, <1>8
  <2>2. Valid(zones)
    BY <1>3, <1>8
  <2>3. file' \in FileType /\ Loaded(file') = page'
    BY <1>2, <1>5, <2>1, <2>2, StoredIsLoaded
  <2>4. Valid(Synced(Loaded(file').zones))
    BY <1>2, <1>6, <2>2, <2>3, ValidIsSynced
  <2>5. WrittenIsSavable'
    BY <2>4 DEF WrittenIsSavable
  <2>6. LayoutInv'
    BY <1>2, <1>6, <2>1, <2>3, <2>5 DEF LayoutInv
  <2> QED BY <1>5, <1>8, <2>1, <2>3, <2>6
<1>9. CASE ok /\ out # "written"
  <2>1. file' = BrokenFile /\ own' = FALSE /\ lost' = TRUE /\ dirty' = FALSE
    BY <1>3, <1>5, <1>9
  <2>2. WrittenIsSavable'
    BY <2>1 DEF WrittenIsSavable
  <2>3. LayoutInv'
    BY <1>2, <1>6, <2>1, <2>2, BrokenTyped DEF LayoutInv
  <2> QED BY <1>5, <1>9, <2>1, <2>3
<1> QED BY <1>7, <1>8, <1>9

(* A save keeps what a page and its file are to each other.                *)
LEMMA SaveKeepsLayout ==
  ASSUME LayoutInv, NEW overview, Neat(overview), NEW out \in Outcomes,
         Saved(SaveLayoutNow(overview, out))
  PROVE  LayoutInv' /\ CleanMeansStored'
BY SaveIsTold DEF CleanMeansStored

(* So does a step that touches neither.                                    *)
LEMMA LayoutIsKept ==
  ASSUME MapInv, UNCHANGED layout, phase' = "monitoring" => phase = "monitoring"
  PROVE  LayoutInv' /\ CleanMeansStored'
<1>1. file' = file /\ page' = page /\ dirty' = dirty /\ own' = own /\ lost' = lost
  BY DEF layout
<1>2. WrittenIsSavable'
  BY <1>1 DEF MapInv, LayoutInv, WrittenIsSavable
<1>3. LayoutInv'
  BY <1>1, <1>2 DEF MapInv, LayoutInv
<1>4. CleanMeansStored'
  BY <1>1 DEF MapInv, CleanMeansStored
<1> QED BY <1>3, <1>4

(* Every step keeps the layout, and the flag that it is unsaved.           *)
LEMMA LayoutStep ==
  ASSUME MapInv, [Next]_vars
  PROVE  LayoutInv' /\ CleanMeansStored'
<1>1. LayoutInv /\ Neat(page.overview)
  BY DEF MapInv, LayoutInv
<1>2. CASE LoginSucceeds
  <2>1. UNCHANGED <<file, own>>
    BY <1>2 DEF LoginSucceeds
  <2>2. WrittenIsSavable'
    BY <1>1, <2>1 DEF LayoutInv, WrittenIsSavable
  <2>3. CASE page' = Loaded(file) /\ dirty' = FALSE /\ lost' = FALSE
    <3>1. page'.zones \in Seq(PageZone) /\ page'.zones # <<>> /\ Neat(page'.overview)
      BY <1>1, <2>3, LoadedTyped DEF LayoutInv
    <3>2. LayoutInv'
      BY <1>1, <2>1, <2>2, <2>3, <3>1 DEF LayoutInv
    <3>3. CleanMeansStored'
      BY <2>1, <2>3 DEF CleanMeansStored
    <3> QED BY <3>2, <3>3
  <2>4. CASE UNCHANGED <<session, page, dirty, lost>>
    <3>1. UNCHANGED layout /\ phase' = phase
      BY <2>1, <2>4 DEF layout, session
    <3> QED BY <3>1, LayoutIsKept
  <2> QED BY <1>2, <2>3, <2>4 DEF LoginSucceeds
<1>3. CASE Crash
  <2>1. UNCHANGED <<page, dirty, lost>> /\ phase' = "closed"
    BY <1>3 DEF Crash
  <2>2. CASE UNCHANGED <<file, own>>
    <3>1. UNCHANGED layout
      BY <2>1, <2>2 DEF layout
    <3> QED BY <2>1, <3>1, LayoutIsKept
  <2>3. CASE file' = BrokenFile /\ own' = FALSE
    <3>1. WrittenIsSavable' /\ CleanMeansStored'
      BY <2>1, <2>3 DEF WrittenIsSavable, CleanMeansStored
    <3>2. LayoutInv'
      BY <1>1, <2>1, <2>3, <3>1, BrokenTyped DEF LayoutInv
    <3> QED BY <3>1, <3>2
  <2> QED BY <1>3, <2>2, <2>3 DEF Crash
<1>4. ASSUME NEW out \in Outcomes, AcceptOverview(out) \/ CloseSave(out) \/ SessionSave(out)
      PROVE  LayoutInv' /\ CleanMeansStored'
  <2>1. Neat(dialog.working)
    BY DEF MapInv, DialogType
  <2>2. Saved(SaveLayoutNow(dialog.working, out)) \/ Saved(SaveLayoutNow(page.overview, out))
    BY <1>4 DEF AcceptOverview, CloseSave, SessionSave
  <2> QED BY <1>1, <2>1, <2>2, SaveKeepsLayout
<1>5. CASE \/ StartProgram \/ Submit \/ LoginFails \/ CancelLogin
           \/ CloseWindow \/ CloseDiscard \/ CloseCancel
           \/ SessionEnds \/ SessionDiscard \/ SessionRetry
  <2>1. UNCHANGED layout
    BY <1>5 DEF StartProgram, Submit, LoginFails, CancelLogin, CloseWindow, CloseDiscard,
                CloseCancel, SessionEnds, SessionDiscard, SessionRetry
  <2>2. phase' = "monitoring" => phase = "monitoring"
    BY <1>5 DEF StartProgram, Submit, LoginFails, CancelLogin, CloseWindow, CloseDiscard,
                CloseCancel, SessionEnds, SessionDiscard, SessionRetry, LeaveTo, login,
                session
  <2> QED BY <2>1, <2>2, LayoutIsKept
<1>6. CASE \/ OpenOverview \/ CancelOverview \/ DismissWarning
           \/ \E c \in Cameras : PickCamera(c)
           \/ \E role \in Roles : PickRole(role)
           \/ \E n \in 1..MaxSlots : PickSlots(n)
  <2>1. UNCHANGED layout /\ UNCHANGED login
    BY <1>6 DEF OpenOverview, CancelOverview, DismissWarning, PickCamera, PickRole,
                PickSlots
  <2>2. phase' = phase
    BY <2>1 DEF login
  <2> QED BY <2>1, <2>2, LayoutIsKept
<1>7. CASE UNCHANGED vars
  <2>1. UNCHANGED layout /\ phase' = phase
    BY <1>7 DEF vars, layout
  <2> QED BY <2>1, LayoutIsKept
<1> QED BY <1>2, <1>3, <1>4, <1>5, <1>6, <1>7 DEF Next


-----------------------------------------------------------------------------
(* Each step keeps the dialogs and the login.                              *)

(* The dialog takes a camera of its overview.                              *)
LEMMA CameraLoaded ==
  ASSUME NEW c \in Cameras, NEW overview, Neat(overview)
  PROVE  LoadCamera(c, overview) \in DialogType
<1>1. overview \in Overviews
  BY DEF Neat
<1>2. overview[c].slots \in Int
  BY <1>1, OverviewAssumption DEF Overviews
<1>3. Bounded(overview[c].slots) \in 1..MaxSlots
  BY <1>2, BoundedIsBounded
<1> QED BY <1>1, <1>3 DEF LoadCamera, DialogType

(* The dialog stores what has been picked.                                 *)
LEMMA ChannelStored ==
  ASSUME dialog \in DialogType, NEW role \in Roles, NEW spin \in 1..MaxSlots,
         StoreChannel(role, spin)
  PROVE  dialog' \in DialogType
<1>1. PICK d : d = dialog
  OBVIOUS
<1>2. PICK w \in Overviews : w = d.working
  BY <1>1 DEF DialogType
<1>3. /\ d \in [camera : Cameras, working : Overviews, spin : 1..MaxSlots]
      /\ \A c \in Cameras : w[c] = ChannelLayout(w[c].role, w[c].slots)
  BY <1>1, <1>2 DEF DialogType, Neat
<1>4. PICK new : new = [role |-> role, slots |-> IF role = "PARKING" THEN spin ELSE 0]
  OBVIOUS
<1>5. /\ new \in [role : Roles, slots : 0..MaxSlots]
      /\ new = ChannelLayout(new.role, new.slots)
  <2>1. spin \in 0..MaxSlots /\ 0 \in 0..MaxSlots /\ Bounded(spin) = spin
    BY OverviewAssumption, BoundedIsBounded
  <2>2. CASE role = "PARKING"
    <3>1. new = [role |-> role, slots |-> spin]
      BY <1>4, <2>2
    <3> QED BY <2>1, <2>2, <3>1 DEF ChannelLayout
  <2>3. CASE role # "PARKING"
    <3>1. new = [role |-> role, slots |-> 0]
      BY <1>4, <2>3
    <3> QED BY <2>1, <2>3, <3>1 DEF ChannelLayout
  <2> QED BY <2>2, <2>3
<1>6. PICK v : v = [w EXCEPT ![d.camera] = new]
  OBVIOUS
<1>7. v \in Overviews
  BY <1>3, <1>5, <1>6 DEF Overviews
<1>8. \A c \in Cameras : v[c] = ChannelLayout(v[c].role, v[c].slots)
  <2>1. \A c \in Cameras : v[c] = IF c = d.camera THEN new ELSE w[c]
    BY <1>6 DEF Overviews
  <2> QED BY <1>3, <1>5, <2>1
<1>9. dialog' = [d EXCEPT !.spin = spin, !.working = v]
  BY <1>1, <1>2, <1>4, <1>6 DEF StoreChannel
<1>10. dialog' \in [camera : Cameras, working : Overviews, spin : 1..MaxSlots]
       /\ dialog'.working = v
  BY <1>3, <1>7, <1>9
<1> QED BY <1>7, <1>8, <1>10 DEF DialogType, Neat

(* Every step keeps the dialog.                                            *)
LEMMA DialogStep ==
  ASSUME MapInv, [Next]_vars
  PROVE  dialog' \in DialogType
<1>1. dialog \in DialogType /\ Neat(page.overview) /\ Neat(dialog.working)
      /\ dialog.spin \in 1..MaxSlots
  BY DEF MapInv, LayoutInv, DialogType
<1>2. CASE OpenOverview
  BY <1>1, <1>2, CameraLoaded DEF OpenOverview
<1>3. ASSUME NEW c \in Cameras, PickCamera(c) PROVE dialog' \in DialogType
  BY <1>1, <1>3, CameraLoaded DEF PickCamera
<1>4. ASSUME NEW role \in Roles, PickRole(role) PROVE dialog' \in DialogType
  BY <1>1, <1>4, ChannelStored DEF PickRole
<1>5. ASSUME NEW n \in 1..MaxSlots, PickSlots(n) PROVE dialog' \in DialogType
  <2>1. "PARKING" \in Roles
    BY DEF Roles
  <2> QED BY <1>1, <1>5, <2>1, ChannelStored DEF PickSlots
<1>6. ASSUME NEW out \in Outcomes, AcceptOverview(out) \/ CloseSave(out) \/ SessionSave(out)
      PROVE  dialog' \in DialogType
  <2>1. dialog' = NoDialog \/ dialog' = dialog
    BY <1>6 DEF AcceptOverview, CloseSave, SessionSave, LeaveTo
  <2> QED BY <1>1, <2>1, NoDialogTyped
<1>7. CASE \/ StartProgram \/ Submit \/ LoginFails \/ LoginSucceeds \/ CancelLogin
           \/ DismissWarning \/ SessionRetry \/ CloseCancel \/ UNCHANGED vars
  <2>1. dialog' = dialog
    BY <1>7 DEF StartProgram, Submit, LoginFails, LoginSucceeds, CancelLogin,
                DismissWarning, SessionRetry, CloseCancel, vars
  <2> QED BY <1>1, <2>1
<1>8. CASE \/ Crash \/ CancelOverview \/ CloseWindow \/ CloseDiscard
           \/ SessionEnds \/ SessionDiscard
  <2>1. dialog' = dialog \/ dialog' = NoDialog
    BY <1>8 DEF Crash, CancelOverview, CloseWindow, CloseDiscard, SessionEnds,
                SessionDiscard, LeaveTo
  <2> QED BY <1>1, <2>1, NoDialogTyped
<1> QED BY <1>2, <1>3, <1>4, <1>5, <1>6, <1>7, <1>8 DEF Next

(* A session that is left leaves no dialog open.                           *)
LEMMA LeavingIsClean ==
  ASSUME signingIn \in BOOLEAN, NEW next \in {"closed", "login"},
         NEW how \in {"clean", "discard"}, LeaveTo(next, how)
  PROVE  LoginInv'
<1>1. /\ phase' = next /\ agreed' = how /\ asks' = <<>> /\ ending' = FALSE
      /\ signingIn' = signingIn
  BY DEF LeaveTo
<1>2. AskInv(asks', ending')
  BY <1>1, NoneIsOpen
<1> QED BY <1>1, <1>2 DEF LoginInv

(* A dialog that opens, closes or gives way to another leaves the rest of  *)
(* the session as it is.                                                   *)
LEMMA DialogsAreKept ==
  ASSUME LoginInv, phase = "monitoring", UNCHANGED login, AskInv(asks', ending)
  PROVE  LoginInv'
BY DEF LoginInv, login

(* Every step keeps the session and its questions.                         *)
LEMMA LoginStep ==
  ASSUME MapInv, [Next]_vars
  PROVE  LoginInv'
<1>1. LoginInv
  BY DEF MapInv
<1>2. signingIn \in BOOLEAN /\ ending \in BOOLEAN /\ AskInv(asks, ending)
  BY <1>1 DEF LoginInv
<1>3. /\ {"overview", "warning", "close"} \subseteq AskKinds \ OfTheEnd
      /\ {"session", "failure"} \subseteq OfTheEnd
  BY DEF AskKinds, OfTheEnd
<1>4. ASSUME NEW ask, Top(ask)
      PROVE  /\ phase = "monitoring" /\ AskInv(Pop, FALSE)
             /\ ask \in OfTheEnd =>
                  ending = TRUE /\ \A next \in OfTheEnd : AskInv(Swap(next), TRUE)
             /\ ask \notin OfTheEnd =>
                  ending = FALSE /\ \A next \in AskKinds \ OfTheEnd : AskInv(Swap(next), FALSE)
  <2>1. /\ phase = "monitoring" /\ asks # <<>>
        /\ ask \in OfTheEnd => ending = TRUE
        /\ ask \notin OfTheEnd => ending = FALSE
    BY <1>2, <1>4, TopTells
  <2>2. AskInv(Pop, FALSE)
    BY <1>2, <2>1, FrontIsPlain DEF Pop
  <2>3. ASSUME NEW next \in OfTheEnd PROVE AskInv(Swap(next), TRUE)
    BY <2>2, EndAskOpens DEF Swap
  <2>4. ASSUME NEW next \in AskKinds \ OfTheEnd PROVE AskInv(Swap(next), FALSE)
    BY <2>2, PlainAskOpens DEF Swap
  <2> QED BY <2>1, <2>2, <2>3, <2>4
<1>5. CASE StartProgram \/ Submit \/ LoginFails \/ CancelLogin
  <2>1. /\ UNCHANGED <<asks, ending, agreed>> /\ phase # "monitoring"
        /\ phase' \in {"closed", "login"} /\ signingIn' \in BOOLEAN
    BY <1>5 DEF StartProgram, Submit, LoginFails, CancelLogin, session
  <2> QED BY <1>1, <2>1 DEF LoginInv
<1>6. CASE LoginSucceeds
  <2>1. phase = "login" /\ signingIn' = FALSE /\ asks' = asks
    BY <1>6 DEF LoginSucceeds
  <2>2. asks = <<>> /\ ending = FALSE
    BY <1>1, <2>1 DEF LoginInv
  <2>3. ending' = FALSE /\ phase' \in {"login", "monitoring"}
        /\ (agreed' = "none" \/ agreed' = agreed)
    BY <1>6, <2>1, <2>2 DEF LoginSucceeds, session
  <2>4. AskInv(asks', ending')
    BY <2>1, <2>2, <2>3, NoneIsOpen
  <2> QED BY <1>1, <2>1, <2>2, <2>3, <2>4 DEF LoginInv
<1>7. CASE Crash
  <2>1. phase' = "closed" /\ asks' = <<>> /\ agreed' = "crash" /\ ending' = FALSE
        /\ signingIn' = signingIn
    BY <1>7 DEF Crash
  <2>2. AskInv(asks', ending')
    BY <2>1, NoneIsOpen
  <2> QED BY <1>2, <2>1, <2>2 DEF LoginInv
<1>8. CASE OpenOverview
  <2>1. phase = "monitoring" /\ asks = <<>> /\ asks' = Push("overview") /\ UNCHANGED login
    BY <1>8 DEF OpenOverview
  <2>2. ending = FALSE
    BY <1>2, <2>1 DEF AskInv
  <2>3. AskInv(asks', ending)
    <3>1. AskInv(Append(asks, "overview"), FALSE)
      BY <1>2, <1>3, <2>2, PlainAskOpens
    <3> QED BY <2>1, <2>2, <3>1 DEF Push
  <2> QED BY <1>1, <2>1, <2>3, DialogsAreKept
<1>9. CASE CancelOverview \/ DismissWarning \/ CloseCancel
  <2>1. PICK ask \in {"overview", "warning", "close"} : Top(ask) /\ asks' = Pop
    BY <1>9 DEF CancelOverview, DismissWarning, CloseCancel
  <2>2. UNCHANGED login
    BY <1>9 DEF CancelOverview, DismissWarning, CloseCancel
  <2>3. phase = "monitoring" /\ AskInv(asks', ending)
    <3>1. ask \notin OfTheEnd
      BY <1>3
    <3>2. phase = "monitoring" /\ ending = FALSE /\ AskInv(Pop, FALSE)
      BY <1>4, <2>1, <3>1, Zenon
    <3> QED BY <2>1, <3>2
  <2> QED BY <1>1, <2>2, <2>3, DialogsAreKept
<1>10. CASE \/ \E c \in Cameras : PickCamera(c)
            \/ \E role \in Roles : PickRole(role)
            \/ \E n \in 1..MaxSlots : PickSlots(n)
  <2>1. UNCHANGED login /\ asks' = asks /\ Top("overview")
    BY <1>10 DEF PickCamera, PickRole, PickSlots
  <2> QED BY <1>1, <1>2, <1>4, <2>1, DialogsAreKept
<1>11. ASSUME NEW out \in Outcomes, AcceptOverview(out) PROVE LoginInv'
  <2>1. Top("overview") /\ UNCHANGED login /\ (asks' = Pop \/ asks' = Swap("warning"))
    BY <1>11 DEF AcceptOverview
  <2>2. phase = "monitoring" /\ ending = FALSE /\ AskInv(Pop, FALSE)
        /\ AskInv(Swap("warning"), FALSE)
    <3>1. "overview" \notin OfTheEnd /\ "warning" \in AskKinds \ OfTheEnd
      BY <1>3
    <3> QED BY <1>4, <2>1, <3>1, Zenon
  <2> QED BY <1>1, <2>1, <2>2, DialogsAreKept
<1>12. ASSUME NEW out \in Outcomes, CloseSave(out) PROVE LoginInv'
  <2>1. Top("close")
        /\ (LeaveTo("closed", "clean") \/ (asks' = Swap("warning") /\ UNCHANGED login))
    BY <1>12 DEF CloseSave
  <2>2. phase = "monitoring" /\ ending = FALSE /\ AskInv(Swap("warning"), FALSE)
    <3>1. "close" \notin OfTheEnd /\ "warning" \in AskKinds \ OfTheEnd
      BY <1>3
    <3> QED BY <1>4, <2>1, <3>1, Zenon
  <2> QED BY <1>1, <1>2, <2>1, <2>2, DialogsAreKept, LeavingIsClean
<1>13. ASSUME NEW out \in Outcomes, SessionSave(out) PROVE LoginInv'
  <2>1. Top("session")
        /\ (LeaveTo("login", "clean") \/ (asks' = Swap("failure") /\ UNCHANGED login))
    BY <1>13 DEF SessionSave
  <2>2. phase = "monitoring" /\ ending = TRUE /\ AskInv(Swap("failure"), TRUE)
    <3>1. "session" \in OfTheEnd /\ "failure" \in OfTheEnd
      BY <1>3
    <3> QED BY <1>4, <2>1, <3>1, Zenon
  <2> QED BY <1>1, <1>2, <2>1, <2>2, DialogsAreKept, LeavingIsClean
<1>14. CASE SessionRetry
  <2>1. Top("failure") /\ asks' = Swap("session") /\ UNCHANGED login
    BY <1>14 DEF SessionRetry
  <2>2. phase = "monitoring" /\ ending = TRUE /\ AskInv(Swap("session"), TRUE)
    <3>1. "failure" \in OfTheEnd /\ "session" \in OfTheEnd
      BY <1>3
    <3> QED BY <1>4, <2>1, <3>1, Zenon
  <2> QED BY <1>1, <2>1, <2>2, DialogsAreKept
<1>15. CASE CloseWindow
  <2>1. phase = "monitoring" /\ asks = <<>>
        /\ (LeaveTo("closed", "clean") \/ (asks' = Push("close") /\ UNCHANGED login))
    BY <1>15 DEF CloseWindow
  <2>2. ending = FALSE
    BY <1>2, <2>1 DEF AskInv
  <2>3. AskInv(Append(asks, "close"), FALSE)
    BY <1>2, <1>3, <2>2, PlainAskOpens
  <2>4. AskInv(Push("close"), ending)
    BY <2>2, <2>3 DEF Push
  <2> QED BY <1>1, <1>2, <2>1, <2>4, DialogsAreKept, LeavingIsClean
<1>16. CASE CloseDiscard \/ SessionDiscard
  <2>1. LeaveTo("closed", "discard") \/ LeaveTo("login", "discard")
    BY <1>16 DEF CloseDiscard, SessionDiscard
  <2> QED BY <1>2, <2>1, LeavingIsClean
<1>17. CASE SessionEnds
  <2>1. CASE LeaveTo("login", "clean")
    BY <1>2, <2>1, LeavingIsClean
  <2>2. CASE ending' = TRUE /\ asks' = Push("session") /\ UNCHANGED <<phase, signingIn, agreed>>
    <3>1. phase = "monitoring" /\ ending = FALSE
      BY <1>2, <1>17 DEF SessionEnds
    <3>2. AskInv(Append(asks, "session"), TRUE)
      BY <1>2, <1>3, <3>1, EndAskOpens
    <3>3. AskInv(asks', ending')
      BY <2>2, <3>2 DEF Push
    <3> QED BY <1>1, <2>2, <3>1, <3>3 DEF LoginInv
  <2> QED BY <1>17, <2>1, <2>2 DEF SessionEnds
<1>18. CASE UNCHANGED vars
  BY <1>1, <1>18 DEF vars, LoginInv
<1> QED BY <1>5, <1>6, <1>7, <1>8, <1>9, <1>10, <1>11, <1>12, <1>13, <1>14, <1>15,
           <1>16, <1>17, <1>18 DEF Next


-----------------------------------------------------------------------------
(* What the runs check.                                                    *)

(* MapInv is inductive.                                                    *)
LEMMA MapStep == MapInv /\ [Next]_vars => MapInv'
BY LayoutStep, DialogStep, LoginStep DEF MapInv

(* The invariant holds of every reachable state.                           *)
THEOREM MapIsConsistent == MapSpec => []MapInv
<1>1. Init => MapInv
  BY MapInit
<1>2. MapInv /\ [Next]_vars => MapInv'
  BY MapStep
<1> QED BY <1>1, <1>2, PTL DEF MapSpec

(* The state has its types, and the question about the end of the session  *)
(* is open once, above every other dialog.                                 *)
THEOREM MapIsTyped == MapSpec => []MapTypeOK
<1>1. MapInv => MapTypeOK
  <2> SUFFICES ASSUME MapInv PROVE MapTypeOK
    OBVIOUS
  <2>1. file.kind \in {"absent", "broken", "text"}
    BY DEF MapInv, LayoutInv, FileType
  <2>2. /\ phase \in {"closed", "login", "monitoring"}
        /\ agreed \in {"none", "clean", "discard", "crash"}
        /\ AskInv(asks, ending)
    BY DEF MapInv, LoginInv
  <2>3. {signingIn, dirty, ending, own, lost} \subseteq BOOLEAN
    BY DEF MapInv, LoginInv, LayoutInv
  <2>4. page.zones \in Seq(PageZone) /\ page.zones # <<>> /\ Neat(page.overview)
    BY DEF MapInv, LayoutInv
  <2>5. ASSUME NEW i \in DOMAIN page.zones
        PROVE  LET z == page.zones[i] IN
                 /\ z.id # NoId /\ z.ch \in ParkingChannels /\ z.order \in Nat \ {0}
                 /\ z.area \in Areas \cup {0}
                 /\ z.rect.panel \in Channels \cup {"none"} /\ z.rect.inside \in BOOLEAN
    <3>1. PICK z \in PageZone : z = page.zones[i]
      BY <2>4, ZonesAreByPlace
    <3>2. /\ z.id # NoId /\ z.ch \in ParkingChannels /\ z.order \in Nat \ {0}
          /\ z.area \in Areas \cup {0} /\ z.rect \in RectType
      BY DEF PageZone, ReadType, ZoneType
    <3>3. z.rect.panel \in Channels \cup {"none"} /\ z.rect.inside \in BOOLEAN
      BY <3>2 DEF RectType
    <3> QED BY <3>1, <3>2, <3>3
  <2>6. page.overview \in Overviews
    BY <2>4 DEF Neat
  <2>7. dialog.working \in Overviews /\ dialog.camera \in Cameras
        /\ dialog.spin \in 1..MaxSlots
    BY DEF MapInv, DialogType
  <2>8. ending => Last(asks) \in {"session", "failure"}
    BY <2>2 DEF AskInv, OfTheEnd
  <2>9. \A i \in DOMAIN asks :
          asks[i] \in {"session", "failure"} => ending /\ i = Len(asks)
    BY <2>2 DEF AskInv, OfTheEnd
  <2> QED BY <2>1, <2>2, <2>3, <2>4, <2>5, <2>6, <2>7, <2>8, <2>9 DEF MapTypeOK
<1> QED BY <1>1, MapIsConsistent, PTL

(* While nothing is reported as unsaved, the next start shows what the map *)
(* shows now, unless the disk lost the write.                              *)
THEOREM CleanIsStored == MapSpec => []CleanMeansStored
<1>1. MapInv => CleanMeansStored
  BY DEF MapInv
<1> QED BY <1>1, MapIsConsistent, PTL

(* The layout does not get stuck on the program's own output.              *)
THEOREM OwnFileIsSavable == MapSpec => []WrittenIsSavable
<1>1. MapInv => WrittenIsSavable
  BY DEF MapInv, LayoutInv
<1> QED BY <1>1, MapIsConsistent, PTL

(* A session that ends leaves the layout on the disk, unless the operator  *)
(* discarded it, the program died or the disk lost the write.              *)
THEOREM EndsKeepTheLayout == MapSpec => EndKeepsTheLayout
<1> DEFINE Kept == phase = "monitoring" /\ phase' # "monitoring"
                     => Loaded(file') = page' \/ agreed' \in {"discard", "crash"} \/ lost'
<1>1. MapInv /\ [Next]_vars => [Kept]_vars
  <2> SUFFICES ASSUME MapInv, Next, phase = "monitoring", phase' # "monitoring"
               PROVE  Loaded(file') = page' \/ agreed' \in {"discard", "crash"} \/ lost'
    BY DEF vars
  <2>1. LayoutInv /\ CleanMeansStored /\ Neat(page.overview)
    BY DEF MapInv, LayoutInv
  <2>2. CASE Crash \/ CloseDiscard \/ SessionDiscard
    BY <2>2 DEF Crash, CloseDiscard, SessionDiscard, LeaveTo
  <2>3. CASE CloseWindow \/ SessionEnds
    <3>1. ~dirty /\ UNCHANGED layout
      BY <2>3 DEF CloseWindow, SessionEnds, login
    <3>2. Loaded(file) = page \/ lost
      BY <2>1, <3>1 DEF CleanMeansStored
    <3> QED BY <3>1, <3>2 DEF layout
  <2>4. ASSUME NEW out \in Outcomes, CloseSave(out) \/ SessionSave(out)
        PROVE  Loaded(file') = page' \/ lost'
    <3>1. /\ Saved(SaveLayoutNow(page.overview, out))
          /\ SaveLayoutNow(page.overview, out).ok
      BY <2>4 DEF CloseSave, SessionSave, login
    <3> QED BY <2>1, <3>1, SaveIsTold
  <2>5. ASSUME NEW out \in Outcomes PROVE ~AcceptOverview(out)
    BY DEF AcceptOverview, login
  <2>6. /\ ~StartProgram /\ ~Submit /\ ~LoginFails /\ ~LoginSucceeds /\ ~CancelLogin
    BY DEF StartProgram, Submit, LoginFails, LoginSucceeds, CancelLogin
  <2>7. /\ ~OpenOverview /\ ~CancelOverview /\ ~DismissWarning /\ ~CloseCancel /\ ~SessionRetry
    BY DEF OpenOverview, CancelOverview, DismissWarning, CloseCancel, SessionRetry, login
  <2>8. /\ \A c \in Cameras : ~PickCamera(c)
        /\ \A role \in Roles : ~PickRole(role)
        /\ \A n \in 1..MaxSlots : ~PickSlots(n)
    BY DEF PickCamera, PickRole, PickSlots, login
  <2> QED BY <2>2, <2>3, <2>4, <2>5, <2>6, <2>7, <2>8 DEF Next
<1> QED BY <1>1, MapIsConsistent, PTL DEF MapSpec, EndKeepsTheLayout

-----------------------------------------------------------------------------
(* SlotBoard: the inductive invariant.                                     *)

Named(list) == \A i, j \in DOMAIN list : list[i] = list[j] => i = j

(* What the list may be of.                                                *)
Logged == {"ALL", "SYSTEM", "CH"} \cup Slots
Types == {e.type : e \in Events} \cup Fire \cup Violations
         \cup {"ALARM_ACK", "API_SYNC", "API_ERROR"}
Notes == [src : Logged, type : Types]
Monitored == [src : Logged, type : Types, status : {"OPEN", "CLEARED", "RECORDED", "DONE",
                                                   "FAILED", "ACKED", "PENDING"}]

Board == slots \in [Slots -> SlotType \cup {None}]
Signs == fire \in BOOLEAN /\ banner \in {"hidden", "alarms", "server"}
SeenIds == seen \in Seq({e.id : e \in Events}) /\ Len(seen) <= SeenLimit
Bell(list) == list \in Seq(Notes) /\ Len(list) <= NoticeLimit /\ Named(list)

BoardInv == Board /\ Signs /\ SeenIds /\ Bell(notices) /\ StateTellsVisual

-----------------------------------------------------------------------------
(* The list behind the bell.                                               *)

(* What is left of a list is in it once for each place it had.             *)
LEMMA WithoutLeaves ==
  ASSUME NEW S, NEW list \in Seq(S), NEW gone
  PROVE  /\ Without(list, gone) \in Seq(S)
         /\ NoticeOf(Without(list, gone)) = NoticeOf(list) \ gone
         /\ Len(Without(list, gone)) <= Len(list)
         /\ Named(list) => Named(Without(list, gone))
<1> DEFINE kept == {i \in DOMAIN list : list[i] \notin gone}
           upTo(i) == {j \in kept : j <= i}
           rank == [i \in kept |-> Cardinality(upTo(i))]
           n == Cardinality(kept)
           at == [k \in 1..n |-> CHOOSE i \in kept : rank[i] = k]
           left == [k \in 1..n |-> list[at[k]]]
<1>1. /\ Len(list) \in Nat /\ DOMAIN list = 1..Len(list)
      /\ \A i \in DOMAIN list : list[i] \in S
  BY LenProperties, ElementOfSeq
<1>2. IsFiniteSet(kept) /\ n \in Nat /\ n <= Len(list) /\ kept \subseteq Nat
  <2>1. /\ IsFiniteSet(1..Len(list)) /\ Cardinality(1..Len(list)) = Len(list)
        /\ kept \in SUBSET (1..Len(list))
    BY <1>1, FS_Interval
  <2>2. IsFiniteSet(kept) /\ Cardinality(kept) <= Cardinality(1..Len(list))
    BY <2>1, FS_Subset
  <2> QED BY <1>1, <2>1, <2>2, FS_CardinalityType
<1>3. \A i \in kept : IsFiniteSet(upTo(i)) /\ Cardinality(upTo(i)) \in 1..n
  <2> SUFFICES ASSUME NEW i \in kept PROVE IsFiniteSet(upTo(i)) /\ Cardinality(upTo(i)) \in 1..n
    OBVIOUS
  <2>1. upTo(i) \in SUBSET kept /\ i \in upTo(i)
    BY <1>2
  <2>2. IsFiniteSet(upTo(i)) /\ Cardinality(upTo(i)) <= n /\ Cardinality(upTo(i)) \in Nat
    BY <1>2, <2>1, FS_Subset, FS_CardinalityType
  <2>3. Cardinality(upTo(i)) # 0
    BY <2>1, <2>2, FS_EmptySet
  <2> QED BY <1>2, <2>2, <2>3
<1>4. \A i, j \in kept : i < j => Cardinality(upTo(i)) # Cardinality(upTo(j))
  <2> SUFFICES ASSUME NEW i \in kept, NEW j \in kept, i < j
               PROVE  Cardinality(upTo(i)) # Cardinality(upTo(j))
    OBVIOUS
  <2>1. upTo(i) \in SUBSET upTo(j) /\ j \in upTo(j) /\ j \notin upTo(i)
    BY <1>2
  <2> QED BY <1>3, <2>1, FS_Subset
<1> HIDE DEF upTo
<1>5. rank \in Injection(kept, 1..n)
  <2>1. rank \in [kept -> 1..n]
    BY <1>3
  <2>2. \A i, j \in kept : rank[i] = rank[j] => i = j
    BY <1>2, <1>4
  <2> QED BY <2>1, <2>2 DEF Injection, IsInjective
<1>6. rank \in Surjection(kept, 1..n)
  <2>1. IsFiniteSet(1..n) /\ Cardinality(1..n) = n
    BY <1>2, FS_Interval
  <2> QED BY <1>5, <2>1, FS_Injection
<1>7. /\ \A k \in 1..n : at[k] \in kept /\ rank[at[k]] = k
      /\ \A i \in kept : rank[i] \in 1..n /\ at[rank[i]] = i
  <2>1. /\ \A k \in 1..n : \E i \in kept : rank[i] = k
        /\ \A i \in kept : rank[i] \in 1..n
        /\ \A i, j \in kept : rank[i] = rank[j] => i = j
    BY <1>5, <1>6 DEF Injection, IsInjective, Surjection
  <2> HIDE DEF rank, kept, n
  <2> QED BY <2>1
<1>8. Without(list, gone) = left
  <2>1. \A k \in 1..n : left[k] = list[CHOOSE i \in kept : rank[i] = k]
    OBVIOUS
  <2> QED BY <2>1 DEF Without, upTo
<1> HIDE DEF rank, at
<1>9. left \in [1..n -> S] /\ \A k \in 1..n : left[k] = list[at[k]]
  BY <1>1, <1>7
<1>10. left \in Seq(S) /\ Len(left) = n
  <2>1. left \in Seq(S)
    BY <1>2, <1>9, IsASeq
  <2> QED BY <1>2, <1>9, <2>1, LenProperties
<1>11. NoticeOf(left) = NoticeOf(list) \ gone
  <2>1. DOMAIN left = 1..n
    BY <1>9
  <2> HIDE DEF left, n
  <2>2. \A k \in 1..n : left[k] \in NoticeOf(list) \ gone
    BY <1>7, <1>9 DEF NoticeOf
  <2>3. \A i \in kept : list[i] = left[rank[i]] /\ rank[i] \in 1..n
    BY <1>7, <1>9
  <2>4. \A x \in NoticeOf(list) \ gone : \E k \in 1..n : x = left[k]
    BY <2>3 DEF NoticeOf
  <2> QED BY <2>1, <2>2, <2>4 DEF NoticeOf
<1>12. ASSUME Named(list) PROVE Named(left)
  <2> SUFFICES ASSUME NEW k \in 1..n, NEW l \in 1..n, left[k] = left[l] PROVE k = l
    BY <1>9 DEF Named
  <2>1. at[k] = at[l]
    BY <1>7, <1>9, <1>12 DEF Named
  <2> QED BY <1>7, <2>1
<1> QED BY <1>2, <1>8, <1>10, <1>11, <1>12

(* A notification that is raised is there once, and the list is no longer  *)
(* than its limit.                                                         *)
LEMMA UpsertKeeps ==
  ASSUME NEW list, Bell(list), NEW e \in Monitored
  PROVE  /\ Bell(Upsert(list, e))
         /\ \/ NoticeOf(list) \subseteq NoticeOf(Upsert(list, e))
            \/ Len(Upsert(list, e)) = NoticeLimit
<1> DEFINE new == [src |-> e.src, type |-> e.type]
           others == Without(list, {new})
           all == <<new>> \o others
           len == IF Len(all) > NoticeLimit THEN NoticeLimit ELSE Len(all)
           cut == SubSeq(all, 1, len)
<1>1. new \in Notes
  BY DEF Monitored, Notes
<1> HIDE DEF new
<1>2. /\ others \in Seq(Notes) /\ NoticeOf(others) = NoticeOf(list) \ {new} /\ Named(others)
  BY WithoutLeaves DEF Bell
<1>3. DOMAIN others = 1..Len(others) /\ Len(others) \in Nat
  BY <1>2, LenProperties
<1> HIDE DEF others
<1>4. /\ all \in Seq(Notes) /\ Len(all) = Len(others) + 1 /\ all[1] = new
      /\ \A i \in 1..Len(others) : all[i + 1] = others[i]
  <2>1. <<new>> \in Seq(Notes) /\ Len(<<new>>) = 1 /\ <<new>>[1] = new
    BY <1>1
  <2> DEFINE one == <<new>>
  <2> HIDE DEF one
  <2>2. /\ one \o others \in Seq(Notes) /\ Len(one \o others) = Len(one) + Len(others)
        /\ \A i \in 1..(Len(one) + Len(others)) :
             (one \o others)[i] = IF i <= Len(one) THEN one[i] ELSE others[i - Len(one)]
    BY <1>2, <2>1, ConcatProperties DEF one
  <2> QED BY <1>3, <2>1, <2>2 DEF one
<1> HIDE DEF all
<1>5. \A i \in 2..Len(all) : all[i] = others[i - 1] /\ i - 1 \in DOMAIN others
  BY <1>3, <1>4
<1>6. DOMAIN all = 1..Len(all) /\ Len(all) \in Nat /\ Len(all) >= 1
  BY <1>3, <1>4, LenProperties
<1>7. \A i \in 2..Len(all) : all[i] # new
  <2>1. \A i \in DOMAIN others : others[i] # new
    BY <1>2 DEF NoticeOf
  <2> QED BY <1>5, <2>1
<1>8. Named(all)
  <2>1. ASSUME NEW i \in 1..Len(all), NEW j \in 1..Len(all), all[i] = all[j] PROVE i = j
    <3>1. CASE i = 1 \/ j = 1
      BY <1>4, <1>6, <1>7, <2>1, <3>1
    <3>2. CASE i # 1 /\ j # 1
      <4>1. i \in 2..Len(all) /\ j \in 2..Len(all)
        BY <1>6, <3>2
      <4>2. i - 1 = j - 1
        BY <1>2, <1>5, <2>1, <4>1 DEF Named
      <4> QED BY <4>1, <4>2
    <3> QED BY <3>1, <3>2
  <2> QED BY <1>6, <2>1 DEF Named
<1>9. NoticeOf(list) \subseteq NoticeOf(all)
  <2>1. new \in NoticeOf(all)
    BY <1>4, <1>6 DEF NoticeOf
  <2>2. \A x \in NoticeOf(others) : x \in NoticeOf(all)
    <3>1. \A i \in DOMAIN others : others[i] = all[i + 1] /\ i + 1 \in DOMAIN all
      BY <1>3, <1>4, <1>6
    <3> QED BY <3>1 DEF NoticeOf
  <2> QED BY <1>2, <2>1, <2>2
<1>10. len \in 1..Len(all) /\ len <= NoticeLimit /\ NoticeLimit \in Nat \ {0}
       /\ (len # NoticeLimit => len = Len(all))
  BY <1>6, NoticeLimitAssumption
<1> HIDE DEF len
<1>11. /\ cut \in Seq(Notes) /\ Len(cut) = len /\ \A i \in 1..len : cut[i] = all[i]
  <2>1. \A i \in 1..len : all[i] \in Notes
    BY <1>4, <1>6, <1>10, ElementOfSeq
  <2>2. /\ cut \in Seq(Notes) /\ Len(cut) = (IF 1 <= len THEN len - 1 + 1 ELSE 0)
        /\ \A i \in 1..(len - 1 + 1) : cut[i] = all[1 + i - 1]
    BY <1>10, <2>1, SubSeqProperties
  <2> QED BY <1>10, <2>2
<1> HIDE DEF cut
<1>12. DOMAIN cut = 1..len
  BY <1>11, LenProperties
<1>13. Named(cut)
  <2> DEFINE size == Len(all)
  <2>0. size \in Nat /\ len \in 1..size /\ DOMAIN all = 1..size
    BY <1>6, <1>10
  <2> HIDE DEF size
  <2>1. \A i \in 1..len : i \in DOMAIN all
    BY <2>0
  <2>2. ASSUME NEW i \in DOMAIN cut, NEW j \in DOMAIN cut, cut[i] = cut[j] PROVE i = j
    <3>1. i \in DOMAIN all /\ j \in DOMAIN all /\ all[i] = all[j]
      BY <1>11, <1>12, <2>1, <2>2
    <3> QED BY <1>8, <3>1 DEF Named
  <2> QED BY <2>2 DEF Named
<1>14. NoticeOf(list) \subseteq NoticeOf(cut) \/ Len(cut) = NoticeLimit
  <2>1. CASE len = NoticeLimit
    BY <1>11, <2>1
  <2>2. CASE len # NoticeLimit
    <3>1. \A i \in DOMAIN all : i \in DOMAIN cut /\ cut[i] = all[i]
      BY <1>6, <1>10, <1>11, <1>12, <2>2
    <3> QED BY <1>9, <3>1 DEF NoticeOf
  <2> QED BY <2>1, <2>2
<1>15. Upsert(list, e) = cut
  BY DEF Upsert, cut, len, all, others, new
<1> QED BY <1>10, <1>11, <1>13, <1>14, <1>15 DEF Bell

(* Whatever is recorded, the list stays a list of notifications; what goes *)
(* is of the source that is resolved, or the oldest of a full list.        *)
LEMMA IngestKeeps ==
  ASSUME NEW list, Bell(list), NEW e \in Monitored
  PROVE  /\ Bell(Ingest(list, e))
         /\ \A n \in NoticeOf(list) \ NoticeOf(Ingest(list, e)) :
              \/ Resolution(e) /\ (e.src = "ALL" \/ n.src = e.src)
              \/ Len(Ingest(list, e)) = NoticeLimit
<1>1. NoticeLimit \in Nat \ {0} /\ list \in Seq(Notes) /\ Len(list) \in Nat
  BY NoticeLimitAssumption, LenProperties DEF Bell
<1>2. CASE Resolution(e) /\ e.src = "ALL"
  <2>1. Ingest(list, e) = <<>>
    BY <1>2 DEF Ingest, Resolve
  <2>2. Bell(<<>>)
    BY <1>1 DEF Bell, Named
  <2> QED BY <1>2, <2>1, <2>2
<1>3. CASE Resolution(e) /\ e.src # "ALL"
  <2> DEFINE gone == {n \in NoticeOf(list) : n.src = e.src /\ SameGroup(n.type, e.type)}
             left == Without(list, gone)
  <2>1. Ingest(list, e) = left
    BY <1>3 DEF Ingest, Resolve
  <2>2. \A n \in gone : n.src = e.src
    OBVIOUS
  <2> HIDE DEF gone
  <2>3. /\ left \in Seq(Notes) /\ NoticeOf(left) = NoticeOf(list) \ gone
        /\ Len(left) <= Len(list) /\ Named(left)
    BY WithoutLeaves DEF Bell
  <2>4. Len(left) \in Nat
    BY <2>3, LenProperties
  <2>5. Bell(left)
    BY <1>1, <2>3, <2>4 DEF Bell
  <2> QED BY <1>3, <2>1, <2>2, <2>3, <2>5
<1>4. CASE ~Resolution(e) /\ Notifiable(e)
  <2>1. Ingest(list, e) = Upsert(list, e)
    BY <1>4 DEF Ingest
  <2> QED BY <2>1, UpsertKeeps
<1>5. CASE ~Resolution(e) /\ ~Notifiable(e)
  BY <1>5 DEF Ingest
<1> QED BY <1>2, <1>3, <1>4, <1>5

(* Whether what is logged with this type and status ends a notification.   *)
Ends(type, status) ==
  \/ type \in (Fire \ {"FIRE_SUSPECTED"}) \cup {"HALL_SENSOR_CLEAR", "ALARM_ACK"}
  \/ status \in {"ACKED", "CLEARED"}

(* The same of the log.                                                    *)
LEMMA LogKeeps ==
  ASSUME Bell(notices), NEW src \in Logged, NEW type \in Types,
         NEW status \in {"OPEN", "CLEARED", "RECORDED", "DONE", "FAILED", "ACKED", "PENDING"},
         Log(type, src, status)
  PROVE  /\ Bell(notices')
         /\ \A n \in NoticeOf(notices) \ NoticeOf(notices') :
              \/ Ends(type, status) /\ (src = "ALL" \/ n.src = src)
              \/ Len(notices') = NoticeLimit
<1> DEFINE e == [src |-> src, type |-> type, status |-> status]
<1>1. e \in Monitored /\ e.src = src
  BY DEF Monitored
<1>2. notices' = Ingest(notices, e)
  BY DEF Log
<1>3. Resolution(e) => Ends(type, status)
  BY DEF Resolution, Ends
<1> HIDE DEF e
<1> QED BY <1>1, <1>2, <1>3, IngestKeeps

-----------------------------------------------------------------------------
(* The slots.                                                              *)

(* A picture of a slot whose two halves agree.                             *)
Tells(slot) ==
  slot.state = StateOf(slot.alarm, slot.occ) \/ (slot.state = "Acked" /\ slot.acked)
Agrees(slot) == slot \in SlotType /\ Tells(slot)

(* It is one when its fields say so, and its fields are of their types.    *)
LEMMA SlotByFields ==
  /\ \A state \in {"Vacant", "Occupied", "Acked"} \cup Alarms,
        occ \in {"Unknown", "Vacant", "Occupied"},
        alarm \in Alarms \cup {"None"}, acked \in BOOLEAN :
       (state = StateOf(alarm, occ) \/ (state = "Acked" /\ acked))
         => Agrees([state |-> state, occ |-> occ, alarm |-> alarm, acked |-> acked])
  /\ \A slot \in SlotType :
       /\ slot.state \in {"Vacant", "Occupied", "Acked"} \cup Alarms
       /\ slot.occ \in {"Unknown", "Vacant", "Occupied"}
       /\ slot.alarm \in Alarms \cup {"None"} /\ slot.acked \in BOOLEAN
       /\ slot = [state |-> slot.state, occ |-> slot.occ, alarm |-> slot.alarm,
                  acked |-> slot.acked]
<1>1. ASSUME NEW state \in {"Vacant", "Occupied", "Acked"} \cup Alarms,
             NEW occ \in {"Unknown", "Vacant", "Occupied"},
             NEW alarm \in Alarms \cup {"None"}, NEW acked \in BOOLEAN,
             state = StateOf(alarm, occ) \/ (state = "Acked" /\ acked)
      PROVE  Agrees([state |-> state, occ |-> occ, alarm |-> alarm, acked |-> acked])
  <2> DEFINE slot == [state |-> state, occ |-> occ, alarm |-> alarm, acked |-> acked]
  <2>1. slot \in SlotType
    BY DEF SlotType
  <2>2. /\ slot.state = state /\ slot.occ = occ /\ slot.alarm = alarm
        /\ slot.acked = acked
    OBVIOUS
  <2> HIDE DEF slot
  <2>3. Tells(slot)
    BY <1>1, <2>2, Zenon DEF Tells
  <2> QED BY <2>1, <2>3 DEF Agrees, slot
<1>2. ASSUME NEW slot \in SlotType
      PROVE  /\ slot.state \in {"Vacant", "Occupied", "Acked"} \cup Alarms
             /\ slot.occ \in {"Unknown", "Vacant", "Occupied"}
             /\ slot.alarm \in Alarms \cup {"None"} /\ slot.acked \in BOOLEAN
             /\ slot = [state |-> slot.state, occ |-> slot.occ, alarm |-> slot.alarm,
                        acked |-> slot.acked]
  BY DEF SlotType
<1> QED BY <1>1, <1>2, Zenon

(* What the slots are is said slot by slot.                                *)
LEMMA BoardBySlot ==
  /\ Board /\ StateTellsVisual
       => \A s \in Slots : slots[s] = None \/ Agrees(slots[s])
  /\ slots' \in [Slots -> SlotType \cup {None}]
       /\ (\A s \in Slots : slots'[s] = None \/ Agrees(slots'[s]))
       => Board' /\ StateTellsVisual'
<1>1. ASSUME Board, StateTellsVisual PROVE \A s \in Slots : slots[s] = None \/ Agrees(slots[s])
  <2> SUFFICES ASSUME NEW s \in Slots, slots[s] # None PROVE Agrees(slots[s])
    OBVIOUS
  <2>1. s \in Held
    BY DEF Held
  <2>2. Tells(slots[s])
    BY <1>1, <2>1, Zenon DEF StateTellsVisual, Tells
  <2>3. slots[s] \in SlotType
    BY <1>1 DEF Board
  <2> QED BY <2>2, <2>3 DEF Agrees
<1>2. ASSUME slots' \in [Slots -> SlotType \cup {None}],
             \A s \in Slots : slots'[s] = None \/ Agrees(slots'[s])
      PROVE  Board' /\ StateTellsVisual'
  <2>1. Board'
    BY <1>2 DEF Board
  <2>2. \A s \in Held' : Tells(slots'[s])
    BY <1>2 DEF Held, Agrees
  <2>3. StateTellsVisual' = (\A s \in Held' : Tells(slots'[s]))
    BY DEF StateTellsVisual, Tells, StateOf
  <2> QED BY <2>1, <2>2, <2>3
<1> QED BY <1>1, <1>2

(* The texts of an event are of the few that the client knows.             *)
LEMMA EventTexts ==
  ASSUME NEW e \in Events
  PROVE  /\ EffectiveAlarm(e) \in Alarms \cup {"None"}
         /\ Status(e) \in {"OPEN", "CLEARED", "RECORDED"}
         /\ e.type \in Types /\ e.type \notin Fire \cup {"ALARM_ACK"}
         /\ e.type = "HALL_SENSOR_CLEAR" => Status(e) = "CLEARED"
<1>1. /\ e.alarm \in Alarms \cup {"", "None"} /\ e.type \notin Fire \cup {"ALARM_ACK"}
      /\ e.type = "HALL_SENSOR_CLEAR" => e.alarmState = "CLEARED"
  BY BoardConstants
<1>2. EffectiveAlarm(e) \in Alarms \cup {"None"}
  BY <1>1 DEF EffectiveAlarm, Alarms
<1>3. Status(e) \in {"OPEN", "CLEARED", "RECORDED"}
  BY DEF Status
<1>4. e.type = "HALL_SENSOR_CLEAR" => Status(e) = "CLEARED"
  <2>1. e.alarmState = "CLEARED" => Status(e) = "CLEARED"
    BY DEF Status
  <2> QED BY <1>1, <2>1
<1> QED BY <1>1, <1>2, <1>3, <1>4 DEF Types

(* An event leaves a slot that agrees, and one that clears ends its alarm. *)
LEMMA NextSlotAgrees ==
  ASSUME NEW e \in Events, NEW slot, slot = None \/ slot \in SlotType
  PROVE  /\ NextSlot(e, slot) = None \/ Agrees(NextSlot(e, slot))
         /\ Status(e) = "CLEARED"
              => NextSlot(e, slot) = None \/ NextSlot(e, slot).alarm = "None"
<1> DEFINE old == IF slot = None THEN Unknown ELSE slot
           after == SlotAfter(e, slot)
<1>1. old \in SlotType
  BY DEF Unknown, SlotType, Alarms
<1>2. /\ after.occ \in {"Unknown", "Vacant", "Occupied"}
      /\ after.alarm \in Alarms \cup {"None"}
      /\ after.acked \in BOOLEAN
      /\ after.state = StateOf(after.alarm, after.occ)
      /\ after = [occ |-> after.occ, alarm |-> after.alarm, state |-> after.state,
                  acked |-> after.acked]
  <2>1. e.parking \in {"", "Vacant", "Occupied"} /\ EffectiveAlarm(e) \in Alarms \cup {"None"}
    BY BoardConstants, EventTexts
  <2>2. after.occ = IF e.parking # "" THEN e.parking ELSE old.occ
    BY DEF SlotAfter
  <2>3. after.alarm = (CASE Opens(e) -> EffectiveAlarm(e)
                         [] Closes(e) /\ ~Opens(e) -> "None"
                         [] OTHER -> old.alarm)
    BY DEF SlotAfter
  <2>4. after.acked = (old.acked /\ ~Opens(e) /\ ~Closes(e))
    BY DEF SlotAfter
  <2>5. /\ after.state = StateOf(after.alarm, after.occ)
        /\ after = [occ |-> after.occ, alarm |-> after.alarm, state |-> after.state,
                    acked |-> after.acked]
    BY DEF SlotAfter
  <2>6. /\ old.occ \in {"Unknown", "Vacant", "Occupied"} /\ old.alarm \in Alarms \cup {"None"}
        /\ old.acked \in BOOLEAN
    BY <1>1 DEF SlotType
  <2> HIDE DEF after, old
  <2>7. after.occ \in {"Unknown", "Vacant", "Occupied"}
    BY <2>1, <2>2, <2>6
  <2>8. after.alarm \in Alarms \cup {"None"}
    <3>1. CASE Opens(e)
      BY <2>1, <2>3, <3>1
    <3>2. CASE ~Opens(e) /\ Closes(e)
      BY <2>3, <3>2
    <3>3. CASE ~Opens(e) /\ ~Closes(e)
      BY <2>3, <2>6, <3>3
    <3> QED BY <3>1, <3>2, <3>3
  <2>9. after.acked \in BOOLEAN
    BY <2>4, <2>6
  <2> QED BY <2>5, <2>7, <2>8, <2>9
<1>3. Agrees(after)
  <2> HIDE DEF after
  <2>1. after.state \in {"Vacant", "Occupied", "Acked"} \cup Alarms
    BY <1>2 DEF StateOf
  <2>2. after = [state |-> after.state, occ |-> after.occ, alarm |-> after.alarm,
                 acked |-> after.acked]
    BY <1>2
  <2> QED BY <1>2, <2>1, <2>2, SlotByFields
<1>4. Status(e) = "CLEARED" => after.alarm = "None"
  BY DEF SlotAfter, Opens, Closes
<1> QED BY <1>3, <1>4 DEF NextSlot

(* A slot that is read from two texts of the server agrees.                *)
LEMMA DerivedAgrees ==
  ASSUME NEW text \in {"Vacant", "Occupied", "Acked"} \cup Alarms,
         NEW alarm \in Alarms \cup {"None"}
  PROVE  Agrees(Derived(text, alarm))
<1> DEFINE kind == IF alarm # "None" THEN alarm
                   ELSE IF text \in Alarms THEN text ELSE "None"
           state == IF kind # "None" THEN kind ELSE text
           occ == CASE state = "Vacant" -> "Vacant"
                    [] state = "Sensor" -> "Unknown"
                    [] OTHER -> "Occupied"
<1>1. Derived(text, alarm) = [state |-> state, alarm |-> kind, acked |-> state = "Acked",
                              occ |-> occ]
  BY DEF Derived
<1>2. kind \in Alarms \cup {"None"}
  OBVIOUS
<1>3. state \in {"Vacant", "Occupied", "Acked"} \cup Alarms
  BY <1>2
<1>4. occ \in {"Unknown", "Vacant", "Occupied"}
  OBVIOUS
<1>5. state = StateOf(kind, occ) \/ state = "Acked"
  <2>1. CASE kind # "None"
    BY <2>1 DEF StateOf
  <2>2. CASE kind = "None"
    <3>1. state = text /\ text \notin Alarms
      BY <2>2 DEF Alarms
    <3>2. CASE text = "Vacant"
      BY <2>2, <3>1, <3>2 DEF StateOf
    <3>3. CASE text = "Occupied"
      BY <2>2, <3>1, <3>3 DEF StateOf
    <3>4. CASE text = "Acked"
      BY <3>1, <3>4
    <3> QED BY <3>1, <3>2, <3>3, <3>4
  <2> QED BY <2>1, <2>2
<1> HIDE DEF kind, state, occ
<1> DEFINE acked == (state = "Acked")
<1>6. acked \in BOOLEAN /\ (state = StateOf(kind, occ) \/ (state = "Acked" /\ acked))
  BY <1>5
<1>7. Derived(text, alarm) = [state |-> state, occ |-> occ, alarm |-> kind, acked |-> acked]
  BY <1>1
<1> HIDE DEF acked
<1> QED BY <1>2, <1>3, <1>4, <1>6, <1>7, SlotByFields

(* So is one that carries an old alarm over a poll, with what it keeps.    *)
LEMMA AppliedAgrees ==
  ASSUME NEW old, old = None \/ old \in SlotType, NEW r \in Reports
  PROVE  /\ Agrees(Applied(old, r))
         /\ old # None /\ old.alarm # "None" /\ Applied(old, r).occ = "Occupied"
              => /\ Applied(old, r).alarm = old.alarm
                 /\ old.acked => Applied(old, r).acked
<1> DEFINE new == Derived(r.text, r.alarm)
           kept == IF Persists(old, new)
                   THEN [new EXCEPT !.alarm = old.alarm, !.acked = old.acked,
                                    !.state = StateOf(old.alarm, new.occ)]
                   ELSE new
<1>1. Agrees(new)
  BY BoardConstants, DerivedAgrees
<1>2. Applied(old, r) = [kept EXCEPT !.acked = kept.acked \/ r.text = "Acked"]
  BY DEF Applied
<1>3. Agrees(kept) /\ kept.occ = new.occ
  <2> HIDE DEF new
  <2>1. CASE Persists(old, new)
    <3>1. old \in SlotType
      BY <2>1 DEF Persists
    <3>2. StateOf(old.alarm, new.occ) \in {"Vacant", "Occupied", "Acked"} \cup Alarms
      BY <3>1 DEF StateOf, SlotType
    <3>3. /\ old.alarm \in Alarms \cup {"None"} /\ old.acked \in BOOLEAN
          /\ new \in SlotType /\ new.occ \in {"Unknown", "Vacant", "Occupied"}
      BY <1>1, <3>1, SlotByFields DEF Agrees
    <3>4. kept = [state |-> StateOf(old.alarm, new.occ), occ |-> new.occ,
                  alarm |-> old.alarm, acked |-> old.acked]
      <4>1. kept = [new EXCEPT !.alarm = old.alarm, !.acked = old.acked,
                               !.state = StateOf(old.alarm, new.occ)]
        BY <2>1
      <4> QED BY <3>3, <4>1, SlotByFields DEF SlotType
    <3>5. kept.occ = new.occ
      BY <3>4
    <3> HIDE DEF kept
    <3> QED BY <3>2, <3>3, <3>4, <3>5, SlotByFields
  <2>2. CASE ~Persists(old, new)
    BY <1>1, <2>2
  <2> QED BY <2>1, <2>2
<1>4. Persists(old, new) => kept.alarm = old.alarm /\ kept.acked = old.acked
  <2> HIDE DEF new
  <2> QED BY <1>1 DEF Agrees, SlotType
<1>5. /\ Agrees(Applied(old, r)) /\ Applied(old, r).occ = new.occ
      /\ Applied(old, r).alarm = kept.alarm
      /\ kept.acked => Applied(old, r).acked
  <2> HIDE DEF new, kept
  <2>1. /\ kept \in SlotType
        /\ kept.state = StateOf(kept.alarm, kept.occ) \/ (kept.state = "Acked" /\ kept.acked)
    BY <1>3, Zenon DEF Agrees, Tells
  <2> DEFINE acked == kept.acked \/ r.text = "Acked"
  <2>2. kept.acked \in BOOLEAN /\ acked \in BOOLEAN /\ (kept.acked => acked)
    BY <2>1, SlotByFields
  <2>3. Applied(old, r) = [state |-> kept.state, occ |-> kept.occ, alarm |-> kept.alarm,
                           acked |-> acked]
    BY <1>2, <2>1, SlotByFields DEF SlotType
  <2> HIDE DEF acked
  <2>4. kept.state = StateOf(kept.alarm, kept.occ) \/ (kept.state = "Acked" /\ acked)
    BY <2>1, <2>2, Zenon
  <2>5. Agrees(Applied(old, r))
    BY <2>1, <2>2, <2>3, <2>4, SlotByFields
  <2>6. Applied(old, r).occ = kept.occ /\ Applied(old, r).alarm = kept.alarm
        /\ Applied(old, r).acked = acked
    BY <2>3
  <2> QED BY <1>3, <2>2, <2>5, <2>6, Zenon
<1>6. old # None /\ old.alarm # "None" /\ new.occ = "Occupied" => Persists(old, new)
  BY DEF Persists
<1> HIDE DEF new, kept
<1> QED BY <1>4, <1>5, <1>6, Zenon

-----------------------------------------------------------------------------
(* The steps.                                                              *)

(* The banner shows one of its pictures.                                   *)
LEMMA RefreshedIsSign ==
  \A board, f : Refreshed(board, f) \in {"hidden", "alarms", "server"}
BY DEF Refreshed

(* The board before the first event.                                       *)
LEMMA BoardStarts ==
  BoardInit => BoardInv
<1> SUFFICES ASSUME BoardInit PROVE BoardInv
  OBVIOUS
<1>1. Board /\ StateTellsVisual
  BY DEF BoardInit, Board, StateTellsVisual, Held
<1>2. Signs
  BY DEF BoardInit, Signs
<1>3. SeenIds
  <2>1. seen = <<>> /\ SeenLimit \in Nat \ {0}
    BY BoardConstants DEF BoardInit
  <2> QED BY <2>1 DEF SeenIds
<1>4. Bell(notices)
  <2>1. notices = <<>> /\ NoticeLimit \in Nat \ {0}
    BY NoticeLimitAssumption DEF BoardInit
  <2> QED BY <2>1 DEF Bell, Named
<1> QED BY <1>1, <1>2, <1>3, <1>4 DEF BoardInv

(* What a recorded event does to the seen events and to the list.          *)
LEMMA RecordKeeps ==
  ASSUME SeenIds, Bell(notices), NEW e \in Events, NEW src \in Logged,
         RecordServerEvent(e, src)
  PROVE  /\ SeenIds' /\ Bell(notices')
         /\ \A n \in NoticeOf(notices) \ NoticeOf(notices') :
              \/ Status(e) = "CLEARED" /\ (src = "ALL" \/ n.src = src)
              \/ Len(notices') = NoticeLimit
<1> DEFINE known == \E i \in DOMAIN seen : seen[i] = e.id
           ids == Append(seen, e.id)
<1>1. CASE known
  <2>1. UNCHANGED <<seen, notices>>
    BY <1>1 DEF RecordServerEvent
  <2> QED BY <2>1 DEF SeenIds
<1>2. CASE ~known
  <2>1. /\ seen' = IF Len(ids) > SeenLimit THEN Tail(ids) ELSE ids
        /\ Log(e.type, src, Status(e))
    BY <1>2 DEF RecordServerEvent
  <2>2. SeenIds'
    <3> DEFINE I == {ev.id : ev \in Events}
    <3>1. seen \in Seq(I) /\ Len(seen) \in Nat /\ Len(seen) <= SeenLimit /\ SeenLimit \in Nat
          /\ e.id \in I
      BY BoardConstants, LenProperties DEF SeenIds
    <3> HIDE DEF I
    <3>2. ids \in Seq(I) /\ Len(ids) = Len(seen) + 1
      BY <3>1, AppendProperties
    <3> HIDE DEF ids
    <3>3. ids # <<>>
      BY <3>1, <3>2, EmptySeq
    <3>4. Tail(ids) \in Seq(I) /\ Len(Tail(ids)) = Len(seen)
      BY <3>1, <3>2, <3>3, HeadTailProperties
    <3>5. seen' \in Seq(I) /\ Len(seen') <= SeenLimit
      BY <2>1, <3>1, <3>2, <3>4
    <3> QED BY <3>5 DEF SeenIds, I
  <2>3. e.type \in Types
        /\ Status(e) \in {"OPEN", "CLEARED", "RECORDED", "DONE", "FAILED", "ACKED", "PENDING"}
    BY EventTexts
  <2>4. /\ Bell(notices')
        /\ \A n \in NoticeOf(notices) \ NoticeOf(notices') :
             \/ Ends(e.type, Status(e)) /\ (src = "ALL" \/ n.src = src)
             \/ Len(notices') = NoticeLimit
    <3> DEFINE st == Status(e)
               ty == e.type
    <3>1. /\ ty \in Types /\ Log(ty, src, st)
          /\ st \in {"OPEN", "CLEARED", "RECORDED", "DONE", "FAILED", "ACKED", "PENDING"}
      BY <2>1, <2>3
    <3> HIDE DEF st, ty
    <3> HIDE DEF st, ty
    <3>2. /\ Bell(notices')
          /\ \A n \in NoticeOf(notices) \ NoticeOf(notices') :
               \/ Ends(ty, st) /\ (src = "ALL" \/ n.src = src)
               \/ Len(notices') = NoticeLimit
      BY <3>1, LogKeeps
    <3> QED BY <3>2 DEF st, ty
  <2>5. Ends(e.type, Status(e)) => Status(e) = "CLEARED"
    BY EventTexts DEF Ends
  <2> QED BY <2>2, <2>4, <2>5
<1> QED BY <1>1, <1>2

(* A slot that holds, or None.                                             *)
LEMMA SlotsTyped ==
  ASSUME Board
  PROVE  \A s \in Slots : slots[s] = None \/ slots[s] \in SlotType
BY DEF Board

(* A parking event of a mapped slot.                                       *)
LEMMA ParkingEventKeeps ==
  ASSUME BoardInv, NEW e \in Events, ParkingEvent(e)
  PROVE  /\ BoardInv'
         /\ \A n \in NoticeOf(notices) \ NoticeOf(notices') :
              \/ n.src \in Slots /\ (slots'[n.src] = None \/ slots'[n.src].alarm = "None")
              \/ Len(notices') = NoticeLimit
<1>1. /\ e.slot \in Slots /\ slots' = [slots EXCEPT ![e.slot] = NextSlot(e, slots[e.slot])]
      /\ banner' = Refreshed(slots', fire) /\ fire' = fire
      /\ RecordServerEvent(e, e.slot)
  BY DEF ParkingEvent
<1>2. slots[e.slot] = None \/ slots[e.slot] \in SlotType
  BY <1>1, SlotsTyped DEF BoardInv
<1>3. /\ \A s \in Slots : slots'[s] = IF s = e.slot THEN NextSlot(e, slots[e.slot]) ELSE slots[s]
      /\ DOMAIN slots' = Slots /\ slots' = [s \in Slots |-> slots'[s]]
  BY <1>1 DEF BoardInv, Board
<1>4. \A s \in Slots : slots'[s] = None \/ Agrees(slots'[s])
  BY <1>2, <1>3, NextSlotAgrees, BoardBySlot DEF BoardInv
<1>5. slots' \in [Slots -> SlotType \cup {None}]
  BY <1>3, <1>4 DEF Agrees
<1>6. Board' /\ StateTellsVisual'
  BY <1>4, <1>5, BoardBySlot
<1>7. Signs'
  BY <1>1, RefreshedIsSign DEF BoardInv, Signs
<1>8. /\ SeenIds' /\ Bell(notices')
      /\ \A n \in NoticeOf(notices) \ NoticeOf(notices') :
           \/ Status(e) = "CLEARED" /\ (e.slot = "ALL" \/ n.src = e.slot)
           \/ Len(notices') = NoticeLimit
  <2>1. e.slot \in Logged
    BY <1>1 DEF Logged
  <2> QED BY <1>1, <2>1, RecordKeeps DEF BoardInv
<1>9. e.slot # "ALL"
  BY <1>1, BoardConstants
<1>10. Status(e) = "CLEARED" => slots'[e.slot] = None \/ slots'[e.slot].alarm = "None"
  BY <1>1, <1>2, <1>3, NextSlotAgrees
<1>11. BoardInv'
  <2>1. BoardInv' = (Board' /\ Signs' /\ SeenIds' /\ Bell(notices') /\ StateTellsVisual')
    BY DEF BoardInv, Bell, Named
  <2> QED BY <1>6, <1>7, <1>8, <2>1
<1> QED BY <1>1, <1>8, <1>9, <1>10, <1>11

(* A sensor event of a slot that is not mapped.                            *)
LEMMA UnmappedSensorKeeps ==
  ASSUME BoardInv, NEW e \in Events, UnmappedSensor(e)
  PROVE  /\ BoardInv'
         /\ \A n \in NoticeOf(notices) \ NoticeOf(notices') :
              n.src \notin Slots \/ Len(notices') = NoticeLimit
<1>1. RecordServerEvent(e, "SYSTEM") /\ slots' = slots /\ fire' = fire /\ banner' = banner
  BY DEF UnmappedSensor
<1>2. /\ SeenIds' /\ Bell(notices')
      /\ \A n \in NoticeOf(notices) \ NoticeOf(notices') :
           \/ Status(e) = "CLEARED" /\ ("SYSTEM" = "ALL" \/ n.src = "SYSTEM")
           \/ Len(notices') = NoticeLimit
  <2>1. "SYSTEM" \in Logged
    BY DEF Logged
  <2> QED BY <1>1, <2>1, RecordKeeps DEF BoardInv
<1>3. "SYSTEM" \notin Slots
  BY BoardConstants
<1>4. Board' /\ StateTellsVisual'
  <2>1. slots' \in [Slots -> SlotType \cup {None}]
    BY <1>1 DEF BoardInv, Board
  <2> QED BY <1>1, <2>1, BoardBySlot DEF BoardInv
<1>5. Signs'
  BY <1>1 DEF BoardInv, Signs
<1>6. BoardInv'
  <2>1. BoardInv' = (Board' /\ Signs' /\ SeenIds' /\ Bell(notices') /\ StateTellsVisual')
    BY DEF BoardInv, Bell, Named
  <2> QED BY <1>2, <1>4, <1>5, <2>1
<1> QED BY <1>2, <1>3, <1>6

(* A step that logs a fixed event, of no mapped slot or of no resolution,  *)
(* and leaves the seen events alone.                                       *)
LEMMA LoggedStepKeeps ==
  ASSUME BoardInv, Board', StateTellsVisual', Signs', seen' = seen,
         NEW src \in Logged, NEW type \in Types,
         NEW status \in {"OPEN", "CLEARED", "RECORDED", "DONE", "FAILED", "ACKED", "PENDING"},
         Log(type, src, status)
  PROVE  /\ BoardInv'
         /\ \A n \in NoticeOf(notices) \ NoticeOf(notices') :
              \/ Ends(type, status) /\ (src = "ALL" \/ n.src = src)
              \/ Len(notices') = NoticeLimit
<1>1. SeenIds'
  BY DEF BoardInv, SeenIds
<1>2. BoardInv' = (Board' /\ Signs' /\ SeenIds' /\ Bell(notices') /\ StateTellsVisual')
  BY DEF BoardInv, Bell, Named
<1>3. Bell(notices)
  BY DEF BoardInv
<1>4. /\ Bell(notices')
      /\ \A n \in NoticeOf(notices) \ NoticeOf(notices') :
           \/ Ends(type, status) /\ (src = "ALL" \/ n.src = src)
           \/ Len(notices') = NoticeLimit
  BY <1>3, LogKeeps
<1> QED BY <1>1, <1>2, <1>4

(* Every type that the client logs itself is a type of the list, and none  *)
(* of those that are logged with these states resolves anything.           *)
LEMMA LoggedTypes ==
  /\ {"API_SYNC", "API_ERROR", "ALARM_ACK", "NON_EV_ALERT", "OVERTIME_ALERT", "FIRE_SUSPECTED",
      "FIRE_CLEARED", "FIRE_ACK_REQUESTED", "FIRE_ACK_PUBLISH_FAILED"} \subseteq Types
  /\ {"ALL", "SYSTEM", "CH"} \subseteq Logged /\ Slots \subseteq Logged
  /\ \A type \in {"API_SYNC", "API_ERROR", "NON_EV_ALERT", "OVERTIME_ALERT"},
        status \in {"OPEN", "DONE", "FAILED"} : ~Ends(type, status)
BY DEF Types, Fire, Violations, Logged, Ends

(* A snapshot.                                                             *)
LEMMA SnapshotKeeps ==
  ASSUME BoardInv, Snapshot
  PROVE  /\ BoardInv'
         /\ \A n \in NoticeOf(notices) \ NoticeOf(notices') : Len(notices') = NoticeLimit
         /\ \A s \in Held :
              slots'[s] # None /\ slots'[s].occ = "Occupied" /\ slots[s].alarm # "None"
                 => /\ slots'[s].alarm = slots[s].alarm
                    /\ slots[s].acked => slots'[s].acked
<1>1. PICK said \in [Slots -> Reports \cup {None}] :
         slots' = [s \in Slots |-> IF said[s] = None THEN None ELSE Applied(slots[s], said[s])]
  BY DEF Snapshot
<1>2. /\ banner' = Refreshed(slots', fire) /\ fire' = fire /\ seen' = seen
      /\ Log("API_SYNC", "SYSTEM", "DONE")
  BY DEF Snapshot
<1>3. \A s \in Slots : slots[s] = None \/ slots[s] \in SlotType
  BY SlotsTyped DEF BoardInv
<1>4. \A s \in Slots : slots'[s] = None
                         \/ (said[s] \in Reports /\ slots'[s] = Applied(slots[s], said[s]))
  BY <1>1
<1>5. \A s \in Slots : slots'[s] = None \/ Agrees(slots'[s])
  BY <1>3, <1>4, AppliedAgrees
<1>6. slots' \in [Slots -> SlotType \cup {None}]
  <2>1. slots' = [s \in Slots |-> slots'[s]]
    BY <1>1
  <2> QED BY <1>5, <2>1 DEF Agrees
<1>7. Board' /\ StateTellsVisual'
  BY <1>5, <1>6, BoardBySlot
<1>8. Signs'
  BY <1>2, RefreshedIsSign DEF BoardInv, Signs
<1>9. BoardInv' /\ \A n \in NoticeOf(notices) \ NoticeOf(notices') : Len(notices') = NoticeLimit
  BY <1>2, <1>7, <1>8, LoggedStepKeeps, LoggedTypes
<1>10. \A s \in Held :
          slots'[s] # None /\ slots'[s].occ = "Occupied" /\ slots[s].alarm # "None"
             => /\ slots'[s].alarm = slots[s].alarm
                /\ slots[s].acked => slots'[s].acked
  <2> SUFFICES ASSUME NEW s \in Slots, slots[s] # None, slots'[s] # None,
                      slots'[s].occ = "Occupied", slots[s].alarm # "None"
               PROVE  /\ slots'[s].alarm = slots[s].alarm
                      /\ slots[s].acked => slots'[s].acked
    BY DEF Held
  <2>1. slots[s] \in SlotType /\ said[s] \in Reports /\ slots'[s] = Applied(slots[s], said[s])
    BY <1>3, <1>4
  <2> QED BY <2>1, AppliedAgrees
<1> QED BY <1>9, <1>10

(* A poll that fails changes the banner and the list.                      *)
LEMMA PollFailsKeeps ==
  ASSUME BoardInv, PollFails
  PROVE  /\ BoardInv'
         /\ \A n \in NoticeOf(notices) \ NoticeOf(notices') : Len(notices') = NoticeLimit
<1>1. /\ banner' = "server" /\ slots' = slots /\ fire' = fire /\ seen' = seen
      /\ Log("API_ERROR", "SYSTEM", "FAILED")
  BY DEF PollFails
<1>2. Board' /\ StateTellsVisual'
  <2>1. slots' \in [Slots -> SlotType \cup {None}]
    BY <1>1 DEF BoardInv, Board
  <2> QED BY <1>1, <2>1, BoardBySlot DEF BoardInv
<1>3. Signs'
  BY <1>1 DEF BoardInv, Signs
<1> QED BY <1>1, <1>2, <1>3, LoggedStepKeeps, LoggedTypes

(* After the acknowledgement of all alarms none is open and unanswered.    *)
LEMMA ClearAlarmsKeeps ==
  ASSUME BoardInv, ClearAlarms
  PROVE  /\ BoardInv'
         /\ \A s \in Slots : slots'[s] = None \/ slots'[s].alarm = "None" \/ slots'[s].acked
<1>1. /\ slots' = [s \in Slots |-> IF s \in Unanswered(slots)
                                   THEN [slots[s] EXCEPT !.state = "Acked", !.acked = TRUE]
                                   ELSE slots[s]]
      /\ banner' = Refreshed(slots', fire) /\ fire' = fire /\ seen' = seen
      /\ Log("ALARM_ACK", "ALL", "ACKED")
  BY DEF ClearAlarms
<1>2. \A s \in Slots : slots[s] = None \/ Agrees(slots[s])
  BY BoardBySlot DEF BoardInv
<1>3. \A s \in Slots :
         slots'[s] = None \/ (/\ Agrees(slots'[s])
                              /\ slots'[s].alarm = "None" \/ slots'[s].acked)
  <2> SUFFICES ASSUME NEW s \in Slots, slots'[s] # None
               PROVE  /\ Agrees(slots'[s])
                      /\ slots'[s].alarm = "None" \/ slots'[s].acked
    OBVIOUS
  <2>1. CASE s \in Unanswered(slots)
    <3>1. slots[s] \in SlotType
      BY <1>2, <2>1 DEF Unanswered, Agrees
    <3>2. slots'[s] = [state |-> "Acked", occ |-> slots[s].occ, alarm |-> slots[s].alarm,
                       acked |-> TRUE]
      <4>1. slots'[s] = [slots[s] EXCEPT !.state = "Acked", !.acked = TRUE]
        BY <1>1, <2>1
      <4> QED BY <3>1, <4>1, SlotByFields DEF SlotType
    <3>3. slots'[s].acked
      BY <3>2
    <3>4. Agrees(slots'[s])
      <4>1. slots[s].occ \in {"Unknown", "Vacant", "Occupied"}
            /\ slots[s].alarm \in Alarms \cup {"None"}
        BY <3>1, SlotByFields
      <4>2. Agrees([state |-> "Acked", occ |-> slots[s].occ, alarm |-> slots[s].alarm,
                    acked |-> TRUE])
        BY <4>1, SlotByFields
      <4> QED BY <3>2, <4>2
    <3> QED BY <3>3, <3>4
  <2>2. CASE s \notin Unanswered(slots)
    <3>1. slots'[s] = slots[s]
      BY <1>1, <2>2
    <3>2. slots[s].alarm = "None" \/ slots[s].acked
      BY <2>2, <3>1 DEF Unanswered
    <3> QED BY <1>2, <3>1, <3>2
  <2> QED BY <2>1, <2>2
<1>4. slots' \in [Slots -> SlotType \cup {None}]
  <2>1. slots' = [s \in Slots |-> slots'[s]]
    BY <1>1
  <2> QED BY <1>3, <2>1 DEF Agrees
<1>5. Board' /\ StateTellsVisual'
  BY <1>3, <1>4, BoardBySlot
<1>6. Signs'
  BY <1>1, RefreshedIsSign DEF BoardInv, Signs
<1>7. BoardInv'
  BY <1>1, <1>5, <1>6, LoggedStepKeeps, LoggedTypes
<1> QED BY <1>3, <1>7

(* A simulated alarm.                                                      *)
LEMMA SimulateKeeps ==
  ASSUME BoardInv, NEW s \in Slots, NEW kind \in {"NonEv", "Overstay"}, Simulate(s, kind)
  PROVE  /\ BoardInv'
         /\ \A n \in NoticeOf(notices) \ NoticeOf(notices') : Len(notices') = NoticeLimit
<1>1. /\ slots' = [slots EXCEPT ![s] = Derived(kind, kind)]
      /\ banner' = Refreshed(slots', fire) /\ fire' = fire /\ seen' = seen
      /\ Log(IF kind = "NonEv" THEN "NON_EV_ALERT" ELSE "OVERTIME_ALERT", s, "OPEN")
  BY DEF Simulate
<1>2. \A x \in Slots : slots'[x] = IF x = s THEN Derived(kind, kind) ELSE slots[x]
  BY <1>1 DEF BoardInv, Board
<1>3. Agrees(Derived(kind, kind))
  BY DerivedAgrees DEF Alarms
<1>4. \A x \in Slots : slots'[x] = None \/ Agrees(slots'[x])
  BY <1>2, <1>3, BoardBySlot DEF BoardInv
<1>5. slots' \in [Slots -> SlotType \cup {None}]
  <2>1. slots' = [x \in Slots |-> slots'[x]]
    BY <1>1 DEF BoardInv, Board
  <2> QED BY <1>4, <2>1 DEF Agrees
<1>6. Board' /\ StateTellsVisual'
  BY <1>4, <1>5, BoardBySlot
<1>7. Signs'
  BY <1>1, RefreshedIsSign DEF BoardInv, Signs
<1> DEFINE type == IF kind = "NonEv" THEN "NON_EV_ALERT" ELSE "OVERTIME_ALERT"
<1>8. Log(type, s, "OPEN") /\ type \in {"NON_EV_ALERT", "OVERTIME_ALERT"}
  BY <1>1
<1> HIDE DEF type
<1>9. type \in Types /\ s \in Logged /\ ~Ends(type, "OPEN")
  BY <1>8, LoggedTypes
<1> QED BY <1>1, <1>6, <1>7, <1>8, <1>9, LoggedStepKeeps

(* What the list hears of fires concerns a channel.                        *)
LEMMA FireKeeps ==
  ASSUME BoardInv, FireChange \/ FireAnswer
  PROVE  /\ BoardInv'
         /\ \A n \in NoticeOf(notices) \ NoticeOf(notices') :
              n.src \notin Slots \/ Len(notices') = NoticeLimit
<1>1. slots' = slots /\ seen' = seen
  BY DEF FireChange, FireAnswer
<1>2. Board' /\ StateTellsVisual'
  <2>1. slots' \in [Slots -> SlotType \cup {None}]
    BY <1>1 DEF BoardInv, Board
  <2> QED BY <1>1, <2>1, BoardBySlot DEF BoardInv
<1>3. Signs'
  <2>1. CASE FireChange
    <3>1. fire' = ~fire /\ banner' = Refreshed(slots, fire')
      BY <2>1 DEF FireChange
    <3> QED BY <3>1, RefreshedIsSign DEF BoardInv, Signs
  <2>2. CASE FireAnswer
    BY <2>2 DEF FireAnswer, BoardInv, Signs
  <2> QED BY <2>1, <2>2
<1>4. "CH" \in Logged /\ "CH" # "ALL" /\ "CH" \notin Slots
  BY BoardConstants DEF Logged
<1>5. \E type \in Types, status \in {"OPEN", "CLEARED", "RECORDED", "DONE", "FAILED", "ACKED",
                                     "PENDING"} : Log(type, "CH", status)
  <2>1. CASE FireChange
    <3>1. CASE fire'
      BY <2>1, <3>1, LoggedTypes DEF FireChange
    <3>2. CASE ~fire'
      BY <2>1, <3>2, LoggedTypes DEF FireChange
    <3> QED BY <3>1, <3>2
  <2>2. CASE FireAnswer
    BY <2>2, LoggedTypes DEF FireAnswer
  <2> QED BY <2>1, <2>2
<1>6. PICK type \in Types : \E status \in {"OPEN", "CLEARED", "RECORDED", "DONE", "FAILED",
                                           "ACKED", "PENDING"} : Log(type, "CH", status)
  BY <1>5
<1>7. PICK status \in {"OPEN", "CLEARED", "RECORDED", "DONE", "FAILED", "ACKED", "PENDING"} :
        Log(type, "CH", status)
  BY <1>6
<1>8. /\ BoardInv'
      /\ \A n \in NoticeOf(notices) \ NoticeOf(notices') :
           n.src = "CH" \/ Len(notices') = NoticeLimit
  BY <1>1, <1>2, <1>3, <1>4, <1>7, LoggedStepKeeps
<1> QED BY <1>4, <1>8

(* A request for details and its answer change the banner, and a step of   *)
(* somebody else changes nothing.                                          *)
LEMMA OthersKeep ==
  ASSUME BoardInv, RequestDetails \/ DetailsAnswered \/ UNCHANGED boardVars
  PROVE  BoardInv' /\ notices' = notices
<1>1. slots' = slots /\ fire' = fire /\ seen' = seen /\ notices' = notices
  BY DEF RequestDetails, DetailsAnswered, boardVars
<1>2. banner' \in {"hidden", "alarms", "server"}
  BY RefreshedIsSign DEF RequestDetails, DetailsAnswered, boardVars, BoardInv, Signs
<1>3. Board' /\ StateTellsVisual'
  <2>1. slots' \in [Slots -> SlotType \cup {None}]
    BY <1>1 DEF BoardInv, Board
  <2> QED BY <1>1, <2>1, BoardBySlot DEF BoardInv
<1>4. Signs' /\ SeenIds' /\ Bell(notices')
  BY <1>1, <1>2 DEF BoardInv, Signs, SeenIds
<1>5. BoardInv' = (Board' /\ Signs' /\ SeenIds' /\ Bell(notices') /\ StateTellsVisual')
  BY DEF BoardInv, Bell, Named
<1> QED BY <1>1, <1>3, <1>4, <1>5

-----------------------------------------------------------------------------
(* The theorems.                                                           *)

(* Every step keeps the invariant, and a notification about a slot goes    *)
(* only with its alarm, or because the list is full.                       *)
LEMMA BoardStep ==
  ASSUME BoardInv, [BoardNext]_boardVars
  PROVE  /\ BoardInv'
         /\ \A n \in NoticeOf(notices) \ NoticeOf(notices') :
              \/ n.src \notin Slots
              \/ slots'[n.src] = None
              \/ slots'[n.src].alarm = "None" \/ slots'[n.src].acked
              \/ Len(notices') = NoticeLimit
<1>1. CASE \E e \in Events : ParkingEvent(e)
  BY <1>1, ParkingEventKeeps
<1>2. CASE \E e \in Events : UnmappedSensor(e)
  BY <1>2, UnmappedSensorKeeps
<1>3. CASE Snapshot
  BY <1>3, SnapshotKeeps
<1>4. CASE PollFails
  BY <1>4, PollFailsKeeps
<1>5. CASE ClearAlarms
  BY <1>5, ClearAlarmsKeeps
<1>6. CASE \E s \in Slots, k \in {"NonEv", "Overstay"} : Simulate(s, k)
  BY <1>6, SimulateKeeps
<1>7. CASE FireChange \/ FireAnswer
  BY <1>7, FireKeeps
<1>8. CASE RequestDetails \/ DetailsAnswered \/ UNCHANGED boardVars
  BY <1>8, OthersKeep
<1> QED BY <1>1, <1>2, <1>3, <1>4, <1>5, <1>6, <1>7, <1>8 DEF BoardNext, Polled

(* The inductive invariant: every slot, whatever events, polls,            *)
(* acknowledgements and simulations have made of it, has a state that      *)
(* tells its visual state, and the list names no notification twice.       *)
THEOREM BoardInvariant == BoardSpec => []BoardInv
<1>1. BoardInit => BoardInv
  BY BoardStarts
<1>2. BoardInv /\ [BoardNext]_boardVars => BoardInv'
  BY BoardStep
<1> QED BY <1>1, <1>2, PTL DEF BoardSpec

(* The evidence page and the texts show the same slot as the map and the   *)
(* alerts (SlotState against SlotVisualState), the seen events and the     *)
(* list keep to their limits, and no event is listed twice behind the bell.*)
THEOREM BoardIsConsistent == BoardSpec => []BoardConsistent
<1>1. BoardInv => BoardConsistent
  BY DEF BoardInv, Board, Signs, SeenIds, Bell, Named, BoardConsistent, BoardTypeOK
<1> QED BY <1>1, BoardInvariant, PTL

(* A poll neither ends nor reopens the alarm of a slot that stays occupied *)
(* (persistentAlarm of applyParkingSnapshot), whatever the server says.    *)
THEOREM AlarmsOutlivePolls == BoardSpec => AlarmsSurvivePolls
<1>1. BoardInv /\ [BoardNext]_boardVars
        => [Snapshot =>
              \A s \in Held :
                  slots'[s] # None /\ slots'[s].occ = "Occupied" /\ slots[s].alarm # "None"
                     => /\ slots'[s].alarm = slots[s].alarm
                        /\ slots[s].acked => slots'[s].acked]_boardVars
  BY SnapshotKeeps
<1> QED BY <1>1, BoardInvariant, PTL DEF BoardSpec, AlarmsSurvivePolls

(* The bell forgets an alarm of a slot only when the board has ended it,   *)
(* the operator acknowledged it, or newer notifications push it out: the   *)
(* rules of NotificationPolicy, by the names of events, agree with those   *)
(* of applyServerParkingEvent, by their fields.                            *)
THEOREM NoticesGoWithAlarms == BoardSpec => NoticeGoesWithAlarm
<1>1. BoardInv /\ [BoardNext]_boardVars
        => [\A n \in NoticeOf(notices) \ NoticeOf(notices') :
               \/ n.src \notin Slots
               \/ slots'[n.src] = None
               \/ slots'[n.src].alarm = "None" \/ slots'[n.src].acked
               \/ Len(notices') = NoticeLimit]_boardVars
  BY BoardStep
<1> QED BY <1>1, BoardInvariant, PTL DEF BoardSpec, NoticeGoesWithAlarm
=============================================================================
