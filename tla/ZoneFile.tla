------------------------------ MODULE ZoneFile ------------------------------
(***************************************************************************)
(* The parking-map layout as the program keeps it in memory and in its     *)
(* file: models/parkingzonelayout.cpp (what is written, and what is read   *)
(* back) and the two passes of pages/parkingmappage.cpp that come before   *)
(* every write, syncZonesFromItems and validateLayout.                     *)
(*                                                                         *)
(* A zone is one parking slot of the map.  Its rectangle matters in two    *)
(* ways only: the channel panel its centre lies in and whether it lies     *)
(* wholly inside it.  Names, types and sensors are written and read back   *)
(* unchanged and are left out.  Of the overview, one channel of each       *)
(* camera is kept.                                                         *)
(***************************************************************************)
EXTENDS Integers, Sequences

CONSTANTS Cameras,    \* the preview cameras of the overview
          MaxSlots,   \* the largest slot count of an overview channel
          IdWords     \* what the id of a zone begins with, before its number

ASSUME OverviewAssumption == MaxSlots \in Nat \ {0} /\ Cameras # {}
ASSUME IdAssumption == {"", "EV", "P"} \subseteq IdWords

Channels == {"CH1", "CH2", "CH3", "CH4"}
ParkingChannels == {"CH1", "CH3"}
Areas == 1..4                       \* "IVA1" to "IVA4"; 0 is no area
NoId == <<"", 0>>
LeastOf(S) == CHOOSE x \in S : \A y \in S : x <= y

(* The rectangles: those of the operator's fixed slots, and the one that   *)
(* an entry without coordinates gets, at the corner of the canvas.         *)
FixedRect(ch) == [panel |-> ch, inside |-> TRUE]
IsFixed(ch, order) == ch \in ParkingChannels /\ order \in 1..4
CornerRect == [panel |-> "CH1", inside |-> FALSE]

DefaultZones ==
  LET Row(prefix, ch) ==
        [i \in 1..4 |-> [id |-> <<prefix, i>>, ch |-> ch, order |-> 5 - i,
                         area |-> i, rect |-> FixedRect(ch)]]
  IN  Row("EV", "CH1") \o Row("P", "CH3")

(* A zone of the map, or an entry of a file before it is read.             *)
RectType == [panel : Channels \cup {"none"}, inside : BOOLEAN]
ZoneType ==
  [id : IdWords \X Nat, ch : Channels, order : Int, area : Int, rect : RectType]

(* One channel of the overview: its role, and a slot count for parking.    *)
Bounded(n) == IF n < 1 THEN 1 ELSE IF n > MaxSlots THEN MaxSlots ELSE n
ChannelLayout(role, slots) ==
  [role |-> role, slots |-> IF role = "PARKING" THEN Bounded(slots) ELSE 0]
Roles == {"HIDDEN", "PARKING", "EXIT"}
DefaultOverview == [c \in Cameras |-> ChannelLayout("PARKING", 4)]

-----------------------------------------------------------------------------
(* Writing: version 3 of the file keeps no coordinates.                    *)

ZoneToFile(zone) == [zone EXCEPT !.rect = CornerRect]
OverviewToFile(overview) ==
  [c \in Cameras |-> ChannelLayout(overview[c].role, overview[c].slots)]

Stored(zones, overview) ==
  [kind |-> "text",
   entries |-> [i \in DOMAIN zones |-> ZoneToFile(zones[i])],
   overview |-> OverviewToFile(overview)]

(* Reading: an entry without an order takes the next one of its channel, a *)
(* fixed slot its own rectangle, and an entry without an id is dropped.    *)
ZoneFromFile(e, order) ==
  [e EXCEPT !.order = order,
            !.rect = IF IsFixed(e.ch, order) THEN FixedRect(e.ch) ELSE @,
            !.area = IF @ \in Areas THEN @ ELSE 0]
OverviewFromFile(overview) ==
  [c \in Cameras |-> ChannelLayout(overview[c].role, overview[c].slots)]

TakeEntry(acc, e) ==
  LET order == IF e.order <= 0 THEN acc.last[e.ch] + 1 ELSE e.order
  IN  [zones |-> IF e.id = NoId THEN acc.zones
                 ELSE Append(acc.zones, ZoneFromFile(e, order)),
       last |-> [acc.last EXCEPT ![e.ch] = IF order > @ THEN order ELSE @]]
Read(entries) ==
  LET taken[n \in 0..Len(entries)] ==
        IF n = 0 THEN [zones |-> <<>>, last |-> [ch \in Channels |-> 0]]
        ELSE TakeEntry(taken[n - 1], entries[n])
  IN  taken[Len(entries)].zones

UsedAreas(zones, ch) ==
  {zones[i].area : i \in {j \in DOMAIN zones : zones[j].ch = ch}}

FillArea(zones, i) ==
  LET free == Areas \ UsedAreas(zones, zones[i].ch)
  IN  IF zones[i].area # 0 \/ free = {} THEN zones
      ELSE [zones EXCEPT ![i].area = LeastOf(free)]
FillMissingAreas(zones) ==
  LET filled[n \in 0..Len(zones)] == IF n = 0 THEN zones ELSE FillArea(filled[n - 1], n)
  IN  filled[Len(zones)]

(* The zones of the channels that the page shows.                          *)
ParkingOnly(zones) ==
  LET kept[n \in 0..Len(zones)] ==
        IF n = 0 THEN <<>>
        ELSE IF zones[n].ch \in ParkingChannels THEN Append(kept[n - 1], zones[n])
        ELSE kept[n - 1]
  IN  kept[Len(zones)]

(* What the page shows after it has loaded this file.                      *)
Loaded(file) ==
  LET found == Read(file.entries)
      parking == ParkingOnly(FillMissingAreas(found))
  IN  IF file.kind # "text" \/ found = <<>>
      THEN [zones |-> DefaultZones, overview |-> DefaultOverview]
      ELSE [zones |-> IF parking = <<>> THEN DefaultZones ELSE parking,
            overview |-> OverviewFromFile(file.overview)]

-----------------------------------------------------------------------------
(* Before a write: the zones take the place of their items, and with it    *)
(* their channel and an area that is theirs.                               *)

(* The items are kept by zone id: of two zones with one id the later wins. *)
ItemRect(zones, id) ==
  zones[CHOOSE i \in DOMAIN zones :
          /\ zones[i].id = id
          /\ \A j \in DOMAIN zones : zones[j].id = id => j <= i].rect

AreasOfOthers(zones, ch, id) ==
  {zones[i].area : i \in {j \in DOMAIN zones : zones[j].ch = ch /\ zones[j].id # id}}

NextArea(zones, ch, id) ==
  LET free == Areas \ AreasOfOthers(zones, ch, id)
  IN  IF free = {} THEN 1 ELSE LeastOf(free)

SettleZone(zones, i) ==
  LET z == zones[i]
      rect == ItemRect(zones, z.id)
      seen == IF rect.panel \in Channels THEN rect.panel ELSE z.ch
      ch == IF seen \in ParkingChannels THEN seen ELSE "CH1"
      keeps == z.area \in Areas /\ z.area \notin AreasOfOthers(zones, ch, z.id)
  IN  [zones EXCEPT ![i] =
         [z EXCEPT !.rect = rect, !.ch = ch,
                   !.area = IF keeps THEN @ ELSE NextArea(zones, ch, z.id)]]
Synced(zones) ==
  LET settled[n \in 0..Len(zones)] == IF n = 0 THEN zones ELSE SettleZone(settled[n - 1], n)
  IN  settled[Len(zones)]

(* Mistake: any order of a channel is accepted.                            *)
ValidForAnyOrder(zones) ==
  /\ \A i \in DOMAIN zones :
       /\ zones[i].id # NoId
       /\ zones[i].ch \in ParkingChannels
       /\ zones[i].area \in Areas
       /\ ItemRect(zones, zones[i].id) = FixedRect(zones[i].ch)
  /\ \A i, j \in DOMAIN zones :
       i # j => /\ zones[i].id # zones[j].id
                /\ zones[i].ch = zones[j].ch => zones[i].area # zones[j].area

Valid(zones) ==
  /\ \A i \in DOMAIN zones :
       /\ zones[i].id # NoId
       /\ zones[i].ch \in ParkingChannels
       /\ zones[i].order \in 1..4
       /\ zones[i].area \in Areas
       /\ ItemRect(zones, zones[i].id) = FixedRect(zones[i].ch)
  /\ \A i, j \in DOMAIN zones :
       i # j => /\ zones[i].id # zones[j].id
                /\ zones[i].ch = zones[j].ch =>
                     /\ zones[i].order # zones[j].order
                     /\ zones[i].area # zones[j].area
=============================================================================
