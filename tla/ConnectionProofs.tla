-------------------------- MODULE ConnectionProofs --------------------------
(***************************************************************************)
(* Proofs about the two connections that begin anew by themselves: the     *)
(* poll of the server, ServerLink, and the stream of a camera, RtspVideo.  *)
(*                                                                         *)
(* ServerLink, for every set of thresholds and regions and every back-off: *)
(* its safety, and that it implements Poller.  LinkInv is its inductive    *)
(* invariant: the types, which request belongs to which flag and tag, what *)
(* is pending, what the pages wait for, and that either the timer runs or  *)
(* a snapshot is under way.                                                *)
(*                                                                         *)
(* RtspVideo, for any sources, any number of generations and any number of *)
(* frames: no picture of another stream is shown, no frame is stuck in the *)
(* slot, and one decoder runs at a time.  VInv is its inductive invariant. *)
(* It adds to the properties the type invariant by its parts, where the    *)
(* threads of old generations are (Threads), of which threads the frames   *)
(* under way are (Slot), and of which the queued reports are (Reports).    *)
(* There is a lemma for each of its conjuncts, with a step for each action.*)
(***************************************************************************)
EXTENDS ServerLink, RtspVideo, TLAPS

-----------------------------------------------------------------------------
(* The inductive invariant of ServerLink.                                  *)

\* What a request and its flag say of one another.
OverstayKind(l) ==
    LET r == l.net["overstay"] IN
    r # Nothing =>
        /\ r.what = IF l.overstay = "update" THEN "put" ELSE "get"
        /\ r.what = "put" => r.value = l.seconds /\ r.value \in Thresholds
        /\ r.served => r.reply \in Thresholds

Belongs(t, r) == t.gen = r.gen /\ t.step = IF r.what = "roiPut" THEN "put" ELSE "verify"

RoiKind(l) ==
    LET r == l.net["roi"] IN
    /\ r # Nothing => /\ r.what \in {"roiPut", "roiGet"}
                      /\ r.what = "roiPut" => r.value \in Rois
                      /\ \E t \in l.tags : Belongs(t, r)
    /\ \A t, u \in l.tags : t = u

SnapshotKind(l) == l.net["snapshot"] # Nothing => l.net["snapshot"].what = "snapshot"

\* What is pending is under way, and conversely.
SnapshotPending(l) ==
    /\ l.net["snapshot"] # Nothing => l.flying \/ l.expired
    /\ ~l.expired /\ l.flying => l.net["snapshot"] # Nothing
OverstayPending(l) ==
    /\ l.net["overstay"] # Nothing => l.overstay # "none"
    /\ ~l.expired /\ l.overstay # "none" => l.net["overstay"] # Nothing
RoiPending(l) == ~l.expired /\ l.tags # {} => l.net["roi"] # Nothing

\* Polling goes on until the session expires.
PollingGoesOn(l) ==
    /\ l.expired => ~l.flying
    /\ ~l.expired => (l.flying <=> l.timer = 0)
    /\ l.told = l.connected
    /\ l.net["snapshot"] # Nothing => ~l.connected

OverstayOk(l) == OverstayKind(l) /\ OverstayPending(l)
RoiOk(l) == RoiKind(l) /\ RoiPending(l)
SnapshotOk(l) == SnapshotKind(l) /\ SnapshotPending(l) /\ PollingGoesOn(l)

LinkInv ==
    /\ LinkTypeOK
    /\ SnapshotOk(link) /\ OverstayOk(link) /\ RoiOk(link)
    /\ PagesWaitForLink
    /\ session = "on" => ~link.expired

\* The types of the link and of the pages.
LEMMA LinkTyped == LinkInv => link \in LinkType /\ page \in PageType
BY DEF LinkInv, LinkTypeOK

----------------------------------------------------------------------------
(* What the controller's functions return, field by field.                 *)

\* The fields of the overstay threshold, and those of the ROI, as they were.
SameOverstay(k, l) ==
    k.overstay = l.overstay /\ k.seconds = l.seconds /\ k.net["overstay"] = l.net["overstay"]
SameRoi(k, l) == k.tags = l.tags /\ k.net["roi"] = l.net["roi"]
SameSnapshot(k, l) ==
    /\ k.timer = l.timer /\ k.delay = l.delay /\ k.flying = l.flying
    /\ k.connected = l.connected /\ k.told = l.told
    /\ k.net["snapshot"] = l.net["snapshot"]

LEMMA DelaysAreBounded ==
    /\ BaseDelay \in Delays
    /\ \A d \in Delays : d # 0 /\ Doubled(d) \in Delays
BY LinkConstants DEF Delays, Doubled

LEMMA RequestTyped ==
    /\ Nothing \in RequestType
    /\ Request("snapshot", None, 0) \in RequestType
    /\ Request("get", None, 0) \in RequestType
    /\ \A s \in Thresholds : Request("put", s, 0) \in RequestType
    /\ \A r \in Rois, g \in 0..1 : Request("roiPut", r, g) \in RequestType
    /\ \A g \in 0..1 : Request("roiGet", None, g) \in RequestType
BY DEF Nothing, Request, RequestType

LEMMA RequestIsSomething ==
    ASSUME NEW w \in {"snapshot", "get", "put", "roiPut", "roiGet"}, NEW v, NEW g
    PROVE  Request(w, v, g) # Nothing /\ Request(w, v, g).what = w
           /\ Request(w, v, g).value = v /\ Request(w, v, g).gen = g
           /\ Request(w, v, g).served = (w = "snapshot")
BY DEF Request, Nothing

LEMMA NothingIsNothing == Nothing.what = "nothing" /\ ~Nothing.served
BY DEF Nothing

\* The request of ch becomes r, the rest stays.
LEMMA NetReplaced ==
    ASSUME NEW l \in LinkType, NEW ch \in Channels, NEW r \in RequestType
    PROVE  LET k == [l EXCEPT !.net[ch] = r] IN
           /\ k \in LinkType
           /\ k.net[ch] = r
           /\ \A c \in Channels : c # ch => k.net[c] = l.net[c]
           /\ k.expired = l.expired /\ k.timer = l.timer /\ k.delay = l.delay
           /\ k.flying = l.flying /\ k.connected = l.connected /\ k.told = l.told
           /\ k.overstay = l.overstay /\ k.seconds = l.seconds /\ k.tags = l.tags
BY DEF LinkType

\* ReconnectNow: nothing after the expiry, else a request is under way.
LEMMA Reconnects ==
    ASSUME NEW l \in LinkType
    PROVE  LET k == ReconnectNow(l) IN
           /\ k \in LinkType /\ SameOverstay(k, l) /\ SameRoi(k, l)
           /\ k.expired = l.expired /\ k.delay = l.delay
           /\ l.expired => k = l
           /\ ~l.expired =>
                 /\ k.timer = 0 /\ k.flying /\ ~k.told
                 /\ l.flying => k.connected = l.connected /\ k.net["snapshot"] = l.net["snapshot"]
                 /\ ~l.flying => ~k.connected
                                 /\ k.net["snapshot"] = Request("snapshot", None, 0)
<1>1. CASE l.expired
  BY <1>1 DEF ReconnectNow, SameOverstay, SameRoi
<1>2. CASE ~l.expired /\ l.flying
  BY <1>2 DEF ReconnectNow, SameOverstay, SameRoi, LinkType
<1>3. CASE ~l.expired /\ ~l.flying
  <2> DEFINE m == [l EXCEPT !.timer = 0, !.told = FALSE, !.connected = FALSE, !.flying = TRUE]
  <2>1. /\ m \in LinkType /\ m.timer = 0 /\ ~m.told /\ ~m.connected /\ m.flying
        /\ m.net = l.net /\ m.overstay = l.overstay /\ m.seconds = l.seconds
        /\ m.tags = l.tags /\ m.expired = l.expired /\ m.delay = l.delay
    BY DEF LinkType
  <2>2. ReconnectNow(l) = [m EXCEPT !.net["snapshot"] = Request("snapshot", None, 0)]
    BY <1>3 DEF ReconnectNow, Send
  <2> HIDE DEF m
  <2> QED
    BY <1>3, <2>1, <2>2, NetReplaced, RequestTyped DEF SameOverstay, SameRoi, Channels
<1> QED
  BY <1>1, <1>2, <1>3 DEF LinkType

\* ScheduleReconnect starts the timer, unless the session has expired.
LEMMA Schedules ==
    ASSUME NEW l \in LinkType
    PROVE  LET k == ScheduleReconnect(l) IN
           /\ k \in LinkType /\ SameOverstay(k, l) /\ SameRoi(k, l)
           /\ k.expired = l.expired /\ k.flying = l.flying /\ k.net = l.net
           /\ l.expired => k = l
           /\ ~l.expired => /\ k.timer = IF l.timer = 0 THEN l.delay ELSE l.timer
                            /\ k.delay = Doubled(l.delay)
                            /\ ~k.connected /\ ~k.told
BY DelaysAreBounded DEF ScheduleReconnect, SameOverstay, SameRoi, LinkType

\* ApplySnapshot starts the timer with the base delay.
LEMMA Applies ==
    ASSUME NEW l \in LinkType
    PROVE  LET k == ApplySnapshot(l) IN
           /\ k \in LinkType /\ SameOverstay(k, l) /\ SameRoi(k, l)
           /\ k.expired = l.expired /\ k.net = l.net /\ ~k.flying
           /\ k.timer = BaseDelay /\ k.delay = BaseDelay /\ k.connected /\ k.told
BY DelaysAreBounded DEF ApplySnapshot, SameOverstay, SameRoi, LinkType

\* Expire stops the timer.
LEMMA Expires ==
    ASSUME NEW l \in LinkType
    PROVE  LET k == Expire(l) IN
           /\ k \in LinkType /\ SameOverstay(k, l) /\ SameRoi(k, l)
           /\ k.expired /\ k.net = l.net /\ k.connected = l.connected /\ k.told = l.told
           /\ l.expired => k = l
           /\ ~l.expired => ~k.flying
BY DEF Expire, SameOverstay, SameRoi, LinkType

\* Rebuild forgets every request.
LEMMA Rebuilds ==
    ASSUME NEW l \in LinkType
    PROVE  LET k == Rebuild(l) IN
           /\ k \in LinkType /\ k.expired = l.expired
           /\ k.timer = 0 /\ k.delay = BaseDelay /\ ~k.flying /\ ~k.connected
           /\ k.overstay = "none" /\ k.seconds = None /\ k.tags = {}
           /\ \A ch \in Channels : k.net[ch] = Nothing
BY DelaysAreBounded, RequestTyped DEF Rebuild, EndOverstay, LinkType

\* EndOverstay touches the overstay fields only.
LEMMA OverstayEnds ==
    ASSUME NEW l \in LinkType
    PROVE  LET k == EndOverstay(l) IN
           /\ k \in LinkType /\ SameSnapshot(k, l) /\ SameRoi(k, l)
           /\ k.expired = l.expired /\ k.net = l.net
           /\ k.overstay = "none" /\ k.seconds = None
BY DEF EndOverstay, SameSnapshot, SameRoi, LinkType

----------------------------------------------------------------------------
(* What a step that leaves a part of the link alone preserves.             *)

LEMMA OverstayFrame ==
    ASSUME NEW l, NEW k, OverstayOk(l), SameOverstay(k, l), l.expired => k.expired
    PROVE  OverstayOk(k)
BY DEF OverstayOk, OverstayKind, OverstayPending, SameOverstay

LEMMA RoiFrame ==
    ASSUME NEW l, NEW k, RoiOk(l), SameRoi(k, l), l.expired => k.expired
    PROVE  RoiOk(k)
BY DEF RoiOk, RoiKind, RoiPending, SameRoi

LEMMA SnapshotFrame ==
    ASSUME NEW l, NEW k, SnapshotOk(l), SameSnapshot(k, l), k.expired = l.expired
    PROVE  SnapshotOk(k)
BY DEF SnapshotOk, SnapshotKind, SnapshotPending, PollingGoesOn, SameSnapshot

\* A step on the snapshot, the timer, the expiry, the server or the session.
LEMMA PollingStep ==
    ASSUME LinkInv, link' \in LinkType, SameOverstay(link', link), SameRoi(link', link),
           link.expired => link'.expired, SnapshotOk(link'), page' = page,
           pi' \in [threshold : Thresholds, roi : Rois],
           session' \in {"on", "asking", "over"}, session' = "on" => ~link'.expired
    PROVE  LinkInv'
<1>1. OverstayOk(link')
  BY OverstayFrame DEF LinkInv
<1>2. RoiOk(link')
  BY RoiFrame DEF LinkInv
<1>3. PagesWaitForLink'
  BY DEF LinkInv, PagesWaitForLink, SameOverstay, SameRoi
<1>4. LinkTypeOK'
  BY DEF LinkInv, LinkTypeOK
<1> QED
  BY <1>1, <1>2, <1>3, <1>4 DEF LinkInv

\* A step on the overstay threshold.
LEMMA OverstayStep ==
    ASSUME LinkInv, link' \in LinkType, SameSnapshot(link', link), SameRoi(link', link),
           link'.expired = link.expired, OverstayOk(link'), page' \in PageType,
           page'.roi = page.roi, page'.asked = page.asked, page'.gen = page.gen,
           page'.overstay = "busy" <=> link'.overstay # "none",
           link'.overstay = "update" => link'.seconds = page'.input,
           UNCHANGED <<pi, session>>
    PROVE  LinkInv'
<1>1. SnapshotOk(link')
  BY SnapshotFrame DEF LinkInv
<1>2. RoiOk(link')
  BY RoiFrame DEF LinkInv
<1>3. PagesWaitForLink'
  BY DEF LinkInv, PagesWaitForLink, SameRoi
<1>4. LinkTypeOK'
  BY DEF LinkInv, LinkTypeOK
<1> QED
  BY <1>1, <1>2, <1>3, <1>4 DEF LinkInv

\* A step on the region of interest.
LEMMA RoiStep ==
    ASSUME LinkInv, link' \in LinkType, SameSnapshot(link', link), SameOverstay(link', link),
           link'.expired = link.expired, RoiOk(link'), page' \in PageType,
           page'.overstay = page.overstay, page'.input = page.input,
           page'.roi = "busy" <=> link'.tags # {},
           \A t \in link'.tags : t.gen = page'.gen /\ t.expected = page'.asked,
           UNCHANGED <<pi, session>>
    PROVE  LinkInv'
<1>1. SnapshotOk(link')
  BY SnapshotFrame DEF LinkInv
<1>2. OverstayOk(link')
  BY OverstayFrame DEF LinkInv
<1>3. PagesWaitForLink'
  BY DEF LinkInv, PagesWaitForLink, SameOverstay
<1>4. LinkTypeOK'
  BY DEF LinkInv, LinkTypeOK
<1> QED
  BY <1>1, <1>2, <1>3, <1>4 DEF LinkInv

\* After ReconnectNow the link polls, if it did before or was just rebuilt.
LEMMA ReconnectPolls ==
    ASSUME NEW l \in LinkType, SnapshotKind(l),
           l.net["snapshot"] # Nothing => l.flying \/ l.expired,
           ~l.expired /\ l.flying => l.net["snapshot"] # Nothing,
           l.net["snapshot"] # Nothing => ~l.connected,
           l.expired => ~l.flying /\ l.told = l.connected
    PROVE  SnapshotOk(ReconnectNow(l))
<1> DEFINE k == ReconnectNow(l)
<1>1. CASE l.expired
  <2>1. k = l
    BY <1>1, Reconnects
  <2> QED
    BY <1>1, <2>1 DEF SnapshotOk, SnapshotPending, PollingGoesOn
<1>2. CASE ~l.expired
  <2>1. /\ k \in LinkType /\ ~k.expired /\ k.timer = 0 /\ k.flying /\ ~k.told
        /\ l.flying => k.connected = l.connected /\ k.net["snapshot"] = l.net["snapshot"]
        /\ ~l.flying => ~k.connected /\ k.net["snapshot"] = Request("snapshot", None, 0)
    BY <1>2, Reconnects
  <2>2. k.net["snapshot"] # Nothing /\ k.net["snapshot"].what = "snapshot" /\ ~k.connected
    BY <1>2, <2>1, RequestIsSomething DEF SnapshotKind
  <2>3. k.connected \in BOOLEAN /\ k.told \in BOOLEAN
    BY <2>1 DEF LinkType
  <2> HIDE DEF k
  <2>4. SnapshotOk(k)
    BY <2>1, <2>2, <2>3 DEF SnapshotOk, SnapshotKind, SnapshotPending, PollingGoesOn
  <2> QED
    BY <2>4 DEF k
<1> QED
  BY <1>1, <1>2

----------------------------------------------------------------------------
(* The actions preserve LinkInv.                                           *)

LEMMA InitHolds == LinkInit => LinkInv
<1> SUFFICES ASSUME LinkInit PROVE LinkInv
  OBVIOUS
<1>1. /\ link.net["snapshot"] = Request("snapshot", None, 0)
      /\ link.net["overstay"] = Nothing /\ link.net["roi"] = Nothing
  BY DEF LinkInit, Channels
<1>2. LinkTypeOK
  <2>1. link.net \in [Channels -> RequestType]
    BY RequestTyped DEF LinkInit
  <2> QED
    BY <2>1, DelaysAreBounded DEF LinkInit, LinkTypeOK, LinkType, PageType
<1>3. SnapshotOk(link)
  BY <1>1, RequestIsSomething DEF LinkInit, SnapshotOk, SnapshotKind, SnapshotPending, PollingGoesOn
<1>4. OverstayOk(link) /\ RoiOk(link) /\ PagesWaitForLink
  BY <1>1 DEF LinkInit, OverstayOk, OverstayKind, OverstayPending, RoiOk, RoiKind, RoiPending,
     PagesWaitForLink
<1> QED
  BY <1>2, <1>3, <1>4 DEF LinkInit, LinkInv

LEMMA PollTimerKeeps == LinkInv /\ PollTimer => LinkInv'
<1> SUFFICES ASSUME LinkInv, PollTimer PROVE LinkInv'
  OBVIOUS
<1> DEFINE l == [link EXCEPT !.timer = 0]
<1>1. l \in LinkType /\ SameOverstay(l, link) /\ SameRoi(l, link) /\ l.expired = link.expired
      /\ l.flying = link.flying /\ l.net = link.net /\ l.connected = link.connected
      /\ l.told = link.told
  BY DEF LinkInv, LinkTypeOK, LinkType, SameOverstay, SameRoi
<1>2. link' = ReconnectNow(l)
  BY DEF PollTimer
<1> HIDE DEF l
<1>3. SnapshotOk(link')
  BY <1>1, <1>2, ReconnectPolls
     DEF LinkInv, SnapshotOk, SnapshotKind, SnapshotPending, PollingGoesOn
<1>4. link' \in LinkType /\ SameOverstay(link', link) /\ SameRoi(link', link)
      /\ link'.expired = link.expired
  BY <1>1, <1>2, Reconnects DEF SameOverstay, SameRoi
<1> QED
  BY <1>3, <1>4, PollingStep DEF PollTimer, LinkInv, LinkTypeOK

LEMMA ReconnectButtonKeeps == LinkInv /\ ReconnectButton => LinkInv'
<1> SUFFICES ASSUME LinkInv, ReconnectButton PROVE LinkInv'
  OBVIOUS
<1>1. link \in LinkType /\ link' = ReconnectNow(link)
  BY DEF ReconnectButton, LinkInv, LinkTypeOK
<1>2. SnapshotOk(link')
  BY <1>1, ReconnectPolls DEF LinkInv, SnapshotOk, SnapshotPending, PollingGoesOn
<1>3. link' \in LinkType /\ SameOverstay(link', link) /\ SameRoi(link', link)
      /\ link'.expired = link.expired
  BY <1>1, Reconnects
<1> QED
  BY <1>2, <1>3, PollingStep DEF ReconnectButton, LinkInv, LinkTypeOK

LEMMA RefreshThresholdKeeps == LinkInv /\ RefreshThreshold => LinkInv'
<1> SUFFICES ASSUME LinkInv, RefreshThreshold PROVE LinkInv'
  OBVIOUS
<1>1. link \in LinkType /\ page \in PageType /\ link.overstay = "none"
  BY DEF LinkInv, LinkTypeOK, RefreshThreshold, PagesWaitForLink
<1> DEFINE l == [link EXCEPT !.overstay = "fetch"]
           r == Request("get", None, 0)
<1>2. l \in LinkType /\ SameSnapshot(l, link) /\ SameRoi(l, link)
      /\ l.expired = link.expired /\ l.overstay = "fetch"
  BY <1>1 DEF LinkType, SameSnapshot, SameRoi
<1>3. link' = [l EXCEPT !.net["overstay"] = r]
  BY <1>1 DEF RefreshThreshold, Send
<1>4. r \in RequestType /\ r # Nothing /\ r.what = "get" /\ ~r.served
  BY RequestTyped DEF Request, Nothing
<1>5. page' = [page EXCEPT !.overstay = "busy"] /\ UNCHANGED <<pi, session>>
  BY DEF RefreshThreshold
<1> HIDE DEF l, r
<1>6. /\ link' \in LinkType /\ SameSnapshot(link', link) /\ SameRoi(link', link)
      /\ link'.expired = link.expired
      /\ link'.overstay = "fetch" /\ link'.net["overstay"] = r
  BY <1>2, <1>3, <1>4, NetReplaced DEF SameSnapshot, SameRoi, Channels
<1>7. OverstayOk(link')
  BY <1>4, <1>6 DEF OverstayOk, OverstayKind, OverstayPending
<1> QED
  BY <1>1, <1>5, <1>6, <1>7, OverstayStep DEF PageType

LEMMA UpdateThresholdKeeps ==
    ASSUME LinkInv, NEW s \in Thresholds, UpdateThreshold(s)
    PROVE  LinkInv'
<1>1. link \in LinkType /\ page \in PageType /\ link.overstay = "none"
  BY DEF LinkInv, LinkTypeOK, UpdateThreshold, PagesWaitForLink
<1>2. link.connected
  BY DEF UpdateThreshold, LinkInv, SnapshotOk, PollingGoesOn
<1> DEFINE l == [link EXCEPT !.overstay = "update", !.seconds = s]
           r == Request("put", s, 0)
<1>3. l \in LinkType /\ SameSnapshot(l, link) /\ SameRoi(l, link)
      /\ l.expired = link.expired /\ l.overstay = "update" /\ l.seconds = s
  BY <1>1 DEF LinkType, SameSnapshot, SameRoi
<1>4. link' = [l EXCEPT !.net["overstay"] = r]
  BY <1>1, <1>2 DEF UpdateThreshold, Send
<1>5. r \in RequestType /\ r # Nothing /\ r.what = "put" /\ r.value = s /\ ~r.served
  BY RequestTyped DEF Request, Nothing
<1>6. page' = [page EXCEPT !.overstay = "busy", !.input = s] /\ UNCHANGED <<pi, session>>
  BY <1>1, <1>2 DEF UpdateThreshold
<1> HIDE DEF l, r
<1>7. /\ link' \in LinkType /\ SameSnapshot(link', link) /\ SameRoi(link', link)
      /\ link'.expired = link.expired
      /\ link'.overstay = "update" /\ link'.seconds = s /\ link'.net["overstay"] = r
  BY <1>3, <1>4, <1>5, NetReplaced DEF SameSnapshot, SameRoi, Channels
<1>8. OverstayOk(link')
  BY <1>5, <1>7 DEF OverstayOk, OverstayKind, OverstayPending
<1> QED
  BY <1>1, <1>6, <1>7, <1>8, OverstayStep DEF PageType

LEMMA OverstayAnsweredKeeps == LinkInv /\ OverstayAnswered => LinkInv'
<1> SUFFICES ASSUME LinkInv, OverstayAnswered PROVE LinkInv'
  OBVIOUS
<1> DEFINE l == Received(link, "overstay")
           s == link.net["overstay"].reply
<1>1. link \in LinkType /\ page \in PageType
  BY LinkTyped
<1>2. /\ l \in LinkType /\ SameSnapshot(l, link) /\ SameRoi(l, link)
      /\ l.expired = link.expired /\ l.net["overstay"] = Nothing
  BY <1>1, NetReplaced, RequestTyped DEF Received, SameSnapshot, SameRoi, Channels
<1>3. s \in Thresholds
  BY NothingIsNothing DEF OverstayAnswered, Answered, LinkInv, OverstayOk, OverstayKind
<1>4. link' = EndOverstay(l) /\ UNCHANGED <<pi, session>>
  BY DEF OverstayAnswered
<1>5. \/ page' = OverstayFailed(page)
      \/ \E u \in BOOLEAN : page' = ShowThreshold(page, s, u)
  BY DEF OverstayAnswered
<1> HIDE DEF l, s
<1>6. /\ page' \in PageType /\ page'.roi = page.roi /\ page'.asked = page.asked
      /\ page'.gen = page.gen /\ page'.overstay # "busy"
  <2>1. CASE page' = OverstayFailed(page)
    BY <1>1, <2>1 DEF OverstayFailed, PageType
  <2>2. ASSUME NEW u \in BOOLEAN, page' = ShowThreshold(page, s, u)
        PROVE  /\ page' \in PageType /\ page'.roi = page.roi /\ page'.asked = page.asked
               /\ page'.gen = page.gen /\ page'.overstay # "busy"
    BY <1>1, <1>3, <2>2 DEF ShowThreshold, PageType
  <2> QED BY <1>5, <2>1, <2>2
<1>7. /\ link' \in LinkType /\ SameSnapshot(link', link) /\ SameRoi(link', link)
      /\ link'.expired = link.expired /\ link'.overstay = "none"
      /\ link'.net["overstay"] = Nothing
  BY <1>2, <1>4, OverstayEnds DEF SameSnapshot, SameRoi
<1>8. OverstayOk(link')
  BY <1>7 DEF OverstayOk, OverstayKind, OverstayPending
<1> QED
  BY <1>4, <1>6, <1>7, <1>8, OverstayStep

LEMMA OverstayFailedKeeps == LinkInv /\ RequestFailed("overstay") => LinkInv'
<1> SUFFICES ASSUME LinkInv, RequestFailed("overstay") PROVE LinkInv'
  OBVIOUS
<1> DEFINE l == Received(link, "overstay")
<1>1. link \in LinkType /\ page \in PageType
  BY LinkTyped
<1>2. /\ l \in LinkType /\ SameSnapshot(l, link) /\ SameRoi(l, link)
      /\ l.expired = link.expired /\ l.net["overstay"] = Nothing
  BY <1>1, NetReplaced, RequestTyped DEF Received, SameSnapshot, SameRoi, Channels
<1>3. link' = EndOverstay(l) /\ page' = OverstayFailed(page) /\ UNCHANGED <<pi, session>>
  BY DEF RequestFailed, FailedLink, FailedPage
<1> HIDE DEF l
<1>4. /\ page' \in PageType /\ page'.roi = page.roi /\ page'.asked = page.asked
      /\ page'.gen = page.gen /\ page'.overstay # "busy"
  BY <1>1, <1>3 DEF OverstayFailed, PageType
<1>5. /\ link' \in LinkType /\ SameSnapshot(link', link) /\ SameRoi(link', link)
      /\ link'.expired = link.expired /\ link'.overstay = "none"
      /\ link'.net["overstay"] = Nothing
  BY <1>2, <1>3, OverstayEnds DEF SameSnapshot, SameRoi
<1>6. OverstayOk(link')
  BY <1>5 DEF OverstayOk, OverstayKind, OverstayPending
<1> QED
  BY <1>3, <1>4, <1>5, <1>6, OverstayStep

\* The one tag of the ROI request that is under way.
LEMMA OneTag ==
    ASSUME LinkInv, link.net["roi"] # Nothing
    PROVE  \E t \in TagType :
              /\ link.tags = {t} /\ TagOf(link) = {t} /\ Belongs(t, link.net["roi"])
              /\ t.gen = page.gen /\ t.expected = page.asked
              /\ page.roi = "busy" /\ Concerns(page, t)
<1>1. PICK t \in link.tags : Belongs(t, link.net["roi"])
  BY DEF LinkInv, RoiOk, RoiKind
<1>2. link.tags = {t}
  BY <1>1 DEF LinkInv, RoiOk, RoiKind
<1>3. TagOf(link) = {t}
  BY <1>1, <1>2 DEF TagOf, Belongs
<1>4. t \in TagType
  BY <1>1 DEF LinkInv, LinkTypeOK, LinkType
<1>5. t.gen = page.gen /\ t.expected = page.asked /\ page.roi = "busy"
  BY <1>2 DEF LinkInv, PagesWaitForLink
<1> QED
  BY <1>1, <1>2, <1>3, <1>4, <1>5 DEF Concerns

LEMMA SaveRoiKeeps ==
    ASSUME LinkInv, NEW v \in Rois, SaveRoi(v)
    PROVE  LinkInv'
<1> DEFINE g == NextGen(page.gen)
           t == Tag("put", g, v)
           l == [link EXCEPT !.tags = {t}]
           r == Request("roiPut", v, g)
<1>1. link \in LinkType /\ page \in PageType /\ link.tags = {} /\ g \in 0..1
  BY DEF LinkInv, LinkTypeOK, SaveRoi, PagesWaitForLink, NextGen, PageType
<1>2. t \in TagType /\ t.step = "put" /\ t.gen = g /\ t.expected = v
  BY <1>1 DEF Tag, TagType
<1>3. l \in LinkType /\ SameSnapshot(l, link) /\ SameOverstay(l, link)
      /\ l.expired = link.expired /\ l.tags = {t}
  BY <1>1, <1>2 DEF LinkType, SameSnapshot, SameOverstay
<1>4. link' = [l EXCEPT !.net["roi"] = r]
  BY <1>1 DEF SaveRoi, Send
<1>5. r \in RequestType /\ r # Nothing /\ r.what = "roiPut" /\ r.value = v /\ r.gen = g
  BY <1>1, RequestTyped, RequestIsSomething
<1>6. /\ page' = [page EXCEPT !.roi = "busy", !.asked = v, !.gen = g]
      /\ UNCHANGED <<pi, session>>
  BY DEF SaveRoi
<1> HIDE DEF l, r, t, g
<1>7. /\ link' \in LinkType /\ SameSnapshot(link', link) /\ SameOverstay(link', link)
      /\ link'.expired = link.expired /\ link'.tags = {t} /\ link'.net["roi"] = r
  BY <1>3, <1>4, <1>5, NetReplaced DEF SameSnapshot, SameOverstay, Channels
<1>8. RoiOk(link')
  BY <1>2, <1>5, <1>7 DEF RoiOk, RoiKind, RoiPending, Belongs
<1>9. /\ page' \in PageType /\ page'.overstay = page.overstay /\ page'.input = page.input
      /\ page'.roi = "busy" /\ page'.gen = g /\ page'.asked = v
  BY <1>1, <1>6 DEF PageType
<1> QED
  BY <1>2, <1>6, <1>7, <1>8, <1>9, RoiStep

LEMMA RoiPutAnsweredKeeps == LinkInv /\ RoiPutAnswered => LinkInv'
<1> SUFFICES ASSUME LinkInv, RoiPutAnswered PROVE LinkInv'
  OBVIOUS
<1>1. link \in LinkType /\ page \in PageType
  BY LinkTyped
<1>2. link.net["roi"] # Nothing
  BY NothingIsNothing DEF RoiPutAnswered, Answered
<1>3. PICK t \in TagType :
        /\ link.tags = {t} /\ TagOf(link) = {t}
        /\ t.gen = page.gen /\ t.expected = page.asked /\ page.roi = "busy"
  BY <1>2, OneTag
<1> DEFINE u == [t EXCEPT !.step = "verify"]
           l == [link EXCEPT !.tags = {u}]
           r == Request("roiGet", None, t.gen)
<1>4. u \in TagType /\ u.step = "verify" /\ u.gen = t.gen /\ u.expected = t.expected
  BY <1>3 DEF TagType
<1>5. l \in LinkType /\ SameSnapshot(l, link) /\ SameOverstay(l, link)
      /\ l.expired = link.expired /\ l.tags = {u}
  BY <1>1, <1>4 DEF LinkType, SameSnapshot, SameOverstay
<1>6. (link.tags \ {t}) \cup {u} = {u}
  BY <1>3
<1>7. link' = [l EXCEPT !.net["roi"] = r]
  BY <1>3, <1>6 DEF RoiPutAnswered, Send
<1>8. r \in RequestType /\ r # Nothing /\ r.what = "roiGet" /\ r.gen = t.gen
  BY <1>3, RequestTyped, RequestIsSomething DEF TagType
<1>9. UNCHANGED <<pi, page, session>>
  BY DEF RoiPutAnswered
<1> HIDE DEF u, l, r
<1>10. /\ link' \in LinkType /\ SameSnapshot(link', link) /\ SameOverstay(link', link)
       /\ link'.expired = link.expired /\ link'.tags = {u} /\ link'.net["roi"] = r
  BY <1>5, <1>7, <1>8, NetReplaced DEF SameSnapshot, SameOverstay, Channels
<1>11. RoiOk(link')
  BY <1>4, <1>8, <1>10 DEF RoiOk, RoiKind, RoiPending, Belongs
<1> QED
  BY <1>1, <1>3, <1>4, <1>9, <1>10, <1>11, RoiStep

\* Both other ends of an ROI request remove its tag and end the page's wait.
LEMMA RoiEndKeeps ==
    ASSUME LinkInv, link.net["roi"] # Nothing, NEW outcome \in {"saved", "failed"},
           link' = [Received(link, "roi") EXCEPT !.tags = {}],
           page' = [page EXCEPT !.roi = outcome], UNCHANGED <<pi, session>>
    PROVE  LinkInv'
<1>1. link \in LinkType /\ page \in PageType
  BY LinkTyped
<1> DEFINE l == Received(link, "roi")
<1>2. /\ l \in LinkType /\ SameSnapshot(l, link) /\ SameOverstay(l, link)
      /\ l.expired = link.expired /\ l.net["roi"] = Nothing
  BY <1>1, NetReplaced, RequestTyped DEF Received, SameSnapshot, SameOverstay, Channels
<1>3. link' = [l EXCEPT !.tags = {}]
  OBVIOUS
<1> HIDE DEF l
<1>4. /\ link' \in LinkType /\ SameSnapshot(link', link) /\ SameOverstay(link', link)
      /\ link'.expired = link.expired /\ link'.tags = {} /\ link'.net["roi"] = Nothing
  BY <1>2, <1>3 DEF LinkType, SameSnapshot, SameOverstay
<1>5. RoiOk(link')
  BY <1>4 DEF RoiOk, RoiKind, RoiPending
<1>6. /\ page' \in PageType /\ page'.overstay = page.overstay /\ page'.input = page.input
      /\ page'.roi # "busy"
  BY <1>1 DEF PageType
<1> QED
  BY <1>4, <1>5, <1>6, RoiStep

LEMMA RoiVerifiedKeeps == LinkInv /\ RoiVerified => LinkInv'
<1> SUFFICES ASSUME LinkInv, RoiVerified PROVE LinkInv'
  OBVIOUS
<1>1. link.net["roi"] # Nothing
  BY NothingIsNothing DEF RoiVerified, Answered
<1>2. PICK t \in TagType : link.tags = {t} /\ TagOf(link) = {t} /\ Concerns(page, t)
  BY <1>1, OneTag
<1>3. Received(link, "roi").tags = {t}
  BY <1>2, NetReplaced, RequestTyped
     DEF Received, Channels, LinkInv, LinkTypeOK
<1>4. link' = [Received(link, "roi") EXCEPT !.tags = {}]
  <2>1. link' = [Received(link, "roi") EXCEPT !.tags = Received(link, "roi").tags \ {t}]
    BY <1>2 DEF RoiVerified
  <2>2. Received(link, "roi").tags \ {t} = {}
    BY <1>3
  <2> QED
    BY <2>1, <2>2
<1>5. \E outcome \in {"saved", "failed"} : page' = [page EXCEPT !.roi = outcome]
  BY <1>2 DEF RoiVerified, RoiEnds
<1>6. UNCHANGED <<pi, session>>
  BY DEF RoiVerified
<1> QED
  BY <1>1, <1>4, <1>5, <1>6, RoiEndKeeps

LEMMA RoiFailedKeeps == LinkInv /\ RequestFailed("roi") => LinkInv'
<1> SUFFICES ASSUME LinkInv, RequestFailed("roi") PROVE LinkInv'
  OBVIOUS
<1>1. link.net["roi"] # Nothing
  BY DEF RequestFailed
<1>2. PICK t \in TagType : link.tags = {t} /\ TagOf(link) = {t} /\ Concerns(page, t)
  BY <1>1, OneTag
<1>3. Received(link, "roi").tags = {t}
  BY <1>2, NetReplaced, RequestTyped
     DEF Received, Channels, LinkInv, LinkTypeOK
<1>4. link' = [Received(link, "roi") EXCEPT !.tags = {}]
  <2>1. link' = [Received(link, "roi") EXCEPT !.tags = Received(link, "roi").tags \ {t}]
    BY <1>2 DEF RequestFailed, FailedLink
  <2>2. Received(link, "roi").tags \ {t} = {}
    BY <1>3
  <2> QED
    BY <2>1, <2>2
<1>5. page' = [page EXCEPT !.roi = "failed"] /\ UNCHANGED <<pi, session>>
  BY <1>2 DEF RequestFailed, FailedPage
<1> QED
  BY <1>1, <1>4, <1>5, RoiEndKeeps

LEMMA SaveAddressKeeps == LinkInv /\ SaveAddress => LinkInv'
<1> SUFFICES ASSUME LinkInv, SaveAddress PROVE LinkInv'
  OBVIOUS
<1> DEFINE l == Rebuild(link)
<1>1. link \in LinkType /\ page \in PageType /\ ~link.expired
  BY DEF LinkInv, LinkTypeOK, SaveAddress
<1>2. /\ l \in LinkType /\ ~l.expired /\ ~l.flying
      /\ l.overstay = "none" /\ l.tags = {} /\ \A ch \in Channels : l.net[ch] = Nothing
  BY <1>1, Rebuilds
<1>3. link' = ReconnectNow(l) /\ UNCHANGED <<pi, session>>
  BY DEF SaveAddress
<1> HIDE DEF l
<1>4. /\ link' \in LinkType /\ ~link'.expired
      /\ link'.overstay = "none" /\ link'.tags = {}
      /\ link'.net["overstay"] = Nothing /\ link'.net["roi"] = Nothing
  BY <1>2, <1>3, Reconnects DEF SameOverstay, SameRoi, Channels
<1>5. SnapshotOk(link')
  BY <1>2, <1>3, ReconnectPolls DEF SnapshotKind, Channels
<1>6. OverstayOk(link') /\ RoiOk(link')
  BY <1>4 DEF OverstayOk, OverstayKind, OverstayPending, RoiOk, RoiKind, RoiPending
<1>7. page' \in PageType /\ page'.overstay # "busy" /\ page'.roi # "busy"
  <2>1. link.overstay = "none" => page.overstay # "busy"
    BY DEF LinkInv, PagesWaitForLink
  <2>2. page.roi = "busy" => \E t \in link.tags : Concerns(page, t)
    BY DEF LinkInv, PagesWaitForLink, Concerns
  <2> DEFINE p == IF link.overstay = "none" THEN page ELSE OverstayFailed(page)
             ended == \E t \in link.tags : Concerns(page, t)
  <2>3. p \in PageType /\ p.overstay # "busy" /\ p.roi = page.roi
    BY <1>1, <2>1 DEF OverstayFailed, PageType
  <2>4. page' = [p EXCEPT !.roi = IF ended THEN "failed" ELSE p.roi]
    BY DEF SaveAddress
  <2> HIDE DEF p
  <2> QED
    BY <2>2, <2>3, <2>4 DEF PageType
<1>8. PagesWaitForLink'
  BY <1>4, <1>7 DEF PagesWaitForLink
<1>9. LinkTypeOK'
  BY <1>3, <1>4, <1>7 DEF LinkInv, LinkTypeOK
<1> QED
  BY <1>4, <1>5, <1>6, <1>8, <1>9 DEF LinkInv

LEMMA SnapshotAnsweredKeeps == LinkInv /\ SnapshotAnswered => LinkInv'
<1> SUFFICES ASSUME LinkInv, SnapshotAnswered PROVE LinkInv'
  OBVIOUS
<1> DEFINE l == Received(link, "snapshot")
<1>1. link \in LinkType
  BY DEF LinkInv, LinkTypeOK
<1>2. /\ l \in LinkType /\ SameOverstay(l, link) /\ SameRoi(l, link)
      /\ l.expired = link.expired /\ l.net["snapshot"] = Nothing
  BY <1>1, NetReplaced, RequestTyped DEF Received, SameOverstay, SameRoi, Channels
<1>3. link' = ApplySnapshot(l) /\ UNCHANGED <<pi, page, session>>
  BY DEF SnapshotAnswered
<1> HIDE DEF l
<1>4. /\ link' \in LinkType /\ SameOverstay(link', link) /\ SameRoi(link', link)
      /\ link'.expired = link.expired /\ ~link'.flying /\ link'.timer # 0
      /\ link'.connected /\ link'.told /\ link'.net["snapshot"] = Nothing
  BY <1>2, <1>3, Applies, DelaysAreBounded DEF SameOverstay, SameRoi
<1>5. link'.connected = TRUE /\ link'.told = TRUE
  BY <1>4 DEF LinkType
<1>6. SnapshotOk(link')
  BY <1>4, <1>5 DEF SnapshotOk, SnapshotKind, SnapshotPending, PollingGoesOn
<1> QED
  BY <1>3, <1>4, <1>6, PollingStep DEF LinkInv, LinkTypeOK

LEMMA SnapshotFailedKeeps == LinkInv /\ RequestFailed("snapshot") => LinkInv'
<1> SUFFICES ASSUME LinkInv, RequestFailed("snapshot") PROVE LinkInv'
  OBVIOUS
<1> DEFINE n == Received(link, "snapshot")
           l == [n EXCEPT !.flying = FALSE, !.connected = FALSE]
<1>1. link \in LinkType
  BY DEF LinkInv, LinkTypeOK
<1>2. /\ n \in LinkType /\ SameOverstay(n, link) /\ SameRoi(n, link)
      /\ n.expired = link.expired /\ n.net["snapshot"] = Nothing
      /\ n.connected = link.connected /\ n.told = link.told /\ n.delay = link.delay
      /\ n.timer = link.timer
  BY <1>1, NetReplaced, RequestTyped DEF Received, SameOverstay, SameRoi, Channels
<1> HIDE DEF n
<1>3. /\ l \in LinkType /\ SameOverstay(l, link) /\ SameRoi(l, link)
      /\ l.expired = link.expired /\ l.net = n.net /\ ~l.flying
      /\ l.connected = FALSE /\ l.told = link.told /\ l.delay = link.delay
      /\ l.timer = link.timer
  BY <1>2 DEF LinkType, SameOverstay, SameRoi
<1>4. link' = ScheduleReconnect(l) /\ UNCHANGED <<pi, page, session>>
  BY DEF RequestFailed, FailedLink, FailedPage, n
<1> HIDE DEF l
<1>5. /\ link' \in LinkType /\ SameOverstay(link', link) /\ SameRoi(link', link)
      /\ link'.expired = link.expired /\ ~link'.flying /\ link'.net["snapshot"] = Nothing
      /\ ~link.expired => link'.timer # 0 /\ ~link'.connected /\ ~link'.told
      /\ link.expired => ~link'.connected /\ link'.told = link.told
  BY <1>2, <1>3, <1>4, Schedules, DelaysAreBounded DEF SameOverstay, SameRoi, LinkType
<1>6. link'.told = link'.connected
  <2>1. link'.told \in BOOLEAN /\ link'.connected \in BOOLEAN
    BY <1>5 DEF LinkType
  <2> QED
    BY <1>5, <2>1 DEF RequestFailed, LinkInv, SnapshotOk, PollingGoesOn
<1>7. SnapshotOk(link')
  BY <1>5, <1>6 DEF SnapshotOk, SnapshotKind, SnapshotPending, PollingGoesOn
<1> QED
  BY <1>4, <1>5, <1>7, PollingStep DEF LinkInv, LinkTypeOK

\* Expire, whatever request was answered 401.
LEMMA ExpiryKeeps ==
    ASSUME LinkInv, NEW l \in LinkType, link' = Expire(l),
           OverstayKind(l), RoiKind(l), SnapshotKind(l),
           l.net["snapshot"] # Nothing => ~l.connected,
           l.net["overstay"] # Nothing => l.overstay # "none",
           l.overstay = link.overstay, l.seconds = link.seconds, l.tags = link.tags,
           l.expired = link.expired, l.flying = link.flying,
           l.told = link.told, l.connected = link.connected,
           page' = page, pi' = pi, session' \in {"on", "asking", "over"}, session' # "on"
    PROVE  LinkInv'
<1>1. /\ link' \in LinkType /\ SameOverstay(link', l) /\ SameRoi(link', l)
      /\ link'.expired /\ link'.net = l.net
      /\ link'.told = l.told /\ link'.connected = l.connected
      /\ l.expired => link' = l
      /\ ~l.expired => ~link'.flying
  BY Expires
<1>2. link'.expired = TRUE
  BY <1>1 DEF LinkType
<1>3. SnapshotOk(link')
  BY <1>1, <1>2 DEF LinkInv, SnapshotOk, SnapshotKind, SnapshotPending, PollingGoesOn
<1>4. OverstayOk(link')
  BY <1>1, <1>2 DEF OverstayOk, OverstayKind, OverstayPending, SameOverstay
<1>5. RoiOk(link')
  BY <1>1, <1>2 DEF RoiOk, RoiKind, RoiPending, SameRoi
<1>6. PagesWaitForLink'
  BY <1>1 DEF LinkInv, PagesWaitForLink, SameOverstay, SameRoi
<1>7. LinkTypeOK'
  BY <1>1 DEF LinkInv, LinkTypeOK
<1> QED
  BY <1>3, <1>4, <1>5, <1>6, <1>7 DEF LinkInv

LEMMA UnauthorizedKeeps ==
    ASSUME LinkInv, NEW ch \in Channels, Unauthorized(ch)
    PROVE  LinkInv'
<1> DEFINE l == Received(link, ch)
<1>1. link \in LinkType
  BY DEF LinkInv, LinkTypeOK
<1>2. /\ l \in LinkType /\ l.net[ch] = Nothing
      /\ \A c \in Channels : c # ch => l.net[c] = link.net[c]
      /\ l.overstay = link.overstay /\ l.seconds = link.seconds /\ l.tags = link.tags
      /\ l.expired = link.expired /\ l.flying = link.flying
      /\ l.told = link.told /\ l.connected = link.connected
  BY <1>1, NetReplaced, RequestTyped DEF Received
<1>3. link' = Expire(l) /\ UNCHANGED <<pi, page>>
  BY DEF Unauthorized
<1>4. session' \in {"on", "asking", "over"} /\ session' # "on"
  BY DEF Unauthorized, EndSession, LinkInv, LinkTypeOK
<1> HIDE DEF l
<1>5. \A c \in Channels : l.net[c] = Nothing \/ l.net[c] = link.net[c]
  BY <1>2
<1>6. OverstayKind(l) /\ RoiKind(l) /\ SnapshotKind(l)
      /\ (l.net["overstay"] # Nothing => l.overstay # "none")
      /\ (l.net["snapshot"] # Nothing => ~l.connected)
  BY <1>2, <1>5 DEF Channels, LinkInv, OverstayOk, OverstayKind, OverstayPending,
     RoiOk, RoiKind, SnapshotOk, SnapshotKind, PollingGoesOn
<1> QED
  BY <1>2, <1>3, <1>4, <1>6, ExpiryKeeps

LEMMA ImageUnauthorizedKeeps == LinkInv /\ ImageUnauthorized => LinkInv'
<1> SUFFICES ASSUME LinkInv, ImageUnauthorized PROVE LinkInv'
  OBVIOUS
<1>1. link \in LinkType /\ link' = Expire(link) /\ UNCHANGED <<pi, page>>
  BY DEF ImageUnauthorized, LinkInv, LinkTypeOK
<1>2. session' \in {"on", "asking", "over"} /\ session' # "on"
  BY DEF ImageUnauthorized, EndSession, LinkInv, LinkTypeOK
<1>3. OverstayKind(link) /\ RoiKind(link) /\ SnapshotKind(link)
      /\ (link.net["overstay"] # Nothing => link.overstay # "none")
      /\ (link.net["snapshot"] # Nothing => ~link.connected)
  BY DEF LinkInv, OverstayOk, OverstayPending, RoiOk, SnapshotOk, PollingGoesOn
<1> QED
  BY <1>1, <1>2, <1>3, ExpiryKeeps

LEMMA ServeKeeps ==
    ASSUME LinkInv, NEW ch \in Channels, Serve(ch)
    PROVE  LinkInv'
<1> DEFINE r == link.net[ch]
<1>1. link \in LinkType /\ r \in RequestType /\ r # Nothing /\ ~r.served
  BY DEF LinkInv, LinkTypeOK, LinkType, Serve
<1>2. /\ ch # "snapshot" => r.what # "snapshot"
      /\ ch = "snapshot" => r.what = "snapshot"
      /\ ch = "overstay" => r.what \in {"get", "put"} /\ (r.what = "put" => r.value \in Thresholds)
      /\ ch = "roi" => r.what \in {"roiPut", "roiGet"} /\ (r.what = "roiPut" => r.value \in Rois)
  BY <1>1 DEF Channels, LinkInv, OverstayOk, OverstayKind, RoiOk, RoiKind, SnapshotOk, SnapshotKind
<1>3. PICK v \in Thresholds \cup Rois :
        /\ link' = [link EXCEPT !.net[ch] = [r EXCEPT !.served = TRUE, !.reply = v]]
        /\ ch # "snapshot" /\ (ch = "overstay" => v \in Thresholds)
        /\ pi' \in [threshold : Thresholds, roi : Rois]
        /\ UNCHANGED <<page, session>>
  <2>1. pi \in [threshold : Thresholds, roi : Rois]
    BY DEF LinkInv, LinkTypeOK
  <2>2. CASE r.what = "get"
    BY <1>2, <2>1, <2>2 DEF Serve, Channels
  <2>3. CASE r.what = "roiGet"
    BY <1>2, <2>1, <2>3 DEF Serve, Channels
  <2>4. CASE r.what = "put"
    BY <1>2, <2>1, <2>4 DEF Serve, Channels
  <2>5. CASE r.what = "roiPut"
    BY <1>2, <2>1, <2>5 DEF Serve, Channels
  <2> QED
    BY <2>2, <2>3, <2>4, <2>5 DEF Serve
<1> DEFINE s == [r EXCEPT !.served = TRUE, !.reply = v]
<1>4. /\ s \in RequestType /\ s # Nothing /\ s.what = r.what /\ s.value = r.value
      /\ s.gen = r.gen /\ s.reply = v
  BY <1>1, <1>3 DEF RequestType, Nothing
<1> HIDE DEF r, s
<1>5. link' = [link EXCEPT !.net[ch] = s]
  BY <1>3 DEF s, r
<1>6. /\ link' \in LinkType /\ link'.net[ch] = s
      /\ \A c \in Channels : c # ch => link'.net[c] = link.net[c]
      /\ link'.expired = link.expired /\ link'.timer = link.timer /\ link'.delay = link.delay
      /\ link'.flying = link.flying /\ link'.connected = link.connected
      /\ link'.told = link.told
      /\ link'.overstay = link.overstay /\ link'.seconds = link.seconds
      /\ link'.tags = link.tags
  BY <1>1, <1>4, <1>5, NetReplaced
<1>7. SameSnapshot(link', link)
  BY <1>3, <1>6 DEF SameSnapshot, Channels
<1>8. SnapshotOk(link')
  BY <1>6, <1>7, SnapshotFrame DEF LinkInv
<1>9. OverstayOk(link')
  BY <1>1, <1>3, <1>4, <1>6
     DEF r, Channels, LinkInv, OverstayOk, OverstayKind, OverstayPending
<1>10. RoiOk(link')
  BY <1>1, <1>3, <1>4, <1>6 DEF r, Channels, LinkInv, RoiOk, RoiKind, RoiPending, Belongs
<1>11. PagesWaitForLink'
  BY <1>3, <1>6 DEF LinkInv, PagesWaitForLink
<1>12. LinkTypeOK' /\ (session' = "on" => ~link'.expired)
  BY <1>3, <1>6 DEF LinkInv, LinkTypeOK
<1> QED
  BY <1>8, <1>9, <1>10, <1>11, <1>12 DEF LinkInv

LEMMA NextKeeps == LinkInv /\ [LinkNext]_linkVars => LinkInv'
<1> SUFFICES ASSUME LinkInv, [LinkNext]_linkVars PROVE LinkInv'
  OBVIOUS
<1>1. CASE PollTimer
  BY <1>1, PollTimerKeeps
<1>2. CASE ReconnectButton
  BY <1>2, ReconnectButtonKeeps
<1>3. CASE RefreshThreshold
  BY <1>3, RefreshThresholdKeeps
<1>4. CASE SaveAddress
  BY <1>4, SaveAddressKeeps
<1>5. ASSUME NEW s \in Thresholds, UpdateThreshold(s) PROVE LinkInv'
  BY <1>5, UpdateThresholdKeeps
<1>6. ASSUME NEW r \in Rois, SaveRoi(r) PROVE LinkInv'
  BY <1>6, SaveRoiKeeps
<1>7. ASSUME NEW ch \in Channels, Serve(ch) PROVE LinkInv'
  BY <1>7, ServeKeeps
<1>8. ASSUME NEW ch \in Channels, Ends(ch) PROVE LinkInv'
  <2>1. ASSUME RequestFailed(ch) PROVE LinkInv'
    BY <2>1, SnapshotFailedKeeps, OverstayFailedKeeps, RoiFailedKeeps DEF Channels
  <2> QED
    BY <1>8, <2>1, SnapshotAnsweredKeeps, OverstayAnsweredKeeps, RoiPutAnsweredKeeps,
       RoiVerifiedKeeps, UnauthorizedKeeps DEF Ends
<1>9. CASE ImageUnauthorized
  BY <1>9, ImageUnauthorizedKeeps
<1>10. CASE TokenExpires \/ SignOut \/ Elsewhere \/ UNCHANGED linkVars
  <2>1. /\ UNCHANGED <<link, page>> /\ pi' \in [threshold : Thresholds, roi : Rois]
        /\ session' \in {"on", "asking", "over"} /\ (session' = "on" => session = "on")
    BY <1>10 DEF TokenExpires, EndSession, SignOut, Elsewhere, linkVars, LinkInv, LinkTypeOK
  <2>2. LinkTypeOK' /\ PagesWaitForLink'
    BY <2>1 DEF LinkInv, LinkTypeOK, PagesWaitForLink
  <2>3. SnapshotOk(link') /\ OverstayOk(link') /\ RoiOk(link')
    BY <2>1 DEF LinkInv
  <2> QED
    BY <2>1, <2>2, <2>3 DEF LinkInv
<1> QED
  BY <1>1, <1>2, <1>3, <1>4, <1>5, <1>6, <1>7, <1>8, <1>9, <1>10 DEF LinkNext

LEMMA InvHolds == LinkSpec => []LinkInv
BY InitHolds, NextKeeps, PTL DEF LinkSpec

----------------------------------------------------------------------------
(* The invariants.                                                         *)

\* The types, and the bounds of the back-off in scheduleReconnect.
THEOREM LinkIsTyped == LinkSpec => []LinkTypeOK
<1>1. LinkInv => LinkTypeOK
  BY DEF LinkInv
<1> QED
  BY <1>1, InvHolds, PTL

\* The flags of ParkingController say what its ApiClient is asked, over errors,
\* time-outs and new addresses.
THEOREM PendingHolds == LinkSpec => []PendingIsUnderWay
<1>1. LinkInv => PendingIsUnderWay
  <2> SUFFICES ASSUME LinkInv PROVE PendingIsUnderWay
    OBVIOUS
  <2>1. link.net["roi"] # Nothing => \E t \in link.tags : TagOf(link) = {t}
    BY OneTag
  <2>2. link.net["snapshot"] # Nothing => link.flying \/ link.expired
    BY DEF LinkInv, SnapshotOk, SnapshotPending
  <2>3. link.net["overstay"] # Nothing => link.overstay # "none"
    BY DEF LinkInv, OverstayOk, OverstayPending
  <2>4. ASSUME ~link.expired
        PROVE  /\ link.flying => link.net["snapshot"] # Nothing
               /\ link.overstay # "none" => link.net["overstay"] # Nothing
               /\ link.tags # {} => link.net["roi"] # Nothing
    BY <2>4 DEF LinkInv, SnapshotOk, SnapshotPending, OverstayOk, OverstayPending,
       RoiOk, RoiPending
  <2> QED
    BY <2>1, <2>2, <2>3, <2>4 DEF PendingIsUnderWay
<1> QED
  BY <1>1, InvHolds, PTL

\* The Settings and IVA pages wait exactly while the controller has their request.
THEOREM WaitingIsAnswered == LinkSpec => []PagesWaitForLink
<1>1. LinkInv => PagesWaitForLink
  BY DEF LinkInv
<1> QED
  BY <1>1, InvHolds, PTL

\* The connection the pages were told of is the one the controller acts on.
THEOREM ConnectionKnown == LinkSpec => []ConnectionIsTold
<1>1. LinkInv => ConnectionIsTold
  BY DEF LinkInv, SnapshotOk, PollingGoesOn, ConnectionIsTold
<1> QED
  BY <1>1, InvHolds, PTL

\* Together: the controller, its requests and its pages never part.
THEOREM LinkIsConsistent == LinkSpec => []LinkConsistent
<1>1. LinkTypeOK /\ PendingIsUnderWay /\ PagesWaitForLink /\ ConnectionIsTold
        => LinkConsistent
  BY DEF LinkConsistent
<1> QED
  BY <1>1, LinkIsTyped, PendingHolds, WaitingIsAnswered, ConnectionKnown, PTL

----------------------------------------------------------------------------
(* What a step may never do.                                               *)

\* An update of the threshold is reported only if the server confirmed it
\* (applyOverstayThresholdResponse).
THEOREM ChangesAreConfirmed == LinkSpec => ChangedMeansConfirmed
<1>1. LinkInv /\ [LinkNext]_linkVars =>
        (page.overstay = "busy" /\ page'.overstay = "changed" =>
            /\ page'.shown = page.input
            /\ link.net["overstay"].what = "put" /\ link.net["overstay"].value = page.input)
  <2> SUFFICES ASSUME LinkInv, [LinkNext]_linkVars,
                      page.overstay = "busy", page'.overstay = "changed"
               PROVE  /\ page'.shown = page.input
                      /\ link.net["overstay"].what = "put"
                      /\ link.net["overstay"].value = page.input
    OBVIOUS
  <2>1. page \in PageType
    BY LinkTyped, Zenon
  <2>2. OverstayAnswered
    <3>1. ~RefreshThreshold /\ ~(\E s \in Thresholds : UpdateThreshold(s))
      BY DEF RefreshThreshold, UpdateThreshold
    <3>2. ~(\E r \in Rois : SaveRoi(r)) /\ ~SaveAddress
      BY <2>1 DEF SaveRoi, SaveAddress, OverstayFailed, PageType
    <3>3. ~RoiVerified
      BY <2>1 DEF RoiVerified, RoiEnds, PageType
    <3>4. \A ch \in Channels : ~RequestFailed(ch)
      BY <2>1 DEF RequestFailed, FailedPage, OverstayFailed, PageType, Channels
    <3> QED
      BY <3>1, <3>2, <3>3, <3>4, Zenon
         DEF LinkNext, linkVars, Ends, PollTimer, ReconnectButton, Serve, SnapshotAnswered,
             RoiPutAnswered, Unauthorized, ImageUnauthorized, TokenExpires, SignOut, Elsewhere
  <2> DEFINE s == link.net["overstay"].reply
  <2>3. link.overstay = "update" /\ s = link.seconds
        /\ page' = ShowThreshold(page, s, TRUE)
    <3>1. OverstayFailed(page).overstay # "changed"
          /\ ShowThreshold(page, s, FALSE).overstay # "changed"
      BY <2>1 DEF OverstayFailed, ShowThreshold, PageType
    <3> QED
      BY <2>2, <3>1, Zenon DEF OverstayAnswered, Confirms
  <2>4. link.seconds = page.input
    BY <2>3 DEF LinkInv, PagesWaitForLink
  <2>5. link.net["overstay"] # Nothing
    BY <2>2, NothingIsNothing DEF OverstayAnswered, Answered
  <2>6. link.net["overstay"].what = "put" /\ link.net["overstay"].value = link.seconds
    BY <2>3, <2>5 DEF LinkInv, OverstayOk, OverstayKind
  <2> QED
    BY <2>1, <2>3, <2>4, <2>6 DEF ShowThreshold, PageType
<1> QED
  BY <1>1, InvHolds, PTL DEF LinkSpec, ChangedMeansConfirmed

\* A region is reported saved only after it was read back (applyParkingRoiResponse).
THEOREM SavesAreReadBack == LinkSpec => SavedMeansReadBack
<1>1. LinkInv /\ [LinkNext]_linkVars =>
        (page.roi = "busy" /\ page'.roi = "saved" =>
            link.net["roi"].what = "roiGet" /\ link.net["roi"].reply = page.asked)
  <2> SUFFICES ASSUME LinkInv, [LinkNext]_linkVars, page.roi = "busy", page'.roi = "saved"
               PROVE  link.net["roi"].what = "roiGet" /\ link.net["roi"].reply = page.asked
    OBVIOUS
  <2>1. page \in PageType
    BY LinkTyped, Zenon
  <2>2. RoiVerified
    <3>1. ASSUME NEW r \in Rois, SaveRoi(r) PROVE FALSE
      <4>1. page.roi # "busy"
        BY <3>1, Zenon DEF SaveRoi
      <4> QED BY <4>1, Zenon
    <3>2. ~RefreshThreshold /\ ~(\E s \in Thresholds : UpdateThreshold(s)) /\ ~SaveAddress
      BY <2>1 DEF RefreshThreshold, UpdateThreshold, SaveAddress, OverstayFailed, PageType
    <3>3. ~OverstayAnswered
      BY <2>1 DEF OverstayAnswered, OverstayFailed, ShowThreshold, PageType
    <3>4. \A ch \in Channels : ~RequestFailed(ch)
      BY <2>1 DEF RequestFailed, FailedPage, OverstayFailed, PageType, Channels
    <3> QED
      BY <3>1, <3>2, <3>3, <3>4, Zenon
         DEF LinkNext, linkVars, Ends, PollTimer, ReconnectButton, Serve, SnapshotAnswered,
             RoiPutAnswered, Unauthorized, ImageUnauthorized, TokenExpires, SignOut, Elsewhere
  <2>3. link.net["roi"] # Nothing
    BY <2>2, NothingIsNothing DEF RoiVerified, Answered
  <2>4. PICK t \in TagType : TagOf(link) = {t} /\ t.expected = page.asked
    BY <2>3, OneTag
  <2>5. page' = RoiEnds(page, t, IF Matches(t, link.net["roi"].reply) THEN "saved" ELSE "failed")
    BY <2>2, <2>4 DEF RoiVerified
  <2>6. Matches(t, link.net["roi"].reply)
    BY <2>1, <2>5 DEF RoiEnds, PageType
  <2> QED
    BY <2>2, <2>4, <2>6 DEF RoiVerified, Matches
<1> QED
  BY <1>1, InvHolds, PTL DEF LinkSpec, SavedMeansReadBack

\* Together: no page reports as done what the server did not confirm.
THEOREM ReportsConfirmed == LinkSpec => ReportsAreConfirmed
BY ChangesAreConfirmed, SavesAreReadBack DEF ReportsAreConfirmed

\* Nothing is polled once the session has expired (reconnectNow, the 401 of
\* rebuildApiClient).
THEOREM NothingPolledAfterExpiry == LinkSpec => NoPollAfterExpiry
<1>1. LinkInv /\ [LinkNext]_linkVars =>
        (link.expired /\ link'.net["snapshot"] # Nothing => link.net["snapshot"] # Nothing)
  <2> SUFFICES ASSUME LinkInv, [LinkNext]_linkVars, link.expired,
                      link.net["snapshot"] = Nothing
               PROVE  link'.net["snapshot"] = Nothing
    OBVIOUS
  <2>1. link \in LinkType /\ session # "on"
    <3>1. link \in LinkType
      BY LinkTyped, Zenon
    <3> QED BY <3>1, Zenon DEF LinkInv
  <2>2. CASE PollTimer
    <3> DEFINE l == [link EXCEPT !.timer = 0]
    <3>1. l \in LinkType /\ l.expired /\ l.net = link.net
      BY <2>1 DEF LinkType, Delays
    <3>2. link' = ReconnectNow(l)
      BY <2>2 DEF PollTimer
    <3> HIDE DEF l
    <3> QED
      BY <3>1, <3>2, Reconnects
  <2>3. ASSUME NEW ch \in Channels, Serve(ch) PROVE link'.net["snapshot"] = Nothing
    BY <2>1, <2>3 DEF Serve, LinkType, Channels
  <2>4. ASSUME NEW ch \in Channels, Ends(ch) PROVE link'.net["snapshot"] = Nothing
    <3> DEFINE l == Received(link, ch)
    <3>1. l \in LinkType /\ l.expired /\ l.net["snapshot"] = Nothing
      BY <2>1, NetReplaced, RequestTyped DEF Received, Channels
    <3>2. ~SnapshotAnswered
      BY NothingIsNothing DEF SnapshotAnswered, Answered
    <3>3. CASE ch = "overstay" /\ OverstayAnswered
      BY <3>1, <3>3, OverstayEnds DEF OverstayAnswered
    <3>4. CASE ch = "roi" /\ (RoiPutAnswered \/ RoiVerified)
      <4>1. CASE RoiVerified
        <5>1. PICK t : link' = [Received(link, "roi") EXCEPT !.tags = @ \ {t}]
          BY <4>1 DEF RoiVerified
        <5>2. /\ "roi" \in Channels /\ "snapshot" # "roi" /\ "snapshot" \in Channels
              /\ Nothing \in RequestType
          BY RequestTyped DEF Channels
        <5>3. /\ Received(link, "roi") \in LinkType
              /\ Received(link, "roi").net["snapshot"] = link.net["snapshot"]
          BY <2>1, <5>2, NetReplaced DEF Received
        <5>4. link'.net = Received(link, "roi").net
          BY <5>1, <5>3 DEF LinkType
        <5> QED BY <5>3, <5>4
      <4>2. CASE RoiPutAnswered
        BY <2>1, <4>2 DEF RoiPutAnswered, Send, LinkType, Channels
      <4> QED
        BY <3>4, <4>1, <4>2
    <3>5. CASE RequestFailed(ch)
      <4>1. ch # "snapshot"
        BY <3>5 DEF RequestFailed
      <4>2. CASE ch = "overstay"
        BY <3>1, <3>5, <4>2, OverstayEnds DEF RequestFailed, FailedLink
      <4>3. CASE ch = "roi"
        BY <3>1, <3>5, <4>3 DEF RequestFailed, FailedLink, LinkType
      <4> QED
        BY <4>1, <4>2, <4>3 DEF Channels
    <3>6. CASE Unauthorized(ch)
      BY <3>1, <3>6, Expires DEF Unauthorized
    <3> QED
      BY <2>4, <3>2, <3>3, <3>4, <3>5, <3>6 DEF Ends
  <2>5. CASE ImageUnauthorized \/ TokenExpires \/ SignOut \/ Elsewhere \/ UNCHANGED linkVars
    BY <2>5 DEF ImageUnauthorized, TokenExpires, SignOut, Elsewhere, linkVars
  <2> QED
    BY <2>1, <2>2, <2>3, <2>4, <2>5
       DEF LinkNext, ReconnectButton, RefreshThreshold, SaveAddress, UpdateThreshold, SaveRoi
<1>2. LinkSpec => [][LinkNext]_linkVars
  BY PTL DEF LinkSpec
<1> QED
  BY <1>1, <1>2, InvHolds, PTL DEF NoPollAfterExpiry

----------------------------------------------------------------------------
(* The link implements Poller.                                             *)

\* What polling sees of the link.
SamePolling(k, l) ==
    k.timer = l.timer /\ k.delay = l.delay /\ k.flying = l.flying /\ k.expired = l.expired

LEMMA PollingUnseen ==
    ASSUME SamePolling(link', link), Ended' = Ended
    PROVE  UNCHANGED Polling!pollVars
BY DEF SamePolling, Polling!pollVars

LEMMA PollingInit == LinkInit => Polling!Init
BY DEF LinkInit, Polling!Init, Ended

\* Asking by the timer or by hand.
LEMMA PollingAsks ==
    ASSUME LinkInv, ~Ended, session' = session,
           \/ link' = ReconnectNow(link)
           \/ link.timer # 0 /\ link' = ReconnectNow([link EXCEPT !.timer = 0])
    PROVE  [Polling!Next]_Polling!pollVars
<1>1. /\ link \in LinkType /\ ~link.expired
      /\ link.flying <=> link.timer = 0
  BY DEF LinkInv, LinkTypeOK, Ended, SnapshotOk, PollingGoesOn
<1>2. PICK l \in LinkType : /\ link' = ReconnectNow(l) /\ ~l.expired
                            /\ l.delay = link.delay /\ l.flying = link.flying
  <2>1. [link EXCEPT !.timer = 0] \in LinkType
    BY <1>1 DEF LinkType
  <2> QED
    BY <1>1, <2>1 DEF LinkType
<1>3. link'.timer = 0 /\ link'.flying /\ ~link'.expired /\ link'.delay = link.delay
  BY <1>2, Reconnects
<1>4. ~Ended'
  BY <1>3 DEF Ended
<1>5. CASE link.flying
  BY <1>1, <1>3, <1>4, <1>5 DEF Polling!pollVars
<1>6. CASE ~link.flying
  BY <1>3, <1>4, <1>6 DEF Polling!Next, Polling!Ask
<1> QED
  BY <1>5, <1>6

LEMMA PollingEnds ==
    ASSUME LinkInv, Ended => Ended', Ended' \/ SamePolling(link', link)
    PROVE  [Polling!Next]_Polling!pollVars
<1>1. CASE ~Ended'
  BY <1>1, PollingUnseen DEF Ended
<1>2. CASE Ended' /\ Ended
  BY <1>2 DEF Polling!pollVars
<1>3. CASE Ended' /\ ~Ended
  BY <1>3 DEF Polling!Next, Polling!End
<1> QED
  BY <1>1, <1>2, <1>3

LEMMA PollingSaved == LinkInv /\ SaveAddress => [Polling!Next]_Polling!pollVars
<1> SUFFICES ASSUME LinkInv, SaveAddress PROVE Polling!Next
  OBVIOUS
<1>1. link \in LinkType /\ ~link.expired /\ session = "on" /\ session' = "on"
  BY DEF LinkInv, LinkTypeOK, SaveAddress
<1> DEFINE l == Rebuild(link)
<1>2. l \in LinkType /\ ~l.expired /\ l.delay = BaseDelay
  BY <1>1, Rebuilds
<1>3. link' = ReconnectNow(l)
  BY DEF SaveAddress
<1> HIDE DEF l
<1>4. ~link'.expired /\ link'.flying /\ link'.timer = 0 /\ link'.delay = BaseDelay
  BY <1>2, <1>3, Reconnects
<1> QED
  BY <1>1, <1>4 DEF Ended, Polling!Next, Polling!Restart

LEMMA PollingSucceeds == LinkInv /\ SnapshotAnswered => [Polling!Next]_Polling!pollVars
<1> SUFFICES ASSUME LinkInv, SnapshotAnswered PROVE [Polling!Next]_Polling!pollVars
  OBVIOUS
<1> DEFINE l == Received(link, "snapshot")
<1>1. link \in LinkType /\ session # "over" /\ link.net["snapshot"] # Nothing
  BY NothingIsNothing DEF LinkInv, LinkTypeOK, SnapshotAnswered, Answered
<1>2. l \in LinkType /\ l.expired = link.expired
  BY <1>1, NetReplaced, RequestTyped DEF Received, Channels
<1>3. link' = ApplySnapshot(l) /\ session' = session
  BY DEF SnapshotAnswered
<1> HIDE DEF l
<1>4. link'.expired = link.expired /\ ~link'.flying
      /\ link'.timer = BaseDelay /\ link'.delay = BaseDelay
  BY <1>2, <1>3, Applies
<1>5. CASE link.expired
  BY <1>4, <1>5, PollingEnds DEF Ended
<1>6. CASE ~link.expired
  <2>1. link.flying
    BY <1>1, <1>6 DEF LinkInv, SnapshotOk, SnapshotPending
  <2> QED
    BY <1>1, <1>3, <1>4, <1>6, <2>1 DEF Ended, Polling!Next, Polling!Succeed
<1> QED
  BY <1>5, <1>6

LEMMA PollingFails == LinkInv /\ RequestFailed("snapshot") => [Polling!Next]_Polling!pollVars
<1> SUFFICES ASSUME LinkInv, RequestFailed("snapshot") PROVE [Polling!Next]_Polling!pollVars
  OBVIOUS
<1> DEFINE n == Received(link, "snapshot")
           l == [n EXCEPT !.flying = FALSE, !.connected = FALSE]
<1>1. link \in LinkType /\ session # "over" /\ link.net["snapshot"] # Nothing
  BY DEF LinkInv, LinkTypeOK, RequestFailed
<1>2. n \in LinkType /\ n.expired = link.expired /\ n.timer = link.timer /\ n.delay = link.delay
  BY <1>1, NetReplaced, RequestTyped DEF Received, Channels
<1> HIDE DEF n
<1>3. l \in LinkType /\ l.expired = link.expired /\ ~l.flying
      /\ l.timer = link.timer /\ l.delay = link.delay
  BY <1>2 DEF LinkType
<1>4. link' = ScheduleReconnect(l) /\ session' = session
  BY DEF RequestFailed, FailedLink, n
<1> HIDE DEF l
<1>5. /\ link'.expired = link.expired /\ ~link'.flying
      /\ ~link.expired => /\ link'.timer = IF link.timer = 0 THEN link.delay ELSE link.timer
                          /\ link'.delay = Doubled(link.delay)
  BY <1>3, <1>4, Schedules
<1>6. CASE link.expired
  BY <1>5, <1>6, PollingEnds DEF Ended
<1>7. CASE ~link.expired
  <2>1. link.flying /\ link.timer = 0
    BY <1>1, <1>7 DEF LinkInv, SnapshotOk, SnapshotPending, PollingGoesOn
  <2> QED
    BY <1>1, <1>4, <1>5, <1>7, <2>1
       DEF Ended, Polling!Next, Polling!Fail, Polling!Doubled, Doubled
<1> QED
  BY <1>6, <1>7

\* Every step of the link is a step of Poller or none.
LEMMA PollingStepped == LinkInv /\ [LinkNext]_linkVars => [Polling!Next]_Polling!pollVars
<1> SUFFICES ASSUME LinkInv, [LinkNext]_linkVars PROVE [Polling!Next]_Polling!pollVars
  OBVIOUS
<1>1. link \in LinkType
  BY DEF LinkInv, LinkTypeOK
<1>2. CASE PollTimer
  <2>1. CASE ~link.expired
    BY <1>2, <2>1, PollingAsks DEF PollTimer, Ended
  <2>2. CASE link.expired
    <3> DEFINE l == [link EXCEPT !.timer = 0]
    <3>1. l \in LinkType /\ l.expired
      BY <1>1, <2>2 DEF LinkType
    <3>2. link' = ReconnectNow(l)
      BY <1>2 DEF PollTimer
    <3> HIDE DEF l
    <3>3. link'.expired
      BY <3>1, <3>2, Reconnects
    <3> QED
      BY <3>3, PollingEnds DEF Ended
  <2> QED
    BY <2>1, <2>2
<1>3. CASE ReconnectButton
  BY <1>3, PollingAsks DEF ReconnectButton, LinkInv, Ended
<1>4. CASE SaveAddress
  BY <1>4, PollingSaved
<1>5. ASSUME SamePolling(link', link), session = "over" => session' = "over"
      PROVE  [Polling!Next]_Polling!pollVars
  BY <1>5, PollingEnds DEF Ended, SamePolling
<1>6. CASE RefreshThreshold
  <2>1. SamePolling(link', link)
    BY <1>1, <1>6 DEF RefreshThreshold, Send, SamePolling, LinkType
  <2> QED
    BY <1>5, <1>6, <2>1 DEF RefreshThreshold
<1>7. ASSUME NEW s \in Thresholds, UpdateThreshold(s) PROVE [Polling!Next]_Polling!pollVars
  <2>1. SamePolling(link', link)
    BY <1>1, <1>7 DEF UpdateThreshold, Send, SamePolling, LinkType
  <2> QED
    BY <1>5, <1>7, <2>1 DEF UpdateThreshold
<1>8. ASSUME NEW r \in Rois, SaveRoi(r) PROVE [Polling!Next]_Polling!pollVars
  <2>1. SamePolling(link', link)
    BY <1>1, <1>8 DEF SaveRoi, Send, SamePolling, LinkType
  <2> QED
    BY <1>5, <1>8, <2>1 DEF SaveRoi
<1>9. ASSUME NEW ch \in Channels, Serve(ch) PROVE [Polling!Next]_Polling!pollVars
  <2>1. SamePolling(link', link)
    BY <1>1, <1>9 DEF Serve, SamePolling, LinkType
  <2> QED
    BY <1>5, <1>9, <2>1 DEF Serve
<1>10. ASSUME NEW ch \in Channels, Ends(ch) PROVE [Polling!Next]_Polling!pollVars
  <2> DEFINE l == Received(link, ch)
  <2>1. l \in LinkType /\ SamePolling(l, link)
    BY <1>1, NetReplaced, RequestTyped DEF Received, SamePolling
  <2>2. CASE ch = "overstay" /\ (OverstayAnswered \/ RequestFailed(ch))
    <3>1. link' = EndOverstay(l) /\ session' = session
      BY <2>2 DEF OverstayAnswered, RequestFailed, FailedLink
    <3>2. SamePolling(link', link)
      BY <2>1, <3>1, OverstayEnds DEF SamePolling, SameSnapshot
    <3> QED
      BY <1>5, <3>1, <3>2
  <2>3. CASE ch = "roi" /\ (RoiPutAnswered \/ RoiVerified \/ RequestFailed(ch))
    <3>1. session' = session
      BY <2>3 DEF RoiPutAnswered, RoiVerified, RequestFailed
    <3>2. ASSUME RoiPutAnswered PROVE SamePolling(link', link)
      <4>1. PICK T, r : link' = Send([link EXCEPT !.tags = T], "roi", r)
        BY <3>2 DEF RoiPutAnswered
      <4> QED BY <1>1, <4>1 DEF Send, SamePolling, LinkType
    <3>4. ASSUME RoiVerified PROVE SamePolling(link', link)
      <4>1. PICK t : link' = [l EXCEPT !.tags = l.tags \ {t}]
        BY <2>3, <3>4 DEF RoiVerified
      <4> HIDE DEF l
      <4> QED BY <2>1, <4>1 DEF SamePolling, LinkType
    <3>5. ASSUME RequestFailed(ch) PROVE SamePolling(link', link)
      <4>1. link' = FailedLink(l, "roi")
        BY <2>3, <3>5 DEF RequestFailed
      <4>2. FailedLink(l, "roi") = [l EXCEPT !.tags = l.tags \ TagOf(link)]
        BY DEF FailedLink
      <4> HIDE DEF l
      <4> QED BY <2>1, <4>1, <4>2 DEF SamePolling, LinkType
    <3>6. SamePolling(link', link)
      BY <2>3, <3>2, <3>4, <3>5
    <3> QED
      BY <1>5, <3>1, <3>6
  <2>4. CASE Unauthorized(ch)
    <3>1. link'.expired
      BY <2>1, <2>4, Expires DEF Unauthorized
    <3> QED
      BY <3>1, PollingEnds DEF Ended
  <2> QED
    BY <1>10, <2>2, <2>3, <2>4, PollingSucceeds, PollingFails DEF Ends, Channels
<1>11. CASE ImageUnauthorized
  <2>1. link'.expired
    BY <1>1, <1>11, Expires DEF ImageUnauthorized
  <2> QED
    BY <2>1, PollingEnds DEF Ended
<1>12. CASE TokenExpires \/ SignOut \/ Elsewhere \/ UNCHANGED linkVars
  <2>1. link' = link /\ (session = "over" => session' = "over")
    BY <1>12 DEF TokenExpires, SignOut, Elsewhere, linkVars
  <2> QED
    BY <1>5, <2>1 DEF SamePolling
<1> QED
  BY <1>2, <1>3, <1>4, <1>6, <1>7, <1>8, <1>9, <1>10, <1>11, <1>12 DEF LinkNext

\* The link polls as Poller says, but for its fairness, which is model-checked.
THEOREM LinkPollsSafely == LinkSpec => PollsSafely
BY PollingInit, PollingStepped, InvHolds, PTL DEF LinkSpec, PollsSafely, Polling!Safety

-----------------------------------------------------------------------------
(* RtspVideo: the inductive invariant.                                     *)

Stages == {"none", "opening", "unusable", "reading", "decoding", "posting",
           "failing", "done"}
Scalars ==
  /\ source \in Sources \cup {""}
  /\ status \in {"Waiting", "Connecting", "Playing", "Reconnecting", "Error"}
  /\ failed \in BOOLEAN /\ flag \in BOOLEAN /\ timer \in BOOLEAN
  /\ gen \in 0..MaxGen /\ frame \in 0..MaxGen
  /\ pending \in 0..MaxGen /\ taken \in 0..MaxGen
  /\ gui \in Places
Queue == events \in Seq(Events)
Decoders ==
  /\ worker \in [Gens -> Stages]
  /\ origin \in [Gens -> Sources \cup {""}]
  /\ stop \subseteq Gens /\ frames \in [Gens -> 0..MaxFrames]
Retry == timer => status \in {"Reconnecting", "Playing"}

(* RtspTypeOK is these four.                                               *)
LEMMA TypeParts == RtspTypeOK <=> Scalars /\ Queue /\ Decoders /\ Retry
BY DEF RtspTypeOK, Scalars, Queue, Decoders, Stages, Retry

(* Threads are started in order; the next generation has none while the old*)
(* one is stopped and no picture; the current one reads the source shown.  *)
Threads ==
  /\ \A g \in Gens : worker[g] # "none" => g <= gen
  /\ gui \in {"stopping", "joining"} =>
       gen \in Gens /\ worker[gen] = "none" /\ frame = 0 /\ ~timer
  /\ gui = "restart" => gen < MaxGen
  /\ gen \in Gens /\ worker[gen] # "none" /\ gui # "restart" =>
       origin[gen] = source

(* A frame in the slot, or taken out of it, is of a thread that was started*)
(* and is taken only to be shown.                                          *)
Slot ==
  /\ taken # 0 => worker[taken] # "none" /\ gui = "showing"
  /\ pending # 0 => worker[pending] # "none"

(* A thread that reports has ended, and reports one of two things: that it *)
(* failed, or that its stream is unusable, in which case no timer runs.    *)
Reports ==
  /\ \A i \in DOMAIN events : events[i].kind \in {"failure", "status"} =>
       events[i].gen \in Gens /\ worker[events[i].gen] = "done"
  /\ \A i, j \in DOMAIN events :
       events[i].kind = "failure" /\ events[j].kind = "status" =>
         events[i].gen # events[j].gen
  /\ \A i \in DOMAIN events :
       events[i].kind = "status" /\ events[i].gen = gen => ~timer
  /\ gen \in Gens /\ Alive(gen) => ~timer

VInv ==
  /\ Scalars /\ Queue /\ Decoders /\ Retry /\ Threads /\ Slot /\ Reports
  /\ FrameIsOfSource /\ NoFrameIsStuck /\ OneDecoder

-----------------------------------------------------------------------------
(* What the actions do to a function or a sequence.                        *)

(* What is not 0 is a generation.                                          *)
LEMMA Bounds ==
  ASSUME Scalars
  PROVE  /\ MaxGen \in Nat \ {0} /\ Gens = 1..MaxGen /\ gen \in Nat
         /\ 0 \in 0..MaxGen /\ \A g \in Gens : g \in 0..MaxGen
         /\ gen < MaxGen => gen + 1 \in 0..MaxGen /\ gen + 1 \in Gens
         /\ taken # 0 => taken \in Gens
         /\ pending # 0 => pending \in Gens
         /\ frame # 0 => frame \in Gens
<1>1. MaxGen \in Nat \ {0}
  BY RtspAssumption
<1>2. gen \in 0..MaxGen /\ frame \in 0..MaxGen
      /\ pending \in 0..MaxGen /\ taken \in 0..MaxGen
  BY DEF Scalars
<1> QED BY <1>1, <1>2 DEF Gens

(* A step of a thread moves it and no other.                               *)
LEMMA WorkerMoves ==
  ASSUME VInv, NEW g \in Gens, NEW p, Become(g, p)
  PROVE  /\ DOMAIN worker' = Gens
         /\ \A h \in Gens : worker'[h] = IF h = g THEN p ELSE worker[h]
BY DEF VInv, Decoders, Become

(* ... to one of the places there are.                                     *)
LEMMA WorkerTyped ==
  ASSUME VInv, NEW g \in Gens, NEW p \in Stages, Become(g, p)
  PROVE  worker' \in [Gens -> Stages]
BY DEF VInv, Decoders, Become

(* The next thread is started when no other is alive, on the source shown. *)
LEMMA Launches ==
  ASSUME VInv, Joined
  PROVE  /\ gui = "joining" /\ gui' = "idle" /\ failed' = FALSE
         /\ status' \in {"Waiting", "Connecting"}
         /\ UNCHANGED <<source, frame, gen, pending, flag, taken, timer, events,
                         stop, frames>>
         /\ gen \in Gens /\ worker[gen] = "none" /\ frame = 0 /\ ~timer
         /\ \A g \in Gens : worker[g] \in {"none", "done"}
         /\ worker' \in [Gens -> Stages]
         /\ origin' \in [Gens -> Sources \cup {""}]
         /\ \/ source = "" /\ worker' = worker /\ origin' = origin
            \/ /\ worker'[gen] = "opening" /\ origin'[gen] = source
               /\ \A h \in Gens : h # gen =>
                    worker'[h] = worker[h] /\ origin'[h] = origin[h]
<1>1. gui = "joining" /\ \A g \in Gens : worker[g] \in {"none", "done"}
  BY DEF Joined, Alive
<1>2. gen \in Gens /\ worker[gen] = "none" /\ frame = 0 /\ ~timer
  BY <1>1 DEF VInv, Threads
<1>3. /\ worker \in [Gens -> Stages] /\ origin \in [Gens -> Sources \cup {""}]
      /\ source \in Sources \cup {""}
  BY DEF VInv, Decoders, Scalars
<1>4. /\ gui' = "idle" /\ failed' = FALSE
      /\ UNCHANGED <<source, frame, gen, slot, taken, timer, events, stop,
                      frames>>
  BY DEF Joined, Launch
<1>5. CASE source = ""
  <2>1. status' = "Waiting" /\ worker' = worker /\ origin' = origin
    BY <1>5 DEF Joined, Launch
  <2> QED BY <1>1, <1>2, <1>3, <1>4, <1>5, <2>1 DEF slot
<1>6. CASE source # ""
  <2>1. /\ status' = "Connecting"
        /\ worker' = [worker EXCEPT ![gen] = "opening"]
        /\ origin' = [origin EXCEPT ![gen] = source]
    BY <1>6 DEF Joined, Launch, Become
  <2>2. "opening" \in Stages
    BY DEF Stages
  <2> QED BY <1>1, <1>2, <1>3, <1>4, <2>1, <2>2 DEF slot
<1> QED BY <1>5, <1>6

(* A queued call comes behind those that wait.                             *)
LEMMA Posted ==
  ASSUME VInv, NEW kind \in {"deliver", "failure", "error", "status"},
         NEW g \in 0..MaxGen, Post(Event(kind, g))
  PROVE  /\ events' \in Seq(Events)
         /\ \A i \in DOMAIN events :
              i \in DOMAIN events' /\ events'[i] = events[i]
         /\ \A i \in DOMAIN events' :
              \/ i \in DOMAIN events /\ events'[i] = events[i]
              \/ events'[i].kind = kind /\ events'[i].gen = g
         /\ \E i \in DOMAIN events' : events'[i].kind = kind
<1> DEFINE e == Event(kind, g)
<1>1. e \in Events /\ e.kind = kind /\ e.gen = g
  BY DEF Event, Events
<1>2. events \in Seq(Events) /\ Len(events) \in Nat
  BY DEF VInv, Queue
<1>3. events' = Append(events, e)
  BY DEF Post
<1> HIDE DEF e
<1>4. /\ events' \in Seq(Events) /\ Len(events') = Len(events) + 1
      /\ events'[Len(events) + 1] = e
      /\ \A i \in 1..Len(events) : events'[i] = events[i]
  BY <1>1, <1>2, <1>3
<1>5. DOMAIN events = 1..Len(events) /\ DOMAIN events' = 1..(Len(events) + 1)
  BY <1>2, <1>4
<1> QED BY <1>1, <1>2, <1>4, <1>5

(* The GUI thread takes the first call, and the others wait on.            *)
LEMMA TakenOff ==
  ASSUME VInv, NEW kind, Takes(kind)
  PROVE  /\ events' \in Seq(Events)
         /\ 1 \in DOMAIN events /\ Head(events) = events[1]
         /\ Head(events) \in Events /\ Head(events).kind = kind
         /\ \A i \in DOMAIN events' :
              \E j \in DOMAIN events : events'[i] = events[j]
         /\ \A j \in DOMAIN events : events[j].kind # kind =>
              \E i \in DOMAIN events' : events'[i] = events[j]
<1>1. events \in Seq(Events) /\ Len(events) \in Nat /\ events # <<>>
  BY DEF VInv, Queue, Takes
<1>2. events' = Tail(events) /\ Head(events).kind = kind
  BY DEF Takes
<1>3. /\ events' \in Seq(Events) /\ Len(events) # 0
      /\ Len(events') = Len(events) - 1
      /\ Head(events) = events[1] /\ events[1] \in Events
      /\ \A i \in 1..(Len(events) - 1) : events'[i] = events[i + 1]
  BY <1>1, <1>2
<1>4. DOMAIN events = 1..Len(events) /\ DOMAIN events' = 1..(Len(events) - 1)
  BY <1>1, <1>3
<1>5. ASSUME NEW i \in DOMAIN events'
      PROVE  \E j \in DOMAIN events : events'[i] = events[j]
  <2>1. i + 1 \in DOMAIN events /\ events'[i] = events[i + 1]
    BY <1>1, <1>3, <1>4
  <2> QED BY <2>1
<1>6. ASSUME NEW j \in DOMAIN events, events[j].kind # kind
      PROVE  \E i \in DOMAIN events' : events'[i] = events[j]
  <2>1. j # 1
    BY <1>2, <1>3, <1>6
  <2>2. j - 1 \in DOMAIN events' /\ events'[j - 1] = events[j]
    BY <2>1, <1>1, <1>3, <1>4
  <2> QED BY <2>2
<1> QED BY <1>1, <1>2, <1>3, <1>4, <1>5, <1>6

-----------------------------------------------------------------------------
(* Each conjunct is preserved by every step.                               *)

(* The values that are not functions have their types.                     *)
LEMMA KeepsScalars ==
  ASSUME VInv, [Next]_vars PROVE Scalars'
<1>1. ASSUME NEW s \in Sources \cup {""}, SetSource(s) PROVE Scalars'
  BY <1>1, Bounds DEF SetSource, Scalars, Places, VInv
<1>2. CASE TimerFires
  BY <1>2 DEF TimerFires, Scalars, Places, VInv, shown, slot
<1>3. CASE Destroy
  BY <1>3 DEF Destroy, Scalars, Places, VInv, shown, slot
<1>4. CASE StartWorker
  BY <1>4, Bounds DEF StartWorker, Scalars, Places, Threads, VInv
<1>5. CASE StopWorker
  BY <1>5 DEF StopWorker, Scalars, Places, VInv, shown, slot
<1>6. CASE Joined
  BY <1>6, Launches DEF Scalars, Places, VInv
<1>7. CASE Gone
  BY <1>7 DEF Gone, Scalars, Places, VInv, shown, slot
<1>8. CASE TakePending
  BY <1>8, Bounds DEF TakePending, Scalars, Places, VInv, shown
<1>9. CASE ShowFrame
  BY <1>9, Bounds DEF ShowFrame, Scalars, Places, VInv, shown, slot
<1>10. CASE Unflag
  BY <1>10 DEF Unflag, Scalars, Places, VInv, shown
<1>11. CASE CheckPending
  BY <1>11 DEF CheckPending, Scalars, Places, VInv, shown
<1>12. CASE HandleStatusChanged
  BY <1>12 DEF HandleStatusChanged, Scalars, VInv, slot
<1>13. CASE HandleErrorChanged
  BY <1>13 DEF HandleErrorChanged, Scalars, VInv, slot
<1>14. CASE HandleStreamFailure
  BY <1>14 DEF HandleStreamFailure, Scalars, VInv, slot
<1>15. ASSUME NEW g \in Gens, Opens(g) PROVE Scalars'
  BY <1>15 DEF Opens, Scalars, VInv, shown, slot
<1>16. ASSUME NEW g \in Gens, OpenFails(g) PROVE Scalars'
  BY <1>16 DEF OpenFails, Scalars, VInv, shown, slot
<1>17. ASSUME NEW g \in Gens, Unusable(g) PROVE Scalars'
  BY <1>17 DEF Unusable, Scalars, VInv, shown, slot
<1>18. ASSUME NEW g \in Gens, QueueFrame(g) PROVE Scalars'
  BY <1>18, Bounds DEF QueueFrame, Scalars, VInv, shown
<1>19. ASSUME NEW g \in Gens, PostDelivery(g) PROVE Scalars'
  BY <1>19 DEF PostDelivery, Scalars, VInv, shown, slot
<1>20. ASSUME NEW g \in Gens, SeesStop(g) PROVE Scalars'
  BY <1>20 DEF SeesStop, Scalars, VInv, shown, slot
<1>21. ASSUME NEW g \in Gens, ReadFails(g) PROVE Scalars'
  BY <1>21 DEF ReadFails, Scalars, VInv, shown, slot
<1>22. ASSUME NEW g \in Gens, Decode(g) PROVE Scalars'
  BY <1>22 DEF Decode, Scalars, VInv, shown, slot
<1>23. CASE UNCHANGED vars
  BY <1>23 DEF VInv, Scalars, vars, shown, slot
<1> QED BY <1>1, <1>2, <1>3, <1>4, <1>5, <1>6, <1>7, <1>8, <1>9, <1>10, <1>11,
   <1>12, <1>13, <1>14, <1>15, <1>16, <1>17, <1>18, <1>19, <1>20, <1>21,
   <1>22, <1>23 DEF Next, GuiStep, WorkerStep

(* The queued calls are calls.                                             *)
LEMMA KeepsQueue ==
  ASSUME VInv, [Next]_vars PROVE Queue'
<1>1. ASSUME NEW s \in Sources \cup {""}, SetSource(s) PROVE Queue'
  BY <1>1 DEF SetSource, Queue, VInv
<1>2. CASE TimerFires
  BY <1>2 DEF TimerFires, Queue, VInv
<1>3. CASE Destroy
  BY <1>3 DEF Destroy, Queue, VInv
<1>4. CASE StartWorker
  BY <1>4 DEF StartWorker, Queue, VInv
<1>5. CASE StopWorker
  BY <1>5 DEF StopWorker, Queue, VInv
<1>6. CASE Joined
  BY <1>6, Launches DEF Queue, VInv
<1>7. CASE Gone
  BY <1>7 DEF Gone, Queue, VInv
<1>8. CASE TakePending
  BY <1>8, TakenOff DEF TakePending, Queue, VInv
<1>9. CASE ShowFrame
  BY <1>9 DEF ShowFrame, Queue, VInv
<1>10. CASE Unflag
  BY <1>10 DEF Unflag, Queue, VInv
<1>11. CASE CheckPending
  BY <1>11, Bounds, Posted DEF CheckPending, Queue, VInv
<1>12. CASE HandleStatusChanged
  BY <1>12, TakenOff DEF HandleStatusChanged, Queue, VInv
<1>13. CASE HandleErrorChanged
  BY <1>13, TakenOff DEF HandleErrorChanged, Queue, VInv
<1>14. CASE HandleStreamFailure
  BY <1>14, TakenOff DEF HandleStreamFailure, Queue, VInv
<1>15. ASSUME NEW g \in Gens, Opens(g) PROVE Queue'
  BY <1>15 DEF Opens, Queue, VInv
<1>16. ASSUME NEW g \in Gens, OpenFails(g) PROVE Queue'
  BY <1>16, Bounds, Posted DEF OpenFails, Queue, VInv
<1>17. ASSUME NEW g \in Gens, Unusable(g) PROVE Queue'
  BY <1>17, Bounds, Posted DEF Unusable, Queue, VInv
<1>18. ASSUME NEW g \in Gens, QueueFrame(g) PROVE Queue'
  BY <1>18 DEF QueueFrame, Queue, VInv
<1>19. ASSUME NEW g \in Gens, PostDelivery(g) PROVE Queue'
  BY <1>19, Bounds, Posted DEF PostDelivery, Queue, VInv
<1>20. ASSUME NEW g \in Gens, SeesStop(g) PROVE Queue'
  BY <1>20 DEF SeesStop, Queue, VInv
<1>21. ASSUME NEW g \in Gens, ReadFails(g) PROVE Queue'
  BY <1>21, Bounds, Posted DEF ReadFails, Queue, VInv
<1>22. ASSUME NEW g \in Gens, Decode(g) PROVE Queue'
  BY <1>22 DEF Decode, Queue, VInv
<1>23. CASE UNCHANGED vars
  BY <1>23 DEF VInv, Queue, vars
<1> QED BY <1>1, <1>2, <1>3, <1>4, <1>5, <1>6, <1>7, <1>8, <1>9, <1>10, <1>11,
   <1>12, <1>13, <1>14, <1>15, <1>16, <1>17, <1>18, <1>19, <1>20, <1>21,
   <1>22, <1>23 DEF Next, GuiStep, WorkerStep

(* The threads have their types.                                           *)
LEMMA KeepsDecoders ==
  ASSUME VInv, [Next]_vars PROVE Decoders'
<1>1. ASSUME NEW s \in Sources \cup {""}, SetSource(s) PROVE Decoders'
  BY <1>1 DEF SetSource, Decoders, VInv, threads
<1>2. CASE TimerFires
  BY <1>2 DEF TimerFires, Decoders, VInv, threads
<1>3. CASE Destroy
  BY <1>3 DEF Destroy, Decoders, VInv, threads
<1>4. CASE StartWorker
  BY <1>4 DEF StartWorker, Decoders, VInv, threads
<1>5. CASE StopWorker
  BY <1>5 DEF StopWorker, Decoders, VInv
<1>6. CASE Joined
  BY <1>6, Launches DEF Decoders, VInv
<1>7. CASE Gone
  BY <1>7 DEF Gone, Decoders, VInv, threads
<1>8. CASE TakePending
  BY <1>8 DEF TakePending, Decoders, VInv, threads
<1>9. CASE ShowFrame
  BY <1>9 DEF ShowFrame, Decoders, VInv, threads
<1>10. CASE Unflag
  BY <1>10 DEF Unflag, Decoders, VInv, threads
<1>11. CASE CheckPending
  BY <1>11 DEF CheckPending, Decoders, VInv, threads
<1>12. CASE HandleStatusChanged
  BY <1>12 DEF HandleStatusChanged, Decoders, VInv, threads
<1>13. CASE HandleErrorChanged
  BY <1>13 DEF HandleErrorChanged, Decoders, VInv, threads
<1>14. CASE HandleStreamFailure
  BY <1>14 DEF HandleStreamFailure, Decoders, VInv, threads
<1>15. ASSUME NEW g \in Gens, Opens(g) PROVE Decoders'
  BY <1>15, WorkerTyped DEF Opens, Stages, Decoders, VInv
<1>16. ASSUME NEW g \in Gens, OpenFails(g) PROVE Decoders'
  BY <1>16, WorkerTyped DEF OpenFails, Stages, Decoders, VInv
<1>17. ASSUME NEW g \in Gens, Unusable(g) PROVE Decoders'
  BY <1>17, WorkerTyped DEF Unusable, Stages, Decoders, VInv
<1>18. ASSUME NEW g \in Gens, QueueFrame(g) PROVE Decoders'
  BY <1>18, WorkerTyped DEF QueueFrame, Stages, Decoders, VInv
<1>19. ASSUME NEW g \in Gens, PostDelivery(g) PROVE Decoders'
  BY <1>19, WorkerTyped DEF PostDelivery, Stages, Decoders, VInv
<1>20. ASSUME NEW g \in Gens, SeesStop(g) PROVE Decoders'
  BY <1>20, WorkerTyped DEF SeesStop, Stages, Decoders, VInv
<1>21. ASSUME NEW g \in Gens, ReadFails(g) PROVE Decoders'
  BY <1>21, WorkerTyped DEF ReadFails, Stages, Decoders, VInv
<1>22. ASSUME NEW g \in Gens, Decode(g) PROVE Decoders'
  <2>1. worker' \in [Gens -> Stages]
    BY <1>22, WorkerTyped DEF Decode, Stages
  <2>2. frames \in [Gens -> 0..MaxFrames] /\ MaxFrames \in Nat
    BY RtspAssumption DEF VInv, Decoders
  <2>3. /\ frames[g] + 1 \in 0..MaxFrames
        /\ frames' = [frames EXCEPT ![g] = frames[g] + 1]
    BY <1>22, <2>2 DEF Decode
  <2>4. frames' \in [Gens -> 0..MaxFrames]
    BY <2>2, <2>3
  <2> QED BY <1>22, <2>1, <2>4 DEF Decode, Decoders, VInv
<1>23. CASE UNCHANGED vars
  BY <1>23 DEF VInv, Decoders, vars, threads
<1> QED BY <1>1, <1>2, <1>3, <1>4, <1>5, <1>6, <1>7, <1>8, <1>9, <1>10, <1>11,
   <1>12, <1>13, <1>14, <1>15, <1>16, <1>17, <1>18, <1>19, <1>20, <1>21,
   <1>22, <1>23 DEF Next, GuiStep, WorkerStep

(* The timer of the next attempt runs only after a failure.                *)
LEMMA KeepsRetry ==
  ASSUME VInv, [Next]_vars PROVE Retry'
<1>1. ASSUME NEW s \in Sources \cup {""}, SetSource(s) PROVE Retry'
  BY <1>1 DEF SetSource, Retry, Reports, VInv
<1>2. CASE TimerFires
  BY <1>2 DEF TimerFires, Retry, Reports, VInv
<1>3. CASE Destroy
  BY <1>3 DEF Destroy, Retry, Reports, VInv
<1>4. CASE StartWorker
  BY <1>4 DEF StartWorker, Retry, Reports, VInv
<1>5. CASE StopWorker
  BY <1>5 DEF StopWorker, Retry, Reports, VInv, shown
<1>6. CASE Joined
  BY <1>6, Launches DEF Retry, Reports, VInv
<1>7. CASE Gone
  BY <1>7 DEF Gone, Retry, Reports, VInv, shown
<1>8. CASE TakePending
  BY <1>8 DEF TakePending, Retry, Reports, VInv, shown
<1>9. CASE ShowFrame
  BY <1>9 DEF ShowFrame, Retry, Reports, VInv, shown
<1>10. CASE Unflag
  BY <1>10 DEF Unflag, Retry, Reports, VInv, shown
<1>11. CASE CheckPending
  BY <1>11 DEF CheckPending, Retry, Reports, VInv, shown
<1>12. CASE HandleStatusChanged
  BY <1>12, TakenOff DEF HandleStatusChanged, Retry, Reports, VInv
<1>13. CASE HandleErrorChanged
  BY <1>13 DEF HandleErrorChanged, Retry, Reports, VInv
<1>14. CASE HandleStreamFailure
  BY <1>14 DEF HandleStreamFailure, Retry, Reports, VInv
<1>15. ASSUME NEW g \in Gens, Opens(g) PROVE Retry'
  BY <1>15 DEF Opens, Retry, Reports, VInv, shown
<1>16. ASSUME NEW g \in Gens, OpenFails(g) PROVE Retry'
  BY <1>16 DEF OpenFails, Retry, Reports, VInv, shown
<1>17. ASSUME NEW g \in Gens, Unusable(g) PROVE Retry'
  BY <1>17 DEF Unusable, Retry, Reports, VInv, shown
<1>18. ASSUME NEW g \in Gens, QueueFrame(g) PROVE Retry'
  BY <1>18 DEF QueueFrame, Retry, Reports, VInv, shown
<1>19. ASSUME NEW g \in Gens, PostDelivery(g) PROVE Retry'
  BY <1>19 DEF PostDelivery, Retry, Reports, VInv, shown
<1>20. ASSUME NEW g \in Gens, SeesStop(g) PROVE Retry'
  BY <1>20 DEF SeesStop, Retry, Reports, VInv, shown
<1>21. ASSUME NEW g \in Gens, ReadFails(g) PROVE Retry'
  BY <1>21 DEF ReadFails, Retry, Reports, VInv, shown
<1>22. ASSUME NEW g \in Gens, Decode(g) PROVE Retry'
  BY <1>22 DEF Decode, Retry, Reports, VInv, shown
<1>23. CASE UNCHANGED vars
  BY <1>23 DEF VInv, Retry, Reports, vars, shown
<1> QED BY <1>1, <1>2, <1>3, <1>4, <1>5, <1>6, <1>7, <1>8, <1>9, <1>10, <1>11,
   <1>12, <1>13, <1>14, <1>15, <1>16, <1>17, <1>18, <1>19, <1>20, <1>21,
   <1>22, <1>23 DEF Next, GuiStep, WorkerStep

(* Old threads and the current one are where Threads says.                 *)
LEMMA KeepsThreads ==
  ASSUME VInv, [Next]_vars PROVE Threads'
<1>1. ASSUME NEW s \in Sources \cup {""}, SetSource(s) PROVE Threads'
  BY <1>1 DEF SetSource, Threads, VInv, threads
<1>2. CASE TimerFires
  BY <1>2 DEF TimerFires, Threads, VInv, threads
<1>3. CASE Destroy
  BY <1>3 DEF Destroy, Threads, VInv, threads
<1>4. CASE StartWorker
  <2>1. /\ gui = "restart" /\ gui' = "stopping" /\ gen' = gen + 1 /\ frame' = 0
        /\ timer' = FALSE /\ UNCHANGED <<worker, origin, source>>
    BY <1>4 DEF StartWorker, threads
  <2>2. gen + 1 \in Gens /\ gen \in Nat
    BY <2>1, Bounds DEF VInv, Threads
  <2>3. \A g \in Gens : worker[g] # "none" => g <= gen
    BY DEF VInv, Threads
  <2>4. worker[gen + 1] = "none"
    BY <2>2, <2>3
  <2>5. \A g \in Gens : worker[g] # "none" => g <= gen + 1
    BY <2>2, <2>3, Bounds DEF VInv
  <2> QED BY <2>1, <2>2, <2>4, <2>5 DEF Threads
<1>5. CASE StopWorker
  BY <1>5 DEF StopWorker, Threads, VInv, shown
<1>6. CASE Joined
  <2>1. /\ gui' = "idle" /\ gen' = gen /\ gen \in Gens /\ worker[gen] = "none"
        /\ source' = source /\ gen \in Nat
    BY <1>6, Launches, Bounds DEF VInv
  <2>2. \A g \in Gens : worker[g] # "none" => g <= gen
    BY DEF VInv, Threads
  <2>3. CASE worker' = worker /\ origin' = origin
    BY <2>1, <2>2, <2>3 DEF Threads
  <2>4. CASE /\ origin'[gen] = source
             /\ \A g \in Gens : g # gen => worker'[g] = worker[g]
    BY <2>1, <2>2, <2>4 DEF Threads
  <2> QED BY <1>6, Launches, <2>3, <2>4
<1>7. CASE Gone
  BY <1>7 DEF Gone, Threads, VInv, threads
<1>8. CASE TakePending
  BY <1>8 DEF TakePending, Takes, Threads, VInv, threads
<1>9. CASE ShowFrame
  BY <1>9 DEF ShowFrame, Threads, VInv, threads
<1>10. CASE Unflag
  BY <1>10 DEF Unflag, Threads, VInv, threads
<1>11. CASE CheckPending
  BY <1>11 DEF CheckPending, Threads, VInv, threads
<1>12. CASE HandleStatusChanged
  BY <1>12 DEF HandleStatusChanged, Threads, VInv, threads
<1>13. CASE HandleErrorChanged
  BY <1>13 DEF HandleErrorChanged, Threads, VInv, threads
<1>14. CASE HandleStreamFailure
  BY <1>14 DEF HandleStreamFailure, Takes, Threads, VInv, threads
<1>15. ASSUME NEW g \in Gens, Opens(g) PROVE Threads'
  BY <1>15, WorkerMoves DEF Opens, Threads, VInv, shown
<1>16. ASSUME NEW g \in Gens, OpenFails(g) PROVE Threads'
  BY <1>16, WorkerMoves DEF OpenFails, Threads, VInv, shown
<1>17. ASSUME NEW g \in Gens, Unusable(g) PROVE Threads'
  BY <1>17, WorkerMoves DEF Unusable, Threads, VInv, shown
<1>18. ASSUME NEW g \in Gens, QueueFrame(g) PROVE Threads'
  BY <1>18, WorkerMoves DEF QueueFrame, Threads, VInv, shown
<1>19. ASSUME NEW g \in Gens, PostDelivery(g) PROVE Threads'
  BY <1>19, WorkerMoves DEF PostDelivery, Threads, VInv, shown
<1>20. ASSUME NEW g \in Gens, SeesStop(g) PROVE Threads'
  BY <1>20, WorkerMoves DEF SeesStop, Threads, VInv, shown
<1>21. ASSUME NEW g \in Gens, ReadFails(g) PROVE Threads'
  BY <1>21, WorkerMoves DEF ReadFails, Threads, VInv, shown
<1>22. ASSUME NEW g \in Gens, Decode(g) PROVE Threads'
  BY <1>22, WorkerMoves DEF Decode, Threads, VInv, shown
<1>23. CASE UNCHANGED vars
  BY <1>23 DEF VInv, Threads, vars, shown, threads
<1> QED BY <1>1, <1>2, <1>3, <1>4, <1>5, <1>6, <1>7, <1>8, <1>9, <1>10, <1>11,
   <1>12, <1>13, <1>14, <1>15, <1>16, <1>17, <1>18, <1>19, <1>20, <1>21,
   <1>22, <1>23 DEF Next, GuiStep, WorkerStep

(* Frames under way are of threads that were started.                      *)
LEMMA KeepsSlot ==
  ASSUME VInv, [Next]_vars PROVE Slot'
<1>1. ASSUME NEW s \in Sources \cup {""}, SetSource(s) PROVE Slot'
  BY <1>1 DEF SetSource, Slot, VInv
<1>2. CASE TimerFires
  BY <1>2 DEF TimerFires, Slot, VInv, slot, threads
<1>3. CASE Destroy
  BY <1>3 DEF Destroy, Slot, VInv, slot, threads
<1>4. CASE StartWorker
  BY <1>4 DEF StartWorker, Slot, VInv
<1>5. CASE StopWorker
  BY <1>5 DEF StopWorker, Slot, VInv, slot
<1>6. CASE Joined
  BY <1>6, Bounds, Launches DEF Slot, VInv
<1>7. CASE Gone
  BY <1>7 DEF Gone, Slot, VInv, slot, threads
<1>8. CASE TakePending
  BY <1>8 DEF TakePending, Slot, VInv, threads
<1>9. CASE ShowFrame
  BY <1>9 DEF ShowFrame, Slot, VInv, slot, threads
<1>10. CASE Unflag
  BY <1>10 DEF Unflag, Slot, VInv, threads
<1>11. CASE CheckPending
  BY <1>11 DEF CheckPending, Slot, VInv, threads
<1>12. CASE HandleStatusChanged
  BY <1>12 DEF HandleStatusChanged, Slot, VInv, slot, threads
<1>13. CASE HandleErrorChanged
  BY <1>13 DEF HandleErrorChanged, Slot, VInv, slot, threads
<1>14. CASE HandleStreamFailure
  BY <1>14 DEF HandleStreamFailure, Slot, VInv, slot, threads
<1>15. ASSUME NEW g \in Gens, Opens(g) PROVE Slot'
  BY <1>15, Bounds, WorkerMoves DEF Opens, Slot, VInv, slot
<1>16. ASSUME NEW g \in Gens, OpenFails(g) PROVE Slot'
  BY <1>16, Bounds, WorkerMoves DEF OpenFails, Slot, VInv, slot
<1>17. ASSUME NEW g \in Gens, Unusable(g) PROVE Slot'
  BY <1>17, Bounds, WorkerMoves DEF Unusable, Slot, VInv, slot
<1>18. ASSUME NEW g \in Gens, QueueFrame(g) PROVE Slot'
  BY <1>18, Bounds, WorkerMoves DEF QueueFrame, Slot, VInv
<1>19. ASSUME NEW g \in Gens, PostDelivery(g) PROVE Slot'
  BY <1>19, Bounds, WorkerMoves DEF PostDelivery, Slot, VInv, slot
<1>20. ASSUME NEW g \in Gens, SeesStop(g) PROVE Slot'
  BY <1>20, Bounds, WorkerMoves DEF SeesStop, Slot, VInv, slot
<1>21. ASSUME NEW g \in Gens, ReadFails(g) PROVE Slot'
  <2>1. /\ UNCHANGED <<pending, taken, gui>>
        /\ \E p \in {"failing", "done"} : Become(g, p)
    BY <1>21 DEF ReadFails, slot
  <2>2. /\ Slot
        /\ taken # 0 => taken \in Gens
        /\ pending # 0 => pending \in Gens
    BY Bounds DEF VInv
  <2>3. \A h \in Gens : worker[h] # "none" => worker'[h] # "none"
    BY <2>1, WorkerMoves
  <2> QED BY <2>1, <2>2, <2>3 DEF Slot
<1>22. ASSUME NEW g \in Gens, Decode(g) PROVE Slot'
  BY <1>22, Bounds, WorkerMoves DEF Decode, Slot, VInv, slot
<1>23. CASE UNCHANGED vars
  BY <1>23 DEF VInv, Slot, vars, slot, threads
<1> QED BY <1>1, <1>2, <1>3, <1>4, <1>5, <1>6, <1>7, <1>8, <1>9, <1>10, <1>11,
   <1>12, <1>13, <1>14, <1>15, <1>16, <1>17, <1>18, <1>19, <1>20, <1>21,
   <1>22, <1>23 DEF Next, GuiStep, WorkerStep

(* Only threads that have ended report.                                    *)
LEMMA KeepsReports ==
  ASSUME VInv, [Next]_vars PROVE Reports'
<1>r. Reports
  BY DEF VInv
<1>1. ASSUME NEW s \in Sources \cup {""}, SetSource(s) PROVE Reports'
  <2>1. events' = events /\ worker' = worker /\ gen' = gen /\ timer' = timer
    BY <1>1 DEF SetSource, threads
  <2>2. \A i \in DOMAIN events' : events'[i].kind \in {"failure", "status"} =>
          events'[i].gen \in Gens /\ worker'[events'[i].gen] = "done"
    BY <1>r, <2>1, Zenon DEF Reports
  <2>3. \A i, j \in DOMAIN events' :
          events'[i].kind = "failure" /\ events'[j].kind = "status" =>
            events'[i].gen # events'[j].gen
    <3> DEFINE Once(ev) == \A i, j \in DOMAIN ev :
                             ev[i].kind = "failure" /\ ev[j].kind = "status" =>
                               ev[i].gen # ev[j].gen
    <3>1. Once(events)
      BY <1>r, Zenon DEF Reports
    <3> HIDE DEF Once
    <3>2. Once(events')
      BY <2>1, <3>1, Zenon
    <3> QED BY <3>2, Zenon DEF Once
  <2>4. \A i \in DOMAIN events' :
          events'[i].kind = "status" /\ events'[i].gen = gen' => ~timer'
    BY <1>r, <2>1, Zenon DEF Reports
  <2>5. gen' \in Gens /\ Alive(gen)' => ~timer'
    BY <1>r, <2>1, Zenon DEF Reports, Alive
  <2> QED BY <2>2, <2>3, <2>4, <2>5, Zenon DEF Reports
<1>2. CASE TimerFires
  BY <1>2 DEF TimerFires, Reports, VInv, threads
<1>3. CASE Destroy
  BY <1>3 DEF Destroy, Reports, VInv, threads
<1>4. CASE StartWorker
  BY <1>4 DEF StartWorker, Reports, VInv, threads
<1>5. CASE StopWorker
  BY <1>5 DEF StopWorker, Alive, Reports, VInv
<1>6. CASE Joined
  <2>1. /\ UNCHANGED <<events, gen, timer>> /\ ~timer /\ worker[gen] = "none"
        /\ \A g \in Gens : worker[g] = "done" => worker'[g] = "done"
    BY <1>6, Launches DEF VInv
  <2> QED BY <2>1 DEF VInv, Reports
<1>7. CASE Gone
  BY <1>7 DEF Gone, Alive, Reports, VInv, threads
<1>8. CASE TakePending
  BY <1>8, TakenOff DEF TakePending, Reports, Alive, VInv, threads
<1>9. CASE ShowFrame
  BY <1>9 DEF ShowFrame, Reports, Alive, VInv, threads
<1>10. CASE Unflag
  BY <1>10 DEF Unflag, Reports, Alive, VInv, threads
<1>11. CASE CheckPending
  <2>1. UNCHANGED <<worker, gen, timer>>
    BY <1>11 DEF CheckPending, threads
  <2>2. CASE UNCHANGED events
    BY <1>r, <2>1, <2>2 DEF Reports, Alive
  <2>3. CASE Post(Event("deliver", 0))
    <3>1. /\ events' \in Seq(Events)
          /\ \A i \in DOMAIN events' :
               \/ i \in DOMAIN events /\ events'[i] = events[i]
               \/ events'[i].kind = "deliver"
      BY <2>3, Bounds, Posted DEF VInv
    <3> QED BY <1>r, <2>1, <3>1 DEF Reports, Alive
  <2> QED BY <1>11, <2>2, <2>3 DEF CheckPending
<1>12. CASE HandleStatusChanged
  <2>1. /\ \A i \in DOMAIN events' :
             \E j \in DOMAIN events : events'[i] = events[j]
        /\ UNCHANGED <<gen, worker>>
        /\ 1 \in DOMAIN events /\ Head(events) = events[1]
    BY <1>12, TakenOff DEF HandleStatusChanged, threads
  <2>2. \A i \in DOMAIN events' : events'[i].kind \in {"failure", "status"} =>
          events'[i].gen \in Gens /\ worker[events'[i].gen] = "done"
    BY <2>1 DEF VInv, Reports
  <2>3. \A i, j \in DOMAIN events' :
          events'[i].kind = "failure" /\ events'[j].kind = "status"
            => events'[i].gen # events'[j].gen
    BY <2>1 DEF VInv, Reports
  <2>4. timer' = timer
    BY <1>12 DEF HandleStatusChanged
  <2> QED BY <2>1, <2>2, <2>3, <2>4 DEF VInv, Reports, Alive
<1>13. CASE HandleErrorChanged
  <2>1. /\ \A i \in DOMAIN events' :
             \E j \in DOMAIN events : events'[i] = events[j]
        /\ UNCHANGED <<gen, worker>>
        /\ 1 \in DOMAIN events /\ Head(events) = events[1]
    BY <1>13, TakenOff DEF HandleErrorChanged, threads
  <2>2. \A i \in DOMAIN events' : events'[i].kind \in {"failure", "status"} =>
          events'[i].gen \in Gens /\ worker[events'[i].gen] = "done"
    BY <2>1 DEF VInv, Reports
  <2>3. \A i, j \in DOMAIN events' :
          events'[i].kind = "failure" /\ events'[j].kind = "status"
            => events'[i].gen # events'[j].gen
    BY <2>1 DEF VInv, Reports
  <2>4. timer' = timer
    BY <1>13 DEF HandleErrorChanged
  <2> QED BY <2>1, <2>2, <2>3, <2>4 DEF VInv, Reports, Alive
<1>14. CASE HandleStreamFailure
  <2>1. /\ \A i \in DOMAIN events' :
             \E j \in DOMAIN events : events'[i] = events[j]
        /\ UNCHANGED <<gen, worker>>
        /\ 1 \in DOMAIN events /\ Head(events) = events[1]
    BY <1>14, TakenOff DEF HandleStreamFailure, threads
  <2>2. \A i \in DOMAIN events' : events'[i].kind \in {"failure", "status"} =>
          events'[i].gen \in Gens /\ worker[events'[i].gen] = "done"
    BY <2>1 DEF VInv, Reports
  <2>3. \A i, j \in DOMAIN events' :
          events'[i].kind = "failure" /\ events'[j].kind = "status"
            => events'[i].gen # events'[j].gen
    BY <2>1 DEF VInv, Reports
  <2>4. CASE timer' = timer
    BY <2>1, <2>2, <2>3, <2>4 DEF VInv, Reports, Alive
  <2>5. CASE timer' # timer
    <3>1. events[1].kind = "failure" /\ events[1].gen = gen
      BY <1>14, <2>1, <2>5 DEF HandleStreamFailure, Takes
    <3>2. /\ worker[gen] = "done"
          /\ \A j \in DOMAIN events :
               events[j].kind = "status" => events[j].gen # gen
      BY <3>1, <2>1 DEF VInv, Reports
    <3> QED BY <2>1, <2>2, <2>3, <3>2 DEF Reports, Alive
  <2> QED BY <2>4, <2>5
<1>15. ASSUME NEW g \in Gens, Opens(g) PROVE Reports'
  BY <1>15, WorkerMoves DEF Opens, Reports, Alive, VInv
<1>16. ASSUME NEW g \in Gens, OpenFails(g) PROVE Reports'
  <2>1. /\ worker[g] = "opening" /\ worker'[g] = "done"
        /\ UNCHANGED <<gen, timer>>
        /\ \A h \in Gens : h # g => worker'[h] = worker[h]
    BY <1>16, WorkerMoves DEF OpenFails
  <2>2. \A i \in DOMAIN events' :
          \/ i \in DOMAIN events /\ events'[i] = events[i]
          \/ events'[i].kind = "failure" /\ events'[i].gen = g
    BY <1>16, Posted, Bounds DEF OpenFails, VInv
  <2> QED BY <2>1, <2>2 DEF VInv, Reports, Alive
<1>17. ASSUME NEW g \in Gens, Unusable(g) PROVE Reports'
  <2>1. CASE worker[g] = "opening"
    <3>1. /\ worker[g] = "opening" /\ worker'[g] = "unusable"
          /\ UNCHANGED <<gen, timer>>
          /\ \A h \in Gens : h # g => worker'[h] = worker[h]
      BY <1>17, <2>1, WorkerMoves DEF Unusable
    <3>2. \A i \in DOMAIN events' :
            \/ i \in DOMAIN events /\ events'[i] = events[i]
            \/ events'[i].kind = "error" /\ events'[i].gen = g
      BY <1>17, <2>1, Posted, Bounds DEF Unusable, VInv
    <3> QED BY <3>1, <3>2 DEF VInv, Reports, Alive
  <2>2. CASE worker[g] = "unusable"
    <3>1. /\ worker[g] = "unusable" /\ worker'[g] = "done"
          /\ UNCHANGED <<gen, timer>>
          /\ \A h \in Gens : h # g => worker'[h] = worker[h]
      BY <1>17, <2>2, WorkerMoves DEF Unusable
    <3>2. \A i \in DOMAIN events' :
            \/ i \in DOMAIN events /\ events'[i] = events[i]
            \/ events'[i].kind = "status" /\ events'[i].gen = g
      BY <1>17, <2>2, Posted, Bounds DEF Unusable, VInv
    <3>3. ~timer \/ g # gen
      BY <2>2 DEF VInv, Reports, Alive
    <3> QED BY <3>1, <3>2, <3>3 DEF VInv, Reports, Alive
  <2> QED BY <1>17, <2>1, <2>2 DEF Unusable
<1>18. ASSUME NEW g \in Gens, QueueFrame(g) PROVE Reports'
  BY <1>18, WorkerMoves DEF QueueFrame, Reports, Alive, VInv
<1>19. ASSUME NEW g \in Gens, PostDelivery(g) PROVE Reports'
  <2>1. /\ worker[g] = "posting" /\ worker'[g] = "reading"
        /\ UNCHANGED <<gen, timer>>
        /\ \A h \in Gens : h # g => worker'[h] = worker[h]
    BY <1>19, WorkerMoves DEF PostDelivery
  <2>2. \A i \in DOMAIN events' :
          \/ i \in DOMAIN events /\ events'[i] = events[i]
          \/ events'[i].kind = "deliver" /\ events'[i].gen = 0
    BY <1>19, Posted, Bounds DEF PostDelivery, VInv
  <2> QED BY <2>1, <2>2 DEF VInv, Reports, Alive
<1>20. ASSUME NEW g \in Gens, SeesStop(g) PROVE Reports'
  BY <1>20, WorkerMoves DEF SeesStop, Reports, Alive, VInv
<1>21. ASSUME NEW g \in Gens, ReadFails(g) PROVE Reports'
  <2>1. /\ worker[g] \in {"reading", "failing"}
        /\ worker'[g] \in {"failing", "done"}
        /\ UNCHANGED <<gen, timer>>
        /\ \A h \in Gens : h # g => worker'[h] = worker[h]
    BY <1>21, WorkerMoves DEF ReadFails
  <2>2. CASE events' = events
    BY <2>1, <2>2 DEF VInv, Reports, Alive
  <2>3. CASE worker[g] = "failing" /\ Post(Event("failure", g))
    <3>1. \A i \in DOMAIN events' :
            \/ i \in DOMAIN events /\ events'[i] = events[i]
            \/ events'[i].kind = "failure" /\ events'[i].gen = g
      BY <2>3, Posted, Bounds DEF VInv
    <3>2. worker'[g] = "done"
      BY <1>21, <2>3, WorkerMoves DEF ReadFails
    <3> QED BY <2>1, <3>1, <3>2 DEF VInv, Reports, Alive
  <2> QED BY <1>21, <2>2, <2>3 DEF ReadFails
<1>22. ASSUME NEW g \in Gens, Decode(g) PROVE Reports'
  BY <1>22, WorkerMoves DEF Decode, Reports, Alive, VInv
<1>23. CASE UNCHANGED vars
  BY <1>23 DEF VInv, Reports, Alive, vars, threads
<1> QED BY <1>1, <1>2, <1>3, <1>4, <1>5, <1>6, <1>7, <1>8, <1>9, <1>10, <1>11,
   <1>12, <1>13, <1>14, <1>15, <1>16, <1>17, <1>18, <1>19, <1>20, <1>21,
   <1>22, <1>23 DEF Next, GuiStep, WorkerStep

(* The picture is of the source shown.                                     *)
LEMMA KeepsFrameIsOfSource ==
  ASSUME VInv, [Next]_vars PROVE FrameIsOfSource'
<1>1. ASSUME NEW s \in Sources \cup {""}, SetSource(s) PROVE FrameIsOfSource'
  BY <1>1 DEF SetSource, FrameIsOfSource, VInv
<1>2. CASE TimerFires
  BY <1>2 DEF TimerFires, FrameIsOfSource, VInv, shown, threads
<1>3. CASE Destroy
  BY <1>3 DEF Destroy, FrameIsOfSource, VInv, shown, threads
<1>4. CASE StartWorker
  BY <1>4 DEF StartWorker, FrameIsOfSource, VInv
<1>5. CASE StopWorker
  BY <1>5 DEF StopWorker, FrameIsOfSource, VInv, shown
<1>6. CASE Joined
  BY <1>6, Launches DEF FrameIsOfSource, VInv
<1>7. CASE Gone
  BY <1>7 DEF Gone, FrameIsOfSource, VInv, shown, threads
<1>8. CASE TakePending
  BY <1>8 DEF TakePending, FrameIsOfSource, VInv, shown, threads
<1>9. CASE ShowFrame
  BY <1>9, Bounds DEF ShowFrame, Threads, Slot, FrameIsOfSource, VInv, shown,
     threads
<1>10. CASE Unflag
  BY <1>10 DEF Unflag, FrameIsOfSource, VInv, shown, threads
<1>11. CASE CheckPending
  BY <1>11 DEF CheckPending, FrameIsOfSource, VInv, shown, threads
<1>12. CASE HandleStatusChanged
  BY <1>12 DEF HandleStatusChanged, FrameIsOfSource, VInv, threads
<1>13. CASE HandleErrorChanged
  BY <1>13 DEF HandleErrorChanged, FrameIsOfSource, VInv, threads
<1>14. CASE HandleStreamFailure
  BY <1>14 DEF HandleStreamFailure, FrameIsOfSource, VInv, threads
<1>15. ASSUME NEW g \in Gens, Opens(g) PROVE FrameIsOfSource'
  BY <1>15 DEF Opens, FrameIsOfSource, VInv, shown
<1>16. ASSUME NEW g \in Gens, OpenFails(g) PROVE FrameIsOfSource'
  BY <1>16 DEF OpenFails, FrameIsOfSource, VInv, shown
<1>17. ASSUME NEW g \in Gens, Unusable(g) PROVE FrameIsOfSource'
  BY <1>17 DEF Unusable, FrameIsOfSource, VInv, shown
<1>18. ASSUME NEW g \in Gens, QueueFrame(g) PROVE FrameIsOfSource'
  BY <1>18 DEF QueueFrame, FrameIsOfSource, VInv, shown
<1>19. ASSUME NEW g \in Gens, PostDelivery(g) PROVE FrameIsOfSource'
  BY <1>19 DEF PostDelivery, FrameIsOfSource, VInv, shown
<1>20. ASSUME NEW g \in Gens, SeesStop(g) PROVE FrameIsOfSource'
  BY <1>20 DEF SeesStop, FrameIsOfSource, VInv, shown
<1>21. ASSUME NEW g \in Gens, ReadFails(g) PROVE FrameIsOfSource'
  BY <1>21 DEF ReadFails, FrameIsOfSource, VInv, shown
<1>22. ASSUME NEW g \in Gens, Decode(g) PROVE FrameIsOfSource'
  BY <1>22 DEF Decode, FrameIsOfSource, VInv, shown
<1>23. CASE UNCHANGED vars
  BY <1>23 DEF VInv, FrameIsOfSource, vars, shown, threads
<1> QED BY <1>1, <1>2, <1>3, <1>4, <1>5, <1>6, <1>7, <1>8, <1>9, <1>10, <1>11,
   <1>12, <1>13, <1>14, <1>15, <1>16, <1>17, <1>18, <1>19, <1>20, <1>21,
   <1>22, <1>23 DEF Next, GuiStep, WorkerStep

(* Somebody carries the frame in the slot.                                 *)
LEMMA KeepsNoFrameIsStuck ==
  ASSUME VInv, [Next]_vars PROVE NoFrameIsStuck'
<1>1. ASSUME NEW s \in Sources \cup {""}, SetSource(s) PROVE NoFrameIsStuck'
  BY <1>1 DEF SetSource, NoFrameIsStuck, Carried, VInv, threads
<1>2. CASE TimerFires
  BY <1>2 DEF TimerFires, NoFrameIsStuck, Carried, VInv, slot, threads
<1>3. CASE Destroy
  BY <1>3 DEF Destroy, NoFrameIsStuck, Carried, VInv, slot, threads
<1>4. CASE StartWorker
  BY <1>4 DEF StartWorker, NoFrameIsStuck, Carried, VInv, threads
<1>5. CASE StopWorker
  BY <1>5 DEF StopWorker, NoFrameIsStuck, Carried, VInv, slot
<1>6. CASE Joined
  <2>1. /\ gui = "joining" /\ UNCHANGED <<pending, flag, events>>
        /\ \A g \in Gens : worker[g] # "posting"
    BY <1>6, Launches
  <2>2. gui # "gone" /\ NoFrameIsStuck
    BY <2>1 DEF VInv
  <2> QED BY <2>1, <2>2 DEF NoFrameIsStuck, Carried
<1>7. CASE Gone
  BY <1>7 DEF Gone, NoFrameIsStuck, Carried, VInv
<1>8. CASE TakePending
  BY <1>8 DEF TakePending, NoFrameIsStuck, Carried, VInv
<1>9. CASE ShowFrame
  BY <1>9 DEF ShowFrame, NoFrameIsStuck, Carried, VInv, slot
<1>10. CASE Unflag
  BY <1>10 DEF Unflag, NoFrameIsStuck, Carried, VInv
<1>11. CASE CheckPending
  BY <1>11, Bounds, Posted DEF CheckPending, NoFrameIsStuck, Carried, VInv,
     threads
<1>12. CASE HandleStatusChanged
  BY <1>12, TakenOff DEF HandleStatusChanged, NoFrameIsStuck, Carried, VInv,
     slot, threads
<1>13. CASE HandleErrorChanged
  BY <1>13, TakenOff DEF HandleErrorChanged, NoFrameIsStuck, Carried, VInv,
     slot, threads
<1>14. CASE HandleStreamFailure
  BY <1>14, TakenOff DEF HandleStreamFailure, NoFrameIsStuck, Carried, VInv,
     slot, threads
<1>15. ASSUME NEW g \in Gens, Opens(g) PROVE NoFrameIsStuck'
  BY <1>15, WorkerMoves DEF Opens, NoFrameIsStuck, Carried, VInv, slot
<1>16. ASSUME NEW g \in Gens, OpenFails(g) PROVE NoFrameIsStuck'
  BY <1>16, Bounds, WorkerMoves, Posted DEF OpenFails, NoFrameIsStuck,
     Carried, VInv, slot
<1>17. ASSUME NEW g \in Gens, Unusable(g) PROVE NoFrameIsStuck'
  <2>1. /\ UNCHANGED <<pending, flag, gui>> /\ worker[g] # "posting"
        /\ \E p \in {"unusable", "done"} : Become(g, p)
        /\ \E kind \in {"error", "status"} : Post(Event(kind, g))
    BY <1>17 DEF Unusable, slot
  <2>2. NoFrameIsStuck
    BY DEF VInv
  <2>3. \A h \in Gens : worker[h] = "posting" => worker'[h] = "posting"
    BY <2>1, WorkerMoves
  <2>4. \A i \in DOMAIN events : i \in DOMAIN events' /\ events'[i] = events[i]
    BY <2>1, Bounds, Posted DEF VInv
  <2> QED BY <2>1, <2>2, <2>3, <2>4 DEF NoFrameIsStuck, Carried
<1>18. ASSUME NEW g \in Gens, QueueFrame(g) PROVE NoFrameIsStuck'
  BY <1>18, WorkerMoves DEF QueueFrame, NoFrameIsStuck, Carried, VInv
<1>19. ASSUME NEW g \in Gens, PostDelivery(g) PROVE NoFrameIsStuck'
  BY <1>19, Bounds, Posted DEF PostDelivery, NoFrameIsStuck, Carried, VInv,
     slot
<1>20. ASSUME NEW g \in Gens, SeesStop(g) PROVE NoFrameIsStuck'
  BY <1>20, WorkerMoves DEF SeesStop, NoFrameIsStuck, Carried, VInv, slot
<1>21. ASSUME NEW g \in Gens, ReadFails(g) PROVE NoFrameIsStuck'
  BY <1>21, Bounds, WorkerMoves, Posted DEF ReadFails, NoFrameIsStuck,
     Carried, VInv, slot
<1>22. ASSUME NEW g \in Gens, Decode(g) PROVE NoFrameIsStuck'
  BY <1>22, WorkerMoves DEF Decode, NoFrameIsStuck, Carried, VInv, slot
<1>23. CASE UNCHANGED vars
  BY <1>23 DEF VInv, NoFrameIsStuck, Carried, vars, slot, threads
<1> QED BY <1>1, <1>2, <1>3, <1>4, <1>5, <1>6, <1>7, <1>8, <1>9, <1>10, <1>11,
   <1>12, <1>13, <1>14, <1>15, <1>16, <1>17, <1>18, <1>19, <1>20, <1>21,
   <1>22, <1>23 DEF Next, GuiStep, WorkerStep

(* One decoder runs at a time.                                             *)
LEMMA KeepsOneDecoder ==
  ASSUME VInv, [Next]_vars PROVE OneDecoder'
<1>1. ASSUME NEW s \in Sources \cup {""}, SetSource(s) PROVE OneDecoder'
  BY <1>1 DEF SetSource, OneDecoder, Alive, VInv, threads
<1>2. CASE TimerFires
  BY <1>2 DEF TimerFires, OneDecoder, Alive, VInv, threads
<1>3. CASE Destroy
  BY <1>3 DEF Destroy, OneDecoder, Alive, VInv, threads
<1>4. CASE StartWorker
  BY <1>4, Bounds DEF StartWorker, OneDecoder, Alive, VInv, threads
<1>5. CASE StopWorker
  BY <1>5 DEF StopWorker, Alive, OneDecoder, VInv
<1>6. CASE Joined
  BY <1>6, Launches DEF OneDecoder, Alive, VInv
<1>7. CASE Gone
  BY <1>7 DEF Gone, Alive, OneDecoder, VInv, threads
<1>8. CASE TakePending
  BY <1>8 DEF TakePending, Takes, OneDecoder, Alive, VInv, threads
<1>9. CASE ShowFrame
  BY <1>9 DEF ShowFrame, OneDecoder, Alive, VInv, threads
<1>10. CASE Unflag
  BY <1>10 DEF Unflag, OneDecoder, Alive, VInv, threads
<1>11. CASE CheckPending
  BY <1>11 DEF CheckPending, OneDecoder, Alive, VInv, threads
<1>12. CASE HandleStatusChanged
  BY <1>12 DEF HandleStatusChanged, OneDecoder, Alive, VInv, threads
<1>13. CASE HandleErrorChanged
  BY <1>13 DEF HandleErrorChanged, OneDecoder, Alive, VInv, threads
<1>14. CASE HandleStreamFailure
  BY <1>14 DEF HandleStreamFailure, OneDecoder, Alive, VInv, threads
<1>15. ASSUME NEW g \in Gens, Opens(g) PROVE OneDecoder'
  BY <1>15, WorkerMoves DEF Opens, OneDecoder, Alive, VInv
<1>16. ASSUME NEW g \in Gens, OpenFails(g) PROVE OneDecoder'
  BY <1>16, WorkerMoves DEF OpenFails, OneDecoder, Alive, VInv
<1>17. ASSUME NEW g \in Gens, Unusable(g) PROVE OneDecoder'
  BY <1>17, WorkerMoves DEF Unusable, OneDecoder, Alive, VInv
<1>18. ASSUME NEW g \in Gens, QueueFrame(g) PROVE OneDecoder'
  BY <1>18, WorkerMoves DEF QueueFrame, OneDecoder, Alive, VInv
<1>19. ASSUME NEW g \in Gens, PostDelivery(g) PROVE OneDecoder'
  BY <1>19, WorkerMoves DEF PostDelivery, OneDecoder, Alive, VInv
<1>20. ASSUME NEW g \in Gens, SeesStop(g) PROVE OneDecoder'
  BY <1>20, WorkerMoves DEF SeesStop, OneDecoder, Alive, VInv
<1>21. ASSUME NEW g \in Gens, ReadFails(g) PROVE OneDecoder'
  BY <1>21, WorkerMoves DEF ReadFails, OneDecoder, Alive, VInv
<1>22. ASSUME NEW g \in Gens, Decode(g) PROVE OneDecoder'
  BY <1>22, WorkerMoves DEF Decode, OneDecoder, Alive, VInv
<1>23. CASE UNCHANGED vars
  BY <1>23 DEF VInv, OneDecoder, Alive, vars, threads
<1> QED BY <1>1, <1>2, <1>3, <1>4, <1>5, <1>6, <1>7, <1>8, <1>9, <1>10, <1>11,
   <1>12, <1>13, <1>14, <1>15, <1>16, <1>17, <1>18, <1>19, <1>20, <1>21,
   <1>22, <1>23 DEF Next, GuiStep, WorkerStep

-----------------------------------------------------------------------------
(* The theorems.                                                           *)

(* The invariant holds before the first start.                             *)
LEMMA InitInv == Init => VInv
<1> SUFFICES ASSUME Init PROVE VInv
  OBVIOUS
<1>1. MaxGen \in Nat \ {0} /\ MaxFrames \in Nat
  BY RtspAssumption
<1>2. /\ source = "" /\ status = "Waiting" /\ failed = FALSE /\ flag = FALSE
      /\ timer = FALSE /\ gui = "idle"
      /\ gen = 0 /\ frame = 0 /\ pending = 0 /\ taken = 0
  BY DEF Init
<1>3. events = <<>>
  BY DEF Init
<1>4. Scalars /\ Retry
  <2>1. 0 \in 0..MaxGen
    BY <1>1
  <2>2. gui \in Places /\ source \in Sources \cup {""}
    BY <1>2 DEF Places
  <2> QED BY <1>2, <2>1, <2>2 DEF Scalars, Retry
<1>5. Queue /\ Reports
  <2>1. Queue
    BY <1>3 DEF Queue
  <2>2. DOMAIN events = {}
    BY <1>3
  <2> QED BY <1>1, <1>2, <2>1, <2>2 DEF Reports, Gens
<1>6. Decoders
  <2>1. /\ worker = [g \in Gens |-> "none"] /\ origin = [g \in Gens |-> ""]
        /\ stop = {} /\ frames = [g \in Gens |-> 0]
    BY DEF Init
  <2>2. "none" \in Stages /\ 0 \in 0..MaxFrames /\ "" \in Sources \cup {""}
    BY <1>1 DEF Stages
  <2> QED BY <2>1, <2>2 DEF Decoders
<1>7. Threads /\ Slot
  BY <1>1 DEF Init, Threads, Slot, Gens
<1>8. FrameIsOfSource /\ NoFrameIsStuck /\ OneDecoder
  BY DEF Init, FrameIsOfSource, NoFrameIsStuck, Carried, OneDecoder, Alive
<1> QED BY <1>4, <1>5, <1>6, <1>7, <1>8 DEF VInv

(* The inductive invariant holds in every state of RtspVideoItem.          *)
THEOREM VideoInvariant == RtspSpec => []VInv
<1>1. VInv /\ [Next]_vars => VInv'
  BY KeepsScalars, KeepsQueue, KeepsDecoders, KeepsRetry, KeepsThreads,
     KeepsSlot, KeepsReports, KeepsFrameIsOfSource, KeepsNoFrameIsStuck,
     KeepsOneDecoder DEF VInv
<1> QED BY InitInv, <1>1, PTL DEF RtspSpec

(* The state has its types, the timer runs only after a failure that no    *)
(* newer start has overtaken, and one decoder thread runs at a time        *)
(* (startWorker waits for the old one in stopWorker).                      *)
THEOREM VideoIsConsistent == RtspSpec => []VideoConsistent
<1>1. VInv => VideoConsistent
  BY TypeParts DEF VInv, VideoConsistent
<1> QED BY VideoInvariant, <1>1, PTL

(* The picture is of the source and the generation shown, however late a   *)
(* frame of a stopped thread arrives (deliverPendingFrame,                 *)
(* handleDecodedFrame).                                                    *)
THEOREM FrameIsOfItsSource == RtspSpec => []FrameIsOfSource
<1>1. VInv => FrameIsOfSource
  BY DEF VInv
<1> QED BY VideoInvariant, <1>1, PTL

(* A frame in the slot has a delivery coming, and the flag that a delivery *)
(* is queued is never set without one (queueDecodedFrame against           *)
(* deliverPendingFrame).                                                   *)
THEOREM NoWakeUpIsLost == RtspSpec => []NoFrameIsStuck
<1>1. VInv => NoFrameIsStuck
  BY DEF VInv
<1> QED BY VideoInvariant, <1>1, PTL

=============================================================================
