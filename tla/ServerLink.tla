----------------------------- MODULE ServerLink -----------------------------
(***************************************************************************)
(* ParkingController's link to the parking server over HTTP (src/src/      *)
(* controllers/parkingcontroller.cpp, src/src/api/apiclient.cpp): polling  *)
(* with back-off, the overstay threshold of the Settings page, the saving  *)
(* of a parking ROI for the IVA page with its read-back, a new server      *)
(* address, and the end of the session when the server answers 401         *)
(* (src/src/main.cpp).                                                     *)
(*                                                                         *)
(* One step is one slot of the Qt event loop.  Requests are sent, served   *)
(* by the server and answered in three steps, so an answer may be old when *)
(* it arrives.  The session is always one of a successful login, which     *)
(* enables the API and allows its address.  Left out: the contents of      *)
(* snapshots, slot details and evidence, the banner and event texts, the   *)
(* ROI list and single ROI requests that no page makes, and an ROI refused *)
(* before it is sent (no mapping for its slot, not a valid rectangle).     *)
(***************************************************************************)
EXTENDS Naturals

CONSTANTS
    Thresholds,  \* overstay thresholds, in seconds, within the allowed range
    Rois,        \* regions of interest of the one parking slot
    BaseDelay,   \* m_reconnectIntervalMs
    MaxDelay,    \* m_maxReconnectIntervalMs
    None         \* no value

ASSUME LinkConstants ==
    /\ BaseDelay \in Nat \ {0} /\ MaxDelay \in Nat /\ BaseDelay <= MaxDelay
    /\ None \notin Thresholds \cup Rois
    /\ Thresholds # {} /\ Rois # {}

VARIABLES
    pi,      \* the server's overstay threshold and ROI
    link,    \* the controller, a record of
             \*   timer      what m_reconnectTimer waits for, 0 when it is stopped
             \*   delay      m_currentReconnectDelayMs
             \*   flying     m_snapshotRequestInFlight
             \*   connected  m_apiDiagnostic.connected
             \*   told       what the last serverConnectionChanged said
             \*   expired    m_authenticationExpired
             \*   overstay   m_overstayRequest
             \*   seconds    m_pendingOverstaySeconds
             \*   tags       m_pendingParkingRoiTags with the values expected
             \*   net        the requests of the current ApiClient
    page,    \* the Settings page (overstay, its inputs, the value shown) and the
             \* IVA page (roi, the value asked for, m_piRoiGeneration)
    session  \* "on", "asking" about unsaved changes before it ends, or "over"

linkVars == <<pi, link, page, session>>

\* What the ApiClient is asked for: one request of each at a time, as long as the
\* flags of link say what net holds (PendingIsUnderWay).
Channels == {"snapshot", "overstay", "roi"}
Nothing == [what |-> "nothing", value |-> None, gen |-> 0, served |-> FALSE, reply |-> None]

\* A snapshot counts as served from the start: when it was taken makes no
\* difference here.
Request(what, v, g) ==
    [what |-> what, value |-> v, gen |-> g, served |-> what = "snapshot", reply |-> None]
Tag(step, g, v) == [step |-> step, gen |-> g, expected |-> v]

\* Only one ROI is saved at a time, so two generations tell the last from others.
NextGen(g) == 1 - g

Send(l, ch, r) == [l EXCEPT !.net[ch] = r]
Received(l, ch) == [l EXCEPT !.net[ch] = Nothing]

LinkInit ==
    /\ pi \in [threshold : Thresholds, roi : Rois]
    /\ link = [timer |-> 0, delay |-> BaseDelay, flying |-> TRUE, connected |-> FALSE,
               told |-> FALSE, expired |-> FALSE, overstay |-> "none", seconds |-> None,
               tags |-> {},
               net |-> [ch \in Channels |->
                          IF ch = "snapshot" THEN Request("snapshot", None, 0) ELSE Nothing]]
    /\ page = [overstay |-> "none", input |-> None, shown |-> None,
               roi |-> "none", asked |-> None, gen |-> 0]
    /\ session = "on"

----------------------------------------------------------------------------
(* The controller's functions.                                             *)

Doubled(d) == IF 2 * d < MaxDelay THEN 2 * d ELSE MaxDelay

\* Mistake: a request although the session has expired.
AskAlways(l) ==
    IF l.flying THEN [l EXCEPT !.timer = 0, !.told = FALSE]
    ELSE Send([l EXCEPT !.timer = 0, !.told = FALSE, !.connected = FALSE, !.flying = TRUE],
              "snapshot", Request("snapshot", None, 0))

\* reconnectNow.
ReconnectNow(l) ==
    IF l.expired THEN l
    ELSE IF l.flying THEN [l EXCEPT !.timer = 0, !.told = FALSE]
    ELSE Send([l EXCEPT !.timer = 0, !.told = FALSE, !.connected = FALSE, !.flying = TRUE],
              "snapshot", Request("snapshot", None, 0))

\* Mistake: a failure does not start the timer.
ForgetRetry(l) ==
    IF l.expired THEN l
    ELSE [l EXCEPT !.delay = Doubled(l.delay), !.connected = FALSE, !.told = FALSE]

\* scheduleReconnect.
ScheduleReconnect(l) ==
    IF l.expired THEN l
    ELSE [l EXCEPT !.timer = IF @ = 0 THEN l.delay ELSE @, !.delay = Doubled(l.delay),
                   !.connected = FALSE, !.told = FALSE]

\* The part of applyParkingSnapshot that is about the link; the session may have
\* expired meanwhile.
ApplySnapshot(l) ==
    [l EXCEPT !.flying = FALSE, !.delay = BaseDelay, !.timer = BaseDelay,
              !.connected = TRUE, !.told = TRUE]

\* handleAuthenticationExpired.
Expire(l) ==
    IF l.expired THEN l ELSE [l EXCEPT !.expired = TRUE, !.flying = FALSE, !.timer = 0]

EndOverstay(l) == [l EXCEPT !.overstay = "none", !.seconds = None]

\* Mistake: a new address forgets what was asked of the old one.
RebuildSilently(l) ==
    [l EXCEPT !.timer = 0, !.delay = BaseDelay, !.flying = FALSE, !.connected = FALSE,
              !.tags = {}, !.net = [ch \in Channels |-> Nothing]]

\* initializeApiClient up to reconnectNow: the ApiClient is replaced and the
\* requests of the old one are forgotten.
Rebuild(l) ==
    [EndOverstay(l) EXCEPT !.timer = 0, !.delay = BaseDelay, !.flying = FALSE,
              !.connected = FALSE, !.tags = {}, !.net = [ch \in Channels |-> Nothing]]

----------------------------------------------------------------------------
(* The pages' slots.                                                       *)

OverstayFailed(p) == [p EXCEPT !.overstay = "failed"]
ShowThreshold(p, s, afterUpdate) ==
    [p EXCEPT !.overstay = IF afterUpdate THEN "changed" ELSE "loaded",
              !.input = s, !.shown = s]

\* Mistake: an answer is taken to belong to the save before.
ConcernsLast(p, t) == p.roi = "busy" /\ t.gen # p.gen
Concerns(p, t) == p.roi = "busy" /\ t.gen = p.gen
RoiEnds(p, t, status) == IF Concerns(p, t) THEN [p EXCEPT !.roi = status] ELSE p

----------------------------------------------------------------------------
(* The operator, while the session lasts.                                  *)

\* The timer fires.
PollTimer ==
    /\ session # "over" /\ link.timer # 0
    /\ link' = ReconnectNow([link EXCEPT !.timer = 0])
    /\ UNCHANGED <<pi, page, session>>

ReconnectButton ==
    /\ session = "on"
    /\ link' = ReconnectNow(link)
    /\ UNCHANGED <<pi, page, session>>

\* showEvent and the refresh button of the Settings page; requestOverstayThreshold.
RefreshThreshold ==
    /\ session = "on" /\ page.overstay # "busy"
    /\ page' = [page EXCEPT !.overstay = "busy"]
    /\ link' = IF link.overstay # "none" THEN link
               ELSE Send([link EXCEPT !.overstay = "fetch"],
                         "overstay", Request("get", None, 0))
    /\ UNCHANGED <<pi, session>>

\* The apply button of the Settings page; updateOverstayThreshold.
UpdateThreshold(s) ==
    /\ session = "on" /\ page.overstay # "busy" /\ link.told
    /\ LET p == [page EXCEPT !.overstay = "busy", !.input = s] IN
       IF link.overstay # "none" THEN page' = p /\ UNCHANGED link
       ELSE IF ~link.connected THEN page' = OverstayFailed(p) /\ UNCHANGED link
       ELSE /\ page' = p
            /\ link' = Send([link EXCEPT !.overstay = "update", !.seconds = s],
                            "overstay", Request("put", s, 0))
    /\ UNCHANGED <<pi, session>>

\* requestPiRoiSave and updateParkingRoi.
SaveRoi(r) ==
    /\ session = "on" /\ page.roi # "busy"
    /\ LET g == NextGen(page.gen) IN
       /\ page' = [page EXCEPT !.roi = "busy", !.asked = r, !.gen = g]
       /\ link' = Send([link EXCEPT !.tags = @ \cup {Tag("put", g, r)}],
                       "roi", Request("roiPut", r, g))
    /\ UNCHANGED <<pi, session>>

\* updateServerBaseUrl with an accepted address; the pages hear what failed.
SaveAddress ==
    /\ session = "on"
    /\ link' = ReconnectNow(Rebuild(link))
    /\ page' =
         LET failed == \E t \in link.tags : Concerns(page, t)
             p == IF link.overstay = "none" THEN page ELSE OverstayFailed(page)
         IN [p EXCEPT !.roi = IF failed THEN "failed" ELSE @]
    /\ UNCHANGED <<pi, session>>

----------------------------------------------------------------------------
(* The server.                                                             *)

Serve(ch) ==
    LET r == link.net[ch]
        Reply(v) == link' = [link EXCEPT !.net[ch] = [r EXCEPT !.served = TRUE, !.reply = v]]
    IN
    /\ session # "over" /\ r # Nothing /\ ~r.served
    /\ \/ r.what = "get" /\ Reply(pi.threshold) /\ UNCHANGED pi
       \/ r.what = "roiGet" /\ Reply(pi.roi) /\ UNCHANGED pi
       \/ /\ r.what = "put"
          /\ \E s \in {r.value, pi.threshold} : Reply(s) /\ pi' = [pi EXCEPT !.threshold = s]
       \/ /\ r.what = "roiPut"
          /\ \E v \in {r.value, pi.roi} : Reply(v) /\ pi' = [pi EXCEPT !.roi = v]
    /\ UNCHANGED <<page, session>>

\* Another client, or a write of this one that was given up and arrives late.
Elsewhere ==
    /\ session # "over"
    /\ pi' \in [threshold : Thresholds, roi : Rois]
    /\ UNCHANGED <<link, page, session>>

----------------------------------------------------------------------------
(* The ends of a request.                                                  *)

Answered(ch) == session # "over" /\ link.net[ch].served

SnapshotAnswered ==
    /\ Answered("snapshot")
    /\ link' = ApplySnapshot(Received(link, "snapshot"))
    /\ UNCHANGED <<pi, page, session>>

\* applyOverstayThresholdResponse: what the answer to an update must say.
Confirms(l, s) == s = l.seconds

OverstayAnswered ==
    /\ Answered("overstay")
    /\ LET s == link.net["overstay"].reply
           update == link.overstay = "update"
       IN page' = IF update /\ ~Confirms(link, s) THEN OverstayFailed(page)
                  ELSE ShowThreshold(page, s, update)
    /\ link' = EndOverstay(Received(link, "overstay"))
    /\ UNCHANGED <<pi, session>>

TagOf(l) == {t \in l.tags : t.gen = l.net["roi"].gen
                             /\ t.step = IF l.net["roi"].what = "roiPut" THEN "put" ELSE "verify"}

\* The save was accepted: read it back.
RoiPutAnswered ==
    /\ Answered("roi") /\ link.net["roi"].what = "roiPut"
    /\ \E t \in TagOf(link) :
          link' = Send([link EXCEPT !.tags = (@ \ {t}) \cup {[t EXCEPT !.step = "verify"]}],
                       "roi", Request("roiGet", None, t.gen))
    /\ UNCHANGED <<pi, page, session>>

\* Mistake: any region read back will do.
MatchesAny(t, v) == TRUE

\* nearlyEquals.
Matches(t, v) == v = t.expected

RoiVerified ==
    /\ Answered("roi") /\ link.net["roi"].what = "roiGet"
    /\ \E t \in TagOf(link) :
          /\ link' = [Received(link, "roi") EXCEPT !.tags = @ \ {t}]
          /\ page' = RoiEnds(page, t, IF Matches(t, link.net["roi"].reply)
                                      THEN "saved" ELSE "failed")
    /\ UNCHANGED <<pi, session>>

\* requestFailed, taggedRequestFailed: an error, a timeout, or a body that is not
\* what was asked for.
FailedLink(l, ch) ==
    CASE ch = "snapshot" -> ScheduleReconnect([l EXCEPT !.flying = FALSE, !.connected = FALSE])
      [] ch = "overstay" -> EndOverstay(l)
      [] ch = "roi" -> [l EXCEPT !.tags = @ \ TagOf(link)]

FailedPage(ch) ==
    CASE ch = "snapshot" -> page
      [] ch = "overstay" -> OverstayFailed(page)
      [] ch = "roi" ->
            IF \E t \in TagOf(link) : Concerns(page, t) THEN [page EXCEPT !.roi = "failed"]
            ELSE page

RequestFailed(ch) ==
    /\ session # "over" /\ link.net[ch] # Nothing
    /\ link' = FailedLink(Received(link, ch), ch)
    /\ page' = FailedPage(ch)
    /\ UNCHANGED <<pi, session>>

\* requestReauthentication, which asks about an unsaved layout of the map.
EndSession == session' \in IF session = "on" THEN {"asking", "over"} ELSE {session}

\* 401: the request it answers is told to nobody.
Unauthorized(ch) ==
    /\ session # "over" /\ link.net[ch] # Nothing
    /\ link' = Expire(Received(link, ch))
    /\ IF link.expired THEN UNCHANGED session ELSE EndSession
    /\ UNCHANGED <<pi, page>>

\* 401 for an image.
ImageUnauthorized ==
    /\ session # "over" /\ ~link.expired
    /\ link' = Expire(link)
    /\ EndSession
    /\ UNCHANGED <<pi, page>>

\* The timer of runMonitoringSession, which leaves the controller polling.
TokenExpires ==
    /\ session = "on" /\ EndSession
    /\ UNCHANGED <<pi, link, page>>

SignOut ==
    /\ session = "asking" /\ session' = "over"
    /\ UNCHANGED <<pi, link, page>>

Ends(ch) ==
    \/ ch = "snapshot" /\ SnapshotAnswered
    \/ ch = "overstay" /\ OverstayAnswered
    \/ ch = "roi" /\ (RoiPutAnswered \/ RoiVerified)
    \/ RequestFailed(ch)
    \/ Unauthorized(ch)

LinkNext ==
    \/ PollTimer \/ ReconnectButton \/ RefreshThreshold \/ SaveAddress
    \/ \E s \in Thresholds : UpdateThreshold(s)
    \/ \E r \in Rois : SaveRoi(r)
    \/ \E ch \in Channels : Serve(ch) \/ Ends(ch)
    \/ ImageUnauthorized \/ TokenExpires \/ SignOut \/ Elsewhere

\* Every request has a timeout of its own, and the event loop runs a timer that
\* is due.
LinkSpec ==
    /\ LinkInit /\ [][LinkNext]_linkVars
    /\ WF_linkVars(PollTimer)
    /\ \A ch \in Channels : WF_linkVars(Ends(ch))
----------------------------------------------------------------------------
(* Properties.                                                             *)

RequestType ==
    [what : {"nothing", "snapshot", "get", "put", "roiPut", "roiGet"},
     value : Thresholds \cup Rois \cup {None}, gen : 0..1, served : BOOLEAN,
     reply : Thresholds \cup Rois \cup {None}]
TagType == [step : {"put", "verify"}, gen : 0..1, expected : Rois]
Delays == {d \in Nat : BaseDelay <= d /\ d <= MaxDelay}
LinkType ==
    [timer : Delays \cup {0}, delay : Delays, flying : BOOLEAN, connected : BOOLEAN,
     told : BOOLEAN, expired : BOOLEAN, overstay : {"none", "fetch", "update"},
     seconds : Thresholds \cup {None}, tags : SUBSET TagType, net : [Channels -> RequestType]]
PageType ==
    [overstay : {"none", "busy", "loaded", "changed", "failed"},
     input : Thresholds \cup {None}, shown : Thresholds \cup {None},
     roi : {"none", "busy", "saved", "failed"}, asked : Rois \cup {None}, gen : 0..1]

\* Types; the back-off stays between its bounds (scheduleReconnect), and each
\* request is of the kind its answer is handled as.
LinkTypeOK ==
    /\ pi \in [threshold : Thresholds, roi : Rois]
    /\ link \in LinkType /\ page \in PageType
    /\ session \in {"on", "asking", "over"}

\* What the controller believes to be pending is under way, so that something
\* will end it, and what is under way is pending, so that nothing is asked twice
\* and every answer finds who asked; the end of the session is the exception.
PendingIsUnderWay ==
    /\ link.net["snapshot"] # Nothing => link.flying \/ link.expired
    /\ link.net["overstay"] # Nothing => link.overstay # "none"
    /\ link.net["roi"] # Nothing => \E t \in link.tags : TagOf(link) = {t}
    /\ ~link.expired =>
          /\ link.flying => link.net["snapshot"] # Nothing
          /\ link.overstay # "none" => link.net["overstay"] # Nothing
          /\ link.tags # {} => link.net["roi"] # Nothing

\* The pages wait exactly as long as the controller has their request, and for
\* the value they asked for, over failures and new addresses: a page that waits
\* for nothing has its buttons disabled for good.
PagesWaitForLink ==
    /\ page.overstay = "busy" <=> link.overstay # "none"
    /\ link.overstay = "update" => link.seconds = page.input
    /\ page.roi = "busy" <=> link.tags # {}
    /\ \A t \in link.tags : t.gen = page.gen /\ t.expected = page.asked

\* The Settings page offers a change of the threshold exactly when the controller
\* would send it (serverConnectionChanged and m_apiDiagnostic are set apart).
ConnectionIsTold == link.told = link.connected

\* These together: the controller, its requests and the pages never part.
LinkConsistent == LinkTypeOK /\ PendingIsUnderWay /\ PagesWaitForLink /\ ConnectionIsTold

\* Nothing is polled after the session has expired, by whatever timer, answer or
\* button.
NoPollAfterExpiry ==
    [][link.expired /\ link'.net["snapshot"] # Nothing => link.net["snapshot"] # Nothing]_linkVars

\* "Overstay threshold changed to" names what the operator entered, and the
\* server confirmed it for this request.
ChangedMeansConfirmed ==
    [][page.overstay = "busy" /\ page'.overstay = "changed" =>
          /\ page'.shown = page.input
          /\ link.net["overstay"].what = "put" /\ link.net["overstay"].value = page.input
      ]_linkVars

\* "crop ROI was saved and verified" follows a read, after the save, in which the
\* server had the region the operator drew.
SavedMeansReadBack ==
    [][page.roi = "busy" /\ page'.roi = "saved" =>
          /\ link.net["roi"].what = "roiGet"
          /\ link.net["roi"].reply = page.asked
      ]_linkVars

\* Both: no page reports what the server did not confirm for that request.
ReportsAreConfirmed == ChangedMeansConfirmed /\ SavedMeansReadBack

Ended == link.expired \/ session = "over"

\* What a page waits for comes to an end while the session lasts.
WaitsEnd ==
    /\ page.overstay = "busy" ~> page.overstay # "busy" \/ Ended
    /\ page.roi = "busy" ~> page.roi # "busy" \/ Ended

\* Polling as Poller promises it, with its liveness: no answer, failure, time-out
\* or change of address leaves the link without a request and without a timer.
Polling == INSTANCE Poller WITH
    phase <- IF Ended THEN "ended" ELSE IF link.flying THEN "asking" ELSE "waiting",
    wait <- IF Ended THEN 0 ELSE link.timer,
    delay <- IF Ended THEN BaseDelay ELSE link.delay

PollsWhileOn == Polling!Spec
PollsSafely == Polling!Safety
=============================================================================
