------------------------------ MODULE Evidence ------------------------------
(***************************************************************************)
(* Evidence of parking sessions: what ParkingController keeps of the       *)
(* sessions of its slots and how it asks the server for their images       *)
(* (src/src/controllers/parkingcontroller.cpp), and what EvidencePage      *)
(* (src/src/pages/evidencepage.cpp) caches and lists of them.  Its image   *)
(* cards and its download are in EvidenceView.                             *)
(*                                                                         *)
(* A session is a number, given in the order of arrival, and stands for    *)
(* its plate and its list of images too; 0 is none.  A request carries the *)
(* session the server answers with when it is sent; the answer arrives     *)
(* later, with or without images, or fails.                                *)
(* Every slot is known from the start, by the first snapshot.  Alarms of   *)
(* the slots are in SlotBoard, polling itself in ServerLink.               *)
(***************************************************************************)
EXTENDS EvidenceSlots, Sequences

CONSTANTS
    EvSlots,      \* those whose plate is kept in m_state.evSlots
    LastSession,  \* bound of the model: sessions that ever arrive
    Home,         \* Home[n]: the slot session n arrives at
    Legacy,       \* the sessions whose events carry no session id
    RefLimit,     \* kEventEvidenceReferenceLimit, 512 in the code
    Events,       \* <<n, "in">> or <<n, "out">>: events of the arrival or departure of n
    NetBound      \* bound of the model: requests under way

Sessions == 1..LastSession

ASSUME EvidenceConstants ==
    /\ EvSlots \subseteq Slots /\ LastSession \in Nat
    /\ Home \in [Sessions -> Slots] /\ Legacy \subseteq Sessions /\ RefLimit \in Nat \ {0} /\ NetBound \in Nat
    /\ Events \subseteq Sessions \X {"in", "out"}
    /\ None \notin Events \cup [session : Sessions, plate : 0..LastSession]

VARIABLES
    at,       \* at[s]: the session of the slot on the server, or 0
    came,     \* the last session that arrived
    slot,     \* m_state of the controller: session, plate and images by slot; the plate is None
              \*   when slotPlateNumbers has no entry
    net,      \* requests under way: m_pendingDetailRequests, m_pendingImageRequests,
              \*   m_pendingEventEvidenceRequests and the poll
    seen,     \* m_seenServerEventIds
    refs,     \* m_eventEvidenceReferences
    order,    \* m_eventEvidenceOrder
    page,     \* EvidencePage
    visible   \* it is the current page

evidenceVars == <<at, came, slot, net, seen, refs, order, page, visible>>

EvidenceInit ==
    /\ at = [s \in Slots |-> 0] /\ came = 0
    /\ slot = [s \in Slots |-> [session |-> 0, plate |-> 0, images |-> 0]]
    /\ net = {} /\ seen = {} /\ refs = <<>> /\ order = <<>>
    /\ page = [imgs |-> [s \in Slots |-> 0], plates |-> [s \in Slots |-> 0],
               pairs |-> [s \in Slots |-> None], filter |-> None, event |-> None]
    /\ visible = FALSE

----------------------------------------------------------------------------
(* The page.                                                               *)

\* showLocalEvidenceSnapshot: the timeline of what is cached, under the filter.
ShowLocal(p) ==
    LET pairs == [s \in Slots |->
                    IF p.imgs[s] # 0 /\ p.filter \in {None, s}
                    THEN [session |-> p.imgs[s], plate |-> p.plates[s]] ELSE None]
    IN  [p EXCEPT !.event = None, !.pairs = pairs]

\* render and mergeEvidenceCache: images are only ever replaced by others,
\* and the plate of a slot that has none any more is kept.
Render(p, st) ==
    LET q == [p EXCEPT !.imgs = [s \in Slots |-> IF st[s].images # 0 THEN st[s].images ELSE @[s]],
                       !.plates = [s \in Slots |-> IF st[s].plate = None THEN @[s] ELSE st[s].plate]]
    IN  IF q.imgs # p.imgs THEN ShowLocal(q) ELSE q

\* showEvidence.
ShowEvidence(p, s, plate, images) ==
    LET changed == images # 0 /\ p.imgs[s] # images
        q == [p EXCEPT !.imgs[s] = IF images # 0 THEN images ELSE @, !.plates[s] = plate]
    IN  IF changed \/ p.plates[s] # plate \/ \A t \in Slots : p.pairs[t] = None
        THEN ShowLocal(q) ELSE q

\* showEventEvidence.
ShowEventEvidence(p, e, s, plate, images) ==
    IF e # p.event THEN p ELSE [ShowEvidence(p, s, plate, images) EXCEPT !.event = e]

----------------------------------------------------------------------------
(* The server, and what it sends unasked.                                  *)

Arrive ==
    /\ came < LastSession /\ at[Home[came + 1]] = 0
    /\ came' = came + 1
    /\ at' = [at EXCEPT ![Home[came + 1]] = came + 1]
    /\ UNCHANGED <<slot, net, seen, refs, order, page, visible>>

Leave(s) ==
    /\ at[s] # 0
    /\ at' = [at EXCEPT ![s] = 0]
    /\ UNCHANGED <<came, slot, net, seen, refs, order, page, visible>>

\* rememberEventEvidence: the oldest reference goes when there are too many.
Remember(e, ref) ==
    LET queue == IF e \in DOMAIN refs THEN order ELSE Append(order, e)
        full == Len(queue) > RefLimit
        kept == (DOMAIN refs \cup {e}) \ (IF full THEN {Head(queue)} ELSE {})
    IN  /\ order' = IF full THEN Tail(queue) ELSE queue
        /\ refs' = [x \in kept |-> IF x = e THEN ref ELSE refs[x]]

\* applyServerParkingEvent and recordServerEvent, of an event of the session's
\* arrival or departure that may come late, again or never.
ParkingEvent(e) ==
    LET n == e[1]  s == Home[n]  sid == IF n \in Legacy THEN 0 ELSE n
        session == IF sid > 0 THEN sid ELSE slot[s].session
        next == IF e[2] = "out"
                THEN [session |-> 0, plate |-> IF s \in EvSlots THEN 0 ELSE None, images |-> 0]
                ELSE [slot[s] EXCEPT !.session = session, !.plate = n]
        now == [slot EXCEPT ![s] = next]
    IN  /\ n <= came /\ (e[2] = "out" => at[s] # n)
        /\ slot' = now
        /\ page' = Render(page, now)
        /\ seen' = seen \cup {e}
        /\ IF e \in seen THEN UNCHANGED <<refs, order>>
           ELSE Remember(e, [slot |-> s, session |-> sid, plate |-> n])
        /\ UNCHANGED <<at, came, net, visible>>

----------------------------------------------------------------------------
(* Requests.                                                               *)

\* requestSlotDetail of the slots that have none under way.
Details(asked) ==
    LET free == {s \in asked : \A r \in net : r.kind = "detail" => r.slot # s}
    IN  {[kind |-> "detail", slot |-> s, session |-> at[s]] : s \in free}

\* requestEventEvidenceSession and requestEventEvidenceSlotDetail.
EventRequest(e, ref) ==
    [kind |-> "event", event |-> e, ref |-> ref,
     step |-> IF ref.session > 0 THEN "images" ELSE "detail",
     session |-> IF ref.session > 0 THEN ref.session ELSE at[ref.slot]]

\* requestEventEvidence, which fails at once without a reference.
RequestEvent(e) ==
    net' = IF e \in DOMAIN refs THEN net \cup {EventRequest(e, refs[e])} ELSE net

\* requestEvidenceRefresh, by its 5 s timer, its button or the navigation.
Refresh ==
    /\ IF page.event # None THEN RequestEvent(page.event)
       ELSE net' = net \cup Details(IF page.filter = None THEN Slots ELSE {page.filter})
    /\ visible' = TRUE
    /\ UNCHANGED <<at, came, slot, seen, refs, order, page>>

HidePage ==
    /\ visible /\ visible' = FALSE
    /\ UNCHANGED <<at, came, slot, net, seen, refs, order, page>>

\* reconnectNow: a snapshot of the slots.
Poll ==
    /\ \A r \in net : r.kind # "poll"
    /\ net' = net \cup {[kind |-> "poll", session |-> at]}
    /\ UNCHANGED <<at, came, slot, seen, refs, order, page, visible>>

\* applyParkingSnapshot: images it does not list are kept for the same session.
SnapshotArrives(r, listed) ==
    LET now == [s \in Slots |->
                  LET n == r.session[s]
                  IN  [session |-> n, plate |-> n,
                       images |-> IF n = 0 THEN 0 ELSE IF listed THEN n
                                  ELSE IF slot[s].session = n THEN slot[s].images ELSE 0]]
    IN  /\ r.kind = "poll"
        /\ slot' = now /\ page' = Render(page, now) /\ net' = net \ {r}
        /\ UNCHANGED <<at, came, seen, refs, order, visible>>

\* slotDetailReady, for the page if it is the current one.
DetailReady(p, s, st) ==
    IF visible THEN ShowEvidence(p, s, IF st[s].plate = None THEN 0 ELSE st[s].plate, st[s].images) ELSE p

\* applyParkingSlotDetail, and the request for the images of the session.
DetailArrives(r, listed) ==
    LET s == r.slot  n == r.session
        now == [slot EXCEPT ![s] = [session |-> n, plate |-> IF s \in EvSlots THEN @.plate ELSE n,
                                    images |-> IF listed THEN n ELSE 0]]
        rest == net \ {r}
    IN  /\ r.kind = "detail"
        /\ slot' = now
        /\ IF n = 0
           THEN net' = rest /\ page' = DetailReady(Render(page, now), s, now)
           ELSE /\ page' = Render(page, now)
                /\ IF \E q \in rest : q.kind = "images" /\ q.session = n THEN net' = rest
                   ELSE net' = rest \cup {[kind |-> "images", slot |-> s, session |-> n]}
        /\ UNCHANGED <<at, came, seen, refs, order, visible>>

\* Mistake: the images are taken for those of the slot the page shows.
ImagesArriveForFilter(r, listed) ==
    LET s == IF page.filter = None THEN r.slot ELSE page.filter
        now == [slot EXCEPT ![s].images = IF listed THEN r.session ELSE 0]
    IN  /\ r.kind = "images"
        /\ slot' = now /\ net' = net \ {r}
        /\ page' = DetailReady(Render(page, now), s, now)
        /\ UNCHANGED <<at, came, seen, refs, order, visible>>

\* applyParkingSessionImages: for the slot that asked, whatever its session is now.
ImagesArrive(r, listed) ==
    LET s == r.slot
        now == [slot EXCEPT ![s].images = IF listed THEN r.session ELSE 0]
    IN  /\ r.kind = "images"
        /\ slot' = now /\ net' = net \ {r}
        /\ page' = DetailReady(Render(page, now), s, now)
        /\ UNCHANGED <<at, came, seen, refs, order, visible>>

\* Mistake: a reference put back is queued once more.
PutBackQueued(e, ref) ==
    /\ refs' = [x \in DOMAIN refs \cup {e} |-> IF x = e THEN ref ELSE refs[x]]
    /\ order' = Append(order, e)

\* An evicted reference returns without a place in the queue.
PutBack(e, ref) ==
    /\ refs' = [x \in DOMAIN refs \cup {e} |-> IF x = e THEN ref ELSE refs[x]]
    /\ UNCHANGED order

\* applyEventEvidenceResponse: a reference without a session takes the one the
\* slot has now.
EventArrives(r, listed) ==
    LET e == r.event
        ref == [r.ref EXCEPT !.session = r.session, !.plate = IF r.session > 0 THEN r.session ELSE @]
        ready(to, images) ==
            page' = ShowEventEvidence(page, e, to.slot, to.plate, images)
    IN  /\ r.kind = "event"
        /\ IF r.step = "detail"
           THEN /\ PutBack(e, ref)
                /\ IF r.session > 0
                   THEN net' = (net \ {r}) \cup {EventRequest(e, ref)} /\ UNCHANGED page
                   ELSE net' = net \ {r} /\ ready(ref, 0)
           ELSE /\ net' = net \ {r} /\ UNCHANGED <<refs, order>>
                /\ ready(r.ref, IF listed THEN r.session ELSE 0)
        /\ UNCHANGED <<at, came, slot, seen, visible>>

\* requestFailed and applyEventEvidenceError.
RequestFails(r) ==
    /\ net' = net \ {r}
    /\ UNCHANGED <<at, came, slot, seen, refs, order, page, visible>>

\* rebuildApiClient: the requests on events are failed, the others forgotten.
Rebuild ==
    /\ net' = {}
    /\ UNCHANGED <<at, came, slot, seen, refs, order, page, visible>>

----------------------------------------------------------------------------
(* The operator.                                                           *)

\* The slot filter of the page.
SetFilter(f) ==
    /\ visible /\ f # page.filter
    /\ page' = ShowLocal([page EXCEPT !.filter = f])
    /\ UNCHANGED <<at, came, slot, net, seen, refs, order, visible>>

\* showEventEvidencePage and openEvent.
OpenEvent(e) ==
    LET s == IF e \in DOMAIN refs THEN refs[e].slot ELSE None
        p == IF s = page.filter THEN page ELSE ShowLocal([page EXCEPT !.filter = s])
    IN  /\ e \in seen
        /\ page' = [p EXCEPT !.event = e] /\ RequestEvent(e)
        /\ visible' = TRUE
        /\ UNCHANGED <<at, came, slot, seen, refs, order>>

----------------------------------------------------------------------------
Arrives(r, listed) ==
    SnapshotArrives(r, listed) \/ DetailArrives(r, listed) \/ ImagesArrive(r, listed) \/ EventArrives(r, listed)

EvidenceNext ==
    /\ \/ Arrive
       \/ \E s \in Slots : Leave(s)
       \/ \E e \in Events : ParkingEvent(e)
       \/ Poll
       \/ \E r \in net, listed \in BOOLEAN : Arrives(r, listed)
       \/ \E r \in net : RequestFails(r)
       \/ Rebuild
       \/ Refresh
       \/ HidePage
       \/ \E f \in Slots \cup {None} : SetFilter(f)
       \/ \E e \in Events : OpenEvent(e)
    /\ Cardinality(net') <= NetBound

EvidenceSpec == EvidenceInit /\ [][EvidenceNext]_evidenceVars

----------------------------------------------------------------------------
(* What the evidence must be.                                              *)

\* Types; the timeline is of what is cached under the filter.
EvidenceTypeOK ==
    /\ at \in [Slots -> 0..LastSession] /\ came \in 0..LastSession
    /\ slot \in [Slots -> [session : 0..LastSession, plate : 0..LastSession \cup {None},
                       images : 0..LastSession]]
    /\ DOMAIN refs \subseteq Events /\ order \in Seq(Events) /\ seen \subseteq Events
    /\ page.filter \in Slots \cup {None}
    /\ page.event \in Events \cup {None} /\ visible \in BOOLEAN
    /\ \A s \in Slots :
         IF page.imgs[s] # 0 /\ page.filter \in {None, s}
         THEN page.pairs[s] # None /\ page.pairs[s].session = page.imgs[s] ELSE page.pairs[s] = None

\* Evidence is never filed under a slot it was not taken at: rows of another slot are
\* not mixed into a pair (docs/evidence_qt_client_v0.1.md), whichever answers cross a
\* change of the page's slot, of the slot's session or of the server.
PairsAreOfTheirSlot ==
    \A s \in Slots : page.pairs[s] # None => Home[page.pairs[s].session] = s

\* The queue that bounds the references names each of them once and none that is gone,
\* so that a new event never evicts a reference twice (rememberEventEvidence), though
\* answers put back references that were evicted meanwhile.
QueuedAreKept ==
    /\ Len(order) <= RefLimit
    /\ \A i \in DOMAIN order : order[i] \in DOMAIN refs
    /\ \A i, j \in DOMAIN order : order[i] = order[j] => i = j

\* Both, over well-typed states in which the page shows the images that are cached.
EvidenceConsistent == EvidenceTypeOK /\ QueuedAreKept
=============================================================================
