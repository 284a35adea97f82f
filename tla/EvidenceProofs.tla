--------------------------- MODULE EvidenceProofs ---------------------------
(***************************************************************************)
(* Proofs about Evidence, for any slots, any number of sessions wherever   *)
(* they arrive, any limit of the references and any requests under way:    *)
(* evidence is never filed under a slot it was not taken at, and the queue *)
(* of the references names what is kept, once.                             *)
(*                                                                         *)
(* EvidenceInv is the inductive invariant.  What the page shows comes from *)
(* three places, and the invariant says of each that its sessions arrived  *)
(* at the slot they are filed under: the controller's slots (SlotsOfHome), *)
(* the answers under way, whatever has changed since they were asked       *)
(* (RequestsOfHome), and the references of events, kept or put back        *)
(* (RefsOfHome).                                                           *)
(*                                                                         *)
(* Below them, proofs about EvidenceView, for any finite set of slots, any *)
(* lists and any number of loads under way: the card shows its pair.       *)
(* ViewInv adds to ViewConsistent what the card is of (CardIsOfPair: the   *)
(* label names the pair selected before a picture is there) and that every *)
(* load is of an image (LoadsAreOfImages): an answer is taken because its  *)
(* request is the one awaited, and is right because that request was sent  *)
(* for the label the card has now.                                         *)
(***************************************************************************)
EXTENDS Evidence, EvidenceView, FiniteSetTheorems, SequenceTheorems, WellFoundedInduction,
        TLAPS

-----------------------------------------------------------------------------
(* The inductive invariant.                                                *)

Numbers == 0..LastSession

(* Session n, if it is one, arrived at slot s.                             *)
Of(n, s) == n # 0 => Home[n] = s

ServerOfHome ==
  /\ at \in [Slots -> Numbers] /\ came \in Numbers
  /\ \A s \in Slots : Of(at[s], s)

SlotStates == [session : Numbers, plate : Numbers \cup {None}, images : Numbers]
StateOfHome(st) == st \in [Slots -> SlotStates] /\ \A s \in Slots : Of(st[s].images, s)
SlotsOfHome == StateOfHome(slot)

RefType == [slot : Slots, session : Numbers, plate : Numbers]
RefOfHome(ref) == ref \in RefType /\ Of(ref.session, ref.slot)
RefsOfHome == DOMAIN refs \subseteq Events /\ \A e \in DOMAIN refs : RefOfHome(refs[e])

RequestOfHome(r) ==
  /\ r.kind \in {"detail", "images"} =>
       r.slot \in Slots /\ r.session \in Numbers /\ Of(r.session, r.slot)
  /\ r.kind = "poll" =>
       r.session \in [Slots -> Numbers] /\ \A s \in Slots : Of(r.session[s], s)
  /\ r.kind = "event" =>
       /\ r.event \in Events /\ RefOfHome(r.ref)
       /\ r.session \in Numbers /\ Of(r.session, r.ref.slot)
RequestsOfHome == \A r \in net : RequestOfHome(r)

Pairs == [session : Sessions, plate : Numbers]
PageType == [imgs : [Slots -> Numbers], plates : [Slots -> Numbers],
             pairs : [Slots -> Pairs \cup {None}], filter : Slots \cup {None},
             event : Events \cup {None}]
ImagesOfHome(p) == p \in PageType /\ \A s \in Slots : Of(p.imgs[s], s)

(* The timeline is of what is cached, under the filter.                    *)
Timeline(p) ==
  \A s \in Slots :
    IF p.imgs[s] # 0 /\ p.filter \in {None, s}
    THEN p.pairs[s] # None /\ p.pairs[s].session = p.imgs[s] ELSE p.pairs[s] = None
PageOfHome(p) == ImagesOfHome(p) /\ Timeline(p)

Flags == seen \subseteq Events /\ visible \in BOOLEAN
Queue == order \in Seq(Events) /\ QueuedAreKept

EvidenceInv ==
  /\ ServerOfHome /\ SlotsOfHome /\ RefsOfHome /\ RequestsOfHome
  /\ PageOfHome(page) /\ Flags /\ Queue

(* What the constants are.                                                 *)
LEMMA Constants ==
  /\ LastSession \in Nat /\ 0 \in Numbers /\ Sessions \subseteq Numbers /\ 0 \notin Sessions
  /\ \A n \in Numbers : n # 0 => n \in Sessions
  /\ \A n \in Sessions : Home[n] \in Slots
  /\ \A e \in Events : e[1] \in Sessions
  /\ None \notin Pairs /\ None \notin Slots /\ None \notin Events
  /\ RefLimit \in Nat \ {0}
<1>1. LastSession \in Nat /\ Home \in [Sessions -> Slots] /\ RefLimit \in Nat \ {0}
      /\ Events \subseteq Sessions \X {"in", "out"}
      /\ None \notin Slots \cup Events \cup [session : Sessions, plate : 0..LastSession]
  BY EvidenceConstants, SlotsAssumption
<1>2. \A e \in Events : e[1] \in Sessions
  BY <1>1
<1> QED BY <1>1, <1>2 DEF Sessions, Numbers, Pairs

(* It gives what the runs check.                                           *)
LEMMA EvidenceInvImplies == EvidenceInv => EvidenceConsistent /\ PairsAreOfTheirSlot
<1> SUFFICES ASSUME EvidenceInv PROVE EvidenceConsistent /\ PairsAreOfTheirSlot
  OBVIOUS
<1>1. EvidenceTypeOK
  <2>1. at \in [Slots -> 0..LastSession] /\ came \in 0..LastSession
    BY DEF EvidenceInv, ServerOfHome, Numbers
  <2>2. slot \in [Slots -> [session : 0..LastSession, plate : 0..LastSession \cup {None},
                            images : 0..LastSession]]
    BY DEF EvidenceInv, SlotsOfHome, StateOfHome, SlotStates, Numbers
  <2>3. DOMAIN refs \subseteq Events /\ order \in Seq(Events) /\ seen \subseteq Events
        /\ visible \in BOOLEAN
    BY DEF EvidenceInv, RefsOfHome, Queue, Flags
  <2>4. page.filter \in Slots \cup {None} /\ page.event \in Events \cup {None}
    BY DEF EvidenceInv, PageOfHome, ImagesOfHome, PageType
  <2> QED BY <2>1, <2>2, <2>3, <2>4 DEF EvidenceInv, PageOfHome, Timeline, EvidenceTypeOK
<1>2. PairsAreOfTheirSlot
  <2> SUFFICES ASSUME NEW s \in Slots, page.pairs[s] # None
               PROVE  Home[page.pairs[s].session] = s
    BY DEF PairsAreOfTheirSlot
  <2> QED BY DEF EvidenceInv, PageOfHome, ImagesOfHome, Timeline, Of
<1> QED BY <1>1, <1>2 DEF EvidenceInv, Queue, EvidenceConsistent

-----------------------------------------------------------------------------
(* The page.                                                               *)

(* The timeline drawn anew is right whatever it was before.                *)
LEMMA ShowLocalKeeps ==
  ASSUME NEW p, ImagesOfHome(p)
  PROVE  PageOfHome(ShowLocal(p))
<1> DEFINE pair(s) == IF p.imgs[s] # 0 /\ p.filter \in {None, s}
                      THEN [session |-> p.imgs[s], plate |-> p.plates[s]] ELSE None
           q == ShowLocal(p)
<1>1. p \in PageType /\ \A s \in Slots : Of(p.imgs[s], s)
  BY DEF ImagesOfHome
<1>2. q = [p EXCEPT !.event = None, !.pairs = [s \in Slots |-> pair(s)]]
  BY DEF ShowLocal
<1>3. \A s \in Slots : p.imgs[s] \in Numbers /\ p.plates[s] \in Numbers
  BY <1>1 DEF PageType
<1>4. \A s \in Slots : pair(s) \in Pairs \cup {None}
  BY <1>3, Constants DEF Pairs
<1>5. [s \in Slots |-> pair(s)] \in [Slots -> Pairs \cup {None}]
  BY <1>4
<1> HIDE DEF pair, q
<1>6. /\ q.imgs = p.imgs /\ q.plates = p.plates /\ q.filter = p.filter
      /\ q.pairs = [s \in Slots |-> pair(s)] /\ q \in PageType
  BY <1>1, <1>2, <1>5 DEF PageType
<1>7. Timeline(q)
  <2> SUFFICES ASSUME NEW s \in Slots
               PROVE  IF p.imgs[s] # 0 /\ p.filter \in {None, s}
                      THEN pair(s) # None /\ pair(s).session = p.imgs[s] ELSE pair(s) = None
    BY <1>6 DEF Timeline
  <2>1. CASE p.imgs[s] # 0 /\ p.filter \in {None, s}
    <3>1. pair(s) = [session |-> p.imgs[s], plate |-> p.plates[s]]
      BY <2>1 DEF pair
    <3>2. pair(s) \in Pairs
      BY <2>1, <1>3, <3>1, Constants DEF Pairs
    <3> QED BY <2>1, <3>1, <3>2, Constants
  <2>2. CASE ~(p.imgs[s] # 0 /\ p.filter \in {None, s})
    BY <2>2 DEF pair
  <2> QED BY <2>1, <2>2
<1> QED BY <1>1, <1>6, <1>7 DEF PageOfHome, ImagesOfHome, q

(* A render takes the images of a state that files them rightly.           *)
LEMMA RenderKeeps ==
  ASSUME NEW p, PageOfHome(p), NEW st, StateOfHome(st)
  PROVE  PageOfHome(Render(p, st))
<1> DEFINE imgs == [s \in Slots |-> IF st[s].images # 0 THEN st[s].images ELSE p.imgs[s]]
           plates == [s \in Slots |-> IF st[s].plate = None THEN p.plates[s] ELSE st[s].plate]
           q == [p EXCEPT !.imgs = imgs, !.plates = plates]
<1>1. p \in PageType /\ \A s \in Slots : Of(p.imgs[s], s)
  BY DEF PageOfHome, ImagesOfHome
<1>2. \A s \in Slots : /\ p.imgs[s] \in Numbers /\ p.plates[s] \in Numbers
                       /\ st[s].images \in Numbers /\ Of(st[s].images, s)
                       /\ st[s].plate \in Numbers \cup {None}
  BY <1>1 DEF PageType, StateOfHome, SlotStates
<1>3. imgs \in [Slots -> Numbers] /\ plates \in [Slots -> Numbers]
      /\ \A s \in Slots : Of(imgs[s], s)
  <2>1. \A s \in Slots : /\ (IF st[s].images # 0 THEN st[s].images ELSE p.imgs[s]) \in Numbers
                         /\ (IF st[s].plate = None THEN p.plates[s] ELSE st[s].plate) \in Numbers
    BY <1>2
  <2>2. imgs \in [Slots -> Numbers] /\ plates \in [Slots -> Numbers]
    BY <2>1
  <2>3. \A s \in Slots : imgs[s] = IF st[s].images # 0 THEN st[s].images ELSE p.imgs[s]
    OBVIOUS
  <2> HIDE DEF imgs, plates
  <2> QED BY <1>1, <1>2, <2>2, <2>3
<1>4. Render(p, st) = IF q.imgs # p.imgs THEN ShowLocal(q) ELSE q
  BY <1>1 DEF Render, PageType
<1> HIDE DEF imgs, plates
<1>5. q.imgs = imgs /\ q.filter = p.filter /\ q.pairs = p.pairs /\ q \in PageType
  BY <1>1, <1>3 DEF PageType
<1>6. ImagesOfHome(q)
  BY <1>3, <1>5 DEF ImagesOfHome
<1>7. CASE q.imgs = p.imgs
  <2>1. Timeline(q)
    BY <1>5, <1>7 DEF PageOfHome, Timeline
  <2> QED BY <1>4, <1>6, <1>7, <2>1 DEF PageOfHome
<1>8. CASE q.imgs # p.imgs
  BY <1>4, <1>6, <1>8, ShowLocalKeeps
<1> QED BY <1>7, <1>8

(* Evidence of one slot.                                                   *)
LEMMA ShowEvidenceKeeps ==
  ASSUME NEW p, PageOfHome(p), NEW s \in Slots, NEW plate \in Numbers,
         NEW images \in Numbers, Of(images, s)
  PROVE  PageOfHome(ShowEvidence(p, s, plate, images))
<1> DEFINE changed == images # 0 /\ p.imgs[s] # images
           imgs == [p.imgs EXCEPT ![s] = IF images # 0 THEN images ELSE @]
           plates == [p.plates EXCEPT ![s] = plate]
           q == [p EXCEPT !.imgs = imgs, !.plates = plates]
           anew == changed \/ p.plates[s] # plate \/ \A t \in Slots : p.pairs[t] = None
<1>1. p \in PageType /\ \A t \in Slots : Of(p.imgs[t], t)
  BY DEF PageOfHome, ImagesOfHome
<1>2. p.imgs \in [Slots -> Numbers] /\ p.plates \in [Slots -> Numbers]
  BY <1>1 DEF PageType
<1>3. imgs \in [Slots -> Numbers] /\ plates \in [Slots -> Numbers]
      /\ \A t \in Slots : Of(imgs[t], t)
  BY <1>1, <1>2
<1>4. ShowEvidence(p, s, plate, images) = IF anew THEN ShowLocal(q) ELSE q
  BY <1>1 DEF ShowEvidence, PageType
<1>5. ~changed => imgs = p.imgs
  BY <1>2
<1> HIDE DEF imgs, plates
<1>6. q.imgs = imgs /\ q.filter = p.filter /\ q.pairs = p.pairs /\ q \in PageType
  BY <1>1, <1>3 DEF PageType
<1>7. ImagesOfHome(q)
  BY <1>3, <1>6 DEF ImagesOfHome
<1>8. CASE anew
  BY <1>4, <1>7, <1>8, ShowLocalKeeps
<1>9. CASE ~anew
  <2>1. Timeline(q)
    BY <1>5, <1>6, <1>9 DEF PageOfHome, Timeline
  <2> QED BY <1>4, <1>7, <1>9, <2>1 DEF PageOfHome
<1> QED BY <1>8, <1>9

(* Evidence of an event is shown for the slot of its reference.            *)
LEMMA ShowEventKeeps ==
  ASSUME NEW p, PageOfHome(p), NEW e \in Events, NEW s \in Slots, NEW plate \in Numbers,
         NEW images \in Numbers, Of(images, s)
  PROVE  PageOfHome(ShowEventEvidence(p, e, s, plate, images))
<1> DEFINE q == ShowEvidence(p, s, plate, images)
<1>1. PageOfHome(q)
  BY ShowEvidenceKeeps
<1>2. ShowEventEvidence(p, e, s, plate, images) = IF e # p.event THEN p ELSE [q EXCEPT !.event = e]
  BY DEF ShowEventEvidence
<1> HIDE DEF q
<1>3. PageOfHome([q EXCEPT !.event = e])
  BY <1>1 DEF PageOfHome, ImagesOfHome, Timeline, PageType
<1> QED BY <1>2, <1>3

(* Details of a slot, if the page is the current one.                      *)
LEMMA DetailReadyKeeps ==
  ASSUME NEW p, PageOfHome(p), NEW s \in Slots, NEW st, StateOfHome(st)
  PROVE  PageOfHome(DetailReady(p, s, st))
<1>1. st[s].images \in Numbers /\ Of(st[s].images, s) /\ st[s].plate \in Numbers \cup {None}
  BY DEF StateOfHome, SlotStates
<1>2. (IF st[s].plate = None THEN 0 ELSE st[s].plate) \in Numbers
  BY <1>1, Constants
<1> QED BY <1>1, <1>2, ShowEvidenceKeeps DEF DetailReady

-----------------------------------------------------------------------------
(* The references and the requests.                                        *)

(* A remembered reference takes the last place of the queue, and the one   *)
(* that has to go takes the first with it.                                 *)
LEMMA RememberKeeps ==
  ASSUME RefsOfHome, Queue, NEW e \in Events, NEW ref, RefOfHome(ref), Remember(e, ref)
  PROVE  RefsOfHome' /\ Queue'
<1> DEFINE queue == IF e \in DOMAIN refs THEN order ELSE Append(order, e)
           full == Len(queue) > RefLimit
           kept == (DOMAIN refs \cup {e}) \ (IF full THEN {Head(queue)} ELSE {})
<1>1. order' = IF full THEN Tail(queue) ELSE queue
  BY DEF Remember
<1>2. refs' = [x \in kept |-> IF x = e THEN ref ELSE refs[x]]
  BY DEF Remember
<1>3. /\ order \in Seq(Events) /\ Len(order) <= RefLimit
      /\ (\A i \in DOMAIN order : order[i] \in DOMAIN refs)
      /\ (\A i, j \in DOMAIN order : order[i] = order[j] => i = j)
  BY DEF Queue, QueuedAreKept
<1>4. /\ queue \in Seq(Events)
      /\ Len(queue) <= RefLimit + 1
      /\ (\A i \in DOMAIN queue : queue[i] \in DOMAIN refs \cup {e})
      /\ (\A i, j \in DOMAIN queue : queue[i] = queue[j] => i = j)
  <2>1. CASE e \in DOMAIN refs
    BY <2>1, <1>3, Constants
  <2>2. CASE e \notin DOMAIN refs
    BY <2>2, <1>3, Constants
  <2> QED BY <2>1, <2>2
<1>5. RefsOfHome'
  <2>1. kept \subseteq Events
    BY DEF RefsOfHome
  <2> HIDE DEF kept
  <2>2. DOMAIN refs' = kept
    BY <1>2
  <2>3. ASSUME NEW x \in kept PROVE RefOfHome(refs'[x])
    <3>1. refs'[x] = IF x = e THEN ref ELSE refs[x]
      BY <1>2
    <3>2. x # e => x \in DOMAIN refs
      BY DEF kept
    <3> QED BY <3>1, <3>2 DEF RefsOfHome
  <2>4. RefsOfHome' = (DOMAIN refs' \subseteq Events /\ \A x \in DOMAIN refs' : RefOfHome(refs'[x]))
    BY DEF RefsOfHome, RefOfHome, Of
  <2> QED BY <2>1, <2>2, <2>3, <2>4
<1>6. Queue'
  <2>1. DOMAIN refs' = kept
    BY <1>2
  <2> HIDE DEF queue
  <2>2. CASE full
    <3>1. queue # << >> /\ Len(queue) = RefLimit + 1
      BY <2>2, <1>4, Constants
    <3>2. /\ Tail(queue) \in Seq(Events) /\ Len(Tail(queue)) = RefLimit
          /\ Head(queue) = queue[1]
          /\ \A i \in 1..Len(Tail(queue)) : Tail(queue)[i] = queue[i + 1] /\ i + 1 \in DOMAIN queue
      BY <3>1, <1>4, HeadTailProperties, Constants
    <3>3. /\ \A i \in DOMAIN Tail(queue) : Tail(queue)[i] \in kept
          /\ \A i, j \in DOMAIN Tail(queue) : Tail(queue)[i] = Tail(queue)[j] => i = j
      BY <2>2, <1>4, <3>1, <3>2
    <3>4. order' = Tail(queue)
      BY <1>1, <2>2
    <3> QED BY <2>1, <3>2, <3>3, <3>4, Constants DEF Queue, QueuedAreKept
  <2>3. CASE ~full
    <3>1. order' = queue /\ kept = DOMAIN refs \cup {e} /\ Len(queue) <= RefLimit
      BY <2>3, <1>1, <1>4, Constants
    <3> QED BY <2>1, <1>4, <3>1 DEF Queue, QueuedAreKept
  <2> QED BY <2>2, <2>3
<1> QED BY <1>5, <1>6

(* A reference put back is in no place of the queue, and disturbs none.    *)
LEMMA PutBackKeeps ==
  ASSUME RefsOfHome, Queue, NEW e \in Events, NEW ref, RefOfHome(ref), PutBack(e, ref)
  PROVE  RefsOfHome' /\ Queue'
<1>1. /\ refs' = [x \in DOMAIN refs \cup {e} |-> IF x = e THEN ref ELSE refs[x]]
      /\ order' = order
  BY DEF PutBack
<1>2. \A x \in DOMAIN refs' : RefOfHome(refs'[x])
  BY <1>1 DEF RefsOfHome
<1>3. RefsOfHome' = (DOMAIN refs' \subseteq Events /\ \A x \in DOMAIN refs' : RefOfHome(refs'[x]))
  BY DEF RefsOfHome, RefOfHome, Of
<1>4. DOMAIN refs' = DOMAIN refs \cup {e} /\ DOMAIN refs \subseteq Events
  BY <1>1 DEF RefsOfHome
<1>5. Queue'
  BY <1>1, <1>4 DEF Queue, QueuedAreKept
<1> QED BY <1>2, <1>3, <1>4, <1>5

(* Requests are sent for a slot with the session it has at the server.     *)
LEMMA DetailsOfHome ==
  ASSUME ServerOfHome, NEW asked \in SUBSET Slots
  PROVE  \A r \in Details(asked) : RequestOfHome(r)
BY DEF Details, RequestOfHome, ServerOfHome

(* What an event asks for is of the slot of its reference.                 *)
LEMMA EventRequestOfHome ==
  ASSUME ServerOfHome, NEW e \in Events, NEW ref, RefOfHome(ref)
  PROVE  RequestOfHome(EventRequest(e, ref))
<1>1. /\ ref.session \in Numbers /\ ref.slot \in Slots /\ Of(ref.session, ref.slot)
      /\ at[ref.slot] \in Numbers /\ Of(at[ref.slot], ref.slot)
  BY DEF RefOfHome, RefType, ServerOfHome
<1> DEFINE r == EventRequest(e, ref)
<1>2. /\ r.kind = "event" /\ r.event = e /\ r.ref = ref
      /\ r.session = IF ref.session > 0 THEN ref.session ELSE at[ref.slot]
  BY DEF EventRequest
<1> HIDE DEF r
<1> QED BY <1>1, <1>2 DEF RequestOfHome, r

(* An event without a reference asks for nothing.                          *)
LEMMA RequestEventKeeps ==
  ASSUME ServerOfHome, RefsOfHome, RequestsOfHome, NEW e \in Events, RequestEvent(e)
  PROVE  RequestsOfHome'
<1>1. RequestsOfHome' = \A r \in net' : RequestOfHome(r)
  BY DEF RequestsOfHome, RequestOfHome, RefOfHome, Of
<1>2. CASE e \in DOMAIN refs
  <2>1. net' = net \cup {EventRequest(e, refs[e])}
    BY <1>2 DEF RequestEvent
  <2>2. RequestOfHome(EventRequest(e, refs[e]))
    BY <1>2, EventRequestOfHome DEF RefsOfHome
  <2> QED BY <1>1, <2>1, <2>2 DEF RequestsOfHome
<1>3. CASE e \notin DOMAIN refs
  BY <1>1, <1>3 DEF RequestEvent, RequestsOfHome
<1> QED BY <1>2, <1>3

-----------------------------------------------------------------------------
(* The steps, by what they change.                                         *)

(* What does not read a variable is kept with it.                          *)
LEMMA Kept ==
  /\ ServerOfHome /\ UNCHANGED <<at, came>> => ServerOfHome'
  /\ SlotsOfHome /\ UNCHANGED slot => SlotsOfHome'
  /\ RefsOfHome /\ UNCHANGED refs => RefsOfHome'
  /\ Queue /\ UNCHANGED <<refs, order>> => Queue'
  /\ PageOfHome(page) /\ UNCHANGED page => PageOfHome(page')
  /\ Flags /\ UNCHANGED <<seen, visible>> => Flags'
  /\ RequestsOfHome /\ net' \subseteq net => RequestsOfHome'
<1>1. ServerOfHome /\ UNCHANGED <<at, came>> => ServerOfHome'
  BY DEF ServerOfHome
<1>2. SlotsOfHome /\ UNCHANGED slot => SlotsOfHome'
  BY DEF SlotsOfHome
<1>3. RefsOfHome /\ UNCHANGED refs => RefsOfHome'
  BY DEF RefsOfHome
<1>4. Queue /\ UNCHANGED <<refs, order>> => Queue'
  BY DEF Queue, QueuedAreKept
<1>5. PageOfHome(page) /\ UNCHANGED page => PageOfHome(page')
  OBVIOUS
<1>6. Flags /\ UNCHANGED <<seen, visible>> => Flags'
  BY DEF Flags
<1>7. RequestsOfHome /\ net' \subseteq net => RequestsOfHome'
  BY DEF RequestsOfHome
<1> QED BY <1>1, <1>2, <1>3, <1>4, <1>5, <1>6, <1>7

(* A session arrives at its own slot, and may leave it.                    *)
LEMMA ServerMoves ==
  ASSUME EvidenceInv, Arrive \/ \E s \in Slots : Leave(s)
  PROVE  EvidenceInv'
<1>1. UNCHANGED <<slot, net, seen, refs, order, page, visible>>
  BY DEF Arrive, Leave
<1>2. ServerOfHome'
  <2>1. CASE Arrive
    <3>1. came + 1 \in Sessions /\ came' = came + 1
          /\ at' = [at EXCEPT ![Home[came + 1]] = came + 1]
      BY <2>1, Constants DEF Arrive, EvidenceInv, ServerOfHome, Numbers, Sessions
    <3> QED BY <3>1, Constants DEF EvidenceInv, ServerOfHome, Of
  <2>2. ASSUME NEW s \in Slots, Leave(s) PROVE ServerOfHome'
    <3>1. at' = [at EXCEPT ![s] = 0] /\ came' = came
      BY <2>2 DEF Leave
    <3> QED BY <3>1, Constants DEF EvidenceInv, ServerOfHome, Of
  <2> QED BY <2>1, <2>2
<1> QED BY <1>1, <1>2, Kept DEF EvidenceInv

(* An event files no images, and its reference is of its own slot.         *)
LEMMA EventKeeps ==
  ASSUME EvidenceInv, NEW e \in Events, ParkingEvent(e)
  PROVE  EvidenceInv'
<1> DEFINE n == e[1]
           s == Home[n]
           sid == IF n \in Legacy THEN 0 ELSE n
           session == IF sid > 0 THEN sid ELSE slot[s].session
           next == IF e[2] = "out"
                   THEN [session |-> 0, plate |-> IF s \in EvSlots THEN 0 ELSE None, images |-> 0]
                   ELSE [slot[s] EXCEPT !.session = session, !.plate = n]
           now == [slot EXCEPT ![s] = next]
           ref == [slot |-> s, session |-> sid, plate |-> n]
<1>1. n \in Sessions /\ n \in Numbers /\ s \in Slots /\ 0 \in Numbers /\ sid \in Numbers
      /\ Of(sid, s)
  BY Constants DEF Of
<1>2. slot \in [Slots -> SlotStates] /\ \A t \in Slots : Of(slot[t].images, t)
  BY DEF EvidenceInv, SlotsOfHome, StateOfHome
<1>3. slot' = now /\ page' = Render(page, slot') /\ seen' = seen \cup {e}
      /\ UNCHANGED <<at, came, net, visible>>
  <2>1. slot' = now
    BY Zenon DEF ParkingEvent
  <2>2. page' = Render(page, slot')
    BY Zenon DEF ParkingEvent
  <2> QED BY <2>1, <2>2 DEF ParkingEvent
<1>4. IF e \in seen THEN UNCHANGED <<refs, order>> ELSE Remember(e, ref)
  BY DEF ParkingEvent
<1>5. next \in SlotStates /\ Of(next.images, s)
  <2>1. slot[s] \in SlotStates /\ Of(slot[s].images, s)
    BY <1>1, <1>2
  <2>2. CASE e[2] = "out"
    BY <1>1, <2>2 DEF SlotStates, Of
  <2>3. CASE e[2] # "out"
    BY <1>1, <2>1, <2>3 DEF SlotStates
  <2> QED BY <2>2, <2>3
<1> HIDE DEF next
<1>6. StateOfHome(now)
  BY <1>1, <1>2, <1>5 DEF StateOfHome
<1>7. PageOfHome(page')
  BY <1>3, <1>6, RenderKeeps DEF EvidenceInv
<1>8. RefOfHome(ref)
  BY <1>1 DEF RefOfHome, RefType
<1>9. RefsOfHome' /\ Queue'
  BY <1>4, <1>8, RememberKeeps, Kept DEF EvidenceInv
<1>10. Flags'
  BY <1>3 DEF EvidenceInv, Flags
<1> QED BY <1>3, <1>6, <1>7, <1>9, <1>10, Kept DEF EvidenceInv, SlotsOfHome

(* A snapshot files what it lists under the slot it lists it for; what it  *)
(* does not list stays where it was.                                       *)
LEMMA SnapshotKeeps ==
  ASSUME EvidenceInv, NEW r \in net, NEW listed \in BOOLEAN, SnapshotArrives(r, listed)
  PROVE  EvidenceInv'
<1> DEFINE image(s) == LET n == r.session[s]
                       IN  IF n = 0 THEN 0 ELSE IF listed THEN n
                           ELSE IF slot[s].session = n THEN slot[s].images ELSE 0
           now == [s \in Slots |-> [session |-> r.session[s], plate |-> r.session[s],
                                   images |-> image(s)]]
<1>1. r.kind = "poll" /\ slot' = now /\ page' = Render(page, now) /\ net' = net \ {r}
      /\ UNCHANGED <<at, came, seen, refs, order, visible>>
  BY DEF SnapshotArrives
<1>2. \A s \in Slots : r.session[s] \in Numbers /\ Of(r.session[s], s)
  BY <1>1 DEF EvidenceInv, RequestsOfHome, RequestOfHome
<1>3. \A s \in Slots : slot[s].images \in Numbers /\ Of(slot[s].images, s)
  BY DEF EvidenceInv, SlotsOfHome, StateOfHome, SlotStates
<1>4. \A s \in Slots : image(s) \in Numbers /\ Of(image(s), s)
  BY <1>2, <1>3, Constants DEF Of
<1> HIDE DEF image
<1>5. StateOfHome(now)
  BY <1>2, <1>4 DEF StateOfHome, SlotStates
<1>6. PageOfHome(page')
  BY <1>1, <1>5, RenderKeeps DEF EvidenceInv
<1> QED BY <1>1, <1>5, <1>6, Kept DEF EvidenceInv, SlotsOfHome

(* Details file the session their request was answered with.               *)
LEMMA DetailKeeps ==
  ASSUME EvidenceInv, NEW r \in net, NEW listed \in BOOLEAN, DetailArrives(r, listed)
  PROVE  EvidenceInv'
<1> DEFINE s == r.slot
           n == r.session
           next == [session |-> n, plate |-> IF s \in EvSlots THEN slot[s].plate ELSE n,
                    images |-> IF listed THEN n ELSE 0]
           now == [slot EXCEPT ![s] = next]
           rest == net \ {r}
           ask == [kind |-> "images", slot |-> s, session |-> n]
<1>1. r.kind = "detail" /\ slot' = now /\ UNCHANGED <<at, came, seen, refs, order, visible>>
  BY DEF DetailArrives
<1>2. \/ net' = rest
      \/ net' = rest \cup {ask}
  BY DEF DetailArrives
<1>3. page' \in {Render(page, now), DetailReady(Render(page, now), s, now)}
  BY DEF DetailArrives
<1>4. s \in Slots /\ n \in Numbers /\ Of(n, s) /\ 0 \in Numbers
  BY <1>1, Constants DEF EvidenceInv, RequestsOfHome, RequestOfHome
<1>5. slot \in [Slots -> SlotStates] /\ \A t \in Slots : Of(slot[t].images, t)
  BY DEF EvidenceInv, SlotsOfHome, StateOfHome
<1>6. next \in SlotStates /\ Of(next.images, s)
  <2>1. slot[s].plate \in Numbers \cup {None}
    BY <1>4, <1>5 DEF SlotStates
  <2> QED BY <1>4, <2>1 DEF SlotStates, Of
<1>7. RequestOfHome(ask)
  BY <1>4 DEF RequestOfHome
<1> HIDE DEF next, ask, s, n
<1>8. StateOfHome(now)
  BY <1>4, <1>5, <1>6 DEF StateOfHome
<1>9. PageOfHome(page')
  <2>1. PageOfHome(Render(page, now))
    BY <1>8, RenderKeeps DEF EvidenceInv
  <2>2. PageOfHome(DetailReady(Render(page, now), s, now))
    BY <1>4, <1>8, <2>1, DetailReadyKeeps
  <2> QED BY <1>3, <2>1, <2>2
<1>10. RequestsOfHome'
  <2>1. \A q \in net' : RequestOfHome(q)
    BY <1>2, <1>7 DEF EvidenceInv, RequestsOfHome
  <2> QED BY <2>1 DEF RequestsOfHome
<1> QED BY <1>1, <1>8, <1>9, <1>10, Kept DEF EvidenceInv, SlotsOfHome

(* Images are filed under the slot that asked for them, whose session they *)
(* are even if the slot has another one by now.                            *)
LEMMA ImagesKeep ==
  ASSUME EvidenceInv, NEW r \in net, NEW listed \in BOOLEAN, ImagesArrive(r, listed)
  PROVE  EvidenceInv'
<1> DEFINE s == r.slot
           images == IF listed THEN r.session ELSE 0
           now == [slot EXCEPT ![s].images = images]
<1>1. r.kind = "images" /\ slot' = now /\ net' = net \ {r}
      /\ page' = DetailReady(Render(page, now), s, now)
      /\ UNCHANGED <<at, came, seen, refs, order, visible>>
  BY DEF ImagesArrive
<1>2. s \in Slots /\ r.session \in Numbers /\ Of(r.session, s)
  BY <1>1 DEF EvidenceInv, RequestsOfHome, RequestOfHome
<1>3. images \in Numbers /\ Of(images, s)
  BY <1>2, Constants DEF Of
<1>4. slot \in [Slots -> SlotStates] /\ \A t \in Slots : Of(slot[t].images, t)
  BY DEF EvidenceInv, SlotsOfHome, StateOfHome
<1> HIDE DEF images, s
<1>5. StateOfHome(now)
  <2>1. slot[s] \in SlotStates
    BY <1>2, <1>4
  <2>2. [slot[s] EXCEPT !.images = images] \in SlotStates
    BY <1>3, <2>1 DEF SlotStates
  <2>3. [slot[s] EXCEPT !.images = images].images = images
    BY <2>1 DEF SlotStates
  <2> QED BY <1>2, <1>3, <1>4, <2>2, <2>3 DEF StateOfHome
<1>6. PageOfHome(Render(page, now))
  BY <1>5, RenderKeeps DEF EvidenceInv
<1>7. PageOfHome(page')
  BY <1>1, <1>2, <1>5, <1>6, DetailReadyKeeps
<1> QED BY <1>1, <1>5, <1>7, Kept DEF EvidenceInv, SlotsOfHome

(* An answer about an event is of its reference, whether or not it was     *)
(* evicted: the session it learns is of the reference's slot.              *)
LEMMA EventArrivesKeeps ==
  ASSUME EvidenceInv, NEW r \in net, NEW listed \in BOOLEAN, EventArrives(r, listed)
  PROVE  EvidenceInv'
<1> DEFINE e == r.event
           plate == IF r.session > 0 THEN r.session ELSE r.ref.plate
           ref == [r.ref EXCEPT !.session = r.session,
                                !.plate = IF r.session > 0 THEN r.session ELSE @]
           images == IF listed THEN r.session ELSE 0
<1>1. r.kind = "event" /\ UNCHANGED <<at, came, slot, seen, visible>>
  BY DEF EventArrives
<1>2. /\ e \in Events /\ r.ref \in RefType /\ r.session \in Numbers /\ Of(r.session, r.ref.slot)
      /\ Of(r.ref.session, r.ref.slot) /\ 0 \in Numbers
  BY <1>1, Constants DEF EvidenceInv, RequestsOfHome, RequestOfHome, RefOfHome
<1>3. r.ref.slot \in Slots /\ r.ref.plate \in Numbers /\ images \in Numbers
      /\ Of(images, r.ref.slot)
  BY <1>2 DEF RefType, Of
<1>4. ref \in RefType /\ ref.slot = r.ref.slot /\ ref.session = r.session
      /\ ref.plate \in Numbers
  BY <1>2 DEF RefType
<1>5. RefOfHome(ref)
  BY <1>2, <1>4 DEF RefOfHome
<1>6. CASE r.step = "detail"
  <2>1. PutBack(e, ref)
    BY <1>6 DEF EventArrives
  <2>2. RefsOfHome' /\ Queue'
    BY <1>2, <1>5, <2>1, PutBackKeeps DEF EvidenceInv
  <2>3. CASE r.session > 0
    <3>1. net' = (net \ {r}) \cup {EventRequest(e, ref)} /\ page' = page
      BY <1>6, <2>3 DEF EventArrives
    <3>2. RequestOfHome(EventRequest(e, ref))
      BY <1>2, <1>5, EventRequestOfHome DEF EvidenceInv
    <3>3. \A q \in net' : RequestOfHome(q)
      BY <3>1, <3>2 DEF EvidenceInv, RequestsOfHome
    <3>4. RequestsOfHome'
      BY <3>3 DEF RequestsOfHome
    <3> QED BY <1>1, <2>2, <3>1, <3>4, Kept DEF EvidenceInv
  <2>4. CASE ~(r.session > 0)
    <3>1. net' = net \ {r} /\ page' = ShowEventEvidence(page, e, ref.slot, ref.plate, 0)
      BY <1>6, <2>4 DEF EventArrives
    <3>2. PageOfHome(page')
      BY <1>2, <1>3, <1>4, <3>1, ShowEventKeeps DEF EvidenceInv, Of
    <3> QED BY <1>1, <2>2, <3>1, <3>2, Kept DEF EvidenceInv
  <2> QED BY <2>3, <2>4
<1>7. CASE r.step # "detail"
  <2>1. net' = net \ {r} /\ UNCHANGED <<refs, order>>
        /\ page' = ShowEventEvidence(page, e, r.ref.slot, r.ref.plate, images)
    BY <1>7 DEF EventArrives
  <2>2. PageOfHome(page')
    BY <1>2, <1>3, <2>1, ShowEventKeeps DEF EvidenceInv
  <2> QED BY <1>1, <2>1, <2>2, Kept DEF EvidenceInv
<1> QED BY <1>6, <1>7

(* Requests are only ever of the slot they ask about.                      *)
LEMMA RefreshKeeps ==
  ASSUME EvidenceInv, Refresh
  PROVE  EvidenceInv'
<1>1. visible' = TRUE /\ UNCHANGED <<at, came, slot, seen, refs, order, page>>
  BY DEF Refresh
<1>2. Flags'
  BY <1>1 DEF EvidenceInv, Flags
<1>3. page.event \in Events \cup {None} /\ page.filter \in Slots \cup {None}
  BY DEF EvidenceInv, PageOfHome, ImagesOfHome, PageType
<1>4. RequestsOfHome'
  <2>1. CASE page.event # None
    <3>1. RequestEvent(page.event)
      BY <2>1 DEF Refresh
    <3> QED BY <1>3, <2>1, <3>1, RequestEventKeeps DEF EvidenceInv
  <2>2. CASE page.event = None
    <3> DEFINE asked == IF page.filter = None THEN Slots ELSE {page.filter}
    <3>1. net' = net \cup Details(asked)
      BY <2>2 DEF Refresh
    <3>2. asked \in SUBSET Slots
      BY <1>3
    <3>3. \A r \in Details(asked) : RequestOfHome(r)
      BY <3>2, DetailsOfHome DEF EvidenceInv
    <3>4. \A r \in net' : RequestOfHome(r)
      BY <3>1, <3>3 DEF EvidenceInv, RequestsOfHome
    <3> QED BY <3>4 DEF RequestsOfHome
  <2> QED BY <2>1, <2>2
<1> QED BY <1>1, <1>2, <1>4, Kept DEF EvidenceInv

(* A snapshot will list what is at the slots now.                          *)
LEMMA PollKeeps ==
  ASSUME EvidenceInv, Poll
  PROVE  EvidenceInv'
<1>1. net' = net \cup {[kind |-> "poll", session |-> at]}
      /\ UNCHANGED <<at, came, slot, seen, refs, order, page, visible>>
  BY DEF Poll
<1>2. RequestOfHome([kind |-> "poll", session |-> at])
  BY DEF RequestOfHome, EvidenceInv, ServerOfHome
<1>3. \A r \in net' : RequestOfHome(r)
  BY <1>1, <1>2 DEF EvidenceInv, RequestsOfHome
<1>4. RequestsOfHome'
  BY <1>3 DEF RequestsOfHome
<1> QED BY <1>1, <1>4, Kept DEF EvidenceInv

(* The operator's filter and the opening of an event draw the timeline     *)
(* anew.                                                                   *)
LEMMA FilterKeeps ==
  ASSUME NEW p, PageOfHome(p), NEW f \in Slots \cup {None}
  PROVE  PageOfHome(ShowLocal([p EXCEPT !.filter = f]))
<1>1. ImagesOfHome([p EXCEPT !.filter = f])
  BY DEF PageOfHome, ImagesOfHome, PageType
<1> QED BY <1>1, ShowLocalKeeps

(* Opening an event sets the filter to its slot and asks for its evidence. *)
LEMMA OpenEventKeeps ==
  ASSUME EvidenceInv, NEW e \in Events, OpenEvent(e)
  PROVE  EvidenceInv'
<1> DEFINE s == IF e \in DOMAIN refs THEN refs[e].slot ELSE None
           p == IF s = page.filter THEN page ELSE ShowLocal([page EXCEPT !.filter = s])
<1>1. page' = [p EXCEPT !.event = e] /\ RequestEvent(e) /\ visible' = TRUE
      /\ UNCHANGED <<at, came, slot, seen, refs, order>>
  BY DEF OpenEvent
<1>2. s \in Slots \cup {None}
  BY DEF EvidenceInv, RefsOfHome, RefOfHome, RefType
<1> HIDE DEF s
<1>3. PageOfHome(p)
  BY <1>2, FilterKeeps DEF EvidenceInv
<1> HIDE DEF p
<1>4. PageOfHome([p EXCEPT !.event = e])
  BY <1>3 DEF PageOfHome, ImagesOfHome, Timeline, PageType
<1>5. RequestsOfHome' /\ Flags'
  BY <1>1, RequestEventKeeps DEF EvidenceInv, Flags
<1> QED BY <1>1, <1>4, <1>5, Kept DEF EvidenceInv

-----------------------------------------------------------------------------
(* The theorems.                                                           *)

(* At the start nothing is filed.                                          *)
LEMMA InitEvidence == EvidenceInit => EvidenceInv
<1> SUFFICES ASSUME EvidenceInit PROVE EvidenceInv
  OBVIOUS
<1>1. ServerOfHome
  BY Constants DEF EvidenceInit, ServerOfHome, Of
<1>2. SlotsOfHome
  BY Constants DEF EvidenceInit, SlotsOfHome, StateOfHome, SlotStates, Of
<1>3. RefsOfHome /\ Queue /\ RequestsOfHome /\ Flags
  <2>1. refs = << >> /\ order = << >> /\ net = {} /\ seen = {} /\ visible = FALSE
    BY DEF EvidenceInit
  <2>2. order \in Seq(Events) /\ Len(order) = 0 /\ DOMAIN refs = {} /\ DOMAIN order = {}
    BY <2>1
  <2>3. RefsOfHome
    BY <2>2 DEF RefsOfHome
  <2>4. Queue
    BY <2>2, Constants DEF Queue, QueuedAreKept
  <2> QED BY <2>1, <2>3, <2>4 DEF RequestsOfHome, Flags
<1>4. PageOfHome(page)
  BY Constants DEF EvidenceInit, PageOfHome, ImagesOfHome, Timeline, PageType, Of
<1> QED BY <1>1, <1>2, <1>3, <1>4 DEF EvidenceInv

(* Every step keeps the invariant.                                         *)
LEMMA NextEvidence == EvidenceInv /\ [EvidenceNext]_evidenceVars => EvidenceInv'
<1> SUFFICES ASSUME EvidenceInv, [EvidenceNext]_evidenceVars PROVE EvidenceInv'
  OBVIOUS
<1>1. CASE Arrive \/ \E s \in Slots : Leave(s)
  BY <1>1, ServerMoves
<1>2. ASSUME NEW e \in Events, ParkingEvent(e) PROVE EvidenceInv'
  BY <1>2, EventKeeps
<1>3. CASE Poll
  BY <1>3, PollKeeps
<1>4. ASSUME NEW r \in net, NEW listed \in BOOLEAN, Arrives(r, listed) PROVE EvidenceInv'
  BY <1>4, SnapshotKeeps, DetailKeeps, ImagesKeep, EventArrivesKeeps DEF Arrives
<1>5. ASSUME NEW r \in net, RequestFails(r) PROVE EvidenceInv'
  BY <1>5, Kept DEF RequestFails, EvidenceInv
<1>6. CASE Rebuild
  BY <1>6, Kept DEF Rebuild, EvidenceInv
<1>7. CASE Refresh
  BY <1>7, RefreshKeeps
<1>8. CASE HidePage
  <2>1. Flags'
    BY <1>8 DEF HidePage, EvidenceInv, Flags
  <2> QED BY <1>8, <2>1, Kept DEF HidePage, EvidenceInv
<1>9. ASSUME NEW f \in Slots \cup {None}, SetFilter(f) PROVE EvidenceInv'
  <2>1. page' = ShowLocal([page EXCEPT !.filter = f])
        /\ UNCHANGED <<at, came, slot, net, seen, refs, order, visible>>
    BY <1>9 DEF SetFilter
  <2>2. PageOfHome(page')
    BY <2>1, FilterKeeps DEF EvidenceInv
  <2> QED BY <2>1, <2>2, Kept DEF EvidenceInv
<1>10. ASSUME NEW e \in Events, OpenEvent(e) PROVE EvidenceInv'
  BY <1>10, OpenEventKeeps
<1>11. CASE UNCHANGED evidenceVars
  BY <1>11, Kept DEF evidenceVars, EvidenceInv
<1> QED BY <1>1, <1>2, <1>3, <1>4, <1>5, <1>6, <1>7, <1>8, <1>9, <1>10, <1>11 DEF EvidenceNext

(* The controller's slots, the answers under way, the references and the   *)
(* page agree on where every session was taken.                            *)
THEOREM EvidenceInvariant == EvidenceSpec => []EvidenceInv
BY InitEvidence, NextEvidence, PTL DEF EvidenceSpec

(* Evidence is never filed under a slot it was not taken at, whichever     *)
(* answers cross a change of the page's slot, of the slot's session or of  *)
(* the server (docs/evidence_qt_client_v0.1.md).                           *)
THEOREM EvidenceIsFiledRightly == EvidenceSpec => []PairsAreOfTheirSlot
BY EvidenceInvariant, EvidenceInvImplies, PTL

(* Types hold, the timeline is of what is cached, and the queue that bounds*)
(* the references names each of them once and none that is gone, though    *)
(* answers put back references evicted meanwhile (rememberEventEvidence).  *)
THEOREM EvidenceIsConsistent == EvidenceSpec => []EvidenceConsistent
BY EvidenceInvariant, EvidenceInvImplies, PTL

-----------------------------------------------------------------------------
(* EvidenceView: the inductive invariant.                                  *)

Images == Slots \X Lists
Loads == [url : Images, target : BOOLEAN, awaited : BOOLEAN]
ForCard(l) == l.target /\ l.awaited

DownloadTyped == dl \in [on : BOOLEAN, pending : SUBSET Slots, lost : BOOLEAN]

LoadsAreOfImages == loads \subseteq Loads

(* A picture on the card is of the image the card is of, and that one, if   *)
(* there is one, is of the pair selected.                                   *)
CardTyped ==
  /\ card \in [url : Images \cup {NoImage}, pix : Images \cup {NoImage}]
  /\ card.pix # NoImage => card.pix = card.url

CardIsOfPair ==
  CardTyped /\ (card.url # NoImage => sel # None /\ card.url = <<sel, cache[sel]>>)

(* What OneRequestForTheCard counts, as a fact about two requests.         *)
OneIsAwaited ==
  \A l, m \in loads : ForCard(l) /\ ForCard(m) => l = m

AwaitedIsOfCard ==
  \A l \in loads : ForCard(l) => l.url = card.url /\ card.pix = NoImage

ViewInv ==
  ViewTypeOK /\ DownloadTyped /\ LoadsAreOfImages /\ CardIsOfPair /\ OneIsAwaited /\ AwaitedIsOfCard

(* The counted form follows: a set without two different elements has one  *)
(* at most.                                                                *)
LEMMA ViewInvImplies == ViewInv => ViewConsistent
<1> SUFFICES ASSUME ViewInv PROVE ViewConsistent
  OBVIOUS
<1> DEFINE A == {l \in loads : l.target /\ l.awaited}
<1>1. Cardinality(A) <= 1
  <2>1. CASE A = {}
    <3>1. Cardinality({}) = 0
      BY FS_EmptySet
    <3> QED BY <2>1, <3>1
  <2>2. CASE A # {}
    <3>1. PICK l \in A : TRUE
      BY <2>2
    <3>2. A = {l}
      BY <3>1 DEF ViewInv, OneIsAwaited, ForCard
    <3>3. Cardinality({l}) = 1
      BY FS_Singleton
    <3> QED BY <3>2, <3>3
  <2> QED BY <2>1, <2>2
<1>2. CardShowsItsPair
  BY DEF ViewInv, CardIsOfPair, CardTyped, CardShowsItsPair
<1>3. OneRequestForTheCard
  BY <1>1 DEF ViewInv, AwaitedIsOfCard, OneRequestForTheCard, ForCard
<1> QED BY <1>2, <1>3 DEF ViewInv, ViewConsistent

-----------------------------------------------------------------------------
(* The timeline.                                                           *)

(* Of some slots there is one whose list is the latest: the order on the   *)
(* sets of slots with a later one is well founded.                         *)
LEMMA LatestExists ==
  ASSUME NEW c \in [Slots -> Nat], NEW S \in SUBSET Slots, S # {}
  PROVE  \E s \in S : \A t \in S : c[t] <= c[s]
<1> DEFINE Later(s) == {t \in S : c[s] < c[t]}
           Laters == {Later(s) : s \in S}
<1>1. IsWellFoundedOn(StrictSubsetOrdering(Slots), FiniteSubsetsOf(Slots))
  BY FS_StrictSubsetOrderingWellFounded
<1>2. FiniteSubsetsOf(Slots) = SUBSET Slots
  BY FS_FiniteSubsetsOfFinite, SlotsAssumption
<1>3. Laters \subseteq FiniteSubsetsOf(Slots) /\ Laters # {}
  <2>1. \A s \in S : Later(s) \in SUBSET Slots
    OBVIOUS
  <2> HIDE DEF Later
  <2> QED BY <1>2, <2>1
<1>4. PICK U \in Laters : \A V \in Laters : <<V, U>> \notin StrictSubsetOrdering(Slots)
  <2> HIDE DEF Laters
  <2> QED BY <1>1, <1>3, WFMin, Zenon
<1>5. PICK s \in S : U = Later(s)
  OBVIOUS
<1>6. ASSUME NEW t \in S, ~(c[t] <= c[s])
      PROVE  FALSE
  <2>1. t \in Later(s) /\ t \notin Later(t) /\ c[s] < c[t]
    BY <1>6
  <2>2. Later(t) \subseteq Later(s)
    BY <2>1
  <2>3. Later(t) \in SUBSET Slots /\ Later(s) \in SUBSET Slots /\ Later(t) # Later(s)
    BY <2>1
  <2>4. <<Later(t), Later(s)>> \in StrictSubsetOrdering(Slots)
    BY <2>2, <2>3 DEF StrictSubsetOrdering
  <2>5. Later(t) \in Laters
    OBVIOUS
  <2> QED BY <1>4, <1>5, <2>4, <2>5
<1> QED BY <1>6

(* The newest pair is one of the timeline, if it has any.                  *)
LEMMA NewestIsShown ==
  ASSUME NEW c \in [Slots -> Lists \cup {0}], NEW f
  PROVE  /\ Newest(c, f) = None <=> Shown(c, f) = {}
         /\ Newest(c, f) # None => Newest(c, f) \in Shown(c, f)
<1>1. c \in [Slots -> Nat] /\ None \notin Slots
  <2>1. Lists \cup {0} \subseteq Nat /\ None \notin Slots
    BY EvidenceViewConstants, SlotsAssumption
  <2> QED BY <2>1
<1>2. Shown(c, f) \in SUBSET Slots
  BY DEF Shown
<1>3. CASE Shown(c, f) = {}
  BY <1>3 DEF Newest
<1>4. CASE Shown(c, f) # {}
  <2>1. \E s \in Shown(c, f) : \A t \in Shown(c, f) : c[t] <= c[s]
    BY <1>1, <1>2, <1>4, LatestExists
  <2>2. Newest(c, f) \in Shown(c, f)
    BY <1>4, <2>1 DEF Newest
  <2> QED BY <1>1, <1>2, <1>4, <2>2
<1> QED BY <1>3, <1>4

-----------------------------------------------------------------------------
(* Drawing the card.                                                       *)

(* Requests that the card no longer waits for.                             *)
LEMMA UnwaitedLoads ==
  ASSUME NEW ls \in SUBSET Loads
  PROVE  /\ Unwaited(ls) \in SUBSET Loads /\ \A l \in Unwaited(ls) : ~ForCard(l)
         /\ Untargeted(ls) \in SUBSET Loads /\ \A l \in Untargeted(ls) : ~ForCard(l)
         /\ Unwaited({}) = {} /\ Untargeted({}) = {}
BY DEF Unwaited, Untargeted, Loads, ForCard

(* The card is drawn for the pair s of the timeline, or for none: it either*)
(* keeps the picture, which is of that pair, or waits for one request.     *)
LEMMA Draws ==
  ASSUME NEW c \in [Slots -> Lists \cup {0}], NEW s, s # None => s \in Slots /\ c[s] # 0,
         NEW ls \in SUBSET Loads, loader \in BOOLEAN, ~loader => ls = {},
         CardTyped,
         \A l, m \in ls : ForCard(l) /\ ForCard(m) => l = m,
         s # None /\ card.pix = <<s, c[s]>> => \A l \in ls : ~ForCard(l),
         cache' = c, UNCHANGED loader, RenderSelected(s, c, ls)
  PROVE  /\ sel' = s /\ (~loader' => loads' = {})
         /\ LoadsAreOfImages' /\ CardIsOfPair' /\ OneIsAwaited' /\ AwaitedIsOfCard'
<1>1. sel' = s
  BY DEF RenderSelected
<1>2. CASE s = None
  <2>1. card' = NoCard /\ loads' = Unwaited(ls)
    BY <1>2 DEF RenderSelected, Clear
  <2> QED BY <1>1, <2>1, UnwaitedLoads
          DEF LoadsAreOfImages, CardIsOfPair, CardTyped, OneIsAwaited, AwaitedIsOfCard, NoCard
<1>3. CASE s # None /\ card.pix # NoImage /\ card.url = <<s, c[s]>>
  <2>1. card' = card /\ loads' = ls
    BY <1>3 DEF RenderSelected
  <2>2. \A l \in loads' : ~ForCard(l)
    BY <1>3, <2>1 DEF CardTyped
  <2>3. CardIsOfPair'
    BY <1>1, <1>3, <2>1 DEF CardIsOfPair, CardTyped
  <2> QED BY <1>1, <2>1, <2>2, <2>3
          DEF LoadsAreOfImages, OneIsAwaited, AwaitedIsOfCard
<1>4. CASE s # None /\ ~(card.pix # NoImage /\ card.url = <<s, c[s]>>)
  <2> DEFINE url == <<s, c[s]>>
             new == [url |-> url, target |-> TRUE, awaited |-> TRUE]
  <2>1. /\ card' = [NoCard EXCEPT !.url = url]
        /\ loads' = IF loader THEN Unwaited(ls) \cup {new} ELSE Unwaited(ls)
    BY <1>4 DEF RenderSelected
  <2>2. url \in Images /\ new \in Loads /\ new.url = url
    BY <1>4 DEF Images, Loads
  <2>3. card' = [url |-> url, pix |-> NoImage]
    BY <2>1 DEF NoCard
  <2>4. \A l \in loads' : ForCard(l) => l = new
    BY <2>1, UnwaitedLoads
  <2>5. LoadsAreOfImages' /\ (~loader' => loads' = {})
    BY <2>1, <2>2, UnwaitedLoads DEF LoadsAreOfImages
  <2>6. CardIsOfPair'
    BY <1>1, <1>4, <2>2, <2>3 DEF CardIsOfPair, CardTyped
  <2>7. OneIsAwaited' /\ AwaitedIsOfCard'
    BY <2>2, <2>3, <2>4 DEF OneIsAwaited, AwaitedIsOfCard, ForCard
  <2> QED BY <1>1, <2>5, <2>6, <2>7
<1> QED BY <1>2, <1>3, <1>4

(* The timeline anew, of the lists c under the filter f.                   *)
LEMMA ShowsLocal ==
  ASSUME ViewInv, NEW c \in [Slots -> Lists \cup {0}], NEW f \in Slots \cup {None},
         cache' = c, filter' = f, UNCHANGED <<loader, dl>>, ShowTimeline(c, f)
  PROVE  ViewInv'
<1>1. /\ Newest(c, f) = None <=> Shown(c, f) = {}
      /\ Newest(c, f) # None => Newest(c, f) \in Shown(c, f)
  BY NewestIsShown
<1>2. loads \in SUBSET Loads /\ (~loader => Untargeted(loads) = {})
  BY UnwaitedLoads DEF ViewInv, LoadsAreOfImages, ViewTypeOK
<1>3. Newest(c, f) # None => Newest(c, f) \in Slots /\ c[Newest(c, f)] # 0
  BY <1>1 DEF Shown
<1>4. RenderSelected(Newest(c, f), c, Untargeted(loads))
  BY DEF ShowTimeline
<1>5. loader \in BOOLEAN /\ dl.pending \subseteq Slots
      /\ CardTyped
  BY DEF ViewInv, ViewTypeOK, CardIsOfPair
<1>6. /\ sel' = Newest(c, f) /\ (~loader' => loads' = {})
      /\ LoadsAreOfImages' /\ CardIsOfPair' /\ OneIsAwaited' /\ AwaitedIsOfCard'
  BY <1>2, <1>3, <1>4, <1>5, UnwaitedLoads, Draws
<1>7. ViewTypeOK' /\ DownloadTyped'
  BY <1>1, <1>5, <1>6 DEF ViewInv, ViewTypeOK, DownloadTyped
<1> QED BY <1>6, <1>7 DEF ViewInv

-----------------------------------------------------------------------------
(* Every step.                                                             *)

(* An answer for the request awaited fills the card, any other leaves it.  *)
LEMMA LoadArrives ==
  ASSUME ViewInv, ImageArrives
  PROVE  ViewInv'
<1>1. PICK l \in loads : \E image \in {l.url, NoImage} : loads' = loads \ {l} /\ ShowImage(l, image)
  BY DEF ImageArrives
<1> PICK image \in {l.url, NoImage} : loads' = loads \ {l} /\ ShowImage(l, image)
  BY <1>1
<1>2. UNCHANGED <<cache, filter, sel, loader, dl>>
  BY DEF ImageArrives
<1>3. ViewTypeOK' /\ DownloadTyped' /\ LoadsAreOfImages' /\ OneIsAwaited'
  BY <1>1, <1>2 DEF ViewInv, ViewTypeOK, DownloadTyped, LoadsAreOfImages, OneIsAwaited
<1>4. l.url \in Images
  BY DEF ViewInv, LoadsAreOfImages, Loads
<1>5. CASE ForCard(l)
  <2>1. card.url = l.url /\ \A m \in loads' : ~ForCard(m)
    BY <1>1, <1>5 DEF ViewInv, OneIsAwaited, AwaitedIsOfCard
  <2>2. card' = [card EXCEPT !.pix = image]
    BY <1>1, <1>5 DEF ShowImage, ForCard
  <2>3. CardIsOfPair'
    BY <1>1, <1>2, <1>4, <2>1, <2>2 DEF ViewInv, CardIsOfPair, CardTyped
  <2> QED BY <1>3, <2>1, <2>3 DEF ViewInv, AwaitedIsOfCard
<1>6. CASE ~ForCard(l)
  <2>1. card' = card
    BY <1>1, <1>6 DEF ShowImage, ForCard
  <2> QED BY <1>1, <1>2, <1>3, <2>1 DEF ViewInv, CardIsOfPair, CardTyped, AwaitedIsOfCard
<1> QED BY <1>5, <1>6

(* A selection of the operator's draws the card of a pair that is shown.   *)
LEMMA Selects ==
  ASSUME ViewInv, NEW s \in Slots, SelectPair(s)
  PROVE  ViewInv'
<1>1. /\ s \in Shown(cache, filter) /\ s # sel /\ RenderSelected(s, cache, loads)
      /\ UNCHANGED <<cache, filter, loader, dl>>
  BY DEF SelectPair
<1>2. s # None /\ cache[s] # 0
  BY <1>1, EvidenceViewConstants, SlotsAssumption DEF Shown
<1>3. /\ cache \in [Slots -> Lists \cup {0}] /\ loader \in BOOLEAN
      /\ (~loader => loads = {}) /\ loads \in SUBSET Loads
      /\ CardTyped
      /\ \A l, m \in loads : ForCard(l) /\ ForCard(m) => l = m
  BY DEF ViewInv, ViewTypeOK, DownloadTyped, LoadsAreOfImages, CardIsOfPair, OneIsAwaited
<1>4. card.pix # <<s, cache[s]>>
  <2>1. <<s, cache[s]>> # NoImage
    BY <1>2 DEF NoImage
  <2> QED BY <1>1, <2>1 DEF ViewInv, CardIsOfPair, CardTyped
<1>5. /\ sel' = s /\ (~loader' => loads' = {})
      /\ LoadsAreOfImages' /\ CardIsOfPair' /\ OneIsAwaited' /\ AwaitedIsOfCard'
  BY <1>1, <1>2, <1>3, <1>4, Draws
<1>6. ViewTypeOK' /\ DownloadTyped'
  BY <1>1, <1>2, <1>5 DEF ViewInv, ViewTypeOK, DownloadTyped
<1> QED BY <1>5, <1>6 DEF ViewInv

(* Nothing is cached, selected or loading at first.                        *)
LEMMA InitView == ViewInit => ViewInv
<1> SUFFICES ASSUME ViewInit PROVE ViewInv
  OBVIOUS
<1>1. Shown(cache, filter) = {}
  BY DEF ViewInit, Shown
<1>2. ViewTypeOK /\ DownloadTyped
  BY <1>1 DEF ViewInit, ViewTypeOK, DownloadTyped, NoDownload
<1>3. LoadsAreOfImages /\ CardIsOfPair /\ OneIsAwaited /\ AwaitedIsOfCard
  BY DEF ViewInit, LoadsAreOfImages, CardIsOfPair, CardTyped, OneIsAwaited, AwaitedIsOfCard, NoCard
<1> QED BY <1>2, <1>3 DEF ViewInv

(* Every step keeps the invariant.                                         *)
LEMMA NextView == ViewInv /\ [ViewNext]_viewVars => ViewInv'
<1> SUFFICES ASSUME ViewInv, [ViewNext]_viewVars PROVE ViewInv'
  OBVIOUS
<1>1. ASSUME NEW s \in Slots, NEW n \in Lists, Cache(s, n) PROVE ViewInv'
  <2>1. /\ cache' = [cache EXCEPT ![s] = n] /\ ShowTimeline(cache', filter)
        /\ UNCHANGED <<filter, loader, dl>>
    BY <1>1 DEF Cache
  <2>2. cache' \in [Slots -> Lists \cup {0}] /\ filter \in Slots \cup {None}
    BY <2>1 DEF ViewInv, ViewTypeOK
  <2> QED BY <2>1, <2>2, ShowsLocal
<1>2. ASSUME NEW f \in Slots \cup {None}, FilterBy(f) PROVE ViewInv'
  <2>1. filter' = f /\ ShowTimeline(cache, f) /\ UNCHANGED <<cache, loader, dl>>
    BY <1>2 DEF FilterBy
  <2>2. cache \in [Slots -> Lists \cup {0}]
    BY DEF ViewInv, ViewTypeOK
  <2> QED BY <2>1, <2>2, ShowsLocal
<1>3. ASSUME NEW s \in Slots, SelectPair(s) PROVE ViewInv'
  BY <1>3, Selects
<1>4. CASE ShowError
  <2>1. /\ card' = NoCard /\ loads' = Unwaited(loads)
        /\ UNCHANGED <<cache, filter, sel, loader, dl>>
    BY <1>4 DEF ShowError, Clear
  <2>2. /\ loads' \in SUBSET Loads /\ (\A l \in loads' : ~ForCard(l))
        /\ (loads = {} => loads' = {})
    BY <2>1, UnwaitedLoads DEF ViewInv, LoadsAreOfImages
  <2>3. ViewTypeOK' /\ DownloadTyped'
    BY <2>1, <2>2 DEF ViewInv, ViewTypeOK, DownloadTyped
  <2>4. CardIsOfPair'
    BY <2>1 DEF CardIsOfPair, CardTyped, NoCard
  <2> QED BY <2>2, <2>3, <2>4 DEF ViewInv, LoadsAreOfImages, OneIsAwaited, AwaitedIsOfCard
<1>5. CASE SetImageLoader
  BY <1>5 DEF SetImageLoader, ViewInv, ViewTypeOK, DownloadTyped, LoadsAreOfImages, CardIsOfPair, CardTyped,
              OneIsAwaited, AwaitedIsOfCard
<1>6. CASE RebuildPage
  <2>1. /\ loader' = FALSE /\ loads' = {} /\ dl'.pending \in SUBSET Slots
        /\ dl' \in [on : BOOLEAN, pending : SUBSET Slots, lost : BOOLEAN]
        /\ UNCHANGED <<cache, filter, sel, card>>
    BY <1>6 DEF RebuildPage, ViewInv, DownloadTyped
  <2> QED BY <2>1 DEF ViewInv, ViewTypeOK, DownloadTyped, LoadsAreOfImages, CardIsOfPair, CardTyped,
                      OneIsAwaited, AwaitedIsOfCard
<1>7. CASE ImageArrives
  BY <1>7, LoadArrives
<1>8. ASSUME NEW selected \in SUBSET Slots, Download(selected) PROVE ViewInv'
  <2>1. /\ dl' = [on |-> TRUE, lost |-> FALSE, pending |-> selected]
        /\ UNCHANGED <<cache, filter, sel, card, loads, loader>>
    BY <1>8 DEF Download
  <2>2. dl' \in [on : BOOLEAN, pending : SUBSET Slots, lost : BOOLEAN] /\ dl'.pending \subseteq Slots
    BY <2>1
  <2> QED BY <2>1, <2>2 DEF ViewInv, ViewTypeOK, DownloadTyped, LoadsAreOfImages, CardIsOfPair, CardTyped,
                            OneIsAwaited, AwaitedIsOfCard
<1>9. CASE DownloadArrives
  <2>1. PICK i \in dl.pending, ok \in BOOLEAN : Downloaded(i, ok)
    BY <1>9 DEF DownloadArrives
  <2>2. /\ dl' \in [on : BOOLEAN, pending : SUBSET Slots, lost : BOOLEAN]
        /\ dl'.pending \subseteq Slots
    BY <2>1 DEF Downloaded, NoDownload, ViewInv, DownloadTyped
  <2>3. UNCHANGED <<cache, filter, sel, card, loads, loader>>
    BY <1>9 DEF DownloadArrives
  <2> QED BY <2>2, <2>3 DEF ViewInv, ViewTypeOK, DownloadTyped, LoadsAreOfImages, CardIsOfPair, CardTyped,
                            OneIsAwaited, AwaitedIsOfCard
<1>10. CASE UNCHANGED viewVars
  BY <1>10 DEF viewVars, ViewInv, ViewTypeOK, DownloadTyped, LoadsAreOfImages, CardIsOfPair, CardTyped,
               OneIsAwaited, AwaitedIsOfCard
<1> QED BY <1>1, <1>2, <1>3, <1>4, <1>5, <1>6, <1>7, <1>8, <1>9, <1>10 DEF ViewNext

(* Whatever crosses what, types hold, the selection is of the timeline and *)
(* the card waits for at most one request, which is for the label it has.  *)
THEOREM ViewInvariant == ViewSpec => []ViewInv
BY InitView, NextView, PTL DEF ViewSpec

(* The picture on the card is of the pair the operator has selected and of *)
(* the images cached for it now, and no two answers can both be taken      *)
(* (renderCaptureCard, imageLoaded).                                       *)
THEOREM CardIsTrue == ViewSpec => []ViewConsistent
BY ViewInvariant, ViewInvImplies, PTL
=============================================================================
