--------------------------- MODULE IvaSetupProofs ---------------------------
(***************************************************************************)
(* Proofs about IvaSetup with WiseAiClient, for any cameras, areas and     *)
(* values.                                                                 *)
(*                                                                         *)
(* The properties are not inductive: that a save sends what was asked for  *)
(* needs that the operator cannot ask for another while it runs, which     *)
(* needs that no question is open then (DialogOk), which needs that a page *)
(* which no longer shows the save has nothing to save (a change of camera  *)
(* emptied it); that a deletion left over from an earlier update does not  *)
(* turn a save into a DELETE needs that an update nobody pursues was       *)
(* dropped (UpdateOk).  IvaInv adds these to the properties.               *)
(*                                                                         *)
(* A step is proved in two halves: what the client becomes and emits,      *)
(* field by field, and that the page which hears it agrees with it again   *)
(* (Joint), by one of the few shapes a step may have: loading, learning,   *)
(* giving up, pursuing, beginning, connecting.                             *)
(***************************************************************************)
EXTENDS IvaSetup, SequenceTheorems, TLAPS

-----------------------------------------------------------------------------
(* The inductive invariant, over a client k, a page u, what the operator   *)
(* asked for and whether a verification was dropped.                       *)

(* The signals, and the client while it has some to emit.                  *)
Signal ==
  [what : {"capabilitiesReceived", "requestFailed", "applyStarted"}]
    \cup [what : {"configurationReceived", "applySucceeded"}, read : Configs]
    \cup [what : {"applyFailed"}, restored : BOOLEAN]
Requests ==
  [kind : Kinds, to : Cameras, done : BOOLEAN, read : Configs \cup {None}] \cup {NoRequest}
Clients ==
  [conn : Cameras, has : SUBSET Fetching, last : Configs \cup {None}, request : Requests,
   waiting : Verifying \cup {"none"}, update : UpdateType, out : Seq(Signal)]

(* The requests that end with a read, and those of an update up to its     *)
(* write.                                                                  *)
Reading == {"configuration", "preflight"} \cup Verifying
Updating == {"preflight", "put", "delete"}

(* A request goes to the camera the client is connected to, and is never   *)
(* there together with the timer.                                          *)
RequestOk(k) ==
  /\ k.request.done /\ k.request.kind \in Reading => k.request.read \in Configs
  /\ k.request # NoRequest => k.request.to = k.conn
  /\ k.request = NoRequest \/ k.waiting = "none"

(* What the client holds is what the page shows, and what an update is     *)
(* compared with.                                                          *)
ShownOk(k, u) ==
  /\ "configuration" \in k.has => u.config = k.last /\ u.config # None
  /\ u.config # None => u.config = k.last
  /\ k.request.kind \in Updating => k.update.baseline = u.config

(* An update that is pursued is complete and for this camera, and one that *)
(* is not was dropped.                                                     *)
UpdateOk(k, d) ==
  /\ Pursued(k) => k.update.intended # None /\ k.update.baseline # None
  /\ k.request.kind \in Updating => k.update.from = k.conn
  /\ k.request.kind = "put" => k.update.deleted = None
  /\ k.request.kind = "delete" => k.update.deleted # None
  /\ k.update # NoUpdate /\ ~Pursued(k) => d

AskedOk(k, a, d) ==
  /\ k.request.kind \in Updating /\ k.update.deleted = None
       => a.what = "save" /\ a.config = k.update.intended
  /\ k.request.kind \in Updating /\ k.update.deleted # None /\ ~d
       => a.what = "delete" /\ a.area = k.update.deleted

WaitsOk(k, u, d) ==
  /\ u.saving => k.update # NoUpdate /\ (Pursued(k) \/ d)
  /\ u.inFlight => Busy(k)

(* An update whose save the page no longer shows was left behind by a      *)
(* change of camera, which left the page nothing to save; and no question  *)
(* is open while an update is pursued.                                     *)
DialogOk(k, u) ==
  /\ Pursued(k) /\ ~u.saving => u.config = None /\ ~u.ready /\ ~u.dirty
  /\ u.dialog # NoDialog => ~u.saving /\ ~Pursued(k) /\ (u.dirty => ~u.inFlight)
  /\ u.dialog.what = "save" => u.dialog.area \in Areas /\ u.dialog.value \in Values
  /\ u.dialog.what = "delete" => u.dialog.area \in Areas

EditsOk(u) == u.away /\ u.dirty => u.config = None

Joint(k, u, a, d) ==
  /\ k \in Clients /\ u \in UiType
  /\ RequestOk(k) /\ ShownOk(k, u) /\ UpdateOk(k, d) /\ AskedOk(k, a, d)
  /\ WaitsOk(k, u, d) /\ DialogOk(k, u) /\ EditsOk(u)

IvaInv ==
  /\ camera \in [Cameras -> Configs] /\ client.out = << >>
  /\ Joint(client, ui, asked, dropped)

-----------------------------------------------------------------------------
(* What the page makes of the signals of one step.                         *)

(* No step emits more than two.                                            *)
LEMMA HearsThem ==
  ASSUME NEW u, NEW k
  PROVE  /\ k.out = <<>> => Heard(u, k) = u
         /\ \A s : k.out = <<s>> => Heard(u, k) = Hear(u, s)
         /\ \A s, t : k.out = <<s, t>> => Heard(u, k) = Hear(Hear(u, s), t)
<1> DEFINE L == Len(k.out)
           Next(f) == [n \in 0..L |-> IF n = 0 THEN u ELSE Hear(f[n - 1], k.out[n])]
           after == CHOOSE f : f = Next(f)
<1>1. Heard(u, k) = after[L]
  BY DEF Heard
<1>2. \A g : g = Next(g) => after = Next(after)
  <2> HIDE DEF Next
  <2> QED OBVIOUS
<1> HIDE DEF after
<1>3. ASSUME k.out = <<>> PROVE Heard(u, k) = u
  <2> DEFINE g == [n \in 0..0 |-> u]
  <2>1. L = 0
    BY <1>3
  <2>2. g = Next(g)
    BY <2>1
  <2>3. after = Next(after)
    BY <1>2, <2>2
  <2>4. after[0] = u
    BY <2>1, <2>3
  <2> QED BY <1>1, <2>1, <2>4
<1>4. ASSUME NEW s, k.out = <<s>> PROVE Heard(u, k) = Hear(u, s)
  <2> DEFINE g == [n \in 0..1 |-> IF n = 0 THEN u ELSE Hear(u, s)]
  <2>1. L = 1 /\ k.out[1] = s
    BY <1>4
  <2>2. g = Next(g)
    BY <2>1
  <2>3. after = Next(after)
    BY <1>2, <2>2
  <2>4. after[0] = u /\ after[1] = Hear(after[0], k.out[1])
    BY <2>1, <2>3
  <2> QED BY <1>1, <2>1, <2>4
<1>5. ASSUME NEW s, NEW t, k.out = <<s, t>> PROVE Heard(u, k) = Hear(Hear(u, s), t)
  <2> DEFINE g == [n \in 0..2 |-> IF n = 0 THEN u ELSE IF n = 1 THEN Hear(u, s)
                                  ELSE Hear(Hear(u, s), t)]
  <2>1. L = 2 /\ k.out[1] = s /\ k.out[2] = t
    BY <1>5
  <2>2. g = Next(g)
    BY <2>1
  <2>3. after = Next(after)
    BY <1>2, <2>2
  <2>4. /\ after[0] = u /\ after[1] = Hear(after[0], k.out[1])
        /\ after[2] = Hear(after[1], k.out[2])
    BY <2>1, <2>3
  <2> QED BY <1>1, <2>1, <2>4
<1> QED BY <1>3, <1>4, <1>5

-----------------------------------------------------------------------------
(* What the client's functions return, field by field.                     *)

(* What a step of the client leaves alone.                                 *)
SameLoaded(m, k) == m.conn = k.conn /\ m.has = k.has /\ m.last = k.last
SameWork(m, k) == m.request = k.request /\ m.waiting = k.waiting
SameUpdate(p, q) ==
  p.from = q.from /\ p.baseline = q.baseline /\ p.intended = q.intended /\ p.deleted = q.deleted

(* The signals are of their types.                                         *)
LEMMA SignalTyped ==
  /\ \A w \in {"capabilitiesReceived", "requestFailed", "applyStarted"} : [what |-> w] \in Signal
  /\ \A w \in {"configurationReceived", "applySucceeded"}, r \in Configs :
       [what |-> w, read |-> r] \in Signal
  /\ \A b \in BOOLEAN : [what |-> "applyFailed", restored |-> b] \in Signal
BY DEF Signal

(* A second signal comes after the first.                                  *)
LEMMA OneAndAnother ==
  ASSUME NEW S, NEW t \in S, NEW s \in S
  PROVE  Append(<<t>>, s) = <<t, s>>
<1> DEFINE one == <<t>>
           two == <<t, s>>
<1>1. one \in Seq(S) /\ Len(one) = 1 /\ one[1] = t
  OBVIOUS
<1>2. two \in Seq(S) /\ Len(two) = 2 /\ two[1] = t /\ two[2] = s
  OBVIOUS
<1> HIDE DEF one, two
<1>3. /\ Append(one, s) \in Seq(S) /\ Len(Append(one, s)) = Len(one) + 1
      /\ \A i \in 1..Len(one) : Append(one, s)[i] = one[i]
      /\ Append(one, s)[Len(one) + 1] = s
  <2>1. \A seq \in Seq(S), elt \in S :
          /\ Append(seq, elt) \in Seq(S) /\ Len(Append(seq, elt)) = Len(seq) + 1
          /\ \A i \in 1..Len(seq) : Append(seq, elt)[i] = seq[i]
          /\ Append(seq, elt)[Len(seq) + 1] = elt
    BY AppendProperties
  <2> QED BY <1>1, <2>1, Zenon
<1>4. Len(Append(one, s)) = 2 /\ Append(one, s)[1] = t /\ Append(one, s)[2] = s
  BY <1>1, <1>3
<1>5. \A i \in 1..2 : Append(one, s)[i] = two[i]
  BY <1>2, <1>4
<1>6. Append(one, s) = two
  BY <1>2, <1>3, <1>4, <1>5, SeqEqual
<1> QED BY <1>6 DEF one, two

(* A signal is emitted and nothing else changes.                           *)
LEMMA Emits ==
  ASSUME NEW k \in Clients, NEW s \in Signal
  PROVE  LET m == Emit(k, s) IN
         /\ m \in Clients /\ SameLoaded(m, k) /\ SameWork(m, k) /\ m.update = k.update
         /\ k.out = <<>> => m.out = <<s>>
         /\ \A t : k.out = <<t>> => m.out = <<t, s>>
<1> DEFINE o == Append(k.out, s)
<1>1. o \in Seq(Signal)
  BY DEF Clients
<1>2. /\ k.out = <<>> => o = <<s>>
      /\ \A t : k.out = <<t>> => o = <<t, s>>
  <2>1. Append(<<>>, s) = <<s>>
    OBVIOUS
  <2>2. ASSUME NEW t, k.out = <<t>> PROVE o = <<t, s>>
    <3>1. t \in Signal
      <4>1. k.out \in Seq(Signal) /\ Len(k.out) = 1 /\ k.out[1] = t
        <5>1. k.out \in Seq(Signal)
          BY DEF Clients
        <5>2. Len(<<t>>) = 1 /\ <<t>>[1] = t
          OBVIOUS
        <5> QED BY <2>2, <5>1, <5>2, Zenon
      <4> QED BY <4>1, ElementOfSeq
    <3> QED BY <2>2, <3>1, OneAndAnother
  <2> QED BY <2>1, <2>2
<1>3. Emit(k, s) = [k EXCEPT !.out = o]
  BY DEF Emit
<1> HIDE DEF o
<1>4. /\ Emit(k, s) \in Clients /\ SameLoaded(Emit(k, s), k) /\ SameWork(Emit(k, s), k)
      /\ Emit(k, s).update = k.update /\ Emit(k, s).out = o
  BY <1>1, <1>3 DEF Clients, SameLoaded, SameWork
<1> QED BY <1>2, <1>4

(* A request is sent to the camera the client is connected to.             *)
LEMMA Starts ==
  ASSUME NEW k \in Clients, NEW kind \in Kinds
  PROVE  LET m == Start(k, kind) IN
         /\ m \in Clients /\ SameLoaded(m, k) /\ m.waiting = k.waiting
         /\ m.update = k.update /\ m.out = k.out
         /\ m.request = [kind |-> kind, to |-> k.conn, done |-> FALSE, read |-> None]
         /\ m.request # NoRequest
<1> DEFINE r == [kind |-> kind, to |-> k.conn, done |-> FALSE, read |-> None]
<1>1. k.conn \in Cameras
  BY DEF Clients
<1>2. r \in Requests
  BY <1>1 DEF Requests
<1>3. r # NoRequest
  BY DEF NoRequest, Kinds, Fetching, Writing, Verifying
<1>4. Start(k, kind) = [k EXCEPT !.request = r]
  BY DEF Start
<1> HIDE DEF r
<1>5. /\ Start(k, kind) \in Clients /\ SameLoaded(Start(k, kind), k)
      /\ Start(k, kind).waiting = k.waiting
      /\ Start(k, kind).update = k.update /\ Start(k, kind).out = k.out
      /\ Start(k, kind).request = r
  BY <1>2, <1>4 DEF Clients, SameLoaded
<1> QED BY <1>3, <1>5 DEF r

(* The timer is set and the reads that verify are counted.                 *)
LEMMA Schedules ==
  ASSUME NEW k \in Clients, NEW kind \in Verifying, k.update.attempt < 3
  PROVE  LET m == Schedule(k, kind) IN
         /\ m \in Clients /\ SameLoaded(m, k) /\ m.request = k.request
         /\ m.waiting = kind /\ m.out = k.out /\ SameUpdate(m.update, k.update)
<1> DEFINE p == [k.update EXCEPT !.attempt = k.update.attempt + 1]
<1>1. k.update \in UpdateType
  BY DEF Clients
<1>2. p \in UpdateType /\ SameUpdate(p, k.update)
  BY <1>1 DEF UpdateType, SameUpdate
<1>3. Schedule(k, kind) = [k EXCEPT !.update = p, !.waiting = kind]
  BY DEF Schedule
<1> HIDE DEF p
<1> QED BY <1>2, <1>3 DEF Clients, SameLoaded

(* The same, counted from the beginning.                                   *)
LEMMA SchedulesFirst ==
  ASSUME NEW k \in Clients, NEW kind \in Verifying
  PROVE  LET m == Schedule([k EXCEPT !.update.attempt = 0], kind) IN
         /\ m \in Clients /\ SameLoaded(m, k) /\ m.request = k.request
         /\ m.waiting = kind /\ m.out = k.out /\ SameUpdate(m.update, k.update)
<1> DEFINE p == [k.update EXCEPT !.attempt = 0]
           n == [k EXCEPT !.update.attempt = 0]
<1>1. k.update \in UpdateType
  BY DEF Clients
<1>2. p \in UpdateType /\ SameUpdate(p, k.update) /\ p.attempt = 0
  BY <1>1 DEF UpdateType, SameUpdate
<1>3. n = [k EXCEPT !.update = p]
  OBVIOUS
<1> HIDE DEF p, n
<1>4. /\ n \in Clients /\ SameLoaded(n, k) /\ n.request = k.request /\ n.out = k.out
      /\ n.update = p
  BY <1>2, <1>3 DEF Clients, SameLoaded
<1>5. LET m == Schedule(n, kind) IN
         /\ m \in Clients /\ SameLoaded(m, n) /\ m.request = n.request
         /\ m.waiting = kind /\ m.out = n.out /\ SameUpdate(m.update, n.update)
  BY <1>2, <1>4, Schedules
<1> QED BY <1>2, <1>4, <1>5 DEF SameLoaded, SameUpdate, n

(* No update is of the type of updates.                                    *)
LEMMA NoUpdateTyped == NoUpdate \in UpdateType
BY DEF NoUpdate, UpdateType

(* The client gives an update up, with a word to the page.                 *)
LEMMA GivesUp ==
  ASSUME NEW k \in Clients, NEW b \in BOOLEAN
  PROVE  LET m == GiveUp(k, b)
             s == [what |-> "applyFailed", restored |-> b] IN
         /\ m \in Clients /\ SameLoaded(m, k) /\ SameWork(m, k) /\ m.update = NoUpdate
         /\ k.out = <<>> => m.out = <<s>>
         /\ \A t : k.out = <<t>> => m.out = <<t, s>>
<1> DEFINE n == [k EXCEPT !.update = NoUpdate]
           s == [what |-> "applyFailed", restored |-> b]
<1>1. n \in Clients /\ SameLoaded(n, k) /\ SameWork(n, k) /\ n.update = NoUpdate /\ n.out = k.out
  BY NoUpdateTyped DEF Clients, SameLoaded, SameWork
<1>2. s \in Signal
  BY SignalTyped
<1>3. GiveUp(k, b) = Emit(n, s)
  BY DEF GiveUp
<1> HIDE DEF n, s
<1>4. LET m == GiveUp(k, b) IN
      /\ m \in Clients /\ SameLoaded(m, k) /\ SameWork(m, k) /\ m.update = NoUpdate
      /\ k.out = <<>> => m.out = <<s>>
      /\ \A t : k.out = <<t>> => m.out = <<t, s>>
  BY <1>1, <1>2, <1>3, Emits DEF SameLoaded, SameWork
<1> QED BY <1>4 DEF s

(* A configuration is learnt, with a word to the page.                     *)
LEMMA Receives ==
  ASSUME NEW k \in Clients, NEW read \in Configs, k.out = <<>>
  PROVE  LET m == Received(k, read) IN
         /\ m \in Clients /\ m.conn = k.conn /\ m.has = k.has \cup {"configuration"}
         /\ m.last = read /\ SameWork(m, k) /\ m.update = k.update
         /\ m.out = <<[what |-> "configurationReceived", read |-> read]>>
<1> DEFINE s == [what |-> "configurationReceived", read |-> read]
           n == Learn(k, read)
<1>1. /\ n \in Clients /\ n.conn = k.conn /\ n.has = k.has \cup {"configuration"}
      /\ n.last = read /\ SameWork(n, k) /\ n.update = k.update /\ n.out = k.out
  BY DEF Learn, Clients, SameWork, Fetching
<1>2. s \in Signal
  BY SignalTyped
<1>3. Received(k, read) = Emit(n, s)
  BY DEF Received
<1> HIDE DEF n, s
<1>4. LET m == Received(k, read) IN
      /\ m \in Clients /\ m.conn = k.conn /\ m.has = k.has \cup {"configuration"}
      /\ m.last = read /\ SameWork(m, k) /\ m.update = k.update /\ m.out = <<s>>
  BY <1>1, <1>2, <1>3, Emits DEF SameLoaded, SameWork
<1> QED BY <1>4 DEF s

(* The request is forgotten.                                               *)
LEMMA Finishes ==
  ASSUME NEW k \in Clients
  PROVE  LET m == Finished(k) IN
         /\ m \in Clients /\ SameLoaded(m, k) /\ m.request = NoRequest
         /\ m.waiting = k.waiting /\ m.update = k.update /\ m.out = k.out
BY DEF Finished, Clients, SameLoaded, Requests

(* What a failure leaves: a fetch is over, the outcome of a write is read, *)
(* and everything else ends the update.                                    *)
LEMMA FailsSomehow ==
  ASSUME NEW k \in Clients, k.out = <<>>, NEW kind \in Kinds
  PROVE  LET m == Failed(k, kind) IN
         /\ m \in Clients /\ SameLoaded(m, k) /\ m.request = k.request
         /\ kind \in Fetching => /\ m.waiting = k.waiting /\ m.update = k.update
                                /\ m.out = <<[what |-> "requestFailed"]>>
         /\ kind \in {"put", "delete"} => /\ m.waiting = "verify" /\ m.out = <<>>
                                         /\ SameUpdate(m.update, k.update)
         /\ kind \notin Fetching \cup {"put", "delete"}
              => /\ m.waiting = k.waiting /\ m.update = NoUpdate
                 /\ m.out = <<[what |-> "applyFailed", restored |-> FALSE]>>
<1>1. CASE kind \in Fetching
  <2> DEFINE s == [what |-> "requestFailed"]
  <2>1. Failed(k, kind) = Emit(k, s) /\ kind \notin {"put", "delete"}
    BY <1>1 DEF Failed, Fetching
  <2>2. s \in Signal
    BY SignalTyped
  <2> HIDE DEF s
  <2>3. LET m == Failed(k, kind) IN
        /\ m \in Clients /\ SameLoaded(m, k) /\ SameWork(m, k) /\ m.update = k.update
        /\ m.out = <<s>>
    BY <2>1, <2>2, Emits
  <2> QED BY <1>1, <2>1, <2>3 DEF s, SameWork
<1>2. CASE kind \in {"put", "delete"}
  <2>1. /\ Failed(k, kind) = Schedule([k EXCEPT !.update.attempt = 0], "verify")
        /\ kind \notin Fetching
    BY <1>2 DEF Failed, Fetching
  <2> QED BY <1>2, <2>1, SchedulesFirst DEF Verifying
<1>3. CASE kind \notin Fetching \cup {"put", "delete"}
  <2>1. Failed(k, kind) = GiveUp(k, FALSE)
    BY <1>3 DEF Failed
  <2> QED BY <1>3, <2>1, GivesUp DEF SameWork
<1> QED BY <1>1, <1>2, <1>3

-----------------------------------------------------------------------------
(* What the page makes of a signal.                                        *)

(* The page but for what it is doing and what it holds.                    *)
SamePlace(v, u) == v.dialog = u.dialog /\ v.away = u.away
SameHolding(v, u) == v.dirty = u.dirty /\ v.config = u.config /\ v.ready = u.ready

(* Leaving for the other page, or closing the window, changes neither.     *)
LEMMA Navigating ==
  ASSUME NEW w \in UiType
  PROVE  LET v == Navigate(w) IN
         /\ v \in UiType /\ SameHolding(v, w) /\ v.dialog = w.dialog
         /\ v.inFlight = w.inFlight /\ v.saving = w.saving
<1> DEFINE x == [w EXCEPT !.closeAfter = FALSE]
           Work(v) == /\ v \in UiType /\ SameHolding(v, w) /\ v.dialog = w.dialog
                      /\ v.inFlight = w.inFlight /\ v.saving = w.saving
<1>1. Work(w)
  BY DEF SameHolding
<1>2. Work(x)
  BY DEF UiType, SameHolding
<1>3. Work([x EXCEPT !.closed = TRUE])
  <2> HIDE DEF x
  <2> QED BY <1>2 DEF UiType, SameHolding
<1>4. Work([w EXCEPT !.target = FALSE, !.away = TRUE])
  BY DEF UiType, SameHolding
<1>5. Navigate(w) \in {[x EXCEPT !.closed = TRUE], x, w, [w EXCEPT !.target = FALSE, !.away = TRUE]}
  BY DEF Navigate, CloseWindow
<1> HIDE DEF x
<1> QED BY <1>1, <1>2, <1>3, <1>4, <1>5

(* The end of a save: the page may go on to what waited for it.            *)
LEMMA FinishingSave ==
  ASSUME NEW u \in UiType, NEW b \in BOOLEAN
  PROVE  LET v == FinishSave(u, b) IN
         /\ v \in UiType /\ SameHolding(v, u) /\ v.dialog = u.dialog
         /\ v.inFlight = u.inFlight /\ v.saving = u.saving
         /\ ~b => v.away = u.away
<1> DEFINE w == [u EXCEPT !.leaving = FALSE]
<1>1. /\ w \in UiType /\ SameHolding(w, u) /\ w.dialog = u.dialog
      /\ w.inFlight = u.inFlight /\ w.saving = u.saving /\ w.away = u.away
  BY DEF UiType, SameHolding
<1>2. FinishSave(u, b) = w \/ (b /\ FinishSave(u, b) = Navigate(w))
  BY DEF FinishSave
<1> HIDE DEF w
<1> QED BY <1>1, <1>2, Navigating DEF SameHolding

(* The signals that carry nothing.                                         *)
LEMMA Hears ==
  ASSUME NEW u \in UiType
  PROVE  /\ LET v == Hear(u, [what |-> "capabilitiesReceived"]) IN
            /\ v \in UiType /\ SamePlace(v, u) /\ v.dirty = u.dirty /\ v.config = u.config
            /\ v.inFlight = u.inFlight /\ v.saving = u.saving /\ v.ready
         /\ LET v == Hear(u, [what |-> "requestFailed"]) IN
            /\ v \in UiType /\ SamePlace(v, u) /\ SameHolding(v, u)
            /\ ~v.inFlight /\ v.saving = u.saving
         /\ LET v == Hear(u, [what |-> "applyStarted"]) IN
            /\ v \in UiType /\ SamePlace(v, u) /\ SameHolding(v, u)
            /\ v.inFlight /\ v.saving
<1>1. LET v == Hear(u, [what |-> "capabilitiesReceived"]) IN
      /\ v \in UiType /\ SamePlace(v, u) /\ v.dirty = u.dirty /\ v.config = u.config
      /\ v.inFlight = u.inFlight /\ v.saving = u.saving /\ v.ready
  <2>1. Hear(u, [what |-> "capabilitiesReceived"]) = [u EXCEPT !.ready = TRUE]
    BY DEF Hear
  <2> QED BY <2>1 DEF UiType, SamePlace
<1>2. LET v == Hear(u, [what |-> "requestFailed"]) IN
      /\ v \in UiType /\ SamePlace(v, u) /\ SameHolding(v, u)
      /\ ~v.inFlight /\ v.saving = u.saving
  <2>1. Hear(u, [what |-> "requestFailed"]) = [u EXCEPT !.inFlight = FALSE]
    BY DEF Hear
  <2> QED BY <2>1 DEF UiType, SamePlace, SameHolding
<1>3. LET v == Hear(u, [what |-> "applyStarted"]) IN
      /\ v \in UiType /\ SamePlace(v, u) /\ SameHolding(v, u)
      /\ v.inFlight /\ v.saving
  <2>1. Hear(u, [what |-> "applyStarted"]) = [u EXCEPT !.inFlight = TRUE, !.saving = TRUE]
    BY DEF Hear
  <2> QED BY <2>1 DEF UiType, SamePlace, SameHolding
<1> QED BY <1>1, <1>2, <1>3

(* A configuration is shown, and what was edited is lost.                  *)
LEMMA HearsConfiguration ==
  ASSUME NEW u \in UiType, NEW r \in Configs
  PROVE  LET v == Hear(u, [what |-> "configurationReceived", read |-> r]) IN
         /\ v \in UiType /\ SamePlace(v, u) /\ v.ready = u.ready /\ v.saving = u.saving
         /\ v.config = r /\ ~v.inFlight /\ ~v.dirty
<1>1. Hear(u, [what |-> "configurationReceived", read |-> r])
        = [u EXCEPT !.config = r, !.inFlight = FALSE, !.dirty = FALSE]
  BY DEF Hear
<1> DEFINE v == [u EXCEPT !.config = r, !.inFlight = FALSE, !.dirty = FALSE]
<1>2. v \in UiType
  BY DEF UiType
<1>3. SamePlace(v, u) /\ v.ready = u.ready /\ v.saving = u.saving
  BY DEF UiType, SamePlace
<1>4. v.config = r /\ ~v.inFlight /\ ~v.dirty
  BY DEF UiType
<1> QED BY <1>1, <1>2, <1>3, <1>4

(* A save that succeeded also ends, and the page may be left after it.     *)
LEMMA HearsSuccess ==
  ASSUME NEW u \in UiType, NEW r \in Configs
  PROVE  LET v == Hear(u, [what |-> "applySucceeded", read |-> r]) IN
         /\ v \in UiType /\ v.dialog = u.dialog /\ v.ready = u.ready
         /\ v.config = r /\ ~v.inFlight /\ ~v.dirty /\ ~v.saving
<1> DEFINE w == [u EXCEPT !.inFlight = FALSE, !.saving = FALSE, !.dirty = FALSE, !.config = r]
<1>1. Hear(u, [what |-> "applySucceeded", read |-> r]) = FinishSave(w, TRUE)
  BY DEF Hear
<1>2. /\ w \in UiType /\ w.dialog = u.dialog /\ w.ready = u.ready
      /\ w.config = r /\ ~w.inFlight /\ ~w.dirty /\ ~w.saving
  BY DEF UiType
<1> HIDE DEF w
<1> DEFINE v == FinishSave(w, TRUE)
<1>3. /\ v \in UiType /\ SameHolding(v, w) /\ v.dialog = w.dialog
      /\ v.inFlight = w.inFlight /\ v.saving = w.saving
  BY <1>2, FinishingSave
<1> HIDE DEF v
<1>4. /\ v \in UiType /\ v.dialog = u.dialog /\ v.ready = u.ready
      /\ v.config = r /\ ~v.inFlight /\ ~v.dirty /\ ~v.saving
  BY <1>2, <1>3, Zenon DEF SameHolding
<1> QED BY <1>1, <1>4 DEF v

(* A save that failed ends, and its edits stay.                            *)
LEMMA HearsRefusal ==
  ASSUME NEW u \in UiType, NEW b \in BOOLEAN
  PROVE  LET v == Hear(u, [what |-> "applyFailed", restored |-> b]) IN
         /\ v \in UiType /\ SamePlace(v, u) /\ SameHolding(v, u)
         /\ ~v.inFlight /\ ~v.saving
<1> DEFINE w == [u EXCEPT !.inFlight = FALSE, !.saving = FALSE]
<1>1. Hear(u, [what |-> "applyFailed", restored |-> b]) = FinishSave(w, FALSE)
  BY DEF Hear
<1>2. /\ w \in UiType /\ SamePlace(w, u) /\ SameHolding(w, u)
      /\ ~w.inFlight /\ ~w.saving
  BY DEF UiType, SamePlace, SameHolding
<1> HIDE DEF w
<1> DEFINE v == FinishSave(w, FALSE)
<1>3. /\ v \in UiType /\ SameHolding(v, w) /\ v.dialog = w.dialog
      /\ v.inFlight = w.inFlight /\ v.saving = w.saving /\ v.away = w.away
  BY <1>2, FinishingSave
<1> HIDE DEF v
<1>4. v.away = u.away /\ v.dialog = u.dialog
  BY <1>2, <1>3, Zenon DEF SamePlace
<1>5. SameHolding(v, u)
  BY <1>2, <1>3, Zenon DEF SameHolding
<1>6. ~v.inFlight /\ ~v.saving
  BY <1>2, <1>3, Zenon
<1> QED BY <1>1, <1>3, <1>4, <1>5, <1>6 DEF v, SamePlace

-----------------------------------------------------------------------------
(* The ways in which a step may change the client and the page.            *)

(* What a client is about depends on its request and its timer.            *)
LEMMA PursuedByWork ==
  ASSUME NEW k, NEW m, SameWork(m, k)
  PROVE  /\ Pursued(m) <=> Pursued(k)
         /\ Busy(m) <=> Busy(k)
BY DEF SameWork, Pursued, Busy

(* No request at all, or one of the three that fetch.                      *)
LEMMA NotPursued ==
  ASSUME NEW k, k.waiting = "none", k.request = NoRequest \/ k.request.kind \in Fetching
  PROVE  ~Pursued(k) /\ k.request.kind \notin Updating /\ k.request.kind \notin Writing
<1>1. k.request.kind = "none" \/ k.request.kind \in Fetching
  BY DEF NoRequest
<1> QED BY <1>1 DEF Pursued, Fetching, Writing, Verifying, Updating

(* Loading: the update is not touched, and what the page shows is not      *)
(* changed but for its flag.                                               *)
LEMMA LoadStep ==
  ASSUME NEW k, NEW u, NEW a, NEW d, Joint(k, u, a, d),
         NEW m \in Clients, NEW v \in UiType,
         m.update = k.update, m.conn = k.conn, m.last = k.last,
         "configuration" \in m.has => "configuration" \in k.has,
         \/ SameWork(m, k) /\ v.ready = u.ready
         \/ ~Pursued(k) /\ m.waiting = "none" /\ RequestOk(m)
            /\ (m.request = NoRequest \/ m.request.kind \in Fetching),
         v.config = u.config, v.saving = u.saving, v.dirty = u.dirty,
         v.inFlight => Busy(m), v.inFlight /\ v.dirty => u.inFlight \/ u.dialog = NoDialog,
         v.dialog \in {u.dialog, NoDialog}, v.away => u.away
  PROVE  Joint(m, v, a, d)
<1>1. CASE SameWork(m, k) /\ v.ready = u.ready
  <2>1. Pursued(m) <=> Pursued(k)
    BY <1>1, PursuedByWork
  <2>2. m.request = k.request /\ m.waiting = k.waiting
    BY <1>1 DEF SameWork
  <2>3. RequestOk(m)
    BY <2>2 DEF Joint, RequestOk
  <2>4. ShownOk(m, v)
    BY <2>2 DEF Joint, ShownOk
  <2>5. UpdateOk(m, d)
    BY <2>1, <2>2 DEF Joint, UpdateOk
  <2>6. AskedOk(m, a, d)
    BY <2>2 DEF Joint, AskedOk
  <2>7. WaitsOk(m, v, d)
    BY <2>1 DEF Joint, WaitsOk
  <2>8. DialogOk(m, v)
    <3>1. v.dialog = u.dialog \/ v.dialog.what = "none"
      BY DEF NoDialog
    <3> QED BY <1>1, <2>1, <3>1 DEF Joint, DialogOk
  <2>9. EditsOk(v)
    BY DEF Joint, EditsOk
  <2> QED BY <2>3, <2>4, <2>5, <2>6, <2>7, <2>8, <2>9 DEF Joint
<1>2. CASE ~Pursued(k) /\ m.waiting = "none" /\ RequestOk(m)
           /\ (m.request = NoRequest \/ m.request.kind \in Fetching)
  <2>1. ~Pursued(m) /\ m.request.kind \notin Updating
    BY <1>2, NotPursued
  <2>4. ShownOk(m, v)
    BY <2>1 DEF Joint, ShownOk
  <2>5. UpdateOk(m, d)
    BY <1>2, <2>1 DEF Joint, UpdateOk, Updating
  <2>6. AskedOk(m, a, d)
    BY <2>1 DEF AskedOk
  <2>7. WaitsOk(m, v, d)
    BY <1>2 DEF Joint, WaitsOk
  <2>8. DialogOk(m, v)
    <3>1. v.dialog = u.dialog \/ v.dialog.what = "none"
      BY DEF NoDialog
    <3> QED BY <2>1, <3>1 DEF Joint, DialogOk
  <2>9. EditsOk(v)
    BY DEF Joint, EditsOk
  <2> QED BY <1>2, <2>4, <2>5, <2>6, <2>7, <2>8, <2>9 DEF Joint
<1> QED BY <1>1, <1>2

(* Learning: a configuration is read and shown; the update is over or was  *)
(* not pursued.                                                            *)
LEMMA LearnStep ==
  ASSUME NEW k, NEW u, NEW a, NEW d, Joint(k, u, a, d),
         NEW m \in Clients, NEW v \in UiType, NEW read \in Configs,
         m.request = NoRequest, m.waiting = "none", m.last = read,
         v.config = read, ~v.inFlight, ~v.dirty, v.dialog = u.dialog, v.saving => u.saving,
         \/ ~Pursued(k) /\ m.update = k.update
         \/ m.update = NoUpdate /\ ~v.saving
  PROVE  Joint(m, v, a, d)
<1>1. ~Pursued(m) /\ m.request.kind \notin Updating
  BY NotPursued
<1>2. read # None
  BY ClientConstants
<1>3. RequestOk(m)
  BY DEF RequestOk, NoRequest
<1>4. ShownOk(m, v)
  BY <1>1, <1>2 DEF ShownOk
<1>5. UpdateOk(m, d)
  BY <1>1 DEF Joint, UpdateOk, Updating
<1>6. AskedOk(m, a, d)
  BY <1>1 DEF AskedOk
<1>7. WaitsOk(m, v, d)
  BY <1>1 DEF Joint, WaitsOk
<1>8. DialogOk(m, v)
  BY <1>1 DEF Joint, DialogOk
<1>9. EditsOk(v)
  BY DEF EditsOk
<1> QED BY <1>3, <1>4, <1>5, <1>6, <1>7, <1>8, <1>9 DEF Joint

(* Giving up: the update is over, and nothing was learnt.                  *)
LEMMA GiveUpStep ==
  ASSUME NEW k, NEW u, NEW a, NEW d, Joint(k, u, a, d),
         NEW m \in Clients, NEW v \in UiType,
         m.request = NoRequest, m.waiting = "none", m.update = NoUpdate, SameLoaded(m, k),
         ~v.inFlight, ~v.saving, SameHolding(v, u), SamePlace(v, u)
  PROVE  Joint(m, v, a, d)
<1>1. ~Pursued(m) /\ m.request.kind \notin Updating
  BY NotPursued
<1>3. RequestOk(m)
  BY DEF RequestOk, NoRequest
<1>4. ShownOk(m, v)
  BY <1>1 DEF Joint, ShownOk, SameLoaded, SameHolding
<1>5. UpdateOk(m, d)
  BY <1>1 DEF Joint, UpdateOk, Updating
<1>6. AskedOk(m, a, d)
  BY <1>1 DEF AskedOk
<1>7. WaitsOk(m, v, d)
  BY DEF WaitsOk
<1>8. DialogOk(m, v)
  BY <1>1 DEF Joint, DialogOk, SamePlace
<1>9. EditsOk(v)
  BY DEF Joint, EditsOk, SameHolding, SamePlace
<1> QED BY <1>3, <1>4, <1>5, <1>6, <1>7, <1>8, <1>9 DEF Joint

(* Pursuing: the update goes on, by its write after the check, or by the   *)
(* reads and the rollback that follow.                                     *)
LEMMA PursueStep ==
  ASSUME NEW k, NEW u, NEW a, NEW d, Joint(k, u, a, d), Pursued(k),
         NEW m \in Clients, SameLoaded(m, k), SameUpdate(m.update, k.update),
         Pursued(m), RequestOk(m),
         m.request.kind \in Updating
           => /\ k.request.kind = "preflight"
              /\ m.request.kind = IF k.update.deleted = None THEN "put" ELSE "delete"
  PROVE  Joint(m, u, a, d)
<1>1. Busy(m)
  BY DEF Pursued, Busy, NoRequest, Writing, Verifying
<1>2. m.update # NoUpdate
  BY DEF Joint, UpdateOk, SameUpdate, NoUpdate
<1>3. m.request.kind \in Updating => m.request.kind # "preflight" /\ k.request.kind \in Updating
  BY DEF Updating
<1>4. ShownOk(m, u)
  BY <1>3 DEF Joint, ShownOk, SameLoaded, SameUpdate
<1>5. UpdateOk(m, d)
  BY <1>3 DEF Joint, UpdateOk, SameLoaded, SameUpdate, Updating
<1>6. AskedOk(m, a, d)
  BY <1>3 DEF Joint, AskedOk, SameUpdate
<1>7. WaitsOk(m, u, d)
  BY <1>1, <1>2 DEF Joint, WaitsOk
<1>8. DialogOk(m, u)
  BY DEF Joint, DialogOk
<1> QED BY <1>4, <1>5, <1>6, <1>7, <1>8 DEF Joint

-----------------------------------------------------------------------------
(* The actions preserve IvaInv.                                            *)

(* IvaInv in the next state, part by part.                                 *)
LEMMA InvPrimed ==
  IvaInv' = (/\ camera' \in [Cameras -> Configs] /\ client'.out = << >>
             /\ Joint(client', ui', asked', dropped'))
BY DEF IvaInv, Joint, Clients, Signal, Requests, RequestOk, ShownOk, UpdateOk, AskedOk, WaitsOk,
       DialogOk, EditsOk, Pursued, Busy, UiType, UpdateType, NoUpdate, NoDialog, NoRequest,
       Configs, Fetching, Writing, Verifying, Kinds, Reading, Updating

(* Whether the window stays open is nothing to the page and the client.    *)
LEMMA StayingKeeps ==
  ASSUME ui \in UiType, NEW k, NEW u, NEW a, NEW d, Joint(k, u, a, d), NEW v \in LayoutAnswered(u)
  PROVE  Joint(k, v, a, d)
<1>1. CASE v = u
  BY <1>1
<1>2. CASE v = [u EXCEPT !.closed = ui.closed]
  <2>1. /\ v \in UiType /\ v.inFlight = u.inFlight /\ v.saving = u.saving
        /\ v.config = u.config /\ v.ready = u.ready /\ v.dialog = u.dialog
        /\ v.dirty = u.dirty /\ v.away = u.away
    BY <1>2 DEF Joint, UiType
  <2> QED BY <2>1 DEF Joint, ShownOk, WaitsOk, DialogOk, EditsOk
<1> QED BY <1>1, <1>2 DEF LayoutAnswered

(* Once the page has heard the signals, the update that is over is         *)
(* forgotten, and with it what was asked and dropped.                      *)
LEMMA FollowKeeps ==
  ASSUME camera' \in [Cameras -> Configs], ui \in UiType, NEW k, NEW w, NEW a, NEW d,
         Joint(k, w, a, d), Follow(k, w, a, d)
  PROVE  IvaInv'
<1>0. PICK u \in LayoutAnswered(w) : ui' = u
  BY DEF Follow
<1>j. Joint(k, u, a, d)
  BY StayingKeeps
<1> DEFINE m == [k EXCEPT !.out = << >>]
<1>1. m \in Clients /\ m.out = <<>> /\ SameLoaded(m, k) /\ SameWork(m, k) /\ m.update = k.update
  <2>1. k \in Clients
    BY DEF Joint
  <2>2. <<>> \in Seq(Signal)
    OBVIOUS
  <2> QED BY <2>1, <2>2 DEF Clients, SameLoaded, SameWork
<1>2. /\ client' = m /\ ui' = u /\ asked' = IF k.update = NoUpdate THEN NotAsked ELSE a
      /\ dropped' = (d /\ k.update # NoUpdate)
  BY <1>0 DEF Follow
<1> HIDE DEF m
<1>3. /\ Pursued(m) <=> Pursued(k)
      /\ m.request = k.request /\ m.waiting = k.waiting
  BY <1>1, PursuedByWork DEF SameWork
<1>4. k.request.kind \in Updating => k.update # NoUpdate /\ Pursued(k)
  <2>1. k.request.kind \in Updating => Pursued(k)
    BY DEF Updating, Pursued, Writing
  <2> QED BY <1>j, <2>1 DEF Joint, UpdateOk, NoUpdate
<1>5. RequestOk(m)
  BY <1>j, <1>1, <1>3 DEF Joint, RequestOk, SameLoaded
<1>6. ShownOk(m, u)
  BY <1>j, <1>1, <1>3 DEF Joint, ShownOk, SameLoaded
<1>7. UpdateOk(m, dropped')
  BY <1>j, <1>1, <1>2, <1>3 DEF Joint, UpdateOk, SameLoaded
<1>8. AskedOk(m, asked', dropped')
  BY <1>j, <1>1, <1>2, <1>3, <1>4 DEF Joint, AskedOk
<1>9. WaitsOk(m, u, dropped')
  BY <1>j, <1>1, <1>2, <1>3, PursuedByWork DEF Joint, WaitsOk
<1>10. DialogOk(m, u)
  BY <1>j, <1>3 DEF Joint, DialogOk
<1>11. Joint(m, u, asked', dropped')
  BY <1>j, <1>1, <1>5, <1>6, <1>7, <1>8, <1>9, <1>10 DEF Joint
<1> QED BY <1>1, <1>2, <1>11, InvPrimed

(* The types of what the operator may be asked.                            *)
LEMMA DialogTyped ==
  /\ NoDialog.what = "none"
  /\ \A w \in {"leave", "close"} : Dialog(w) # NoDialog /\ Dialog(w).what = w
       /\ Dialog(w) \in [what : {"none", "save", "delete", "leave", "close"},
                         area : Areas \cup {None}, value : Values \cup {None}]
  /\ \A i \in Areas, v \in Values :
       LET q == [what |-> "save", area |-> i, value |-> v] IN
       /\ q.what = "save" /\ q.area = i /\ q.value = v
       /\ q \in [what : {"none", "save", "delete", "leave", "close"},
                 area : Areas \cup {None}, value : Values \cup {None}]
  /\ \A i \in Areas :
       LET q == [Dialog("delete") EXCEPT !.area = i] IN
       /\ q.what = "delete" /\ q.area = i
       /\ q \in [what : {"none", "save", "delete", "leave", "close"},
                 area : Areas \cup {None}, value : Values \cup {None}]
  /\ NoDialog \in [what : {"none", "save", "delete", "leave", "close"},
                   area : Areas \cup {None}, value : Values \cup {None}]
BY DEF NoDialog, Dialog

(* What is done on the page alone leaves the client its part.              *)
LEMMA PageStep ==
  ASSUME IvaInv, UNCHANGED <<camera, client, asked, dropped>>, ui' \in UiType,
         ui'.inFlight = ui.inFlight, ui'.saving = ui.saving, ui'.config = ui.config,
         DialogOk(client, ui'), EditsOk(ui')
  PROVE  IvaInv'
<1>1. Joint(client, ui', asked, dropped)
  <2>1. ShownOk(client, ui') /\ WaitsOk(client, ui', dropped)
    BY DEF IvaInv, Joint, ShownOk, WaitsOk
  <2> QED BY <2>1 DEF IvaInv, Joint
<1> QED BY <1>1, InvPrimed DEF IvaInv

(* The page of an invariant state.                                         *)
LEMMA PageNow ==
  ASSUME IvaInv
  PROVE  /\ ui \in UiType /\ DialogOk(client, ui) /\ EditsOk(ui) /\ client \in Clients
         /\ client.out = <<>> /\ camera \in [Cameras -> Configs]
         /\ Joint(client, ui, asked, dropped)
BY DEF IvaInv, Joint

(* So does a step after which the window may be closed.                    *)
LEMMA ClosingStep ==
  ASSUME IvaInv, UNCHANGED <<camera, client, asked, dropped>>, NEW v \in UiType,
         v.inFlight = ui.inFlight, v.saving = ui.saving, v.config = ui.config,
         DialogOk(client, v), EditsOk(v), ui' \in LayoutAnswered(v)
  PROVE  IvaInv'
<1>1. Joint(client, v, asked, dropped)
  <2>1. ShownOk(client, v) /\ WaitsOk(client, v, dropped)
    BY DEF IvaInv, Joint, ShownOk, WaitsOk
  <2> QED BY <2>1 DEF IvaInv, Joint
<1>2. Joint(client, ui', asked, dropped)
  BY <1>1, PageNow, StayingKeeps
<1> QED BY <1>2, InvPrimed DEF IvaInv

(* An edit is made while no save is under way.                             *)
LEMMA EditKeeps == ASSUME IvaInv, Edit PROVE IvaInv'
<1>1. /\ ui.dialog = NoDialog /\ ~ui.away /\ ~ui.inFlight /\ ~ui.dirty
      /\ ui.config # None \/ (ui.ready /\ ~ui.saving)
      /\ ui' = [ui EXCEPT !.dirty = TRUE] /\ UNCHANGED <<camera, client, asked, dropped>>
  BY DEF Edit, OnPage, OperatorFree, HasAreas
<1>2. /\ ui' \in UiType /\ ui'.inFlight = ui.inFlight /\ ui'.saving = ui.saving
      /\ ui'.config = ui.config /\ ui'.ready = ui.ready /\ ui'.dialog = NoDialog
      /\ ui'.away = ui.away
  BY <1>1, PageNow DEF UiType
<1>3. DialogOk(client, ui') /\ EditsOk(ui')
  BY <1>1, <1>2, PageNow, DialogTyped DEF DialogOk, EditsOk
<1> QED BY <1>1, <1>2, <1>3, PageStep

(* The draft is discarded.                                                 *)
LEMMA DiscardDraftKeeps == ASSUME IvaInv, DiscardDraft PROVE IvaInv'
<1>1. /\ ui.dialog = NoDialog
      /\ ui' = [ui EXCEPT !.dirty = FALSE] /\ UNCHANGED <<camera, client, asked, dropped>>
  BY DEF DiscardDraft, OnPage, OperatorFree
<1>2. /\ ui' \in UiType /\ ui'.inFlight = ui.inFlight /\ ui'.saving = ui.saving
      /\ ui'.config = ui.config /\ ui'.ready = ui.ready /\ ui'.dialog = NoDialog
      /\ ui'.away = ui.away /\ ~ui'.dirty
  BY <1>1, PageNow DEF UiType
<1>3. DialogOk(client, ui') /\ EditsOk(ui')
  BY <1>1, <1>2, PageNow, DialogTyped DEF DialogOk, EditsOk
<1> QED BY <1>1, <1>2, <1>3, PageStep

(* A question is asked while nothing is under way that concerns an update. *)
LEMMA AskKeeps ==
  ASSUME IvaInv, NEW q, Ask(q), Idle(ui), ui.config # None \/ ui.ready \/ ui.dirty,
         q \in [what : {"none", "save", "delete", "leave", "close"},
                area : Areas \cup {None}, value : Values \cup {None}],
         q.what = "save" => q.area \in Areas /\ q.value \in Values,
         q.what = "delete" => q.area \in Areas
  PROVE  IvaInv'
<1>1. /\ ui' = [ui EXCEPT !.dialog = q] /\ UNCHANGED <<camera, client, asked, dropped>>
      /\ ~ui.inFlight /\ ~ui.saving
  BY DEF Ask, Idle
<1>2. /\ ui' \in UiType /\ ui'.inFlight = ui.inFlight /\ ui'.saving = ui.saving
      /\ ui'.config = ui.config /\ ui'.ready = ui.ready /\ ui'.dialog = q
      /\ ui'.away = ui.away /\ ui'.dirty = ui.dirty
  BY <1>1, PageNow DEF UiType
<1>3. ~Pursued(client)
  BY <1>1, PageNow DEF DialogOk
<1>4. DialogOk(client, ui') /\ EditsOk(ui')
  BY <1>1, <1>2, <1>3, PageNow DEF DialogOk, EditsOk
<1> QED BY <1>1, <1>2, <1>4, PageStep

(* The page asks whether to save the edited area.                          *)
LEMMA AskSaveKeeps == ASSUME IvaInv, AskSave PROVE IvaInv'
<1>1. PICK i \in Areas : \E v \in Values : Ask([what |-> "save", area |-> i, value |-> v])
  BY DEF AskSave
<1>2. PICK v \in Values : Ask([what |-> "save", area |-> i, value |-> v])
  BY <1>1
<1> DEFINE q == [what |-> "save", area |-> i, value |-> v]
<1>3. Ask(q) /\ Idle(ui) /\ ui.ready
  BY <1>2 DEF AskSave
<1>4. /\ q.what = "save" /\ q.area = i /\ q.value = v
      /\ q \in [what : {"none", "save", "delete", "leave", "close"},
                area : Areas \cup {None}, value : Values \cup {None}]
  BY DialogTyped
<1> HIDE DEF q
<1> QED BY <1>3, <1>4, AskKeeps

(* The page asks whether to delete an area.                                *)
LEMMA AskDeleteKeeps == ASSUME IvaInv, AskDelete PROVE IvaInv'
<1>1. PICK i \in Areas : Ask([Dialog("delete") EXCEPT !.area = i])
  BY DEF AskDelete
<1> DEFINE q == [Dialog("delete") EXCEPT !.area = i]
<1>2. Ask(q) /\ Idle(ui) /\ ui.config # None
  BY <1>1 DEF AskDelete
<1>3. /\ q.what = "delete" /\ q.area = i
      /\ q \in [what : {"none", "save", "delete", "leave", "close"},
                area : Areas \cup {None}, value : Values \cup {None}]
  BY DialogTyped
<1> HIDE DEF q
<1> QED BY <1>2, <1>3, AskKeeps

(* A question is over and the page does as before.                         *)
LEMMA RejectDialogKeeps == ASSUME IvaInv, RejectDialog PROVE IvaInv'
<1>1. /\ \E b \in BOOLEAN : ui' = [ui EXCEPT !.dialog = NoDialog, !.target = b]
      /\ UNCHANGED <<camera, client, asked, dropped>>
  <2>1. ui' = [ui EXCEPT !.dialog = NoDialog, !.target = ui.target /\ ui.dialog.what # "leave"]
    BY DEF RejectDialog
  <2>2. (ui.target /\ ui.dialog.what # "leave") \in BOOLEAN
    OBVIOUS
  <2> QED BY <2>1, <2>2 DEF RejectDialog
<1>b. PICK b \in BOOLEAN : ui' = [ui EXCEPT !.dialog = NoDialog, !.target = b]
  BY <1>1
<1>2. /\ ui' \in UiType /\ ui'.inFlight = ui.inFlight /\ ui'.saving = ui.saving
      /\ ui'.config = ui.config /\ ui'.ready = ui.ready /\ ui'.dialog = NoDialog
      /\ ui'.away = ui.away /\ ui'.dirty = ui.dirty
  BY <1>b, PageNow, DialogTyped DEF UiType
<1>3. DialogOk(client, ui') /\ EditsOk(ui')
  BY <1>2, PageNow, DialogTyped DEF DialogOk, EditsOk
<1> QED BY <1>1, <1>2, <1>3, PageStep

(* The page is left without edits.                                         *)
LEMMA LeaveCleanKeeps == ASSUME IvaInv, LeaveClean PROVE IvaInv'
<1>1. /\ ui.dialog = NoDialog /\ ~ui.dirty
      /\ ui' = [ui EXCEPT !.away = TRUE] /\ UNCHANGED <<camera, client, asked, dropped>>
  BY DEF LeaveClean, OnPage, OperatorFree
<1>2. /\ ui' \in UiType /\ ui'.inFlight = ui.inFlight /\ ui'.saving = ui.saving
      /\ ui'.config = ui.config /\ ui'.ready = ui.ready /\ ui'.dialog = ui.dialog
      /\ ui'.dirty = ui.dirty
  BY <1>1, PageNow DEF UiType
<1>3. DialogOk(client, ui') /\ EditsOk(ui')
  BY <1>1, <1>2, PageNow DEF DialogOk, EditsOk
<1> QED BY <1>1, <1>2, <1>3, PageStep

(* The window closes, or asks first.                                       *)
LEMMA CloseKeeps == ASSUME IvaInv, Close PROVE IvaInv'
<1>1. CASE ~ui.closeAfter /\ ui.dirty
  <2>1. Idle(ui) /\ Ask(Dialog("close"))
    BY <1>1 DEF Close, Ask
  <2> QED BY <1>1, <2>1, AskKeeps, DialogTyped
<1>2. CASE ~(~ui.closeAfter /\ ui.dirty)
  <2> DEFINE v == [ui EXCEPT !.closed = TRUE]
  <2>1. ui' \in LayoutAnswered(v) /\ UNCHANGED <<camera, client, asked, dropped>>
    BY <1>2 DEF Close
  <2>2. /\ v \in UiType /\ v.inFlight = ui.inFlight /\ v.saving = ui.saving
        /\ v.config = ui.config /\ v.ready = ui.ready /\ v.dialog = ui.dialog
        /\ v.dirty = ui.dirty /\ v.away = ui.away
    BY PageNow DEF UiType
  <2> HIDE DEF v
  <2>3. DialogOk(client, v) /\ EditsOk(v)
    BY <2>2, PageNow DEF DialogOk, EditsOk
  <2> QED BY <2>1, <2>2, <2>3, ClosingStep
<1> QED BY <1>1, <1>2

(* The window shows the page again and asks, or loads what was never       *)
(* loaded (see LeaveDirtyKeeps).                                           *)
LEMMA AskLeaveKeeps ==
  ASSUME IvaInv, ui.dialog = NoDialog, ui.dirty, UNCHANGED <<camera, client, asked, dropped>>,
         ui' = IF Idle(ui) THEN [ui EXCEPT !.target = TRUE, !.dialog = Dialog("leave")]
                           ELSE [ui EXCEPT !.target = FALSE]
  PROVE  IvaInv'
<1>1. CASE Idle(ui)
  <2> DEFINE q == Dialog("leave")
  <2> DEFINE w == [ui EXCEPT !.target = TRUE]
  <2>1. ui' = [w EXCEPT !.dialog = q]
    BY <1>1
  <2>q. /\ q.what = "leave"
        /\ q \in [what : {"none", "save", "delete", "leave", "close"},
                  area : Areas \cup {None}, value : Values \cup {None}]
    BY DialogTyped
  <2> HIDE DEF q
  <2>t. /\ w \in UiType /\ w.inFlight = ui.inFlight /\ w.saving = ui.saving
        /\ w.config = ui.config /\ w.ready = ui.ready
        /\ w.dirty = ui.dirty /\ w.away = ui.away
    BY PageNow DEF UiType
  <2> HIDE DEF w
  <2>2. /\ ui' \in UiType /\ ui'.inFlight = ui.inFlight /\ ui'.saving = ui.saving
        /\ ui'.config = ui.config /\ ui'.ready = ui.ready /\ ui'.dialog = q
        /\ ui'.dirty = ui.dirty /\ ui'.away = ui.away
    BY <2>1, <2>q, <2>t DEF UiType
  <2>3. ~Pursued(client) /\ ~ui.saving /\ ~ui.inFlight
    BY <1>1, PageNow DEF DialogOk, Idle
  <2>4. DialogOk(client, ui') /\ EditsOk(ui')
    BY <2>2, <2>3, <2>q, PageNow DEF DialogOk, EditsOk
  <2> QED BY <2>2, <2>4, PageStep
<1>2. CASE ~Idle(ui)
  <2>1. ui' = [ui EXCEPT !.target = FALSE]
    BY <1>2
  <2>2. /\ ui' \in UiType /\ ui'.inFlight = ui.inFlight /\ ui'.saving = ui.saving
        /\ ui'.config = ui.config /\ ui'.ready = ui.ready /\ ui'.dialog = ui.dialog
        /\ ui'.dirty = ui.dirty /\ ui'.away = ui.away
    BY <2>1, PageNow DEF UiType
  <2>3. DialogOk(client, ui') /\ EditsOk(ui')
    BY <2>2, PageNow DEF DialogOk, EditsOk
  <2> QED BY <2>2, <2>3, PageStep
<1> QED BY <1>1, <1>2

(* The edits are discarded, and the page left or the window closed.        *)
LEMMA DiscardFirstKeeps == ASSUME IvaInv, DiscardFirst PROVE IvaInv'
<1> DEFINE u == Discard(ui)
<1>1. ui.dialog # NoDialog /\ UNCHANGED <<camera, client, asked, dropped>>
  BY DialogTyped DEF DiscardFirst, Asking
<1>2. ~ui.saving /\ ~Pursued(client) /\ (ui.dirty => ~ui.inFlight)
  BY <1>1, PageNow DEF DialogOk
<1>3. /\ u \in UiType /\ u.inFlight = ui.inFlight /\ u.saving = ui.saving
      /\ u.config = ui.config /\ u.ready = ui.ready /\ u.away = ui.away
      /\ u.dirty => ui.dirty /\ ui.config = None
  <2>1. CASE ui.config = None \/ ~Idle(ui)
    <3>1. u = ui
      BY <2>1 DEF Discard
    <3>2. ui.dirty => ui.config = None
      BY <1>2, <2>1 DEF Idle
    <3> QED BY <3>1, <3>2, PageNow
  <2>2. CASE ~(ui.config = None \/ ~Idle(ui))
    <3>1. u = [ui EXCEPT !.dirty = FALSE, !.leaving = FALSE]
      BY <2>2 DEF Discard
    <3> QED BY <3>1, PageNow DEF UiType
  <2> QED BY <2>1, <2>2
<1> DEFINE v == IF ui.dialog.what = "leave" THEN Navigate([u EXCEPT !.dialog = NoDialog])
                ELSE IF u.dirty THEN ui
                ELSE [u EXCEPT !.dialog = NoDialog, !.closed = TRUE]
<1>4. ui' \in LayoutAnswered(v)
  BY DEF DiscardFirst
<1> HIDE DEF u
<1>v. v = IF ui.dialog.what = "leave" THEN Navigate([u EXCEPT !.dialog = NoDialog])
          ELSE IF u.dirty THEN ui
          ELSE [u EXCEPT !.dialog = NoDialog, !.closed = TRUE]
  OBVIOUS
<1> HIDE DEF v
<1>5. CASE ui.dialog.what = "leave"
  <2> DEFINE w == [u EXCEPT !.dialog = NoDialog]
  <2>1. /\ w \in UiType /\ w.inFlight = u.inFlight /\ w.saving = u.saving /\ SameHolding(w, u)
        /\ w.dialog = NoDialog
    BY <1>3, DialogTyped DEF UiType, SameHolding
  <2>2. v = Navigate(w)
    BY <1>5, <1>v
  <2> HIDE DEF w
  <2>3. /\ v \in UiType /\ SameHolding(v, w) /\ v.dialog = w.dialog
        /\ v.inFlight = w.inFlight /\ v.saving = w.saving
    BY <2>1, <2>2, Navigating
  <2>4. DialogOk(client, v) /\ EditsOk(v)
    BY <1>2, <1>3, <2>1, <2>3, DialogTyped DEF DialogOk, EditsOk, SameHolding
  <2> QED BY <1>1, <1>3, <1>4, <2>1, <2>3, <2>4, ClosingStep DEF SameHolding
<1>6. CASE ui.dialog.what # "leave" /\ u.dirty
  <2>1. v = ui
    BY <1>6, <1>v
  <2> QED BY <1>1, <1>4, <2>1, PageNow, ClosingStep
<1>7. CASE ui.dialog.what # "leave" /\ ~u.dirty
  <2>1. v = [u EXCEPT !.dialog = NoDialog, !.closed = TRUE]
    BY <1>7, <1>v
  <2>2. /\ v \in UiType /\ v.inFlight = u.inFlight /\ v.saving = u.saving
        /\ v.config = u.config /\ v.dialog = NoDialog /\ v.dirty = u.dirty
    BY <1>3, <2>1, DialogTyped DEF UiType
  <2>3. DialogOk(client, v) /\ EditsOk(v)
    BY <1>2, <1>7, <2>2, DialogTyped DEF DialogOk, EditsOk
  <2> QED BY <1>1, <1>3, <1>4, <2>2, <2>3, ClosingStep
<1> QED BY <1>5, <1>6, <1>7

-----------------------------------------------------------------------------
(* Loading.                                                                *)

(* A refresh starts to load, or is told at once that the client is busy.   *)
LEMMA FetchStep ==
  ASSUME NEW k, NEW u, NEW a, NEW d, Joint(k, u, a, d), k.out = <<>>,
         NEW w \in UiType, SameHolding(w, u), w.saving = u.saving,
         w.dialog \in {u.dialog, NoDialog}, w.away => u.away,
         w.dirty => u.inFlight \/ u.dialog = NoDialog
  PROVE  Joint(Fetch(k), Heard(w, Fetch(k)), a, d)
<1> DEFINE m == Fetch(k)
           v == Heard(w, m)
<1>k. k \in Clients /\ u \in UiType
  BY DEF Joint
<1>1. CASE Busy(k)
  <2> DEFINE s == [what |-> "requestFailed"]
  <2>1. m = Emit(k, s)
    BY <1>1 DEF Fetch
  <2>2. s \in Signal
    BY SignalTyped
  <2>3. /\ Hear(w, s) \in UiType /\ SamePlace(Hear(w, s), w) /\ SameHolding(Hear(w, s), w)
        /\ ~Hear(w, s).inFlight /\ Hear(w, s).saving = w.saving
    BY Hears
  <2> HIDE DEF s, m
  <2>4. /\ m \in Clients /\ SameLoaded(m, k) /\ SameWork(m, k) /\ m.update = k.update
        /\ m.out = <<s>>
    BY <1>k, <2>1, <2>2, Emits
  <2>5. v = Hear(w, s)
    BY <2>4, HearsThem
  <2> HIDE DEF v
  <2>6. /\ v \in UiType /\ SamePlace(v, w) /\ SameHolding(v, w)
        /\ ~v.inFlight /\ v.saving = w.saving
    BY <2>3, <2>5
  <2>7. /\ m.update = k.update /\ m.conn = k.conn /\ m.last = k.last /\ m.has = k.has
        /\ SameWork(m, k) /\ v.ready = u.ready /\ v.config = u.config /\ v.saving = u.saving
        /\ v.dirty = u.dirty /\ v.dialog \in {u.dialog, NoDialog} /\ (v.away => u.away)
    BY <2>4, <2>6 DEF SameLoaded, SamePlace, SameHolding
  <2>8. Joint(m, v, a, d)
    BY <2>4, <2>6, <2>7, LoadStep
  <2> QED BY <2>8 DEF m, v
<1>2. CASE ~Busy(k)
  <2>1. m = Start(k, "options")
    BY <1>2 DEF Fetch
  <2>2. "options" \in Kinds
    BY DEF Kinds, Fetching
  <2> HIDE DEF m
  <2>3. /\ m \in Clients /\ SameLoaded(m, k) /\ m.waiting = k.waiting
        /\ m.update = k.update /\ m.out = k.out
        /\ m.request = [kind |-> "options", to |-> k.conn, done |-> FALSE, read |-> None]
        /\ m.request # NoRequest
    BY <1>k, <2>1, <2>2, Starts
  <2>4. v = w
    BY <2>3, HearsThem
  <2>5. k.waiting = "none" /\ k.request = NoRequest
    BY <1>2 DEF Busy
  <2>6. ~Pursued(k)
    BY <2>5, NotPursued
  <2>7. RequestOk(m) /\ m.waiting = "none" /\ m.request.kind \in Fetching /\ Busy(m)
    BY <2>3, <2>5 DEF RequestOk, SameLoaded, Fetching, Busy
  <2>8. /\ m.update = k.update /\ m.conn = k.conn /\ m.last = k.last /\ m.has = k.has
        /\ w.ready = u.ready /\ w.config = u.config
        /\ w.dirty = u.dirty /\ w.dialog \in {u.dialog, NoDialog} /\ (w.away => u.away)
    BY <2>3 DEF SameLoaded, SameHolding
  <2>9. Joint(m, w, a, d)
    BY <2>3, <2>6, <2>7, <2>8, LoadStep
  <2> QED BY <2>4, <2>9 DEF m
<1> QED BY <1>1, <1>2

(* The page starts a refresh, in an invariant state.                       *)
LEMMA StartRefreshKeeps ==
  ASSUME IvaInv, camera' = camera, NEW w \in UiType, StartRefresh(w), SameHolding(w, ui),
         w.saving = ui.saving, w.dialog = ui.dialog, w.away => ui.away,
         w.dirty => ui.dialog = NoDialog
  PROVE  IvaInv'
<1> DEFINE x == [w EXCEPT !.inFlight = TRUE]
<1>1. Become(Fetch(client), x)
  BY DEF StartRefresh
<1>2. /\ x \in UiType /\ SameHolding(x, ui) /\ x.saving = ui.saving /\ x.dialog = ui.dialog
      /\ x.away => ui.away
      /\ x.dirty => ui.dialog = NoDialog
  BY DEF UiType, SameHolding
<1> HIDE DEF x
<1>3. Joint(Fetch(client), Heard(x, Fetch(client)), asked, dropped)
  BY <1>2, PageNow, FetchStep
<1>4. Follow(Fetch(client), Heard(x, Fetch(client)), asked, dropped)
  BY <1>1 DEF Become
<1> QED BY <1>3, <1>4, PageNow, FollowKeeps

(* The timer refreshes a page without edits.                               *)
LEMMA RefreshTimerKeeps == ASSUME IvaInv, RefreshTimer PROVE IvaInv'
<1>1. StartRefresh(ui) /\ camera' = camera /\ ~ui.dirty
  BY DEF RefreshTimer
<1>2. ui \in UiType /\ SameHolding(ui, ui)
  BY PageNow DEF SameHolding
<1> QED BY <1>1, <1>2, StartRefreshKeeps

(* The page is shown: it loads what was never loaded.                      *)
LEMMA ShownKeeps ==
  ASSUME IvaInv, camera' = camera, NEW w \in UiType, Shown(w), SameHolding(w, ui),
         w.saving = ui.saving, w.inFlight = ui.inFlight, w.dialog = ui.dialog,
         ui.dialog = NoDialog, w.away => ui.away
  PROVE  IvaInv'
<1>1. CASE StartRefresh(w)
  BY <1>1, StartRefreshKeeps
<1>2. CASE Become(client, w)
  <2>1. Heard(w, client) = w
    BY PageNow, HearsThem
  <2>2. Follow(client, w, asked, dropped)
    BY <1>2, <2>1 DEF Become
  <2>3. SameWork(client, client) /\ w.ready = ui.ready /\ w.config = ui.config /\ w.dirty = ui.dirty
    BY DEF SameWork, SameHolding
  <2>4. w.inFlight => Busy(client)
    BY PageNow DEF Joint, WaitsOk
  <2>5. Joint(client, w, asked, dropped)
    BY <2>3, <2>4, PageNow, LoadStep
  <2> QED BY <2>2, <2>5, PageNow, FollowKeeps
<1> QED BY <1>1, <1>2 DEF Shown

(* The operator returns to the page.                                       *)
LEMMA ReturnKeeps == ASSUME IvaInv, Return PROVE IvaInv'
<1> DEFINE w == [ui EXCEPT !.away = FALSE]
<1>1. Shown(w) /\ camera' = camera /\ ui.dialog = NoDialog
  BY DEF Return, OperatorFree
<1>2. /\ w \in UiType /\ SameHolding(w, ui) /\ w.saving = ui.saving /\ w.inFlight = ui.inFlight
      /\ w.dialog = ui.dialog /\ ~w.away
  BY PageNow DEF UiType, SameHolding
<1> HIDE DEF w
<1> QED BY <1>1, <1>2, ShownKeeps

(* The page is left with edits: it is shown again.                         *)
LEMMA LeaveDirtyKeeps == ASSUME IvaInv, LeaveDirty PROVE IvaInv'
<1>1. ui.dialog = NoDialog /\ ui.dirty /\ camera' = camera /\ ~ui.away
  BY DEF LeaveDirty, OnPage, OperatorFree
<1>2. CASE ui.config = None /\ ~ui.inFlight /\ ~Busy(client)
  <2> DEFINE w == [ui EXCEPT !.target = FALSE]
  <2>1. Shown(w)
    BY <1>2 DEF LeaveDirty
  <2>2. /\ w \in UiType /\ SameHolding(w, ui) /\ w.saving = ui.saving /\ w.inFlight = ui.inFlight
        /\ w.dialog = ui.dialog /\ w.away = ui.away
    BY PageNow DEF UiType, SameHolding
  <2> HIDE DEF w
  <2> QED BY <1>1, <2>1, <2>2, ShownKeeps
<1>3. CASE ~(ui.config = None /\ ~ui.inFlight /\ ~Busy(client))
  <2>1. /\ ui' = IF Idle(ui) THEN [ui EXCEPT !.target = TRUE, !.dialog = Dialog("leave")]
                             ELSE [ui EXCEPT !.target = FALSE]
        /\ UNCHANGED <<camera, client, asked, dropped>>
    BY <1>1, <1>3 DEF LeaveDirty
  <2> QED BY <1>1, <2>1, AskLeaveKeeps
<1> QED BY <1>2, <1>3

-----------------------------------------------------------------------------
(* Saving.                                                                 *)

(* What was asked for matters only to a check and to a write of edits.     *)
LEMMA OtherRequest ==
  ASSUME NEW k, NEW u, NEW a, NEW b, NEW d, Joint(k, u, a, d), k.request.kind \notin Updating
  PROVE  Joint(k, u, b, d)
<1>1. AskedOk(k, b, d)
  BY DEF AskedOk
<1> QED BY <1>1 DEF Joint

(* The window waits for the save to close.                                 *)
LEMMA ClosingIsNoMatter ==
  ASSUME NEW k, NEW u, NEW a, NEW d, Joint(k, u, a, d), NEW b \in BOOLEAN
  PROVE  Joint(k, [u EXCEPT !.closeAfter = b], a, d)
<1> DEFINE v == [u EXCEPT !.closeAfter = b]
<1>1. u \in UiType
  BY DEF Joint
<1>2. /\ v \in UiType /\ v.config = u.config /\ v.saving = u.saving /\ v.inFlight = u.inFlight
      /\ v.ready = u.ready /\ v.dirty = u.dirty /\ v.dialog = u.dialog /\ v.away = u.away
  BY <1>1 DEF UiType
<1> HIDE DEF v
<1>3. ShownOk(k, v) /\ WaitsOk(k, v, d)
  BY <1>2 DEF Joint, ShownOk, WaitsOk
<1>4. DialogOk(k, v) /\ EditsOk(v)
  BY <1>2 DEF Joint, DialogOk, EditsOk
<1>5. Joint(k, v, a, d)
  BY <1>2, <1>3, <1>4 DEF Joint
<1> QED BY <1>5 DEF v

(* A save is refused: only the page hears of it.                           *)
LEMMA RefuseStep ==
  ASSUME NEW k, NEW u, NEW a, NEW d, Joint(k, u, a, d), k.out = <<>>, ~Pursued(k), ~u.saving,
         NEW w \in UiType, SameHolding(w, u), w.away = u.away, w.dialog = NoDialog, NEW b
  PROVE  Joint(Refuse(k), Heard(w, Refuse(k)), b, d)
<1> DEFINE s == [what |-> "applyFailed", restored |-> FALSE]
           m == Refuse(k)
           v == Heard(w, m)
<1>1. m = Emit(k, s) /\ s \in Signal
  BY SignalTyped DEF Refuse
<1>2. /\ Hear(w, s) \in UiType /\ SamePlace(Hear(w, s), w) /\ SameHolding(Hear(w, s), w)
      /\ ~Hear(w, s).inFlight /\ ~Hear(w, s).saving
  BY HearsRefusal
<1> HIDE DEF s, m
<1>3. /\ m \in Clients /\ SameLoaded(m, k) /\ SameWork(m, k) /\ m.update = k.update
      /\ m.out = <<s>>
  BY <1>1, Emits DEF Joint
<1>4. v = Hear(w, s)
  BY <1>3, HearsThem
<1> HIDE DEF v
<1>5. /\ v \in UiType /\ ~v.inFlight /\ ~v.saving /\ v.ready = u.ready /\ v.config = u.config
      /\ v.dirty = u.dirty /\ v.dialog = NoDialog /\ v.away = u.away
  BY <1>2, <1>4 DEF SamePlace, SameHolding
<1>6. m.conn = k.conn /\ m.last = k.last /\ m.has = k.has
  BY <1>3 DEF SameLoaded
<1>7. v.saving = u.saving
  BY <1>5 DEF Joint, UiType
<1>8. Joint(m, v, a, d)
  BY <1>3, <1>5, <1>6, <1>7, LoadStep
<1>9. m.request.kind \notin Updating
  <2>1. ~Pursued(m)
    BY <1>3, PursuedByWork
  <2> QED BY <2>1 DEF Pursued, Updating, Writing
<1>10. Joint(m, v, b, d)
  BY <1>8, <1>9, OtherRequest
<1> QED BY <1>10 DEF m, v

(* A save begins, with its conflict check.                                 *)
LEMMA BeginStep ==
  ASSUME NEW k, NEW u, NEW a, NEW d, Joint(k, u, a, d), k.out = <<>>, ~Busy(k), Loaded(k),
         NEW p \in UpdateType, p.from = k.conn, p.baseline = k.last, p.intended # None,
         NEW b, p.deleted = None => b.what = "save" /\ b.config = p.intended,
         p.deleted # None /\ ~d => b.what = "delete" /\ b.area = p.deleted,
         NEW w \in UiType, SameHolding(w, u), w.away = u.away, w.dialog = NoDialog
  PROVE  Joint(BeginUpdate(k, p), Heard(w, BeginUpdate(k, p)), b, d)
<1> DEFINE s == [what |-> "applyStarted"]
           n == [k EXCEPT !.update = p]
           m == BeginUpdate(k, p)
           v == Heard(w, m)
<1>1. m = Start(Emit(n, s), "preflight") /\ s \in Signal
  BY SignalTyped DEF BeginUpdate
<1>2. /\ Hear(w, s) \in UiType /\ SamePlace(Hear(w, s), w) /\ SameHolding(Hear(w, s), w)
      /\ Hear(w, s).inFlight /\ Hear(w, s).saving
  BY Hears
<1>3. n \in Clients /\ SameLoaded(n, k) /\ SameWork(n, k) /\ n.update = p /\ n.out = <<>>
  BY DEF Joint, Clients, SameLoaded, SameWork
<1> HIDE DEF s, n
<1> DEFINE e == Emit(n, s)
<1>4. /\ e \in Clients /\ SameLoaded(e, n) /\ SameWork(e, n) /\ e.update = p /\ e.out = <<s>>
  BY <1>1, <1>3, Emits
<1>5. m = Start(e, "preflight") /\ "preflight" \in Kinds
  BY <1>1 DEF Kinds
<1> HIDE DEF e, m
<1>6. /\ m \in Clients /\ SameLoaded(m, e) /\ m.waiting = e.waiting /\ m.update = p
      /\ m.out = <<s>>
      /\ m.request = [kind |-> "preflight", to |-> e.conn, done |-> FALSE, read |-> None]
      /\ m.request # NoRequest
  BY <1>4, <1>5, Starts
<1>7. v = Hear(w, s)
  BY <1>6, HearsThem
<1> HIDE DEF v
<1>8. /\ v \in UiType /\ v.inFlight /\ v.saving /\ v.ready = u.ready /\ v.config = u.config
      /\ v.dirty = u.dirty /\ v.dialog = NoDialog /\ v.away = u.away
  BY <1>2, <1>7 DEF SamePlace, SameHolding
<1>9. m.conn = k.conn /\ m.last = k.last /\ m.has = k.has /\ m.waiting = "none"
  BY <1>3, <1>4, <1>6 DEF SameLoaded, SameWork, Busy
<1>10. u.config = k.last /\ u.config # None
  BY DEF Joint, ShownOk, Loaded, Fetching
<1>11. Pursued(m) /\ Busy(m) /\ m.request.kind = "preflight" /\ m.update # NoUpdate
  BY <1>6 DEF Pursued, Busy, NoUpdate
<1>12. RequestOk(m)
  BY <1>3, <1>4, <1>6, <1>9 DEF RequestOk, SameLoaded
<1>13. ShownOk(m, v)
  BY <1>6, <1>8, <1>9, <1>10 DEF ShownOk
<1>14. UpdateOk(m, d)
  BY <1>6, <1>9, <1>10, <1>11 DEF UpdateOk
<1>15. AskedOk(m, b, d)
  BY <1>6 DEF AskedOk
<1>16. WaitsOk(m, v, d)
  BY <1>11 DEF WaitsOk
<1>17. DialogOk(m, v)
  BY <1>8, DialogTyped DEF DialogOk
<1>18. EditsOk(v)
  BY <1>8 DEF Joint, EditsOk
<1>19. Joint(m, v, b, d)
  BY <1>6, <1>8, <1>12, <1>13, <1>14, <1>15, <1>16, <1>17, <1>18 DEF Joint
<1> QED BY <1>19 DEF m, v

(* An update that is over leaves nothing behind, unless it was dropped.    *)
LEMMA NothingLeft ==
  ASSUME NEW k, NEW u, NEW a, NEW d, Joint(k, u, a, d), ~Pursued(k), ~d
  PROVE  k.update.deleted = None
BY DEF Joint, UpdateOk, NoUpdate

(* A save of edits, as the page takes it, in an invariant state.           *)
LEMMA SaveEditKeeps ==
  ASSUME IvaInv, camera' = camera, NEW u \in UiType, SameHolding(u, ui), u.away = ui.away,
         u.dialog = NoDialog, ui.dialog # NoDialog, NEW i \in Areas, NEW x \in Values,
         NEW closing \in BOOLEAN, SaveEdit(u, i, x, closing)
  PROVE  IvaInv'
<1> DEFINE cfg == Edited(u, i, x)
           k == ApplyConfiguration(client, cfg)
           w == [u EXCEPT !.saving = TRUE]
           v == Heard(w, k)
           b == [what |-> "save", area |-> None, config |-> cfg]
<1>1. Follow(k, [v EXCEPT !.closeAfter = v.closeAfter \/ closing], b, dropped)
  BY DEF SaveEdit
<1>2. /\ w \in UiType /\ SameHolding(w, ui) /\ w.away = ui.away /\ w.dialog = NoDialog
  BY DEF UiType, SameHolding
<1>3. ~ui.saving /\ ~Pursued(client)
  BY PageNow DEF DialogOk
<1> HIDE DEF w
<1>4. Joint(k, v, b, dropped)
  <2>1. CASE ~Loaded(client) \/ cfg = client.last \/ Busy(client)
    <3>1. k = Refuse(client)
      BY <2>1 DEF ApplyConfiguration, BeginUpdate
    <3> QED BY <3>1, <1>2, <1>3, PageNow, RefuseStep
  <2>2. CASE Loaded(client) /\ cfg # client.last /\ ~Busy(client)
    <3> DEFINE p == [client.update EXCEPT !.from = client.conn, !.baseline = client.last,
                                          !.intended = cfg]
    <3>1. k = BeginUpdate(client, p)
      BY <2>2 DEF ApplyConfiguration
    <3>2. cfg \in Configs
      <4>1. u.config # None /\ u.config \in Configs
        <5>1. "configuration" \in client.has
          BY <2>2 DEF Loaded, Fetching
        <5>2. ui.config # None
          BY <5>1, PageNow DEF Joint, ShownOk
        <5> QED BY <5>2 DEF UiType, SameHolding
      <4>2. cfg = [u.config EXCEPT ![i] = x]
        BY <4>1 DEF Edited
      <4> QED BY <4>1, <4>2 DEF Configs
    <3>3. cfg # None
      BY <3>2, ClientConstants
    <3>4. client.update \in UpdateType /\ client.conn \in Cameras
          /\ client.last \in Configs \cup {None}
      BY PageNow DEF Clients
    <3> HIDE DEF cfg
    <3>5. /\ p \in UpdateType /\ p.from = client.conn /\ p.baseline = client.last
          /\ p.intended = cfg /\ p.deleted = client.update.deleted
      BY <3>2, <3>4 DEF UpdateType
    <3>6. b.what = "save" /\ b.config = cfg
      OBVIOUS
    <3> HIDE DEF p, b
    <3>7. ~dropped => p.deleted = None
      BY <1>3, <3>5, PageNow, NothingLeft
    <3>8. Joint(BeginUpdate(client, p), Heard(w, BeginUpdate(client, p)), b, dropped)
      BY <2>2, <1>2, <3>3, <3>5, <3>6, <3>7, PageNow, BeginStep
    <3> QED BY <3>1, <3>8
  <2> QED BY <2>1, <2>2
<1>5. (v.closeAfter \/ closing) \in BOOLEAN
  OBVIOUS
<1> HIDE DEF v, k, b
<1>6. Joint(k, [v EXCEPT !.closeAfter = v.closeAfter \/ closing], b, dropped)
  BY <1>4, <1>5, ClosingIsNoMatter
<1> QED BY <1>1, <1>6, PageNow, FollowKeeps

(* The operator confirms a save.                                           *)
LEMMA ConfirmSaveKeeps == ASSUME IvaInv, ConfirmSave PROVE IvaInv'
<1> DEFINE u == [ui EXCEPT !.dialog = NoDialog]
<1>1. /\ ui.dialog.what = "save" /\ camera' = camera
      /\ SaveEdit(u, ui.dialog.area, ui.dialog.value, FALSE)
  BY DEF ConfirmSave
<1>2. ui.dialog # NoDialog /\ ui.dialog.area \in Areas /\ ui.dialog.value \in Values
  BY <1>1, PageNow, DialogTyped DEF DialogOk
<1>3. u \in UiType /\ SameHolding(u, ui) /\ u.away = ui.away /\ u.dialog = NoDialog
  BY PageNow, DialogTyped DEF UiType, SameHolding
<1> HIDE DEF u
<1> QED BY <1>1, <1>2, <1>3, SaveEditKeeps

(* The operator saves before leaving or closing.                           *)
LEMMA SaveFirstKeeps == ASSUME IvaInv, SaveFirst PROVE IvaInv'
<1> DEFINE u == [ui EXCEPT !.dialog = NoDialog, !.leaving = TRUE]
           closing == ui.dialog.what = "close"
<1>1. PICK i \in Areas : \E x \in Values : SaveEdit(u, i, x, closing)
  BY DEF SaveFirst
<1>2. PICK x \in Values : SaveEdit(u, i, x, closing)
  BY <1>1
<1>3. ui.dialog # NoDialog /\ camera' = camera /\ closing \in BOOLEAN
  BY DialogTyped DEF SaveFirst, Asking
<1>4. u \in UiType /\ SameHolding(u, ui) /\ u.away = ui.away /\ u.dialog = NoDialog
  BY PageNow, DialogTyped DEF UiType, SameHolding
<1> HIDE DEF u, closing
<1> QED BY <1>2, <1>3, <1>4, SaveEditKeeps

(* The operator confirms a deletion.                                       *)
LEMMA ConfirmDeleteKeeps == ASSUME IvaInv, ConfirmDelete PROVE IvaInv'
<1> DEFINE i == ui.dialog.area
           k == DeleteArea(client, i)
           w == [ui EXCEPT !.dialog = NoDialog]
           v == Heard(w, k)
           b == [what |-> "delete", area |-> i, config |-> None]
<1>1. ui.dialog.what = "delete" /\ camera' = camera /\ Follow(k, v, b, dropped)
  BY DEF ConfirmDelete
<1>2. ui.dialog # NoDialog /\ i \in Areas
  BY <1>1, PageNow, DialogTyped DEF DialogOk
<1>3. ~ui.saving /\ ~Pursued(client)
  BY <1>2, PageNow DEF DialogOk
<1>4. w \in UiType /\ SameHolding(w, ui) /\ w.away = ui.away /\ w.dialog = NoDialog
  BY PageNow, DialogTyped DEF UiType, SameHolding
<1> HIDE DEF w, i
<1>5. Joint(k, v, b, dropped)
  <2>1. CASE ~Loaded(client) \/ client.last[i] = None \/ Busy(client)
    <3>1. k = Refuse(client)
      BY <2>1 DEF DeleteArea, BeginUpdate
    <3> QED BY <3>1, <1>3, <1>4, PageNow, RefuseStep
  <2>2. CASE Loaded(client) /\ client.last[i] # None /\ ~Busy(client)
    <3> DEFINE cfg == [client.last EXCEPT ![i] = None]
               p == [client.update EXCEPT !.from = client.conn, !.baseline = client.last,
                                          !.intended = cfg, !.deleted = i]
    <3>1. k = BeginUpdate(client, p)
      BY <2>2 DEF DeleteArea
    <3>2. cfg \in Configs
      <4>1. client.last \in Configs
        <5>1. "configuration" \in client.has
          BY <2>2 DEF Loaded, Fetching
        <5>2. client.last # None
          BY <5>1, PageNow DEF Joint, ShownOk
        <5> QED BY <5>2, PageNow DEF Clients
      <4> QED BY <4>1 DEF Configs
    <3>3. cfg # None /\ i # None
      BY <1>2, <3>2, ClientConstants
    <3>4. client.update \in UpdateType /\ client.conn \in Cameras
          /\ client.last \in Configs \cup {None}
      BY PageNow DEF Clients
    <3> HIDE DEF cfg
    <3>5. /\ p \in UpdateType /\ p.from = client.conn /\ p.baseline = client.last
          /\ p.intended = cfg /\ p.deleted = i
      BY <1>2, <3>2, <3>4 DEF UpdateType
    <3>6. b.what = "delete" /\ b.area = i
      OBVIOUS
    <3> HIDE DEF p, b
    <3>8. Joint(BeginUpdate(client, p), Heard(w, BeginUpdate(client, p)), b, dropped)
      BY <2>2, <1>4, <3>3, <3>5, <3>6, PageNow, BeginStep
    <3> QED BY <3>1, <3>8
  <2> QED BY <2>1, <2>2
<1> HIDE DEF v, k, b
<1> QED BY <1>1, <1>5, PageNow, FollowKeeps

-----------------------------------------------------------------------------
(* Connecting to a camera again, or to another.                            *)

(* The connection is new, and nothing is loaded over it yet.               *)
Connected(m, c, k) == m.conn = c /\ m.has = {} /\ m.last = k.last

(* The client is connected, and forgets what it has loaded.                *)
LEMMA Connects ==
  ASSUME NEW k \in Clients, NEW c \in Cameras
  PROVE  LET m == [k EXCEPT !.conn = c, !.has = {}] IN
         m \in Clients /\ Connected(m, c, k) /\ SameWork(m, k) /\ m.update = k.update
         /\ m.out = k.out
BY DEF Clients, Connected, SameWork

(* What the client was doing is cancelled: what was loading or compared is *)
(* over, and the outcome of a write is yet to be read.                     *)
LEMMA CancelsSomehow ==
  ASSUME NEW k \in Clients, k.out = <<>>, Busy(k), RequestOk(k)
  PROVE  LET m == Cancel(k)
             kind == k.request.kind IN
         /\ m \in Clients /\ SameLoaded(m, k) /\ m.request = NoRequest
         /\ k.request = NoRequest =>
              /\ m.waiting = "none" /\ m.update = k.update /\ m.out = <<>>
         /\ k.request # NoRequest =>
              /\ kind \in Fetching => /\ m.waiting = "none" /\ m.update = k.update
                                     /\ m.out = <<[what |-> "requestFailed"]>>
              /\ kind \in {"put", "delete"} => /\ m.waiting = "verify" /\ m.out = <<>>
                                              /\ SameUpdate(m.update, k.update)
              /\ kind \notin Fetching \cup {"put", "delete"}
                   => /\ m.waiting = "none" /\ m.update = NoUpdate
                      /\ m.out = <<[what |-> "applyFailed", restored |-> FALSE]>>
<1> DEFINE n == [k EXCEPT !.waiting = "none"]
<1>1. /\ n \in Clients /\ SameLoaded(n, k) /\ n.request = k.request /\ n.waiting = "none"
      /\ n.update = k.update /\ n.out = <<>>
  BY DEF Clients, SameLoaded
<1>2. Cancel(k) = IF k.request = NoRequest THEN n ELSE Failed(Finished(n), k.request.kind)
  BY DEF Cancel
<1> HIDE DEF n
<1>3. CASE k.request = NoRequest
  BY <1>1, <1>2, <1>3
<1>4. CASE k.request # NoRequest
  <2> DEFINE f == Finished(n)
  <2>1. /\ f \in Clients /\ SameLoaded(f, k) /\ f.request = NoRequest /\ f.waiting = "none"
        /\ f.update = k.update /\ f.out = <<>>
    BY <1>1, Finishes DEF SameLoaded
  <2>2. k.request.kind \in Kinds
    BY <1>4 DEF Clients, Requests
  <2>3. Cancel(k) = Failed(f, k.request.kind)
    BY <1>2, <1>4
  <2> HIDE DEF f
  <2> QED BY <1>4, <2>1, <2>2, <2>3, FailsSomehow DEF SameLoaded, SameUpdate
<1> QED BY <1>3, <1>4

(* After a change of the connection, the page and the client have nothing  *)
(* loaded in common but what they may still show of the same camera.       *)
LEMMA ConnectStep ==
  ASSUME NEW k, NEW u, NEW a, NEW d, Joint(k, u, a, d), u.dialog = NoDialog,
         NEW m \in Clients, NEW v \in UiType, NEW c, Connected(m, c, k), NEW e,
         RequestOk(m), m.request = NoRequest \/ m.request.kind \in Fetching,
         v.dialog = NoDialog, v.config \in {u.config, None}, v.dirty => v.config = None,
         v.inFlight => Busy(m),
         \/ ~Pursued(m) /\ m.update = k.update /\ (d => e) /\ (Pursued(k) => e)
            /\ (v.saving => u.saving)
         \/ ~Pursued(m) /\ m.update = NoUpdate /\ ~v.saving
         \/ /\ Pursued(m) /\ Pursued(k) /\ SameUpdate(m.update, k.update)
            /\ ~v.saving => v.config = None /\ ~v.ready /\ ~v.dirty
  PROVE  Joint(m, v, a, e)
<1>1. m.request.kind \notin Updating /\ m.request.kind \notin Writing
  BY DEF NoRequest, Fetching, Writing, Updating
<1>2. ShownOk(m, v)
  BY <1>1 DEF Joint, ShownOk, Connected
<1>3. UpdateOk(m, e)
  BY <1>1 DEF Joint, UpdateOk, SameUpdate, Updating
<1>4. AskedOk(m, a, e)
  BY <1>1 DEF AskedOk
<1>5. WaitsOk(m, v, e)
  BY DEF Joint, WaitsOk, UpdateOk, SameUpdate, NoUpdate
<1>6. DialogOk(m, v)
  BY DialogTyped DEF DialogOk
<1>7. EditsOk(v)
  BY DEF EditsOk
<1> QED BY <1>2, <1>3, <1>4, <1>5, <1>6, <1>7 DEF Joint

(* What the page keeps.                                                    *)
LEMMA Resets ==
  ASSUME NEW u \in UiType, NEW same \in BOOLEAN
  PROVE  LET v == ResetCamera(u, same) IN
         /\ v \in UiType /\ SamePlace(v, u) /\ v.inFlight = u.inFlight
         /\ v = u \/ (v.config = None /\ ~v.ready /\ ~v.dirty /\ ~v.saving)
<1>1. CASE same
  BY <1>1 DEF ResetCamera, SamePlace
<1>2. CASE ~same
  <2>1. ResetCamera(u, same)
          = [u EXCEPT !.config = None, !.ready = FALSE, !.dirty = FALSE, !.saving = FALSE]
    BY <1>2 DEF ResetCamera
  <2> QED BY <2>1 DEF UiType, SamePlace
<1> QED BY <1>1, <1>2

(* A client with nothing to do loads over its new connection.              *)
LEMMA ConnectsAndFetches ==
  ASSUME NEW n \in Clients, n.request = NoRequest, n.waiting = "none", NEW c \in Cameras
  PROVE  LET m == Fetch([n EXCEPT !.conn = c, !.has = {}]) IN
         /\ m \in Clients /\ Connected(m, c, n) /\ RequestOk(m) /\ m.request.kind \in Fetching
         /\ m.update = n.update /\ m.out = n.out /\ ~Pursued(m) /\ Busy(m)
<1> DEFINE s == [n EXCEPT !.conn = c, !.has = {}]
           m == Fetch(s)
<1>1. /\ s \in Clients /\ Connected(s, c, n) /\ SameWork(s, n) /\ s.update = n.update
      /\ s.out = n.out
  BY Connects
<1>2. ~Busy(s)
  BY <1>1 DEF SameWork, Busy
<1>3. m = Start(s, "options") /\ "options" \in Kinds
  BY <1>2 DEF Fetch, Kinds, Fetching
<1> HIDE DEF s, m
<1>4. /\ m \in Clients /\ SameLoaded(m, s) /\ m.waiting = s.waiting
      /\ m.update = s.update /\ m.out = s.out
      /\ m.request = [kind |-> "options", to |-> s.conn, done |-> FALSE, read |-> None]
      /\ m.request # NoRequest
  BY <1>1, <1>3, Starts
<1>5. m.waiting = "none" /\ m.request.kind \in Fetching /\ Busy(m)
  BY <1>1, <1>4 DEF SameWork, Fetching, Busy
<1>6. ~Pursued(m)
  BY <1>5, NotPursued
<1>7. RequestOk(m)
  BY <1>1, <1>4, <1>5 DEF RequestOk, SameLoaded
<1>8. Connected(m, c, n)
  BY <1>1, <1>4 DEF Connected, SameLoaded
<1> QED BY <1>1, <1>4, <1>5, <1>6, <1>7, <1>8 DEF s, m

(* saveCameraCredentials, whatever the client was doing.                   *)
LEMMA ConnectKeeps ==
  ASSUME NEW k, NEW u, NEW a, NEW d, Joint(k, u, a, d), k.out = <<>>, u.dialog = NoDialog, u.away,
         NEW c \in Cameras, NEW same \in BOOLEAN, NEW e,
         d => e, k.request = NoRequest /\ k.waiting # "none" => e
  PROVE  LET m == Fetch(SetConnectionOptions(k, c)) IN
         Joint(m, Heard(ResetCamera(u, same), m), a, e)
<1> DEFINE m == Fetch(SetConnectionOptions(k, c))
           w == ResetCamera(u, same)
           v == Heard(w, m)
           rf == [what |-> "requestFailed"]
           af == [what |-> "applyFailed", restored |-> FALSE]
<1>k. k \in Clients /\ u \in UiType /\ RequestOk(k)
  BY DEF Joint
<1>w. /\ w \in UiType /\ SamePlace(w, u) /\ w.inFlight = u.inFlight
      /\ w = u \/ (w.config = None /\ ~w.ready /\ ~w.dirty /\ ~w.saving)
  BY <1>k, Resets
<1>x. /\ w.dialog = NoDialog /\ w.config \in {u.config, None} /\ (w.dirty => w.config = None)
      /\ w.saving => u.saving
  BY <1>w DEF Joint, EditsOk, SamePlace
<1>s. rf \in Signal /\ af \in Signal
  BY SignalTyped
<1>h. /\ Hear(w, rf) \in UiType /\ SamePlace(Hear(w, rf), w) /\ SameHolding(Hear(w, rf), w)
      /\ ~Hear(w, rf).inFlight /\ Hear(w, rf).saving = w.saving
  BY <1>w, Hears
<1>i. /\ Hear(w, af) \in UiType /\ SamePlace(Hear(w, af), w) /\ SameHolding(Hear(w, af), w)
      /\ ~Hear(w, af).inFlight /\ ~Hear(w, af).saving
  BY <1>w, HearsRefusal
<1> HIDE DEF w
<1>1. CASE ~Busy(k)
  <2>1. m = Fetch([k EXCEPT !.conn = c, !.has = {}])
    BY <1>1 DEF SetConnectionOptions
  <2>2. k.request = NoRequest /\ k.waiting = "none"
    BY <1>1 DEF Busy
  <2> HIDE DEF m
  <2>3. /\ m \in Clients /\ Connected(m, c, k) /\ RequestOk(m) /\ m.request.kind \in Fetching
        /\ m.update = k.update /\ m.out = <<>> /\ ~Pursued(m) /\ Busy(m)
    BY <1>k, <2>1, <2>2, ConnectsAndFetches
  <2>4. v = w
    BY <2>3, HearsThem
  <2>5. ~Pursued(k)
    BY <2>2, NotPursued
  <2>6. Joint(m, w, a, e)
    BY <1>w, <1>x, <2>3, <2>5, ConnectStep
  <2> QED BY <2>4, <2>6 DEF m, w
<1>2. CASE Busy(k)
  <2> DEFINE n == Cancel(k)
             kind == k.request.kind
             t == [n EXCEPT !.conn = c, !.has = {}]
  <2>1. m = Fetch(t)
    BY <1>2 DEF SetConnectionOptions
  <2>2. /\ n \in Clients /\ SameLoaded(n, k) /\ n.request = NoRequest
        /\ k.request = NoRequest =>
              /\ n.waiting = "none" /\ n.update = k.update /\ n.out = <<>>
        /\ k.request # NoRequest =>
              /\ kind \in Fetching => /\ n.waiting = "none" /\ n.update = k.update
                                     /\ n.out = <<rf>>
              /\ kind \in {"put", "delete"} => /\ n.waiting = "verify" /\ n.out = <<>>
                                              /\ SameUpdate(n.update, k.update)
              /\ kind \notin Fetching \cup {"put", "delete"}
                   => /\ n.waiting = "none" /\ n.update = NoUpdate
                      /\ n.out = <<af>>
    BY <1>k, <1>2, CancelsSomehow
  <2>3. k.request # NoRequest => k.waiting = "none"
    BY <1>k DEF RequestOk
  <2> HIDE DEF n, rf, af
  <2>4. ASSUME n.waiting = "none"
        PROVE  /\ m \in Clients /\ Connected(m, c, k) /\ RequestOk(m)
               /\ m.request.kind \in Fetching
               /\ m.update = n.update /\ m.out = n.out /\ ~Pursued(m) /\ Busy(m)
    <3> HIDE DEF m, t
    <3>1. LET f == Fetch(t) IN
          /\ f \in Clients /\ Connected(f, c, n) /\ RequestOk(f) /\ f.request.kind \in Fetching
          /\ f.update = n.update /\ f.out = n.out /\ ~Pursued(f) /\ Busy(f)
      BY <2>2, <2>4, ConnectsAndFetches DEF t
    <3> QED BY <2>1, <2>2, <3>1 DEF Connected, SameLoaded
  <2>5. CASE k.request = NoRequest
    <3>1. k.waiting # "none" /\ e
      BY <1>2, <2>5 DEF Busy
    <3> HIDE DEF m, t
    <3>2. v = w
      BY <2>2, <2>4, <2>5, HearsThem
    <3>3. Joint(m, w, a, e)
      BY <1>w, <1>x, <2>2, <2>4, <2>5, <3>1, ConnectStep
    <3> QED BY <3>2, <3>3 DEF m, w
  <2>6. CASE k.request # NoRequest /\ kind \in Fetching
    <3> HIDE DEF m, t
    <3>1. v = Hear(w, rf)
      BY <2>2, <2>4, <2>6, HearsThem
    <3>2. ~Pursued(k)
      BY <2>3, <2>6, NotPursued
    <3> HIDE DEF v
    <3>3. /\ v \in UiType /\ v.dialog = NoDialog /\ v.config \in {u.config, None}
          /\ v.dirty => v.config = None
          /\ ~v.inFlight /\ (v.saving => u.saving)
      BY <1>h, <1>x, <3>1 DEF SamePlace, SameHolding
    <3>4. Joint(m, v, a, e)
      BY <2>2, <2>4, <2>6, <3>2, <3>3, ConnectStep
    <3> QED BY <3>4 DEF m, v, w
  <2>7. CASE k.request # NoRequest /\ kind \in {"put", "delete"}
    <3>1. /\ t \in Clients /\ Connected(t, c, n) /\ SameWork(t, n) /\ t.update = n.update
          /\ t.out = n.out
      BY <2>2, Connects
    <3> HIDE DEF t, m
    <3>2. Busy(t)
      BY <2>2, <2>7, <3>1 DEF SameWork, Busy
    <3>3. m = Emit(t, rf)
      BY <2>1, <3>2 DEF Fetch, rf
    <3>4. /\ m \in Clients /\ SameLoaded(m, t) /\ SameWork(m, t) /\ m.update = t.update
          /\ m.out = <<rf>>
      BY <1>s, <2>2, <2>7, <3>1, <3>3, Emits
    <3>5. v = Hear(w, rf)
      BY <3>4, HearsThem
    <3> HIDE DEF v
    <3>6. /\ v \in UiType /\ v.dialog = NoDialog /\ v.config \in {u.config, None}
          /\ v.dirty => v.config = None
          /\ ~v.inFlight
      BY <1>h, <1>x, <3>5 DEF SamePlace, SameHolding
    <3>7. m.request = NoRequest /\ m.waiting = "verify" /\ SameUpdate(m.update, k.update)
      BY <2>2, <2>7, <3>1, <3>4 DEF SameWork
    <3>8. Pursued(m) /\ RequestOk(m)
      BY <3>7 DEF Pursued, RequestOk, NoRequest
    <3>9. Pursued(k)
      BY <2>7 DEF Pursued, Writing
    <3>10. Connected(m, c, k)
      BY <2>2, <3>1, <3>4 DEF Connected, SameLoaded
    <3>11. ~v.saving => v.config = None /\ ~v.ready /\ ~v.dirty
      <4>1. v.saving = w.saving /\ v.config = w.config /\ v.ready = w.ready /\ v.dirty = w.dirty
        BY <1>h, <3>5 DEF SameHolding
      <4>2. ~u.saving => u.config = None /\ ~u.ready /\ ~u.dirty
        BY <3>9 DEF Joint, DialogOk
      <4> QED BY <1>w, <4>1, <4>2
    <3>12. Joint(m, v, a, e)
      BY <3>4, <3>6, <3>7, <3>8, <3>9, <3>10, <3>11, ConnectStep
    <3> QED BY <3>12 DEF m, v, w, t, n
  <2>8. CASE k.request # NoRequest /\ kind \notin Fetching \cup {"put", "delete"}
    <3> HIDE DEF m, t
    <3>1. v = Hear(w, af)
      BY <2>2, <2>4, <2>8, HearsThem
    <3> HIDE DEF v
    <3>3. /\ v \in UiType /\ v.dialog = NoDialog /\ v.config \in {u.config, None}
          /\ v.dirty => v.config = None
          /\ ~v.inFlight /\ ~v.saving
      BY <1>i, <1>x, <3>1 DEF SamePlace, SameHolding
    <3>4. Joint(m, v, a, e)
      BY <2>2, <2>4, <2>8, <3>3, ConnectStep
    <3> QED BY <3>4 DEF m, v, w
  <2> QED BY <2>5, <2>6, <2>7, <2>8
<1> QED BY <1>1, <1>2

(* The camera's credentials are saved.                                     *)
LEMMA SaveCredentialsKeeps ==
  ASSUME IvaInv, NEW c \in Cameras, SaveCredentials(c)
  PROVE  IvaInv'
<1> DEFINE k == Fetch(SetConnectionOptions(client, c))
           v == Heard(ResetCamera(ui, c = client.conn), k)
           e == dropped \/ Drops
<1>1. ui.dialog = NoDialog /\ ui.away /\ camera' = camera /\ Follow(k, v, asked, e)
  BY DEF SaveCredentials, OperatorFree
<1>2. /\ dropped => e
      /\ client.request = NoRequest /\ client.waiting # "none" => e
  BY DEF Drops
<1> HIDE DEF e
<1>3. Joint(client, ui, asked, dropped) /\ client.out = <<>>
  BY PageNow
<1>4. Joint(k, v, asked, e)
  <2>1. PICK same \in BOOLEAN : same = (c = client.conn)
    OBVIOUS
  <2>2. Joint(k, Heard(ResetCamera(ui, same), k), asked, e)
    BY <1>1, <1>2, <1>3, ConnectKeeps
  <2> QED BY <2>1, <2>2
<1> HIDE DEF k, v
<1> QED BY <1>1, <1>4, PageNow, FollowKeeps

-----------------------------------------------------------------------------
(* Answers, failures and the timer.                                        *)

(* A request that is over leaves a client that does nothing.               *)
LEMMA FinishesNow ==
  ASSUME NEW k, NEW u, NEW a, NEW d, Joint(k, u, a, d), k.out = <<>>, k.request # NoRequest
  PROVE  LET f == Finished(k) IN
         /\ k \in Clients /\ u \in UiType /\ k.request.kind \in Kinds /\ k.waiting = "none"
         /\ f \in Clients /\ SameLoaded(f, k) /\ f.request = NoRequest
         /\ f.waiting = "none" /\ f.update = k.update /\ f.out = <<>>
         /\ k.request.kind \in Fetching => ~Pursued(k)
         /\ k.request.kind \notin Fetching => Pursued(k)
<1>1. k \in Clients /\ u \in UiType /\ RequestOk(k)
  BY DEF Joint
<1>2. k.waiting = "none"
  BY <1>1 DEF RequestOk
<1>3. k.request.kind \in Kinds
  BY <1>1 DEF Clients, Requests
<1>4. k.request.kind \in Fetching => ~Pursued(k)
  BY <1>2, NotPursued
<1>5. k.request.kind \notin Fetching => Pursued(k)
  BY <1>3 DEF Pursued, Kinds
<1> QED BY <1>1, <1>2, <1>3, <1>4, <1>5, Finishes

(* A save goes on without a word to the page.                              *)
LEMMA QuietStep ==
  ASSUME NEW k, NEW u, NEW a, NEW d, Joint(k, u, a, d), Pursued(k),
         NEW m \in Clients, SameLoaded(m, k), SameUpdate(m.update, k.update), m.out = <<>>,
         \/ m.request = NoRequest /\ m.waiting \in Verifying
         \/ /\ m.waiting = "none" /\ m.request \in Requests /\ ~m.request.done
            /\ m.request.to = k.conn /\ m.request.kind \in Writing \cup Verifying
            /\ m.request.kind \in Updating
                 => /\ k.request.kind = "preflight"
                    /\ m.request.kind = IF k.update.deleted = None THEN "put" ELSE "delete"
  PROVE  Joint(m, Heard(u, m), a, d)
<1>1. Heard(u, m) = u
  BY HearsThem
<1>2. Pursued(m) /\ RequestOk(m)
        /\ (m.request.kind \in Updating
              => /\ k.request.kind = "preflight"
                 /\ m.request.kind = IF k.update.deleted = None THEN "put" ELSE "delete")
  <2>1. CASE m.request = NoRequest /\ m.waiting \in Verifying
    BY <2>1 DEF Pursued, RequestOk, NoRequest, Verifying, Updating
  <2>2. CASE ~(m.request = NoRequest /\ m.waiting \in Verifying)
    BY <2>2 DEF Pursued, RequestOk, SameLoaded
  <2> QED BY <2>1, <2>2
<1>3. Joint(m, u, a, d)
  BY <1>2, PursueStep
<1> QED BY <1>1, <1>3

(* A save ends in failure, with a word to the page.                        *)
LEMMA LostStep ==
  ASSUME NEW k, NEW u, NEW a, NEW d, Joint(k, u, a, d),
         NEW m \in Clients, SameLoaded(m, k), m.request = NoRequest, m.waiting = "none",
         m.update = NoUpdate, m.out = <<[what |-> "applyFailed", restored |-> FALSE]>>
  PROVE  Joint(m, Heard(u, m), a, d)
<1> DEFINE s == [what |-> "applyFailed", restored |-> FALSE]
           v == Heard(u, m)
<1>1. u \in UiType
  BY DEF Joint
<1>2. /\ Hear(u, s) \in UiType /\ SamePlace(Hear(u, s), u) /\ SameHolding(Hear(u, s), u)
      /\ ~Hear(u, s).inFlight /\ ~Hear(u, s).saving
  BY <1>1, HearsRefusal
<1>3. m.out = <<s>>
  OBVIOUS
<1> HIDE DEF s
<1>4. v = Hear(u, s)
  BY <1>3, HearsThem
<1> HIDE DEF v
<1>5. Joint(m, v, a, d)
  BY <1>2, <1>4, GiveUpStep
<1> QED BY <1>5 DEF v

(* processFailure.                                                         *)
LEMMA FailStep ==
  ASSUME NEW k, NEW u, NEW a, NEW d, Joint(k, u, a, d), k.out = <<>>, k.request # NoRequest
  PROVE  LET m == Failed(Finished(k), k.request.kind) IN Joint(m, Heard(u, m), a, d)
<1> DEFINE f == Finished(k)
           kind == k.request.kind
           m == Failed(f, kind)
           v == Heard(u, m)
           rf == [what |-> "requestFailed"]
<1>1. /\ k \in Clients /\ u \in UiType /\ kind \in Kinds /\ k.waiting = "none"
      /\ f \in Clients /\ SameLoaded(f, k) /\ f.request = NoRequest
      /\ f.waiting = "none" /\ f.update = k.update /\ f.out = <<>>
      /\ kind \in Fetching => ~Pursued(k)
      /\ kind \notin Fetching => Pursued(k)
  BY FinishesNow
<1> HIDE DEF f
<1>2. /\ m \in Clients /\ SameLoaded(m, f) /\ m.request = f.request
      /\ kind \in Fetching => /\ m.waiting = f.waiting /\ m.update = f.update /\ m.out = <<rf>>
      /\ kind \in {"put", "delete"} => /\ m.waiting = "verify" /\ m.out = <<>>
                                      /\ SameUpdate(m.update, f.update)
      /\ kind \notin Fetching \cup {"put", "delete"}
           => /\ m.waiting = f.waiting /\ m.update = NoUpdate
              /\ m.out = <<[what |-> "applyFailed", restored |-> FALSE]>>
  BY <1>1, FailsSomehow
<1>3. SameLoaded(m, k) /\ m.request = NoRequest
  BY <1>1, <1>2 DEF SameLoaded
<1> HIDE DEF m
<1>4. CASE kind \in Fetching
  <2>1. /\ Hear(u, rf) \in UiType /\ SamePlace(Hear(u, rf), u) /\ SameHolding(Hear(u, rf), u)
        /\ ~Hear(u, rf).inFlight /\ Hear(u, rf).saving = u.saving
    BY <1>1, Hears
  <2> HIDE DEF rf
  <2>2. v = Hear(u, rf)
    BY <1>2, <1>4, HearsThem
  <2> HIDE DEF v
  <2>3. /\ v \in UiType /\ v.config = u.config /\ v.saving = u.saving /\ v.dirty = u.dirty
        /\ ~v.inFlight /\ v.dialog = u.dialog /\ v.away = u.away
    BY <2>1, <2>2 DEF SamePlace, SameHolding
  <2>4. RequestOk(m)
    BY <1>3 DEF RequestOk, NoRequest
  <2>5. m.update = k.update /\ m.conn = k.conn /\ m.last = k.last /\ m.has = k.has
    BY <1>1, <1>2, <1>3, <1>4 DEF SameLoaded
  <2>6. Joint(m, v, a, d)
    BY <1>1, <1>2, <1>3, <1>4, <2>3, <2>4, <2>5, LoadStep
  <2> QED BY <2>6 DEF m, v, f
<1>5. CASE kind \in {"put", "delete"}
  <2>1. kind \notin Fetching
    BY <1>5 DEF Fetching
  <2>2. Joint(m, v, a, d)
    BY <1>1, <1>2, <1>3, <1>5, <2>1, QuietStep DEF Verifying
  <2> QED BY <2>2 DEF m, v, f
<1>6. CASE kind \notin Fetching \cup {"put", "delete"}
  <2>1. Joint(m, v, a, d)
    BY <1>1, <1>2, <1>3, <1>6, LostStep
  <2> QED BY <2>1 DEF m, v, f
<1> QED BY <1>4, <1>5, <1>6

(* A request fails.                                                        *)
LEMMA FailKeeps == ASSUME IvaInv, Fail PROVE IvaInv'
<1> DEFINE m == Failed(Finished(client), client.request.kind)
<1>1. client.request # NoRequest /\ camera' = camera /\ Follow(m, Heard(ui, m), asked, dropped)
  BY DEF Fail, Become
<1>2. Joint(m, Heard(ui, m), asked, dropped)
  BY <1>1, PageNow, FailStep
<1> HIDE DEF m
<1> QED BY <1>1, <1>2, PageNow, FollowKeeps

(* The timer sends the read that verifies.                                 *)
LEMMA VerificationTimerKeeps == ASSUME IvaInv, VerificationTimer PROVE IvaInv'
<1> DEFINE n == [client EXCEPT !.waiting = "none"]
           m == Start(n, client.waiting)
<1>1. client.waiting # "none" /\ camera' = camera /\ Follow(m, Heard(ui, m), asked, dropped)
  BY DEF VerificationTimer, Become
<1>2. client.waiting \in Verifying /\ Pursued(client)
  BY <1>1, PageNow DEF Clients, Pursued
<1>3. /\ n \in Clients /\ SameLoaded(n, client) /\ n.waiting = "none" /\ n.update = client.update
      /\ n.out = <<>>
  BY PageNow DEF Clients, SameLoaded
<1>4. client.waiting \in Kinds
  BY <1>2 DEF Kinds
<1> HIDE DEF n
<1>5. /\ m \in Clients /\ SameLoaded(m, n) /\ m.waiting = n.waiting
      /\ m.update = n.update /\ m.out = n.out
      /\ m.request = [kind |-> client.waiting, to |-> n.conn, done |-> FALSE, read |-> None]
      /\ m.request # NoRequest
  BY <1>3, <1>4, Starts
<1> HIDE DEF m
<1>6. SameLoaded(m, client) /\ SameUpdate(m.update, client.update) /\ m.request \in Requests
  BY <1>3, <1>5 DEF SameLoaded, SameUpdate, Clients
<1>7. /\ ~m.request.done /\ m.request.to = client.conn /\ m.request.kind \in Verifying
      /\ m.request.kind \notin Updating
  BY <1>2, <1>3, <1>5 DEF SameLoaded, Verifying, Updating
<1>8. Joint(m, Heard(ui, m), asked, dropped)
  BY <1>2, <1>3, <1>5, <1>6, <1>7, PageNow, QuietStep
<1> QED BY <1>1, <1>8, PageNow, FollowKeeps

(* The options, the capabilities or the areas of the channel arrive.       *)
LEMMA FetchedStep ==
  ASSUME NEW k, NEW u, NEW a, NEW d, Joint(k, u, a, d), k.out = <<>>,
         k.request.kind \in Fetching, Answerable(k)
  PROVE  LET m == Succeeded(Finished(k), k.request.kind, k.request.read) IN
         Joint(m, Heard(u, m), a, d)
<1> DEFINE f == Finished(k)
           kind == k.request.kind
           read == k.request.read
           m == Succeeded(f, kind, read)
           v == Heard(u, m)
<1>0. k.request # NoRequest
  BY DEF NoRequest, Fetching
<1>1. /\ k \in Clients /\ u \in UiType /\ k.waiting = "none"
      /\ f \in Clients /\ SameLoaded(f, k) /\ f.request = NoRequest
      /\ f.waiting = "none" /\ f.update = k.update /\ f.out = <<>>
      /\ ~Pursued(k)
  BY <1>0, FinishesNow
<1> HIDE DEF f
<1>2. CASE kind = "options"
  <2> DEFINE n == [f EXCEPT !.has = f.has \cup {"options"}]
  <2>1. m = Start(n, "capabilities") /\ "capabilities" \in Kinds
    BY <1>2 DEF Succeeded, Kinds, Fetching
  <2>2. /\ n \in Clients /\ n.conn = f.conn /\ n.last = f.last /\ n.has = f.has \cup {"options"}
        /\ n.waiting = "none" /\ n.update = f.update /\ n.out = <<>>
    BY <1>1 DEF Clients, Fetching
  <2> HIDE DEF n, m
  <2>3. /\ m \in Clients /\ SameLoaded(m, n) /\ m.waiting = n.waiting
        /\ m.update = n.update /\ m.out = n.out
        /\ m.request = [kind |-> "capabilities", to |-> n.conn, done |-> FALSE, read |-> None]
        /\ m.request # NoRequest
    BY <2>1, <2>2, Starts
  <2>4. v = u
    BY <2>2, <2>3, HearsThem
  <2>5. /\ m.update = k.update /\ m.conn = k.conn /\ m.last = k.last
        /\ "configuration" \in m.has => "configuration" \in k.has
    BY <1>1, <2>2, <2>3 DEF SameLoaded
  <2>6. RequestOk(m) /\ m.waiting = "none" /\ m.request.kind \in Fetching /\ Busy(m)
    BY <2>2, <2>3 DEF RequestOk, SameLoaded, Fetching, Busy
  <2>7. Joint(m, u, a, d)
    BY <1>1, <2>3, <2>5, <2>6, LoadStep
  <2> QED BY <2>4, <2>7 DEF m, f
<1>3. CASE kind = "capabilities"
  <2> DEFINE n == [f EXCEPT !.has = f.has \cup {"capabilities"}]
             s == [what |-> "capabilitiesReceived"]
             e == Emit(n, s)
  <2>1. m = Start(e, "configuration") /\ "configuration" \in Kinds /\ s \in Signal
    BY <1>3, SignalTyped DEF Succeeded, Kinds, Fetching
  <2>2. /\ n \in Clients /\ n.conn = f.conn /\ n.last = f.last
        /\ n.has = f.has \cup {"capabilities"}
        /\ n.waiting = "none" /\ n.update = f.update /\ n.out = <<>>
    BY <1>1 DEF Clients, Fetching
  <2>h. /\ Hear(u, s) \in UiType /\ SamePlace(Hear(u, s), u)
        /\ Hear(u, s).dirty = u.dirty /\ Hear(u, s).config = u.config
        /\ Hear(u, s).inFlight = u.inFlight /\ Hear(u, s).saving = u.saving
    BY <1>1, Hears
  <2> HIDE DEF n, s
  <2>3. /\ e \in Clients /\ SameLoaded(e, n) /\ SameWork(e, n) /\ e.update = n.update
        /\ e.out = <<s>>
    BY <2>1, <2>2, Emits
  <2> HIDE DEF e, m
  <2>4. /\ m \in Clients /\ SameLoaded(m, e) /\ m.waiting = e.waiting
        /\ m.update = e.update /\ m.out = e.out
        /\ m.request = [kind |-> "configuration", to |-> e.conn, done |-> FALSE, read |-> None]
        /\ m.request # NoRequest
    BY <2>1, <2>3, Starts
  <2>5. v = Hear(u, s)
    BY <2>3, <2>4, HearsThem
  <2> HIDE DEF v
  <2>6. /\ m.update = k.update /\ m.conn = k.conn /\ m.last = k.last
        /\ "configuration" \in m.has => "configuration" \in k.has
    BY <1>1, <2>2, <2>3, <2>4 DEF SameLoaded
  <2>7. RequestOk(m) /\ m.waiting = "none" /\ m.request.kind \in Fetching /\ Busy(m)
    BY <2>2, <2>3, <2>4 DEF RequestOk, SameLoaded, SameWork, Fetching, Busy
  <2>8. /\ v \in UiType /\ v.config = u.config /\ v.saving = u.saving /\ v.dirty = u.dirty
        /\ v.inFlight = u.inFlight /\ v.dialog = u.dialog /\ v.away = u.away
    BY <2>5, <2>h DEF SamePlace
  <2>9. Joint(m, v, a, d)
    BY <1>1, <2>4, <2>6, <2>7, <2>8, LoadStep
  <2> QED BY <2>9 DEF m, v, f
<1>4. CASE kind = "configuration"
  <2> DEFINE s == [what |-> "configurationReceived", read |-> read]
  <2>1. m = Received(f, read)
    BY <1>4 DEF Succeeded, Fetching
  <2>2. read \in Configs
    BY <1>4 DEF Joint, RequestOk, Answerable, Reading
  <2>h. /\ Hear(u, s) \in UiType /\ SamePlace(Hear(u, s), u) /\ Hear(u, s).saving = u.saving
        /\ Hear(u, s).config = read /\ ~Hear(u, s).inFlight /\ ~Hear(u, s).dirty
    BY <1>1, <2>2, HearsConfiguration
  <2>3. /\ m \in Clients /\ m.last = read /\ SameWork(m, f) /\ m.update = f.update
        /\ m.out = <<s>>
    BY <1>1, <2>1, <2>2, Receives
  <2> HIDE DEF s, m
  <2>4. v = Hear(u, s)
    BY <2>3, HearsThem
  <2> HIDE DEF v, read
  <2>5. /\ v \in UiType /\ v.config = read /\ ~v.inFlight /\ ~v.dirty /\ v.dialog = u.dialog
        /\ v.saving => u.saving
    BY <2>4, <2>h DEF SamePlace
  <2>6. m.request = NoRequest /\ m.waiting = "none" /\ m.update = k.update
    BY <1>1, <2>3 DEF SameWork
  <2>7. Joint(m, v, a, d)
    BY <1>1, <2>2, <2>3, <2>5, <2>6, LearnStep
  <2> QED BY <2>7 DEF m, v, f, read
<1> QED BY <1>2, <1>3, <1>4 DEF Fetching

(* A configuration is learnt and the save is over, one way or the other.   *)
LEMMA LearnAndEnd ==
  ASSUME NEW k, NEW u, NEW a, NEW d, Joint(k, u, a, d),
         NEW m \in Clients, NEW read \in Configs, m.request = NoRequest, m.waiting = "none",
         m.last = read, m.update = NoUpdate, NEW b \in BOOLEAN,
         \/ m.out = <<[what |-> "configurationReceived", read |-> read],
                      [what |-> "applyFailed", restored |-> b]>>
         \/ m.out = <<[what |-> "configurationReceived", read |-> read],
                      [what |-> "applySucceeded", read |-> read]>>
  PROVE  Joint(m, Heard(u, m), a, d)
<1> DEFINE s == [what |-> "configurationReceived", read |-> read]
           t == [what |-> "applyFailed", restored |-> b]
           z == [what |-> "applySucceeded", read |-> read]
           w == Hear(u, s)
           v == Heard(u, m)
<1>1. u \in UiType
  BY DEF Joint
<1>2. /\ w \in UiType /\ SamePlace(w, u) /\ w.config = read /\ ~w.inFlight /\ ~w.dirty
  BY <1>1, HearsConfiguration
<1>3. /\ Hear(w, t) \in UiType /\ SamePlace(Hear(w, t), w) /\ SameHolding(Hear(w, t), w)
      /\ ~Hear(w, t).inFlight /\ ~Hear(w, t).saving
  BY <1>2, HearsRefusal
<1>4. /\ Hear(w, z) \in UiType /\ Hear(w, z).dialog = w.dialog
      /\ Hear(w, z).config = read /\ ~Hear(w, z).inFlight /\ ~Hear(w, z).dirty
      /\ ~Hear(w, z).saving
  BY <1>2, HearsSuccess
<1>5. m.out = <<s, t>> \/ m.out = <<s, z>>
  OBVIOUS
<1> HIDE DEF s, t, z
<1>6. v = Hear(w, t) \/ v = Hear(w, z)
  BY <1>5, HearsThem
<1> HIDE DEF v, w
<1>7. /\ v \in UiType /\ v.config = read /\ ~v.inFlight /\ ~v.dirty /\ v.dialog = u.dialog
      /\ ~v.saving
  BY <1>2, <1>3, <1>4, <1>6 DEF SamePlace, SameHolding
<1>8. Joint(m, v, a, d)
  BY <1>7, LearnStep
<1> QED BY <1>8 DEF v

(* A configuration that ends a save, the client's side.                    *)
LEMMA LearnsAndGivesUp ==
  ASSUME NEW f \in Clients, f.out = <<>>, NEW read \in Configs, NEW b \in BOOLEAN
  PROVE  LET m == GiveUp(Received(f, read), b) IN
         /\ m \in Clients /\ m.last = read /\ SameWork(m, f) /\ m.update = NoUpdate
         /\ m.out = <<[what |-> "configurationReceived", read |-> read],
                      [what |-> "applyFailed", restored |-> b]>>
<1> DEFINE s == [what |-> "configurationReceived", read |-> read]
           t == [what |-> "applyFailed", restored |-> b]
           n == Received(f, read)
<1>1. n \in Clients /\ n.last = read /\ SameWork(n, f) /\ n.out = <<s>>
  BY Receives
<1> HIDE DEF n, s
<1>2. LET m == GiveUp(n, b) IN
      /\ m \in Clients /\ SameLoaded(m, n) /\ SameWork(m, n) /\ m.update = NoUpdate
      /\ \A x : n.out = <<x>> => m.out = <<x, t>>
  BY <1>1, GivesUp
<1>3. LET m == GiveUp(n, b) IN
      /\ m \in Clients /\ m.last = read /\ SameWork(m, f) /\ m.update = NoUpdate
      /\ m.out = <<s, t>>
  BY <1>1, <1>2 DEF SameLoaded, SameWork
<1> QED BY <1>3 DEF n, s

(* A configuration that is what the save intended.                         *)
LEMMA LearnsAndSucceeds ==
  ASSUME NEW f \in Clients, f.out = <<>>, NEW read \in Configs
  PROVE  LET m == Emit(Received([f EXCEPT !.update = NoUpdate], read),
                       [what |-> "applySucceeded", read |-> read]) IN
         /\ m \in Clients /\ m.last = read /\ SameWork(m, f) /\ m.update = NoUpdate
         /\ m.out = <<[what |-> "configurationReceived", read |-> read],
                      [what |-> "applySucceeded", read |-> read]>>
<1> DEFINE s == [what |-> "configurationReceived", read |-> read]
           z == [what |-> "applySucceeded", read |-> read]
           g == [f EXCEPT !.update = NoUpdate]
           n == Received(g, read)
<1>1. g \in Clients /\ SameWork(g, f) /\ g.update = NoUpdate /\ g.out = <<>>
  BY NoUpdateTyped DEF Clients, SameWork
<1>2. z \in Signal
  BY SignalTyped
<1> HIDE DEF g
<1>3. n \in Clients /\ n.last = read /\ SameWork(n, g) /\ n.update = NoUpdate /\ n.out = <<s>>
  BY <1>1, Receives
<1> HIDE DEF n, s, z
<1>4. LET m == Emit(n, z) IN
      /\ m \in Clients /\ SameLoaded(m, n) /\ SameWork(m, n) /\ m.update = n.update
      /\ \A x : n.out = <<x>> => m.out = <<x, z>>
  BY <1>2, <1>3, Emits
<1>5. LET m == Emit(n, z) IN
      /\ m \in Clients /\ m.last = read /\ SameWork(m, f) /\ m.update = NoUpdate
      /\ m.out = <<s, z>>
  BY <1>1, <1>3, <1>4 DEF SameLoaded, SameWork
<1> QED BY <1>5 DEF n, s, z, g

(* What the answers of a save lead to.                                     *)
LEMMA SavingStep ==
  ASSUME NEW k, NEW u, NEW a, NEW d, Joint(k, u, a, d), k.out = <<>>,
         k.request # NoRequest, k.request.kind \notin Fetching, Answerable(k)
  PROVE  LET m == Succeeded(Finished(k), k.request.kind, k.request.read) IN
         Joint(m, Heard(u, m), a, d)
<1> DEFINE f == Finished(k)
           kind == k.request.kind
           read == k.request.read
           m == Succeeded(f, kind, read)
           v == Heard(u, m)
<1>1. /\ k \in Clients /\ u \in UiType /\ kind \in Kinds /\ k.waiting = "none"
      /\ f \in Clients /\ SameLoaded(f, k) /\ f.request = NoRequest
      /\ f.waiting = "none" /\ f.update = k.update /\ f.out = <<>>
      /\ Pursued(k)
  BY FinishesNow
<1>2. kind \in {"preflight"} \cup Verifying => read \in Configs
  BY DEF Joint, RequestOk, Answerable, Reading, Verifying
<1>3. kind \in {"preflight"} \cup Writing \cup Verifying
  BY <1>1 DEF Kinds
<1> HIDE DEF f
<1>4. ASSUME NEW next \in Writing, m = Start(f, next),
             next \in Updating
               => kind = "preflight" /\ next = IF k.update.deleted = None THEN "put" ELSE "delete"
      PROVE  Joint(m, v, a, d)
  <2>1. next \in Kinds
    BY DEF Kinds
  <2> HIDE DEF m
  <2>2. /\ m \in Clients /\ SameLoaded(m, f) /\ m.waiting = f.waiting
        /\ m.update = f.update /\ m.out = f.out
        /\ m.request = [kind |-> next, to |-> f.conn, done |-> FALSE, read |-> None]
        /\ m.request # NoRequest
    BY <1>1, <1>4, <2>1, Starts
  <2>3. SameLoaded(m, k) /\ SameUpdate(m.update, k.update) /\ m.request \in Requests
    BY <1>1, <2>2 DEF SameLoaded, SameUpdate, Clients
  <2>4. ~m.request.done /\ m.request.to = k.conn /\ m.request.kind = next
    BY <1>1, <2>2 DEF SameLoaded
  <2>5. Joint(m, Heard(u, m), a, d)
    BY <1>1, <1>4, <2>2, <2>3, <2>4, QuietStep
  <2> QED BY <2>5
<1>5. ASSUME NEW next \in Verifying, SameUpdate(m.update, f.update), SameLoaded(m, f),
             m \in Clients, m.request = f.request, m.waiting = next, m.out = <<>>
      PROVE  Joint(m, v, a, d)
  <2> HIDE DEF m
  <2>1. SameLoaded(m, k) /\ SameUpdate(m.update, k.update) /\ m.request = NoRequest
    BY <1>1, <1>5 DEF SameLoaded
  <2> QED BY <1>1, <1>5, <2>1, QuietStep
<1>6. CASE kind = "preflight"
  <2>1. m = Checked(f, read)
    BY <1>6 DEF Succeeded
  <2>2. CASE read # f.update.baseline
    <3>1. m = GiveUp(Received(f, read), FALSE)
      BY <2>1, <2>2 DEF Checked
    <3> HIDE DEF m, read
    <3>2. /\ m \in Clients /\ m.last = read /\ SameWork(m, f) /\ m.update = NoUpdate
          /\ m.out = <<[what |-> "configurationReceived", read |-> read],
                       [what |-> "applyFailed", restored |-> FALSE]>>
      BY <1>1, <1>2, <1>6, <3>1, LearnsAndGivesUp
    <3>3. m.request = NoRequest /\ m.waiting = "none"
      BY <1>1, <3>2 DEF SameWork
    <3>4. Joint(m, Heard(u, m), a, d)
      BY <1>2, <1>6, <3>2, <3>3, LearnAndEnd
    <3> QED BY <3>4 DEF m, f, read
  <2>3. CASE read = f.update.baseline
    <3> DEFINE next == IF k.update.deleted = None THEN "put" ELSE "delete"
    <3>1. m = Start(f, next)
      BY <1>1, <2>1, <2>3 DEF Checked
    <3>2. next \in Writing
      BY DEF Writing
    <3> HIDE DEF next, m
    <3>3. Joint(m, v, a, d)
      BY <1>4, <1>6, <3>1, <3>2 DEF next
    <3> QED BY <3>3 DEF m, v, f
  <2> QED BY <2>2, <2>3
<1>7. CASE kind \in {"put", "delete", "putBack"}
  <2> DEFINE next == IF kind = "putBack" THEN "verifyBack" ELSE "verify"
  <2>1. m = Schedule([f EXCEPT !.update.attempt = 0], next)
    BY <1>7 DEF Succeeded, Fetching
  <2>2. next \in Verifying
    BY DEF Verifying
  <2> HIDE DEF m, next
  <2>3. /\ m \in Clients /\ SameLoaded(m, f) /\ m.request = f.request
        /\ m.waiting = next /\ m.out = f.out /\ SameUpdate(m.update, f.update)
    BY <1>1, <2>1, <2>2, SchedulesFirst
  <2>4. Joint(m, v, a, d)
    BY <1>1, <1>5, <2>2, <2>3
  <2> QED BY <2>4 DEF m, v, f
<1>8. ASSUME NEW next \in Verifying, f.update.attempt < 3, m = Schedule(f, next)
      PROVE  Joint(m, v, a, d)
  <2>1. /\ m \in Clients /\ SameLoaded(m, f) /\ m.request = f.request
        /\ m.waiting = next /\ m.out = f.out /\ SameUpdate(m.update, f.update)
    BY <1>1, <1>8, Schedules
  <2> QED BY <1>1, <1>5, <2>1
<1>9. CASE kind = "verify"
  <2>1. m = Verified(f, read)
    BY <1>9 DEF Succeeded
  <2>2. CASE read = f.update.intended
    <3>1. m = Emit(Received([f EXCEPT !.update = NoUpdate], read),
                   [what |-> "applySucceeded", read |-> read])
      BY <2>1, <2>2 DEF Verified
    <3>r. read \in Configs
      BY <1>2, <1>9 DEF Verifying
    <3> HIDE DEF m, read
    <3>2. /\ m \in Clients /\ m.last = read /\ SameWork(m, f) /\ m.update = NoUpdate
          /\ m.out = <<[what |-> "configurationReceived", read |-> read],
                       [what |-> "applySucceeded", read |-> read]>>
      BY <1>1, <3>1, <3>r, LearnsAndSucceeds
    <3>3. m.request = NoRequest /\ m.waiting = "none"
      BY <1>1, <3>2 DEF SameWork
    <3>4. Joint(m, Heard(u, m), a, d)
      BY <3>2, <3>3, <3>r, LearnAndEnd
    <3> QED BY <3>4 DEF m, f, read
  <2>3. CASE read # f.update.intended /\ f.update.attempt < 3
    <3>1. m = Schedule(f, "verify")
      BY <2>1, <2>3 DEF Verified
    <3> QED BY <1>8, <2>3, <3>1 DEF Verifying, f
  <2>4. CASE read # f.update.intended /\ ~(f.update.attempt < 3)
    <3>1. m = Start(f, "putBack")
      BY <2>1, <2>4 DEF Verified
    <3> QED BY <1>4, <3>1 DEF Writing, Updating, f
  <2> QED BY <2>2, <2>3, <2>4
<1>10. CASE kind = "verifyBack"
  <2>1. m = VerifiedBack(f, read)
    BY <1>10 DEF Succeeded, Fetching
  <2>2. CASE read = f.update.baseline
    <3>1. m = GiveUp(Received(f, read), TRUE)
      BY <2>1, <2>2 DEF VerifiedBack
    <3>r. read \in Configs
      BY <1>2, <1>10 DEF Verifying
    <3> HIDE DEF m, read
    <3>2. /\ m \in Clients /\ m.last = read /\ SameWork(m, f) /\ m.update = NoUpdate
          /\ m.out = <<[what |-> "configurationReceived", read |-> read],
                       [what |-> "applyFailed", restored |-> TRUE]>>
      BY <1>1, <3>1, <3>r, LearnsAndGivesUp
    <3>3. m.request = NoRequest /\ m.waiting = "none"
      BY <1>1, <3>2 DEF SameWork
    <3>4. Joint(m, Heard(u, m), a, d)
      BY <3>2, <3>3, <3>r, LearnAndEnd
    <3> QED BY <3>4 DEF m, f, read
  <2>3. CASE read # f.update.baseline /\ f.update.attempt < 3
    <3>1. m = Schedule(f, "verifyBack")
      BY <2>1, <2>3 DEF VerifiedBack
    <3> QED BY <1>8, <2>3, <3>1 DEF Verifying, f
  <2>4. CASE read # f.update.baseline /\ ~(f.update.attempt < 3)
    <3>1. m = GiveUp(f, FALSE)
      BY <2>1, <2>4 DEF VerifiedBack
    <3> HIDE DEF m
    <3>2. /\ m \in Clients /\ SameLoaded(m, f) /\ SameWork(m, f) /\ m.update = NoUpdate
          /\ m.out = <<[what |-> "applyFailed", restored |-> FALSE]>>
      BY <1>1, <3>1, GivesUp
    <3>3. SameLoaded(m, k) /\ m.request = NoRequest /\ m.waiting = "none"
      BY <1>1, <3>2 DEF SameLoaded, SameWork
    <3>4. Joint(m, Heard(u, m), a, d)
      BY <3>2, <3>3, LostStep
    <3> QED BY <3>4 DEF m, f
  <2> QED BY <2>2, <2>3, <2>4
<1> QED BY <1>3, <1>6, <1>7, <1>9, <1>10 DEF Writing, Verifying

(* An answer arrives.                                                      *)
LEMMA AnswerKeeps == ASSUME IvaInv, Answer PROVE IvaInv'
<1> DEFINE m == Succeeded(Finished(client), client.request.kind, client.request.read)
<1>1. /\ client.request # NoRequest /\ Answerable(client) /\ camera' = camera
      /\ Follow(m, Heard(ui, m), asked, dropped)
  BY DEF Answer, Become
<1>2. Joint(m, Heard(ui, m), asked, dropped)
  BY <1>1, PageNow, FetchedStep, SavingStep
<1> HIDE DEF m
<1> QED BY <1>1, <1>2, PageNow, FollowKeeps

-----------------------------------------------------------------------------
(* The cameras.                                                            *)

(* The camera carries out the request in flight, which stays what it was.  *)
LEMMA ServedStep ==
  ASSUME IvaInv, client.request # NoRequest, NEW r \in Configs \cup {None},
         client' = [client EXCEPT !.request = [client.request EXCEPT !.done = TRUE, !.read = r]],
         client.request.kind \in Reading => r \in Configs,
         camera' \in [Cameras -> Configs], UNCHANGED <<ui, asked, dropped>>
  PROVE  IvaInv'
<1> DEFINE q == [client.request EXCEPT !.done = TRUE, !.read = r]
<1>1. client.request \in Requests /\ client.request.kind \in Kinds
  BY PageNow DEF Clients, Requests
<1>2. /\ q \in Requests /\ q.kind = client.request.kind /\ q.to = client.request.to
      /\ q.read = r /\ q # NoRequest
  <2>1. client.request \in [kind : Kinds, to : Cameras, done : BOOLEAN, read : Configs \cup {None}]
    BY <1>1 DEF Requests
  <2>2. "none" \notin Kinds
    BY DEF Kinds, Fetching, Writing, Verifying
  <2> QED BY <2>1, <2>2 DEF Requests, NoRequest
<1> HIDE DEF q
<1>3. /\ client' \in Clients /\ SameLoaded(client', client) /\ client'.request = q
      /\ client'.waiting = client.waiting /\ client'.update = client.update
      /\ client'.out = <<>>
  BY <1>2, PageNow DEF Clients, SameLoaded, q
<1>4. Pursued(client') <=> Pursued(client)
  BY <1>2, <1>3 DEF Pursued
<1>5. Busy(client') /\ Busy(client)
  BY <1>2, <1>3 DEF Busy
<1>6. RequestOk(client')
  BY <1>2, <1>3, PageNow DEF Joint, RequestOk, SameLoaded
<1>7. ShownOk(client', ui)
  BY <1>2, <1>3, PageNow DEF Joint, ShownOk, SameLoaded
<1>8. UpdateOk(client', dropped)
  BY <1>2, <1>3, <1>4, PageNow DEF Joint, UpdateOk, SameLoaded
<1>9. AskedOk(client', asked, dropped)
  BY <1>2, <1>3, PageNow DEF Joint, AskedOk
<1>10. WaitsOk(client', ui, dropped)
  BY <1>3, <1>4, <1>5, PageNow DEF Joint, WaitsOk
<1>11. DialogOk(client', ui)
  BY <1>4, PageNow DEF DialogOk
<1>12. Joint(client', ui', asked', dropped')
  BY <1>3, <1>6, <1>7, <1>8, <1>9, <1>10, <1>11, PageNow DEF Joint
<1> QED BY <1>3, <1>12, InvPrimed

(* A write carries areas, or the index of one.                             *)
LEMMA WritesAreas ==
  ASSUME IvaInv, client.request.kind \in Writing, NEW cfg \in Configs
  PROVE  Written(cfg, client.request.kind, Content(client)) \in Configs
<1>1. client.update.intended \in Configs /\ client.update.baseline \in Configs
  <2>1. Pursued(client)
    BY DEF Pursued
  <2>2. client.update \in UpdateType
    BY PageNow DEF Clients
  <2> QED BY <2>1, <2>2, PageNow DEF Joint, UpdateOk, UpdateType
<1>2. CASE client.request.kind = "put"
  BY <1>1, <1>2 DEF Written, Content
<1>3. CASE client.request.kind = "delete"
  BY <1>3 DEF Written, Content, Configs
<1>4. CASE client.request.kind = "putBack"
  BY <1>1, <1>4 DEF Written, Content
<1> QED BY <1>2, <1>3, <1>4 DEF Writing

(* The camera serves the request in flight.                                *)
LEMMA ServeKeeps == ASSUME IvaInv, Serve PROVE IvaInv'
<1> DEFINE q == client.request
<1>1. UNCHANGED <<ui, asked, dropped>>
  BY DEF Serve
<1>2. CASE ServeRead
  <2>1. /\ q.kind \in {"configuration", "preflight"} \cup Verifying
        /\ client' = [client EXCEPT !.request.done = TRUE, !.request.read = camera[q.to]]
        /\ camera' = camera
    BY <1>2 DEF ServeRead
  <2>2. q # NoRequest /\ q.kind \in Reading
    BY <2>1 DEF NoRequest, Verifying, Reading
  <2>3. q.to \in Cameras
    BY <2>2, PageNow DEF Clients, Requests
  <2>4. camera[q.to] \in Configs
    BY <2>3, PageNow
  <2>5. client' = [client EXCEPT !.request =
                     [client.request EXCEPT !.done = TRUE, !.read = camera[q.to]]]
    BY <2>1
  <2> QED BY <1>1, <2>1, <2>2, <2>4, <2>5, PageNow, ServedStep
<1>3. CASE ServeWrite
  <2> DEFINE c == Written(camera[q.to], q.kind, Content(client))
  <2>1. /\ q.kind \in Writing
        /\ client' = [client EXCEPT !.request.done = TRUE]
        /\ camera' = [camera EXCEPT ![q.to] = c]
    BY <1>3 DEF ServeWrite
  <2>2. q # NoRequest /\ q.kind \notin Reading
    BY <2>1 DEF NoRequest, Writing, Verifying, Reading
  <2>3. q.to \in Cameras /\ q.read \in Configs \cup {None}
    BY <2>2, PageNow DEF Clients, Requests
  <2>4. c \in Configs
    BY <2>1, <2>3, WritesAreas, PageNow
  <2>5. camera' \in [Cameras -> Configs]
    <3> HIDE DEF c
    <3> QED BY <2>1, <2>4, PageNow
  <2>6. client' = [client EXCEPT !.request =
                     [client.request EXCEPT !.done = TRUE, !.read = q.read]]
    <3>1. q \in [kind : Kinds, to : Cameras, done : BOOLEAN, read : Configs \cup {None}]
      BY <2>2, PageNow DEF Clients, Requests
    <3>2. [q EXCEPT !.done = TRUE, !.read = q.read] = [q EXCEPT !.done = TRUE]
      BY <3>1
    <3> QED BY <2>1, <3>2
  <2> QED BY <1>1, <2>2, <2>3, <2>5, <2>6, ServedStep
<1> QED BY <1>2, <1>3 DEF Serve

(* Somebody else edits the camera.                                         *)
LEMMA ElsewhereKeeps == ASSUME IvaInv, Elsewhere PROVE IvaInv'
<1>1. PICK c \in Cameras : \E cfg \in Configs : EditCamera(c, cfg)
  BY DEF Elsewhere
<1>2. PICK cfg \in Configs : EditCamera(c, cfg)
  BY <1>1
<1>3. camera' = [camera EXCEPT ![c] = cfg] /\ client' = client /\ UNCHANGED <<ui, asked, dropped>>
  BY <1>2 DEF Elsewhere, EditCamera
<1>4. camera' \in [Cameras -> Configs]
  BY <1>3, PageNow
<1> QED BY <1>3, <1>4, PageNow, InvPrimed

-----------------------------------------------------------------------------
(* The theorems.                                                           *)

(* At first nothing is loaded, asked or saved.                             *)
LEMMA IvaInitially == IvaInit => IvaInv
<1> SUFFICES ASSUME IvaInit PROVE IvaInv
  OBVIOUS
<1>1. camera \in [Cameras -> Configs]
  BY DEF IvaInit, ClientInit
<1>2. PICK c \in Cameras :
        client = [conn |-> c, has |-> {}, last |-> None, request |-> NoRequest,
                  waiting |-> "none", update |-> NoUpdate, out |-> << >>]
  BY DEF IvaInit, ClientInit
<1>3. client \in Clients
  BY <1>2, NoUpdateTyped DEF Clients, Requests
<1>4. /\ client.request = NoRequest /\ client.waiting = "none" /\ client.update = NoUpdate
      /\ client.has = {} /\ client.last = None /\ client.out = <<>>
  BY <1>2
<1>5. ~Pursued(client) /\ client.request.kind \notin Updating
  BY <1>4, NotPursued
<1>6. ui = [inFlight |-> FALSE, saving |-> FALSE, dirty |-> FALSE, config |-> None,
            ready |-> FALSE, dialog |-> NoDialog, leaving |-> FALSE, target |-> FALSE,
            closeAfter |-> FALSE, away |-> TRUE, closed |-> FALSE]
  BY DEF IvaInit
<1>7. /\ ui \in UiType /\ ~ui.inFlight /\ ~ui.saving /\ ~ui.dirty /\ ui.config = None
      /\ ui.dialog = NoDialog
  BY <1>6, DialogTyped DEF UiType
<1>8. RequestOk(client)
  BY <1>4 DEF RequestOk, NoRequest
<1>9. ShownOk(client, ui)
  BY <1>4, <1>5, <1>7 DEF ShownOk
<1>10. UpdateOk(client, dropped)
  BY <1>4, <1>5 DEF UpdateOk, Updating
<1>11. AskedOk(client, asked, dropped)
  BY <1>5 DEF AskedOk
<1>12. WaitsOk(client, ui, dropped) /\ EditsOk(ui)
  BY <1>7 DEF WaitsOk, EditsOk
<1>13. DialogOk(client, ui)
  BY <1>5, <1>7, DialogTyped DEF DialogOk
<1> QED BY <1>1, <1>3, <1>4, <1>7, <1>8, <1>9, <1>10, <1>11, <1>12, <1>13 DEF IvaInv, Joint

(* Every step of the desk, the network and the cameras preserves it.       *)
LEMMA IvaSteps == IvaInv /\ [IvaNext]_ivaVars => IvaInv'
<1> SUFFICES ASSUME IvaInv, [IvaNext]_ivaVars PROVE IvaInv'
  OBVIOUS
<1>1. ASSUME RefreshTimer \/ Edit \/ DiscardDraft PROVE IvaInv'
  BY <1>1, RefreshTimerKeeps, EditKeeps, DiscardDraftKeeps
<1>2. ASSUME AskSave \/ AskDelete \/ ConfirmSave \/ ConfirmDelete \/ RejectDialog PROVE IvaInv'
  BY <1>2, AskSaveKeeps, AskDeleteKeeps, ConfirmSaveKeeps, ConfirmDeleteKeeps, RejectDialogKeeps
<1>3. ASSUME Return \/ LeaveClean \/ LeaveDirty PROVE IvaInv'
  BY <1>3, ReturnKeeps, LeaveCleanKeeps, LeaveDirtyKeeps
<1>4. ASSUME Close \/ SaveFirst \/ DiscardFirst PROVE IvaInv'
  BY <1>4, CloseKeeps, SaveFirstKeeps, DiscardFirstKeeps
<1>5. ASSUME NEW c \in Cameras, SaveCredentials(c) PROVE IvaInv'
  BY <1>5, SaveCredentialsKeeps
<1>6. ASSUME Answer \/ Fail \/ VerificationTimer PROVE IvaInv'
  BY <1>6, AnswerKeeps, FailKeeps, VerificationTimerKeeps
<1>7. ASSUME Serve \/ Elsewhere PROVE IvaInv'
  BY <1>7, ServeKeeps, ElsewhereKeeps
<1>8. ASSUME UNCHANGED ivaVars PROVE IvaInv'
  BY <1>8, PageNow, InvPrimed DEF ivaVars
<1> QED BY <1>1, <1>2, <1>3, <1>4, <1>5, <1>6, <1>7, <1>8 DEF IvaNext

(* The inductive invariant holds in every state of IvaSpec.                *)
THEOREM IvaInvariant == IvaSpec => []IvaInv
<1> QED BY IvaInitially, IvaSteps, PTL DEF IvaSpec

(* The page, the window and the client agree on what is loaded, under way  *)
(* and unsaved: what the page shows is what a save is compared with, every *)
(* step of a save has its update, a page that says it is saving or loading *)
(* has a client at work, and no edits are left behind by leaving the page. *)
THEOREM IvaIsConsistent == IvaSpec => []IvaConsistent
<1>1. IvaInv => IvaConsistent
  <2> SUFFICES ASSUME IvaInv PROVE IvaConsistent
    OBVIOUS
  <2>1. client \in ClientType
    BY PageNow DEF Clients, ClientType, Requests
  <2>2. IvaTypeOK
    BY <2>1, PageNow DEF IvaTypeOK, Joint, RequestOk
  <2>3. PageShowsBaseline
    BY PageNow DEF PageShowsBaseline, Joint, ShownOk, Updating
  <2>4. StepsHaveUpdate
    BY PageNow DEF StepsHaveUpdate, Joint, UpdateOk
  <2>5. PageWaitsForClient
    BY PageNow DEF PageWaitsForClient, Joint, WaitsOk
  <2>6. EditsDoNotLeavePage
    BY PageNow DEF EditsDoNotLeavePage, EditsOk
  <2> QED BY <2>2, <2>3, <2>4, <2>5, <2>6 DEF IvaConsistent
<1> QED BY <1>1, IvaInvariant, PTL

(* What is sent to a camera is what the operator asked for last, and goes  *)
(* to the camera its baseline was loaded from.                             *)
THEOREM WritesAreAsked == IvaSpec => []WritesWhatWasAsked
<1>1. IvaInv => WritesWhatWasAsked
  <2> SUFFICES ASSUME IvaInv PROVE WritesWhatWasAsked
    OBVIOUS
  <2>1. UpdateOk(client, dropped) /\ AskedOk(client, asked, dropped) /\ RequestOk(client)
    BY PageNow DEF Joint
  <2>2. client.request.kind = "put"
           => asked.what = "save" /\ asked.config = client.update.intended
    BY <2>1 DEF UpdateOk, AskedOk, Updating
  <2>3. SendsDelete /\ ~dropped => asked.what = "delete" /\ asked.area = client.update.deleted
    BY <2>1 DEF SendsDelete, UpdateOk, AskedOk, Updating
  <2>4. client.request.kind \in {"put", "delete"} => client.request.to = client.update.from
    BY <2>1 DEF UpdateOk, RequestOk, Updating, NoRequest
  <2> QED BY <2>2, <2>3, <2>4 DEF WritesWhatWasAsked
<1> QED BY <1>1, IvaInvariant, PTL

-----------------------------------------------------------------------------
(* The action property.                                                    *)

(* No write of edits is new.                                               *)
NoNewWrite(m, k) == m.request.kind \in {"put", "delete"} => k.request.kind \in {"put", "delete"}

(* What a step of the client ends with is what it goes on with.            *)
LEMMA FollowedRequest ==
  ASSUME NEW k, k \in Clients, NEW u, NEW a, NEW d, Follow(k, u, a, d)
  PROVE  client'.request = k.request
<1>1. client' = [k EXCEPT !.out = << >>]
  BY DEF Follow
<1> QED BY <1>1 DEF Clients

(* A request that is not a write of edits.                                 *)
LEMMA StartsOtherwise ==
  ASSUME NEW k \in Clients, NEW kind \in Kinds, kind \notin {"put", "delete"}, NEW old
  PROVE  Start(k, kind) \in Clients /\ NoNewWrite(Start(k, kind), old)
<1>1. /\ Start(k, kind) \in Clients
      /\ Start(k, kind).request = [kind |-> kind, to |-> k.conn, done |-> FALSE, read |-> None]
  BY Starts
<1>2. Start(k, kind).request.kind = kind
  BY <1>1
<1> QED BY <1>1, <1>2 DEF NoNewWrite

(* A refresh asks for the options, if for anything.                        *)
LEMMA FetchWritesNothing ==
  ASSUME NEW k \in Clients
  PROVE  Fetch(k) \in Clients /\ NoNewWrite(Fetch(k), k)
<1>1. CASE Busy(k)
  <2>1. Fetch(k) = Emit(k, [what |-> "requestFailed"]) /\ [what |-> "requestFailed"] \in Signal
    BY <1>1, SignalTyped DEF Fetch
  <2> QED BY <2>1, Emits DEF SameWork, NoNewWrite
<1>2. CASE ~Busy(k)
  <2>1. Fetch(k) = Start(k, "options") /\ "options" \in Kinds
    BY <1>2 DEF Fetch, Kinds, Fetching
  <2> QED BY <2>1, StartsOtherwise
<1> QED BY <1>1, <1>2

(* A save that is refused sends nothing.                                   *)
LEMMA RefuseWritesNothing ==
  ASSUME NEW k \in Clients
  PROVE  Refuse(k) \in Clients /\ NoNewWrite(Refuse(k), k)
<1>1. /\ Refuse(k) = Emit(k, [what |-> "applyFailed", restored |-> FALSE])
      /\ [what |-> "applyFailed", restored |-> FALSE] \in Signal
  BY SignalTyped DEF Refuse
<1> QED BY <1>1, Emits DEF SameWork, NoNewWrite

(* A save begins by asking the camera.                                     *)
LEMMA BeginWritesNothing ==
  ASSUME NEW k \in Clients, NEW p \in UpdateType
  PROVE  BeginUpdate(k, p) \in Clients /\ NoNewWrite(BeginUpdate(k, p), k)
<1>1. CASE Busy(k)
  BY <1>1, RefuseWritesNothing DEF BeginUpdate
<1>2. CASE ~Busy(k)
  <2> DEFINE n == [k EXCEPT !.update = p]
             e == Emit(n, [what |-> "applyStarted"])
  <2>1. n \in Clients /\ [what |-> "applyStarted"] \in Signal
    BY SignalTyped DEF Clients
  <2> HIDE DEF n
  <2>2. e \in Clients /\ "preflight" \in Kinds
    BY <2>1, Emits DEF Kinds
  <2>3. BeginUpdate(k, p) = Start(e, "preflight")
    BY <1>2 DEF BeginUpdate, n
  <2> HIDE DEF e
  <2> QED BY <2>2, <2>3, StartsOtherwise
<1> QED BY <1>1, <1>2

(* A page that refreshes sends no write.                                   *)
LEMMA RefreshWritesNothing ==
  ASSUME IvaInv, NEW w, StartRefresh(w)
  PROVE  NoNewWrite(client', client)
<1>1. Fetch(client) \in Clients /\ NoNewWrite(Fetch(client), client)
  BY PageNow, FetchWritesNothing
<1>2. client'.request = Fetch(client).request
  BY <1>1, FollowedRequest DEF StartRefresh, Become
<1> QED BY <1>1, <1>2 DEF NoNewWrite

(* So does a page that is shown.                                           *)
LEMMA ShownWritesNothing ==
  ASSUME IvaInv, NEW w, Shown(w)
  PROVE  NoNewWrite(client', client)
<1>1. CASE StartRefresh(w)
  BY <1>1, RefreshWritesNothing
<1>2. CASE Become(client, w)
  <2>1. client'.request = client.request
    BY <1>2, PageNow, FollowedRequest DEF Become
  <2> QED BY <2>1 DEF NoNewWrite
<1> QED BY <1>1, <1>2 DEF Shown

(* A save of edits begins with its check.                                  *)
LEMMA SaveWritesNothing ==
  ASSUME IvaInv, NEW u \in UiType, u.config = ui.config, NEW i \in Areas, NEW x \in Values,
         NEW closing, SaveEdit(u, i, x, closing)
  PROVE  NoNewWrite(client', client)
<1> DEFINE cfg == Edited(u, i, x)
           k == ApplyConfiguration(client, cfg)
<1>1. cfg \in Configs \cup {None}
  <2>1. CASE u.config = None
    BY <2>1 DEF Edited
  <2>2. CASE u.config # None
    <3>1. cfg = [u.config EXCEPT ![i] = x] /\ u.config \in Configs
      BY <2>2 DEF Edited, UiType
    <3> QED BY <3>1 DEF Configs
  <2> QED BY <2>1, <2>2
<1> HIDE DEF cfg
<1>2. k \in Clients /\ NoNewWrite(k, client)
  <2> DEFINE p == [client.update EXCEPT !.from = client.conn, !.baseline = client.last,
                                        !.intended = cfg]
  <2>1. k \in {Refuse(client), BeginUpdate(client, p)}
    BY DEF ApplyConfiguration
  <2>2. client.update \in UpdateType /\ client.conn \in Cameras
        /\ client.last \in Configs \cup {None}
    BY PageNow DEF Clients
  <2>3. p \in UpdateType
    BY <1>1, <2>2 DEF UpdateType
  <2> HIDE DEF p, k
  <2> QED BY <2>1, <2>3, PageNow, RefuseWritesNothing, BeginWritesNothing
<1>3. client'.request = k.request
  <2>1. Follow(k, [Heard([u EXCEPT !.saving = TRUE], k) EXCEPT !.closeAfter = @ \/ closing],
               [what |-> "save", area |-> None, config |-> cfg], dropped)
    BY DEF SaveEdit, cfg
  <2> HIDE DEF k
  <2> QED BY <1>2, <2>1, FollowedRequest
<1> QED BY <1>2, <1>3 DEF NoNewWrite

(* So does a deletion.                                                     *)
LEMMA DeleteWritesNothing == ASSUME IvaInv, ConfirmDelete PROVE NoNewWrite(client', client)
<1> DEFINE i == ui.dialog.area
           k == DeleteArea(client, i)
<1>1. k \in Clients /\ NoNewWrite(k, client)
  <2> DEFINE p == [client.update EXCEPT !.from = client.conn, !.baseline = client.last,
                                        !.intended = [client.last EXCEPT ![i] = None],
                                        !.deleted = i]
  <2>1. CASE ~Loaded(client) \/ client.last[i] = None
    <3>1. k = Refuse(client)
      BY <2>1 DEF DeleteArea
    <3> QED BY <3>1, PageNow, RefuseWritesNothing
  <2>2. CASE Loaded(client) /\ client.last[i] # None
    <3>1. k = BeginUpdate(client, p)
      BY <2>2 DEF DeleteArea
    <3>2. client.update \in UpdateType /\ client.conn \in Cameras /\ client.last \in Configs
      <4>1. "configuration" \in client.has
        BY <2>2 DEF Loaded, Fetching
      <4>2. client.last # None
        BY <4>1, PageNow DEF Joint, ShownOk
      <4> QED BY <4>2, PageNow DEF Clients
    <3>3. i \in Areas
      BY PageNow DEF DialogOk, ConfirmDelete
    <3>4. [client.last EXCEPT ![i] = None] \in Configs
      BY <3>2 DEF Configs
    <3>5. p \in UpdateType
      BY <3>2, <3>3, <3>4 DEF UpdateType
    <3> HIDE DEF p, k
    <3> QED BY <3>1, <3>5, PageNow, BeginWritesNothing
  <2> QED BY <2>1, <2>2
<1>2. Follow(k, Heard([ui EXCEPT !.dialog = NoDialog], k),
             [what |-> "delete", area |-> i, config |-> None], dropped)
  BY DEF ConfirmDelete
<1> HIDE DEF k
<1>3. client'.request = k.request
  BY <1>1, <1>2, FollowedRequest
<1> QED BY <1>1, <1>3 DEF NoNewWrite

(* A new connection sends no write.                                        *)
LEMMA ConnectWritesNothing ==
  ASSUME IvaInv, NEW c \in Cameras, SaveCredentials(c)
  PROVE  NoNewWrite(client', client)
<1> DEFINE n == IF Busy(client) THEN Cancel(client) ELSE client
           t == [n EXCEPT !.conn = c, !.has = {}]
           k == Fetch(t)
<1>1. Follow(k, Heard(ResetCamera(ui, c = client.conn), k), asked, dropped \/ Drops)
  BY DEF SaveCredentials, SetConnectionOptions
<1>2. n \in Clients /\ n.request = NoRequest
  <2>1. CASE Busy(client)
    <3>1. client \in Clients /\ client.out = <<>> /\ RequestOk(client)
      BY PageNow DEF Joint
    <3> QED BY <2>1, <3>1, CancelsSomehow
  <2>2. CASE ~Busy(client)
    BY <2>2, PageNow DEF Busy
  <2> QED BY <2>1, <2>2
<1> HIDE DEF n
<1>3. t \in Clients /\ SameWork(t, n)
  BY <1>2, Connects
<1> HIDE DEF t
<1>4. k \in Clients /\ NoNewWrite(k, t)
  BY <1>3, FetchWritesNothing
<1> HIDE DEF k
<1>5. client'.request = k.request
  BY <1>1, <1>4, FollowedRequest
<1> QED BY <1>2, <1>3, <1>4, <1>5 DEF NoNewWrite, SameWork, NoRequest

(* A failure leaves no request.                                            *)
LEMMA FailWritesNothing == ASSUME IvaInv, Fail PROVE NoNewWrite(client', client)
<1> DEFINE f == Finished(client)
           m == Failed(f, client.request.kind)
<1>1. client.request # NoRequest /\ Follow(m, Heard(ui, m), asked, dropped)
  BY DEF Fail, Become
<1>2. f \in Clients /\ f.request = NoRequest /\ f.out = <<>> /\ client.request.kind \in Kinds
  BY <1>1, PageNow, FinishesNow
<1> HIDE DEF f
<1>3. m \in Clients /\ m.request = NoRequest
  BY <1>2, FailsSomehow
<1> HIDE DEF m
<1>4. client'.request = m.request
  BY <1>1, <1>3, FollowedRequest
<1> QED BY <1>3, <1>4 DEF NoNewWrite, NoRequest

(* The timer sends a read.                                                 *)
LEMMA TimerWritesNothing == ASSUME IvaInv, VerificationTimer PROVE NoNewWrite(client', client)
<1> DEFINE n == [client EXCEPT !.waiting = "none"]
           m == Start(n, client.waiting)
<1>1. client.waiting # "none" /\ Follow(m, Heard(ui, m), asked, dropped)
  BY DEF VerificationTimer, Become
<1>2. client.waiting \in Verifying /\ client.waiting \in Kinds /\ n \in Clients
  BY <1>1, PageNow DEF Clients, Kinds
<1> HIDE DEF n
<1>3. /\ m \in Clients
      /\ m.request = [kind |-> client.waiting, to |-> n.conn, done |-> FALSE, read |-> None]
  BY <1>2, Starts
<1> HIDE DEF m
<1>4. client'.request = m.request
  BY <1>1, <1>3, FollowedRequest
<1> QED BY <1>2, <1>3, <1>4 DEF NoNewWrite, Verifying

(* A request that is served stays what it was.                             *)
LEMMA ServeWritesNothing == ASSUME IvaInv, Serve PROVE NoNewWrite(client', client)
<1>1. client.request.kind # "none" /\ client.request # NoRequest
      /\ \/ client' = [client EXCEPT !.request.done = TRUE]
         \/ client' = [client EXCEPT !.request.done = TRUE,
                                     !.request.read = camera[client.request.to]]
  BY DEF Serve, ServeRead, ServeWrite, NoRequest, Verifying, Writing
<1>2. client.request \in [kind : Kinds, to : Cameras, done : BOOLEAN, read : Configs \cup {None}]
  BY <1>1, PageNow DEF Clients, Requests
<1>3. ASSUME NEW r PROVE [client.request EXCEPT !.done = TRUE, !.read = r].kind = client.request.kind
  BY <1>2
<1>4. [client.request EXCEPT !.done = TRUE].kind = client.request.kind
  BY <1>2
<1>5. client'.request.kind = client.request.kind
  <2>1. CASE client' = [client EXCEPT !.request.done = TRUE]
    <3>1. client'.request = [client.request EXCEPT !.done = TRUE]
      BY <2>1, PageNow DEF Clients
    <3> QED BY <1>4, <3>1
  <2>2. CASE client' = [client EXCEPT !.request.done = TRUE,
                                      !.request.read = camera[client.request.to]]
    <3>1. client'.request = [client.request EXCEPT !.done = TRUE, !.read = camera[client.request.to]]
      BY <2>2, PageNow DEF Clients
    <3> QED BY <1>3, <3>1
  <2> QED BY <1>1, <2>1, <2>2
<1> QED BY <1>5 DEF NoNewWrite

(* A save that ends leaves no request.                                     *)
LEMMA EndsIdle ==
  ASSUME NEW f \in Clients, f.out = <<>>, NEW read \in Configs
  PROVE  /\ \A b \in BOOLEAN : LET m == GiveUp(Received(f, read), b) IN
              m \in Clients /\ m.request = f.request
         /\ LET m == Emit(Received([f EXCEPT !.update = NoUpdate], read),
                          [what |-> "applySucceeded", read |-> read]) IN
            m \in Clients /\ m.request = f.request
<1>1. ASSUME NEW b \in BOOLEAN
      PROVE  /\ GiveUp(Received(f, read), b) \in Clients
             /\ GiveUp(Received(f, read), b).request = f.request
  <2> DEFINE m == GiveUp(Received(f, read), b)
  <2>1. m \in Clients /\ SameWork(m, f)
    BY LearnsAndGivesUp
  <2> HIDE DEF m
  <2>2. m \in Clients /\ m.request = f.request
    BY <2>1 DEF SameWork
  <2> QED BY <2>2 DEF m
<1>2. LET m == Emit(Received([f EXCEPT !.update = NoUpdate], read),
                    [what |-> "applySucceeded", read |-> read]) IN
      m \in Clients /\ m.request = f.request
  <2> DEFINE m == Emit(Received([f EXCEPT !.update = NoUpdate], read),
                       [what |-> "applySucceeded", read |-> read])
  <2>1. m \in Clients /\ SameWork(m, f)
    BY LearnsAndSucceeds
  <2> HIDE DEF m
  <2>2. m \in Clients /\ m.request = f.request
    BY <2>1 DEF SameWork
  <2> QED BY <2>2 DEF m
<1> QED BY <1>1, <1>2

(* An answer starts a write of edits only when the camera holds what the   *)
(* page shows.                                                             *)
LEMMA AnswerChecks ==
  ASSUME IvaInv, Answer, client'.request.kind \in {"put", "delete"}
  PROVE  client.request.kind = "preflight" /\ client.request.read = ui.config
<1> DEFINE f == Finished(client)
           kind == client.request.kind
           read == client.request.read
           m == Succeeded(f, kind, read)
<1>1. client.request # NoRequest /\ Answerable(client) /\ Follow(m, Heard(ui, m), asked, dropped)
  BY DEF Answer, Become
<1>2. /\ f \in Clients /\ f.request = NoRequest /\ f.out = <<>> /\ f.update = client.update
      /\ kind \in Kinds
  BY <1>1, PageNow, FinishesNow
<1>3. kind = "preflight" => client.update.baseline = ui.config
  BY PageNow DEF Joint, ShownOk, Updating
<1>4. kind \in {"configuration", "preflight"} \cup Verifying => read \in Configs
  BY <1>1, PageNow DEF Joint, RequestOk, Answerable, Reading, Verifying
<1> HIDE DEF f
<1>5. ASSUME m \in Clients, ~(m.request.kind \in {"put", "delete"}) PROVE FALSE
  <2> HIDE DEF m
  <2>1. client'.request = m.request
    BY <1>1, <1>5, FollowedRequest
  <2> QED BY <1>5, <2>1
<1>6. ASSUME m \in Clients, m.request = NoRequest PROVE FALSE
  BY <1>5, <1>6 DEF NoRequest
<1>7. ASSUME NEW n \in Clients, NEW next \in Kinds, next \notin {"put", "delete"}, m = Start(n, next)
      PROVE  FALSE
  <2>1. m \in Clients /\ NoNewWrite(m, f)
    BY <1>7, StartsOtherwise
  <2> QED BY <1>2, <1>5, <2>1 DEF NoNewWrite, NoRequest
<1>8. CASE kind = "options"
  <2> DEFINE n == [f EXCEPT !.has = f.has \cup {"options"}]
  <2>1. n \in Clients /\ m = Start(n, "capabilities")
    BY <1>2, <1>8 DEF Succeeded, Clients, Fetching
  <2> QED BY <1>7, <2>1 DEF Kinds, Fetching
<1>9. CASE kind = "capabilities"
  <2> DEFINE n == [f EXCEPT !.has = f.has \cup {"capabilities"}]
             e == Emit(n, [what |-> "capabilitiesReceived"])
  <2>1. n \in Clients /\ [what |-> "capabilitiesReceived"] \in Signal
    BY <1>2, SignalTyped DEF Clients, Fetching
  <2>2. m = Start(e, "configuration")
    BY <1>9 DEF Succeeded
  <2> HIDE DEF n
  <2>3. e \in Clients
    BY <2>1, Emits
  <2> QED BY <1>7, <2>2, <2>3 DEF Kinds, Fetching
<1>10. CASE kind = "configuration"
  <2>1. m = Received(f, read) /\ read \in Configs
    BY <1>4, <1>10 DEF Succeeded
  <2> HIDE DEF m, read
  <2>2. m \in Clients /\ m.request = f.request
    BY <1>2, <2>1, Receives DEF SameWork
  <2> QED BY <1>2, <1>6, <2>2
<1>11. CASE kind = "preflight"
  <2>1. m = Checked(f, read) /\ read \in Configs
    BY <1>4, <1>11 DEF Succeeded, Fetching
  <2>2. CASE read # f.update.baseline
    <3>1. m = GiveUp(Received(f, read), FALSE)
      BY <2>1, <2>2 DEF Checked
    <3> HIDE DEF m, read
    <3>2. m \in Clients /\ m.request = f.request
      BY <1>2, <2>1, <3>1, EndsIdle
    <3> QED BY <1>2, <1>6, <3>2
  <2>3. CASE read = f.update.baseline
    BY <1>2, <1>3, <1>11, <2>3
  <2> QED BY <2>2, <2>3
<1>12. CASE kind \in Writing
  <2> DEFINE next == IF kind = "putBack" THEN "verifyBack" ELSE "verify"
  <2>1. m = Schedule([f EXCEPT !.update.attempt = 0], next) /\ next \in Verifying
    BY <1>12 DEF Succeeded, Fetching, Writing, Verifying
  <2> HIDE DEF m, next
  <2>2. m \in Clients /\ m.request = f.request
    BY <1>2, <2>1, SchedulesFirst
  <2> QED BY <1>2, <1>6, <2>2
<1>13. ASSUME NEW next \in Verifying, f.update.attempt < 3, m = Schedule(f, next) PROVE FALSE
  <2>1. m \in Clients /\ m.request = f.request
    BY <1>2, <1>13, Schedules
  <2> QED BY <1>2, <1>6, <2>1
<1>14. CASE kind = "verify"
  <2>1. m = Verified(f, read) /\ read \in Configs
    BY <1>4, <1>14 DEF Succeeded, Fetching, Verifying
  <2>2. CASE read = f.update.intended
    <3>1. m = Emit(Received([f EXCEPT !.update = NoUpdate], read),
                   [what |-> "applySucceeded", read |-> read])
      BY <2>1, <2>2 DEF Verified
    <3> HIDE DEF m, read
    <3>2. m \in Clients /\ m.request = f.request
      BY <1>2, <2>1, <3>1, EndsIdle
    <3> QED BY <1>2, <1>6, <3>2
  <2>3. CASE read # f.update.intended /\ f.update.attempt < 3
    <3>1. m = Schedule(f, "verify")
      BY <2>1, <2>3 DEF Verified
    <3> QED BY <1>13, <2>3, <3>1 DEF Verifying
  <2>4. CASE read # f.update.intended /\ ~(f.update.attempt < 3)
    <3>1. m = Start(f, "putBack")
      BY <2>1, <2>4 DEF Verified
    <3> QED BY <1>2, <1>7, <3>1 DEF Kinds, Writing
  <2> QED BY <2>2, <2>3, <2>4
<1>15. CASE kind = "verifyBack"
  <2>1. m = VerifiedBack(f, read) /\ read \in Configs
    BY <1>4, <1>15 DEF Succeeded, Fetching, Verifying
  <2>2. CASE read = f.update.baseline
    <3>1. m = GiveUp(Received(f, read), TRUE)
      BY <2>1, <2>2 DEF VerifiedBack
    <3> HIDE DEF m, read
    <3>2. m \in Clients /\ m.request = f.request
      BY <1>2, <2>1, <3>1, EndsIdle
    <3> QED BY <1>2, <1>6, <3>2
  <2>3. CASE read # f.update.baseline /\ f.update.attempt < 3
    <3>1. m = Schedule(f, "verifyBack")
      BY <2>1, <2>3 DEF VerifiedBack
    <3> QED BY <1>13, <2>3, <3>1 DEF Verifying
  <2>4. CASE read # f.update.baseline /\ ~(f.update.attempt < 3)
    <3>1. m = GiveUp(f, FALSE)
      BY <2>1, <2>4 DEF VerifiedBack
    <3>2. m \in Clients /\ m.request = f.request
      BY <1>2, <3>1, GivesUp DEF SameWork
    <3> QED BY <1>2, <1>6, <3>2
  <2> QED BY <2>2, <2>3, <2>4
<1> QED BY <1>2, <1>8, <1>9, <1>10, <1>11, <1>12, <1>14, <1>15 DEF Kinds, Fetching, Writing, Verifying

(* Every step checks before it writes.                                     *)
LEMMA StepsCheck == IvaInv /\ [IvaNext]_ivaVars => [ChecksBeforeWriting]_ivaVars
<1> SUFFICES ASSUME IvaInv, IvaNext \/ UNCHANGED ivaVars PROVE ChecksBeforeWriting
  OBVIOUS
<1>1. ASSUME NoNewWrite(client', client) PROVE ChecksBeforeWriting
  BY <1>1 DEF NoNewWrite, ChecksBeforeWriting
<1>2. ASSUME client' = client PROVE ChecksBeforeWriting
  BY <1>2 DEF ChecksBeforeWriting
<1>3. ASSUME Edit \/ DiscardDraft \/ RejectDialog \/ LeaveClean \/ Close \/ DiscardFirst
             \/ Elsewhere \/ UNCHANGED ivaVars
      PROVE  client' = client
  BY <1>3 DEF Edit, DiscardDraft, RejectDialog, LeaveClean, Close, DiscardFirst, Elsewhere,
              EditCamera, ivaVars
<1>4. ASSUME AskSave \/ AskDelete PROVE client' = client
  BY <1>4 DEF AskSave, AskDelete, Ask
<1>5. ASSUME RefreshTimer PROVE NoNewWrite(client', client)
  <2>1. StartRefresh(ui)
    BY <1>5 DEF RefreshTimer
  <2> QED BY <2>1, RefreshWritesNothing
<1>6. ASSUME Return PROVE NoNewWrite(client', client)
  <2>1. Shown([ui EXCEPT !.away = FALSE])
    BY <1>6 DEF Return
  <2> QED BY <2>1, ShownWritesNothing
<1>7. ASSUME LeaveDirty PROVE client' = client \/ NoNewWrite(client', client)
  <2>1. client' = client \/ Shown([ui EXCEPT !.target = FALSE])
    BY <1>7 DEF LeaveDirty
  <2> QED BY <2>1, ShownWritesNothing
<1>8. ASSUME ConfirmSave PROVE NoNewWrite(client', client)
  <2> DEFINE u == [ui EXCEPT !.dialog = NoDialog]
  <2>1. SaveEdit(u, ui.dialog.area, ui.dialog.value, FALSE)
    BY <1>8 DEF ConfirmSave
  <2>2. ui.dialog.area \in Areas /\ ui.dialog.value \in Values
    BY <1>8, PageNow DEF ConfirmSave, DialogOk
  <2>3. u \in UiType /\ u.config = ui.config
    BY PageNow, DialogTyped DEF UiType
  <2> HIDE DEF u
  <2> QED BY <2>1, <2>2, <2>3, SaveWritesNothing
<1>9. ASSUME SaveFirst PROVE NoNewWrite(client', client)
  <2> DEFINE u == [ui EXCEPT !.dialog = NoDialog, !.leaving = TRUE]
             closing == ui.dialog.what = "close"
  <2>1. PICK i \in Areas : \E x \in Values : SaveEdit(u, i, x, closing)
    BY <1>9 DEF SaveFirst
  <2>2. PICK x \in Values : SaveEdit(u, i, x, closing)
    BY <2>1
  <2>3. u \in UiType /\ u.config = ui.config
    BY PageNow, DialogTyped DEF UiType
  <2> HIDE DEF u, closing
  <2> QED BY <2>2, <2>3, SaveWritesNothing
<1>10. ASSUME Answer PROVE ChecksBeforeWriting
  BY <1>10, AnswerChecks DEF ChecksBeforeWriting
<1> QED BY <1>1, <1>2, <1>3, <1>4, <1>5, <1>6, <1>7, <1>8, <1>9, <1>10, DeleteWritesNothing,
           ConnectWritesNothing, FailWritesNothing, TimerWritesNothing, ServeWritesNothing
        DEF IvaNext

(* A write of edits follows only a check in which the camera answered what *)
(* the page shows at that moment: nobody's areas are overwritten unseen.   *)
THEOREM OnlyTheShownIsOverwritten == IvaSpec => OverwritesOnlyWhatIsShown
<1> QED BY IvaInvariant, StepsCheck, PTL DEF IvaSpec, OverwritesOnlyWhatIsShown
=============================================================================
