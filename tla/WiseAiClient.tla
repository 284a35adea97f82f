----------------------------- MODULE WiseAiClient -----------------------------
(***************************************************************************)
(* WiseAiConfigClient (src/src/iva/wiseaiconfigclient.cpp): reads and      *)
(* writes the IVA areas of one channel of the connected camera.  A save is *)
(* a conflict check, one write, up to three delayed reads that verify it,  *)
(* and, if they differ, a rollback to the last-good areas, verified the    *)
(* same way.  There is one request or one waiting timer at a time.         *)
(*                                                                         *)
(* A slot of the client is a function of its record, so that the handlers  *)
(* which call several slots in a row, and the page that hears their        *)
(* signals, can be composed from it.  Left out: TLS and credentials (a     *)
(* failing handshake is a failing request), payload formats, and the other *)
(* channels, which only a save of their own touches.                       *)
(***************************************************************************)
EXTENDS Naturals, Sequences

CONSTANTS
    Cameras,  \* cameras the operator may connect to
    Areas,    \* index of an area in the channel
    Values,   \* what an area can be defined as
    None      \* an index without area; no camera, no request

Configs == [Areas -> Values \cup {None}]

ASSUME ClientConstants == None \notin Cameras \cup Areas \cup Values \cup Configs

Fetching == {"options", "capabilities", "configuration"}
Writing == {"put", "delete", "putBack"}
Verifying == {"verify", "verifyBack"}
Kinds == Fetching \cup {"preflight"} \cup Writing \cup Verifying

VARIABLES
    camera,  \* the areas each camera holds
    client   \* the client's state, a record of
             \*   conn     the camera of m_options
             \*   has      m_hasOptions, m_hasCapabilities, m_hasConfiguration
             \*   last     m_lastConfiguration
             \*   request  m_pendingReply with m_requestKind: the camera asked,
             \*            whether it has served the request, and what it read
             \*   waiting  what the verification timer will read for
             \*   update   m_pendingUpdate
             \*   out      the signals emitted in this step and not yet heard

NoRequest == [kind |-> "none", to |-> None, done |-> FALSE, read |-> None]
NoUpdate == [from |-> None, baseline |-> None, intended |-> None, deleted |-> None, attempt |-> 0]

ClientInit ==
    /\ camera \in [Cameras -> Configs]
    /\ \E c \in Cameras :
          client = [conn |-> c, has |-> {}, last |-> None, request |-> NoRequest,
                    waiting |-> "none", update |-> NoUpdate, out |-> << >>]

Busy(k) == k.request # NoRequest \/ k.waiting # "none"

Emit(k, s) == [k EXCEPT !.out = Append(@, s)]
Start(k, kind) ==
    [k EXCEPT !.request = [kind |-> kind, to |-> k.conn, done |-> FALSE, read |-> None]]

\* scheduleVerification; the delays of 250, 750 and 1500 ms are any delay here.
Schedule(k, kind) == [k EXCEPT !.update.attempt = @ + 1, !.waiting = kind]

\* Mistake: the update is kept.
GiveUpKeepsUpdate(k, restored) == Emit(k, [what |-> "applyFailed", restored |-> restored])

\* finishApplyFailure.
GiveUp(k, restored) ==
    Emit([k EXCEPT !.update = NoUpdate], [what |-> "applyFailed", restored |-> restored])

Refuse(k) == Emit(k, [what |-> "applyFailed", restored |-> FALSE])

----------------------------------------------------------------------------
(* What the window asks for.                                               *)

Fetch(k) ==
    IF Busy(k) THEN Emit(k, [what |-> "requestFailed"]) ELSE Start(k, "options")

Loaded(k) == k.has = Fetching

BeginUpdate(k, u) ==
    IF Busy(k) THEN Refuse(k)
    ELSE Start(Emit([k EXCEPT !.update = u], [what |-> "applyStarted"]), "preflight")

\* applyChannelConfiguration leaves deletedAreaIndex and verificationAttempt of
\* the last update as they are.
ApplyConfiguration(k, cfg) ==
    IF ~Loaded(k) \/ cfg = k.last THEN Refuse(k)
    ELSE BeginUpdate(k, [k.update EXCEPT !.from = k.conn, !.baseline = k.last,
                                         !.intended = cfg])

DeleteArea(k, i) ==
    IF ~Loaded(k) THEN Refuse(k)
    ELSE IF k.last[i] = None THEN Refuse(k)
    ELSE BeginUpdate(k, [k.update EXCEPT !.from = k.conn, !.baseline = k.last,
                                         !.intended = [k.last EXCEPT ![i] = None],
                                         !.deleted = i])

----------------------------------------------------------------------------
(* What becomes of a request.                                              *)

\* processFailure: the outcome of a write is settled by reading.
Failed(k, kind) ==
    CASE kind \in Fetching -> Emit(k, [what |-> "requestFailed"])
      [] kind \in {"put", "delete"} -> Schedule([k EXCEPT !.update.attempt = 0], "verify")
      [] OTHER -> GiveUp(k, FALSE)

Learn(k, read) == [k EXCEPT !.has = @ \cup {"configuration"}, !.last = read]
Received(k, read) == Emit(Learn(k, read), [what |-> "configurationReceived", read |-> read])

\* Mistake: the reads that verify are not counted.
VerifiedForever(k, read) ==
    IF read = k.update.intended
    THEN Emit(Received([k EXCEPT !.update = NoUpdate], read),
              [what |-> "applySucceeded", read |-> read])
    ELSE [k EXCEPT !.waiting = "verify"]

\* A read that verifies the update.
Verified(k, read) ==
    IF read = k.update.intended
    THEN Emit(Received([k EXCEPT !.update = NoUpdate], read),
              [what |-> "applySucceeded", read |-> read])
    ELSE IF k.update.attempt < 3 THEN Schedule(k, "verify")
    ELSE Start(k, "putBack")

\* A read that verifies the rollback.
VerifiedBack(k, read) ==
    IF read = k.update.baseline THEN GiveUp(Received(k, read), TRUE)
    ELSE IF k.update.attempt < 3 THEN Schedule(k, "verifyBack")
    ELSE GiveUp(k, FALSE)

\* Mistake: what the camera says before the write is not compared.
CheckedBlindly(k, read) ==
    Start(k, IF k.update.deleted = None THEN "put" ELSE "delete")

\* The conflict check.
Checked(k, read) ==
    IF read # k.update.baseline THEN GiveUp(Received(k, read), FALSE)
    ELSE Start(k, IF k.update.deleted = None THEN "put" ELSE "delete")

\* processSuccess.
Succeeded(k, kind, read) ==
    CASE kind = "options" ->
            Start([k EXCEPT !.has = @ \cup {"options"}], "capabilities")
      [] kind = "capabilities" ->
            Start(Emit([k EXCEPT !.has = @ \cup {"capabilities"}],
                       [what |-> "capabilitiesReceived"]),
                  "configuration")
      [] kind = "configuration" -> Received(k, read)
      [] kind = "preflight" -> Checked(k, read)
      [] kind \in {"put", "delete"} -> Schedule([k EXCEPT !.update.attempt = 0], "verify")
      [] kind = "putBack" -> Schedule([k EXCEPT !.update.attempt = 0], "verifyBack")
      [] kind = "verify" -> Verified(k, read)
      [] kind = "verifyBack" -> VerifiedBack(k, read)

\* finishRequest forgets the reply before it looks at it.
Finished(k) == [k EXCEPT !.request = NoRequest]

\* cancel stops the timer, then aborts the reply, whose failure is handled at once.
Cancel(k) ==
    LET stopped == [k EXCEPT !.waiting = "none"] IN
    IF k.request = NoRequest THEN stopped ELSE Failed(Finished(stopped), k.request.kind)

SetConnectionOptions(k, c) ==
    [(IF Busy(k) THEN Cancel(k) ELSE k) EXCEPT !.conn = c, !.has = {}]

----------------------------------------------------------------------------
(* The camera.                                                             *)

\* What a write of the client carries.
Content(k) ==
    CASE k.request.kind = "put" -> k.update.intended
      [] k.request.kind = "delete" -> k.update.deleted
      [] k.request.kind = "putBack" -> k.update.baseline

\* The areas cfg after a write.
Written(cfg, kind, content) ==
    IF kind = "delete" THEN [cfg EXCEPT ![content] = None] ELSE content

\* The camera carries out the request in flight; its answer comes later.
ServeRead ==
    /\ client.request.kind \in {"configuration", "preflight"} \cup Verifying
    /\ ~client.request.done
    /\ client' = [client EXCEPT !.request.done = TRUE,
                                !.request.read = camera[client.request.to]]
    /\ UNCHANGED camera

ServeWrite ==
    /\ client.request.kind \in Writing /\ ~client.request.done
    /\ client' = [client EXCEPT !.request.done = TRUE]
    /\ camera' = [camera EXCEPT ![client.request.to] =
                     Written(@, client.request.kind, Content(client))]

\* The camera is edited by somebody else, in its web viewer, or carries out at
\* last a write that the client has given up.
EditCamera(c, cfg) ==
    /\ camera' = [camera EXCEPT ![c] = cfg]
    /\ UNCHANGED client

\* The answer may arrive: what it says of the options is not modelled.
Answerable(k) == k.request.kind \in {"options", "capabilities"} \/ k.request.done
=============================================================================
