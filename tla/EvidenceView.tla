---------------------------- MODULE EvidenceView ----------------------------
(***************************************************************************)
(* What EvidencePage (src/src/pages/evidencepage.cpp) shows and exports of *)
(* the images it caches: the timeline under its slot filter, the image     *)
(* card of the pair selected, loaded by the ImageLoader                    *)
(* (src/src/api/imageloader.cpp) that a new server address replaces,       *)
(* and the download of pairs.  Which images are cached, and when, is       *)
(* Evidence's: here they change at will.  The page has two cards that are  *)
(* filled alike, of the first and of the latest image of a pair: the model *)
(* has one, and one image in place of the two of a download.               *)
(***************************************************************************)
EXTENDS EvidenceSlots

CONSTANTS
    Lists,        \* the lists of images a slot may have, later ones greater
    LoadBound     \* bound of the model: loads of the card under way

ASSUME EvidenceViewConstants ==
    Lists \subseteq Nat \ {0} /\ LoadBound \in Nat

VARIABLES
    cache,    \* m_evidenceCacheState.slotImages: a list by slot, or 0
    filter,   \* the slot filter, or None for all slots
    sel,      \* the slot of the pair selected, or None
    card,     \* the image label: the image it is of, and the picture it shows
    loads,    \* requests of the loader for the card; m_requestTargets has those with
              \*   target, the label names the one with awaited
    loader,   \* m_imageLoader is not null
    dl        \* the download

viewVars == <<cache, filter, sel, card, loads, loader, dl>>

NoImage == <<None, 0>>
NoCard == [url |-> NoImage, pix |-> NoImage]
NoDownload == [on |-> FALSE, pending |-> {}, lost |-> FALSE]

ViewInit ==
    /\ cache = [s \in Slots |-> 0] /\ filter = None /\ sel = None
    /\ card = NoCard /\ loads = {} /\ loader = FALSE /\ dl = NoDownload

Shown(c, f) == {s \in Slots : c[s] # 0 /\ f \in {None, s}}

\* The last pair of the timeline, the first row of its table.
Newest(c, f) ==
    IF Shown(c, f) = {} THEN None
    ELSE CHOOSE s \in Shown(c, f) : \A t \in Shown(c, f) : c[t] <= c[s]

----------------------------------------------------------------------------
(* The card.                                                               *)

Unwaited(ls) == {[l EXCEPT !.awaited = FALSE] : l \in ls}
Untargeted(ls) == {[l EXCEPT !.target = FALSE] : l \in ls}

\* clearCaptureCard.
Clear(ls) == card' = NoCard /\ loads' = Unwaited(ls)

\* Mistake: a picture already loaded is kept, whatever it is of.
RenderSelectedKeeping(s, c, ls) ==
    /\ sel' = s
    /\ IF s = None THEN Clear(ls)
       ELSE IF card.pix # NoImage THEN card' = [card EXCEPT !.url = <<s, c[s]>>] /\ loads' = ls
       ELSE /\ card' = [NoCard EXCEPT !.url = <<s, c[s]>>]
            /\ loads' = IF loader THEN Unwaited(ls) \cup {[url |-> <<s, c[s]>>, target |-> TRUE, awaited |-> TRUE]}
                        ELSE Unwaited(ls)

\* renderSelectedCapture and renderCaptureCard.
RenderSelected(s, c, ls) ==
    /\ sel' = s
    /\ IF s = None THEN Clear(ls)
       ELSE IF card.pix # NoImage /\ card.url = <<s, c[s]>> THEN card' = card /\ loads' = ls
       ELSE /\ card' = [NoCard EXCEPT !.url = <<s, c[s]>>]
            /\ loads' = IF loader THEN Unwaited(ls) \cup {[url |-> <<s, c[s]>>, target |-> TRUE, awaited |-> TRUE]}
                        ELSE Unwaited(ls)

\* showLocalEvidenceSnapshot: the timeline anew, and the newest pair selected.
ShowTimeline(c, f) == RenderSelected(Newest(c, f), c, Untargeted(loads))

\* Evidence: a render or an answer with images that differ from those cached.
Cache(s, n) ==
    /\ n # cache[s]
    /\ cache' = [cache EXCEPT ![s] = n]
    /\ ShowTimeline(cache', filter)
    /\ UNCHANGED <<filter, loader, dl>>

\* The slot filter of the page.
FilterBy(f) ==
    /\ f # filter /\ filter' = f
    /\ ShowTimeline(cache, f)
    /\ UNCHANGED <<cache, loader, dl>>

\* currentCellChanged of the table.
SelectPair(s) ==
    /\ s \in Shown(cache, filter) /\ s # sel
    /\ RenderSelected(s, cache, loads)
    /\ UNCHANGED <<cache, filter, loader, dl>>

\* showError of the slot the page is on, and showEventError.
ShowError ==
    /\ Clear(loads)
    /\ UNCHANGED <<cache, filter, sel, loader, dl>>

----------------------------------------------------------------------------
(* The image loader.                                                       *)

\* setImageLoader, with the loader the controller has now.
SetImageLoader ==
    /\ ~loader /\ loader' = TRUE
    /\ UNCHANGED <<cache, filter, sel, card, loads, dl>>

\* rebuildApiClient deletes the loader with all it was loading.
RebuildPage ==
    /\ loader /\ loader' = FALSE
    /\ loads' = {}
    /\ dl' = [dl EXCEPT !.lost = dl.on]
    /\ UNCHANGED <<cache, filter, sel, card>>

\* Mistake: the label is not asked which request it waits for.
ShowImageOnAnyCard(l, image) ==
    card' = IF l.target THEN [card EXCEPT !.pix = image] ELSE card

\* imageLoaded and imageFailed: only for the request the card waits for.
ShowImage(l, image) ==
    card' = IF l.target /\ l.awaited THEN [card EXCEPT !.pix = image] ELSE card

ImageArrives ==
    /\ \E l \in loads : \E image \in {l.url, NoImage} : loads' = loads \ {l} /\ ShowImage(l, image)
    /\ UNCHANGED <<cache, filter, sel, loader, dl>>

----------------------------------------------------------------------------
(* The download.                                                           *)

\* downloadSelectedPairsTo.
Download(selected) ==
    /\ ~dl.on /\ loader
    /\ selected # {} /\ selected \subseteq Shown(cache, filter)
    /\ dl' = [on |-> TRUE, lost |-> FALSE, pending |-> selected]
    /\ UNCHANGED <<cache, filter, sel, card, loads, loader>>

\* Mistake: a failure that is the last answer does not end the download.
DownloadedForgetful(i, ok) ==
    dl' = IF dl.pending = {i} /\ ok THEN NoDownload ELSE [dl EXCEPT !.pending = @ \ {i}]

\* handleDownloadedImage, handleDownloadFailure and finishEvidenceDownload.
Downloaded(i, ok) ==
    dl' = IF dl.pending = {i} THEN NoDownload ELSE [dl EXCEPT !.pending = @ \ {i}]

DownloadArrives ==
    /\ dl.on /\ ~dl.lost
    /\ \E i \in dl.pending, ok \in BOOLEAN : Downloaded(i, ok)
    /\ UNCHANGED <<cache, filter, sel, card, loads, loader>>

----------------------------------------------------------------------------
ViewNext ==
    /\ \/ \E s \in Slots, n \in Lists : Cache(s, n)
       \/ \E f \in Slots \cup {None} : FilterBy(f)
       \/ \E s \in Slots : SelectPair(s)
       \/ ShowError
       \/ SetImageLoader
       \/ RebuildPage
       \/ ImageArrives
       \/ \E selected \in SUBSET Slots : Download(selected)
       \/ DownloadArrives
    /\ Cardinality(loads') <= LoadBound

ViewSpec == ViewInit /\ [][ViewNext]_viewVars /\ WF_viewVars(DownloadArrives)

----------------------------------------------------------------------------
(* What the page must show.                                                *)

\* Types; the pair selected is of the timeline, which has one when it has any.
ViewTypeOK ==
    /\ cache \in [Slots -> Lists \cup {0}] /\ filter \in Slots \cup {None}
    /\ sel = None <=> Shown(cache, filter) = {}
    /\ sel # None => sel \in Shown(cache, filter)
    /\ loader \in BOOLEAN /\ dl.pending \subseteq Slots
    /\ ~loader => loads = {}

\* The picture on the card is of the pair the operator has selected and of the images
\* cached for it now, however late it comes and whatever was asked for before
\* (renderCaptureCard, imageLoaded).
CardShowsItsPair == card.pix # NoImage => sel # None /\ card.pix = <<sel, cache[sel]>>

\* A picture is waited for by one request at most, and that one is for the card as it
\* is now: two answers can never both be taken (m_requestTargets, evidenceRequestId).
OneRequestForTheCard ==
    /\ Cardinality({l \in loads : l.target /\ l.awaited}) <= 1
    /\ \A l \in loads : l.target /\ l.awaited => l.url = card.url /\ card.pix = NoImage

\* These together, over a selection that the table shows.
ViewConsistent == ViewTypeOK /\ CardShowsItsPair /\ OneRequestForTheCard

\* A download ends, and the next one is possible, unless a new server address took
\* its loader away (finishEvidenceDownload): then m_downloadInProgress stays set.
DownloadsEnd == dl.on ~> (~dl.on \/ dl.lost)
=============================================================================
