------------------------------ MODULE MCRoiEditor ------------------------------
(* Two channels; both slots are mapped to the first one, and the camera has   *)
(* the area of only one of them, so the other one's can be drawn.  Three      *)
(* rectangles fit into the picture, one of them large enough in the preview.  *)
EXTENDS RoiEditor

FullPicture == [l |-> 0, t |-> 0, r |-> 3, b |-> 2]
MCMappings == <<[slot |-> "EV-01", channel |-> 1, index |-> 1],
                [slot |-> "P-01", channel |-> 1, index |-> 2]>>
MCLargeInPreview == {FullPicture}
MCFirstCamera ==
    << <<[channel |-> 1, index |-> 1, name |-> 1, rect |-> FullPicture]>>,
       << >> >>
=============================================================================
