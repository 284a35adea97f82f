---------------------------- MODULE MCMapSession ----------------------------
(***************************************************************************)
(* MapSession on files of older versions and files edited by hand, with two*)
(* cameras in the overview of at most two slots.                           *)
(***************************************************************************)
EXTENDS MapSession
Entry(id, ch, order, area, rect) ==
  [id |-> id, ch |-> ch, order |-> order, area |-> area, rect |-> rect]
Text(entries) ==
  [kind |-> "text", entries |-> entries,
   overview |-> [c \in Cameras |-> [role |-> "PARKING", slots |-> c + 7]]]
(* Files of older versions and files edited by hand: entries without an    *)
(* order, without an area, of a corridor, with coordinates of their own.   *)
MCRects == {CornerRect, FixedRect("CH1"), [panel |-> "CH2", inside |-> TRUE]}
MCEntries ==
  {Entry(<<"EV", 1>>, ch, 1, area, CornerRect) :
     ch \in {"CH1", "CH2", "CH3"}, area \in {0, 1}}
    \cup {Entry(<<"EV", 1>>, ch, 5, area, rect) :
            ch \in {"CH1", "CH2", "CH3"}, area \in {0, 1}, rect \in MCRects}
MCSeconds ==
  {Entry(id, "CH1", 0, 1, CornerRect) : id \in {NoId, <<"EV", 1>>, <<"P", 1>>}}
    \cup {Entry(<<"P", 1>>, ch, 0, 0, CornerRect) : ch \in {"CH1", "CH3"}}
(* Five old entries of one channel: the fifth has no slot and no area.     *)
MCCrowd == [i \in 1..5 |-> Entry(IF i = 5 THEN <<"X", 1>> ELSE <<"P", i>>,
                                 "CH3", 0, 0, CornerRect)]
MCFound ==
  {AbsentFile, BrokenFile, Text(<<>>), Text(MCCrowd)}
    \cup {Text(<<e>>) : e \in MCEntries}
    \cup {Text(<<e, f>>) : e \in MCEntries, f \in MCSeconds}
=============================================================================
