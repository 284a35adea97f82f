---------------------------- MODULE MCSlotBoard ----------------------------
\* Two slots and a sensor without a mapping. The first slot gets every kind of
\* event; ids let the same event arrive again before and after its opposite.
EXTENDS SlotBoard
CONSTANTS p1, p2, e1, e2, e3, e4, e5, e6

Event(i, s, onState, type, parking, alarm, alarmState) ==
    [id |-> i, slot |-> s, onState |-> onState, type |-> type,
     parking |-> parking, alarm |-> alarm, alarmState |-> alarmState]

MCEvents ==
    { Event(e1, p1, FALSE, "NON_EV_ALERT", "Occupied", "", ""),
      Event(e2, p1, FALSE, "HALL_SENSOR_ERROR", "", "", "OPEN"),
      Event(e3, p1, FALSE, "HALL_SENSOR_CLEAR", "", "", "CLEARED"),
      Event(e4, p1, TRUE, "SLOT_OCCUPIED", "Occupied", "None", "NONE"),
      Event(e5, p1, FALSE, "SLOT_VACATED", "Vacant", "", ""),
      Event(e6, p1, FALSE, "OCR_COMPLETED", "", "", ""),
      Event(e2, None, FALSE, "HALL_SENSOR_ERROR", "", "", "OPEN") }

MCReports ==
    { [text |-> "Vacant", alarm |-> "None"], [text |-> "Occupied", alarm |-> "None"],
      [text |-> "Occupied", alarm |-> "NonEv"], [text |-> "Sensor", alarm |-> "None"],
      [text |-> "Acked", alarm |-> "None"] }
=============================================================================
