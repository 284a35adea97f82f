CONSTANTS
  Cameras = {2, 3}
  MaxSlots = 2
  IdWords = {"", "EV", "P", "X"}
  Found <- MCFound
SPECIFICATION MapSpec
INVARIANTS
    MapTypeOK
    CleanMeansStored
    WrittenIsSavable
PROPERTIES
    EndKeepsTheLayout
