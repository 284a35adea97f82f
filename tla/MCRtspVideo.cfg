CONSTANTS
  Sources = {"cam1", "cam2"}
  MaxGen = 3
  MaxFrames = 2
SPECIFICATION RtspSpec
INVARIANTS
    VideoConsistent
    FrameIsOfSource
    NoFrameIsStuck
PROPERTIES
    KeepsTrying
CHECK_DEADLOCK FALSE
