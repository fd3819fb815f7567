SPECIFICATION Spec
CONSTANTS
  Backend = {"yolov8", "yolov8_oiv7", "rt_detrv2"}
  InputSize = 16
  EmergencyClass <- MCEmergencyClass
  ConfThreshold <- MCConfThreshold
  NmsThreshold = 40
  FrameRows = 25
  FrameCols = 32
  RoiTop = 4
  RoiBottom = 24
  Palette <- MCPalette
  MaxAnchors = 2
CHECK_DEADLOCK FALSE
INVARIANTS
  FailureNotPublished
