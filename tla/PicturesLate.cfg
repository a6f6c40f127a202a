CONSTANTS
  Player = {1}
  Session = {"upload"}
  Kind = {"flag"}
  File = {"x"}
  Raw <- Photos
  Target <- Flags
  MaxPixels = 6
  MaxSide = 3
  MaxFiled = 1
  MaxUploads = 1
  MaxActs = 0
SPECIFICATION Spec
PROPERTY PendingPicturesStand
CHECK_DEADLOCK FALSE
