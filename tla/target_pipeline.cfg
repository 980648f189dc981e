SPECIFICATION Spec
CONSTANTS
  InputWidth = 8
  InputHeight = 8
  ImgWidth = 18
  ImgHeight = 10
  CropPixels = 2
  ConfThreshold = 2
  PixelSize <- MCPixelSize
  Degree = 7
  Directions <- MCDirections
  Unit = 12
  Flight <- MCFlight
  Streams = {"position", "heading"}
  NumParams = 1
  Sizes <- MCSizes
  Scenes <- MCScenes
  MaxPictures = 2
  Workers = {w1, w2}
SYMMETRY Symmetry
INVARIANTS
  TagIsOfOnePlace
  BoxesAreOfTheirPicture
  EachThingIsReportedOnce
  TargetsArePlaced
CHECK_DEADLOCK FALSE
