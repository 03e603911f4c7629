SPECIFICATION Spec
CONSTANTS
  ListMax = 2
  NumLocations = 1
  Protected <- MCProtected
  Contents <- MCContents
  Missing = Missing
  NoDirectory = NoDirectory
  MaxEvents = 1
PROPERTIES
  LoadsEnd
