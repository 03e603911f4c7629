SPECIFICATION Spec
CONSTANTS
  ListMax = 2
  NumLocations = 2
  Protected <- MCProtected
  Contents <- MCContents
  Missing = Missing
  NoDirectory = NoDirectory
  MaxEvents = 2
INVARIANTS
  TypeOK
  ValuesFollowFiles
  NoLostEdit
PROPERTIES
  GetterSeesOneConfig
  EditsTakeEffect
