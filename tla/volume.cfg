\* Directories, the FAT reader and the path functions.
SPECIFICATION Spec
CONSTANTS
  Characters <- MCCharacters
  MaxPath = 10
  ClusterSize = 2
  ChainEnd = 8
  SizeModulus = 64
  Images <- MCImages
  Descs = {0, 3}
  Junk = {3}
  JunkNames = {"g", "x"}
  Steps <- MCSteps
  FileNames <- MCFileNames
  Lengths = {1, 5, 6}
  MaxDirs = 2
  MaxCurrent = 6
  NULL = NULL
CONSTRAINT OnePartMoves
CHECK_DEADLOCK FALSE
INVARIANTS
  VolumeTypeOK
  DirectoriesList
  ReadsChain
  SimplifiesAsWalk
  RelativePathsLead
  OpensInCurrent
PROPERTIES
  LeavesRootByParent
