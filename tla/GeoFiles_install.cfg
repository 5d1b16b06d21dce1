SPECIFICATION GeoSpec
CONSTANTS
  None = None
  Dirs = {"default"}
  MaxEvents = 3
  MaxGeoFaults = 0
INVARIANT FreshFilesAreUsed
