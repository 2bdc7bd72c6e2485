SPECIFICATION FairSpec
CONSTANTS
  Runs = {r1, r2}
  Ids = {"first", "second", "bare"}
  Volumes = {"vol"}
  VolumeOf <- SharedVolume
  NoVolume = NoVolume
  NoSnapshot = NoSnapshot
  MaxChanges = 2
  MaxFaults = 1
PROPERTIES DeletesStaleOnly OrphansGo
