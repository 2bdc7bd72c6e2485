SPECIFICATION FairSpec
CONSTANTS
  Runs = {r1}
  Ids = {"first", "second", "bare"}
  Volumes = {"vol"}
  VolumeOf <- SharedVolume
  NoVolume = NoVolume
  NoSnapshot = NoSnapshot
  MaxChanges = 0
  MaxFaults = 0
PROPERTIES StaleGo
