\* One device beside others, two changes to an empty bag, one reload.
CONSTANTS
  PackingRequests = {r1}
  Changes = {1, 2}
  FirstList <- OneBag
  Kinds = {"set_bag_status", "reset"}
  Marks = {"packed"}
  Unreadable = {}
  MaxFiles = 0
  MaxOrphans = 0
  Devices = {d1}
  NoCall = NoCall
  MaxClosings = 1
  MaxShown = 2
SPECIFICATION FairDevicesSpec
PROPERTY Settles
