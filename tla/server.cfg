SPECIFICATION FairServerSpec
CONSTANTS
  ann = ann
  bob = bob
  mail = mail
  spare = spare
  MaxRetries = 2
  Last = 2
  MaxFaults = 1
  MaxResets = 1
  Client = {ann, bob}
  Email = {mail, spare}
  Role = {"USER", "SELLER"}
  Asked <- OneAddress
  Seeds <- SampleUser
  FirstId = 1
  LastId = 2
  AccessTTL = 1
  RefreshTTL = 1
  MaxClock = 2
INVARIANTS
  ServerTypeOK
  TokensNameUsers
PROPERTIES
  ServesCompleteSchema
  ComesUp
