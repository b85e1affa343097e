SPECIFICATION FairSpec
CONSTANTS
  executor = executor
  service = service
  Storers = {executor, service}
  Worker = executor
  NoTask = NoTask
  MaxDepth = 2
INVARIANTS
  OneAudioOwner
  QuietWhileRecording
PROPERTIES
  AudioReturns
  StorageGoesOn
