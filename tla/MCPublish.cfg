SPECIFICATION Spec
CONSTANTS
  Publishes = {"first", "second"}
  Others = {"theirs"}
  FolderOf <- MCFolderOf
  Orgs = {"acme"}
  Paths = {"a", "b"}
  Blobs = {"huge", "large", "small"}
  SizeOf <- MCSizeOf
  Cloned <- MCCloned
  TheirFiles <- MCTheirFiles
  FileBytes = 5
  UploadBlobs = 2
  UploadBytes = 4
  MaxEdits = 1
INVARIANTS PublishIsSound
PROPERTIES ReplacesUnagreedOnlyIfLate PublishEnds
CHECK_DEADLOCK FALSE
