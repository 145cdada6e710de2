SPECIFICATION Spec
CONSTANTS
  Uploads <- MCUploads
  Downloads <- MCDownloads
  Lengths <- MCLengths
  BUFFER = 2
INVARIANTS ChunksInPlace LoneUploadStored LoneDownloadGoesOn
PROPERTY LoneDownloadWhole
CHECK_DEADLOCK FALSE
