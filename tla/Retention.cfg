SPECIFICATION Spec
CONSTANTS
  clip1 = clip1
  clip2 = clip2
  Id <- MCId
  NoBlob = NoBlob
  Blob <- MCBlob
  Ceiling = 1
  MaxTime = 2
  MaxAdmits = 2
  MaxCrashes = 2
INVARIANTS ReceiptsMatchDeletions BlobKeepsItsRow
PROPERTIES NothingDeletedEarly Expires
