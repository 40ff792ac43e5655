CONSTANTS
  Jobs = {j1, j2, j3, j4}
  Ttl = 2
  MaxActiveJobs = 2
  MaxJobs = 3
  MaxResources = 3
  MaxBytes = 4
  Screenshots <- MCScreenshots
SPECIFICATION FairPreviewSpec
INVARIANTS StoreSound
PROPERTIES RemovedOnlyWhenDue PreviewsExpire
