CONSTANTS
    Files = {f1, f2, f3}
    MaxJobs = 2
    Nil = nil
    Outages = FALSE
SPECIFICATION Spec
INVARIANT NewBucketUpload
