SPECIFICATION Spec
INVARIANTS TypeOK UpToDate Compiles InterviewWired KnownShortfalls RoundTrip
PROPERTIES StableLookup
CHECK_DEADLOCK FALSE
