SPECIFICATION Spec
CONSTANTS
    Passwords = {"p"}
    Uploads <- MCUploads
    MaxKeys = 1
    MaxCalls = 1
INVARIANT NoDuplicates
CHECK_DEADLOCK FALSE
