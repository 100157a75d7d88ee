SPECIFICATION Spec
CONSTANTS
    Callers = {c1}
    Workers = {w1}
    Ops = {metadata, reserved}
    BuiltIn = {metadata}
    UserOps = {}
    Malformed = malformed
    Requests = {metadata, reserved}
    MaxPending = 1
    NoThread = NoThread
    NoWorker = NoWorker
INVARIANT RepliedBeforePoll
