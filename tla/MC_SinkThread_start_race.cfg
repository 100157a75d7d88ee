SPECIFICATION Spec
CONSTANTS
    Callers = {c1}
    Workers = {w1}
    Channels = {media, info}
    Media = media
    NoThread = NoThread
    NoWorker = NoWorker
INVARIANT StartedHasWorker
