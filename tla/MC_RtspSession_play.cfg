SPECIFICATION Spec
CONSTANTS
    video = video
    audio = audio
    s1 = s1
    s2 = s2
    s3 = s3
    Tracks = {video, audio}
    Sessions = {s1, s2, s3}
    TrackOf <- SessionTrack
    BufferedFrames = 2
    MaxPackets = 2
    MaxFrames = 2
    MaxSessions = 2
    NoSession = NoSession
    NoTrack = NoTrack
    NoElement = NoElement
CHECK_DEADLOCK FALSE
PROPERTY PlayAnswered
