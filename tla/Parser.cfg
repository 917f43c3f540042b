SPECIFICATION FairSpec
CONSTANTS
    Stream <- MCStream
    BufferSize = 5
    Requests <- MCRequests
    Methods <- MCMethods
    Version <- MCVersion
    ContentLength <- MCContentLength
    Pipelining = TRUE
    NoSession = NoSession
    Said <- MCSaid
INVARIANTS BufferIsStream AnsweredAsSent
PROPERTY RequestIsAnswered
