SPECIFICATION SubFairSpec
CONSTANTS
    Client = {"user", "admin"}
    MaxConns = 2
    Frames <- MCFrames
    Source = {"a", "b"}
    Content = {"c1", "c2"}
    Offers <- MCOffers
    Interval = TRUE
    Edits <- MCEdits
    MaxEvents = 1
    None = None
PROPERTIES
    ResponsesAreSound
    NobodyWaitsInVain
    SubscriberAnswered
CHECK_DEADLOCK FALSE
