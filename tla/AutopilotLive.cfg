\* A loop that nobody kills and that no disagreeing artifact blocks, with and
\* without --once.
CONSTANTS
    MaxSource = 2
    MaxBundle = 2
    MaxEdit = 0
    PersonAt = {}
    Liberties = {"stop", "once", "abortFails", "offline", "timeout"}
    Clashing <- MCClashing
    NoHead = NoHead
SPECIFICATION FairSpec
PROPERTIES SourceIsProcessed BundleIsDelivered StopIsHonoured NoRepeat OnceDelivers ValidIsCommitted
