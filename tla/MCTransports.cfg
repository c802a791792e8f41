SPECIFICATION TransportsSpec
CONSTANTS
    Parts = {"dialog", "delivery", "inbound", "voice"}
    MaxAccounts = 1
    MaxStoreFaults = 1
    OfferAfter = 2
    TagCap = 1
    DeliveryTexts <- MCTexts
    PlainCap = 2
    RichCap = 4
    Attempts = 2
    MaxLost = 1
    SendBurst = 2
    BulkReserve = 1
    BotRows = {"r1"}
    InboundKinds = {"checkout", "guest", "document"}
    MaxUpdates = 2
    MaxPollers = 2
    MaxRestarts = 1
    BotChannelCap = 1
    SharedChannelCap = 1
    MaxFrames = 5
    FrameCap = 2
    ReportCap = 1
INVARIANTS
    DialogSound
    DeliverySound
    InboundSound
    VoiceSound

    
CHECK_DEADLOCK FALSE
