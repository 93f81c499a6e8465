SPECIFICATION FairSpec
CONSTANTS
    chat1 = chat1
    chat2 = chat2
    event1 = event1
    event2 = event2
    journal = journal
    None = None
    Chats = {chat1, chat2}
    Emitters = {event1, event2}
    Journals = {journal}
    TraceOf <- MCTraceOf
    Gated = {event2}
    Transient = {event2}
    MaxHist = 1
INVARIANTS
    CommittedInSequence
    LeaseExcludesSynchronous
    SyncCountsExact
    ReplayCovers
    FallbackDrained
PROPERTIES
    RefinesOrderedFeed
    WritersReturn
CHECK_DEADLOCK FALSE
