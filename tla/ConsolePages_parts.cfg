SPECIFICATION Spec
CONSTANTS
    Parts = {"shell", "demo matrix", "live matrix", "evidence", "incident", "demo pages", "demo records", "payload", "stream"}
    Queries <- MCQueries
    Found <- MCFound
    LabFeature = TRUE
    Themes = {"light"}
    MaxFilters = 2
    Compacts = {TRUE, FALSE}
    LiveRows = 2
    LiveColumns = 2
    Records <- MCRecords
    Changing <- MCChanging
    Routes = {"public", "checkout"}
    Instances = {"inst-a", "inst-b"}
    Evidence <- MCEvidence
    Probes <- MCProbes
    Pages = {"overview", "incidents", "trace", "actions", "action", "recovery", "run"}
    p1 = p1
    p2 = p2
    Publishers <- TwoPublishers
    MaxEvents = 2
    Limit = 1
    MaxLength = 2
    MaxFailures = 1
    MaxDrops = 1
INVARIANTS PagesAreCoherent ReadingAgrees PagesTellTheTruth PublishedIsStreamed GapNeedsACopy
PROPERTIES SheetReturnsFocus StoryIsForward
CONSTRAINT FewerRecords PlainRail
CHECK_DEADLOCK FALSE
