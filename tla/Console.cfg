\* Two mines, four roles, one item of each kind; a list returns one record of two.
SPECIFICATION Spec
CONSTANTS
    Mine = {"gdk", "kas"}
    Home = "gdk"
    Kasipet = "kas"
    RgOcp = "kas"
    Role = {"MINISTRY_AUDITOR", "FIELD_WORKER", "COLLIERY_MANAGER", "DGMS_INSPECTOR"}
    Pages = {"overview", "login", "worker/issues", "attendance", "data-logs", "schedules",
             "compliance", "capa", "inspections", "audit-ledger"}
    MaxArrivals = 2
    MaxReports = 1
    ListLimit = 1
    Staffed = {"gdk"}
    MaxRecords = 2
    MaxUnderWay = 2
    MaxTimers = 1
    MaxRequests = 1
    Exposed = {"gdk"}
INVARIANTS RecordedAsAnswered ListKeepsStore RowsMatchMineSerially CountAgreesSerially LogsOfOtherMine VerdictReachesStore EverySoundHasAnEnd
PROPERTIES AckTakenBackByStaleCopy
