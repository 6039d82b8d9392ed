SPECIFICATION Spec
CONSTANTS
    MaxOrders = 2
    ListLimit = 2
    BrowserZone = "Mars"
    Picked = {"Tokyo"}
    Entries = {0, 50}
    MaxSwitches = 2
    MaxReloads = 2
INVARIANTS FailedAtMostOnce SettingsSurviveReload
PROPERTIES ToastsEnd WatchedFailureIsTold
