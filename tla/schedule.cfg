SPECIFICATION ScheduleSpec
CONSTANTS
    esi = esi
    everef = everef
    ScheduledJobs = {esi, everef}
    Editors = {e1, e2}
    Minutes = {10, 30}
    Hours = {8, 9}
    BadHours = {}
    Unset = Unset
    Updates <- PanelUpdates
    Seed <- MCSeed
    Fallback <- MCFallback
    MaxEdits = 3
    MaxCrashes = 2
CHECK_DEADLOCK FALSE
INVARIANTS
    ScheduleTypeOK
    SeenIsInForce
PROPERTIES
    ChangesApply
