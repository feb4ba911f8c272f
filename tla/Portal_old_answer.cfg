SPECIFICATION PortalSpec
CONSTANTS
    Workspaces = {w1}
    Unbound = Unbound
    MaxSessions = 2
    MaxEvents = 2
PROPERTY NoOldAnswerIsApplied
CHECK_DEADLOCK FALSE
