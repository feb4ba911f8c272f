SPECIFICATION PortalSpec
CONSTANTS
    Workspaces = {w1}
    Unbound = Unbound
    MaxSessions = 1
    MaxEvents = 1
INVARIANT FirstReadSettles
CHECK_DEADLOCK FALSE
