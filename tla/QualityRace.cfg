SPECIFICATION Spec
CONSTANTS
    Window = 3
    MaxPings = 6
CHECK_DEADLOCK FALSE
INVARIANTS
    SettledOnce
    WindowsAgree
