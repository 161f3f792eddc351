SPECIFICATION Spec
CONSTANTS
    Events = {"UserPromptSubmit", "Stop", "StopCancelled", "PermissionRequest"}
    Children = {k1}
    Timeout = 2
    Guard = 1
    MoveMax = 3
    TimeMax = 3
    GenMax = 2
INVARIANTS FreshRuntime FenceHolds EndIsSeen BeginIsSeen WorkIsSeen
PROPERTIES NoRevival
