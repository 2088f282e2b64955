CONSTANTS
    a1 = a1
    a2 = a2
    u1 = u1
    c1 = c1
    c2 = c2
    Requests = {a1, a2, u1, c1, c2}
    IsCommand <- Commands
    ActionOf <- ActionsOf
    Keys = {"k1", "k2", "k3"}
    KeyOf <- KeysOf
    States = {"offered", "accepted", "withdrawn", "cancelled", "terminated"}
    Initial = "offered"
    Actions = {"accept", "withdraw", "cancel", "terminate", "update"}
    On <- UpdateLifecycle
    Pays = {"accept"}
    Latest = 2
    MaxFaults = 1
    None = None
SPECIFICATION Spec
INVARIANTS VersionsAreSound DoneIsDone ActionsUseTheirDefinition
SYMMETRY Postings
CHECK_DEADLOCK FALSE
