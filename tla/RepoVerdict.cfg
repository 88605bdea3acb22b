SPECIFICATION Spec
CONSTANTS
    Command = {c1, c2}
    None = None
    MaxCommands = 1
    MaxTogether = 1
    MaxTrouble = 0
INVARIANTS
    VerdictIsOwn
CHECK_DEADLOCK FALSE
