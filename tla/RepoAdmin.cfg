SPECIFICATION Spec
CONSTANTS
    Command = {c1, c2, c3}
    None = None
    MaxCommands = 2
    MaxTogether = 2
    MaxTrouble = 2
SYMMETRY Symmetry
INVARIANTS
    TypeOK
    RowKeyIsThere
    UndoneLeavesNothing
    ReportIsTrue
    RemovalCanBeRepeated
CHECK_DEADLOCK FALSE
