SPECIFICATION FairProgram
CONSTANTS
    Connections = {k1, k2}
    Off = Off
    Unset = Unset
    None = None
    Null = Null
    Names = {"terrorist", "counter"}
    MaxChanges = 3
    Places = {here}
    Shares <- DefaultOrGuarded
    Lives <- Games
INVARIANTS WorkersAccounted UnsampledIsBlank SharedAsAsked OldLinksDie
PROPERTIES NothingToTheOld ChoicesTakeEffect
CHECK_DEADLOCK FALSE
