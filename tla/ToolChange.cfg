\* Two names with two definitions each, up to three changes.
SPECIFICATION ToolsSpec
CONSTANTS
    Name = {n1, n2}
    Rest = {old, new}
    Unrecorded = Unrecorded
    MaxBlocks = 3
INVARIANT OfferedIsBound
