SPECIFICATION Spec
CONSTANTS
    Sessions = {s1, s2}
    Boards = {b1, b2}
    Handlers = {h1, h2}
    Reaper = Reaper
    None = None
    Routes = {"create", "delete"}
    Faults = {"disk", "reply"}
SYMMETRY Symmetry
INVARIANTS BoardExclusive IndInv
PROPERTIES ImplementsExclusiveUse
