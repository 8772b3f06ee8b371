SPECIFICATION Spec
CONSTANTS
    Sessions = {s1, s2}
    Boards = {b1}
    Handlers = {h1, h2}
    Reaper = Reaper
    None = None
    Routes = {"create", "delete", "snapshot", "diagnostics"}
    Faults = {"daemon"}
SYMMETRY Symmetry
INVARIANTS LeaseHasOwner
PROPERTIES NoResurrection TeardownFreesBoard
