SPECIFICATION Spec
CONSTANTS
    Sessions = {s1}
    Boards = {b1}
    Handlers = {h1}
    Reaper = Reaper
    None = None
    Routes = {"create", "delete"}
    Faults = {"disk"}

PROPERTY TeardownFreesBoard
