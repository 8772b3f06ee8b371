SPECIFICATION FairSpec
CONSTANTS
    Sessions = {s1}
    Boards = {b1}
    Handlers = {h1, h2}
    Reaper = Reaper
    None = None
    Routes = {"create", "delete", "snapshot", "diagnostics"}
    Faults = {"reply"}

PROPERTIES BoardReturns CorpseIsReaped
