SPECIFICATION BackupSpec
CONSTANTS
    Handlers = {h1, h2}
    MaxEdits = 2
    MaxImports = 1
    MaxRuns = 2
SYMMETRY Symmetry
INVARIANTS
    NoLostEdit
    NewestIsLiveOrComing
    
    
    

    
