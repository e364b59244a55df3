SPECIFICATION Spec
CONSTANTS
    Files      <- MCFiles
    Programs   <- MCPrograms
    Texts      <- MCTexts
    Loadable   = {"a.h", "m.cpp"}
    Objects    = {"p", "q"}
    Namespaces = {"mine"}
    MaxCommands = 3
    MaxEdits   = 2
INVARIANTS
    LoadIsCurrent
    ObjectsOnce
PROPERTIES
    UsingsKept PromptListens
