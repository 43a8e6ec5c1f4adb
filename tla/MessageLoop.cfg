SPECIFICATION Spec
CONSTANTS
    Thread = {t1, t2}
    Looper = {t1}
    Class = {"k"}
    AtomSpace = 2
    MaxIds = 3
    LooperCalls = 3
    OtherCalls = 1
    MaxEvents = 1
INVARIANTS CreatedAndDestroyedOnce
PROPERTIES QuitEndsLoop CloseEndsLoop
