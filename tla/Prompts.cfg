SPECIFICATION PSpec
CONSTANTS
    Strangers = {d1, d2}
    NoPrompt = NoPrompt
    MaxModals = 0
    MaxEvents = 3
    MaxRelocks = 0
CHECK_DEADLOCK FALSE
INVARIANT PromptedOnce
