SPECIFICATION Spec
CONSTANTS
    Keys = {k}
    Files = {small, big, huge}
    TooLarge = {huge}
    Large = {big, huge}
    Settings = {mine, other}
    MaxPolls = 2
    MaxCalls = 2
    MaxChats = 2
    NULL = NULL
INVARIANTS AnswersStayInChat LlmWasChecked StoredIsInUse
PROPERTIES CallsEnd
