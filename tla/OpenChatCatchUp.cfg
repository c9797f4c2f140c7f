SPECIFICATION OpenChatSpec
CONSTANTS
    Chats = {a}
    Mine = {m1}
    LoadIds = {l1}
    MaxPosts = 2
    MaxDeletes = 0
    MaxUpsets = 1
CHECK_DEADLOCK FALSE
PROPERTIES
    CatchUpTakesNothingAway
