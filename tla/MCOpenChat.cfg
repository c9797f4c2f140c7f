SPECIFICATION OpenChatSpec
CONSTANTS
    Chats = {a, b}
    Mine = {m1, m2}
    LoadIds = {l1, l2}
    MaxPosts = 2
    MaxDeletes = 1
    MaxUpsets = 1
SYMMETRY OpenChatSymmetry
CHECK_DEADLOCK FALSE
INVARIANTS
    OpenChatTypeOK
    
    CopiesAreBounded
    ListIsOfTheOpenChat
    
