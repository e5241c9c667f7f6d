CONSTANTS
    c1 = c1
    c2 = c2
    b1 = b1
    Client = {c1}
    Bot = {b1}
    MaxOpenClose = 2
    MaxReplay = 3
    Level = {"default", "extra_ball"}
    ReadsOpen = FALSE
SPECIFICATION Spec
INVARIANTS
    BotViewsAgree
