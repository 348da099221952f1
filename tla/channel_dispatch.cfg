SPECIFICATION FairSpec
CONSTANTS
    Message <- ThreeMessages
    Chat <- Chats
    Sender <- Senders
    None = None
    ChatOf <- ChatOfThree
    SenderOf <- SenderOfChat
    Commanding <- Chats
    Limits = {2, 3}
    MaxHistory = 5
    KeepTurns = 2
INVARIANTS OneAtATime FreshAfterReset RequestWellFormed OrphansAreUnfinished InterruptedTurnKept
PROPERTIES OnlyLostWakeUpsBlock
CHECK_DEADLOCK FALSE
