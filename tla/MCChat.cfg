SPECIFICATION Spec
CONSTANTS
    MaxSends = 3
    MaxHalts = 1
INVARIANTS TypeOK MessagesKept OneConversation LastInv SuggestionsAreFresh
CHECK_DEADLOCK FALSE
