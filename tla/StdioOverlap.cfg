SPECIFICATION Spec
CONSTANTS
    MaxLines = 2
    MaxRounds = 1
PROPERTY
    OneConversation
