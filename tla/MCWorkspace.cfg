SPECIFICATION PartsSpec
CONSTANTS
    MaxTrees = 3
    MaxEdits = 4
    MaxUser = 2
    Unset = unset
    Crew <- MCCrew
    NoPlan = none
    Subtasks <- MCSubtasks
    Own <- MCOwn
    Stranger = stranger
    Made <- MCMade
    MaxLog = 4
    Absent = absent
INVARIANTS
    WorktreeSound
    SettingsSound
    RoutingSound
    CommandsSound
    DecompositionSound
    ConversationSound
    InstructionsSound
PROPERTIES
    StepsSound
