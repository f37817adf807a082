CONSTANTS
    NoPfx = NoPfx
    NoPrefix <- NoPfx
    AccelInputs <- MCAccelInputs
    ChordInputs <- MCChords
    ActionIds <- MCActionIds
    SignalNames = {"move-cursor"}
    MaxChain = 2
SPECIFICATION Spec
PROPERTY ContextRefinesSpec
