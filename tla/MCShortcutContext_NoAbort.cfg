CONSTANTS
    NoPfx = NoPfx
    NoPrefix <- NoPfx
    AccelInputs <- MCAccelInputs
    ChordInputs <- MCChordsNoLock
    ActionIds <- MCActionIdsBare
    SignalNames = {"move-cursor"}
    MaxChain = 2
SPECIFICATION Spec
INVARIANT NoAbort
