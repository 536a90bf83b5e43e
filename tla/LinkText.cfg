SPECIFICATION Spec
CONSTANTS
    Cts <- MCCts
    NoCt = NoCt
    BadCt = BadCt
    Frames <- MCFrames
    Alphabet <- MCAlphabet
    MaxLength = 4
    Parent <- MCParent
    CtMax = 15
    IntMod = 64
INVARIANTS TypeOK MatchesGrammar FoundByItsText LinkFillsBuffer
