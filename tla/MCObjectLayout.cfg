\* Objects of six classes are copied and scanned.
SPECIFICATION Spec
CONSTANTS
    WordMod = 8192
    MaxInt = 63
    Alignment = 16
    WeakFieldOffset = 0
    Rttis <- MCRttis
    Objects <- MCObjects
INVARIANTS
    TypeOK
    SizeExact
    EdgesCopied
    EdgesExact
CHECK_DEADLOCK FALSE
