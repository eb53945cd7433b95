CONSTANTS
    Packets <- MCPackets
    Layers <- MCLayers
    Catalog <- MCCatalog
    Literal <- MCLiteral
    Canon <- MCCanon
    Inside <- MCInside
    Keyboards <- MCKeyboards
    Strays <- MCStrays
    NaN <- MCNaN
SPECIFICATION Spec
INVARIANTS ReadsWhatWasTyped ParsesTheGrammar ErrorsAreMarked ComparisonsAgree
CHECK_DEADLOCK FALSE
