SPECIFICATION Spec
CONSTANTS
    Nat63Max = 15
    Base = 4
    Bits = 2
    SmolMax = 1
    MediumMax = 2
    Cutover = 3
    LeafBytes = 2
    PageBytes = 4
    AppMax = 2
    MaxWidth = 3
    MaxNatBytes = 15
    MaxDepth = 4
    Values <- MCValues
    Pins <- MCPins
    Hints <- MCHints
    MaxNodes = 5
    MaxRead = 4
INVARIANT OneStream
PROPERTY RoundTrip
CHECK_DEADLOCK FALSE
