SPECIFICATION AllSpec
CONSTANTS
    Configs <- Dazzles
    Transfer = 256
    Latencies <- UpToStrobe
    MaxLost = 2
    Lines = {1, 2}
    Levels = {1, 2, 3}
    BitDepth = 10
    RangeScale = 11
    Hues = 360
    Brightnesses = 8
INVARIANTS PlaneHasItsTimes NeverTorn InProportion EachLedItsColour NoGlitch Connected ReadyWhenUsed
