SPECIFICATION Spec
CONSTANTS
    Downers = {tud}
    EventTask = sys_evt
    Readers = {lcd}
    Bufs = {b1, b2}
    None = None
    MaxFrames = 2
SYMMETRY BridgeSymmetry
INVARIANTS TypeOK FramesAccounted WindowsAccounted BuffersConserved SoloCallsHeal
