CONSTANTS
    Devices = {d1, d2}
    Handles = {h1, h2}
    Curves = {curveA}
    EmptyCurve = curveEmpty
    DefaultCurve = curveA
    CapMin = 2
    CapMax = 2
    CapInputs = {2, 3}
    Profiles = {pAuto, pHigh, pCompute}
    SupportedProfiles = {pAuto, pHigh}
    AutoProfile = pAuto
    Clocks = {clk1}
    ClockInputs = {clk1, clkBad}
    NoEdit = noEdit
    DefaultClock = clkDefault
    ClientConfigs <- MCClientConfigs
    CardIndex <- MCCardIndex
    Unprivileged = FALSE
    Faults = FALSE
SYMMETRY MCSymmetry
SPECIFICATION Spec
INVARIANTS FanLoopsOwned
