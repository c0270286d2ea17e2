CONSTANTS
    setting <- MCSetting
    Users = {u1}
    NumberOf <- MCNumberOf
    Undefined = Undefined
    BatchSize = 2
    Items <- MCItems
    Batches <- MCBatches
    Requests = {c1, c2}
    one = one
    zeroOne = zeroOne
    nine = nine
    word = word
    NaN = NaN
SPECIFICATION SettingsSpec
INVARIANTS
    SettingsTypeOK
    SelectionsShown
    BatchIsRun
PROPERTIES
    BatchesEnd
