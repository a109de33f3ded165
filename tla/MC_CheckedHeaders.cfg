\* Two transformer runners and one other transformer over headers 0..1.
CONSTANTS
    hA = hA
    hB = hB
    hC = hC
    l1 = l1
    l2 = l2
    node1 = node1
    node2 = node2
    Header <- MCHeader
    HeaderBlock <- MCHeaderBlock
    HeaderNode <- MCHeaderNode
    Logs <- MCLogs
    ThisNode = node1
    StartingBlock = 0
    EndingBlock = 1
    Column = "cat_file_chop_lump"
    OtherColumns = {"vat_move"}
    Runners = {r1, r2}
    NoRow = NoRow
    NoHeader = NoHeader
    MaxErrors = 1
SPECIFICATION Spec
INVARIANTS
    TypeOK
    CheckedIffStored
    NoCircularWait
PROPERTIES
    ExecuteNilCoversRange
    StoreRefinement
