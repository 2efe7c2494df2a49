\* A stock and the memo, two submissions, one reload or sign-out.
SPECIFICATION FairSpec
CONSTANTS
    Stocks = {s1}
    Memo = memo
    Ids = {i1, i2}
    None = None
    StockErrors = 2
    MemoErrors = 2
    MaxFaults = 1
INVARIANTS TypeOK OneJobPerSubmission
PROPERTIES KeepsPromise NoBlindRepeat ClickEnds MemoSettles
