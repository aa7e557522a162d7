CONSTANTS
    a1 = a1  a2 = a2  a3 = a3  t1 = t1  t2 = t2  t3 = t3
    Accounts = {a1, a2, a3}
    Currency <- Currencies
    TxIds = {t1, t2, t3}
    Batches = {}
    Series = {}
    Amounts = {1, 2}
    Openings = {0, 1}
    Targets = {1}
    PromotesImported = TRUE
    NoAccount = NoAccount  NoTx = NoTx  NoBatch = NoBatch  NoSeries = NoSeries
SPECIFICATION Spec
SYMMETRY Symmetry
CONSTRAINT ThirdRowSettled
INVARIANTS RowsSound BalanceConsistent
PROPERTIES AdjustmentsImmutable
