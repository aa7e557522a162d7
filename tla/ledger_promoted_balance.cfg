CONSTANTS
    a1 = a1  a2 = a2  a3 = a3  t1 = t1  t2 = t2  t3 = t3
    Accounts = {a1, a2}
    Currency <- Currencies
    TxIds = {t1, t2}
    Batches = {b1}
    Series = {s1}
    Amounts = {1}
    Openings = {0}
    Targets = {}
    PromotesImported = TRUE
    NoAccount = NoAccount  NoTx = NoTx  NoBatch = NoBatch  NoSeries = NoSeries
SPECIFICATION Spec
SYMMETRY Symmetry
INVARIANTS BalanceConsistent
