SPECIFICATION FairSpec
CONSTANTS
    Prod = Prod
    Clone0 = Clone0
    None = None
    Trials <- MCFaultTrials
    MaxRound = 2
INVARIANTS TypeOK SourceUntouched DoneMeansSwapped RecordsStayApart RolledBack
PROPERTIES AddressIsHandedOver RecordIsHandedOver PairCompletes
CHECK_DEADLOCK FALSE
