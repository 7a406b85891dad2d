CONSTANTS
    MaxSeq = 3
    Seqs <- MCSeqs
    Msgs = {m}
    MaxArrivals = 2
    NoArrival = NoArrival
SPECIFICATION ReceiverSpec
INVARIANTS
    ReceiverTypeOK
    AcksAreDurable
    TakenOnceInOrder
    EffectsMatchReceipt
PROPERTY ImplementsInbox
