CONSTANTS
    N = 15
    Size <- StreamSize
    Start <- StreamStart
    HeaderLength = 2
    BuffMax = 8
    MaxLength = 10
SPECIFICATION FairSpec
CHECK_DEADLOCK FALSE
INVARIANTS TypeOK AssertsHold EveryReadHasMessage FramingExact
PROPERTIES OnlyErrorsClose AllDelivered
