SPECIFICATION Spec
CONSTANTS
    PointsCall <- PointIterators
    SpansCall <- SpanIterators
    CombinedCall <- CombinedIterators
PROPERTY IteratesLiveKeys
PROPERTY IteratesFragments
PROPERTY IteratesRangeKeys
