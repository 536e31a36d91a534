CONSTANT MaxSN = 4
SPECIFICATION TrackingSpec
INVARIANTS TrackingTypeOK AckBaseExact KnownIsResolved GapListLoop
PROPERTY AckBaseMonotone
