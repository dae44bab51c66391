CONSTANTS
    MaxDepth = 2
    MaxBytes = 5
    MaxText = 6
SPECIFICATION ParseSpec
INVARIANT NestingIsExact
INVARIANT LimitIsExact
