SPECIFICATION Spec
CONSTANTS
  ObjectXml <- Objects
  MaxRepeat = 2
INVARIANTS EveryObjectWritten TokenIffTruncated BucketsIfOneEach
