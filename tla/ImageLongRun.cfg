SPECIFICATION ImageSpec
CONSTANTS
  Images <- MCImages
  Options = {0, 512}
  Requests = {0, 1, 2, 3, 512, 513}
  PosModulus = 262144
INVARIANT LongRunMeansLongest
