\* Four deadlines and windows of two, a random number that just reaches them all;
\* another sample only when both keys of a window have expired.
CONSTANTS
    Key = {k1, k2, k3, k4}
    MaxRand = 2
    SampleSize = 2
    StopNum = 3
    StopDen = 4
    MaxLoops = 2
SPECIFICATION FairSpec
PROPERTY ExpiredCollected
