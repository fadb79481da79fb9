--------------------------- MODULE MCScanPipeline ---------------------------
EXTENDS ScanPipeline, TLC

CONSTANTS s1, s2, w1

TwoServers == {s1, s2}
OneWorker == {w1}
Alike == Permutations(TwoServers)
=============================================================================
