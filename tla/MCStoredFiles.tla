--------------------------- MODULE MCStoredFiles ---------------------------
(* Small sets of requests, contents, workers and sweeps, combined by the   *)
(* configurations.                                                         *)
EXTENDS StoredFiles, TLC

CONSTANTS c1, c2, b1, b2, w1, w2

TwoConfirms == {c1, c2}
OneConfirm  == {c1}
TwoFiles    == {b1, b2}
Nothing     == {}
ConfirmsOrBatch == {TwoConfirms, TwoFiles}
TheConfirm  == {OneConfirm}
TwoWorkers  == {w1, w2}
OneWorker   == {w1}
UploadedContents == {"clean", "infected", "banned"}
ScannedContents == {"huge", "forged"}
CleanupAndPurge == {"cleanup", "purge"}
AllSweeps == {"cleanup", "orphan", "purge"}
MCSymmetry == Permutations(TwoConfirms) \cup Permutations(TwoWorkers)
============================================================================
