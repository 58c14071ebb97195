--------------------------- MODULE MCIngestQueue ---------------------------
(* Small instances of IngestQueue for TLC: four deliveries for two workers  *)
(* and a channel of one, so that the channel fills, refuses and drains.     *)
EXTENDS IngestQueue

CONSTANTS r1, r2, r3, r4, w1, w2

MCRequests == {r1, r2, r3, r4}
MCWorkers  == {w1, w2}
============================================================================
