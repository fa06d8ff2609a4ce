---------------------------- MODULE MCMetricsStore ----------------------------
(***************************************************************************)
(* Small instances of MetricsStore.  With a channel of two and batches of  *)
(* two, three operations are enough to meet a full channel, a full batch,  *)
(* a ticker flush and a drain on Close.                                    *)
(***************************************************************************)
EXTENDS MetricsStore
===============================================================================
