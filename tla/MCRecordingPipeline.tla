------------------------ MODULE MCRecordingPipeline ------------------------
(* Constants of the runs of RecordingPipeline.  Workers and meetings are   *)
(* interchangeable; attempts are not: they are numbered in order.          *)
EXTENDS RecordingPipeline, TLC

Interchangeable == Permutations(Workers) \cup Permutations(Meetings)
=============================================================================
