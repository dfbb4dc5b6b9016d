---------------------------- MODULE MCJobStream -----------------------------
(* Instances of JobStream for TLC: one stream, one canceller, and one job  *)
(* with a shortened market_data_sync payload.                              *)
EXTENDS JobStream
CONSTANTS c1, s1

MCJobs    == {"sync"}
MCInline  == {}
MCPayload == [j \in MCJobs |-> <<Check, Progress(50), Apply>>]
MCCancellers == {c1}
MCStreams    == {s1}
=============================================================================
