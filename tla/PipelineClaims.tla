--------------------------- MODULE PipelineClaims ---------------------------
(***************************************************************************)
(* What the docs say of shutdown and the pipeline does not keep.           *)
(***************************************************************************)
EXTENDS Pipeline

\* "Flush the current aggregation window (partial alerts are still sent). Exit
\* cleanly" (README.md:241-245): when everything has stopped, no alert that was
\* flushed lies unread in a channel.
PartialAlertsSent ==
  running = {} => \A c \in Channel : c[1] \in {"source", "filter", "pattern"} \/ ch[c] = <<>>
=============================================================================
