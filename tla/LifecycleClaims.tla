--------------------------- MODULE LifecycleClaims ---------------------------
(***************************************************************************)
(* What the documents say of the lifecycle manager and the code does not   *)
(* keep, each with the run that shows it.                                  *)
(***************************************************************************)
EXTENDS Lifecycle

\* "On ctx cancellation, all tracked incidents are resolved before the output
\* channel closes, ensuring "resolved" notifications are sent during graceful
\* shutdown" (docs/phase6-notify-dedup-design.md:412).
AllResolvedAtClose == pc = "done" => \A id \in Id : ~Live(feed[id])

\* "Incident ID collision (different incidents, same ID) ... extremely
\* unlikely" (docs/phase6-notify-dedup-design.md:432): what is suppressed as a
\* repetition repeats an incident of the same services.
OnlyRepetitionsSuppressed ==
  [][SuppressUpdate => Head(inCh).src = tracked[Head(inCh).id].inc.src]_vars
=============================================================================
