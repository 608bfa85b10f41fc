----------------------------- MODULE MCMetrics -----------------------------
(* Instances of Metrics for TLC. *)
EXTENDS Metrics, TLC

\* The calls of one demotion by both kinds of handlers, of a request, and of
\* a failed check: they share names, labels and maps in every way there is.
SharedSites ==
    {s \in AllSites : s.name \in {"node.primary_demoted", "request.failover",
                                  "healthcheck.not_synced"}}

\* What a round of checks calls for a node that failed.
FailedSites == {s \in AllSites : s.name = "healthcheck.failed"}

Interchangeable == Permutations(Handlers)

=============================================================================
