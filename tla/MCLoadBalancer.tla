--------------------------- MODULE MCLoadBalancer ---------------------------
(* Instances of LoadBalancer for TLC. *)
EXTENDS LoadBalancer

\* Three configured beacons; the same with the second or the third skipped
\* because its URL did not parse.
TwoNodes   == {0, 1}
ThreeNodes == {0, 1, 2}
GapNodes   == {0, 2}

=============================================================================
