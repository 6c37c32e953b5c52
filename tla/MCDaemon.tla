------------------------------ MODULE MCDaemon ------------------------------
(***************************************************************************)
(* Daemon on two virtual devices a and b and a physical device p, each     *)
(* with as many input as output channels; b is mono, the others stereo.    *)
(***************************************************************************)
EXTENDS Daemon

CONSTANTS a, b, p

ThreeDevices == {a, b, p}
OnePhysical == {p}
Channels == [d \in ThreeDevices |-> IF d = b THEN 1 ELSE 2]

Ask(from, to, coefficients) ==
  [source |-> <<from, "Source">>, sink |-> <<to, "Sink">>, matrix |-> coefficients, finite |-> TRUE]

\* Both directions between the virtual devices, and a route in from the physical one.
Asked == {Ask(a, b, 2), Ask(b, a, 2), Ask(p, a, 0)}

\* The same, and routes the daemon has to refuse: a missing matrix, an infinite gain.
AskedAndRefused == Asked \cup {Ask(a, b, 0), [Ask(p, a, 0) EXCEPT !.finite = FALSE]}
=============================================================================
