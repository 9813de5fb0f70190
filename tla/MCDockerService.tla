--------------------------- MODULE MCDockerService ---------------------------
(***************************************************************************)
(* Two subdomains whose container names meet: the sidecar of x has the     *)
(* name of the preview container of proxy-x.                               *)
(***************************************************************************)
EXTENDS DockerService

Meeting == {<<"x">>, <<"proxy", "x">>}

\* The one whose names are found by prefix is deleted and created again.
Creations == [s \in Meeting |-> IF s = <<"x">> THEN 2 ELSE 1]
==============================================================================
