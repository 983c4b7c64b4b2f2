-------------------------------- MODULE MCExporter --------------------------------
(* One permit and two clients.  The first scrapes with a line that comes in two   *)
(* pieces before the rest of its headers, or with one that does not fit into the  *)
(* buffer, and may never read its answer; the second asks for something else.     *)
EXTENDS MetricsExporter

CONSTANTS c1, c2

MCClients == {c1, c2}
Request(metrics, path, eol, size) ==
    [metrics |-> metrics, path |-> path, eol |-> eol, size |-> size]
MCKinds == [c \in MCClients |->
              IF c = c1 THEN {Request(TRUE, 2, 2, 3), Request(TRUE, 1, 3, 3)}
                        ELSE {Request(FALSE, 1, 1, 1)}]
MCStallers == {c1}
=============================================================================
