------------------------- MODULE MCGatewayInstances -------------------------
(* Two instances with the default port, one by its own fault, a directory   *)
(* with a broken config.yaml and one without, and two command lines.       *)
EXTENDS GatewayInstances

CONSTANTS svc1, svc2, p1, p2, port1

Directory(config, port) == [config |-> config, port |-> port]
MCDirectories == <<Directory("broken", "unset"), Directory("fine", "unset"),
                   Directory("missing", "unset"), Directory("fine", "text")>>
=============================================================================
