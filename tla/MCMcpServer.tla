----------------------------- MODULE MCMcpServer ----------------------------
(***************************************************************************)
(* A few tool calls and requests at once.  The default response makes 0 a  *)
(* key of the response schemas.  The second call may be of any tool, and   *)
(* those after it replace the server under its feet: a server has to start *)
(* first, and it takes two more calls to replace it between two questions  *)
(* of another.                                                             *)
(***************************************************************************)
EXTENDS McpServer

CONSTANTS e1, e2

MCDefined == [e \in {e1, e2} |-> IF e = e1 THEN {0, 103, 200} ELSE {200, 404}]

Switches == {"start_server", "stop_server"}

MCTools ==
    <<{"start_server"},
      Switches \cup {"request_status", "get_request_log", "manage_state", "reset"},
      Switches \cup {"request_status"},
      Switches>>
=============================================================================
