--------------------------------- MODULE Mcp ---------------------------------
(***************************************************************************)
(* Requests, and what is made of them before the store is read             *)
(* (axiomsync-mcp mcp.rs, axiomsync-kernel mcp.rs, axiomsync-http lib.rs). *)
(*                                                                         *)
(* A request is a record                                                   *)
(*   via      "rest" for a GET or POST of the HTTP API, "mcp" for a message*)
(*            over HTTP, "stdio" for one on a line, "cli" for a command    *)
(*   op       the resource, tool or report, "unknown", or "none"           *)
(*   target   an id, or the workspace_root of a collection                 *)
(*   token    the bearer token                                             *)
(*   bound    the workspace that the stdio server is bound to              *)
(*   form     of a message: "object", another JSON "value", or "text" that *)
(*            is not JSON                                                  *)
(*   has_id, version, method   of a message; method "none" if it is blank  *)
(***************************************************************************)
EXTENDS Naturals

CONSTANTS
  Missing,   \* no target, token or workspace
  Blank      \* a workspace_root of spaces, or an empty id

Resources == {"case", "thread", "run", "task", "document", "evidence"}
Collections == {"search", "runs", "documents"}

IsMessage(q) == q.via \in {"mcp", "stdio"}

(* Whether the request reads a resource or calls a tool: of a message,     *)
(* whether its method does.                                                *)
IsCall(q) == IsMessage(q) => q.method \in {"resources/read", "tools/call"}

(* The workspace required is that of a row, or it is named.                *)
NeedsLookUp(q) == IsCall(q) /\ q.op \in Resources
NamesWorkspace(q) == IsCall(q) /\ q.op \in Collections

(* IntoResponse for HttpError; error_response and json_rpc_error. *)
Status(error) ==
  CASE error = "validation" -> "400" [] error = "not found" -> "404"
    [] error = "denied" -> "403" [] OTHER -> "500"

RpcCode(error) ==
  CASE error = "validation" -> "-32602" [] error = "malformed" -> "-32600"
    [] error = "unknown method" -> "-32601" [] OTHER -> "-32000"

(* A body that is not JSON is refused by the HTTP server before it is a    *)
(* message.                                                                *)
Code(q, error) ==
  CASE error = "none" -> "ok"
    [] q.via = "mcp" /\ q.form = "text" -> Status("validation")
    [] IsMessage(q) /\ error # "none" /\ (q.via = "mcp" => q.form # "text") ->
         RpcCode(error)
    [] OTHER -> Status(error)

-----------------------------------------------------------------------------
(* normalize_transport_request: a line without an id is not answered. *)
IsNotification(q) == q.via = "stdio" /\ q.form = "object" /\ ~q.has_id

(* parse_stdio_line, parse_request. *)
IsMalformed(q) ==
  IsMessage(q) /\ (q.form # "object" \/ q.version # "2.0" \/ q.method = "none")

(* normalize_request, parse_resource_uri, id_arg, workspace_filter_arg and *)
(* required_workspace_root_arg; the search and the runs of the HTTP API.   *)
LacksSelector(q) ==
  \/ q.op \in Collections /\ q.target = Missing
  \/ q.op \in {"runs", "documents"} /\ q.target = Blank /\ q.via # "rest"

LacksParams(q) ==
  \/ q.op = "none"
  \/ q.op \in Resources /\ q.target = Missing
  \/ q.method = "resources/read" /\ (q.op \notin Resources \/ q.target = Blank)

(* Faulty: a request without a workspace goes on to its authorisation. *)
RefusalOfForm(q) ==
  CASE IsMalformed(q) -> "malformed"
    [] IsMessage(q) /\ ~IsMalformed(q) /\ IsCall(q) /\ LacksParams(q) -> "validation"
    [] OTHER -> "none"

(* The error that a request is refused with as it stands. *)
Refusal(q) ==
  CASE IsMalformed(q) -> "malformed"
    [] IsMessage(q) /\ ~IsMalformed(q) /\ IsCall(q) /\ LacksParams(q) -> "validation"
    [] ~IsMalformed(q) /\ IsCall(q) /\ q.via # "cli" /\ LacksSelector(q) -> "validation"
    [] OTHER -> "none"
=============================================================================
