------------------------------ MODULE Behaviors ------------------------------
(***************************************************************************)
(* The types of operations (internal/model), and which of them an          *)
(* operation may have by its method: what the classifier keeps to and what *)
(* the modules that take classified operations rely on.                    *)
(***************************************************************************)
BehaviorTypes == {"create", "fetch", "list", "update", "delete", "generic"}

\* A POST to an item has any type that its name says, as when POST is used
\* for an update.
BehaviorsOf(method) ==
    CASE method = "GET" -> {"fetch", "list", "generic"}
      [] method \in {"PUT", "PATCH"} -> {"update", "generic"}
      [] method = "DELETE" -> {"delete", "generic"}
      [] OTHER -> BehaviorTypes
==============================================================================
