--------------------------- MODULE MCSchemaRegistry ---------------------------
(* Small instances of SchemaRegistry: two property names and the schemas   *)
(* that the rules tell apart.                                              *)
EXTENDS SchemaRegistry

Schema(required, id, amount, additional) ==
    [required |-> required,
     properties |-> [f \in Fields |-> IF f = "id" THEN id ELSE amount],
     additional |-> additional]

\* A schema, its optional extension, an extension of another type, and the
\* first one closed, opened and with a schema-valued additionalProperties.
Plain == Schema({"id"}, "string", Absent, "closed")
Extended == Schema({"id"}, "string", "number", "open")
Retyped == Schema({"id"}, "string", "string", "closed")
Typed == Schema({"id"}, "string", Absent, "schema")

MCCandidate ==
    [r \in Requests |-> CASE r \in {1, 5} -> Plain
                          [] r = 2 -> Extended
                          [] r = 3 -> Retyped
                          [] r = 4 -> Typed]
MCSame == [r \in Requests |-> Plain]
===============================================================================
