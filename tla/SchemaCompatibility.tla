------------------------- MODULE SchemaCompatibility -------------------------
(***************************************************************************)
(* The compatibility rules of platform_shared.schema_compatibility, which  *)
(* the offline contract check and the runtime schema registry share, next  *)
(* to what a JSON Schema of this shape accepts.                            *)
(*                                                                         *)
(* Abstractions: a schema is what the rules look at - the required names,  *)
(* the type of each declared property, additionalProperties - and an error *)
(* list is whether it is empty.                                            *)
(***************************************************************************)

CONSTANTS
    Fields,      \* property names
    Types,       \* the values "type" takes
    Untyped,     \* a declared property without "type"
    Absent       \* a property that is not declared, a field that is not there

ASSUME CompatibilityAssumption ==
    /\ Untyped \notin Types
    /\ Absent \notin Types \cup {Untyped}

Modes == {"BACKWARD", "FORWARD", "FULL"}

\* additionalProperties is true or absent, false, or a schema of its own.
Schemas ==
    [required : SUBSET Fields,
     properties : [Fields -> Types \cup {Untyped, Absent}],
     additional : {"open", "closed", "schema"}]

-------------------------------------------------------------------------------

Tightened(old, new) == old.additional = "open" /\ new.additional = "closed"

\* Mutant: a change of type passes.
SomeTypeKept(old, new) ==
    \A f \in Fields : old.properties[f] # Absent => new.properties[f] # Absent

\* No property is removed or changes its type.
PropertiesKept(old, new) ==
    \A f \in Fields :
        old.properties[f] # Absent => new.properties[f] = old.properties[f]

\* A name may neither stop nor start being required.
BackwardCompatible(old, new) ==
    /\ ~Tightened(old, new)
    /\ new.required = old.required
    /\ PropertiesKept(old, new)

ForwardCompatible(old, new) == BackwardCompatible(new, old)

Compatible(old, new, mode) ==
    /\ mode \in {"BACKWARD", "FULL"} => BackwardCompatible(old, new)
    /\ mode \in {"FORWARD", "FULL"} => ForwardCompatible(old, new)

-------------------------------------------------------------------------------
(* What the rules are for: the documents a schema accepts.                 *)

\* A document: the type of the value of each field that is there.
Documents == [Fields -> Types \cup {Absent}]

\* What a schema-valued additionalProperties accepts is not modelled, so a
\* document with a field it would judge is accepted by no such schema.
Accepts(schema, doc) ==
    /\ \A f \in schema.required : doc[f] # Absent
    /\ \A f \in Fields :
          doc[f] # Absent =>
             IF schema.properties[f] = Absent
             THEN schema.additional = "open"
             ELSE schema.properties[f] \in {doc[f], Untyped}
==============================================================================
