---------------------------- MODULE InputSchemas ----------------------------
(***************************************************************************)
(* The input schema tools/list shows for a tool (tools/schema.py): one flat *)
(* object for all the actions its caller may use, merged parameter by       *)
(* parameter.  ToolRegistry merges all actions of every tool when the       *)
(* server starts, and refuses to start when two declare a parameter         *)
(* differently; tools/list merges the selection its caller is shown.        *)
(*                                                                         *)
(* Parameters are merged independently of each other, so one is enough.    *)
(***************************************************************************)
EXTENDS ToolCall, Sequences

CONSTANT DeclaredActions   \* how many actions the tool has

ASSUME SchemaAssumption == DeclaredActions \in Nat \ {0}

\* How an action can declare the parameter: `X`, `X = d`, `X | None = None`,
\* `X | None`, or not at all.
Declarations ==
  [type : {"integer", "string"}, form : {"plain", "defaulted", "optional", "nullable"}]
NotDeclared == [form |-> "none"]

Tools == [1..DeclaredActions -> Declarations \cup {NotDeclared}]

RequiredBy(d) == d.form \in {"plain", "nullable"}

\* _shape: `X | None = None` has the shape of `X`; a default is part of a shape.
Shape(d) == IF d.form = "optional" THEN [d EXCEPT !.form = "plain"] ELSE d

Conflict == [form |-> "conflict"]

\* A wrong version: what the first action declares stands.
MergeKeepsFirst(existing, d) ==
  IF d = NotDeclared THEN existing
  ELSE IF existing = NotDeclared THEN d
  ELSE IF existing = Conflict \/ Shape(existing) # Shape(d) THEN Conflict
  ELSE existing

Merge(existing, d) ==
  IF d = NotDeclared THEN existing
  ELSE IF existing = NotDeclared THEN d
  ELSE IF existing = Conflict \/ Shape(existing) # Shape(d) THEN Conflict
  ELSE IF existing.form = "optional" /\ d.form # "optional" THEN d
  ELSE existing

\* What the loop over the actions has made of the parameter after each of them.
Merges(actions) ==
  LET after[i \in 0..Len(actions)] ==
        IF i = 0 THEN NotDeclared ELSE Merge(after[i - 1], actions[i])
  IN  after

\* Required by every action (an action that does not declare it does not).
Everywhere(actions) == \A i \in DOMAIN actions : RequiredBy(actions[i])

\* build_input_schema; Conflict stands for SchemaConflictError.
InputSchema(actions) ==
  [property |-> Merges(actions)[Len(actions)], required |-> Everywhere(actions)]

Registers(tool) == InputSchema(tool).property # Conflict

\* The actions a caller may use, by their places in the tool, in its order.
Choices ==
  {p \in UNION {[1..n -> 1..DeclaredActions] : n \in 1..DeclaredActions} :
     \A i, j \in DOMAIN p : i < j => p[i] < p[j]}

Selection(tool, chosen) == [i \in DOMAIN chosen |-> tool[chosen[i]]]

\* tools/list for one tool of a server that started, with the actions its
\* caller may use.
ListTool ==
  /\ call = NoCall
  /\ \E tool \in Tools, chosen \in Choices :
       /\ Registers(tool)
       /\ LET actions == Selection(tool, chosen)
          IN  /\ call' = [tool |-> "tools/list", actions |-> actions]
              /\ result' = [status |-> "listed", schema |-> InputSchema(actions)]
  /\ UNCHANGED <<request, tries, kept, thing, stray, changes, before, past, heard>>

-----------------------------------------------------------------------------
(* What a client that keeps to the schema and the action's own model make   *)
(* of an argument.                                                          *)

Omitted == "omitted"
Arguments == {Omitted, "null", "integer", "string"}

DeclarationAccepts(d, a) ==
  IF a = Omitted THEN ~RequiredBy(d)
  ELSE IF a = "null" THEN d.form \in {"optional", "nullable"}
  ELSE d # NotDeclared /\ a = d.type

SchemaAccepts(schema, a) ==
  IF a = Omitted THEN ~schema.required ELSE DeclarationAccepts(schema.property, a)

\* Whichever actions a caller is shown, the list can be built, and its flat
\* schema turns away no call that a shown action would take (a null that only
\* says "not given" can be left out instead).
SchemaAdmitsCalls ==
  call.tool = "tools/list" =>
    /\ result.schema.property # Conflict
    /\ \A i \in DOMAIN call.actions, a \in Arguments :
         LET d == call.actions[i]
         IN  DeclarationAccepts(d, a) /\ (a = "null" => d.form = "nullable")
               => SchemaAccepts(result.schema, a)

\* A value the schema admits is good for every shown action that requires the
\* parameter, in whatever order the tool declares them.
SchemaSuitsAll ==
  call.tool = "tools/list" =>
    \A i \in DOMAIN call.actions, a \in Arguments \ {Omitted} :
      RequiredBy(call.actions[i]) /\ SchemaAccepts(result.schema, a)
        => DeclarationAccepts(call.actions[i], a)

\* The one flat schema stands for all the actions it was merged from.
SchemaFits == SchemaAdmitsCalls /\ SchemaSuitsAll

=============================================================================
