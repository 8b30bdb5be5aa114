---------------------------- MODULE MCToolPolicy ----------------------------
(* ToolPolicy over the whole catalogue.                                     *)
EXTENDS ToolPolicy

\* Between them the two lists are missing, hold nothing but commas, everything,
\* or toolsets, alone and beside a typo; with a typo the server does not start.
MCAllowlistValues ==
  {Absent, {"issues", "collaboration"}, {"projects", "pipelne"}}
MCHeaderValues == {Absent, {}, {"all"}, {"issues", "mergerequests"}}

\* The three kinds of token that README.md tells apart.
MCTokenScopes == {{"api"}, {"read_api"}, {"read_user"}}

\* Every action has a handler that sends something.
ASSUME EveryActionHandled ==
  \A tool \in ToolNames : \A action \in ActionsOf(tool) : Requests(tool, action) # {}

=============================================================================
