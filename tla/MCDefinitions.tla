--------------------------- MODULE MCDefinitions ---------------------------
(***************************************************************************)
(* Definitions in four families: three distinct nodes and two nodes whose  *)
(* ids may coincide or be malformed, both with all dependency lists of at  *)
(* most two entries; two nodes with all handlers and many configs; and the *)
(* empty definition and a nameless one.                                    *)
(*                                                                         *)
(* Template strings are explored beside the empty definition, so that the  *)
(* two state spaces add up and do not multiply.                            *)
(***************************************************************************)
EXTENDS AcceptedDefinitions, TLC

CONSTANTS a, b, c, unknown, malformed

Lists(S) == {<<>>} \cup {<<x>> : x \in S} \cup {<<x, y>> : x, y \in S}

Word == Text(<<"text">>)

LlmNode(x, l) ==
  [id |-> x, deps |-> l, handler |-> "llm_service", config |-> [prompt |-> Word]]

Node(x, S) == {LlmNode(x, l) : l \in Lists(S)}

Nodes(S, T) == UNION {Node(x, T) : x \in S}

\* Strings: blank, plain, one reference, a reference in a text, a malformed one.
SomeStrings ==
  {Text(<<>>), Word, Text(Placeholder), Text(<<"text">> \o Placeholder),
   Text(<<"{", "{", "text">>)}

SomeNumbers == {Scalar("number", text) : text \in {"7", "-1", "0.5"}}

SomeValues ==
  SomeStrings \cup SomeNumbers \cup {Scalar("null", "None"), Scalar("bool", "True")}

AnyConfigs == {<<>>, [other |-> Word], [url |-> Word], [prompt |-> Word]}

ExternalConfigs ==
  {[url |-> v] : v \in SomeStrings \cup SomeNumbers}
    \cup {[url |-> Word, latency_ms |-> v] : v \in SomeValues}

LlmConfigs ==
  {[prompt |-> v] : v \in SomeStrings \cup SomeNumbers}
    \cup {[prompt |-> Word, other |-> v] : v \in SomeStrings}

HandlerConfigs ==
  Handler \X AnyConfigs
    \cup {"call_external_service"} \X ExternalConfigs
    \cup {"llm_service"} \X LlmConfigs

HandlerNode(x, l) ==
  {[id |-> x, deps |-> l, handler |-> hc[1], config |-> hc[2]] : hc \in HandlerConfigs}

SmallLists ==
  {<<>>}
    \cup {<<m, n, o>> : m \in Node(a, {a, b, c, unknown}),
                        n \in Node(b, {a, b, c, unknown}),
                        o \in Node(c, {a, b, c, unknown})}
    \cup {<<m, n>> : m \in Nodes({a, b, malformed}, {a, b, malformed}),
                     n \in Nodes({a, b, malformed}, {a, b, malformed})}
    \cup {<<m, n>> : m \in HandlerNode(a, <<>>), n \in HandlerNode(b, <<a>>)}

SmallDefinitions ==
  {[named |-> TRUE, nodes |-> l] : l \in SmallLists}
    \cup {[named |-> FALSE, nodes |-> <<LlmNode(a, <<>>)>>]}

\* Outputs of a dependency "d": scalars of every kind, a list, and objects
\* whose keys look like list indexes.
Scalars == {Scalar("null", "None"), Scalar("bool", "True"), Scalar("bool", "False"),
            Scalar("number", "7"), Scalar("string", "s"), NonFinite}

SomeOutputs ==
  {[d |-> v] :
     v \in {Object([name |-> x]) : x \in Scalars}
             \cup {Object([name |-> List(<<x, Scalar("string", "s")>>)]) : x \in Scalars}
             \cup {Object([name |-> Object("0" :> List(<<x>>))]) : x \in Scalars}
             \cup {Object(<<>>), Object([name |-> List(<<>>)])}}

SomeReferences ==
  {[node |-> "other", path |-> <<"name">>]}
    \cup {[node |-> "d", path |-> p] :
            p \in {<<"name">>, <<"0">>}
                    \cup {<<"name", k>> : k \in {"name"} \cup DOMAIN Index}
                    \cup {<<"name", "0", k>> : k \in {"00", "1"}}}

\* The input node passes on a string, a number or a list; templates refer to
\* fields of the outputs of a, present or not.
SomeInputs ==
  {[name |-> v] : v \in {Scalar("string", "s"), Scalar("number", "7"), List(<<>>)}}

RootReferences ==
  {[node |-> a, path |-> p] : p \in {<<"name">>, <<"response">>, <<"url">>, <<"input">>}}

DefinitionsInit == SearchInit /\ TemplateInit

DefinitionsNext ==
  \/ SearchNext /\ UNCHANGED value
  \/ named /\ nodes = <<>> /\ (\E t \in Token : Extend(t)) /\ UNCHANGED searchVars

DefinitionsSpec ==
  /\ DefinitionsInit
  /\ [][DefinitionsNext]_<<searchVars, value>>
  /\ WF_searchVars(SearchNext /\ UNCHANGED value)

=============================================================================
