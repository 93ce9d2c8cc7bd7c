------------------------ MODULE AcceptedDefinitions ------------------------
(***************************************************************************)
(* What becomes of an accepted definition: the dispatcher resolves the     *)
(* input of a ready node from its config and the outputs of its            *)
(* dependencies, and a handler runs on that input.  Both make checks of    *)
(* their own, some on the config as it was submitted and some on what the  *)
(* resolver made of it.                                                    *)
(*                                                                         *)
(* The mocks are taken with their default settings, under which no failure *)
(* is simulated.                                                           *)
(***************************************************************************)
EXTENDS DefinitionValidation, NodeInputTemplates

CONSTANTS
  ExecutionInput,  \* what a trigger request may store as input
  NodeReference    \* what the references in configs may stand for

\* An exception, out of the resolver or out of a handler.
Raised == [kind |-> "raised"]

-----------------------------------------------------------------------------
(***************************************************************************)
(* The handlers                                                            *)
(***************************************************************************)
\* Numbers that are a non-negative int (bool is a kind of its own here).
NonNegativeInt == {Scalar("number", text) : text \in {"0", "7"}}

\* _latency_ms does not raise.  It is given the config as submitted.
LatencyTaken(config) ==
  "latency_ms" \in DOMAIN config =>
    \/ config["latency_ms"].kind = "null"
    \/ config["latency_ms"] \in NonNegativeInt

\* MockExternalServiceNodeHandler.execute
CallExternalService(config, given) ==
  IF NonBlank(config, "url") /\ LatencyTaken(config)
    THEN Object([status |-> Text(<<"text">>), url |-> config["url"], input |-> given])
    ELSE Raised

\* MockLlmServiceNodeHandler.execute.  It is given the resolved prompt.
Complete(given) ==
  IF "prompt" \in DOMAIN given.fields /\ given.fields["prompt"].kind = "string"
    THEN Object([response |-> Text(<<"text">> \o given.fields["prompt"].is)])
    ELSE Raised

\* WorkerTaskExecutor.execute.  No other handler is registered but that of the
\* barriers, which raises outside integration tests.
Execute(n, given) ==
  CASE n.handler \in {"input", "output"} -> given
    [] n.handler = "call_external_service" -> CallExternalService(n.config, given)
    [] n.handler = "llm_service" -> Complete(given)
    [] OTHER -> Raised

\* Node n from its dispatch to its output, outs being the outputs so far.
Output(n, input, r, outs) ==
  LET given == Resolve(n, input, r, [d \in Range(n.deps) |-> outs[d]])
  IN  IF given = Unresolved THEN Raised ELSE Execute(n, given)

\* The outputs that come about when whatever is ready is dispatched and run,
\* wave after wave.
Outcome(input, r) ==
  LET output(x, outs) ==
        Output(nodes[CHOOSE i \in DOMAIN nodes : nodes[i].id = x], input, r, outs)
      after[k \in 0..Len(nodes)] ==
        IF k = 0 THEN <<>>
        ELSE LET outs  == after[k - 1]
                 ready == {nodes[i].id : i \in ReadyAfter(DOMAIN outs)}
                 ran   == {x \in ready : output(x, outs) # Raised}
             IN  [x \in DOMAIN outs \cup ran |->
                    IF x \in DOMAIN outs THEN outs[x] ELSE output(x, outs)]
  IN  after[Len(nodes)]

-----------------------------------------------------------------------------
(***************************************************************************)
(* Properties                                                              *)
(***************************************************************************)
\* The string s can be filled in: its templates are well formed, and r
\* addresses a value in outs, which is a scalar where text is needed.
Fillable(s, r, outs) ==
  /\ WellFormed(s)
  /\ (\E i \in DOMAIN s : PlaceholderAt(s, i)) =>
       \E w \in Addressed(r, outs) : s = Placeholder \/ ~Structured(w)

\* What is wrong with node n and no rule looks at: a template that cannot be
\* filled in, a latency_ms that is neither null nor a non-negative integer, or
\* a prompt that consists of one reference, to something that is no string.
LateFault(n, r, outs) ==
  \/ /\ n.handler \notin {"input", "output"}
     /\ \E key \in DOMAIN n.config :
          n.config[key].kind = "string" /\ ~Fillable(n.config[key].is, r, outs)
  \/ /\ n.handler = "call_external_service"
     /\ "latency_ms" \in DOMAIN n.config
     /\ n.config["latency_ms"] \notin NonNegativeInt \cup {Scalar("null", "None")}
  \/ /\ n.handler = "llm_service"
     /\ "prompt" \in DOMAIN n.config /\ n.config["prompt"] = Text(Placeholder)
     /\ \A w \in Addressed(r, outs) : w.kind # "string"

\* Validator, resolver, scheduler and handlers agree about what can be run: in
\* an accepted definition a node whose dependencies complete completes as well,
\* unless there is a fault in it that no rule looks at.  So no accepted node is
\* without a handler, without the configuration its handler requires, or never
\* ready; and where the faults are is known from the config and the outputs.
OnlyLateFaultsStop ==
  Accepted =>
    \A i \in DOMAIN nodes, input \in ExecutionInput, r \in NodeReference :
      LET outs == Outcome(input, r)
          done == DOMAIN outs
          deps == Range(nodes[i].deps)
      IN  nodes[i].id \in done <=>
            /\ deps \subseteq done
            /\ ~LateFault(nodes[i], r, [d \in deps |-> outs[d]])

=============================================================================
