------------------------- MODULE NodeInputTemplates -------------------------
(***************************************************************************)
(* Node input templates: the parser that finds the references in a string  *)
(* of a node's config, and the resolver that puts dependency outputs in    *)
(* their place when the node is dispatched.                                *)
(*                                                                         *)
(* A string is a sequence of braces and of the runs of other text between  *)
(* them.  A run either has the form of a reference expression, such as     *)
(* "fetch.items.0.id", or it has not: "ref" and "text".  No reference      *)
(* expression contains a brace, so an expression is well formed exactly    *)
(* when it is one "ref".                                                   *)
(***************************************************************************)
EXTENDS Naturals, Sequences, FiniteSetsExt, SequencesExt

CONSTANTS
  MaxLength,   \* bound on the strings explored
  Outputs,     \* what dependency_outputs may be
  References   \* the references the runs "ref" may stand for

Run == {"ref", "text"}

Token == {"{", "}"} \cup Run

VARIABLE value   \* the string under consideration

TemplateInit == value = <<>>

\* Strings grow at the end.  Two runs side by side would be one run.
Extend(t) ==
  /\ Len(value) < MaxLength
  /\ value # <<>> => ~(Last(value) \in Run /\ t \in Run)
  /\ value' = Append(value, t)

-----------------------------------------------------------------------------
(***************************************************************************)
(* TemplateParser                                                          *)
(***************************************************************************)
\* brace occurs twice in a row at position i of s.
DelimiterAt(s, brace, i) ==
  i + 1 \in DOMAIN s /\ s[i] = brace /\ s[i + 1] = brace

\* s.find(delimiter, p), or 0.
Find(s, brace, p) ==
  LET found == {i \in p..Len(s) : DelimiterAt(s, brace, i)}
  IN  IF found = {} THEN 0 ELSE Min(found)

\* _TEMPLATE_DELIMITER_PATTERN.finditer: from an opening delimiter to the first
\* closing one after it; the next match starts where this one ends.
Matches(s) ==
  LET from[p \in 1..(Len(s) + 1)] ==
        LET open  == Find(s, "{", p)
            close == IF open = 0 THEN 0 ELSE Find(s, "}", open + 2)
        IN  IF close = 0 THEN <<>>
            ELSE <<[start |-> open, end |-> close + 2]>> \o from[close + 2]
  IN  from[1]

\* The positions the while loop of _validate_delimiters stops at.
Delimiters(s, brace) ==
  LET from[p \in 1..(Len(s) + 1)] ==
        LET i == Find(s, brace, p) IN IF i = 0 THEN {} ELSE {i} \cup from[i + 2]
  IN  from[1]

Covered(matches, i) ==
  \E k \in DOMAIN matches : matches[k].start <= i /\ i < matches[k].end

\* Mutant: closing delimiters are not looked for.
OpeningUnmatched(s, matches) == \E i \in Delimiters(s, "{") : ~Covered(matches, i)

\* _validate_delimiters
Unmatched(s, matches) ==
  \E brace \in {"{", "}"} : \E i \in Delimiters(s, brace) : ~Covered(matches, i)

\* template[2:-2], which _parse_reference requires to be a reference.
Expression(s, m) == SubSeq(s, m.start + 2, m.end - 3)

Literal(text) == [isReference |-> FALSE, text |-> text]

Reference == [isReference |-> TRUE, text |-> <<>>]

\* Mutant: the text after the last reference is lost.
NothingLeft(s, cursor) == <<>>

\* value[cursor:], when there is any.
Remainder(s, cursor) ==
  IF cursor > Len(s) THEN <<>> ELSE <<Literal(SubSeq(s, cursor, Len(s)))>>

\* The loop over the matches: a literal where there is text before the match,
\* then the reference.
Segments(s, matches) ==
  LET add(acc, m) ==
        [cursor   |-> m.end,
         segments |-> acc.segments
                        \o (IF m.start > acc.cursor
                              THEN <<Literal(SubSeq(s, acc.cursor, m.start - 1))>>
                              ELSE <<>>)
                        \o <<Reference>>]
      scanned == FoldLeft(add, [cursor |-> 1, segments |-> <<>>], matches)
  IN  scanned.segments \o Remainder(s, scanned.cursor)

Parsed(as, segments) == [as |-> as, segments |-> segments]

\* TemplateParser.parse.  A reference that is the whole string is returned by
\* itself, without a segment list.
Parse(s) ==
  LET matches == Matches(s)
  IN  IF Find(s, "{", 1) = 0 /\ Find(s, "}", 1) = 0
        THEN Parsed("literal", <<Literal(s)>>)
      ELSE IF \/ Unmatched(s, matches)
              \/ \E m \in Range(matches) : Expression(s, m) # <<"ref">>
        THEN Parsed("error", <<>>)
      ELSE IF matches = <<[start |-> 1, end |-> Len(s) + 1]>>
        THEN Parsed("reference", <<Reference>>)
      ELSE Parsed("segments", Segments(s, matches))

-----------------------------------------------------------------------------
(***************************************************************************)
(* NodeInputResolver                                                       *)
(*                                                                         *)
(* A JSON value has a kind, and either the text Python writes it with (a   *)
(* scalar), items (a list) or fields (an object).                          *)
(***************************************************************************)
Scalar(kind, text) == [kind |-> kind, is |-> <<text>>]

List(items) == [kind |-> "list", items |-> items]

Object(fields) == [kind |-> "object", fields |-> fields]

Unresolved == [kind |-> "unresolved"]

\* The path segments that are decimal, and int() of them.
Index == [k \in {"0", "00", "1"} |-> IF k = "1" THEN 1 ELSE 0]

\* Mutant: a decimal segment is always a list index.
IntoByIndex(current, key) ==
  CASE current.kind = "object" /\ key \in DOMAIN current.fields \ DOMAIN Index ->
         current.fields[key]
    [] current.kind = "list" /\ key \in DOMAIN Index
                             /\ Index[key] < Len(current.items) ->
         current.items[Index[key] + 1]
    [] OTHER -> Unresolved

\* One round of the loop in _lookup.
Into(current, key) ==
  CASE current.kind = "object" /\ key \in DOMAIN current.fields ->
         current.fields[key]
    [] current.kind = "list" /\ key \in DOMAIN Index
                             /\ Index[key] < Len(current.items) ->
         current.items[Index[key] + 1]
    [] OTHER -> Unresolved

Lookup(r, outs) ==
  IF r.node \in DOMAIN outs THEN FoldLeft(Into, outs[r.node], r.path)
                            ELSE Unresolved

\* A float that JSON cannot write.  The database refuses them, so that only an
\* output that did not come from it can hold one; the resolver looks anyway.
NonFinite == Scalar("number", "inf")

RECURSIVE Finite(_)
Finite(v) ==
  CASE v.kind = "list" -> \A i \in DOMAIN v.items : Finite(v.items[i])
    [] v.kind = "object" -> \A k \in DOMAIN v.fields : Finite(v.fields[k])
    [] OTHER -> v # NonFinite

\* _copy_json_value
CopyJson(v) == IF Finite(v) THEN v ELSE Unresolved

Structured(v) == v.kind \in {"list", "object"}

\* _interpolate: the text of a scalar, in JSON's spelling.
Interpolate(v) ==
  CASE v.kind = "null" -> <<"null">>
    [] v.kind = "bool" -> IF v.is = <<"True">> THEN <<"true">> ELSE <<"false">>
    [] OTHER -> v.is

\* _resolve_string of a parsed string, every reference of it standing for r.
ResolveString(parsed, r, outs) ==
  LET found == Lookup(r, outs)
      text(segment) == IF segment.isReference THEN Interpolate(found)
                                              ELSE segment.text
  IN  CASE parsed.as = "literal" -> [kind |-> "string", is |-> parsed.segments[1].text]
        [] parsed.as = "reference" -> CopyJson(found)
        [] parsed.as = "segments" /\ ~Structured(found) /\ found # Unresolved ->
             [kind |-> "string",
              is   |-> FlattenSeq([i \in DOMAIN parsed.segments |->
                                     text(parsed.segments[i])])]
        [] OTHER -> Unresolved

\* _resolve_value and _resolve_object.  An exception for one part is an
\* exception for the whole.
RECURSIVE ResolveValue(_, _, _)
ResolveValue(v, r, outs) ==
  LET resolved(f) == [k \in DOMAIN f |-> ResolveValue(f[k], r, outs)]
      whole(parts, copy) == IF Unresolved \in Range(parts) THEN Unresolved ELSE copy
      items  == resolved(v.items)
      fields == resolved(v.fields)
  IN  CASE v.kind = "string" -> ResolveString(Parse(v.is), r, outs)
        [] v.kind = "list" -> whole(items, List(items))
        [] v.kind = "object" -> whole(fields, Object(fields))
        [] OTHER -> CopyJson(v)

\* NodeInputResolver.resolve
Resolve(node, input, r, outs) ==
  CASE node.handler = "input" -> CopyJson(Object(input))
    [] node.handler = "output" -> CopyJson(Object(outs))
    [] OTHER -> ResolveValue(Object(node.config), r, outs)

-----------------------------------------------------------------------------
(***************************************************************************)
(* Properties                                                              *)
(***************************************************************************)
Placeholder == <<"{", "{", "ref", "}", "}">>

PlaceholderAt(s, i) == i + 4 \in DOMAIN s /\ SubSeq(s, i, i + 4) = Placeholder

Plain(s) == \A i \in DOMAIN s : ~DelimiterAt(s, "{", i) /\ ~DelimiterAt(s, "}", i)

\* The grammar of templates: plain text and placeholders in turn, where a
\* placeholder does not follow an opening brace.
WellFormed(s) ==
  LET from[p \in 1..(Len(s) + 1)] ==
        \/ Plain(SubSeq(s, p, Len(s)))
        \/ \E i \in p..(Len(s) - 4) :
             /\ PlaceholderAt(s, i)
             /\ Plain(SubSeq(s, p, i - 1))
             /\ i > p => s[i - 1] # "{"
             /\ from[i + 5]
  IN  from[1]

\* The parser accepts exactly the strings of the grammar: its two passes, one
\* over the matches and one over the delimiters, never disagree about where a
\* template starts and ends.
ParserAcceptsGrammar == Parse(value).as # "error" <=> WellFormed(value)

\* Nothing of an accepted string is lost, repeated or moved: its segments, with
\* the placeholders written back, are the string again.
SegmentsReassemble ==
  LET parsed == Parse(value)
      written(segment) == IF segment.isReference THEN Placeholder ELSE segment.text
  IN  parsed.as # "error" =>
        value = FlattenSeq([i \in DOMAIN parsed.segments |->
                              written(parsed.segments[i])])

\* The paths into v, and what is at them.
RECURSIVE Places(_)
Places(v) ==
  {[path |-> <<>>, at |-> v]} \cup
  CASE v.kind = "object" ->
         UNION {{[path |-> <<k>> \o q.path, at |-> q.at] : q \in Places(v.fields[k])} :
                  k \in DOMAIN v.fields}
    [] v.kind = "list" ->
         UNION {{[path |-> <<k>> \o q.path, at |-> q.at] :
                   q \in Places(v.items[Index[k] + 1])} :
                  k \in {j \in DOMAIN Index : Index[j] + 1 \in DOMAIN v.items}}
    [] OTHER -> {}

Addressed(r, outs) ==
  IF r.node \notin DOMAIN outs THEN {}
  ELSE {q.at : q \in {p \in Places(outs[r.node]) : p.path = r.path}}

Text(s) == [kind |-> "string", is |-> s]

\* What the worker is given for a node whose config has the string s in a list.
WorkerInput(handler, s, r, outs) ==
  Resolve([handler |-> handler, config |-> [field |-> List(<<Text(s), Text(<<>>)>>)]],
          outs, r, outs)

\* The resolved string, or Unresolved.
Filled(s, r, outs) ==
  LET input == WorkerInput("llm_service", s, r, outs)
  IN  IF input = Unresolved THEN input ELSE input.fields["field"].items[1]

\* What a worker is given is JSON, and what the template says: a template that
\* is one reference becomes the value of the dependency's output it addresses,
\* and any other becomes a string in which each placeholder has become text.
\* Resolution fails only for want of such a value: there is none, it is not
\* finite, or it is structured where text is needed.  Plain text needs no
\* dependency.
ResolvesToAddressed ==
  LET holes == {i \in DOMAIN value : PlaceholderAt(value, i)}
  IN  /\ Plain(value) => \E r \in References : Filled(value, r, <<>>) = Text(value)
      /\ holes # {} /\ WellFormed(value) =>
           \A outs \in Outputs, r \in References :
             LET v == Filled(value, r, outs)
                 values == Addressed(r, outs)
             IN  /\ IF value = Placeholder
                      THEN {v} = IF \E w \in values : Finite(w) THEN values
                                                               ELSE {Unresolved}
                    ELSE IF \E w \in values : ~Structured(w)
                      THEN /\ v.kind = "string"
                           /\ Len(v.is) = Len(value) - 4 * Cardinality(holes)
                    ELSE v = Unresolved
                 /\ \A h \in {"input", "output", "llm_service"} :
                      Finite(WorkerInput(h, value, r, outs))

=============================================================================
