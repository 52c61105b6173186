---------------------------- MODULE ServiceMatch ----------------------------
(***************************************************************************)
(* Names, queries and filters of the registry (internal/registry/model.go, *)
(* selector.go): pure functions, from what a request carries to what an    *)
(* instance must be.                                                       *)
(*                                                                         *)
(* A service name is the sequence of its parts between dots, <<>> the      *)
(* empty one; a part is a string, which may be blank.  White space is      *)
(* trimmed before this module.  A selector's text is a sequence of tokens. *)
(***************************************************************************)
EXTENDS Integers, Sequences, FiniteSets, FiniteSetsExt, SequencesExt

CONSTANTS
  Dimensions,    \* parts of a structured service name: 5 in the code
  Extends,       \* pairs <<p, q>> of parts where the text of p begins that of q
  DefaultWeight, \* DefaultEndpointWeight
  MaxPort        \* 65535 in the code

ASSUME NamesAssumption == Dimensions \in Nat \ {0} /\ DefaultWeight \in Nat \ {0} /\ MaxPort \in Nat

-----------------------------------------------------------------------------
\* Service names.

\* What is not given.
Blank == ""

NoDimensions == [i \in 1 .. Dimensions |-> Blank]

\* ParseServiceName: a name of as many parts as there are dimensions.
Parsed(service) ==
  IF Len(service) = Dimensions /\ Blank \notin ToSet(service) THEN service ELSE NoDimensions

\* What the name tells fills the dimensions that are not given.
Filled(service, dims) ==
  [i \in 1 .. Dimensions |-> IF dims[i] = Blank THEN Parsed(service)[i] ELSE dims[i]]

HasAny(dims) == \E i \in DOMAIN dims : dims[i] # Blank
HasAll(dims) == \A i \in DOMAIN dims : dims[i] # Blank
HasGap(dims) == \E i, j \in DOMAIN dims : i < j /\ dims[i] = Blank /\ dims[j] # Blank

\* The dimensions before the first blank.
Hierarchy(dims) ==
  SubSeq(dims, 1, Max({n \in 0 .. Dimensions : \A i \in 1 .. n : dims[i] # Blank}))

\* NormalizeStructuredServiceIdentity: the name and its dimensions, or no name
\* when they are refused.  A name that fills all dimensions is composed of them.
Identity(service, dims) ==
  LET filled == Filled(service, dims)
      refused == HasAny(filled) /\ (~HasAll(filled) \/ service \notin {<<>>, filled})
  IN [service |-> IF refused THEN <<>> ELSE IF HasAll(filled) THEN filled ELSE service,
      dims |-> filled]

\* The text of prefix begins that of service: its last part may be cut short.
HasPrefix(service, prefix) ==
  LET n == Len(prefix)
  IN /\ n <= Len(service)
     /\ \A i \in 1 .. n - 1 : service[i] = prefix[i]
     /\ service[n] = prefix[n] \/ <<prefix[n], service[n]>> \in Extends

-----------------------------------------------------------------------------
\* Endpoints.

\* NormalizeRegisterInput: whether it accepts the endpoints, and what it makes
\* of them.
Named(e) == [e EXCEPT !.name = IF @ = Blank THEN e.protocol ELSE @]

AcceptsEndpoints(endpoints) ==
  /\ endpoints # <<>>
  /\ \A i \in DOMAIN endpoints :
       /\ endpoints[i].protocol # Blank /\ endpoints[i].host # Blank
       /\ endpoints[i].port \in 1 .. MaxPort /\ endpoints[i].weight >= 0
       /\ \A j \in 1 .. i - 1 : Named(endpoints[j]).name # Named(endpoints[i]).name

Normalized(endpoints) ==
  [i \in DOMAIN endpoints |->
     [Named(endpoints[i]) EXCEPT !.weight = IF @ = 0 THEN DefaultWeight ELSE @]]

\* FilterEndpoints: by name or by protocol; all of them when none is named.
Serves(e, expected) == expected \in {e.name, e.protocol}

Filtered(endpoints, expected) ==
  IF expected = Blank THEN endpoints ELSE SelectSeq(endpoints, LAMBDA e : Serves(e, expected))

\* Whether any are left.
AnyServes(endpoints, expected) == \E i \in DOMAIN endpoints : Serves(endpoints[i], expected)

-----------------------------------------------------------------------------
\* Selectors.

\* The pieces of a text between the positions in cuts.
Pieces(text, cuts) ==
  LET ends == {0, Len(text) + 1} \cup cuts
  IN {SubSeq(text, i + 1, Min({j \in ends : j > i}) - 1) : i \in ends \ {Len(text) + 1}}

Depth(text, i) ==
  Cardinality({j \in 1 .. i : text[j] = "("}) - Cardinality({j \in 1 .. i : text[j] = ")"})

\* splitSelectorExpressions: the commas between the expressions.
TopCommas(text) == {i \in DOMAIN text : text[i] = "," /\ Depth(text, i) = 0}

\* Whether it can be done, and the expressions.
Balanced(text) == Depth(text, Len(text)) = 0 /\ \A i \in DOMAIN text : Depth(text, i) >= 0
Expressions(text) == Pieces(text, TopCommas(text))

Requirement(key, op, values) == [key |-> key, op |-> op, values |-> values]

\* parseSelectorExpression: the first operator that the expression holds, in
\* this order, decides; key and values are what is left and right of it.
Operators == <<[token |-> "notin", op |-> "not_in"], [token |-> "in", op |-> "in"],
               [token |-> "!=", op |-> "not_equals"], [token |-> "==", op |-> "equals"],
               [token |-> "=", op |-> "equals"]>>

Binary(e, o) ==
  LET at == Min({i \in DOMAIN e : e[i] = o.token})
      right == SubSeq(e, at + 1, Len(e))
      isSet == o.op \in {"in", "not_in"}
      enclosed == Len(right) > 1 /\ Head(right) = "(" /\ Last(right) = ")"
      inner == SubSeq(right, 2, Len(right) - 1)
  IN Requirement(SubSeq(e, 1, at - 1), o.op,
       IF ~isSet THEN {right}
       ELSE IF enclosed THEN Pieces(inner, {i \in DOMAIN inner : inner[i] = ","})
       ELSE {<<>>})

ParseExpression(e) ==
  LET there == {i \in DOMAIN Operators : Operators[i].token \in ToSet(e)}
  IN IF there # {} THEN Binary(e, Operators[Min(there)])
     ELSE IF e # <<>> /\ Head(e) = "!" THEN Requirement(Tail(e), "not_exists", {})
     ELSE Requirement(e, "exists", {})

\* An expression without a key, or with an empty value, is refused.
AcceptsSelector(text) ==
  text = <<>> \/ (/\ Balanced(text)
                  /\ \A e \in Expressions(text) :
                       LET r == ParseExpression(e) IN r.key # <<>> /\ <<>> \notin r.values)

\* parseLabelSelectors: the requirements of a text, all of which must hold.
Selector(text) == IF text = <<>> THEN {} ELSE {ParseExpression(e) : e \in Expressions(text)}

\* Mutant of MatchesRequirement: what is not there cannot differ.
MatchesPresent(labels, r) ==
  LET exists == r.key \in DOMAIN labels
      hit == exists /\ labels[r.key] \in r.values
  IN CASE r.op = "exists" -> exists
       [] r.op = "not_exists" -> ~exists
       [] r.op \in {"equals", "in"} -> hit
       [] r.op \in {"not_equals", "not_in"} -> exists /\ ~hit

\* matchesLabelRequirement.
MatchesRequirement(labels, r) ==
  LET exists == r.key \in DOMAIN labels
      hit == exists /\ labels[r.key] \in r.values
  IN CASE r.op = "exists" -> exists
       [] r.op = "not_exists" -> ~exists
       [] r.op \in {"equals", "in"} -> hit
       [] r.op \in {"not_equals", "not_in"} -> ~hit

-----------------------------------------------------------------------------
\* Queries.

\* ParseQuery, as far as it accepts: the repeated names and prefixes without
\* blanks, and the dimensions turned into a name or a prefix.
NamesOf(request) == ToSet(request.services) \ {<<>>}

HeadName(request) == IF request.services = <<>> THEN <<>> ELSE Head(request.services)

FirstName(request) ==
  IF \E s \in NamesOf(request) : NamesOf(request) = {s}
  THEN CHOOSE s \in NamesOf(request) : TRUE
  ELSE HeadName(request)

AcceptsQuery(request) ==
  LET filled == Filled(FirstName(request), request.dims)
  IN /\ request.namespace # Blank /\ request.limit >= 0
     /\ HasAny(filled) => /\ ~HasGap(filled)
                          /\ HasAll(filled) => FirstName(request) \in {<<>>, filled}
     /\ AcceptsSelector(request.selector)

\* Mutant of Query: dimensions are taken for a name whether or not they are all given.
QueryNames(request) ==
  LET filled == Filled(FirstName(request), request.dims)
      name == IF HasAny(filled) THEN Hierarchy(filled) ELSE FirstName(request)
  IN [namespace |-> request.namespace, service |-> name,
      services |-> NamesOf(request) \cup ({name} \ {<<>>}), prefixes |-> request.prefixes \ {<<>>},
      zone |-> request.zone, endpoint |-> request.endpoint,
      selector |-> Selector(request.selector), limit |-> request.limit]

Query(request) ==
  LET filled == Filled(FirstName(request), request.dims)
      whole == HasAll(filled)
      parts == IF whole THEN <<>> ELSE Hierarchy(filled)
  IN [namespace |-> request.namespace,
      service |-> IF whole THEN filled ELSE FirstName(request),
      services |-> NamesOf(request) \cup (IF whole THEN {filled} ELSE {}),
      prefixes |-> (request.prefixes \cup {parts}) \ {<<>>},
      zone |-> request.zone, endpoint |-> request.endpoint,
      selector |-> Selector(request.selector), limit |-> request.limit]

\* MatchServiceQuery.
MatchService(service, q) ==
  /\ q.service \in {<<>>, service}
  /\ q.services # {} => service \in q.services
  /\ q.prefixes # {} => \E p \in q.prefixes : HasPrefix(service, p)

\* MatchQuery.
MatchQuery(v, q) ==
  /\ q.namespace \in {Blank, v.namespace}
  /\ MatchService(v.service, q)
  /\ q.zone \in {Blank, v.zone}
  /\ \A r \in q.selector : MatchesRequirement(v.labels, r)
  /\ q.endpoint # Blank => AnyServes(v.endpoints, q.endpoint)

=============================================================================
