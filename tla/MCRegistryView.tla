--------------------------- MODULE MCRegistryView ---------------------------
(* RegistryView with service names of two dimensions, and requests that    *)
(* between them use every filter.                                          *)
EXTENDS RegistryView, TLC

Endpoint(name, protocol, host, weight) ==
  [name |-> name, protocol |-> protocol, host |-> host, port |-> 1, weight |-> weight]
Http == <<Endpoint("", "http", "h", 0)>>
Both == <<Endpoint("metrics", "http", "::", 0), Endpoint("admin", "http", "h", 1)>>
Twice == <<Endpoint("http", "http", "h", 0), Endpoint("", "http", "h", 0)>>

Input(service, dims, zone, labels, endpoints) ==
  [namespace |-> "prod", service |-> service, dims |-> dims, id |-> "i", zone |-> zone,
   labels |-> labels, endpoints |-> endpoints]

Gray == (<<"color">> :> <<"gray">>)
NoLabels == [k \in {} |-> <<>>]

MCInputs ==
  {Input(<<"a", "api">>, NoDimensions, "z", Gray, Http),
   Input(<<>>, <<"a", "api">>, "", NoLabels, Both),
   Input(<<"a", "job">>, <<"a", "">>, "z", (<<"color">> :> <<"red">>), Both),
   Input(<<"ab">>, NoDimensions, "z", Gray, Http),
   Input(<<"a", "api">>, <<"b", "">>, "z", Gray, Http),
   Input(<<>>, <<"a", "">>, "z", Gray, Http),
   Input(<<"ab">>, NoDimensions, "z", Gray, Twice)}

MCExtends == {<<"a", "ab">>}

MCRemotes == {{}, {Input(<<"a", "api">>, NoDimensions, "z", Gray, Both)}}

Ask == [namespace |-> "prod", services |-> <<>>, prefixes |-> {}, dims |-> NoDimensions,
        zone |-> "", endpoint |-> "", filter |-> {}, selector |-> <<>>, limit |-> 0]

Filter(filter, text) == [Ask EXCEPT !.filter = filter, !.selector = text]

MCRequests ==
  {Ask,
   [Ask EXCEPT !.limit = 1],
   [Ask EXCEPT !.services = <<<<"a", "api">>>>, !.endpoint = "http"],
   [Ask EXCEPT !.services = <<<<"ab">>>>, !.zone = "z"],
   [Ask EXCEPT !.prefixes = {<<"a">>}, !.endpoint = "metrics"],
   [Ask EXCEPT !.dims = <<"a", "">>, !.zone = "z"],
   [Ask EXCEPT !.dims = <<"a", "api">>, !.endpoint = "http"],
   [Ask EXCEPT !.dims = <<"", "api">>],
   [Ask EXCEPT !.services = <<<<"a", "api">>>>, !.dims = <<"b", "api">>],
   [Ask EXCEPT !.services = <<<<"a", "job">>>>, !.dims = <<"a", "">>],
   [Ask EXCEPT !.services = <<<<>>, <<"ab">>>>, !.prefixes = {<<>>}],
   [Ask EXCEPT !.prefixes = {<<"c">>}, !.dims = <<"a", "">>],
   Filter({Requirement(<<"color">>, "in", {<<"gray">>, <<"blue">>}),
           Requirement(<<"size">>, "not_exists", {})},
          <<"color", "in", "(", "gray", ",", "blue", ")", ",", "!", "size">>),
   Filter({Requirement(<<"color">>, "not_in", {<<"red">>})}, <<"color", "notin", "(", "red", ")">>),
   Filter({Requirement(<<"color">>, "not_equals", {<<"gray">>})}, <<"color", "!=", "gray">>),
   Filter({Requirement(<<"color">>, "exists", {}), Requirement(<<"color">>, "equals", {<<"red">>})},
          <<"color", ",", "color", "=", "red">>),
   Filter({}, <<"color", "in", "(", "gray">>),
   Filter({}, <<"color", ",", ",", "size">>),
   Filter({}, <<"color", "=">>)}

\* Two names in one request.
MCRepeated == {[Ask EXCEPT !.services = <<<<"a", "api">>, <<"ab">>>>, !.endpoint = "http"]}

=============================================================================
