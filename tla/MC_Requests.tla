---------------------------- MODULE MC_Requests ----------------------------
(* Requests for TLC: a few configurations of an API, and requests that     *)
(* differ in what their handlers look at.                                  *)
EXTENDS Requests, TLC

CONSTANTS a, c1, c2

Request(method, client) == [method |-> method, protocol |-> "https", path |-> a, client |-> client]

FewKinds == {Request("GET", c1), Request("POST", c1), Request("GET", c2), Request("OPTIONS", c2)}

Anyhow == [method |-> {}, protocol |-> {}, path |-> {}]
Everything == [matches |-> {a}, conjunction |-> FALSE]

\* "changes" has two members, and "secure" two criteria; a request may be in
\* both of them.
Declared == [reads   |-> {[Anyhow EXCEPT !.method = {"GET"}]},
             changes |-> {[Anyhow EXCEPT !.method = {"POST"}], [Anyhow EXCEPT !.method = {"PUT"}]},
             secure  |-> {[Anyhow EXCEPT !.protocol = {"https"}, !.path = {Everything}]}]

Plainest == [groups |-> Declared, allow |-> {}, deny |-> {}, parse |-> FALSE, filter |-> <<>>,
             throttling |-> <<>>, cors |-> <<>>, gatewayCors |-> FALSE, breaker |-> FALSE,
             authentication |-> <<>>, cache |-> <<>>, router |-> FALSE, discovery |-> FALSE,
             request |-> <<>>, response |-> <<>>, log |-> TRUE]

Auth(on, loads) == [on |-> on, loads |-> loads]

SomeApis ==
    { [Plainest EXCEPT !.throttling = <<{}>>, !.cache = <<{}>>, !.breaker = TRUE],
      [Plainest EXCEPT !.throttling = <<{"reads"}, {}>>, !.filter = <<{"changes"}, {}>>],
      [Plainest EXCEPT !.allow = {"reads", "changes"}, !.parse = TRUE, !.cache = <<{"changes"}, {}>>,
                       !.authentication = <<Auth({}, TRUE), Auth({"reads"}, TRUE), Auth({"changes"}, FALSE)>>],
      [Plainest EXCEPT !.deny = {"changes", "reads"}, !.gatewayCors = TRUE, !.log = FALSE],
      [Plainest EXCEPT !.deny = {"changes"}, !.cors = <<{"reads"}, {}>>, !.router = TRUE, !.discovery = TRUE],
      [Plainest EXCEPT !.cache = <<{}>>, !.breaker = TRUE, !.request = <<{"secure"}>>,
                       !.response = <<{"reads"}, {"changes"}>>],
      [Plainest EXCEPT !.response = <<{"reads", "secure"}>>, !.breaker = TRUE] }
=============================================================================
