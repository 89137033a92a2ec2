--------------------------- MODULE MCRoutingConfig ---------------------------
(* A small control plane: two families of one source each, three accounts, *)
(* two models, two protocols, the adapter the unit tests register, and     *)
(* six configuration files: weighted with a model map, ordered across the  *)
(* families with a pattern and a disabled account, one that needs the      *)
(* adapter, one whose accounts disagree about a capability they share, one *)
(* with two patterns and one that is refused.                              *)
EXTENDS RoutingConfig

MCProtocols == {"messages", "responses"}
MCRank == [messages |-> 1, responses |-> 2]
MCFeatures == {"tools", "file_search"}
MCAdapters == [kimi |-> [from |-> "responses", to |-> "messages",
                         features |-> [tools |-> "translated",
                                       file_search |-> "unsupported"]]]
MCFamily == [s1 |-> "f1", s2 |-> "f2"]
MCUpstreams == {"m", "u"}

AllNative == [f \in MCFeatures |-> "native"]
Adapted == [mode |-> "adapter", source |-> "messages", adapter |-> "kimi"]
Provider(endpoints, matrix, models) ==
  [endpoints |-> endpoints, native |-> endpoints, matrix |-> matrix,
   overrides |-> <<>>, features |-> AllNative, models |-> models]
Account(source, enabled, map) ==
  [provider |-> source, enabled |-> enabled, weight |-> 1, matrix |-> <<>>,
   overrides |-> <<>>, features |-> None, model_map |-> map]
Route(id, model, source, protocols, line, strategy) ==
  [id |-> id, model |-> model, provider |-> source, protocols |-> protocols,
   primary |-> Head(line), fallbacks |-> Tail(line), strategy |-> strategy,
   mode |-> "native", adapter |-> None, lossy |-> FALSE]

Weighted ==
  [providers |-> [s1 |-> Provider(MCProtocols, <<>>, {})],
   accounts |-> [a1 |-> Account("s1", TRUE, <<>>),
                 a2 |-> Account("s1", TRUE, [m |-> "u"])],
   routes |-> <<Route(1, "m", "s1", MCProtocols, <<"a1", "a2">>, "weighted")>>]

Crossing ==
  [providers |-> [s1 |-> Provider(MCProtocols, <<>>, {"m", "u"}),
                  s2 |-> Provider({"responses"}, <<>>, {})],
   accounts |-> [a1 |-> Account("s1", TRUE, <<>>),
                 a2 |-> Account("s1", FALSE, [m |-> "u"]),
                 a3 |-> Account("s2", TRUE, <<>>)],
   routes |-> <<Route(1, "m", "s1", {"responses"}, <<"a2", "a1", "a3">>, "ordered_fallback"),
                Route(2, AnyModel, "s1", {"messages"}, <<"a1">>, "ordered_fallback")>>]

\* The account declares the adapter; the provider says unsupported.
ThroughAdapter ==
  [providers |-> [s2 |-> [Provider({"messages"}, [responses |-> Unsupported], {}) EXCEPT
                            !.overrides = (AnyModel :> [matrix |-> [messages |-> Native],
                                                        features |-> None])]],
   accounts |-> [a3 |-> [Account("s2", TRUE, <<>>) EXCEPT !.matrix = [responses |-> Adapted]]],
   routes |-> <<[Route(1, "m", "s2", {"responses"}, <<"a3">>, "ordered_fallback") EXCEPT
                   !.mode = "adapter", !.adapter = "kimi", !.lossy = TRUE],
                Route(2, "m", "s2", {"messages"}, <<"a3">>, "ordered_fallback")>>]

\* Two accounts of one source say different things about one model.
Disputed ==
  [providers |-> [s2 |-> Provider(MCProtocols, <<>>, {})],
   accounts |-> [a2 |-> Account("s2", TRUE, <<>>),
                 a3 |-> [Account("s2", TRUE, <<>>) EXCEPT !.matrix = [responses |-> Adapted]]],
   routes |-> <<[Route(1, "m", "s2", {"responses"}, <<"a2", "a3">>, "ordered_fallback") EXCEPT
                   !.lossy = TRUE]>>]

\* Two patterns for the models of two sources.
Patterns ==
  [providers |-> [s1 |-> Provider(MCProtocols, <<>>, {"u"}),
                  s2 |-> Provider(MCProtocols, <<>>, {"m"})],
   accounts |-> [a1 |-> Account("s1", TRUE, <<>>), a3 |-> Account("s2", TRUE, <<>>)],
   routes |-> <<Route(1, AnyModel, "s1", {"responses"}, <<"a1">>, "ordered_fallback"),
                Route(2, AnyModel, "s2", {"responses"}, <<"a3">>, "ordered_fallback")>>]

\* Rejected: a fallback of another provider that cannot serve the protocol.
Unservable ==
  [Crossing EXCEPT !.routes = <<Route(1, "m", "s1", {"messages"}, <<"a1", "a3">>, "weighted")>>]

MCFiles == {Weighted, Crossing, ThroughAdapter, Disputed, Patterns, Unservable}

MCPresets == [f1 |-> [endpoints |-> {"responses"}, matrix |-> [responses |-> Native]],
              f2 |-> [endpoints |-> {"messages"}, matrix |-> [responses |-> Adapted]]]
MCSourceRequests == {[endpoints |-> None, added |-> {"messages"}]}
MCSourceInputs == {[endpoints |-> {"messages"}, matrix |-> [responses |-> Adapted]],
                   [endpoints |-> MCProtocols, matrix |-> <<>>]}
MCAccountInputs == {[source |-> "s2", enabled |-> TRUE, weight |-> 1]}
MCModelInputs == {[status |-> "confirmed", enabled |-> TRUE],
                  [status |-> "unavailable", enabled |-> TRUE]}
Binding(s, a, u, p, priority) ==
  [model |-> "m", source |-> s, account |-> a, upstream |-> u, protocol |-> p,
   status |-> "confirmed", enabled |-> TRUE, priority |-> priority]
MCBindingInputs == {Binding("s1", "a1", "m", "responses", 5000),
                    Binding("s2", "a3", "m", "messages", 0),
                    Binding("s1", "a1", "u", "messages", 20000)}
MCRouteIds == {<<1, 0>>, <<3, 0>>}
MCRouteInputs == {[model |-> "m", protocols |-> {"messages"}, strategy |-> "weighted",
                   lossy |-> FALSE, enabled |-> TRUE],
                  [model |-> "m", protocols |-> {"responses"}, strategy |-> "ordered_fallback",
                   lossy |-> FALSE, enabled |-> FALSE]}
Line(s, a, u) == [source |-> s, account |-> a, upstream |-> u]
MCLineLists == {<<>>, <<Line("s1", "a2", "u"), Line("s1", "a1", "m")>>,
                <<Line("s1", "a1", "m"), Line("s2", "a3", "m")>>}
MCCapInputs == {[status |-> "confirmed", cap |-> Native, features |-> AllNative],
                [status |-> "confirmed", cap |-> Adapted, features |-> AllNative],
                [status |-> "unavailable", cap |-> Native, features |-> AllNative]}

=============================================================================
