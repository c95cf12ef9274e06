--------------------------- MODULE MCPlanExecutor ---------------------------
(***************************************************************************)
(* The plan every template makes, and plans of other shapes: a chain, a    *)
(* diamond beside a group without calls, an unknown dependency, a cycle.   *)
(***************************************************************************)
EXTENDS PlanExecutor

T == TRUE
F == FALSE

Template ==
  [order |-> <<"market_data", "risk_analysis", "research_context">>,
   deps |-> [market_data |-> {}, risk_analysis |-> {"market_data"},
             research_context |-> {"market_data"}],
   required |-> [market_data |-> <<T, F, T>>, risk_analysis |-> <<T, T>>,
                 research_context |-> <<F>>]]

Chain ==
  [order |-> <<"c", "b", "a">>,
   deps |-> [a |-> {}, b |-> {"a"}, c |-> {"a", "b"}],
   required |-> [a |-> <<F, T>>, b |-> <<T>>, c |-> <<F>>]]

Diamond ==
  [order |-> <<"a", "e", "b", "c", "d">>,
   deps |-> [a |-> {}, b |-> {"a"}, c |-> {"a"}, d |-> {"b", "c"}, e |-> {}],
   required |-> [a |-> <<T>>, b |-> <<T>>, c |-> <<F>>, d |-> <<T>>, e |-> <<>>]]

Unknown ==
  [order |-> <<"a", "b", "c">>,
   deps |-> [a |-> {}, b |-> {"a", "missing"}, c |-> {"a"}],
   required |-> [a |-> <<T>>, b |-> <<T>>, c |-> <<F>>]]

Cycle ==
  [order |-> <<"a", "b", "c">>,
   deps |-> [a |-> {}, b |-> {"a", "c"}, c |-> {"b"}],
   required |-> [a |-> <<T, F>>, b |-> <<T>>, c |-> <<T>>]]

MCPlans == {Template, Chain, Diamond, Unknown, Cycle}
=============================================================================
