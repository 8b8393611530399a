------------------------------- MODULE MCAgent -------------------------------
(* Instances of Agent.  The questions are those of the personas' examples   *)
(* and of the comments in planner.py and understanding.py; the findings     *)
(* have one metric moved, both or none, a level of more than six digits or  *)
(* a day without data, and may be replaced during a run.                    *)
EXTENDS Agent

MCMetrics == {"revenue", "kyc_completion_rate"}

Asks(names, why, act, cues) ==
  [names |-> names, refers |-> <<>>, lookup |-> FALSE, business |-> FALSE, why |-> why,
   act |-> act, cues |-> cues, turn |-> "analysis"]
Plain(cues) == Asks(<<>>, FALSE, FALSE, cues)

MCQuestions == {
  \* "why did KYC completion fall"
  Asks(<<"kyc_completion_rate">>, TRUE, FALSE, <<"get_causes", "get_insight">>),
  \* "what should we do"
  Asks(<<>>, FALSE, TRUE, <<"get_recommendations">>),
  \* "which metric moved most and what should I do"
  [Asks(<<>>, FALSE, TRUE, <<"rank_movements", "get_recommendations">>) EXCEPT !.business = TRUE],
  \* "what does the forecast say for revenue"
  Asks(<<"revenue">>, FALSE, FALSE, <<"get_forecast">>),
  \* "compare revenue and kyc completion"
  Asks(<<"revenue", "kyc_completion_rate">>, FALSE, FALSE, <<"compare_metrics">>),
  \* "what about the others", after both were discussed
  [Plain(<<>>) EXCEPT !.refers = <<"kyc_completion_rate", "revenue">>],
  \* "how is my business doing"
  [Plain(<<>>) EXCEPT !.business = TRUE],
  \* "how fresh is the data"
  [Plain(<<"get_source_health">>) EXCEPT !.lookup = TRUE],
  \* "what is the capital of France"
  Plain(<<"get_metric_contract">>),
  \* "tell me a joke"
  Plain(<<>>),
  \* "hello", read by the rules and by the model
  [Plain(<<"greet">>) EXCEPT !.turn = "other"],
  [Plain(<<"greet">>) EXCEPT !.turn = "greeting"]}

Finding(order, revenue, kyc, long, gaps) ==
  [order |-> order, state |-> [revenue |-> revenue, kyc_completion_rate |-> kyc],
   long |-> long, gaps |-> gaps, sweep |-> 0]
MCFindings == {
  Finding(<<"kyc_completion_rate", "revenue">>, "quiet", "moved", {"revenue"}, {}),
  Finding(<<"revenue", "kyc_completion_rate">>, "moved", "bare", {}, {"revenue"}),
  Finding(<<"revenue", "kyc_completion_rate">>, "quiet", "quiet", {}, {})}

MCModelCalls == {
  [tool |-> "get_causes", about |-> {"revenue"}, named |-> TRUE, bad |-> FALSE],
  [tool |-> "run_localized_search", about |-> {}, named |-> FALSE, bad |-> FALSE],
  [tool |-> "get_trust", about |-> {}, named |-> FALSE, bad |-> FALSE],
  [tool |-> "rank_movements", about |-> {}, named |-> FALSE, bad |-> FALSE],
  [tool |-> "unknown", about |-> {}, named |-> FALSE, bad |-> FALSE]}
=============================================================================
