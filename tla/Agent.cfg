\* Every question to every persona, planned by the rules or by a model, with
\* one sweep, failing call or mute wording during the run.
CONSTANTS
  Metrics <- MCMetrics
  NoMetric = NoMetric
  Personas = {"cfo", "ops_manager", "analyst", "risk_officer"}
  Questions <- MCQuestions
  Findings <- MCFindings
  ModelCalls <- MCModelCalls
  ModelWidth = 1
  MaxRounds = 3
  MaxUpsets = 1
SPECIFICATION AgentSpec
INVARIANT FollowUpsKeepTheSubject
INVARIANT RoundsFillTheGap
INVARIANT AnswersFollowTheRecord
\* a run ends with its answer
CHECK_DEADLOCK FALSE
