-------------------------------- MODULE Agent --------------------------------
(***************************************************************************)
(* One question put to the intelligence agent: loop.run with the reading   *)
(* of the question (understanding.py), the two planners and the critic     *)
(* (planner.py), the capabilities (tools.py), the verifier (narrate.py)    *)
(* and the model that rewrites the answer's parts (llm_narrator.py).       *)
(*                                                                         *)
(* A question is what the matching of its words yields: the metrics and    *)
(* the capabilities it reaches, the latter best score first, and which     *)
(* vocabularies it uses.  A figure is the record it was read from: the     *)
(* kind of figure, the metric and the generation of the findings; two      *)
(* figures are equal when they are one record's.  The model is external    *)
(* and may answer anything; so are the sweeps that replace the findings    *)
(* while the agent reads them.                                             *)
(***************************************************************************)
EXTENDS Naturals, Sequences, SequencesExt, FiniteSets, Sifting

CONSTANTS Metrics,      \* the metrics of the tenant
          NoMetric,
          Personas,     \* the personas that ask
          Questions,    \* what they ask
          Findings,     \* what sweeps may have recorded
          ModelCalls,   \* the calls a model may propose
          ModelWidth,   \* how many it proposes at once, 4 in the code
          MaxRounds,    \* AGENT_MAX_ROUNDS
          MaxUpsets     \* bound on sweeps and failing calls during one run

-----------------------------------------------------------------------------
(* The registry of capabilities, in its order, and the order in which their *)
(* results are told: by priority, then by name.                             *)
Entry(name, intent, priority, takes, named) ==
  [name |-> name, intent |-> intent, priority |-> priority, takes |-> takes, named |-> named]
REGISTRY == <<
  Entry("greet", "greeting", 0, "nothing", FALSE),
  Entry("describe_identity", "greeting", 0, "nothing", FALSE),
  Entry("describe_capabilities", "help", 0, "nothing", FALSE),
  Entry("list_metrics", "catalog", 2, "nothing", FALSE),
  Entry("get_insight", "status", 1, "metric", FALSE),
  Entry("get_causes", "cause", 2, "metric", FALSE),
  Entry("get_factors", "factor", 3, "metric", FALSE),
  Entry("get_forecast", "forecast", 3, "metric", FALSE),
  Entry("get_trend", "trend", 2, "metric", FALSE),
  Entry("get_recommendations", "action", 6, "metric", FALSE),
  Entry("get_trust", "trust", 7, "metric", FALSE),
  Entry("get_source_health", "freshness", 8, "nothing", FALSE),
  Entry("get_runtime_cost", "cost", 9, "nothing", FALSE),
  Entry("rank_movements", "ranking", 1, "scope", FALSE),
  Entry("get_metric_contract", "definition", 1, "metric", TRUE),
  Entry("compare_metrics", "status", 1, "metrics", TRUE),
  Entry("run_localized_search", "cause", 2, "metric", FALSE)>>
Tools == {s.name : s \in Range(REGISTRY)}
ToolSpec(t) == CHOOSE s \in Range(REGISTRY) : s.name = t
Telling == <<"describe_capabilities", "describe_identity", "greet", "compare_metrics",
             "get_insight", "get_metric_contract", "rank_movements", "get_causes", "get_trend",
             "list_metrics", "run_localized_search", "get_factors", "get_forecast",
             "get_recommendations", "get_trust", "get_source_health", "get_runtime_cost">>

(* What a persona may ask, how deep, what it always wants, which metrics it *)
(* prefers and which it must not see.                                       *)
Common == {"cause", "action", "trust", "freshness", "status", "catalog", "definition",
           "ranking", "trend", "greeting", "help"}
Persona(intents, width, rounds, bias, prefers, hides) ==
  [intents |-> intents, width |-> width, rounds |-> rounds, bias |-> bias,
   prefers |-> prefers, hides |-> hides]
Profile == [
  cfo          |-> Persona(Common \cup {"forecast", "cost"}, 2, 2, <<"factor", "forecast", "action">>,
                           <<"revenue", "loan_approval_volume">>, {}),
  ops_manager  |-> Persona(Common, 3, 3, <<"cause", "action">>,
                           <<"kyc_completion_rate", "signups", "loan_approval_volume",
                             "transaction_failure_rate">>, {"revenue"}),
  analyst      |-> Persona(Common \cup {"factor", "forecast", "cost"}, 4, 3,
                           <<"trend", "cause", "factor", "trust">>, <<>>, {}),
  risk_officer |-> Persona(Common \cup {"forecast"}, 3, 3, <<"cause", "trust", "action">>,
                           <<"transaction_failure_rate", "kyc_completion_rate",
                             "loan_approval_volume">>, {})]

(* A persona has a profile; a question names metrics and reaches tools; a   *)
(* finding orders metrics; a call of a model that names no metric leaves it *)
(* to the tool.                                                             *)
ASSUME AgentAssumption ==
  /\ MaxRounds \in Nat \ {0} /\ MaxUpsets \in Nat /\ ModelWidth \in Nat
  /\ NoMetric \notin Metrics \cup Tools
  /\ Personas \subseteq DOMAIN Profile
  /\ \A qn \in Questions :
       qn.names \in Seq(Metrics) /\ qn.refers \in Seq(Metrics) /\ qn.cues \in Seq(Tools)
  /\ Findings \subseteq [order : Seq(Metrics), state : [Metrics -> {"quiet", "moved", "bare"}],
                         long : SUBSET Metrics, gaps : SUBSET Metrics, sweep : Nat]
  /\ \A c \in ModelCalls : (c.named \/ c.about = {}) /\ c.about \subseteq Metrics

VARIABLES
  asked,    \* the persona, the question, the planner and the metric it starts from
  store,    \* the findings on record
  reading,  \* ctx.reading: the shape of the question, the parts it wants, the chain
  focus,    \* ctx.focus_metric
  round,    \* rounds of calls executed
  plan,     \* the calls of the round to execute
  seen,     \* the observations, oldest first
  pc, answer,
  upsets

run  == <<asked, reading, focus, round, plan, seen, pc, answer>>
agentVars == <<run, store, upsets>>

me == Profile[asked.persona]
q  == asked.question
Entitled(t) == ToolSpec(t).intent \in me.intents
catalogue == Those(REGISTRY, LAMBDA s : s.intent \in me.intents)
Conversational == {"greeting", "help"}
META == {"catalog", "greeting", "help", "cost", "ranking"}
HeadOr(s, other) == IF s = <<>> THEN other ELSE Head(s)
Capability(specs, intent) ==
  HeadOr(Those(specs, LAMBDA s : s.intent = intent), [name |-> NoMetric])

-----------------------------------------------------------------------------
(* The reading of the question: its shape, the parts of an answer it wants  *)
(* and the chain of intents that fills them.                                *)
Slot(intent) ==
  CASE intent \in {"status", "ranking"} -> "what_changed"
    [] intent \in {"cause", "factor", "forecast"} -> "why"
    [] intent = "action" -> "what_now"
    [] intent \in {"trust", "freshness", "cost"} -> "assurance"
    [] OTHER -> "none"
DIAGNOSTIC_CHAIN == <<"status", "cause", "factor", "action">>
BRIEFING_CHAIN   == <<"ranking", "status", "cause", "action">>

Cued == Those(q.cues, Entitled)
Salutation == q.turn # "analysis" /\ Cued # <<>> /\ ToolSpec(Head(Cued)).intent \in Conversational
Reached == \E t \in Range(Cued) : ToolSpec(t).intent \notin Conversational
matched == IF q.names = <<>> THEN Range(q.refers) ELSE Range(q.names)
Explicit == q.why \/ q.act

Shape ==
  CASE Salutation -> "conversational"
    [] ~Salutation /\ ~Explicit /\ (q.lookup \/ (Reached /\ matched = {})) -> "lookup"
    [] ~Salutation /\ (Explicit \/ (~q.lookup /\ (~Reached \/ matched # {}))) ->
         IF q.names # <<>> THEN "diagnostic"
         ELSE IF matched # {} \/ q.business \/ Explicit THEN "briefing" ELSE "unmatched"
Wants ==
  {"what_changed", "when"} \cup (IF q.why \/ ~Explicit THEN {"why"} ELSE {})
                           \cup (IF q.act \/ ~Explicit THEN {"what_now"} ELSE {})
Chain == IF Shape = "diagnostic" THEN DIAGNOSTIC_CHAIN
         ELSE IF Shape = "briefing" THEN BRIEFING_CHAIN ELSE <<>>
Unread == [shape |-> "unread", wants |-> {}, chain |-> <<>>]
Understood == [shape |-> Shape, wants |-> Wants, chain |-> Chain]

Investigation == reading.shape \in {"diagnostic", "briefing"}
Wanted(intent) == Slot(intent) = "none" \/ Slot(intent) \in reading.wants

(* Every capability the question needs, best first: the whole chain of an   *)
(* investigation, then what the wording adds to it.                         *)
Candidates ==
  LET usable  == Those(catalogue, LAMBDA s : q.names # <<>> \/ ~s.named)
      scored  == Those(Cued, LAMBDA t : q.names # <<>> \/ ~ToolSpec(t).named)
      keyword == Those(scored, LAMBDA t : ToolSpec(t).intent \notin Conversational)
      stages  == Those(reading.chain, LAMBDA i : Wanted(i) /\ Capability(usable, i).name # NoMetric)
      staged  == [i \in DOMAIN stages |-> Capability(usable, stages[i]).name]
  IN  IF q.turn # "analysis" /\ scored # <<>> /\ ToolSpec(Head(scored)).intent \in Conversational
      THEN <<Head(scored)>>
      ELSE IF ~Investigation THEN keyword
      ELSE staged \o Those(keyword, LAMBDA t : /\ t \notin Range(staged)
                                               /\ ToolSpec(t).intent \notin META)

-----------------------------------------------------------------------------
(* The planners.  A call names the metrics it is about, or leaves that to   *)
(* the tool; `named` when it was the model that named them.                 *)
Call(t, about) == [tool |-> t, about |-> about, named |-> FALSE, bad |-> FALSE]
Focus == IF focus = NoMetric THEN {} ELSE {focus}
Args(t) ==
  CASE ToolSpec(t).takes = "metric" -> Focus
    [] ToolSpec(t).takes = "scope" -> IF Investigation /\ Cardinality(matched) > 1 THEN matched ELSE {}
    [] ToolSpec(t).takes = "metrics" -> Range(q.names)
    [] OTHER -> {}
Calls(ts) == [i \in DOMAIN ts |-> Call(ts[i], Args(ts[i]))]
Tell(ts) == Among(Telling, Range(ts))
Width == IF me.width < 4 THEN me.width ELSE 4
Narrow(ts) == Tell(SubSeq(ts, 1, IF Len(ts) < Width THEN Len(ts) ELSE Width))
Plan(calls, done) == [calls |-> calls, done |-> done]
Stop == Plan(<<>>, TRUE)

tried  == {o.tool : o \in Range(seen)}
useful == {o.tool : o \in {o \in Range(seen) : o.ok}}

RuleFirst ==
  IF Candidates # <<>> THEN Plan(Calls(Narrow(Candidates)), FALSE)
  ELSE IF q.names = <<>> THEN Stop ELSE Plan(Calls(<<"get_insight">>), FALSE)

RuleReplan ==
  LET gap   == Those(Candidates, LAMBDA t : t \notin tried)
      widen == Those(<<"get_insight", "rank_movements", "list_metrics">>,
                         LAMBDA t : Entitled(t) /\ t \notin tried)
  IN  IF useful # {}
      THEN IF gap = <<>> THEN Stop ELSE Plan(Calls(Narrow(gap)), FALSE)
      ELSE IF (focus # NoMetric \/ q.names # <<>>) /\ widen # <<>>
           THEN Plan(Calls(<<Head(widen)>>), FALSE) ELSE Stop

RulePlan == IF round = 0 THEN RuleFirst ELSE RuleReplan

(* What the planner makes of a model's reply: what already returned is not  *)
(* called again, and an investigation establishes the movement first.       *)
Priority(c) == IF c.tool \in Tools THEN ToolSpec(c.tool).priority ELSE 10
ByPriority(cs) ==
  LET upTo[n \in 0 .. 11] == IF n = 0 THEN <<>>
                             ELSE upTo[n - 1] \o Those(cs, LAMBDA c : Priority(c) = n - 1)
  IN  upTo[11]
StatusFirst(cs) ==
  IF ~(round = 0 /\ Investigation /\ cs # <<>>) THEN cs
  ELSE IF \E c \in Range(cs) : c.tool = "get_insight" THEN ByPriority(cs)
  ELSE Calls(<<"get_insight">>) \o cs
Fresh(cs) == Those(cs, LAMBDA c : c.tool \notin useful)

ModelPlan(reply) ==
  LET fresh == StatusFirst(Fresh(reply.calls))
  IN  IF fresh = <<>> /\ (reply.calls # <<>> \/ seen = <<>>) THEN RulePlan
      ELSE Plan(fresh, reply.done \/ fresh = <<>>)
Replies == [calls : SeqOf(ModelCalls, ModelWidth), done : BOOLEAN]
Plans ==
  IF asked.engine = "rule" \/ reading.shape = "conversational" THEN {RulePlan}
  ELSE IF reading.shape = "unmatched" /\ round = 0 THEN {Stop}
  ELSE {RulePlan} \cup {ModelPlan(reply) : reply \in Replies}

(* Platform talk is stripped from an investigation, and what the reading or *)
(* the persona wants and the plan left out is added.                        *)
DropMeta(p) ==
  IF ~Investigation THEN p
  ELSE [p EXCEPT !.calls = Those(@, LAMBDA c :
         c.tool \in Tools /\ ToolSpec(c.tool).intent \in META
           => ToolSpec(c.tool).intent \in Range(reading.chain) \cup Range(me.bias))]

(* Slip: the plan is taken as it comes. *)
TrustThePlan(p) == p

EnsureChain(p) ==
  LET asks == reading.chain \o Those(me.bias, LAMBDA i : i \notin Range(reading.chain))
      ran  == tried \cup {c.tool : c \in Range(p.calls)}
      left == Those(asks, LAMBDA i :
                /\ i \in Range(reading.chain) => Wanted(i)
                /\ Capability(catalogue, i).name \notin ran \cup {NoMetric})
      names == [k \in DOMAIN left |-> Capability(catalogue, left[k]).name]
      Bare(t) == Call(t, IF ToolSpec(t).takes = "metric" THEN Focus ELSE {})
  IN  IF ~Investigation \/ p.done THEN p
      ELSE [p EXCEPT !.calls = @ \o [k \in DOMAIN names |-> Bare(names[k])]]

-----------------------------------------------------------------------------
(* What a capability reads from the findings w: the claims it records, the  *)
(* metric its result names, and what its wording states.                    *)
OutOfBand(w) == {k \in Metrics : w.state[k] # "quiet"}
Row(about, w) ==
  HeadOr(Those(w.order, LAMBDA k : k \notin me.hides /\ (about = {} \/ k \in about)), NoMetric)
Figure(kind, k, w) == [kind |-> kind, metric |-> k, of |-> w.sweep]
Recorded(kinds, k, w) == [id \in kinds \X {0} |-> Figure(id[1], k, w)]
Cell(kind, k, w) == [id \in {<<"cell", 0>>} |-> Figure(kind, k, w)]
Nothing == [ok |-> FALSE, subject |-> NoMetric, claims |-> <<>>, loose |-> {}]
Found(subject, figures) == [ok |-> TRUE, subject |-> subject, claims |-> figures, loose |-> {}]
Printing(result, k, printed, w) ==
  [result EXCEPT !.loose = {Figure("printed", m, w) : m \in k \cap printed}]

GetInsight(k, w) ==
  Found(k, Recorded(IF k \in OutOfBand(w) THEN {"observed", "baseline", "change"}
                    ELSE {"observed", "forecast"}, k, w))
GetCauses(k, w) ==
  IF k \in OutOfBand(w) /\ w.state[k] # "bare" THEN Found(k, Cell("share", k, w)) ELSE Nothing
GetFactors(k, w) ==
  IF k \in OutOfBand(w) THEN Found(NoMetric, Recorded({"factor"}, k, w)) ELSE Nothing
GetForecast(k, w) == Found(k, Recorded({"forecast"}, k, w))
GetRecommendations(k, w) ==
  IF k \in OutOfBand(w) THEN Found(k, Recorded({"impact"}, k, w)) ELSE Nothing
GetTrust(k, w) == Found(k, Recorded({"checks"}, k, w))
(* The path of a metric is told with the days asked for, of which the       *)
(* record holds only those on which something was counted.                  *)
GetTrend(k, w) == Printing(Found(k, <<>>), {k}, w.gaps, w)
GetContract(k) == Found(k, <<>>)
LocalizedSearch(k, w) ==
  IF w.state[k] # "bare" THEN Found(k, Cell("searched", k, w)) ELSE Nothing

ReadMetric(t, about, w) ==
  LET k    == Row(about, w)
      asIs == IF about = {} THEN k ELSE CHOOSE m \in about : TRUE
  IN  CASE t = "get_insight" /\ k # NoMetric -> GetInsight(k, w)
        [] t = "get_causes" -> GetCauses(k, w)
        [] t = "get_factors" -> GetFactors(k, w)
        [] t = "get_forecast" /\ k # NoMetric -> GetForecast(k, w)
        [] t = "get_recommendations" -> GetRecommendations(k, w)
        [] t = "get_trust" /\ k # NoMetric -> GetTrust(k, w)
        [] t = "get_trend" /\ asIs # NoMetric -> GetTrend(asIs, w)
        [] t = "get_metric_contract" /\ about # {} -> GetContract(asIs)
        [] t = "run_localized_search" /\ about # {} -> LocalizedSearch(asIs, w)
        [] OTHER -> Nothing

(* The ranking numbers its lines.  Within a scope the steady metrics are    *)
(* listed too, with a level printed in six digits: a longer one is stated   *)
(* as a figure no claim holds.                                              *)
Ranking(scope, w) ==
  LET lines  == Those(w.order, LAMBDA k : /\ k \in OutOfBand(w) \ me.hides
                                          /\ scope = {} \/ k \in scope)
      steady == Those(w.order, LAMBDA k : k \in scope /\ k \notin Range(lines))
      ids    == ({"line"} \X DOMAIN lines) \cup ({"level"} \X DOMAIN steady)
      stands(id) == IF id[1] = "line" THEN Figure("materiality", lines[id[2]], w)
                    ELSE Figure("observed", steady[id[2]], w)
  IN  IF lines \o steady = <<>> THEN Nothing
      ELSE Printing(Found(NoMetric, [id \in ids |-> stands(id)]), Range(steady), w.long, w)

(* Two metrics side by side: the handler reads a window it was never given, *)
(* which is a name that does not exist, and fails.                          *)
CompareMetrics == Nothing

Counts == [list_metrics |-> {"tracked", "governed"}, describe_identity |-> {"visible", "governed"},
           get_source_health |-> {"behind"}, get_runtime_cost |-> {"runs"},
           greet |-> {}, describe_capabilities |-> {}]
Reading(t, about, w) ==
  CASE t = "rank_movements" -> Ranking(about, w)
    [] t \in DOMAIN Counts -> Found(NoMetric, Recorded(Counts[t], NoMetric, w))
    [] t = "compare_metrics" -> CompareMetrics
    [] OTHER -> ReadMetric(t, about, w)

-----------------------------------------------------------------------------
AgentTypes ==
  /\ focus \in Metrics \cup {NoMetric} /\ round \in 0 .. MaxRounds /\ upsets \in 0 .. MaxUpsets
  /\ pc \in {"read", "plan", "execute", "compose", "done"}
  /\ answer.kind \in {"none", "social", "entitlement", "abstained", "withheld", "answered"}
  /\ \A o \in Range(seen) : o.subject \in Metrics \cup {NoMetric}

Start(p, qn, w) ==
  LET prefers == Profile[p].prefers
  IN  IF qn.names # <<>> THEN Head(qn.names)
      ELSE IF qn.refers # <<>> THEN Head(qn.refers)
      ELSE IF OutOfBand(w) # {} THEN HeadOr(Those(prefers, LAMBDA k : k \in OutOfBand(w)), NoMetric)
      ELSE HeadOr(Those(prefers, LAMBDA k : k \in Metrics), NoMetric)

Silence == [kind |-> "none", figures |-> {}]
AgentInit ==
  /\ store \in {[f EXCEPT !.sweep = 0] : f \in Findings}
  /\ \E p \in Personas, e \in {"rule", "llm"}, qn \in Questions :
       /\ focus = Start(p, qn, store)
       /\ asked = [persona |-> p, engine |-> e, question |-> qn, focus |-> focus]
  /\ reading = Unread /\ round = 0 /\ upsets = 0 /\ plan = <<>> /\ seen = <<>>
  /\ pc = "read" /\ answer = Silence

Finish(kind, figures) ==
  /\ answer' = [kind |-> kind, figures |-> figures] /\ pc' = "done"
  /\ UNCHANGED <<asked, reading, focus, round, plan, seen, store, upsets>>

(* A courtesy is answered without a tool; a question about a metric the     *)
(* persona may not see is refused before one runs.                          *)
Courtesy == q.turn \notin {"analysis", "other"}
Hidden == me.hides \cap (matched \cup Focus)
Converse == pc = "read" /\ Courtesy /\ Finish("social", {})
Refuse == pc = "read" /\ ~Courtesy /\ Hidden # {} /\ Finish("entitlement", {})

Comprehend ==
  /\ pc = "read" /\ ~Courtesy /\ Hidden = {}
  /\ reading' = Understood /\ pc' = "plan"
  /\ UNCHANGED <<asked, focus, round, plan, seen, answer, store, upsets>>

(* One round: the plan as the reading corrects it, its calls run at once,   *)
(* the critic's verdict.                                                    *)
Settle(p) ==
  LET ends == p.done \/ p.calls = <<>>
  IN  /\ plan' = IF ends THEN <<>> ELSE p.calls
      /\ pc' = IF ends THEN "compose" ELSE "execute"
      /\ UNCHANGED <<asked, reading, focus, round, seen, answer, store, upsets>>
Propose ==
  /\ pc = "plan"
  /\ \E p \in {EnsureChain(DropMeta(proposed)) : proposed \in Plans} : Settle(p)

Refused(c) == c.bad \/ c.tool \notin Tools \/ ~Entitled(c.tool)
Filled(c) == IF c.about = {} /\ ToolSpec(c.tool).takes = "metric" THEN Focus ELSE c.about
Observed(c, w, fails, mute) ==
  LET result == IF Refused(c) \/ fails THEN Nothing ELSE Reading(c.tool, Filled(c), w)
  IN  [tool |-> c.tool, about |-> IF Refused(c) THEN {} ELSE Filled(c), named |-> c.named,
       round |-> round + 1, says |-> result.ok /\ ~mute, ok |-> result.ok,
       subject |-> result.subject, claims |-> result.claims, loose |-> result.loose]

(* The first of the positions I, and the last.                              *)
Earliest(I) == CHOOSE i \in I : \A j \in I : i <= j
Latest(I) == CHOOSE i \in I : \A j \in I : j <= i
Subjects(os) == {i \in DOMAIN os : os[i].ok /\ os[i].subject # NoMetric}

(* Slip: the results do not settle what the run is about. *)
NeverSettled(os) == focus

SettledOn(os) ==
  IF focus # NoMetric \/ Subjects(os) = {} THEN focus ELSE os[Earliest(Subjects(os))].subject

Rounds == IF me.rounds < MaxRounds THEN me.rounds ELSE MaxRounds
Execute(late, w, fails, mute) ==
  LET found == [i \in DOMAIN plan |->
                 Observed(plan[i], IF i \in late THEN w ELSE store, i \in fails, i \in mute)]
      known == seen \o found
      enough == /\ \E o \in Range(known) : o.ok
                /\ Range(Candidates) \subseteq {o.tool : o \in Range(known)}
  IN  /\ pc = "execute"
      /\ seen' = known
      /\ focus' = SettledOn(found)
      /\ round' = round + 1 /\ plan' = <<>>
      /\ pc' = IF enough \/ round + 1 = Rounds THEN "compose" ELSE "plan"
      /\ store' = w
      /\ UNCHANGED <<asked, reading, answer>>

Calm == Execute({}, store, {}, {}) /\ UNCHANGED upsets
Upset == upsets < MaxUpsets /\ upsets' = upsets + 1
Fails == \E i \in DOMAIN plan : Execute({}, store, {i}, {}) /\ Upset
GoesMute == \E i \in DOMAIN plan : Execute({}, store, {}, {i}) /\ Upset
Swept == {[f EXCEPT !.sweep = store.sweep + 1] : f \in Findings}
SweptUnder == \E w \in Swept, late \in SUBSET DOMAIN plan : Execute(late, w, {}, {}) /\ Upset

-----------------------------------------------------------------------------
(* The draft states what the results say; it stands when each figure is     *)
(* that of a claim.  The model may then reword a part of it, which is kept  *)
(* when the part states figures and the wording states exactly those.       *)
(* The claim set: of the claims with one id the one recorded last.          *)
Records(id) == {i \in DOMAIN seen : seen[i].ok /\ id \in DOMAIN seen[i].claims}
ClaimIds == UNION {DOMAIN o.claims : o \in {o \in Range(seen) : o.ok}}
claims == [id \in ClaimIds |-> seen[Latest(Records(id))].claims[id]]

Says == {o \in Range(seen) : o.says}
Stated(os) == UNION {Range(o.claims) \cup o.loose : o \in os}
Verified(figures) == figures \subseteq Range(claims)
Part(o) == LET slot == Slot(ToolSpec(o.tool).intent) IN IF slot = "none" THEN o.tool ELSE slot
Parts == {{o \in Says : Part(o) = p} : p \in {Part(o) : o \in Says}}
(* Slip: the reworded part is taken as it comes. *)
KeptUnread(original, wording) == wording

KeptWording(original, wording) ==
  IF original # {} /\ Verified(wording) /\ wording = original THEN wording ELSE original

Invented == [kind |-> "invented", metric |-> NoMetric, of |-> 0]
Wordings(original) ==
  {original, {}, original \cup {Invented}} \cup {original \cup {c} : c \in Range(claims)}

Abstain == pc = "compose" /\ ~(\E o \in Range(seen) : o.ok) /\ Finish("abstained", {})
Withhold ==
  /\ pc = "compose" /\ \E o \in Range(seen) : o.ok
  /\ Says = {} \/ ~Verified(Stated(Says))
  /\ Finish("withheld", {})
Write ==
  /\ pc = "compose" /\ Says # {} /\ Verified(Stated(Says))
  /\ \E part \in Parts :
       \E told \in {KeptWording(Stated(part), wording) : wording \in Wordings(Stated(part))} :
         Finish("answered", Stated(Says \ part) \cup told)

AgentNext ==
  \/ Converse \/ Refuse \/ Comprehend \/ Propose \/ Calm \/ Fails \/ GoesMute \/ SweptUnder
  \/ Abstain \/ Withhold \/ Write
AgentSpec == AgentInit /\ [][AgentNext]_agentVars

-----------------------------------------------------------------------------
(* A run stays with one metric: once it has a subject (the one the question *)
(* or the conversation names, or else that of the first result), a call     *)
(* that leaves the metric open is about that subject in every later round,  *)
(* whatever moved to the top of the findings in between.  validate and      *)
(* _execute of loop.py: `ctx.focus_metric`.                                 *)
SubjectBefore(n) ==
  IF asked.focus # NoMetric THEN asked.focus
  ELSE LET told == {i \in Subjects(seen) : seen[i].round < n}
       IN  IF told = {} THEN NoMetric ELSE seen[Earliest(told)].subject
FollowUpsKeepTheSubject ==
  \A o \in Range(seen) :
    o.ok /\ ~o.named /\ ToolSpec(o.tool).takes = "metric" /\ SubjectBefore(o.round) # NoMetric
      => o.about = {SubjectBefore(o.round)}

(* An investigation that is answered has consulted every part the question  *)
(* asks for and the persona may use, whatever plan the model came with, and *)
(* spent no later round on a capability that had already returned           *)
(* (planner.ensure_chain: "when the two disagree the reading wins";         *)
(* LLMPlanner.plan: what already returned must not be called again).        *)
RoundsFillTheGap ==
  /\ answer.kind = "answered" /\ Investigation =>
       \A s \in Range(catalogue) : s.intent \in Range(reading.chain) /\ Wanted(s.intent)
         => \E o \in Range(seen) : ToolSpec(o.tool).intent = s.intent
  /\ \A a, b \in Range(seen) : a.ok /\ a.tool = b.tool => a.round >= b.round

(* Every figure of an answer was read by a capability of this run, and an   *)
(* answer states two figures under one claim id only beside a ranking,      *)
(* whose lines and levels hold figures of other capabilities under ids of   *)
(* their own; an answer that has results is withheld only when two of them  *)
(* disagree, one prints a figure it has not recorded, or none of them reads *)
(* as a statement (narrate.verify, llm_narrator.narrate_sections,           *)
(* planner.validate).                                                       *)
Disagree(a, b) == \E id \in DOMAIN a.claims \cap DOMAIN b.claims : a.claims[id] # b.claims[id]
AnswersFollowTheRecord ==
  LET ok == {o \in Range(seen) : o.ok}
  IN  /\ answer.kind = "answered" => /\ answer.figures \subseteq UNION {Range(o.claims) : o \in ok}
                                     /\ \A a, b \in Says : Disagree(a, b) =>
                                          \E o \in ok : o.tool = "rank_movements"
      /\ answer.kind = "withheld" => \/ \E a, b \in ok : Disagree(a, b)
                                     \/ \E o \in ok : o.loose # {}
                                     \/ Says = {}
      /\ answer.kind = "abstained" => ok = {}
=============================================================================
