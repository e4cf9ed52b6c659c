------------------------------ MODULE MCStartUp ------------------------------
(* One sound setup and its variations, each with one thing in another way,  *)
(* accepted or not, and banks of three exemplars.  The operator makes       *)
(* one change, of the model file above all, at any time.                    *)
EXTENDS StartUp

Label1(name) == [prefixed |-> FALSE, name |-> name]

MCLabels == {Label1("coding"), Label1("agent_action"), RiskLabel("medical"), RiskLabel("legal")}
Sound == <<Label1("coding"), Label1("agent_action"), RiskLabel("legal")>>

(* Labels outside the vocabulary: a category without its prefix, a task    *)
(* with one, and neither.                                                  *)
MCBanks ==
  {<<Label1("coding"), a, b>> : a \in MCLabels, b \in {Label1("coding"), RiskLabel("legal")}}
    \cup {<<odd, Label1("coding"), RiskLabel("legal")>> :
            odd \in {Label1("medical"), Label1("other"), [prefixed |-> TRUE, name |-> "coding"]}}
    \cup {<<>>}

Bank == <<Label1("coding"), RiskLabel("medical"), Label1("coding")>>

Custom ==
  [keys |-> PolicyKeys \cup {"learned"}, version |-> "plain",
   patterns |-> [n \in PatternNames \cup {"ambiguous"} |-> "compiles"],
   order |-> <<"planning", "writing">>, mixed |-> <<"coding", "planning">>, chatMaxWords |-> 12,
   numbers |-> [n \in Shares \cup Confidences \cup {"minProbability"} |->
                  CASE n \in {"riskShare", "minSimilarity"} -> 50
                    [] n = "minProbability" -> 60 [] n = "ruleMatch" -> 88 [] OTHER -> 70],
   k |-> 2, learned |-> TRUE, namesBank |-> TRUE, namesModel |-> TRUE]

Without(f, key) == [k \in DOMAIN f \ {key} |-> f[k]]

MCPolicies ==
  {Custom, Absent,
   [Custom EXCEPT !.keys = PolicyKeys, !.numbers = Without(@, "minProbability")],
   [Custom EXCEPT !.keys = @ \ {"semantic"}], [Custom EXCEPT !.keys = @ \cup {"models"}],
   [Custom EXCEPT !.version = "line"], [Custom EXCEPT !.version = "odd"],
   [Custom EXCEPT !.patterns = Without(@, "coding")],
   [Custom EXCEPT !.patterns["coding"] = "fails"],
   [Custom EXCEPT !.order = <<"chat">>], [Custom EXCEPT !.order = <<"writing", "writing">>],
   [Custom EXCEPT !.mixed = <<>>], [Custom EXCEPT !.chatMaxWords = 0],
   [Custom EXCEPT !.k = 0], [Custom EXCEPT !.k = 3], [Custom EXCEPT !.learned = FALSE],
   [Custom EXCEPT !.namesModel = FALSE], [Custom EXCEPT !.namesBank = FALSE]}
  \cup {[Custom EXCEPT !.numbers[n] = x] : n \in {"riskShare", "minSimilarity"}, x \in {0, 35}}
  \cup {[Custom EXCEPT !.numbers[n] = x] :
          n \in {"semanticBase", "minProbability"}, x \in {0 - 1, 100, 120}}

Pick == [keys |-> PickKeys, named |-> TRUE, cost |-> 1]

Catalog ==
  [keys |-> {"version", "currency", "tiers"}, version |-> "plain", currency |-> TRUE,
   tiers |-> [tier \in ActionableTiers |-> <<Pick>>]]

MCCatalogs ==
  {Catalog, Absent,
   [Catalog EXCEPT !.tiers["capable"] = <<>>], [Catalog EXCEPT !.tiers = Without(@, "reasoning")],
   [Catalog EXCEPT !.tiers["capable"] = [i \in 1..9 |-> Pick]],
   [Catalog EXCEPT !.tiers["capable"] = [i \in 1..8 |-> Pick]],
   [Catalog EXCEPT !.tiers["standard"] = <<Pick, [Pick EXCEPT !.cost = 0 - 1]>>],
   [Catalog EXCEPT !.tiers["standard"] = <<[Pick EXCEPT !.keys = @ \ {"model"}]>>],
   [Catalog EXCEPT !.tiers["standard"] = <<[Pick EXCEPT !.keys = @ \cup {"notes"}, !.cost = 0]>>],
   [Catalog EXCEPT !.keys = @ \ {"currency"}], [Catalog EXCEPT !.version = "odd"]}

Local ==
  [environment |-> "production", clientKeys |-> <<"key", " ">>, maxRequestBytes |-> 1024,
   maxMessages |-> 1, cacheMaxEntries |-> 1, logDecisions |-> TRUE, decisionLogPath |-> TRUE,
   enableFeedback |-> FALSE, feedbackLogPath |-> FALSE, enableProxy |-> TRUE,
   proxyBaseUrl |-> TRUE, proxyApiKey |-> TRUE, proxyTimeout |-> 1, rateLimit |-> 0,
   semantic |-> TRUE]

MCSettings ==
  {Local, [Local EXCEPT !.semantic = FALSE], [Local EXCEPT !.clientKeys = <<" ", " ">>],
   [Local EXCEPT !.environment = "development", !.clientKeys = <<>>],
   [Local EXCEPT !.environment = "staging"], [Local EXCEPT !.maxRequestBytes = 1023],
   [Local EXCEPT !.maxMessages = 0], [Local EXCEPT !.cacheMaxEntries = 0],
   [Local EXCEPT !.decisionLogPath = FALSE], [Local EXCEPT !.enableFeedback = TRUE],
   [Local EXCEPT !.proxyBaseUrl = FALSE], [Local EXCEPT !.proxyApiKey = FALSE],
   [Local EXCEPT !.proxyTimeout = 0], [Local EXCEPT !.rateLimit = 0 - 1]}

Files == [policy |-> Custom, catalog |-> Catalog, bank |-> Bank, model |-> "ours"]

MCSetups ==
  {[settings |-> s, disk |-> Files] : s \in MCSettings}
    \cup {[settings |-> Local, disk |-> [Files EXCEPT !.policy = p]] : p \in MCPolicies}
    \cup {[settings |-> Local, disk |-> [Files EXCEPT !.catalog = c]] : c \in MCCatalogs}
    \cup {[settings |-> Local, disk |-> [Files EXCEPT !.model = m]] : m \in {Absent, Torn}}
    \cup {[settings |-> Local, disk |-> [Files EXCEPT !.bank = Absent]]}
    \cup {[settings |-> Local, disk |-> [Files EXCEPT !.bank = b, !.policy.k = 3]] :
            b \in MCBanks}

MCEdits ==
  {[file |-> "model", content |-> m] : m \in {Absent, "foreign"}}
    \cup {[file |-> "policy", content |-> [Custom EXCEPT !.numbers["riskShare"] = 0]]}

(* What the models make of any text; "foreign" has labels of its own. *)
Predictions ==
  [bundled |-> [label |-> "coding", probability |-> 90],
   ours    |-> [label |-> "agent_action", probability |-> 95],
   foreign |-> [label |-> "smalltalk", probability |-> 70]]

Plain ==
  [blank |-> FALSE, matches |-> {}, short |-> TRUE, order |-> <<1, 2, 3>>,
   similarities |-> <<40, 30, 20>>, predicted |-> Predictions,
   hasTools |-> FALSE, flagged |-> FALSE]

MCPrompts ==
  {Plain, [Plain EXCEPT !.blank = TRUE], [Plain EXCEPT !.matches = {"high_stakes"}],
   [Plain EXCEPT !.matches = {"planning", "multi_step"}],
   [Plain EXCEPT !.similarities = <<90, 50, 50>>],
   [Plain EXCEPT !.similarities = <<90, 50, 50>>, !.order = <<3, 2, 1>>],
   [Plain EXCEPT !.similarities = <<0, 0, 0>>, !.matches = {"high_stakes"}]}
=============================================================================
