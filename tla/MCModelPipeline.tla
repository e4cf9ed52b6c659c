--------------------------- MODULE MCModelPipeline ---------------------------
(* Rows of two sources and four labels: duplicates under other groups and  *)
(* spellings, a text with two labels, a benchmark prompt, a group of two   *)
(* rows, and more rows of one bin than the cap leaves room for.            *)
EXTENDS ModelPipeline

Row(id, group, source, text, label) ==
  [id |-> id, group |-> group, source |-> source, text |-> text, label |-> label]

MCRows ==
  <<Row("a1", "a1", "A", "Fix it", "coding"),
    Row("b1", "b1", "B", "fix it", "coding"),
    Row("b2", "b",  "B", "two plus two", "reasoning"),
    Row("b4", "b4", "B", "hello", "chat"),
    Row("a2", "a2", "A", "sum up", "writing"),
    Row("a3", "a3", "A", "sum  up", "chat"),
    Row("a4", "a4", "A", "poem", "writing"),
    Row("b5", "b",  "B", "one plus two", "reasoning"),
    Row("a6", "a6", "A", "story", "writing"),
    Row("b3", "b3", "B", "essay", "writing"),
    Row("a8", "a8", "A", "ode", "writing"),
    Row("a9", "a9", "A", "tale", "writing"),
    Row("a10", "a10", "A", "debug", "coding"),
    Row("a11", "a11", "A", "hey", "chat"),
    Row("a7", "a7", "A", " ", "chat")>>

Texts ==
  {MCRows[i].text : i \in 1..Len(MCRows)} \cup {"HELLO", "Poem", "other"}

MCNormalForm ==
  [t \in Texts |->
     CASE t \in {"Fix it", "fix it"} -> "fix it" [] t \in {"sum up", "sum  up"} -> "sum up"
       [] t = "HELLO" -> "hello" [] t = "Poem" -> "poem" [] t = " " -> "" [] OTHER -> t]

(* The rows in their order and in the opposite one, or without one that    *)
(* makes a difference to others.                                           *)
MCCorpora ==
  {SelectSeq(MCRows, LAMBDA r : r.id # gone) : gone \in {"none", "a1", "a2", "b4", "b5", "a10"}}
    \cup {Reverse(MCRows)}

MCSplitOf ==
  [x \in {MCRows[i].id : i \in 1..Len(MCRows)} \cup {"b"} |->
     IF x = "a10" THEN "val" ELSE IF x = "b5" THEN "test" ELSE "train"]

Said(user, text, plain) == [user |-> user, text |-> text, plain |-> plain]
Case(prompt, messages, expected) ==
  [prompt |-> prompt, messages |-> messages, expected |-> expected]

MCBenchmarks ==
  {<<>>,
   <<Case("other", <<>>, [task_type |-> "chat"])>>,
   <<Case(NoPrompt, <<Said(TRUE, "other", TRUE), Said(FALSE, "hey", TRUE), Said(TRUE, "HELLO", TRUE)>>,
          [task_type |-> "chat", action |-> "route"]),
     Case("Poem", <<>>, [action |-> "escalate"]),
     Case("Poem", <<Said(TRUE, "story", FALSE)>>, [task_type |-> "coding"])>>}

Says(task, action, confidence) ==
  [task_type |-> task, complexity |-> "simple", tool_requirement |-> "none",
   recommended_model_tier |-> "economy", action |-> action, confidence |-> confidence]

MCDecisions ==
  {Says("chat", "route", 100), Says("coding", "route", 89), Says("unknown", "escalate", 50)}
=============================================================================
