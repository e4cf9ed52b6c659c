-------------------------- MODULE MCClassifyService --------------------------
(* A handful of conversations that differ in what the cache key and the    *)
(* classifier look at, under the thresholds of the bundled policy.         *)
EXTENDS ClassifyService, TLC

CONSTANTS
  alice, bob, mallory, host1, host2   \* bearer tokens and client addresses

MCPolicy ==
  [order |-> <<"planning", "writing">>, mixable |-> {"coding", "planning"},
   overrideShare |-> 60, learned |-> FALSE, minProbability |-> 60,
   ruleMatch |-> 88, greeting |-> 85, fallback |-> 50, mixedCap |-> 70,
   semanticBase |-> 50, semanticScale |-> 40]

MCUnreadable == {"no text"}
MCContents == {"Hello", "hello", "My chest hurts", "ok"} \cup MCUnreadable
MCTexts == {"", "hello", "my chest hurts", "ok"}
MCNormal ==
  [c \in MCContents |->
     CASE c = "Hello" -> "hello" [] c = "My chest hurts" -> "my chest hurts"
       [] c \in MCUnreadable -> "" [] OTHER -> c]

MCReadingOf ==
  [t \in MCTexts |->
     [blank |-> t = "", short |-> TRUE, verdict |-> NoVerdict,
      matches |-> CASE t = "hello" -> {"greeting"}
                    [] t = "my chest hurts" -> {"high_stakes"}
                    [] OTHER -> {},
      predicted |-> [label |-> "other", probability |-> 0]]]

User(c) == [role |-> "user", content |-> c, calls |-> FALSE]
Assistant == [role |-> "assistant", content |-> "ok", calls |-> FALSE]
ToolCall == [role |-> "assistant", content |-> "ok", calls |-> TRUE]
ToolResult == [role |-> "tool", content |-> "ok", calls |-> FALSE]

Asks(messages) == [messages |-> messages, tools |-> <<>>, flags |-> <<>>]

Greeting == Asks(<<User("Hello")>>)
Chatter == <<Assistant, Assistant, User("hello"), Assistant, User("hello")>>
AfterTools == Asks(<<ToolCall>> \o Chatter)
AfterTalk == Asks(<<Assistant>> \o Chatter)
FlaggedTalk == [AfterTalk EXCEPT !.flags = <<"high_stakes", "high_stakes">>]
Mute == Asks(<<User("no text")>>)
TooLong == Asks(Chatter \o Chatter)

(* An agent loop: after the user's message come five of the assistant and  *)
(* its tools, as many as the cache key covers.                             *)
Loop == <<ToolCall, ToolResult, ToolCall, ToolResult, Assistant>>
HarmlessLoop == Asks(<<User("hello")>> \o Loop)
HarmfulLoop == Asks(<<User("My chest hurts")>> \o Loop)

CachePayloads == {AfterTalk, FlaggedTalk, AfterTools, Mute}
QuotaPayloads == {Greeting, TooLong}
LoopPayloads == {HarmlessLoop, HarmfulLoop}

Anonymous == {[bearer |-> NoBearer, host |-> host1]}
KeyHolders ==
  {[bearer |-> alice, host |-> host1], [bearer |-> bob, host |-> host1],
   [bearer |-> mallory, host |-> host2]}

MCSymmetry == Permutations(Requests)
=============================================================================
