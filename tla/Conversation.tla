---------------------------- MODULE Conversation ----------------------------
(***************************************************************************)
(* What the service reads off a request: the cache key it is filed under   *)
(* and the facts the classifier decides by.  A text is opaque; Normal says *)
(* which contents normalise (lower, strip, text parts joined) to the same  *)
(* text.  The digest of the key is taken to be collision free.             *)
(***************************************************************************)
EXTENDS Integers, Sequences, FiniteSetsExt, Functions

CONSTANTS
  Contents,     \* the contents a message may carry: str, list of parts, None
  Texts,        \* normalised texts
  EmptyText,    \* ""
  Unreadable,   \* contents _flatten_text fails on: a text part that is no string
  Normal,       \* Normal[c]: what _flatten_text makes of content c
  Roles,        \* the roles messages carry
  Names,        \* names of tools and of policy flags
  MaxTurns      \* max_turns: the messages the cache key covers (5)

ASSUME ConversationAssumption ==
  /\ EmptyText \in Texts
  /\ Normal \in [Contents -> Texts]
  /\ MaxTurns \in Nat \ {0}

(* `calls' tells whether the message carries tool_calls. *)
Message == [role : Roles, content : Contents, calls : BOOLEAN]

(* A validated ClassificationRequest: at least one message. *)
IsPayload(p) ==
  /\ p.messages \in Seq(Message) \ {<<>>}
  /\ p.tools \in Seq(Names)
  /\ p.flags \in Seq(Names)

FromUser(messages) == {i \in 1..Len(messages) : messages[i].role = "user"}

(* The last message of the user, however long ago it was; "" without one.  *)
LatestUserText(messages) ==
  IF FromUser(messages) = {}
    THEN EmptyText
    ELSE Normal[messages[Max(FromUser(messages))].content]

(* The text the classifier reads can be extracted. *)
Classifiable(messages) ==
  FromUser(messages) # {} => messages[Max(FromUser(messages))].content \notin Unreadable

HasToolHistory(messages) ==
  \E i \in 1..Len(messages) : messages[i].role = "tool" \/ messages[i].calls

(* messages[-max_turns:] *)
Recent(messages) ==
  IF Len(messages) <= MaxTurns
    THEN messages
    ELSE SubSeq(messages, Len(messages) - MaxTurns + 1, Len(messages))

(* The cache key can be computed: it reads the recent turns only. *)
Keyed(messages) ==
  \A i \in 1..Len(Recent(messages)) : Recent(messages)[i].content \notin Unreadable

Turn(message) == [r |-> message.role, c |-> Normal[message.content]]

(* Bug: the tool history of the recent turns only. *)
CacheKeyRecentTools(p) ==
  [m |-> [i \in 1..Len(Recent(p.messages)) |-> Turn(Recent(p.messages)[i])],
   h |-> HasToolHistory(Recent(p.messages)),
   t |-> Range(p.tools),
   p |-> Range(p.flags)]

(* The recent turns, the tool history of ALL turns, and the sets (sorted,  *)
(* without duplicates) of tools and flags.                                 *)
CacheKey(p) ==
  [m |-> [i \in 1..Len(Recent(p.messages)) |-> Turn(Recent(p.messages)[i])],
   h |-> HasToolHistory(p.messages),
   t |-> Range(p.tools),
   p |-> Range(p.flags)]

(* All that classify() looks at in a request.                              *)
ClassifierInput(p) ==
  [text    |-> LatestUserText(p.messages),
   tools   |-> p.tools # <<>> \/ HasToolHistory(p.messages),
   flagged |-> "high_stakes" \in Range(p.flags)]

(* The key sees the text the classifier decides by: either no turn was cut *)
(* off for sure, or a message of the user is among the recent turns.       *)
WindowCovers(messages) ==
  \/ Len(messages) < MaxTurns
  \/ FromUser(Recent(messages)) # {}
=============================================================================
