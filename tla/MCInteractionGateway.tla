----------------------- MODULE MCInteractionGateway -----------------------
(***************************************************************************)
(* TLC instance of InteractionGateway: general chat, a question service,   *)
(* an agent that runs at once and one that has a task profile, the records *)
(* an administrator may store for each (one is malformed, one has a type   *)
(* its key is not bound to), a subject with the permission the agents need *)
(* and one without.                                                        *)
(***************************************************************************)
EXTENDS InteractionGateway

MCBinding == [k \in {"llm.chat", "online.ask", "agent.skeleton",
                     "agent.extract"} |->
                CASE k = "llm.chat"   -> "chat"
                  [] k = "online.ask" -> "knowledge_qa"
                  [] OTHER            -> "agent"]

Chat(type, key, policy) ==
  [type |-> type, key |-> key, policy |-> policy, needs |-> {},
   enabled |-> TRUE, sound |-> TRUE, open |-> FALSE, declared |-> {"msg"},
   required |-> {"msg"}, document |-> {},
   fieldType |-> [f \in Fields |-> "string"]]

Bid(key, policy) ==
  [type |-> "agent", key |-> key, policy |-> policy, needs |-> {"tender"},
   enabled |-> TRUE, sound |-> TRUE, open |-> FALSE, declared |-> {"doc"},
   required |-> {"doc"}, document |-> {"doc"},
   fieldType |-> [f \in Fields |-> "string"]]

MCOffers == [c \in Codes |->
  CASE c = "chat" -> {Chat("chat", "llm.chat", "never")}
    [] c = "ask"  -> {Chat("knowledge_qa", "online.ask", "always"),
                      [Chat("knowledge_qa", "online.ask", "always")
                         EXCEPT !.enabled = FALSE],
                      [Chat("knowledge_qa", "online.ask", "always")
                         EXCEPT !.sound = FALSE]}
    [] c = "cut"  -> {Bid("agent.extract", "always"),
                      Bid("agent.skeleton", "always"),
                      [Bid("agent.extract", "always")
                         EXCEPT !.type = "knowledge_qa"]}
    [] c = "bid"  -> {Bid("agent.skeleton", "always"),
                      Bid("agent.skeleton", "never")}]

MCSeed == [c \in Codes |->
  CASE c = "chat" -> Chat("chat", "llm.chat", "never")
    [] c = "ask"  -> Chat("knowledge_qa", "online.ask", "always")
    [] c = "cut"  -> Bid("agent.extract", "always")
    [] c = "bid"  -> Bid("agent.skeleton", "always")]

MCUses == [r \in Requests |->
  CASE r = "r1" -> {"intent"}
    [] r = "r2" -> {"intent", "agent", "mcp"}
    [] r = "r3" -> {"agent", "confirm"}]

MCDrafts == {[f \in {"msg"} |-> "text"], [f \in {"doc"} |-> "id"]}

\* The document of a request is named by what the model extracts.
MCProvided == {[f \in {} |-> "blank"]}

MCChatInputs == [f \in {"msg"} |-> "text"]

MCPermits == [s \in Subjects |-> IF s = "owner" THEN {"tender"} ELSE {}]
=============================================================================
