---- MODULE RequestShape ----
(***************************************************************************)
(* What strict validation asks of the JSON of the two known endpoints:     *)
(* validate_chat_body and validate_responses_body of                       *)
(* src/src/proxy/handler.rs, with everything they call.                    *)
(***************************************************************************)
EXTENDS JsonValue

NonBlank(v) == IsString(v) /\ ~IsBlank(v.text)

AllItems(P(_), v) == \A i \in DOMAIN ItemsOf(v) : P(ItemsOf(v)[i])

(* A string or null; an array if each of its parts passes.                 *)
TextOrParts(content, PartOk(_)) ==
    \/ content.kind \in {"absent", "string", "null"}
    \/ IsArray(content) /\ AllItems(PartOk, content)

ValidMessage(message) ==
    /\ IsObject(message)
    /\ NonBlank(Get(message, "role"))
    /\ TextOrParts(Get(message, "content"), IsObject)

ValidChatBody(body) ==
    /\ IsObject(body)
    /\ NonBlank(Get(body, "model"))
    /\ ItemsOf(Get(body, "messages")) # <<>>
    /\ AllItems(ValidMessage, Get(body, "messages"))

-----------------------------------------------------------------------------
ValidPart(part) ==
    /\ IsObject(part)
    /\ \A key \in {"type", "text"} : Get(part, key).kind \in {"absent", "string"}

ValidInputItem(item) ==
    /\ IsObject(item)
    /\ NonBlank(Get(item, "role")) \/ NonBlank(Get(item, "type"))
    /\ \A key \in {"content", "output"} : TextOrParts(Get(item, key), ValidPart)

ValidInput(input) ==
    \/ NonBlank(input)
    \/ ItemsOf(input) # <<>> /\ AllItems(ValidInputItem, input)

ValidTool(tool) ==
    /\ IsObject(tool)
    /\ \A key \in {"type", "name"} : Get(tool, key) = Absent \/ NonBlank(Get(tool, key))

ValidResponsesBody(body) ==
    /\ IsObject(body)
    /\ NonBlank(Get(body, "model"))
    /\ ValidInput(Get(body, "input"))
    /\ Get(body, "instructions").kind \in {"absent", "string", "null"}
    /\ LET tools == Get(body, "tools")
       IN  tools = Absent \/ (IsArray(tools) /\ AllItems(ValidTool, tools))

ValidBody(path, body) ==
    CASE path = "/v1/chat/completions" -> ValidChatBody(body)
      [] path = "/v1/responses"        -> ValidResponsesBody(body)
      [] OTHER                         -> TRUE
====
