----------------------------- MODULE Providers -----------------------------
(***************************************************************************)
(* Calls to a language model (services/llm_provider.py): which model and   *)
(* backend a configuration names, what a provider's answer becomes, and    *)
(* the attempts of a call that must return a valid object.                 *)
(***************************************************************************)
EXTENDS Prompts

\* What a configuration holds.  url is the platform's, the same with a
\* trailing slash, another one, or none.
LLMConfig == [provider : {"kobold", "openai", "anthropic", "gemini", "custom", "fake"},
              url : {"none", "platform", "platform/", "other"}, key : BOOLEAN,
              model : {"none", "tuned", "base", "own"}]

\* The local model every platform call names, but for a narrative on the
\* base variant.
UsesPlatform(cfg) == cfg.provider = "kobold" /\ cfg.url # "other"
IsHostedDefault(cfg) == cfg.provider = "kobold" /\ cfg.url = "platform"

ModelFor(task, cfg) ==
    CASE ~UsesPlatform(cfg) -> cfg.model
      [] UsesPlatform(cfg) /\ task = "narrative" /\ cfg.model = "base" -> "base"
      [] OTHER -> "local"

\* Where an OpenAI-compatible provider's requests go, and the model they name.
Target(task, cfg) ==
    LET named(default) == IF ModelFor(task, cfg) # "none" THEN ModelFor(task, cfg) ELSE default
    IN  CASE cfg.provider = "openai" -> [url |-> "openai", model |-> named("gpt-4o-mini")]
          [] cfg.provider = "kobold" ->
               [url |-> IF cfg.url = "other" THEN "other" ELSE "platform", model |-> named("tuned")]
          [] OTHER ->
               [url |-> CASE cfg.url = "none" -> "localhost" [] cfg.url = "platform/" -> "platform" [] OTHER -> cfg.url,
                model |-> named("local-model")]

\* The model a request names.
CallModel(task, cfg) ==
    CASE cfg.provider = "fake" -> cfg.model
      [] cfg.provider \in {"anthropic", "gemini"} /\ cfg.model # "none" -> cfg.model
      [] cfg.provider = "anthropic" /\ cfg.model = "none" -> "claude-haiku-4-5"
      [] cfg.provider = "gemini"    /\ cfg.model = "none" -> "gemini-flash"
      [] OTHER -> Target(task, cfg).model

LocalOnly == {"num_ctx", "num_gpu", "keep_alive"}
StripLocalOptions(options) == options \ LocalOnly

\* The slots of the gate a call takes when its caller holds some of them.
SlotsTaken(cfg, held) == IF UsesPlatform(cfg) /\ held = 0 THEN 1 ELSE 0

-----------------------------------------------------------------------------
(* The probe of a backend.  Only an answer is remembered.                  *)

Answered == {"version", "other"}           \* 2xx with a version; any other answer below 500
NoAnswer == {"unreachable", "5xx"}

BackendOf(answer) == IF answer = "version" THEN "ollama" ELSE "openai_compat"

\* known: the backends remembered, by URL.
DetectBackend(known, url, answer) ==
    IF known[url] # "unknown" THEN [backend |-> known[url], known |-> known]
    ELSE [backend |-> BackendOf(answer),
          known   |-> IF answer \in Answered THEN [known EXCEPT ![url] = BackendOf(answer)] ELSE known]

-----------------------------------------------------------------------------
(* What becomes of an answer.                                              *)

\* broken: the connection fails other than by a timeout; shape: a field is
\* missing; null: the text is null.
Wire == {"text", "empty", "timeout", "status", "broken", "shape", "null"}

NeedsKey == {"anthropic", "gemini"}

\* complete_messages: what it returns or raises.
Completed(cfg, wire) ==
    CASE cfg.provider = "fake" -> "text"
      [] cfg.provider \in NeedsKey /\ ~cfg.key -> "400"
      [] OTHER -> CASE wire = "text" -> "text"
                    [] wire \in {"empty", "timeout", "status", "shape"} -> "503"
                    [] wire \in {"broken", "null"} -> "raw"

\* A narrative is tried natively unless the backend is Ollama: three times at
\* most after timeouts and refusals, not at all after anything else.
NativeAttempts == 3
TriesNative(cfg, backend) == cfg.provider = "kobold" /\ backend # "ollama"

\* wires: what each attempt meets; an empty text is a text.
Native(wires) ==
    LET ended == {i \in 1..NativeAttempts : wires[i] \notin {"timeout", "status"}}
        last  == CHOOSE i \in ended : \A j \in ended : i <= j
    IN  IF ended = {} THEN [outcome |-> "failed", sends |-> NativeAttempts]
        ELSE [outcome |-> IF wires[last] \in {"text", "empty"} THEN wires[last] ELSE "failed", sends |-> last]

\* Both attempts are one use of the gate.
GenerateNarrative(cfg, backend, wires, wire) ==
    LET native == IF TriesNative(cfg, backend) THEN Native(wires) ELSE [outcome |-> "failed", sends |-> 0]
    IN  [outcome |-> IF native.outcome # "failed" THEN native.outcome ELSE Completed(cfg, wire),
         natively |-> native.sends, slots |-> SlotsTaken(cfg, 0)]

\* _prompted_sender: the same for an attempt of complete_structured.
Prompted(cfg, wire) ==
    CASE Completed(cfg, wire) = "text" -> "text"
      [] Completed(cfg, wire) = "400"  -> "LLMConfigError"
      [] OTHER -> "LLMUnavailable"

\* How the other two take the messages.  Anthropic is given every system
\* message, Gemini the last; neither an empty conversation.
Hello == [role |-> "user", size |-> 5]
System(messages) == SelectSeq(messages, LAMBDA m : m.role = "system")
Conversation(messages)  ==
    LET others == SelectSeq(messages, LAMBDA m : m.role # "system")
    IN  IF others = <<>> THEN <<Hello>> ELSE others

AnthropicPayload(messages) == [system |-> System(messages), turns |-> Conversation(messages)]
GeminiPayload(messages) ==
    [system |-> IF System(messages) = <<>> THEN <<>> ELSE <<Last(System(messages))>>,
     turns  |-> [i \in 1..Len(Conversation(messages)) |->
                   [Conversation(messages)[i] EXCEPT !.role = IF @ = "assistant" THEN "model" ELSE "user"]]]

\* How a stream ends: what goes wrong before the first delta is an error,
\* afterwards the end, unless the connection breaks.
StreamEnds(deltas, wire) ==
    CASE wire = "done" /\ deltas > 0 -> "ended"
      [] wire = "broken" -> "raw"
      [] OTHER -> IF deltas > 0 THEN "ended" ELSE "503"

\* What a capture notes of a call: the class is the caller's or the current one,
\* and only of calls that pass the gate.
Recorded(task, cfg, given, current) ==
    [task |-> task, provider |-> cfg.provider, model |-> CallModel(task, cfg),
     class |-> CASE ~UsesPlatform(cfg) -> "none" [] OTHER -> IF given # "none" THEN given ELSE current]

\* Captures nest, and every open one gets the call.
Captured(captures, call) ==
    [i \in 1..Len(captures) |->
        [captures[i] EXCEPT !.calls = IF captures[i].open THEN Append(@, call) ELSE @]]

\* stream_messages, step by step, for a caller that asks `asked` times and then
\* closes: sent deltas and then wire is what the backend has to give.  Nothing
\* runs before it is first asked, and a full gate is an error (no step).
StreamMessages(cfg, held, full, sent, wire, asked) ==
    LET gated    == SlotsTaken(cfg, held) = 1
        only(s)  == IF gated THEN <<s>> ELSE <<>>
        given(n) == [i \in 1..Least(n, asked) |-> "delta"]
    IN  CASE asked = 0 \/ (gated /\ full) -> <<>>
          [] asked > 0 /\ cfg.provider \in NeedsKey ->
               <<"record">> \o given(IF Completed(cfg, wire) = "text" THEN 1 ELSE 0)
          [] asked > 0 /\ cfg.provider = "fake" -> <<"record">> \o given(sent)
          [] OTHER -> only("reserve") \o <<"record", "open">> \o given(sent) \o <<"close">> \o only("release")

\* Test Connection asks the model that narratives are written with.
ProbeConnection(cfg, wire) ==
    [model |-> CallModel("narrative", cfg), outcome |-> Completed(cfg, wire),
     timeout |-> IF cfg.provider = "kobold" THEN 90 ELSE 15]

\* The text of an object in a reply: inside a fence that is all of it, else
\* from the first brace to the last.  A reply is its parts in order.
Fence == "fence"
JsonCandidate(reply) ==
    LET braces == {i \in 1..Len(reply) : reply[i] \in {"{", "}"}}
        opens  == {i \in braces : reply[i] = "{"}
        closes == {i \in braces : reply[i] = "}"}
        first  == CHOOSE i \in opens : \A j \in opens : i <= j
        last   == CHOOSE i \in closes : \A j \in closes : i >= j
    IN  CASE Len(reply) > 1 /\ reply[1] = Fence /\ Last(reply) = Fence -> SubSeq(reply, 2, Len(reply) - 1)
          [] OTHER -> IF opens # {} /\ closes # {} /\ last > first THEN SubSeq(reply, first, last) ELSE reply

-----------------------------------------------------------------------------
(* complete_structured.                                                    *)

MaxAttempts    == 3
RepairErrorsMax == 1000

\* The schema goes at the end of the last user turn, or in a turn of its own.
WithSchema(messages, size) ==
    IF messages # <<>> /\ Last(messages).role = "user"
    THEN Front(messages) \o <<[role |-> "user",
                                size |-> IF Last(messages).size > 0 THEN Last(messages).size + 2 + size ELSE size]>>
    ELSE Append(messages, [role |-> "user", size |-> size])

\* A larger reply takes its room from the prompt's window.
StructuredWindow(context, reserved, maxTokens) ==
    context - (IF maxTokens > reserved THEN maxTokens ELSE reserved)

\* The request for a repair, with its remark on how the echo was shortened.
Remark == [whole |-> 0, cut |-> 17, dropped |-> 12]
RepairRequest(remark, errors) ==
    [role |-> "user", size |-> 134 + Remark[remark] + Least(errors, RepairErrorsMax)]
Echo(size) == [role |-> "assistant", size |-> size]

\* The longest beginning of the reply that fits is echoed, found by halving.
RepairMessages(base, reply, errors, window) ==
    LET full  == base \o <<Echo(reply), RepairRequest("whole", errors)>>
        cut(n) == base \o <<Echo(n + 3), RepairRequest("cut", errors)>>
        fixed == EstimateMessages(base \o <<Echo(0), RepairRequest("cut", errors)>>)
        longest[lo \in 0..reply, hi \in 0..reply] ==
          LET mid == (lo + hi + 1) \div 2
          IN  IF lo >= hi THEN lo
              ELSE IF fixed + EstimateTokens(mid + 3) <= window THEN longest[mid, hi] ELSE longest[lo, mid - 1]
        dropped == Append(base, RepairRequest("dropped", errors))
    IN  CASE EstimateMessages(full) <= window -> [outcome |-> "asks", messages |-> full]
          [] OTHER ->
               IF longest[0, reply] > 0 THEN [outcome |-> "asks", messages |-> cut(longest[0, reply])]
               ELSE IF EstimateMessages(dropped) <= window THEN [outcome |-> "asks", messages |-> dropped]
               ELSE [outcome |-> "PromptBudgetError", messages |-> <<>>]

StructuredMode(cfg, backend) ==
    CASE cfg.provider = "fake" -> "fake"
      [] cfg.provider = "kobold" -> IF backend = "ollama" THEN "ollama" ELSE "schema"
      [] cfg.provider \in {"openai", "custom"} -> "schema"
      [] cfg.provider \in NeedsKey -> cfg.provider

\* What meets one attempt: the gate (busy), the strict request's 4xx, the
\* backend, the validation of the reply, and whether a repair prompt fits.
Meeting == [busy : BOOLEAN, rejected : BOOLEAN, reply : {"valid", "invalid", "LLMUnavailable", "LLMConfigError"},
            repairFits : BOOLEAN]

\* One attempt: a refused response_format is asked again in the prompt, in
\* the same attempt, and never again strictly.
Attempted(call, meets) ==
    LET mode == IF call.mode = "schema" /\ meets.rejected THEN "prompted" ELSE call.mode
        sent == [call EXCEPT !.mode = mode, !.attempts = @ + 1,
                             !.sends = @ \o (IF mode = call.mode THEN <<mode>> ELSE <<"schema", mode>>)]
        over(how, stat) == [sent EXCEPT !.outcome = how, !.stat = stat]
    IN  CASE call.outcome # "trying" -> call
          [] meets.busy -> [call EXCEPT !.outcome = "LLMBusy"]
          [] meets.reply \in {"LLMUnavailable", "LLMConfigError"} -> over(meets.reply, "none")
          [] meets.reply = "valid" ->
               over("valid", IF sent.attempts = 1 THEN "first_try_valid" ELSE "valid_after_repair")
          [] OTHER -> IF sent.attempts < MaxAttempts /\ meets.repairFits THEN sent
                      ELSE over("StructuredOutputError", "failed")

CompleteStructured(mode, meetings) ==
    FoldLeft(Attempted,
             [outcome |-> "trying", mode |-> mode, attempts |-> 0, sends |-> <<>>, stat |-> "none"],
             meetings)
=============================================================================
