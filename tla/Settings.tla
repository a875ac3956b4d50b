------------------------------ MODULE Settings ------------------------------
(***************************************************************************)
(* Which language model a user's work goes to and what it costs            *)
(* (services/llm_config_service.py, api/routes/settings.py,                *)
(* eval_service.py): saved settings, the configuration they resolve to,    *)
(* the meter of the hosted model, tests and evaluations of a model.        *)
(***************************************************************************)
EXTENDS Providers, FiniteSetsExt

UserSettings ==
    [provider : {"kobold", "openai", "anthropic", "gemini", "custom"}, url : {"none", "platform", "platform/", "other"},
     key : BOOLEAN, model : {"none", "tuned", "base", "own"}, variant : {"finetuned", "base"}, paragraphs : 0..8]

\* The row of a user who has saved nothing.
NewSettings == [provider |-> "kobold", url |-> "none", key |-> FALSE, model |-> "none",
                variant |-> "finetuned", paragraphs |-> 0]

\* What a request gives replaces what is saved; an empty text, or none of a
\* count, clears it, and is written "none", FALSE or 0 here.
UpdateSettings(saved, given) == [c \in DOMAIN saved |-> IF c \in DOMAIN given THEN given[c] ELSE saved[c]]

Subscription == [plan : {"none", "byok", "hosted"}, used : Nat, included : Nat,
                 status : {"incomplete", "trialing", "active", "past_due", "canceled", "unpaid"}]

IsActive(sub)            == sub.status \in {"active", "past_due", "trialing"}
HasQuotaRemaining(sub)   == sub.used < sub.included
HostedModelEligible(sub) == sub.plan = "hosted" /\ IsActive(sub)

DefaultConfig == [provider |-> "kobold", url |-> "platform", key |-> FALSE, model |-> "tuned"]

\* The hosted model of the variant that is asked for.
HostedConfig(variant) == [DefaultConfig EXCEPT !.model = IF variant = "base" THEN "base" ELSE @]

HasPersonalConfig(saved) == saved.provider # "kobold" \/ saved.key \/ saved.url # "none" \/ saved.model # "none"
PersonalConfig(saved)    == [provider |-> saved.provider, url |-> saved.url, key |-> saved.key, model |-> saved.model]

\* settings and subs hold the user's row, if there is one.  A personal
\* configuration wins; then the platform's own, where it is open or paid for.
ResolveLLMConfig(settings, open, subs) ==
    LET variant == IF \E us \in settings : us.variant = "base" THEN "base" ELSE "finetuned"
    IN  IF \E us \in settings : HasPersonalConfig(us)
        THEN [outcome |-> "config", cfg |-> PersonalConfig(CHOOSE us \in settings : TRUE)]
        ELSE IF open \/ \E sub \in subs : HostedModelEligible(sub) /\ HasQuotaRemaining(sub)
        THEN [outcome |-> "config", cfg |-> HostedConfig(variant)]
        ELSE [outcome |-> CASE \E sub \in subs : HostedModelEligible(sub) -> "quota used"
                            [] \E sub \in subs : IsActive(sub) /\ sub.plan = "byok" -> "add a key"
                            [] OTHER -> "add a key or subscribe"]

\* About four characters to a token, and at least one.
MeteredTokens(chars) == IF chars < 4 THEN 1 ELSE chars \div 4

Meter(cfg, subs, chars) ==
    IF ~IsHostedDefault(cfg) THEN subs ELSE {[sub EXCEPT !.used = @ + MeteredTokens(chars)] : sub \in subs}

-----------------------------------------------------------------------------
(* Is the model there?  tags: the models Ollama lists, as names and tags.  *)

Unreachable == [reachable |-> FALSE, tags |-> {}]
ModelInstalled(name, tags) == \E tag \in tags : tag.full = name \/ tag.name = name
NameOf(variant) == IF variant = "base" THEN "base" ELSE "tuned"

\* KoboldCpp lists nothing and serves what it was started with.
ModelStatus(settings, ollama, koboldHealthy) ==
    LET local    == \A us \in settings : us.provider = "kobold" /\ us.url = "none"
        expected == NameOf(IF \E us \in settings : us.variant = "base" THEN "base" ELSE "finetuned")
        status(reachable, installed) == [local |-> local, reachable |-> reachable, installed |-> installed]
    IN  IF ~local \/ (~ollama.reachable /\ koboldHealthy) THEN status(TRUE, TRUE)
        ELSE status(ollama.reachable, ModelInstalled(expected, ollama.tags))

\* A test uses what is saved for the key and the URL it is not given; with no
\* URL the base variant is the platform's.
TestConfig(given, settings) ==
    LET url == IF given.url = "none" THEN {us.url : us \in settings} \ {"none"} ELSE {given.url}
    IN  [provider |-> given.provider,
         url      |-> IF url = {} THEN "none" ELSE CHOOSE u \in url : TRUE,
         key      |-> given.key \/ \E us \in settings : us.key,
         model    |-> IF given.provider = "kobold" /\ url = {} /\ given.variant = "base" THEN "base" ELSE given.model]

\* wire: what becomes of the trivial request.
TestConnection(given, settings, ollama, wire) ==
    LET cfg      == TestConfig(given, settings)
        expected == IF cfg.model = "none" THEN "tuned" ELSE cfg.model
    IN  IF cfg.provider = "kobold" /\ ollama.reachable /\ ~ModelInstalled(expected, ollama.tags) THEN "not installed"
        ELSE IF Prompted(cfg, wire) = "text" THEN "connected" ELSE "failed"

-----------------------------------------------------------------------------
(* An evaluation: many completions, metered as one.                        *)

\* The variant asked for, else the provider, else what is resolved; without a
\* configuration of one's own the request does not get as far.
EvaluationConfig(given, resolved) ==
    CASE resolved.outcome # "config" -> resolved
      [] resolved.outcome = "config" /\ given.variant # "none" ->
            [outcome |-> "config", cfg |-> HostedConfig(given.variant)]
      [] resolved.outcome = "config" /\ given.variant = "none" /\ given.cfg # {} ->
            [outcome |-> "config", cfg |-> CHOOSE c \in given.cfg : TRUE]
      [] OTHER -> resolved

\* lengths: of the replies to the records that were sampled, -1 for a failure.
\* A sample that fails is counted, and the run goes on.
RunEvaluation(lengths) ==
    LET scored == SelectSeq(lengths, LAMBDA n : n >= 0)
    IN  [sample |-> Len(lengths), scored |-> Len(scored), errors |-> Len(lengths) - Len(scored),
         total |-> FoldLeft(LAMBDA a, n : a + n, 0, scored)]

\* The average length times the size of the sample.
EvaluationChars(result) == IF result.scored = 0 THEN 0 ELSE (result.total * result.sample) \div result.scored

EvaluateModel(given, resolved, subs, lengths) ==
    LET used == EvaluationConfig(given, resolved)
    IN  CASE used.outcome # "config" -> [outcome |-> used.outcome, subs |-> subs]
          [] used.outcome = "config" /\ lengths = <<>> -> [outcome |-> "no validation set", subs |-> subs]
          [] used.outcome = "config" /\ lengths # <<>> ->
                [outcome |-> "stored", result |-> RunEvaluation(lengths),
                 subs |-> Meter(used.cfg, subs, EvaluationChars(RunEvaluation(lengths)))]
=============================================================================
