----------------------------- MODULE MCSettings -----------------------------
(* The rules of Settings over every configuration and subscription. *)
EXTENDS Settings

Saved == {us \in UserSettings : us.paragraphs = 0}
Rows(set) == {{}} \cup {{x} : x \in set}

Subscriptions == [plan : {"none", "byok", "hosted"}, used : {0, 2}, included : {0, 2},
                  status : {"incomplete", "active", "past_due", "canceled"}]

\* The platform's model is for an open platform, for a hosted subscription
\* with quota, and for settings that name the platform themselves; what is
\* metered runs on the platform.
ASSUME PlatformIsPaidFor ==
    \A settings \in Rows(Saved), open \in BOOLEAN, subs \in Rows(Subscriptions) :
        LET resolved == ResolveLLMConfig(settings, open, subs)
        IN  resolved.outcome = "config" =>
              /\ UsesPlatform(resolved.cfg) =>
                    \/ open
                    \/ \E sub \in subs : sub.plan = "hosted" /\ sub.status \in {"active", "past_due"} /\ sub.used < sub.included
                    \/ \E us \in settings : us.provider = "kobold" /\ us.url # "other" /\ HasPersonalConfig(us)
              /\ Meter(resolved.cfg, subs, 9) # subs => UsesPlatform(resolved.cfg)

\* Whoever is refused is told what would help: with a personal configuration
\* nobody is, and nobody who has paid for the hosted model is told to.
ASSUME RefusalsFit ==
    \A settings \in Rows(Saved), subs \in Rows(Subscriptions) :
        LET outcome == ResolveLLMConfig(settings, FALSE, subs).outcome
        IN  /\ outcome = "quota used" => \E sub \in subs : sub.plan = "hosted" /\ sub.used >= sub.included
            /\ outcome = "add a key or subscribe" => \A sub \in subs : ~IsActive(sub) \/ sub.plan = "none"
            /\ outcome # "config" => \A us \in settings : ~HasPersonalConfig(us)

\* What is given and taken back leaves the settings as they were, and saving
\* what is saved changes nothing.
ASSUME SettingsClear ==
    \A us \in Saved :
        LET given == [url |-> "other", key |-> TRUE, model |-> "own", paragraphs |-> 3]
            clear == [url |-> "none", key |-> FALSE, model |-> "none", paragraphs |-> 0]
        IN  /\ UpdateSettings(us, us) = us
            /\ ~HasPersonalConfig(UpdateSettings(UpdateSettings(us, given), clear)) <=> us.provider = "kobold"

Tags == SUBSET {[name |-> "tuned", full |-> "tuned:latest"], [name |-> "base", full |-> "base:latest"]}

\* When the banner says that the model is there, and it is the platform's
\* Ollama that serves it, a test of the same variant does not say it is not.
ASSUME BannerAgreesWithTest ==
    \A settings \in Rows(Saved), tags \in Tags, wire \in Wire :
        LET ollama  == [reachable |-> TRUE, tags |-> tags]
            variant == IF \E us \in settings : us.variant = "base" THEN "base" ELSE "finetuned"
            given   == [provider |-> "kobold", url |-> "none", key |-> FALSE, model |-> "none", variant |-> variant]
            banner  == ModelStatus(settings, ollama, FALSE)
        IN  banner.local => (banner.installed = (TestConnection(given, settings, ollama, wire) # "not installed"))

Replies == UNION {[1..n -> {-1, 0, 3, 40}] : n \in 0..3}

\* An evaluation of the hosted model is metered as all its replies at least,
\* and nothing that ran elsewhere is metered.
ASSUME EvaluationsAreMetered ==
    \A lengths \in Replies, sub \in Subscriptions, variant \in {"none", "base"}, us \in {s \in Saved : s.model = "own"} :
        LET done == EvaluateModel([variant |-> variant, cfg |-> {}], ResolveLLMConfig({us}, FALSE, {sub}), {sub}, lengths)
        IN  done.outcome = "stored" =>
              /\ variant # "none" => \A s \in done.subs : s.used >= sub.used + MeteredTokens(done.result.total)
              /\ variant = "none" /\ ~(us.provider = "kobold" /\ us.url = "platform") => done.subs = {sub}
              /\ done.result.scored + done.result.errors = Len(lengths)
=============================================================================
