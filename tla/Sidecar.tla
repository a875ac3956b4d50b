------------------------------ MODULE Sidecar ------------------------------
(***************************************************************************)
(* The HTTP surface of the ml sidecar (services/ml/ml_service/app.py,      *)
(* models.py), the backend's client of it (clients/ml.py), and what the    *)
(* client makes of every answer.  Budget has the loading of the lazy       *)
(* models; here a run on one ends in one of four ways.                     *)
(***************************************************************************)
EXTENDS Integers, Sequences, SequencesExt

CONSTANTS
    MaxBatch,   \* MAX_EMBED_TEXTS, MAX_NLI_PAIRS: the same at both ends
    MaxChars,   \* MAX_NER_CHARS, MAX_NLI_CHARS
    MaxBytes    \* MAX_OCR_BYTES

-----------------------------------------------------------------------------
(* A slot.  A resident one is loaded before the sidecar serves.            *)

NewSlot == [state |-> "not_loaded", model |-> FALSE, error |-> FALSE]

EnsureLoaded(slot, loads) ==
    CASE slot.model           -> slot
      [] ~slot.model /\ loads -> [state |-> "loaded", model |-> TRUE, error |-> FALSE]
      [] OTHER                -> [state |-> "failed", model |-> FALSE, error |-> TRUE]

Unload(slot) == NewSlot

\* The first that does not load ends the start; those after it are not tried.
Lifespan(loads) ==
    LET tried(i) == \A j \in 1..(i - 1) : loads[j]
    IN  [i \in DOMAIN loads |-> IF tried(i) THEN EnsureLoaded(NewSlot, loads[i]) ELSE NewSlot]

\* Of the resident ones; a lazy one may be in any state.
Healthz(resident) == IF \A i \in DOMAIN resident : resident[i].state = "loaded" THEN 200 ELSE 503

-----------------------------------------------------------------------------
(* The routes.  run: how the model's slot takes the call: it ran, the      *)
(* budget is exceeded, the lazy model does not load, or anything raises.   *)

Run == {"ran", "over", "unloadable", "raised"}

Reply(status, body) == [wire |-> "answered", status |-> status, body |-> body]

\* The exception handlers; anything else that raises is a 500 too.
Failed(run) == Reply(IF run = "over" THEN 503 ELSE 500, "none")

\* build: the model that the sidecar has, and its vectors' size.
Embed(build, texts, run) ==
    LET body(vectors) == [model |-> build.model, dim |-> build.dim, vectors |-> vectors]
    IN  CASE Len(texts) > MaxBatch -> Reply(422, "none")
          [] texts = <<>>          -> Reply(200, body(<<>>))
          [] OTHER -> IF run = "ran"
                      THEN Reply(200, body([i \in DOMAIN texts |-> [of |-> texts[i], by |-> build.model, dim |-> build.dim]]))
                      ELSE Failed(run)

\* The spans of the model, then those of the matcher, as offsets into the text.
Ner(text, spans, matched, run) ==
    CASE Len(text) > MaxChars -> Reply(422, "none")
      [] Len(text) <= MaxChars /\ run # "ran" -> Failed(run)
      [] OTHER -> Reply(200, [i \in DOMAIN (spans \o matched) |->
                                LET s == (spans \o matched)[i]
                                IN  [text |-> SubSeq(text, s[1] + 1, s[2]), start |-> s[1], end |-> s[2]]])

Batches(items, size) ==
    [i \in 1..((Len(items) + size - 1) \div size) |-> SubSeq(items, (i - 1) * size + 1, Min({i * size, Len(items)}))]

\* pairs: the lengths of their sides.  Each chunk is scored by itself, and the
\* scores are checked to be as many.  scores: those of each chunk.
Nli(pairs, chunk, scores, run) ==
    CASE Len(pairs) > MaxBatch \/ \E i \in DOMAIN pairs : pairs[i][1] > MaxChars \/ pairs[i][2] > MaxChars -> Reply(422, "none")
      [] pairs = <<>> -> Reply(200, <<>>)
      [] OTHER -> LET chunks == Batches(pairs, chunk)
                  IN  IF run # "ran" THEN Failed(run)
                      ELSE IF \E i \in DOMAIN chunks : Len(scores[i]) # Len(chunks[i]) THEN Failed("raised")
                      ELSE Reply(200, FlattenSeq(scores))

\* An empty upload never reaches the model, one that is no image does.  lines:
\* what is recognised, some of it blank.
Ocr(file, run) ==
    CASE file.bytes > MaxBytes -> Reply(413, "none")
      [] file.bytes = 0        -> Reply(422, "none")
      [] OTHER -> IF run # "ran" THEN Failed(run)
                  ELSE IF ~file.image THEN Reply(422, "none")
                  ELSE Reply(200, SelectSeq(file.lines, LAMBDA l : l # "blank"))

OcrRunsModel(file) == file.bytes \in 1..MaxBytes

-----------------------------------------------------------------------------
(* The client.                                                             *)

\* What the backend expects.
EmbeddingModel == "minilm"
EmbeddingDim   == 384
NliLabels      == {"entailment", "neutral", "contradiction"}

Ok(body) == [ok |-> TRUE, body |-> body]
ServiceUnavailable(status) == [ok |-> FALSE, error |-> "unavailable", status |-> status]
ServiceError(status)       == [ok |-> FALSE, error |-> "error", status |-> status]

\* The status of one that has none.
NoStatus == 0

\* wire: a timeout, a transport error, another error of the exchange, a body
\* that is no JSON, or an answer.
Request(reply) ==
    CASE reply.wire \in {"timeout", "transport"} -> ServiceUnavailable(NoStatus)
      [] reply.wire = "exchange"                 -> ServiceError(NoStatus)
      [] OTHER -> CASE reply.status >= 500       -> ServiceUnavailable(reply.status)
                    [] reply.status \in 400..499 -> ServiceError(reply.status)
                    [] OTHER -> IF reply.wire = "not_json" THEN ServiceError(reply.status) ELSE Ok(reply.body)

\* The answer's body when it is as expected, else an error.
Checked(reply, expected) ==
    LET got == Request(reply) IN IF got.ok /\ ~expected THEN ServiceError(NoStatus) ELSE got

EmbedBatch(texts, reply) ==
    LET body == reply.body
        got  == Checked(reply, /\ body.model = EmbeddingModel /\ body.dim = EmbeddingDim
                               /\ Len(body.vectors) = Len(texts)
                               /\ \A i \in DOMAIN body.vectors : body.vectors[i].dim = EmbeddingDim)
    IN  IF got.ok THEN Ok(got.body.vectors) ELSE got

\* A score has exactly the labels, each of them a number.
NliBatch(pairs, reply) ==
    Checked(reply, Len(reply.body) = Len(pairs) /\ \A i \in DOMAIN reply.body : reply.body[i] = NliLabels)

\* Batch after batch, until one raises; got: what each comes to.
Gathered(got) ==
    LET bad == {i \in DOMAIN got : ~got[i].ok}
    IN  IF bad # {} THEN got[Min(bad)] ELSE Ok(FlattenSeq([i \in DOMAIN got |-> got[i].body]))

\* replies: the reply to each batch.
EmbedAll(texts, replies) ==
    LET batches == Batches(texts, MaxBatch) IN Gathered([i \in DOMAIN batches |-> EmbedBatch(batches[i], replies[i])])
NliAll(pairs, replies) ==
    LET batches == Batches(pairs, MaxBatch) IN Gathered([i \in DOMAIN batches |-> NliBatch(batches[i], replies[i])])

\* The lines recognised; none is an answer too.
OcrText(reply) == Checked(reply, reply.body \in Seq({"line"}))

\* Only what is unavailable is worth another try.
Retryable(result) == ~result.ok /\ result.error = "unavailable"

\* What the route of an uploaded image takes it as.
Recognised(result) ==
    CASE result.ok -> IF result.body = <<>> THEN "" ELSE "text"
      [] Retryable(result) -> "unavailable"
      [] ~result.ok /\ result.error = "error" -> IF result.status = 413 THEN "too_large" ELSE "refused"
=============================================================================
