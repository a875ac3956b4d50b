---------------------------- MODULE ModelInstall ----------------------------
(***************************************************************************)
(* Installing a model into Ollama from the admin portal                    *)
(* (services/ollama_service.py): a generator of progress events, ended by  *)
(* an error or, at any event, by the administrator closing the page.       *)
(* A file is named by its digest; an install is what its calls will meet.  *)
(***************************************************************************)
EXTENDS Integers, TLC

\* head: what Hugging Face says of the file, its digest if it has the right
\* form; sized: it, or the download, tells a size.  checks, uploads and copies
\* say whether Ollama answers that call; closes: the event that is the last.
Installs ==
    [ollama : BOOLEAN, head : {"digest", "nothing", "refused"}, sized : BOOLEAN, room : BOOLEAN,
     download : {"whole", "altered", "cut", "refused"}, checks : BOOLEAN, uploads : BOOLEAN,
     create : {"success", "refused", "error", "cut"}, copies : BOOLEAN, closes : 0..9]

\* temp: the temporary file is there; models: each name's file.
Begun(blobs, models) ==
    [events |-> 0, temp |-> FALSE, digest |-> "none", blobs |-> blobs, models |-> models, outcome |-> "running"]

Going(run) == run.outcome = "running"

\* What is done next, unless the run has ended; ok: no call of it raises.
Then(run, ok, done) ==
    IF ~Going(run) THEN run ELSE IF ok THEN done ELSE [run EXCEPT !.outcome = "error"]

Told(run, install) ==
    Then(run, TRUE, [run EXCEPT !.events = @ + 1, !.outcome = IF run.events + 1 = install.closes THEN "closed" ELSE @])

Contacted(run, install) == LET told == Told(run, install) IN Then(told, install.ollama, told)

HfFileInfo(run, install) ==
    LET told == Told(run, install)
    IN  Then(told, install.head # "refused", [told EXCEPT !.digest = IF install.head = "digest" THEN "file" ELSE "none"])

CheckDiskSpace(run, install) == Then(run, install.room, run)

\* Hashed on the way; of a size nobody told, a file cut off looks whole.
Downloaded(run, install) ==
    LET told == Told(run, install)
        came == [whole |-> "file", altered |-> "altered", cut |-> "part"]
    IN  IF install.download = "refused" THEN Then(run, FALSE, run)
        ELSE Then(told, install.download # "cut" \/ ~install.sized,
                  Then(Told(told, install), TRUE, [Told(told, install) EXCEPT !.digest = came[install.download]]))

Verified(run, expected) == Then(run, expected \in {"none", run.digest}, run)

\* The page closed while the file goes up cancels that; when Ollama has the
\* file by then, it keeps it.
Uploaded(run, install) ==
    LET told == Told(run, install)
    IN  IF install.checks /\ run.digest \in run.blobs THEN told
        ELSE IF ~install.checks THEN Then(run, FALSE, run)
        ELSE Then(told, install.uploads, Told([told EXCEPT !.blobs = @ \cup {run.digest}], install))

\* A file Ollama has is not fetched again.  Whatever ends a download, or what
\* follows it, the temporary file goes.
Fetched(run, install) ==
    LET expected == run.digest
        made     == [CheckDiskSpace(run, install) EXCEPT !.temp = TRUE]
    IN  IF expected # "none" /\ ~install.checks THEN Then(run, FALSE, run)
        ELSE IF expected # "none" /\ expected \in run.blobs THEN Told(run, install)
        ELSE IF ~Going(CheckDiskSpace(run, install)) THEN CheckDiskSpace(run, install)
        ELSE [Uploaded(Verified(Downloaded(made, install), expected), install) EXCEPT !.temp = FALSE]

\* A stream that ends and has not said "success" is an error.
Created(run, install, target) ==
    LET told == Told(run, install)
    IN  Then(told, install.create = "success", Told([told EXCEPT !.models = target :> told.digest @@ @], install))

InstallFinetuned(run, install, target) ==
    Created(Fetched(HfFileInfo(Contacted(run, install), install), install), install, target)

\* Ollama pulls the base model itself; how the pull ended is not looked at,
\* but a model that is not there is not copied.
InstallBase(run, install, target) ==
    LET told   == Told(run, install)
        pulled == Then(told, install.ollama /\ install.download \in {"whole", "cut"},
                       Told(IF install.download = "cut" THEN told
                            ELSE [told EXCEPT !.models = "library" :> "base" @@ @], install))
        asked  == Told(pulled, install)
    IN  Then(asked, install.copies /\ "library" \in DOMAIN asked.models,
             [asked EXCEPT !.models = target :> asked.models["library"] @@ @])

\* locked: this worker installs a fine-tune already.  The last event of a run
\* that the administrator waits for is that it is done, or the error.
Install(variant, locked, blobs, models, install) ==
    LET run  == Begun(blobs, models)
        last == IF variant = "base" THEN InstallBase(run, install, "base")
                ELSE Then(run, ~locked, InstallFinetuned(run, install, "tuned"))
    IN  Then(last, TRUE, [last EXCEPT !.outcome = "done"])
=============================================================================
