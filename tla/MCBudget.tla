------------------------------ MODULE MCBudget ------------------------------
(* Instances of Budget for TLC; and the installs of ModelInstall, over whatever *)
(* their calls meet.                                                            *)
EXTENDS Budget, ModelInstall

CONSTANTS nli, ocr, big, n1, n2, o1, o2, b1

\* The two models there are, and a third that only fits alone; the two get
\* two requests each.
Costs  == nli :> 1 @@ ocr :> 1 @@ big :> 2
Wanted == n1 :> nli @@ n2 :> nli @@ o1 :> ocr @@ o2 :> ocr @@ b1 :> big

-----------------------------------------------------------------------------
Fine == [ollama |-> TRUE, head |-> "digest", sized |-> TRUE, room |-> TRUE, download |-> "whole", checks |-> TRUE,
         uploads |-> TRUE, create |-> "success", copies |-> TRUE, closes |-> 0]

\* Ollama before: without the file, with it, and with a model of an older one.
Olders == {[blobs |-> {}, models |-> <<>>], [blobs |-> {"file"}, models |-> <<>>],
           [blobs |-> {"old"}, models |-> "tuned" :> "old" @@ "library" :> "base"]}

Variants == {"base", "finetuned"}
NameOfVariant(variant) == IF variant = "base" THEN "base" ELSE "tuned"

\* Whatever ends an install, no temporary file is left, no file and no name of
\* Ollama is lost, and a name means a new file only when that install made it.
ASSUME NothingIsLeftBehind ==
    \A v \in Variants, locked \in BOOLEAN, o \in Olders, install \in Installs :
        LET run == Install(v, locked, o.blobs, o.models, install)
        IN  /\ ~run.temp /\ o.blobs \subseteq run.blobs /\ DOMAIN o.models \subseteq DOMAIN run.models
            /\ run.outcome = "error" => \A name \in DOMAIN o.models : run.models[name] = o.models[name]
            /\ locked /\ v = "finetuned" => run.blobs = o.blobs /\ run.models = o.models

\* A model that is said to be installed is there, of a file Ollama has, and of
\* the file Hugging Face publishes if it says which that is.
ASSUME DoneIsInstalled ==
    \A v \in Variants, o \in Olders, install \in Installs :
        LET run == Install(v, FALSE, o.blobs, o.models, install)
        IN  run.outcome = "done" =>
              /\ NameOfVariant(v) \in DOMAIN run.models
              /\ v = "finetuned" =>
                    /\ run.models["tuned"] \in run.blobs
                    /\ install.head = "digest" => run.models["tuned"] = "file"
                    /\ install.sized => run.models["tuned"] # "part"

\* However an install ended, another that meets nothing wrong is done; what
\* the first brought to Ollama is not fetched again.
ASSUME InstallAgain ==
    \A v \in Variants, o \in Olders, install \in Installs :
        LET first  == Install(v, FALSE, o.blobs, o.models, install)
            again(with) == Install(v, FALSE, first.blobs, first.models, with)
        IN  /\ again(Fine).outcome = "done" /\ again([Fine EXCEPT !.head = "nothing"]).outcome = "done"
            /\ v = "finetuned" /\ "file" \in first.blobs =>
                 again([Fine EXCEPT !.download = "refused", !.uploads = FALSE, !.room = FALSE]).outcome = "done"
=============================================================================
