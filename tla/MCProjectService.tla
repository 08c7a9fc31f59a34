-------------------------- MODULE MCProjectService --------------------------
(* Constants of the model-checking run of ProjectService. *)
EXTENDS ProjectService

CONSTANTS s1, s2

Summaries(l, titles, topics) ==
    [language |-> l, titles |-> titles, topics |-> topics]

\* Chinese names by a model, English ones made up without a provider, and no summaries.
MCConfigs == {Summaries("zh", "model", TRUE), Summaries("en", "local", FALSE),
              Summaries("zh", "off", FALSE)}
=============================================================================
