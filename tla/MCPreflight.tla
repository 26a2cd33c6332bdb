---------------------------- MODULE MCPreflight ----------------------------
(***************************************************************************)
(* Two workspaces, settings that overlap in every pair of neighbouring     *)
(* sources, and drafts that ask for less than they imply.                  *)
(***************************************************************************)
EXTENDS Preflight, TLC

MCInside == {<<"w1/log", "w1">>, <<"link", "w1">>}
MCSpelled == {<<"w1/log", "w1">>}

Grants == ("allow_writes" :> "true") @@ ("allow_exec" :> "true")
NoFiles == [p \in {"named", "xdg/canonical", "home/canonical", "xdg/legacy", "home/legacy"} |-> Absent]

MCSetups ==
  [env : {Nothing, "provider" :> "openai", Grants, "config" :> "named"},
   legacy : {Nothing, ("provider" :> "MiniMax") @@ ("model" :> "M1") @@ ("workspace" :> "w2")},
   minimax : {Nothing, ("model" :> "M2") @@ ("base_url" :> "https://mirror")},
   keys : {{"MINIMAX_API_KEY"}, {"OPENAI_API_KEY"}},
   files : {NoFiles,
            [NoFiles EXCEPT !["named"] = ("provider" :> "openai") @@ ("model" :> "M1"),
                            !["home/canonical"] = "evidence_dir" :> "link",
                            !["xdg/legacy"] = "provider" :> "zhipu"],
            [NoFiles EXCEPT !["xdg/canonical"] = ("provider" :> "google") @@ ("base_url" :> "https://own"),
                            !["home/canonical"] = Malformed,
                            !["named"] = "max_steps" :> "garbage"],
            [NoFiles EXCEPT !["xdg/canonical"] = ("provider" :> "ollama") @@ Grants]}]

MCFlagSets ==
  {[config |-> None, cli |-> Nothing],
   [config |-> None, cli |-> ("provider" :> "MiniMax") @@ ("model" :> "M1") @@ Grants],
   [config |-> "named", cli |-> Grants],
   [config |-> None, cli |-> ("workspace" :> "w1") @@ ("evidence_dir" :> "w1/log")],
   [config |-> None, cli |-> ("allow_exec" :> "true") @@ ("evidence_dir" :> "w1/log")]}

MCDraftOf ==
  [d \in {"edits", "checks", "strays", Joined, NoDraft} |->
     [declared |-> IF d = Joined THEN {"writes"} ELSE {}, files |-> d = "edits",
      valid |-> d # "strays"]]

MCAnswers == {<<"edits", "open", "checks", "close">>, <<"edits">>, <<"strays">>, <<"open">>,
  <<"head", "open", "prose", "close", "tail">>}

\* Checked once, over every answer of that length.
ASSUME AnswersAreRead == ReasoningComesSecond
=============================================================================
