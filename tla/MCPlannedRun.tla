---------------------------- MODULE MCPlannedRun ----------------------------
(***************************************************************************)
(* A workspace with a.txt and lib/t.txt in git.  Paths: a tracked file and *)
(* another spelling of it, new files in a tracked and in new directories,  *)
(* a directory, one as git escapes it, the root, files some of the rules   *)
(* take for secrets, spelled plainly or not, credential stores, repository *)
(* internals, escapes.                                                     *)
(***************************************************************************)
EXTENDS PlannedRun

MCSpelled ==
  {<<"a.txt">>, <<"lib", "..", "a.txt">>, <<"lib", "c.txt">>, <<"new", "b.txt">>, <<"new", "">>,
   <<"lib", "x.pem", ".">>, <<".ENV">>, <<"credentials.json">>, <<"id_dsa.pub">>,
   <<".ssh", "conf">>, <<"lib", "..", ".git", "config">>, <<"lib", ".git", "config">>,
   <<"lib", ".git">>, <<"..", "out">>, <<"", "etc">>, <<"~", "a.txt">>, <<"naive.txt">>,
   <<".">>, <<"escaped", "">>, <<"credentials", "c.txt">>}

MCTracked == {<<"a.txt">>, <<"lib", "t.txt">>}
MCIgnored == {<<"out.log">>}
MCFiles == MCTracked \cup MCIgnored \cup
  {<<"new", "b.txt">>, <<"new", ".env">>, <<"lib", "c.txt">>, <<"credentials.json">>,
   <<"naive", "b.txt">>}

MCCommand(words, program, chars, flags, secret, spaced) ==
  [words |-> words, program |-> program, chars |-> chars, flags |-> flags,
   secret |-> secret, spaced |-> spaced]

GoTest == MCCommand("go test", "go", {}, {}, FALSE, FALSE)
GoTestSpaced == MCCommand("go test", "go", {}, {}, FALSE, TRUE)
MakeElsewhere == MCCommand("make -C lib", "make", {}, {"-C"}, FALSE, FALSE)
MakeWithSecret == MCCommand("make TOKEN=abcdef", "make", {}, {}, TRUE, FALSE)
GitAdd == MCCommand("git add", "git", {}, {}, FALSE, FALSE)
Emphatic == MCCommand("go test bang", "go", {"bang"}, {}, FALSE, FALSE)
Starred == MCCommand("go test star", "go", {"star"}, {}, FALSE, FALSE)
Foreign == MCCommand("sh x", "sh", {}, {}, FALSE, FALSE)

MCCommands == {GoTest, GoTestSpaced, MakeElsewhere, MakeWithSecret, GitAdd, Emphatic, Starred,
  Foreign}

MCDrafts ==
  [files : {s \in SUBSET MCSpelled : Cardinality(s) <= 1}
           \cup {{<<"a.txt">>, <<"new", "b.txt">>}, {<<"new", "">>, <<"lib", "c.txt">>}},
   commands : {{}, {GitAdd}},
   checks : {<<GoTest>>, <<GoTestSpaced>>, <<GoTest, GoTestSpaced>>, <<MakeElsewhere, GoTest>>,
             <<MakeWithSecret>>, <<Emphatic>>, <<Starred>>, <<Foreign>>, <<>>}]
=============================================================================
