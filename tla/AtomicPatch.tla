---------------------------- MODULE AtomicPatch ----------------------------
(***************************************************************************)
(* What a patch promises (package comment of internal/patch): it applies   *)
(* to every file it names, or to none of them, and only to the versions it *)
(* was built against.  One whose rollback failed, or whose process was     *)
(* killed, is broken.  Nothing more is promised once the calls disturbed   *)
(* each other, or somebody else them: then sound is lost for good.         *)
(***************************************************************************)
CONSTANTS
  Appliers,   \* the calls that apply a patch
  Files,      \* the files of the workspace
  Contents,   \* what a file may hold
  Damaged,    \* what else a file may hold once a call is broken
  Effects     \* the patches, as sets of [file, pre, post]

VARIABLES content, result, sound

vars == <<content, result, sound>>

Results == {"pending", "applied", "refused", "broken"}

FilesOf(effect) == {change.file : change \in effect}

Init ==
  /\ content \in [Files -> Contents]
  /\ result = [a \in Appliers |-> "pending"]
  /\ sound = TRUE

Decide(a, r) == result[a] = "pending" /\ result' = [result EXCEPT ![a] = r]

Apply(a) ==
  /\ Decide(a, "applied")
  /\ \E effect \in Effects :
       /\ \A change \in effect : content[change.file] = change.pre
       /\ \A change \in effect : content'[change.file] = change.post
       /\ \A f \in Files \ FilesOf(effect) : content'[f] = content[f]
  /\ DOMAIN content' = Files

Refuse(a) == Decide(a, "refused") /\ UNCHANGED content

\* One rollback fails, or a kill ends several calls at once.
Break(broken) ==
  /\ \A a \in broken : result[a] = "pending"
  /\ result' = [a \in Appliers |-> IF a \in broken THEN "broken" ELSE result[a]]
  /\ \E effect \in [broken -> Effects] :
       \A f \in Files \ UNION {FilesOf(effect[a]) : a \in broken} : content'[f] = content[f]
  /\ content' \in [Files -> Contents \cup Damaged]

\* Somebody else saves a file.
Save(f) ==
  /\ \E c \in Contents : content' = [content EXCEPT ![f] = c]
  /\ UNCHANGED result

\* After a disturbance the files may hold anything; decided calls stay decided.
Disturbed ==
  /\ ~sound'
  /\ content' \in [Files -> Contents \cup Damaged]
  /\ result' \in [Appliers -> Results]
  /\ \A a \in Appliers : result[a] # "pending" => result'[a] = result[a]

Next ==
  \/ /\ sound /\ sound'
     /\ \/ \E a \in Appliers : Apply(a) \/ Refuse(a)
        \/ \E broken \in (SUBSET Appliers) \ {{}} : Break(broken)
        \/ \E f \in Files : Save(f)
  \/ Disturbed

Spec == Init /\ [][Next]_vars
=============================================================================
