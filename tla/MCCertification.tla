-------------------------- MODULE MCCertification --------------------------
(***************************************************************************)
(* Certification on a small workspace: a planned file, a planned new       *)
(* directory whose name is redacted, and two secret files, one of which    *)
(* git ignores.  The checks are about the planned file, and the result of  *)
(* one of them is redacted.                                                *)
(***************************************************************************)
EXTENDS Certification

ForbiddenDef == {".env", "server.pem"}
FilesDef == {"a.go", "token=secret/b.go"} \cup ForbiddenDef
PlannedDef == {"a.go", "token=secret/"}
PrintedDef == [f \in Files |-> f]
FolderDef == [f \in Files |-> IF f = "token=secret/b.go" THEN "token=secret/" ELSE f]
RedactDef ==
  [name \in FilesDef \cup {FolderDef[f] : f \in Files} |->
     IF name \in {"token=secret/", "token=secret/b.go"} THEN "[REDACTED]" ELSE name]
SecretChecksDef == {"go test ./token"}
CommandsDef == {"go test"} \cup SecretChecksDef
TestsDef == [command \in Commands |-> "a.go"]
CommitsDef == [n \in 0..(CallBound + DisturbanceBound) |-> <<"c0", "c1", "c2", "c3", "c4", "c5">>[n + 1]]
=============================================================================
