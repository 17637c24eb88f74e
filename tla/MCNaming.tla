------------------------------ MODULE MCNaming ------------------------------
(* Instances of NamingServer.                                              *)
EXTENDS NamingServer

MCChar == {"/", "d", "f", "x", "y"}

root == <<"/">>
x == <<"/", "x">>
y == <<"/", "y">>
d == <<"/", "d", "/">>
df == <<"/", "d", "/", "f">>
xDir == Append(x, "/")
yDir == Append(y, "/")
dfDir == Append(df, "/")

Ask(types, args) == [type : types, arg : args]

(* Server 0 has the file x, server 1 the directory d with the file f.      *)
MCText == {root, x, xDir, d, df, dfDir}
MCDisk == [s \in Server |-> IF s = 0 THEN {root, x} ELSE {root, d, df}]
MCRequest ==
  Ask({"CREATE_FILE", "DELETE_FILE"}, {x, df}) \union Ask({"DELETE_FILE", "DELETE_DIR", "CREATE_DIR"}, {d})

(* Two threads and one server with both files.                             *)
TwoText == {root, x, xDir, y, yDir}
OneDisk == [s \in Server |-> {root, x, y}]
OneRequest == Ask({"CREATE_FILE", "DELETE_FILE"}, {x})

(* The instances are of the kind that the theorems of OneThreadProofs are  *)
(* about.                                                                  *)
ASSUME InstanceAssumption == UniqueFiles /\ UniqueArguments /\ DirsByText /\ RootKept
                                /\ FilesApart /\ NamesApart
=============================================================================
