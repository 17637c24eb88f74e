----------------------------- MODULE MCSessions -----------------------------
(* Instances of Sessions.                                                  *)
EXTENDS Sessions

MCChar == {"/", "x", "y"}

root == <<"/">>
x == <<"/", "x">>
y == <<"/", "y">>
MCText == {root, x, Append(x, "/"), y, Append(y, "/")}

Ask1(type, arg) == [type |-> type, arg |-> arg]

(* One server with the file x; nobody has y.                               *)
OneDisk == [s \in Server |-> {root, x}]
MCRequest == {Ask1("DELETE_FILE", x), Ask1("READ_FILE", x), Ask1("LIST_ALL", x), Nothing}

(* One server with two files, both of which can be listed.                 *)
TwoDisk == [s \in Server |-> {root, x, y}]
ListRequest == {Ask1("LIST_ALL", root), Ask1("CREATE_FILE", x), Ask1("DELETE_FILE", y), Nothing}
=============================================================================
