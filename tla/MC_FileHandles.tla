---------------------------- MODULE MC_FileHandles ----------------------------
(* "ui" and "Data" are directories, "Data" holds "a" and "A" as well.         *)
EXTENDS FileHandles, TLC

CONSTANTS t1, t2

Twins == Permutations(Threads)
Disk == {<<"ui">>, <<"ui", "a">>, <<"Data">>, <<"Data", "a">>, <<"Data", "A">>}
Asked == {<<>>, <<"UI", "", "A">>, <<"Data", "A">>, <<"ui", "b">>}
Lower == "" :> "" @@ "." :> "." @@ "ui" :> "ui" @@ "UI" :> "ui" @@ "a" :> "a"
         @@ "A" :> "a" @@ "b" :> "b" @@ "Data" :> "data"
Bytes == [p \in Disk \union {<<>>} |-> IF Len(p) < 2 THEN 0 ELSE 3]
Sizes == [p \in Disk \union {<<>>} |-> IF Len(p) < 2 THEN 9 ELSE 3]
Targets == {-2, 2}
==============================================================================
