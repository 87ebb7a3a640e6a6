---------------------------- MODULE MC_Download -----------------------------
(* Three packages, two of them with files of the same name.                *)
EXTENDS Download

MCPackages == {1, 2, 3}
MCNewness  == <<1, 3, 2>>
MCFileName == <<"a", "a", "b">>
MCParts    == <<{"a", "pom"}, {}, {"pom"}>>
MCFolder   == <<"p-1", "p-2", "p-1">>
MCWithUrl  == {1, 2}
\* -y says nothing beside --download-all.
MCOptions  == {o \in Options : ~(o.all /\ o.yes) /\ ~(o.dryRun /\ o.overwrite)}
=============================================================================
