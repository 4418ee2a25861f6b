--------------------------- MODULE MCImportGraph ---------------------------
(* The linker's walks over every import graph of four modules in which a     *)
(* module has at most two imports, and the last one at most one.             *)
EXTENDS ImportGraph

CONSTANTS ma, mb, mc, md

Sorted == <<ma, mb, mc, md>>

Lists == {<<>>} \cup {<<m>> : m \in Modules} \cup
         {<<Sorted[i], Sorted[j]>> : i \in 1 .. 3, j \in 2 .. 4}

AllGraphs ==
    {g \in [Modules -> {s \in Lists : Len(s) = 2 => s[1] # s[2]}] : Len(g[md]) <= 1}
============================================================================
