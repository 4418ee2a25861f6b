------------------------- MODULE MCReferenceService -------------------------
(* The reference service with one or two connections.                             *)
EXTENDS ReferenceService, TLC

CONSTANTS c1, c2

Ask(r) == [route |-> r, known |-> TRUE]
Stray(r) == [route |-> r, known |-> FALSE]

\* A client that writes, and one that does anything.
Mixed == (c1 :> {Ask("update")})
         @@ (c2 :> {Ask("events"), Ask("update"), Ask("read"), Stray("read"), Ask("static")})

\* Only a request that needs no database comes in two pieces.
StaticInTwo == [r \in Requests |-> IF r.route = "static" THEN 2 ELSE 1]

LongOrFragmented == {Ask("events"), Ask("static")}

\* One connection.
Streaming == (c1 :> {Ask("events")})
Writing == (c1 :> {Ask("update"), Ask("read")})
============================================================================
