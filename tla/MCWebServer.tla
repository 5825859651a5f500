------------------------------ MODULE MCWebServer ------------------------------
(* A small instance of WebServer. *)
EXTENDS WebServer

CONSTANTS c1, c2, c3

MCFile == <<"line">>

Ask(http, get, ext, there) == [http |-> http, get |-> get, ext |-> ext, there |-> there]

\* c1 asks for a file, c2 does so or uses another method, and c3 does only what
\* goes wrong: no such file, no HTTP (or no request at all), or a name without
\* extension.
MCRequests ==
    [c \in Clients |->
       CASE c = c1 -> {Ask(TRUE, TRUE, "html", TRUE)}
         [] c = c2 -> {Ask(TRUE, TRUE, "other", TRUE), Ask(TRUE, FALSE, "html", TRUE)}
         [] c = c3 -> {Ask(TRUE, TRUE, "other", FALSE), NoText, Ask(TRUE, TRUE, "none", TRUE)}]
=============================================================================
