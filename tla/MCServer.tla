------------------------------ MODULE MCServer ------------------------------
(***************************************************************************)
(* Small instances of Server: requests that fail one check each, captures  *)
(* with fields and headers to be scrubbed, and captures of real size.      *)
(***************************************************************************)
EXTENDS Server

Piece(field, size) == [field |-> field, size |-> size, value |-> "whole"]

Capture(method, req, res, headers) ==
  [kind |-> "capture", token |-> TRUE, post |-> TRUE, json |-> TRUE,
   method |-> method, req |-> req, res |-> res, headers |-> headers]

\* A value that becomes longer when redacted, an array that is not, and a value
\* that straddles the cap.
Login == <<Piece("password", 8), [Piece("password", 4) EXCEPT !.value = "nested"], Piece("", 6)>>
Long == <<Piece("", 14), Piece("password", 10)>>

Secret == Capture("none", Login, Long, {"date", "set-cookie", "password"})
Write == Capture("write", <<>>, <<>>, {})

MCRequests ==
  {Secret,
   Write,
   [Secret EXCEPT !.json = FALSE],
   [Write EXCEPT !.post = FALSE],
   [Secret EXCEPT !.token = FALSE],
   [kind |-> "report", token |-> TRUE],
   [kind |-> "stats", token |-> TRUE]}

\* Proxy mode's tee cuts the long body, and ingest sees what is left.
MCProxied == {[Secret EXCEPT !.kind = "proxied", !.method = "read"]}

\* The same without the array.
MCLongAnswer == {[r EXCEPT !.req = <<>>] : r \in MCProxied}

\* Bodies around the default cap of a mebibyte.
Mebibyte == 1048576
MCLargeRequests ==
  {Capture("read", <<Piece("", n)>>, <<Piece("", m)>>, {})
     : n \in {0, Mebibyte}, m \in {Mebibyte - 1, Mebibyte, Mebibyte + 1}}
=============================================================================
