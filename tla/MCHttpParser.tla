---------------------------- MODULE MCHttpParser ----------------------------
(* Logs for TLC: the lines go as far as http_record_get may read them, and  *)
(* some have no referer.                                                   *)
EXTENDS HttpParser, TLC

CONSTANTS f1, f2, f3, dir, u1, u2, r1, r2

Entry(u, b, r, l) == [url |-> u, bytes |-> b, referer |-> r, upto |-> l]

ThreeFiles == {f1, f2, f3}

\* f1: a line without referer after one with; f2: cut lines first; f3: the
\* first line of the file has no referer
Logs == (f1 :> <<Entry(u1, 5, r1, "all"), Entry(u2, 3, Dash, "all")>>)
     @@ (f2 :> <<Entry(u1, 7, r2, "url"), Entry(u1, 2, r1, "bytes"), Entry(u1, 1, r2, "all")>>)
     @@ (f3 :> <<Entry(u2, 4, Dash, "all"), Entry(u1, 9, r1, "nothing")>>)
=============================================================================
