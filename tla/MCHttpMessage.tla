--------------------------- MODULE MCHttpMessage ---------------------------
(* Model values for HttpMessage: pipelined requests around the block size. *)
EXTENDS HttpMessage

Req(lines, bad, target, query, close) ==
  [lines |-> lines, bad |-> bad, target |-> target, query |-> query, close |-> close]
Small == {Req(<<2>>, 0, "origin", 0, FALSE), Req(<<3, 1>>, 0, "asterisk", 0, FALSE), Req(<<3>>, 0, "encoded", 0, FALSE)}
Large == {Req(<<l, h, 2>>, 0, "origin", 1, FALSE) : l \in {3, 4}, h \in {1, 3, 4}}
Others == {Req(<<2, 3>>, 2, "origin", 0, FALSE), Req(<<2>>, 1, "origin", 0, FALSE), Req(<<1, 2>>, 0, "origin", 0, TRUE)}
Partial == {Req(<<2>>, 0, t, 0, FALSE) : t \in {"bare", "authority", "unmatched"}} \cup {Req(<<3>>, 0, "absolute", 1, FALSE)}
SomeScripts == {<<f, s>> : f \in Small \cup Large \cup Others, s \in Small} \cup {<<f, s>> : f \in Small, s \in Large \cup Others}
  \cup [1..3 -> Small] \cup {<<f, p, s>> : f \in Small, p \in Partial, s \in Small}
OneStale == {<<Req(<<3>>, 0, "origin", 0, FALSE), Req(<<3>>, 0, "authority", 0, FALSE)>>}
=============================================================================
