--------------------------- MODULE MCHttpServer ---------------------------
(* Model values for HttpServer: a small site and the requests for it. *)
EXTENDS HttpServer

Regular(size, time) == [kind |-> "regular", inside |-> TRUE, size |-> size, time |-> time]
Kind(kind) == [kind |-> kind, inside |-> TRUE, size |-> 0, time |-> 1]
Outside(file) == [file EXCEPT !.inside = FALSE]
Site == (<<<<"f.html">>, "">> :> Regular(3, 2)) @@ (<<<<"f.html">>, ".gz">> :> Regular(2, 3))
  @@ (<<<<"w.docx">>, "">> :> Regular(4, 1)) @@ (<<<<"w.docx">>, ".gz">> :> Kind("unreadable"))
  @@ (<<<<"w.docx">>, ".br">> :> Regular(1, 2))
  @@ (<<<<"d">>, "">> :> Kind("directory")) @@ (<<<<"d", "">>, "">> :> Kind("directory"))
  @@ (<<<<"d", "index.html">>, "">> :> Outside(Regular(5, 4)))
  @@ (<<<<"">>, "">> :> Kind("directory")) @@ (<<<<"..">>, "">> :> Outside(Kind("directory"))) @@ (<<<<"pipe">>, "">> :> Kind("special"))
Names == ("f.html" :> ".html") @@ ("w.docx" :> ".docx")

Route1(call, method, path, handler) == [call |-> call, method |-> method, path |-> path, handler |-> handler, status |-> 0]
Root == Route1("add_prefix", "", <<"">>, "u4")
A5 == Route1("add_prefix", "", <<"a">>, "u5")
A6 == Route1("add_prefix", "", <<"a", "">>, "u6")
U1 == Route1("add_route", "GET", <<"a">>, "u1")
U2 == Route1("add_route", "POST", <<"a">>, "u2")
U3 == Route1("add_route", "GET", <<"a", "b">>, "u3")
Static(path, handler) == Route1("add_static", "", path, handler)
OnForbidden == [call |-> "set_status_handler", method |-> "", path |-> <<>>, handler |-> "u7", status |-> 403]
A8 == Route1("add_route", "GET", <<"a", "">>, "u8")
B9 == Route1("add_prefix", "", <<"a", "", "b">>, "u9")
SomeScripts ==
  {<<U3, Root>>, <<A8, B9>>, <<Route1("redirect", "GET", <<"a", "">>, "redirect"), A6, A5>>, <<U1, U2, U3, U1, Static(<<"a", "b">>, "folder"), Root>>,
   <<OnForbidden, Static(<<"">>, "folder"), A5>>, <<Static(<<"">>, "file"), U3>>}

Req(method, path) == [method |-> method, path |-> path, accept |-> <<>>, condition |-> "none", since |-> 0, encodings |-> <<>>, close |-> FALSE]
Encoded(path, list) == [Req("GET", path) EXCEPT !.encodings = list]
Gzip(path) == Encoded(path, <<<<"gzip", "">>>>)
When(path, condition, since) == [Req("GET", path) EXCEPT !.condition = condition, !.since = since]
SomeRequests ==
  {Req("GET", <<"a">>), Req("POST", <<"a">>), Req("GET", <<"a", "b">>), Req("GET", <<"a", "c">>), [Req("GET", <<"a", "">>) EXCEPT !.close = TRUE],
   Req("GET", <<>>), Req("PATCH", <<"a", "b", "f.html">>),
   Req("HEAD", <<"f.html">>), [Gzip(<<"f.html">>) EXCEPT !.close = TRUE], Encoded(<<"w.docx">>, <<<<"gzip", "">>, <<",", "">>>>),
   Encoded(<<"w.docx">>, <<<<"gzip", "">>, <<"deflate", "0.5">>, <<"br", "">>>>), Gzip(<<"d", "">>), Req("GET", <<"d">>), Req("GET", <<"..">>), Req("GET", <<"pipe">>),
   [Req("GET", <<"f.html">>) EXCEPT !.accept = <<"text_css", "text_any">>], [Req("GET", <<"f.html">>) EXCEPT !.accept = <<"text_css">>],
   [Req("GET", <<"f.html">>) EXCEPT !.accept = <<"text_html", ",">>],
   When(<<"f.html">>, "modified", 2), When(<<"z">>, "modified", 1), When(<<"d", "">>, "modified", 2),
   When(<<"f.html">>, "match", 2), When(<<"f.html">>, "unparsable", 2), Encoded(<<"f.html">>, <<<<"gzip", "0">>>>),
   Req("PUT", <<"a", "b">>), Req("GET", <<"a", "", "b", "c">>)}
=============================================================================
