---------------------------- MODULE HttpServerMC ----------------------------
(* Two clients and a site of two routes.  The streams: a plain GET; a POST   *)
(* with a body of two bytes (it can be cut at every token); a POST that       *)
(* announces less than it sends; one that announces nothing; a line that is   *)
(* no request; a GET of an unknown path.                                      *)
EXTENDS HttpServer

CONSTANTS c1, c2

Request(method, url) == [kind |-> "request", method |-> method, url |-> url]
Length(n) == [kind |-> "length", n |-> n]
Blank == [kind |-> "blank"]
Junk == [kind |-> "junk"]
Byte(b) == [kind |-> "byte", byte |-> b]

MCSite ==
    <<[method |-> "get", name |-> <<"get", "a">>, stack |-> <<"a">>],
      [method |-> "post", name |-> <<"post", "p">>, stack |-> <<":p">>]>>

PlainGet == <<Request("get", <<"", "a">>), Blank>>
PostWithBody == <<Request("post", <<"", "b">>), Length(2), Blank, Byte("x"), Byte("y")>>
PostTwoLengths == <<Request("post", <<"", "b">>), Length(2), Length(1), Blank, Byte("x"), Byte("y")>>
PostNoLength == <<Request("post", <<"", "b">>), Blank, Byte("z")>>
NotARequest == <<Junk, Blank>>
UnknownPath == <<Request("get", <<"", "c">>), Blank>>

(* For the liveness run: one stream the server answers without a body, one   *)
(* whose body may never come.                                                *)
MCLiveScripts == {PlainGet, PostWithBody}

MCSymmetry == Permutations(Client)

MCScripts == {PlainGet, PostWithBody, PostTwoLengths, PostNoLength, NotARequest, UnknownPath}
=============================================================================
