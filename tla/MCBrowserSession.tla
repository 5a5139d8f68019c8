-------------------------- MODULE MCBrowserSession --------------------------
(***************************************************************************)
(* An instance of BrowserSession for TLC: a site with a shop, a login form *)
(* and a video, an address of the private network, and a blank page.       *)
(***************************************************************************)
EXTENDS BrowserSession

CONSTANTS c1, c2

E(tag, label, secret) == [tag |-> tag, label |-> label, secret |-> secret]
Buy    == E("button", <<"buy", "it", "now">>, FALSE)
News   == E("a", <<"news">>, FALSE)
Box    == E("input", <<"search">>, FALSE)
Video  == E("video", <<"video">>, FALSE)
Card   == E("input", <<"card">>, TRUE)

Page(host, gate, shown) == [host |-> host, gate |-> gate, shown |-> shown]
MCBlank == Page("blank", "none", <<>>)
MCPages == {MCBlank, Page("shop", "none", <<Box, Buy, Card>>), Page("shop", "login", <<Box>>),
            Page("else", "none", <<News, Video>>), Page("private", "none", <<>>)}

Text(t)      == [by |-> "text", text |-> t]
A(act, t, y) == [act |-> act, target |-> t, url |-> Page("shop", "none", <<Box, Buy, Card>>), confirmed |-> y]

MCAsks ==
  {A("open", Text(<<>>), FALSE), A("search", Text(<<>>), FALSE), A("media", Text(<<>>), FALSE),
   A("scroll_until", Text(<<"news">>), FALSE), A("answer", Text(<<>>), FALSE),
   A("click", Text(<<"news">>), FALSE), A("click", Text(<<"this">>), FALSE),
   A("click", [by |-> "kind", kind |-> "button", index |-> 0], TRUE),
   A("hover", [by |-> "kind", kind |-> "video", index |-> 0], FALSE),
   A("type", [by |-> "kind", kind |-> "search", index |-> 0], FALSE),
   A("download", [by |-> "kind", kind |-> "result", index |-> 0], FALSE)}

\* Calls that name the button by two words of its label, by how it looks, or by its place.
WordsOfALabel ==
  {A("click", Text(<<"now", "it">>), FALSE), A("click", Text(<<"this">>), FALSE),
   A("click", [by |-> "kind", kind |-> "button", index |-> 0], FALSE), A("open", Text(<<>>), FALSE)}

\* Both: requests that the policy and the browser read differently among all others.
EveryAsk == MCAsks \cup WordsOfALabel

\* A link is followed.
Follow == {A("click", Text(<<"news">>), FALSE), A("open", Text(<<>>), FALSE)}
=============================================================================
