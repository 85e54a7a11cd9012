----------------------------- MODULE MCPipeline -----------------------------
(* Eight articles of two publishers over two days, built around the values *)
(* that are hard to judge: a URL and its host, a short name and one under  *)
(* it, a registry and a tenant, a vendor, resolvers, the publisher itself, *)
(* a private address, and CVEs that link three articles through one.       *)
EXTENDS Lookup

H(labels) == Host(labels)
Evil == <<"com", "evil">>
Api == <<"com", "evil", "api">>
Abc == <<"com", "abc">>
Cdn == <<"com", "abc", "cdn">>
Pages == <<"io", "github">>
Tenant == <<"io", "github", "bad">>
Login == <<"com", "ms", "login">>
Cook == <<"ck", "foo">>
Resolver == <<"google", "dns", "x">>
Lab == <<"org", "lab", "files">>
Wire == <<"com", "wire">>
Twin == <<"zip", "evil">>
Inner == <<"corp", "dc">>
Private == <<"1", "0", "0", "10">>
Quad == <<"8", "8", "8", "8">>
Server == <<"7", "1", "2", "9">>

TheNormal == {<<"com">>, <<"io">>, Pages, <<"org">>, <<"google">>, <<"zip">>}
TheWildcard == {<<"ck">>}
TheException == {<<"ck", "www">>}
TheTlds == {"com", "io", "org", "google", "zip", "ck"}
TheNonPublic == {Private}
ThePublicDnsIps == {Quad}
ThePublicDnsHosts == {<<"google", "dns">>}
TheBrandApexes == {<<"com", "ms">>}
TheIps == {Private, Quad, Server}
Cve(n) == Name(<<"c1", "c2", "c3", "c4">>[n])
TheCveOrder == [n \in 1 .. 4 |-> Cve(n)]
Sources == [s1 |-> {<<"com", "news">>, <<"org", "lab">>}, s2 |-> {Wire}]
ThreeThenOne == <<3, 1>>
Limits == [d \in {0, 1} |-> ThreeThenOne[d + 1]]

Found(type, text, before, from, to) ==
    [type |-> type, text |-> text, before |-> before, from |-> from, to |-> to]
Plainly(type, text, at) == Found(type, text, "", 10 * at, 10 * at + 9)
Claimed(type, name, before) ==
    [type |-> type, text |-> Name(name), before |-> before]
Line(kind, spans) ==
    [kind |-> kind, related |-> FALSE, spans |-> spans, claims |-> <<>>,
     impacts |-> {}, cvss |-> 0]
Heading(kind) == Line(kind, <<>>)
Text(spans) == Line("text", spans)
Domain(host) == Text(<<Plainly("domain", H(host), 1)>>)
CveLine(n, cvss) ==
    [Text(<<Plainly("cve", Cve(n), 1)>>) EXCEPT !.cvss = cvss]

Story(number, source, page, events, body) ==
    [source |-> source, url |-> number, page |-> page,
     site |-> IF source = "s1" THEN <<"com", "news">> ELSE Wire,
     published |-> number % 3, hosts |-> Sources[source], body |-> body,
     headline |-> [topic |-> events # {}, events |-> events \ {"news"},
                   impacts |-> {}]]

TheArticles == <<
    Story(1, "s1", 1, {"news"},
        <<Heading("ioc"),
          Text(<<Plainly("url", Url(Evil, "/x"), 1),
                 Found("domain", H(Evil), "slash", 12, 15)>>),
          Text(<<Plainly("domain", H(Evil), 1), Plainly("domain", H(Api), 2)>>),
          Text(<<Plainly("ip", H(Private), 1), Plainly("ip", H(Server), 2),
                 Plainly("url", Url(Private, "/x"), 3)>>),
          Heading("heading"), Domain(Abc),
          Heading("excluded"), Domain(Cdn)>>),
    Story(2, "s2", 2, {"news"},
        <<Heading("ioc"), Domain(Abc), Line("blank", <<>>), Domain(Cdn),
          [CveLine(1, 9) EXCEPT !.impacts = {"rce"}], CveLine(4, 0)>>),
    Story(3, "s1", 3, {},
        <<CveLine(2, 0), CveLine(3, 7), Heading("ioc"), Domain(Abc),
          Text(<<Plainly("sha256", Name("sha"), 1)>>), Domain(Tenant)>>),
    Story(4, "s2", 4, {"news"},
        <<Heading("ioc"), Domain(Login), Domain(Pages), Domain(Cook),
          Domain(Wire), Text(<<Plainly("ip", H(Quad), 1)>>), Domain(Resolver),
          Text(<<Plainly("url", Url(Api, ""), 1)>>)>>),
    Story(5, "s2", 3, {"data_breach"}, <<Line("blank", <<>>)>>),
    Story(6, "s1", 6, {},
        <<Heading("ioc"), Domain(Lab),
          Text(<<Plainly("url", Url(Inner, "/y"), 1)>>)>>),
    Story(7, "s1", 7, {},
        <<CveLine(1, 0), [CveLine(2, 0) EXCEPT !.claims =
                             <<Claimed("malware_family", "F", "apposition")>>],
          [Domain(Evil) EXCEPT !.related = TRUE]>>),
    Story(8, "s2", 8, {"phishing"},
        <<Text(<<Plainly("domain", H(Api), 1),
                 Found("domain", H(<<"com", "wire", "a">>), "", 30, 35)>>),
          Heading("ioc"),
          Text(<<Found("domain", H(Twin), "file", 10, 19),
                 Plainly("domain", H(Twin), 3)>>)>>) >>

Known(kev, cvss, epss, due) ==
    [kev |-> kev, cvss |-> cvss, epss |-> epss, due |-> due]
TheCatalogue == [d \in {0, 1} |->
    [c \in {Cve(1), Cve(2), Cve(3)} |->
        IF c = Cve(3) \/ (d = 1 /\ c = Cve(2)) THEN Known(TRUE, 5, 1, 3)
        ELSE Known(FALSE, 5 + d, 1, 99)]]

Ask(text, type) == [text |-> text, type |-> type]
TheSample ==
    {Ask(t, None) : t \in
        {H(h) : h \in {Evil, Api, Abc, Cdn, Pages, Tenant, Login, Cook, Lab,
                       Wire, Twin, Private, Server, <<"com", "evil", "new">>,
                       <<"com", "abc", "x">>, <<"io", "github", "good">>,
                       <<"io", "github", "bad", "y">>, <<"com", "ms">>,
                       <<"com", "ms", "login", "a">>, <<"corp", "dc">>,
                       <<"com", "wire", "a">>}}
        \cup {Url(Evil, "/x"), Url(Evil, ""), Url(Evil, "/y"), Url(Api, "/"),
              Url(Abc, "/y"), Url(Login, "/y"), Url(Private, "/x"),
              Url(<<"com", "evil", "new">>, "/y"),
              Cve(1), Cve(2), Name("sha"), Name(""), Name("zzz")}}
    \cup {Ask(H(Private), "domain"), Ask(H(Private), "sha256"),
          Ask(Url(Private, "/x"), "domain"), Ask(H(Evil), "url"),
          Ask(H(Evil), "ip"), Ask(H(Evil), "sha256"), Ask(H(Evil), "host"),
          Ask(Url(Api, ""), "domain"), Ask(Url(Evil, "/x"), "domain"),
          Ask(Url(Api, "/"), "sha256"), Ask(Url(Inner, "/y"), None)}

(* Calls whose values share parents, hosts and chunks; a report, a sample  *)
(* and a feed have the same, different and none of them.                   *)
TheArtefacts ==
    {H(Tenant), H(Server), Url(Evil, "/y"), Url(Lab, "/"), Name("mutex 1")}
TheAnalysed == {Name("sha")}
TheListed == {H(Evil), Url(Evil, "/x"), H(Server), Url(Abc, "/y"), H(Twin),
              Url(Api, "/")}
Call(since, rows) == [since |-> since, rows |-> rows]
TheCalls == {
    Call(0, <<Ask(H(<<"com", "evil", "new">>), None), Ask(H(Api), None),
              Ask(Url(Lab, "/"), None), Ask(Url(Evil, "/x"), None)>>),
    Call(0, <<Ask(H(Abc), None), Ask(H(Cdn), None), Ask(Url(Abc, "/y"), None),
              Ask(Url(Cdn, "/y"), None)>>),
    Call(0, <<Ask(Cve(1), None), Ask(Name("sha"), None),
              Ask(Name("mutex 1"), "mutex"), Ask(Name("mutex 2"), "path"),
              Ask(H(Lab), None)>>),
    Call(0, <<Ask(H(Login), None), Ask(Url(Login, "/y"), None),
              Ask(H(<<"com", "ms">>), None), Ask(Url(Api, "/"), "url")>>),
    Call(1, <<Ask(H(Evil), "url"), Ask(H(<<"io", "github", "bad", "y">>), None),
              Ask(Cve(2), "cve"), Ask(H(Server), "ip")>>),
    Call(0, <<Ask(H(Evil), None), Ask(H(Evil), "path"),
              Ask(Cve(1), None), Ask(Cve(1), "sha256")>>) }
=============================================================================
