----------------------------- MODULE Pipeline ------------------------------
(***************************************************************************)
(* From the feeds to a consumer's answer.  A day's articles become a       *)
(* report (collect_report), reports are archived, an archived day may be   *)
(* analysed again from the bodies it stored (reanalyze.py), the archive is *)
(* packed into a bundle (snapshot.py), and the consumer's validator        *)
(* answers from the bundle it holds, which may be old or damaged.          *)
(***************************************************************************)
EXTENDS Bundle

CONSTANTS
    Articles,         \* the sequence of what feeds may carry, source by source
    PublisherHosts,   \* the hosts of each source
    Catalogue,        \* what KEV, NVD and EPSS know of CVEs on each day
    DayLimit,         \* bound: articles of each day
    Sample            \* rows the consumer asks about

AnyHeadline == [topic : BOOLEAN, events : SUBSET STRING,
                impacts : SUBSET STRING]

AnyArticle(source) ==
    [source : {source}, url : Int, page : Int, site : Seq(STRING),
     published : Int, headline : AnyHeadline, body : Seq(AnyLine),
     hosts : {PublisherHosts[source]}]

(* An article is of a registered source and carries its hosts, and its     *)
(* address leads to one page.                                              *)
ASSUME ArticlesAssumption ==
    /\ Articles \in Seq(ToSet(Articles))
    /\ \A i \in DOMAIN Articles : \E s \in DOMAIN PublisherHosts :
          Articles[i] \in AnyArticle(s)
    /\ \A i, j \in DOMAIN Articles :
          Articles[i].url = Articles[j].url
          => Articles[i].page = Articles[j].page

(* In a line without text no pattern matches.                              *)
ASSUME BlankAssumption ==
    \A i \in DOMAIN Articles : \A line \in ToSet(Articles[i].body) :
        line.kind = "blank" => line.spans = <<>> /\ line.claims = <<>>

(* No name ends in a number, so that an address is beneath none.           *)
ASSUME AddressesAssumption ==
    \A i \in DOMAIN Articles : \A line \in ToSet(Articles[i].body) :
        \A s \in {m \in ToSet(line.spans) : m.type = "ip"} :
            \A top \in Normal \cup Wildcard \cup PublicDnsHosts
                       \cup BrandApexes \cup Articles[i].hosts :
                ~AtOrBeneath(s.text.host, top)

(* What a pattern matched has its form: an address and a hash are such,    *)
(* a name has two labels or more and no address beneath it, and only a     *)
(* URL has a scheme.                                                       *)
HasForm(type, text) ==
    /\ type = "url" => text.scheme /\ text.rest \notin Hashes
    /\ type = "domain" => /\ text = Host(text.host) /\ Len(text.host) > 1
                          /\ \A i \in Ips : ~AtOrBeneath(i, text.host)
    /\ type = "ip" => text = Host(text.host) /\ text.host \in Ips
    /\ type = "sha256" => text = Name(text.rest) /\ text.rest \in Hashes
    /\ type = "cve" => text \in ToSet(CveOrder)

ASSUME SpansAssumption ==
    \A i \in DOMAIN Articles : \A line \in ToSet(Articles[i].body) :
        \A s \in ToSet(line.spans) : HasForm(s.type, s.text)

(* A row is a name, a host, or a URL whose path is no hash.                *)
IsRow(r) ==
    /\ r.text \in AnyText
    /\ ~r.text.scheme => r.text \in {Host(r.text.host), Name(r.text.rest)}
    /\ r.text.rest \in Hashes => r.text = Name(r.text.rest)

ASSUME SampleAssumption == \A r \in Sample : IsRow(r)

ASSUME CatalogueAssumption ==
    \A d \in Day : \A c \in DOMAIN Catalogue[d] :
        Catalogue[d][c] \in AnyRecord

VARIABLES
    today,
    archive,    \* the report of each day, or None
    bundle      \* what the consumer holds

vars == <<today, archive, bundle>>

(* _is_topic_relevant                                                      *)
IsRelevant(manifest) ==
    \/ \E e \in ToSet(manifest.evidence) : e.status = "confirmed"
    \/ manifest.headline.topic

(* One article per page, the first that a feed gave.                       *)
Deduplicated(manifests) ==
    {manifests[i] : i \in {k \in DOMAIN manifests :
        \A j \in 1 .. k - 1 : manifests[j].page # manifests[k].page}}

(* collect_report                                                          *)
CollectReport(articles, previous, catalogue) ==
    LET all == Deduplicated([i \in DOMAIN articles |->
                                BuildManifest(articles[i])])
        relevant == {m \in all : IsRelevant(m)}
        asked == UNION {Cves(m) : m \in relevant}
        intel == [c \in asked \cap DOMAIN catalogue |-> catalogue[c]]
    IN  [articles |-> Ordered(relevant), excluded |-> all \ relevant,
         brief |-> BuildBrief(Ordered(relevant), previous, intel),
         intel |-> intel]

(* load_previous_iocs of the report that find_previous_json finds.         *)
Previous(d) ==
    IF d - 1 \in Dates(archive) THEN IocKeys(archive[d - 1].articles)
    ELSE None

(* Mutant: the publisher's hosts, which no report stores, are forgotten.   *)
ParsedArticleBare(manifest) ==
    [source |-> manifest.source, url |-> manifest.url, page |-> manifest.page,
     site |-> manifest.site, published |-> manifest.published,
     headline |-> manifest.headline, body |-> manifest.body,
     hosts |-> {}]

(* parsed_article_from_manifest: the hosts come from the registry.         *)
ParsedArticle(manifest) ==
    [source |-> manifest.source, url |-> manifest.url, page |-> manifest.page,
     site |-> manifest.site, published |-> manifest.published,
     headline |-> manifest.headline, body |-> manifest.body,
     hosts |-> PublisherHosts[manifest.source]]

(* reanalyze: kept and excluded articles go back in; a source that is no   *)
(* longer registered is left out.                                          *)
Reanalysis(report, previous, catalogue) ==
    LET stored == {m \in ToSet(report.articles) \cup report.excluded :
                      m.source \in DOMAIN PublisherHosts}
    IN  CollectReport(SetToSeq({ParsedArticle(m) : m \in stored}),
                      previous, catalogue)

Init ==
    /\ today = Min(Day)
    /\ archive = [d \in Day |-> None]
    /\ bundle = None

Collect ==
    /\ today \in Day
    /\ \E S \in SUBSET DOMAIN Articles :
         /\ Cardinality(S) <= DayLimit[today]
         /\ archive' = [archive EXCEPT ![today] =
                CollectReport(At(Articles, S), Previous(today),
                              Catalogue[today])]
    /\ today' = today + 1
    /\ UNCHANGED bundle

(* A day no report is left of.                                             *)
MissDay ==
    /\ today \in Day
    /\ today' = today + 1
    /\ UNCHANGED <<archive, bundle>>

(* The operator puts the second analysis of a day in the place of the      *)
(* first, with or without the day before to tell what is new.              *)
Reanalyze(d) ==
    /\ d \in Dates(archive)
    /\ \E previous \in {None, Previous(d)} :
         archive' = [archive EXCEPT ![d] =
             Reanalysis(archive[d], previous, Catalogue[Max(Dates(archive))])]
    /\ UNCHANGED <<today, bundle>>

WriteBundle ==
    /\ Dates(archive) # {}
    /\ bundle' = BuildSnapshot(archive)
    /\ UNCHANGED <<today, archive>>

(* A file that lost part of itself on the way.                             *)
Damage ==
    /\ bundle # None
    /\ bundle' = [bundle EXCEPT !.content.excluded = [t \in {} |-> {}]]
    /\ UNCHANGED <<today, archive>>

Next ==
    \/ Collect
    \/ MissDay
    \/ \E d \in Day : Reanalyze(d)
    \/ WriteBundle
    \/ Damage

Spec == Init /\ [][Next]_vars

(* What the consumer's validator says of each row; it writes no state, and *)
(* nothing from a bundle that does not agree with its checksum.            *)
Validate ==
    [r \in Sample |-> IF bundle # None /\ Intact(bundle)
                      THEN Evaluate(bundle.content, r) ELSE {}]

-----------------------------------------------------------------------------

Reports == {archive[d] : d \in Dates(archive)}

(* The nearest heading above a line opens a section of indicators, and the *)
(* line is no link to another story.                                       *)
UnderIocHeading(body, n) ==
    /\ ~IsHeading(body[n]) /\ ~body[n].related
    /\ \E h \in 1 .. n - 1 :
         /\ body[h].kind = "ioc"
         /\ \A k \in h + 1 .. n : ~IsHeading(body[k])

(* What many share and no duty officer may cut off for one article.        *)
IsShared(type, host, source) ==
    \/ type = "ip" /\ host \in NonPublic \cup PublicDnsIps
    \/ host \in Normal
    \/ host \notin Exception /\ Front(host) \in Wildcard
    \/ \E top \in PublicDnsHosts \cup BrandApexes \cup PublisherHosts[source] :
           AtOrBeneath(host, top)

(* What the board tells the duty officer to block stands in a read article *)
(* under a heading of indicators, not in a section the publisher closed or *)
(* in a link to another story, and is neither a bare address of a private  *)
(* network or a resolver nor a host of a resolver, a vendor, a registry or *)
(* the publisher itself; an article whose body was not read asks for a     *)
(* review and for nothing else.                                            *)
(* (_classify, the section scan of extract_evidence, build_actions.)       *)
NothingSharedIsBlocked ==
    \A report \in Reports : \A m \in ToSet(report.articles) :
        \A a \in {x \in ToSet(report.brief.actions) : x.url = m.url} :
            /\ a.action = "block" =>
                 /\ \E n \in DOMAIN m.body :
                      /\ UnderIocHeading(m.body, n)
                      /\ \E s \in ToSet(m.body[n].spans) :
                           s.text = a.target /\ TypeOf(s) = a.type
                 /\ ~IsShared(a.type, a.target.host, m.source)
            /\ Unread(m) => a.action = "review"

Plain(action) == [action EXCEPT !.new = None]

(* Articles linked through the CVEs they share, one by one.                *)
ClosedUnderSharing(S, manifests) ==
    \A m \in manifests :
        m.url \in S => \A n \in manifests :
            Cves(m) \cap Cves(n) # {} => n.url \in S

(* The board is the actions its articles ask for, each once for a value it *)
(* is about and in the order of the articles, whatever KEV moves: only     *)
(* patches trade places, those KEV lists come before the others; and a     *)
(* cluster holds all that shared CVEs connect and nothing else, although   *)
(* no two of its articles need to share one.  (_kev_first, build_clusters) *)
RankingKeepsTheBoard ==
    \A report \in Reports :
        LET manifests == ToSet(report.articles)
            asked == FlattenSeq([i \in DOMAIN report.articles |->
                         BuildActions(report.articles[i], report.intel)])
            board == report.brief.actions
            clustered == UNION report.brief.clusters
            about(m, key) == {i \in DOMAIN board :
                /\ board[i].url = m.url
                /\ <<board[i].type, board[i].target>> = key}
        IN  /\ Len(board) = Len(asked)
            /\ \A i \in DOMAIN board :
                 /\ Cardinality({j \in DOMAIN board :
                                    Plain(board[j]) = Plain(board[i])})
                    = Cardinality({j \in DOMAIN asked :
                                    asked[j] = Plain(board[i])})
                 /\ asked[i].action # "patch" => Plain(board[i]) = asked[i]
                 /\ \A j \in 1 .. i :
                      board[i].intel.kev /\ board[j].action = "patch"
                      => board[j].intel.kev
            /\ \A m \in manifests :
                 \A key \in Unique(m, "confirmed",
                                   NetworkTypes \cup HostTypes \cup {"cve"}) :
                     Cardinality(about(m, key)) = 1
            /\ \A m, n \in manifests :
                 m # n /\ Cves(m) \cap Cves(n) # {} => m.url \in clustered
            /\ \A c \in report.brief.clusters :
                 /\ ClosedUnderSharing(c, manifests)
                 /\ \A part \in (SUBSET c) \ {{}, c} :
                        ~ClosedUnderSharing(part, manifests)

(* What the reports of some days state, rule out, and decided last.        *)
Stated(days) ==
    {f.e.text : f \in {g \in UNION {Findings(archive[d]) : d \in days} :
                          Travels(g)}}

RuledOut(days) ==
    {f.e.text : f \in {g \in UNION {Findings(archive[d]) : d \in days} :
                          g.e.status = "rejected"}}

LastDay(days, text) == Max({d \in days : text \in Stated({d})})

(* On the last day that states it some, or all, of the board is without    *)
(* a reason not to block it.                                               *)
OnBoard(days, text) ==
    {a \in ToSet(archive[LastDay(days, text)].brief.actions) :
        a.target = text}

SomeoneBlocks(days, text) == \E a \in OnBoard(days, text) : a.benign = None
AllBlock(days, text) == \A a \in OnBoard(days, text) : a.benign = None

(* A URL that the caller calls something else is looked up as it stands.   *)
Miscalled(r) == r.text.scheme /\ r.type \in KnownTypes \ {"url"}

(* Any other row is looked up whole, without the slash at its end, or by   *)
(* its host.                                                               *)
Alike(r, S) ==
    {t \in S : \/ t = r.text
               \/ t.scheme /\ Whole(t) = Whole(r.text) /\ ~Miscalled(r)}

(* A host of one label, or under one that organisations use among          *)
(* themselves.                                                             *)
IsInternal(host) == host # <<>> /\ (Len(host) = 1 \/ host[1] \in Internal)

(* Names between a host and its registry's suffix.                         *)
Between(host) ==
    {Upper(host, n) : n \in SuffixLength(host) + 1 .. Len(host) - 1}

(* One answer, in the order the validator's README gives.                  *)
FollowsTheOrder(r, a, days, stated, ruled) ==
    LET text == r.text
        key == a.match.key
        byHost == IF Miscalled(r) THEN text ELSE Host(text.host)
        hit(methods) == a.status = "hit" /\ a.match.method \in methods
    IN  /\ text.host \in NonPublic => a.status = "skipped"
        /\ a.status # "error"
        /\ text \in stated /\ text.host \notin NonPublic
           => \/ hit({"exact"})
              \/ a.status = "skipped" /\ (r.type # None \/ IsInternal(text.host))
        /\ a.status = "hit" => key \in stated
        /\ hit({"exact"}) => key \in Alike(r, stated)
        /\ hit({"same_host", "parent_domain", "child_domain"})
           => Alike(r, ruled) = {} /\ SomeoneBlocks(days, key)
        /\ hit({"same_host"}) => key = byHost
        /\ hit({"parent_domain", "child_domain"}) => byHost \notin ruled
        /\ hit({"parent_domain"}) => key.host \in Between(text.host)
        /\ hit({"child_domain"}) => text.host \in Between(key.host)
        /\ a.status = "excluded"
           => Alike(r, ruled) # {} \/ byHost \in ruled
        /\ a.status = "miss"
           => /\ Alike(r, ruled \cup stated) = {}
              /\ r.type = None => \A h \in Between(text.host) :
                   Host(h) \in stated => ~AllBlock(days, Host(h))

(* Against the days the bundle spoke of: a value the archive states is an  *)
(* exact hit whatever else says of it; one that is ruled out is never a    *)
(* hit by relation; a relation stays within what one registrant owns and   *)
(* passes only through what the last day to name it would block; a miss    *)
(* leaves no such ancestor unsaid; and an address of a private network is  *)
(* never looked up, whatever the caller calls it.  (build_snapshot,        *)
(* Corpus.match and .exclusion, skip_reason.)                              *)
AnswersFollowTheOrder ==
    bundle # None =>
        LET days == bundle.content.days
            stated == Stated(days)
            ruled == RuledOut(days)
        IN  \A r \in Sample : \A a \in Validate[r] :
                FollowsTheOrder(r, a, days, stated, ruled)

(* What a second analysis of a stored day says of it.                      *)
Said(report) ==
    LET board == report.brief.actions
    IN  [articles |-> report.articles, excluded |-> report.excluded,
         clusters |-> report.brief.clusters,
         patches |-> {<<board[i].url, board[i].target>> : i \in Patches(board)},
         others |-> [i \in DOMAIN board |->
                        IF i \in Patches(board) THEN None
                        ELSE <<board[i].action, board[i].url, board[i].target>>]]

(* A day analysed again from the bodies it stored keeps its articles, its  *)
(* findings, its clusters and its board: only what catalogues say of CVEs, *)
(* and which findings count as new, may differ.  (reanalyze; the hosts of  *)
(* a publisher are in no report, and a host found beneath one of them must *)
(* not turn into something to block.)                                      *)
ReanalysisKeepsTheDay ==
    [][\A d \in Dates(archive) : Said(archive'[d]) = Said(archive[d])]_vars
=============================================================================
