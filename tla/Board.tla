------------------------------- MODULE Board -------------------------------
(***************************************************************************)
(* analyst.py: the duty board of a day.  Each confirmed finding of a read  *)
(* article becomes an action; what many share is hunted for and never      *)
(* blocked, KEV leads the patches, and articles about the same CVEs form   *)
(* clusters.  Reason texts and labels are left out.                        *)
(***************************************************************************)
EXTENDS Evidence

CONSTANTS
    HighImpacts,
    PublicDnsIps, PublicDnsHosts, BrandApexes,   \* hosts
    ShortLabels,    \* labels of up to three letters
    CveOrder,       \* the CVEs, as texts, in the order of their names
    None

(* What catalogues say of a CVE, and an action on the board.               *)
AnyRecord == [kev : BOOLEAN, cvss : Nat, epss : Int, due : Int]

Bases == {"public_resolver_registry", "vendor_brand_apex",
          "domain_boundary_rule"}
Benign == Bases \cup {None}
Target == AnyText \cup {Name("title")}
Asked == {"patch", "block", "hunt", "review", "monitor", "observe"}

AnyEntry ==
    [action : Asked, priority : {"high", "medium", "low"},
     type : Counted \cup {"filename", "article"}, target : Target,
     url : Int, benign : Benign, cvss : Nat, intel : AnyRecord,
     new : {None} \cup BOOLEAN]

ASSUME BoardAssumption ==
    /\ CveOrder \in Seq(AnyText)
    /\ \A c \in ToSet(CveOrder) : c = Name(c.rest) /\ c # Name("")
    /\ None \notin Bases \cup AnyText \cup AnyEntry

NetworkTypes == {"ip", "domain", "url"}
HostTypes == {"sha256", "filename"}
Actionable == {"patch", "block", "hunt"}

(* _body_for_impacts: the lines outside related sections.                  *)
KeptLines(body) ==
    Ascending({n \in DOMAIN body :
                  ~IsHeading(body[n]) /\ ZoneAt(body, n) # "excluded"})

(* The text of a value stands in a line that names it or a host under it.  *)
Mentions(line, text) ==
    \E s \in ToSet(line.spans \o line.claims) :
        \/ s.text = text
        \/ /\ ~text.scheme /\ text.host # <<>>
           /\ AtOrBeneath(s.text.host, text.host)

OtherCve(line, text) ==
    \E s \in ToSet(line.spans) : s.type = "cve" /\ s.text # text

(* _local_window: the line that names the value and, for a CVE, up to four *)
(* more until a blank line or another CVE; for the rest one with a score.  *)
LocalWindow(manifest, e) ==
    LET kept == KeptLines(manifest.body)
        line(k) == manifest.body[kept[k]]
        first == Min({k \in DOMAIN kept : Mentions(line(k), e.text)})
        ends(k) == line(k).kind = "blank" \/ OtherCve(line(k), e.text)
        last == IF e.type = "cve" THEN first + 4 ELSE first + 1
        goesOn(k) == /\ \A j \in first + 1 .. k : ~ends(j)
                     /\ e.type = "cve" \/ line(k).cvss > 0
    IN  {line(k) : k \in {first} \cup {j \in first + 1 .. last :
                             j \in DOMAIN kept /\ goesOn(j)}}

LocalImpacts(manifest, e) ==
    UNION {line.impacts : line \in LocalWindow(manifest, e)}
    \cup (IF e.type = "cve" THEN {} ELSE manifest.headline.impacts)

(* A score of 0 stands for none: the two never differ below.               *)
LocalCvss(manifest, e) ==
    Max({line.cvss : line \in LocalWindow(manifest, e)})

Priority(impacts, cvss) ==
    IF cvss >= 9 \/ impacts \cap HighImpacts # {} THEN "high"
    ELSE IF cvss >= 7 \/ impacts # {} THEN "medium" ELSE "low"

AtLeastMedium(priority) == IF priority = "low" THEN "medium" ELSE priority

(* _confirmed: the first finding of each value.                            *)
Confirmed(manifest) ==
    LET evidence == manifest.evidence
        confirmed == {i \in DOMAIN evidence : evidence[i].status = "confirmed"}
        value(i) == <<evidence[i].type, evidence[i].text>>
    IN  At(evidence, {i \in confirmed : \A j \in confirmed :
                         value(j) = value(i) => i <= j})

HostOf(e) == IF e.type = "ip" THEN <<>> ELSE e.text.host

ArticleHosts(manifest) ==
    {HostOf(e) : e \in ToSet(Confirmed(manifest))} \ {<<>>}

IsPublicDns(e) ==
    IF e.type = "ip" THEN e.text.host \in PublicDnsIps
    ELSE \E top \in PublicDnsHosts : AtOrBeneath(HostOf(e), top)

IsBrand(e) == \E top \in BrandApexes : AtOrBeneath(HostOf(e), top)

IsShortParent(h, hosts) ==
    /\ Len(h) = 2 /\ h[2] \in ShortLabels
    /\ \E other \in hosts : IsStrictPrefix(h, other)

(* Mutant: no look at where a registry ends.                               *)
BenignBasisNoBoundary(manifest, e) ==
    IF IsPublicDns(e) THEN "public_resolver_registry"
    ELSE IF IsBrand(e) THEN "vendor_brand_apex"
    ELSE None

(* Which rule keeps a network value from being blocked, if one does.       *)
BenignBasis(manifest, e) ==
    IF IsPublicDns(e) THEN "public_resolver_registry"
    ELSE IF IsBrand(e) THEN "vendor_brand_apex"
    ELSE IF \/ IsPublicSuffix(HostOf(e))
            \/ IsShortParent(HostOf(e), ArticleHosts(manifest))
    THEN "domain_boundary_rule"
    ELSE None

(* _make_action; what the catalogues say of a CVE, nothing when they do    *)
(* not know it.                                                            *)
MakeAction(manifest, e, action, priority, benign, intel) ==
    [action |-> action, priority |-> priority, type |-> e.type,
     target |-> e.text, url |-> manifest.url, benign |-> benign,
     cvss |-> IF action = "patch" THEN LocalCvss(manifest, e) ELSE 0,
     intel |-> IF action = "patch" /\ e.text \in DOMAIN intel
               THEN intel[e.text]
               ELSE [kev |-> FALSE, cvss |-> 0, epss |-> 0, due |-> 99],
     new |-> None]

EffectiveCvss(action) == Max({action.intel.cvss, action.cvss})

(* Catalogues know CVEs alone.  What is benign is hunted for at leisure.   *)
FindingPriority(manifest, e, benign, intel) ==
    LET known == {e.text} \cap DOMAIN intel
    IN  IF benign # None THEN "low"
        ELSE IF \E c \in known : intel[c].kev THEN "high"
        ELSE AtLeastMedium(Priority(LocalImpacts(manifest, e),
                 Max({LocalCvss(manifest, e)}
                     \cup {intel[c].cvss : c \in known})))

FindingAction(manifest, e, benign, intel) ==
    MakeAction(manifest, e,
               IF e.type = "cve" THEN "patch"
               ELSE IF e.type \in HostTypes \/ benign # None THEN "hunt"
               ELSE "block",
               FindingPriority(manifest, e, benign, intel), benign, intel)

(* What a confirmed finding asks for; a family or a technique nothing.     *)
ActionsOf(manifest, e, intel) ==
    IF e.type \in {"cve"} \cup NetworkTypes \cup HostTypes
    THEN <<FindingAction(manifest, e,
                         IF e.type \in NetworkTypes
                         THEN BenignBasis(manifest, e) ELSE None, intel)>>
    ELSE <<>>

Unread(manifest) == \A n \in DOMAIN manifest.body :
                       manifest.body[n].kind = "blank"

(* An article without an indicator is on the board for what happened.      *)
EventActions(manifest) ==
    LET itself == [type |-> "article", text |-> Name("title")]
        events == manifest.headline.events
        action == IF Unread(manifest) THEN "review"
                  ELSE IF "data_breach" \in events THEN "monitor"
                  ELSE IF events \cap {"phishing", "ransomware"} # {}
                  THEN "observe" ELSE None
    IN  IF action = None THEN <<>>
        ELSE <<MakeAction(manifest, itself, action,
                          IF action = "observe" THEN "low" ELSE "medium",
                          None, <<>>)>>

OrElse(found, otherwise) == IF found = <<>> THEN otherwise ELSE found

FindingActions(manifest, intel) ==
    LET confirmed == Confirmed(manifest)
    IN  FlattenSeq([i \in DOMAIN confirmed |->
                       ActionsOf(manifest, confirmed[i], intel)])

BuildActions(manifest, intel) ==
    OrElse(IF Unread(manifest) THEN <<>> ELSE FindingActions(manifest, intel),
           EventActions(manifest))

-----------------------------------------------------------------------------

(* Sequences of numbers in the order of Python's tuples.                   *)
Precedes(a, b) ==
    \E i \in DOMAIN a : a[i] < b[i] /\ \A j \in 1 .. i - 1 : a[j] = b[j]

Cves(manifest) ==
    {e.text : e \in {x \in ToSet(Confirmed(manifest)) : x.type = "cve"}}

(* article_sort_key; articles published at once stay in the order they     *)
(* have, which is the reverse of that of their addresses.                  *)
SortKey(manifest) ==
    <<-Cardinality(Cves(manifest)),
      -Cardinality(Unique(manifest, "confirmed", Counted)),
      -manifest.published, -manifest.url>>

Ordered(manifests) ==
    InOrder(manifests, {p \in manifests \X manifests :
                           Precedes(SortKey(p[1]), SortKey(p[2]))})

CveRank(text) == SelectInSeq(CveOrder, LAMBDA c : c = text)

PatchKey(action) ==
    <<IF action.intel.kev THEN 0 ELSE 1,
      IF action.priority = "high" THEN 0 ELSE 1,
      -EffectiveCvss(action), -action.intel.epss, action.intel.due,
      CveRank(action.target)>>

Patches(actions) == {i \in DOMAIN actions : actions[i].action = "patch"}

(* _kev_first: the patches are ranked among the places they have, if KEV   *)
(* lists one of them.                                                      *)
KevFirst(actions) ==
    LET patches == Patches(actions)
        key(i) == PatchKey(actions[i]) \o <<i>>
        ranked == InOrder(patches, {p \in patches \X patches :
                                       Precedes(key(p[1]), key(p[2]))})
        place(i) == Cardinality({j \in patches : j <= i})
    IN  IF \E i \in patches : actions[i].intel.kev
        THEN [i \in DOMAIN actions |->
                 IF i \in patches THEN actions[ranked[place(i)]]
                 ELSE actions[i]]
        ELSE actions

(* The union-find of build_clusters: a parent for each article, the root   *)
(* of one article hung below that of another that shares a CVE.            *)
Root(parent, i) ==
    LET up[j \in DOMAIN parent] == IF parent[j] = j THEN j ELSE up[parent[j]]
    IN  up[i]

(* Mutant: the article itself is hung up, and not the tree it is in.       *)
JoinLeaf(parent, l, r) == [parent EXCEPT ![r] = l]

Join(parent, l, r) ==
    [parent EXCEPT ![Root(parent, r)] = Root(parent, l)]

(* Two places each, in the order of two nested loops over a list.          *)
Ahead(places) == {p \in places \X places : p[1] < p[2]}

PairsOf(places) ==
    InOrder(Ahead(places), {q \in Ahead(places) \X Ahead(places) :
                                Precedes(q[1], q[2])})

Linked(manifests) ==
    LET all == DOMAIN manifests
        pairs == PairsOf(all)
        shared(p) == Cves(manifests[p[1]]) \cap Cves(manifests[p[2]])
        parent[n \in 0 .. Len(pairs)] ==
            IF n = 0 THEN [i \in all |-> i]
            ELSE IF shared(pairs[n]) = {} THEN parent[n - 1]
            ELSE Join(parent[n - 1], pairs[n][1], pairs[n][2])
    IN  parent[Len(pairs)]

(* Clusters of two articles and more, by the addresses of their articles.  *)
Clusters(manifests) ==
    LET parent == Linked(manifests)
        group(i) == {j \in DOMAIN manifests :
                        Root(parent, j) = Root(parent, i)}
        all == {group(i) : i \in DOMAIN manifests}
    IN  {{manifests[i].url : i \in g} : g \in {x \in all : Cardinality(x) > 1}}

IocKeys(manifests) ==
    UNION {Unique(m, "confirmed", Counted) : m \in ToSet(manifests)}

(* What is new is told by what yesterday's report counted.                 *)
Marked(actions, previous) ==
    [i \in DOMAIN actions |->
        IF previous = None \/ actions[i].action \notin Actionable
        THEN actions[i]
        ELSE [actions[i] EXCEPT
                 !.new = <<actions[i].type, actions[i].target>>
                         \notin previous]]

(* build_brief                                                             *)
BuildBrief(manifests, previous, intel) ==
    LET asked == FlattenSeq([i \in DOMAIN manifests |->
                                BuildActions(manifests[i], intel)])
        current == IocKeys(manifests)
    IN  [actions |-> Marked(KevFirst(asked), previous),
         clusters |-> Clusters(manifests),
         fresh |-> IF previous = None THEN None
                   ELSE Cardinality(current \ previous),
         repeated |-> IF previous = None THEN None
                      ELSE Cardinality(current \cap previous),
         gone |-> IF previous = None THEN None
                  ELSE Cardinality(previous \ current)]
=============================================================================
