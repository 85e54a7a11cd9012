----------------------------- MODULE Evidence ------------------------------
(***************************************************************************)
(* evidence.py: from an article's body to what it confirms, leaves for     *)
(* review or rejects.  A body is a sequence of lines; a line is a heading  *)
(* or text, and text carries the stretches in which a pattern matched.     *)
(***************************************************************************)
EXTENDS Indicator

CONSTANTS
    Tlds,           \* top-level labels known to exist
    NonPublic       \* addresses that are not public, as hosts

HeadingKind == {"ioc", "excluded", "end", "heading"}
LineKind == HeadingKind \cup {"text", "blank"}
IsHeading(line) == line.kind \in HeadingKind

Counted == {"sha256", "ip", "domain", "url", "cve"}
Claims == {"malware_family", "attack_technique"}

AnyMatch == [type : Counted \cup {"filename"}, text : AnyText,
             before : STRING, from : Nat, to : Nat]
AnyClaim == [type : Claims, text : AnyText, before : STRING]
AnyLine == [kind : LineKind, related : BOOLEAN, spans : Seq(AnyMatch),
            claims : Seq(AnyClaim), impacts : SUBSET STRING, cvss : Nat]

(* What a pattern made of a stretch: in the context of a file a dotted     *)
(* token is a filename, elsewhere it has to end in a known label; behind   *)
(* "version" an address is none.                                           *)
TypeOf(s) ==
    IF s.type = "domain" /\ s.before = "file" THEN "filename" ELSE s.type

Refused(s) ==
    \/ s.type = "domain" /\ s.before = "slash"
    \/ s.type = "domain" /\ s.before # "file" /\ s.text.host[1] \notin Tlds
    \/ s.type = "ip" /\ s.before = "version"

Overlaps(s, t) == s.from < t.to /\ t.from < s.to

(* _line_matches: spans come in the order of the patterns, and the first   *)
(* to read a stretch keeps it.                                             *)
LineMatches(line) ==
    LET free(kept, n) ==
            /\ ~Refused(line.spans[n])
            /\ \A k \in kept : ~Overlaps(line.spans[k], line.spans[n])
        kept[n \in 0 .. Len(line.spans)] ==
            IF n = 0 THEN {}
            ELSE kept[n - 1] \cup {k \in {n} : free(kept[n - 1], k)}
    IN  At(line.spans, kept[Len(line.spans)])

(* Any heading ends the section before it.                                 *)
ZoneAfter(zone, line) ==
    IF ~IsHeading(line) THEN zone
    ELSE IF line.kind \in {"ioc", "excluded"} THEN line.kind
    ELSE "general"

ZoneAt(body, n) ==
    LET zone[i \in 0 .. n] ==
            IF i = 0 THEN "general" ELSE ZoneAfter(zone[i - 1], body[i])
    IN  IF body[n].related THEN "excluded" ELSE zone[n]

FromPublisher(s, hosts) ==
    /\ TypeOf(s) \in {"url", "domain"}
    /\ \E h \in hosts : AtOrBeneath(s.text.host, h)

(* _classify: what the line and the article make of one match.             *)
Classify(zone, s, hosts) ==
    IF zone = "excluded" THEN <<"rejected", "excluded_editorial_section">>
    ELSE IF FromPublisher(s, hosts) THEN <<"rejected", "publisher_domain">>
    ELSE IF s.type = "url" /\ s.text.host = <<>>
    THEN <<"rejected", "unreadable_url">>
    ELSE IF s.type = "ip" /\ s.text.host \in NonPublic
    THEN <<"rejected", "non_public_ip">>
    ELSE IF s.type = "cve" THEN <<"confirmed", "explicit_cve_identifier">>
    ELSE IF s.type \in Claims /\ s.before = "apposition"
    THEN <<"candidate", "apposition_requires_human_review">>
    ELSE IF s.type \in Claims
    THEN <<"confirmed", "explicit_source_label">>
    ELSE IF zone = "ioc" THEN <<"confirmed", "explicit_ioc_section">>
    ELSE <<"candidate", "context_requires_human_review">>

Finding(body, n, s, hosts) ==
    LET verdict == Classify(ZoneAt(body, n), s, hosts)
    IN  [type |-> TypeOf(s), text |-> s.text, line |-> n,
         status |-> verdict[1], reason |-> verdict[2]]

LineEvidence(body, n, hosts) ==
    IF IsHeading(body[n]) THEN <<>>
    ELSE LET found == LineMatches(body[n]) \o body[n].claims
         IN  [i \in DOMAIN found |-> Finding(body, n, found[i], hosts)]

(* extract_evidence                                                        *)
Extract(body, hosts) ==
    FlattenSeq([n \in DOMAIN body |-> LineEvidence(body, n, hosts)])

(* Hosts that are the publisher's own: those of the registry, or else the  *)
(* one its page is on.                                                     *)
Trusted(article) ==
    IF article.hosts = {} THEN {article.site} ELSE article.hosts

(* What a report keeps of an article; no body, no evidence.                *)
BuildManifest(article) ==
    [source |-> article.source, url |-> article.url, page |-> article.page,
     site |-> article.site, published |-> article.published,
     headline |-> article.headline, body |-> article.body,
     evidence |-> Extract(article.body, Trusted(article))]

(* The distinct findings of a status among some types.                     *)
Unique(manifest, status, types) ==
    {<<e.type, e.text>> : e \in {x \in ToSet(manifest.evidence) :
                                    x.status = status /\ x.type \in types}}
=============================================================================
