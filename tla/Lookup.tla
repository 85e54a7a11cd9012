------------------------------- MODULE Lookup -------------------------------
(***************************************************************************)
(* enrichObservables of the Worker (enrich.ts): a batch of values answered *)
(* from D1, which holds the rows export_d1.py made of the archived         *)
(* reports, by the rules of the offline validator.  Three sides are asked: *)
(* the reports, the analyser's samples, and the feeds.  A call sends one   *)
(* statement for each chunk of keys; any may fail, and those that the time *)
(* budget leaves no room for are not sent.                                 *)
(*                                                                         *)
(* A call is a function of what D1 holds and of what became of its         *)
(* statements, so the module has operators and no actions; no day is       *)
(* pushed between two statements of a call (Corpus models that).           *)
(***************************************************************************)
EXTENDS Pipeline

CONSTANTS
    Calls,      \* sequences of rows, as Bundle has them, with a `since`
    ChunkSize, MaxBatch,
    MaxFailed,  \* bound: statements of a call that fail
    Artefacts,  \* texts that analysed samples contain
    Analysed,   \* hashes of analysed samples
    Listed      \* texts the feeds list

(* A call has rows; chunks and batches have room; feeds list values.       *)
ASSUME CallsAssumption ==
    /\ ChunkSize \in Nat \ {0} /\ MaxBatch \in Nat
    /\ \A c \in Calls : /\ c.rows \in Seq(ToSet(c.rows))
                       /\ \A r \in ToSet(c.rows) : IsRow(r)
    /\ Listed \subseteq AnyText

SampleOnlyTypes == {"mutex", "path", "registry", "email"}
Group == <<"indicators", "children", "excluded", "cve",
           "samples", "hashes", "feeds">>

(* Rows of the tables of D1, for the days of the archive.                  *)
IndicatorRows ==
    UNION {{LET a == ActionOn(archive[d], f.e.type, f.e.text)
            IN  [day |-> d, type |-> f.e.type, text |-> f.e.text,
                 registrable |-> IF f.e.type = "domain"
                                 THEN Host(Registrable(f.e.text.host))
                                 ELSE None,
                 source |-> f.source, url |-> f.url,
                 action |-> IF a = None THEN None ELSE a.action,
                 benign |-> IF a = None THEN None ELSE a.benign] :
               f \in {g \in Findings(archive[d]) : g.e.status = "confirmed"}} :
           d \in Dates(archive)}

ExcludedRows ==
    UNION {{[day |-> d, text |-> f.e.text, reason |-> f.e.reason] :
               f \in {g \in Findings(archive[d]) : IsRejected(g)}} :
           d \in Dates(archive)}

Stored == [indicators |-> IndicatorRows, excluded |-> ExcludedRows,
           intel |-> NewestIntel(archive)]

-----------------------------------------------------------------------------
(* What a value needs.                                                     *)

(* classify of guard.ts.                                                   *)
Guarded(text) ==
    IF text = Name("") THEN {"empty_value"}
    ELSE IF Detect(text) \in {"cve", "sha256"} THEN {}
    ELSE IF text.host \in NonPublic THEN {"non_public_ip"}
    ELSE IF Len(text.host) <= 1 \/ text.host[1] \in Internal
    THEN {"internal_hostname"} ELSE {}

(* The guard, and then the validator's rules, which call an address that   *)
(* does not parse malformed_ip.                                            *)
SkipCodes(text, supplied, detected) ==
    LET rules == SkipReasons(text, supplied, detected)
        firm == rules \ {"unparseable_host", "malformed_ip"}
    IN  IF Guarded(text) # {} THEN Guarded(text)
        ELSE IF "malformed_ip" \in rules THEN firm \cup {"invalid_value"}
        ELSE firm

(* urlHost, of a text without a scheme, cuts off its first two characters: *)
(* what is left is a name nobody gave.                                     *)
UrlHost(text) ==
    IF text.scheme THEN Host(text.host)
    ELSE Host(Append(Front(text.host), "cut " \o Last(text.host)))

(* The twin with a slash at its end; a path stands for both its forms.     *)
Slashed(text) == IF text.rest = "" THEN [text EXCEPT !.rest = "/"] ELSE text

Plan(row) ==
    LET supplied == IF row.type \in KnownTypes THEN row.type ELSE None
        detected == Detect(row.text)
        artefact == row.type \in SampleOnlyTypes
        used == IF artefact THEN row.type
                ELSE IF supplied = None THEN detected ELSE supplied
        skip == IF artefact
                THEN IF row.text = Name("") THEN {"empty_value"} ELSE {}
                ELSE SkipCodes(row.text, supplied, detected)
        key == IF used = "url" THEN UrlHost(row.text) ELSE row.text
        labels == IF used \in {"domain", "url"} THEN Split(key) ELSE <<>>
    IN  IF skip # {} THEN [skip |-> skip]
        ELSE [skip |-> {}, used |-> used, key |-> key,
              wholes |-> IF used = "url"
                         THEN <<Whole(row.text), Slashed(Whole(row.text))>>
                         ELSE <<>>,
              parents |-> IF labels = <<>> THEN <<>>
                          ELSE [i \in DOMAIN Parents(labels) |->
                                   Host(Parents(labels)[i])],
              registrable |-> IF labels = <<>> THEN <<>>
                              ELSE <<Host(Registrable(labels))>>]

(* The keys a value needs of each group, the nearest first.                *)
Needs(plan) ==
    LET own == Append(plan.wholes, plan.key)
        only(types, keys) == IF plan.used \in types THEN keys ELSE <<>>
        nothing == [g \in ToSet(Group) |-> <<>>]
    IN  IF plan.skip # {} THEN nothing
        ELSE IF plan.used \in SampleOnlyTypes
        THEN [nothing EXCEPT !.samples = <<plan.key>>]
        ELSE [indicators |-> own \o plan.parents,
              children |-> plan.registrable,
              excluded |-> own,
              cve |-> only({"cve"}, <<plan.key>>),
              samples |-> own,
              hashes |-> only({"sha256"}, <<plan.key>>),
              feeds |-> only(KnownTypes \ {"cve"}, own \o plan.registrable)]

(* Values from MaxBatch on are not looked up.                              *)
Plans(rows) ==
    [i \in DOMAIN rows |->
        IF i > MaxBatch THEN [skip |-> {"request_limit"}] ELSE Plan(rows[i])]

(* What each call is, whatever D1 holds.                                   *)
CallPlans == [c \in Calls |-> Plans(c.rows)]

Distinct(keys) ==
    At(keys, {n \in DOMAIN keys : \A m \in 1 .. n - 1 : keys[m] # keys[n]})

Chunks(keys) ==
    [n \in 1 .. (Len(keys) + ChunkSize - 1) \div ChunkSize |->
        SubSeq(keys, (n - 1) * ChunkSize + 1,
               Min({n * ChunkSize, Len(keys)}))]

(* The keys the statements of a group ask for.                             *)
GroupKeys(plans, group) ==
    Distinct(FlattenSeq([i \in DOMAIN plans |-> Needs(plans[i])[group]]))

GroupStatements(plans, group) ==
    LET chunks == Chunks(GroupKeys(plans, group))
    IN  [n \in DOMAIN chunks |->
            [group |-> group, keys |-> ToSet(chunks[n])]]

(* The statements of a call, in the order runChunked is awaited.           *)
Statements(plans) ==
    FlattenSeq([j \in DOMAIN Group |-> GroupStatements(plans, Group[j])])

(* What may become of n statements: the lookup of the corpus fails, some   *)
(* of them fail, or the budget is spent before one of them.                *)
Fates(n) ==
    {[corpus |-> TRUE, failed |-> S, budget |-> n + 1] :
        S \in UNION {kSubset(k, 1 .. n) : k \in 0 .. MaxFailed}}
    \cup {[corpus |-> TRUE, failed |-> {}, budget |-> k] : k \in 1 .. n}
    \cup {[corpus |-> FALSE, failed |-> {}, budget |-> 1]}

(* Why a statement gave no rows; {} if it did.                             *)
Loss(fate, n) ==
    IF n >= fate.budget THEN {"time_budget_exceeded"}
    ELSE IF n \in fate.failed THEN {"lookup_failed"} ELSE {}

Answered(statements, fate, group) ==
    UNION {statements[n].keys : n \in {k \in DOMAIN statements :
               statements[k].group = group /\ Loss(fate, k) = {}}}

(* Why a value lacks something of a group; of several reasons the first is *)
(* told, and the model tells all.  Without the corpus every value is an    *)
(* error.                                                                  *)
LostOf(plan, group, statements, fate) ==
    IF ~fate.corpus THEN {"lookup_failed"}
    ELSE UNION {Loss(fate, n) : n \in {k \in DOMAIN statements :
               /\ statements[k].group = group
               /\ statements[k].keys \cap ToSet(Needs(plan)[group]) # {}}}

(* What may come of a call: for each group the keys it got the rows of,    *)
(* and what each value lacks.                                              *)
Courses(plans) ==
    LET statements == Statements(plans)
    IN  {[keys |-> [g \in ToSet(Group) |-> Answered(statements, fate, g)],
          lost |-> [i \in DOMAIN plans |-> [g \in ToSet(Group) |->
                       LostOf(plans[i], g, statements, fate)]]] :
            fate \in Fates(Len(statements))}

CallCourses == [c \in Calls |-> Courses(CallPlans[c])]

-----------------------------------------------------------------------------
(* What a value is told.                                                   *)

(* buildRecords, of the rows of one text: the newest day that carries an   *)
(* action decides.                                                         *)
RecordOf(rows) ==
    LET first == CHOOSE r \in rows : \A o \in rows : r.day <= o.day
        decided == {r \in rows : r.action # None}
        newest == CHOOSE r \in decided : \A o \in decided : o.day <= r.day
    IN  [type |-> first.type, dates |-> {r.day : r \in rows},
         publishers |-> {r.source : r \in rows},
         citations |-> {<<r.source, r.url>> : r \in rows},
         action |-> IF decided = {} THEN None ELSE newest.action,
         benign |-> IF decided = {} THEN None ELSE newest.benign]

(* The rows the statements of a call returned, as the answers use them.    *)
Returned(d1, since, keys) ==
    LET recent(rows) == {r \in rows : r.day >= since}
        children == {r \in recent(d1.indicators) :
                        r.type = "domain" /\ r.registrable \in keys["children"]}
        rows == children \cup {r \in recent(d1.indicators) :
                    r.type \in KnownTypes /\ r.text \in keys["indicators"]}
        out == {r \in recent(d1.excluded) : r.text \in keys["excluded"]}
    IN  [records |-> [t \in {r.text : r \in rows} |->
                         RecordOf({r \in rows : r.text = t})],
         under |-> [k \in {r.registrable : r \in children} |->
                      {r.text : r \in {o \in children : o.registrable = k}}],
         exclusions |-> [t \in {r.text : r \in out} |->
                            {r.reason : r \in {o \in out : o.text = t}}],
         intel |-> [c \in DOMAIN d1.intel \cap keys["cve"] |-> d1.intel[c]],
         artefacts |-> Artefacts \cap keys["samples"],
         analysed |-> Analysed \cap keys["hashes"],
         listed |-> Listed \cap keys["feeds"]]

(* The first of some keys that is among some texts, if one is.             *)
Nearest(keys, texts) ==
    {keys[n] : n \in {k \in DOMAIN keys :
        keys[k] \in texts /\ \A j \in 1 .. k - 1 : keys[j] \notin texts}}

(* The validator's match, over the records of the call.                    *)
MatchOf(plan, returned) ==
    LET known == DOMAIN returned.records
        free == {t \in known : returned.records[t].benign = None}
        whole == Nearest(plan.wholes, known)
        parent == Nearest(plan.parents, free)
        under == UNION {returned.under[k] :
                    k \in ToSet(plan.registrable) \cap DOMAIN returned.under}
        children == {t \in under \cap free :
                        ~plan.key.scheme /\ IsStrictPrefix(plan.key.host, t.host)}
        found(method, keys) == {[method |-> method, key |-> t] : t \in keys}
    IN  IF whole # {} THEN found("exact", whole)
        ELSE IF plan.key \in known /\ (plan.used = "url" => plan.key \in free)
        THEN found(IF plan.used = "url" THEN "same_host" ELSE "exact",
                   {plan.key})
        ELSE IF parent # {} THEN found("parent_domain", parent)
        ELSE IF children # {} THEN found("child_domain", children)
        ELSE found(None, {None})

(* The validator's exclusion.                                              *)
ExclusionOf(plan, method, returned) ==
    LET out == DOMAIN returned.exclusions
        whole == Nearest(plan.wholes, out)
    IN  IF method = "exact" THEN {}
        ELSE IF whole # {} THEN UNION {returned.exclusions[t] : t \in whole}
        ELSE IF method # "same_host" /\ plan.key \in out
        THEN returned.exclusions[plan.key] ELSE {}

(* The samples that hold the value; of a URL, also without the slash.      *)
InSample(plan, returned) ==
    \/ plan.key \in returned.artefacts
    \/ plan.wholes # <<>> /\ plan.wholes[1] \in returned.artefacts
    \/ plan.used = "sha256" /\ plan.key \in returned.analysed

(* The nearest listed key, unless a statement for one of them was lost.    *)
ListedAs(plan, returned, lost) ==
    LET near == Nearest(plan.wholes \o <<plan.key>> \o plan.registrable,
                        returned.listed)
    IN  IF lost # {} \/ near = {} THEN None ELSE CHOOSE t \in near : TRUE

Sides == {"samples", "hashes"}

(* Mutant: a lost exclusion goes unnoticed.                                *)
NewsGroupsNoExclusions == {"indicators", "children", "cve"}

NewsGroups == {"indicators", "children", "excluded", "cve"}

(* The answers a value may get.  "elsewhere": a sample or a feed has it,   *)
(* and no report has.                                                      *)
AnswersFor(plan, returned, lostOf) ==
    LET lost(groups) == UNION {lostOf[g] : g \in groups}
        newsLost == lost(NewsGroups)
        inSample == InSample(plan, returned)
        listedAs == ListedAs(plan, returned, lost({"feeds"}))
        told(status, match, reasons, record, intel) ==
            [status |-> status, match |-> match, reasons |-> reasons,
             record |-> record, intel |-> intel,
             sample |-> inSample, listed |-> listedAs]
        bare(status, reasons) ==
            [status |-> status, match |-> None, reasons |-> reasons,
             record |-> None, intel |-> None, sample |-> FALSE,
             listed |-> None]
        notFound == IF inSample \/ listedAs # None
                    THEN told("elsewhere", None, {}, None, None)
                    ELSE IF lost(Sides \cup {"feeds"}) # {}
                    THEN bare("error", lost(Sides \cup {"feeds"}))
                    ELSE bare("unseen", {})
        hit(m) == LET record == returned.records[m.key]
                  IN  IF record.citations = {}
                      THEN told("error", None, {"missing_citation"}, None, None)
                      ELSE told("hit", m, {}, record,
                                IF /\ plan.used = "cve"
                                   /\ plan.key \in DOMAIN returned.intel
                                THEN returned.intel[plan.key] ELSE None)
        decided(m) == LET out == ExclusionOf(plan, m.method, returned)
                      IN  IF out # {} THEN told("excluded", None, out, None, None)
                          ELSE IF m.key = None THEN notFound ELSE hit(m)
    IN  IF plan.skip # {} THEN {bare("skipped", plan.skip)}
        ELSE IF newsLost # {} THEN {bare("error", newsLost)}
        ELSE {decided(m) : m \in MatchOf(plan, returned)}

(* enrichObservables.                                                      *)
Enrich(d1, call, plans, course) ==
    LET returned == Returned(d1, call.since, course.keys)
    IN  [i \in DOMAIN plans |->
            AnswersFor(plans[i], returned, course.lost[i])]

-----------------------------------------------------------------------------
(* What a call may say.                                                    *)

(* The offline bundle of the days a call asks about, with the newest       *)
(* record of each CVE, whatever day it is of.                              *)
BundleSince(since) ==
    LET days == [d \in Day |-> IF d >= since THEN archive[d] ELSE None]
    IN  [BuildSnapshot(days).content EXCEPT !.intel = NewestIntel(archive)]

(* The validator also counts a URL without a path as a child of its host's *)
(* parents; D1 keeps a registrable domain of domains alone.                *)
UrlChild(a) ==
    a.status = "hit" /\ a.match.method = "child_domain" /\ a.match.key.scheme

(* urlHost cuts a host that is called a URL short, and asks about the name *)
(* that is left; nothing is said here of such a row.                       *)
CutShort(row) == row.type = "url" /\ ~row.text.scheme

(* What the feeds list of a value: the value itself, of a URL with or      *)
(* without the slash at its end, or else its host, or else the registrable *)
(* domain.                                                                 *)
ListedOf(row, plan) ==
    LET isUrl == plan.used = "url"
        own == {t \in Listed : \/ t = row.text
                               \/ isUrl /\ t.scheme /\ Whole(t) = Whole(row.text)}
        host == {t \in Listed : isUrl /\ t = Host(row.text.host)}
    IN  IF own # {} THEN own ELSE IF host # {} THEN host
        ELSE Listed \cap ToSet(plan.registrable)

(* What samples hold of it: the value itself, of a URL also its twin, with *)
(* or without the slash at its end.                                        *)
SampledOf(row, plan) ==
    LET whole == Whole(row.text)
        twins == IF plan.used = "url" THEN {whole, Slashed(whole)} ELSE {}
    IN  (Artefacts \cap ({plan.key} \cup twins))
        \cup (IF plan.used = "sha256" THEN Analysed \cap {plan.key} ELSE {})

(* The form with the slash is asked for, and its answer is not looked at.  *)
PassedOver(row, plan) ==
    IF plan.used = "url"
    THEN {Slashed(Whole(row.text))} \ {Whole(row.text), plan.key} ELSE {}

(* Feeds list no CVEs and none of what only samples have.                  *)
AsksFeeds(plan) == plan.used \in KnownTypes \ {"cve"}

(* An answer, given what the validator says and whether a statement of the *)
(* value was lost.  Reports are not asked about what only samples have; if *)
(* another value of the call brought their record in, it is its own.       *)
SpeaksTruly(a, row, plan, offline, content, anyLost) ==
    LET artefact == plan.used \in SampleOnlyTypes
        missed == \E o \in offline : o.status = "miss" \/ UrlChild(o)
        inSamples == SampledOf(row, plan) \ PassedOver(row, plan)
        inFeeds == ListedOf(row, plan)
    IN  /\ a.status = "error" => anyLost
        /\ a.status = "hit" =>
              /\ a.record = content.values[a.match.key]
              /\ IF artefact
                 THEN a.match = [method |-> "exact", key |-> row.text]
                 ELSE Answer("hit", a.match, {}, a.intel) \in offline
        /\ a.status = "excluded" =>
              IF artefact THEN a.reasons = content.excluded[row.text]
              ELSE Answer("excluded", None, a.reasons, None) \in offline
        /\ a.status \in {"unseen", "elsewhere"} => artefact \/ missed
        /\ a.status = "unseen" =>
              inSamples = {} /\ (AsksFeeds(plan) => inFeeds = {})
        /\ a.sample => inSamples # {}
        /\ a.listed # None => a.listed \in inFeeds

(* The service answers as the offline validator does from the bundle of    *)
(* the days it holds, whatever statements on the news side fail or go      *)
(* unsent: a hit has the validator's match, citations, action and          *)
(* vulnerability record; an exclusion is the validator's; an error is only *)
(* told of a value that did lose a statement; what the validator skips is  *)
(* never looked up.  `unseen` is told of nothing that a report or a feed   *)
(* has, or a sample in a form that is looked at, even where the statement  *)
(* that would have shown it was lost.                                      *)
(* (docs/enrich-observables-contract.md:317: "The service never answers    *)
(* from a partial set of lookups", held to on the news side.)  Four things *)
(* it does not say.  A URL that samples hold with a slash at its end may   *)
(* be told unseen (PassedOver; UnseenIsHeldNowhere says it may not).  A    *)
(* hit or an exclusion stands though its sample or feed statement was lost *)
(* ("it is a different claim", enrich.test.ts).  A host that is called a URL is cut short, and *)
(* what the validator finds under it by a URL alone the service does not   *)
(* find (CutShort, UrlChild).  The answers depend on the archive alone, so *)
(* it is enough to look where no bundle is out.                            *)
LookupSpeaksTruly ==
    bundle = None =>
        LET d1 == Stored
            contents == [since \in {c.since : c \in Calls} |->
                            BundleSince(since)]
        IN  \A call \in Calls :
            LET content == contents[call.since]
                plans == CallPlans[call]
                offline == [i \in DOMAIN plans |->
                               Evaluate(content, call.rows[i])]
                skips(i) == \A o \in offline[i] : o.status = "skipped"
                asked == {i \in DOMAIN plans :
                             plans[i].skip = {} /\ ~CutShort(call.rows[i])}
            IN  /\ \A i \in asked : plans[i].used \in KnownTypes => ~skips(i)
                /\ \A course \in CallCourses[call] :
                     LET told == Enrich(d1, call, plans, course)
                         lacks(i) == \E g \in ToSet(Group) :
                                         course.lost[i][g] # {}
                     IN  \A i \in asked : \A a \in told[i] :
                            SpeaksTruly(a, call.rows[i], plans[i], offline[i],
                                        content, lacks(i))

(* `unseen` "means no side holds the value": "no file analysed here        *)
(* contains it", and the samples' match is "exact (plus a URL's            *)
(* trailing-slash twin)" (docs/enrich-observables-contract.md:283, 222).   *)
UnseenIsHeldNowhere ==
    bundle = None /\ Dates(archive) # {} =>
        \A call \in Calls : \A course \in CallCourses[call] :
            LET told == Enrich(Stored, call, CallPlans[call], course)
            IN  \A i \in DOMAIN told : \A a \in told[i] :
                    a.status = "unseen" =>
                        SampledOf(call.rows[i], CallPlans[call][i]) = {}
=============================================================================
