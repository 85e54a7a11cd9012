------------------------------- MODULE Bundle -------------------------------
(***************************************************************************)
(* The bundle a consumer is given and the answers it draws from it:        *)
(* build_snapshot of snapshot.py over the archived reports, and the        *)
(* offline validator (tools/corpus-validator/validate.py).                 *)
(***************************************************************************)
EXTENDS Board

CONSTANTS
    Day,            \* report dates, as numbers
    Internal,       \* top labels organisations use among themselves
    Ips, Hashes     \* what detect_type knows by its form: hosts, names

ASSUME DayAssumption == Day \in SUBSET Int /\ IsFiniteSet(Day) /\ Day # {}

(* An address ends in no other address; no hash is empty or a CVE.         *)
ASSUME FormsAssumption ==
    /\ NonPublic \subseteq Ips
    /\ Ips \subseteq Seq(STRING) \ {<<>>}
    /\ \A i, j \in Ips : AtOrBeneath(i, j) => i = j
    /\ Hashes \subseteq STRING \ {""}
    /\ \A c \in ToSet(CveOrder) : c.rest \notin Hashes

KnownTypes == {"domain", "ip", "url", "sha256", "cve"}
Methods == {"exact", "same_host", "parent_domain", "child_domain"}

(* No type, no way to match and no action is the absence of one.           *)
ASSUME AbsenceAssumption ==
    None \notin KnownTypes \cup {"empty", "unknown"} \cup Methods \cup Asked

SnapshotTypes == {"domain", "ip", "url", "sha256"}

Dates(archive) == {d \in Day : archive[d] # None}

(* The findings of the articles a report kept, with whose they are.        *)
Findings(report) ==
    UNION {{[e |-> e, source |-> m.source, url |-> m.url] :
               e \in ToSet(m.evidence)} : m \in ToSet(report.articles)}

Travels(f) ==
    f.e.status = "confirmed" /\ f.e.type \in SnapshotTypes \cup {"cve"}

(* _action_index: the first action on a value of that type, or else of any.*)
ActionOn(report, type, text) ==
    LET actions == report.brief.actions
        typed == SelectInSeq(actions, LAMBDA a :
                                 a.type = type /\ a.target = text)
        any == SelectInSeq(actions, LAMBDA a : a.target = text)
    IN  IF typed # 0 THEN actions[typed]
        ELSE IF any # 0 THEN actions[any] ELSE None

(* One row per text, whatever the types it was found as; what was decided  *)
(* is what the last day that names it decided.                             *)
Row(archive, text) ==
    LET on(d) == {f \in Findings(archive[d]) : Travels(f) /\ f.e.text = text}
        days == {d \in Dates(archive) : on(d) # {}}
        found == UNION {on(d) : d \in days}
        decided == {d \in days : \E f \in on(d) :
                       ActionOn(archive[d], f.e.type, text) # None}
        last == Max(decided)
        type == (CHOOSE f \in on(Min(days)) : TRUE).e.type
        action == ActionOn(archive[last], type, text)
    IN  [type |-> type, dates |-> days,
         publishers |-> {f.source : f \in found},
         citations |-> {<<f.source, f.url>> : f \in found},
         action |-> IF decided = {} THEN None ELSE action.action,
         benign |-> IF decided = {} THEN None ELSE action.benign]

Archived(archive) == UNION {Findings(archive[d]) : d \in Dates(archive)}

IsRejected(f) == f.e.status = "rejected"

(* Why articles ruled a text out.                                          *)
Exclusion(archive, text) ==
    {f.e.reason : f \in {g \in Archived(archive) :
                            IsRejected(g) /\ g.e.text = text}}

Texts(findings) == {f.e.text : f \in findings}

(* The newest record of each CVE.                                          *)
NewestIntel(archive) ==
    LET days(c) == {d \in Dates(archive) : c \in DOMAIN archive[d].intel}
        known == UNION {DOMAIN archive[d].intel : d \in Dates(archive)}
    IN  [c \in known |-> archive[Max(days(c))].intel[c]]

(* _corpus_version covers the contents; the model takes them for the hash. *)
Contents(snapshot) ==
    <<snapshot.values, snapshot.excluded, snapshot.intel, snapshot.rules>>

BuildSnapshot(archive) ==
    LET all == Archived(archive)
        content ==
            [days |-> Dates(archive),
             values |-> [t \in Texts({f \in all : Travels(f)}) |->
                            Row(archive, t)],
             excluded |-> [t \in Texts({f \in all : IsRejected(f)}) |->
                              Exclusion(archive, t)],
             intel |-> NewestIntel(archive),
             rules |-> Normal]
    IN  [content |-> content, version |-> Contents(content),
         stated |-> Cardinality(DOMAIN content.values)]

(* verify_snapshot refuses a bundle that is not what it says it is.        *)
Intact(bundle) ==
    /\ bundle.version = Contents(bundle.content)
    /\ bundle.stated = Cardinality(DOMAIN bundle.content.values)

-----------------------------------------------------------------------------
(* The validator.  A row is a value, as undefang leaves it, and the type   *)
(* the caller says it has (None: not said).                                *)

Detect(text) ==
    IF text = Name("") THEN "empty"
    ELSE IF text \in ToSet(CveOrder) THEN "cve"
    ELSE IF text.rest \in Hashes THEN "sha256"
    ELSE IF text.scheme THEN "url"
    ELSE IF text.host \in Ips THEN "ip"
    ELSE IF Len(text.host) > 1 THEN "domain" ELSE "unknown"

(* normalize: what is looked up.  Only of a value with a scheme can a host *)
(* be taken.                                                               *)
Normalize(text, type) ==
    IF type # "url" THEN text
    ELSE IF text.scheme THEN Host(text.host) ELSE Name("")

SkipFor(text, type) ==
    LET host == Normalize(text, type).host
        address == type = "url" \/ ~text.scheme
    IN  IF type = "empty" THEN {"empty_value"}
        ELSE IF type = "unknown" THEN {"unsupported_type"}
        ELSE IF type = "ip" /\ (text.scheme \/ host \notin Ips)
        THEN {"malformed_ip"}
        ELSE IF type \notin {"ip", "domain", "url"} THEN {}
        ELSE IF type = "url" /\ host = <<>> THEN {"unparseable_host"}
        ELSE IF address /\ host \in NonPublic THEN {"non_public_ip"}
        ELSE IF type # "ip" /\ (Len(host) <= 1 \/ host[1] \in Internal)
        THEN {"internal_hostname"}
        ELSE {}

(* skip_reason: either reading can withhold a value; that one of them does *)
(* not know it is the weakest reason.                                      *)
SkipReasons(text, supplied, detected) ==
    LET readings == {supplied, detected} \ {None}
        all == UNION {SkipFor(text, t) : t \in readings}
    IN  IF \A t \in readings : SkipFor(text, t) = {"unsupported_type"}
        THEN all ELSE all \ {"unsupported_type"}

(* _whole: a URL without the slash at its end.                             *)
Whole(text) == IF text.rest = "/" THEN [text EXCEPT !.rest = ""] ELSE text

HeldBack(content, text) ==
    text \in DOMAIN content.values /\ content.values[text].benign # None

(* Labels of what parents() and by_registrable split at dots: a URL with a *)
(* path has none that another value could share.                           *)
Split(text) == IF text.rest = "" THEN text.host ELSE <<>>

(* The nearest named ancestor that is not held back, or else something the *)
(* corpus named beneath; sorted() takes the first, the model any of those. *)
Relation(content, key) ==
    LET labels == Split(key)
        free == {t \in DOMAIN content.values : ~HeldBack(content, t)}
        parents == {i \in DOMAIN Parents(labels) :
                       Host(Parents(labels)[i]) \in free}
        children == {t \in free :
                        /\ content.values[t].type \in {"domain", "url"}
                        /\ ~key.scheme /\ IsStrictPrefix(labels, Split(t))
                        /\ Registrable(Split(t)) = Registrable(labels)}
    IN  IF labels = <<>> THEN {}
        ELSE IF parents # {}
        THEN {[method |-> "parent_domain",
               key |-> Host(Parents(labels)[Min(parents)])]}
        ELSE {[method |-> "child_domain", key |-> t] : t \in children}

(* Corpus.match, as the set of what it may find; none is a miss.  A URL is *)
(* tried whole before its host.                                            *)
Match(content, text, type) ==
    LET key == Normalize(text, type)
        whole == {t \in DOMAIN content.values :
                     t.scheme /\ type = "url" /\ Whole(t) = Whole(text)}
    IN  IF whole # {}
        THEN {[method |-> "exact", key |-> t] : t \in whole}
        ELSE IF /\ key \in DOMAIN content.values
                /\ type = "url" => ~HeldBack(content, key)
        THEN {[method |-> IF type = "url" THEN "same_host" ELSE "exact",
               key |-> key]}
        ELSE IF type \in {"domain", "url"} THEN Relation(content, key)
        ELSE {}

(* Mutant: an exclusion is looked up first, whatever confirms the value.   *)
ExcludedByFirst(content, text, type, method) ==
    {Normalize(text, type)} \cap DOMAIN content.excluded

(* Corpus.exclusion: what outranks the match, if anything does.  Of a URL  *)
(* excluded with and without its slash, one form is found.                 *)
ExcludedBy(content, text, type, method) ==
    LET whole == {t \in DOMAIN content.excluded :
                     t.scheme /\ type = "url" /\ Whole(t) = Whole(text)}
        host == {Normalize(text, type)} \cap DOMAIN content.excluded
    IN  IF method = "exact" THEN {}
        ELSE IF whole # {} THEN whole
        ELSE IF method = "same_host" THEN {}
        ELSE host

Answer(status, match, reasons, intel) ==
    [status |-> status, match |-> match, reasons |-> reasons,
     intel |-> intel]

(* _evaluate_row, as the set of its possible answers.                      *)
Evaluate(content, row) ==
    LET detected == Detect(row.text)
        supplied == IF row.type \in KnownTypes THEN row.type ELSE None
        used == IF supplied = None THEN detected ELSE supplied
        skip == SkipReasons(row.text, supplied, detected)
        found == Match(content, row.text, used)
        excluded(m) == ExcludedBy(content, row.text, used, m.method)
        intel == IF used = "cve" /\ row.text \in DOMAIN content.intel
                 THEN content.intel[row.text] ELSE None
        told(m) == IF excluded(m) # {}
                   THEN {Answer("excluded", None, content.excluded[t], None) :
                            t \in excluded(m)}
                   ELSE IF m.key = None THEN {Answer("miss", None, {}, None)}
                   ELSE IF content.values[m.key].citations = {}
                   THEN {Answer("error", m, {"missing_citation"}, None)}
                   ELSE {Answer("hit", m, {}, intel)}
        nothing == [method |-> None, key |-> None]
    IN  IF skip # {} THEN {Answer("skipped", None, skip, None)}
        ELSE UNION {told(m) : m \in IF found = {} THEN {nothing} ELSE found}
=============================================================================
