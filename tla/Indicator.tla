----------------------------- MODULE Indicator -----------------------------
(***************************************************************************)
(* What the pipeline compares: values cut out of article text, hosts, and  *)
(* the Public Suffix List that says where an organisation's names end      *)
(* (publicsuffix.py; the class Boundaries of the offline validator is the  *)
(* same algorithm over the rules that travel in the bundle).               *)
(*                                                                         *)
(* A host is its sequence of labels from the top: <<"com", "evil", "api">> *)
(* is api.evil.com, and an address 1.2.3.4 is <<"4", "3", "2", "1">>.  A   *)
(* text is a normalised value: a host, a URL (scheme) with the path after  *)
(* its host, or a name without a host (a hash, a CVE, a family).           *)
(***************************************************************************)
EXTENDS Sorted

CONSTANTS Normal, Wildcard, Exception   \* rules, by host

(* The list names nothing twice, and no rule is empty.                     *)
ASSUME RulesAssumption ==
    /\ Normal \cup Wildcard \cup Exception \subseteq Seq(STRING) \ {<<>>}
    /\ Normal \cap Exception = {}

AnyText == [scheme : BOOLEAN, host : Seq(STRING), rest : STRING]

Host(h) == [scheme |-> FALSE, host |-> h, rest |-> ""]
Url(h, path) == [scheme |-> TRUE, host |-> h, rest |-> path]
Name(s) == [scheme |-> FALSE, host |-> <<>>, rest |-> s]

Upper(h, n) == SubSeq(h, 1, n)

(* A rule decides at the longest ending of the host that it names.         *)
RuleEnds(h) ==
    {n \in 1 .. Len(h) : \/ Upper(h, n) \in Exception
                         \/ n > 1 /\ Upper(h, n - 1) \in Wildcard
                         \/ Upper(h, n) \in Normal}

(* Labels of the public suffix; without a rule it is the last label.       *)
SuffixLength(h) ==
    IF RuleEnds(h) = {} THEN 1
    ELSE LET n == Max(RuleEnds(h))
         IN  IF Upper(h, n) \in Exception THEN n - 1 ELSE n

IsPublicSuffix(h) == h # <<>> /\ SuffixLength(h) = Len(h)

(* Ancestors down to the registrable domain, nearest first.                *)
Parents(h) ==
    [i \in 1 .. Len(h) - 1 - SuffixLength(h) |-> Upper(h, Len(h) - i)]

Registrable(h) ==
    IF Len(h) > SuffixLength(h) THEN Upper(h, SuffixLength(h) + 1) ELSE h

(* The host itself or one beneath it.                                      *)
AtOrBeneath(h, top) == IsPrefix(top, h)
=============================================================================
