---------------------------- MODULE MCDailyFiles ----------------------------
(* Model checking of what a daily run keeps on disk: the cache of its CVE  *)
(* lookups (EnrichCache) and the files of its report (ReportPair).  The    *)
(* two share no state, so a behaviour is one of either; the other part     *)
(* stays as it began.                                                      *)
EXTENDS EnrichCache, ReportPair, TLC

VARIABLE part   \* which of the two moves

FilesInit ==
    /\ part \in {"cache", "pair"}
    /\ CacheInit /\ Init
    /\ part = "cache" => disk = NoFiles
    /\ part = "pair" => world = CHOOSE w \in Worlds : TRUE

FilesNext ==
    /\ UNCHANGED part
    /\ \/ part = "cache" /\ CacheNext /\ UNCHANGED vars
       \/ part = "pair" /\ Next /\ UNCHANGED cacheVars

FilesSpec == FilesInit /\ [][FilesNext]_<<part, cacheVars, vars>>

(* Writers and reports are interchangeable. *)
Symmetric == Permutations(Writer) \cup Permutations(Report)

-----------------------------------------------------------------------------
(* The cache: three CVEs over three days.  The first is scored, or scored  *)
(* anew, and rated by EPSS as time goes by; the second is in KEV, from the *)
(* first or from the second day; the third has long been scored.           *)

Histories ==
    {<<"unknown", "unscored", "high">>, <<"low", "high", "high">>,
     <<"unknown", "unknown", "unknown">>}

ThreeCves ==
    {[kev |-> [d \in Day |-> IF d >= listed THEN {2} ELSE {}],
      nvd |-> [d \in Day |-> [c \in Cve |->
                 IF c = 1 THEN first[d + 1]
                 ELSE IF c = 2 THEN "unknown" ELSE "low"]],
      epss |-> [d \in Day |-> IF d >= 1 THEN {1} ELSE {}]] :
        listed \in {0, 1}, first \in Histories}
=============================================================================
