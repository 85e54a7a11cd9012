# Threat Pulse: formal models

Threat Pulse (`soc-news-parser` and what `deploy/` installs around it) collects
security news every morning, mails a report, and feeds a shared corpus of
indicators in Cloudflare D1 that a Worker serves to MCP clients. This directory
holds TLA+ models of its stateful parts, the TLC configurations that check them,
and TLAPS proofs of their main properties. `PROJECT.json` links every definition
to the lines it models.

## The system

| Component | Source | State it keeps | Operations | Talks to |
|---|---|---|---|---|
| Report pair | `__init__.py` `_write_report_pair` | `daily-evidence.json`, `daily-report.md` of a day, their `.tmp` and `.bak` copies | stage, back up, replace, roll back, clean up | file system |
| Delivery | `__init__.py` `_deliver`, `resend.py` | the day's folder; Resend's idempotency keys | write, read back, compare digests, POST with retries | report pair, Resend |
| Collection | `report.py` `collect_report`, `archived_before`, `schedule.py`, `parser.py` | the archive `reports/YYYY-MM-DD` | one window per slot, late articles along the archived chain | publishers' feeds |
| Source health | `source_health.py` | none but the archive | failure streaks, missed sources | alert mail |
| Daily push | `deploy/run-daily.sh`, `export_d1.py`, `first_field.py` | D1 `reports`, `indicators`, `excluded_values`, `cve_intel`, `corpus_state` | guard, render, one batch | delivery, D1, alert mail |
| CI backup | `.github/workflows/daily-deliver.yml` | D1, without `corpus_state` | the same guard and batch, dispatched by hand | D1 |
| Corpus version | `snapshot.py` | none | days and hash of what a match can depend on | the archive |
| Sample export | `deploy/run-samples.sh`, `sample_export.py` | D1 `sample_analysis`, `sample_indicators`, `sample_state` (watermark) | hourly walk of the analyser's feed, one batch | malware analyser, D1 |
| Feed export | `deploy/run-feeds.sh`, `feed_export.py` | D1 `feed_indicators`, `feed_state` | mirror or upsert, expire | analyser, D1 |
| Query service | `deploy/worker/src` | D1 `tokens`, `token_usage` | authenticate, count, look up; cron: heartbeat, usage check, sample freshness | MCP clients, D1, Resend |
| Token administration | `deploy/worker/token-admin.mjs` | D1 `tokens` | issue, revoke, limits | D1 |
| Enrichment | `enrich.py` | a cache file per CVE source | KEV, EPSS and NVD reads | public APIs |
| Evidence, analyst board | `evidence.py`, `analyst.py`, `publicsuffix.py` | none | read indicators out of text, judge and rank them | collection |
| Reanalysis | `reanalyze.py` | rewrites a day's archived report | analyse the stored bodies again | the archive |
| Bundle, offline validator | `snapshot.py`, `tools/corpus-validator/validate.py` | a bundle file a consumer keeps | pack the archive, judge rows of a CSV | the archive, the consumer |
| Site, local queries | `site_export.py`, `ioc_query.py`, `mcp_server.py`, `backtest.py` | files written in one go | convert, query | D1, the archive |

The daily run is a chain: the timer starts `run-daily.sh`, which runs `deliver`
(collect, write the pair, mail), then pushes the day to D1, exports the site file
and checks source health. Anyone may start it again by hand, and the workflow may
run beside it. `run-samples.sh` runs hourly and refreshes the feeds first. The
Worker reads D1 while these write it, and its cron watches the corpus from
outside: it is the only part that notices that nothing arrives.

### What is hard here

Processes overlap without a lock (two deliveries, host and CI, timer and manual
exports, any number of Worker instances); a run may be killed between any two
steps; a remote call may take effect and still report a failure; a step reads a
state and acts on it later (the push guard, a token's limits, a lookup's version);
a run may be repeated for a slot that was done; an alarm looks at the newest day
only. `PROJECT.json` lists these hazards, each at its line, with the properties
that cover it or the reason none does yet.

What makes each part correct:

- Report pair: no interleaving, fault or kill makes the last version of a file
  disappear; a write that fails leaves the old pair.
- Delivery: a mail is one consistent pair, once per Report ID, and a run ends.
- Push and corpus: a host's run that raises no alarm has stored its day; a stored day
  does not shrink; a reported version describes the stored days; a day that did
  not arrive is mailed about.
- Quotas: no interleaving exceeds a limit, and the record of a day tells what
  happened.
- Sample export: the watermark passes no job by, and every job arrives.
- Collection: no article is collected on two days, and none the feeds carried is
  overlooked while the archive is unbroken, whatever fails, overlaps or is lost.
- Source health: a source that stays down is mailed about.
- Feed export: the tables hold the last answer of each source that answered, dead
  infrastructure goes, the next refresh comes in time, and a batch writes only what
  changes.
- Enrichment: every CVE is accounted for whatever the budget or a failure cuts,
  requests are paced, and a record past its age is told to be.
- Evidence to answers: what many share is never blocked, ranking loses and invents
  nothing, a second analysis keeps the day, and a consumer's answer follows the one
  order of decisions, even from a damaged or old bundle.
- Lookups: the service says what the offline validator says of the same days, and
  says so only of what it could ask; `unseen` is never a lost statement, and is told
  of nothing that a side holds.

## Modules

| Module | Models | Runs | Proofs |
|---|---|---|---|
| `ReportPair` | `_write_report_pair`, one action per call that can fail | `daily_files` | `DeliveryProofs` |
| `Delivery` | `_deliver`, `_send_report_files`, `ResendClient.send` | `delivery`, `delivery_retry` | `DeliveryProofs` |
| `Corpus` | `run-daily.sh` after `deliver`, the workflow, `corpus_state`, a lookup's reads, the heartbeat | `corpus`, `corpus_version` | `CorpusProofs` |
| `Slots` | nothing in particular: what a quota promises, abstractly | implemented by `TokenQuota` | |
| `TokenQuota` | `quota.ts`, `enforceQuota`, `runUsageCheck`, `token-admin.mjs` | `token_quota` | `TokenQuotaProofs` |
| `Archive` | `archived_before`, `collect_report`, `parse_feed`'s window, `source_health.py` | `archive` | `ArchiveProofs` |
| `SampleExport` | `run-samples.sh`, `sample_export.py` | `sample_export` | `SampleExportProofs` |
| `FeedExport` | `run-feeds.sh`, `feed_export.py` | `feed_export`, `feed_stall` | `FeedExportProofs` |
| `EnrichCache` | `enrich.py` | `daily_files` | `EnrichCacheProofs` |
| `Sorted` | Python's `sorted` and its comprehensions over lists, external | by `Pipeline` | `PipelineProofs` |
| `Indicator` | `publicsuffix.py`, the values all parts compare | by `Pipeline` | `PipelineProofs` |
| `Evidence` | `evidence.py` | by `Pipeline` | `PipelineProofs` |
| `Board` | `analyst.py` | by `Pipeline` | `PipelineProofs` |
| `Bundle` | `snapshot.py`, `validate.py` | by `Pipeline` | `PipelineProofs` |
| `Pipeline` | the four above composed: `collect_report`, `reanalyze.py`, the bundle a consumer holds | `pipeline` | `PipelineProofs` |
| `Lookup` | `enrichObservables` over the rows of `export_d1.py`, beside the validator | `pipeline`, `lookup_twin` | `PipelineProofs` |

`Delivery` extends `ReportPair`: the mail reads the files whose replacement that
module models step by step. `Indicator`, `Evidence`, `Board` and `Bundle` are pure
operators, one file per Python module, that `Pipeline` puts behind its actions.
`Lookup` extends `Pipeline`, since both ways to an answer start from its archive.
`MC*` modules give the constants that a `.cfg` cannot write and the symmetry sets;
`MCDailyFiles` checks `EnrichCache` and `ReportPair`, which share no state or name, in
one run.
Each module holds, next to a definition, a *mutant*: the same definition with a
plausible bug. `PROJECT.json` says which property finds which.

### ReportPair

`disk` is the two targets, `tmp` and `bak` each writer's temporary and backup copies;
each is a report or `Absent`. A writer's `at` and `cur` follow the loops of the
function. `Fault` is an `OSError` from any call; `Interrupt` is an exception the
`except OSError` does not catch, so that only `finally` runs; `Crash` stops the
process where it is. Two writers share the folder. `Probe` is the `exists()` before
the backup, its answer used one step later.

### Delivery

One `deliver` run writes the pair and mails it; one `send-report` run mails the
same folder. The two reads of the files are separate steps. The digest check
compares the Markdown's hash stored in the JSON, and the key is the Report ID.
`Accept` is Resend, external: a key it knows returns the first mail. A POST may be
lost before or after it was accepted, or refused. `Kill` ends a run anywhere.

### Corpus

`Evidence` is what a collection may hold: a number of articles and a set of values,
which is all the guard compares and all an answer depends on. `stored` and `state`
are D1: the rows of each day, and the folder `corpus_state` was computed from. A
run goes `check`, `render`, `execute`; an outcome is `refused`, `pushed`, `skipped`,
`stalled` (an alert was sent), `failed` (the unit failed, which alerts as well) or
`green`. What a step that fails leads to depends on the site (`Unpushed`): the host
sends an alert (`stalled`), while the workflow's push steps run under
`continue-on-error` and print a `::warning::`, so that its job stays green
(`daily-deliver.yml:121-209`) with the day missing. `QuietRunStored` therefore speaks
of the host, and of the workflow only where its log says that the day was pushed or
refused; a green run's day is noticed by the heartbeat (`MissedDaysWarned`).
D1 runs a file as one batch, external; `wrangler` may fail with the batch run or
not. `raced` marks a run that holds counts the other site has since replaced; it
only serves to say what `GuardKeepsDay` cannot promise: the guard reads the counts and
replaces the day later, the other site may replace it in between, and a fuller day is
then lost. The model has that race; no property forbids it. The workflow's concurrency
group and the unit's own name allow one run per site at a time.

### TokenQuota

A call reads its token's row, stamps its minute and day, and takes a slot in each
with one conditional upsert, which D1 runs atomically. `minuteSlot` and `daySlot`
are the counts the upserts returned. `Unavailable` after an effect is a statement
that threw although it ran. The cron reads yesterday's rows, mails, deletes. The
model assumes (`NoneLeftBehind`) that a call of yesterday has ended by 04:00 UTC.

`Slots` says what that is for: a claim is told a limit and a bucket, and then takes
at most one slot of the bucket, within the limit, that nobody else holds; none is
taken back. `TokenQuota` implements it twice: in `MinuteSlots` a bucket is a token
and a minute, in `DaySlots` a token and a UTC day. Authentication and the stamp map
to `Ask`, an upsert that counts to `Take`; refusals, failures, the operator, the
clock and the daily check, which deletes counters, all have to be stutters.

### SampleExport

A job is its `finished_at`, numbered in the order jobs finish, so that the model
has no two jobs of one stamp and no job that appears with an older one; the
analyser's feed is external. The walk by offset, the stop at the watermark and at
the cap, and jobs that cannot be read follow `recent` and `collect_samples`; rows
and watermark are pushed in one batch. Runs may overlap. `unread` and `cut` are
history: what a pushed run left out, and why.

### Archive

A slot and its 24 hours are one day. `report` holds what was last written for each
day: the articles (kept or excluded; both count as collected) and the sources that
failed. A run computes its chain of unbroken windows and their articles once
(`Begin`, `archived_before`), reads one feed at a time, and writes last, by when
another run may have replaced a report of its chain or a file may be lost. An entry
may be dated in the past or in the future, and feeds drop entries. A run that
repeats a slot reads the feeds again and replaces the report. `Check` counts streaks
over the newest readable reports; a report that cannot be read is left out, so that
its neighbours count as adjacent. It mails when a streak is of two reports or a
greater power of two; `OutageMailed` says that of the outage itself, over all the
reports and not only those the check reads. `seen` (what the feeds carried) and `overdue` (a
day written when the next slot had closed) are history: a late writer of a day may
run beside the next day's, and the two then know nothing of each other, so nothing
is promised past that day.

### FeedExport

`table` and `feed` are D1's `feed_indicators` and `feed_state`. The hourly run reads
the newest refresh with `ok = 1` (`Check`), ends if it is recent, asks the analyser
(`Collect`: each source answers with a list, or fails) and pushes one batch
(`Push`, external: D1 applies all of it; `PushFails` is a `wrangler` that reports an
error with the batch run or not). A row is a value, the hour it was seen, whether that
is its `last_seen` or, for want of one, its `first_seen` (`by`), and what else it says
of the value (`says`). `Kept` is the filter of the rows and the newest
sighting of a value, one of them where several are as new; `ThreatBatch`,
`FeodoBatch`, `EtBatch` are the statements of `render_sql`, and `wrote` is the rows
they wrote, which D1 bills. ThreatFox's upsert rewrites a row only if its guard
(`Differs`) sees a difference, and the guard does not compare `first_seen`: a row
without a `last_seen` that is listed again with another `first_seen`, and nothing else
changed, keeps its date and expires by it. `TablesHoldTheLastAnswers` says so
(`KeptItsDate`): such a row is in the table with the date it had, or gone because that
date is past the retention. The stall is
measured where the script measures it, on what `Check` read. `good`, `met` and `pushed`
are history: the last answer of each source that D1 has applied, and the rows that
ThreatFox's found in the table. A run fits in its
hour, since the unit that starts it does not overlap itself.

### EnrichCache

A run is `BeginRun`, one request for KEV, one per batch for EPSS, then the NVD loop,
one CVE a step; `Kill` leaves the disk and nothing else. `seconds` counts the time
within a run: a wait of the rate limiter or a request of up to `MaxDelay`. `held` is
what was cached and its day. What the three services publish on each day is
`Worlds`, external. The record of a CVE keeps whether KEV lists it, NVD's answer
(unknown, unscored, one of two scores) and whether EPSS rates it; dates, vectors
and texts are left out, since no decision depends on them. The counters of
`EnrichmentReport` are kept in full. Two runs on one cache and a disk that cannot
be written are not modelled.

### Sorted, Indicator, Evidence, Board, Bundle, Pipeline

A host is its labels from the top, so that "at or beneath" is a prefix; a value is a
host, a URL or a name. A body is its lines: a heading of some kind or text, with the
stretches its patterns matched. Regular expressions are thus modelled by what they
matched and what stood before it, in the order the code tries them; how overlaps are
settled, which section a line is in, and what a heading closes is the code's.

- `Sorted`: a sorted listing is a function of the rank, and a comprehension the
  elements at some places, in order. Both are said without recursion, so that what
  they list can be proved.
- `Indicator`: the longest rule of the Public Suffix List that decides, exceptions
  included, and the parents of a host down to the registrable domain.
- `Evidence`: `_line_matches`, the zones, what is confirmed, for review or rejected,
  and the deduplication by value.
- `Board`: what makes a value benign to block (resolver, vendor, shared host, the
  article's other hosts), the actions of an article, the order of the board, the
  clusters, and what is new since the day before.
- `Bundle`: one row per value with the last day's decision, exclusions, CVE data, and
  the validator's matching and its order of answers. The checksum is modelled as the
  contents it covers: a part that was lost no longer agrees.
- `Pipeline`: `Collect` makes a day's report from any set of at most `DayLimit`
  articles, `MissDay` skips one, `Reanalyze` analyses a stored day again from what
  was stored, `WriteBundle` hands over the archive of the moment, `Damage` loses part
  of a bundle, `Validate` is the consumer's answer to every row of
  `Sample`: it writes no state and is no step.

Reason texts, counters, the priority line, HTML, the CSV and the undefanging of what
a consumer types are left out.

### Lookup

`Stored` is what `export_d1.py` makes of the archive: the confirmed rows with their
day's decision and registrable domain, the exclusions, the CVE records. `Plans` is
what the Worker makes of the submitted values (guard, skip rules, type, keys,
parents), `Statements` the chunks of keys it then asks for, group by group in the
order of the code. `Fates` says what may become of these: the corpus lookup fails,
some statements fail, or the budget is spent before one of them and so before all
later ones. From the rows of the statements that came back (`Returned`) follow the
records, the match, the exclusion, the sample and feed sides, and the answer of each
value (`AnswersFor`); where the code takes the first of several lost reasons or of
several children, the model has all of them. `Artefacts`, `Analysed` and `Listed` are
what samples and feeds hold.

A call is a function of what D1 holds, so the module has operators and two
invariants. `LookupSpeaksTruly` sets every answer beside that of the validator
(`Bundle`'s `Evaluate`) over a bundle of the same days. It says what the code does, and
four things are left out of it, each by name:

- a host called a URL, which `urlHost` cuts short (`CutShort`);
- what the validator finds under a host by a URL alone (`UrlChild`): the service may
  call it unseen;
- a URL that samples hold with a slash at its end (`PassedOver`): the service asks for
  that form, passes the answer over and may call the URL unseen;
- a hit or an exclusion whose sample or feed statement was lost: it stands, and the
  answer does not say what that side has.

`UnseenIsHeldNowhere` is what the contract says of `unseen` and samples, slash and all;
the code violates it (`lookup_twin`). Only the path `/` is told from its form without
a slash; a longer path stands for both its forms. A value of a type that
only samples have is not asked about in the news; when another value of the call
brings its record in all the same, the property only says that the record is its own.

### Assumptions of the pipeline

Each is named in the module that declares the constants, and holds by the code that
makes the values:

| Assumption | Says | Because |
|---|---|---|
| `RulesAssumption` | rules are label sequences; none is both normal and an exception | the list's format; an exception is written with `!` |
| `BoardAssumption` | CVEs are names; `None` is no entry, basis or value | it stands for Python's `None` |
| `DayAssumption`, `AbsenceAssumption` | finitely many days, at least one; `None` is no type, method or row type | dates of one archive; as above |
| `FormsAssumption` | addresses do not extend one another, and no hash is empty or a CVE | the patterns of `validate.py` |
| `ArticlesAssumption` | an article is of a registered source; one address is one page | `SOURCES` of `sources.py`; deduplication by address |
| `BlankAssumption`, `SpansAssumption` | a blank line matches nothing, a match has the form of its pattern | the regular expressions of `evidence.py` |
| `AddressesAssumption` | an address is beneath no name | no name ends in a number |
| `SampleAssumption`, `CallsAssumption` | rows have a form; chunks hold at least one key | undefanging; `runChunked` |
| `CatalogueAssumption` | a CVE record has its fields | `enrich.py` |

## What the runs show

| Run | Bounds | Result |
|---|---|---|
| `daily_files` | the report pair: two writers, two failing calls each, any interrupt or kill; or the cache: three CVEs, three runs over three days, two requests in 3 seconds, a budget of 4, requests of up to 3, one failure | `CopiesAreSpare`, `NoFileLost`; a lone writer that fails leaves the old pair (`OldPairOrNewPair`); counters, pace, ages, and KEV and EPSS behind the cut |
| `delivery` | a `deliver` and a `send-report`, two collections, three attempts each | a mail is one pair, one per Report ID, `sent` means mailed, runs end |
| `delivery_retry` | a second run of the slot | **violated**: with another set of failing sources the Report ID differs and the slot is mailed twice |
| `corpus` | host and CI, two slots, three runs, a full and a decayed collection | the host's quiet runs stored their day, missed days were mailed, unforced pushes keep a day but for the guard's race |
| `corpus_version` | host and CI, lookups that overlap no push | **violated**: CI's push changes the rows and not the version |
| `token_quota` | two calls, one token and the bootstrap caller, three days of two minutes, limits 1 and 0 | neither quota is exceeded, both implement `Slots` (`QuotasAreKept`); rows and mail are truthful |
| `archive` | two overlapping runs, four in all, three slots, one source and entry, one lost file, lookback two | collected once, none overlooked, outages mailed about on their second report |
| `sample_export` | two runs, pages of two, cap three, four jobs, one failure | the watermark passes no job by; every job is exported; both but for jobs below a cut and jobs that could not be read |
| `feed_export` | three sources, one value each and two for the list with a cap of one, two things a row may say, five hours, refresh after 2, stall and retention 3, one failing call of D1 | tables, expiry, the next refresh and the writes of each batch, whatever fails |
| `feed_stall` | the same without failing calls | **violated**: when all sources fail at once, no stall is ever mailed |
| `pipeline` | eight articles of two publishers, three on the first day and one on the second, 44 rows; six calls of up to five values, a batch of four, chunks of five keys, one failing statement or a spent budget | nothing shared is blocked, ranking and clusters, reanalysis, the order of answers, the service and the validator agree whatever is lost |
| `lookup_twin` | the same | **violated**: a URL that a sample holds with a slash at its end is told unseen |

The bounds are the smallest at which the cases differ. Two writers are enough to
have a backup, a replacement and a clean-up of different owners in every order.
Two slots have a yesterday that may be missing. Two midnights let a call straddle
one and its row reach the retention limit of a day. Four jobs with pages of two
shift one job to a later page and leave one below the cap. Three slots hold a gap
between two reports and a chain of two; articles and sources do not affect one
another, so one of each is enough. Five hours hold a refresh, a failed one, the wait for the
next, and an expiry between two. Three CVEs are one more than an EPSS batch and than
the NVD window allows, so that a run waits, is cut, and leaves a CVE behind the cut.
The eight articles are chosen for their values: a URL and its host, a short name and
one under it, a registry and its tenant, a vendor, resolvers, the publisher itself, a
private address, a name under an exception of the suffix list, and CVEs that link
three articles through one; two days give a value two decisions. Chunks of five
keys split the larger groups of a call, once between a value's nearer and farther
feed keys; the fifth value of a call is one past the batch. Every kind of answer
occurs, and each statement of each call is lost in some fate. Deadlock is not checked
where every bound may be used up; each such configuration says so.

### Fairness

`Delivery` assumes that a started run goes on (weak fairness of its steps, not of
failures or kills): it is a sequential program whose calls have timeouts.
`SampleExport` assumes the same of a run and that the timer starts another one; its
failures are bounded, since an export that fails for ever exports nothing. No
fairness is assumed of operators, clients or the analyser. The other modules state
no liveness: their runs end by their bounds, and `RefreshInTime` says of the feed
export, as an invariant, what has to have happened by the end of an hour.

## What is proved

For every value of the constants (any writers, tokens, calls, sites, collections,
page sizes, caps, bounds), from the named assumptions in the modules:

- `DeliveryProofs`, of `ReportPair`: `TypeCorrect`, `SpareCopies`, `NothingLost`,
  `OldOrNew`. The invariant relates each writer's lists to the files: what it may
  still delete is a copy of a version that is also elsewhere, or of a target it has
  itself replaced. For `OldOrNew` it says of a writer nobody overlapped, phase by
  phase, which destinations hold its report and where the versions before lie:
  forward through the two renames, backward through the rollback.
- `DeliveryProofs`, of `Delivery`: `MailsAreOnePair`, `OneMailOfAReport`,
  `SentIsMailed`, and `DeliveryWritesPairs`: the composition does to the folder only
  what `ReportPair` allows, so that the theorems above hold of it. A run posts only
  what it has read and checked and reads nothing after; each mail lies under the key
  of its own Report ID.
- `TokenQuotaProofs`: `TypeCorrect`, `MinuteLimitHolds`, `DayLimitHolds`,
  `RefusalsAreReported`, `DayRowsAreTruthful`. A slot is at most the counter of its
  bucket while the bucket can still be taken from; the cron deletes only buckets no
  call can hold a stamp of. For the mail: a refusal of a day whose check has read is
  in its row. For the rows: each counter is the cardinality of a set of calls, and
  every action adds to the counter what it adds to the set.
- `QuotasImplementSlots`, there too: the two refinements of `Slots`. The
  quota invariants of the next state give that a new slot is nobody else's and within
  its limit; what remains is that a call with a slot keeps its token, stamp and
  limits, action by action, and that no other part of the system touches a slot.
- `CorpusProofs`: `TypeCorrect`, `DaysExact`, `QuietRuns`, `MissedDays`, `DayKept`.
  While CI has not pushed, stored days are a subset of the state's days, so that
  equal counts mean equal sets. `QuietRuns` is about the host's runs, and about CI's
  whose log says pushed or refused.
- `ArchiveProofs`: `TypeCorrect`, `ArticlesOnce`, `NothingOverlooked`,
  `OutagesAreMailed`. A run under way has a chain without gaps that leaves no
  unbroken day out, and knows every article of its reports but the overdue ones;
  what it took is of its own day, or late and unknown. For the mails: reports are
  written in order and not replaced while no run is overdue and no file is lost, so
  that what a check counted is still the outage, and the outage the end of what it
  counted. Any lookback and any number of runs.
- `SampleExportProofs`: `TypeCorrect`, `NothingPassedBy`. What a run has read is a
  stretch of the feed without holes: pages only shift back, so the next page begins
  at or above the end of the last one.
- `FeedExportProofs`: `TypeCorrect`, `LastAnswersHeld`, `InfrastructureExpires`,
  `RefreshesInTime`, `WritesShow`. Lists and tables hold one row a value, nothing is
  dated ahead of the clock, and a run's batch is the first of its hour; so the stamp
  of `feed_state` tells which answers are of the last refresh, and what an upsert
  writes is what the table did not show: a row that passes the upsert's guard differs
  from the stored one. A young row that the guard stops is the stored row itself, if it
  has a `last_seen`, or else one with another `first_seen`, which `LastAnswersHeld`
  allows for.
- `EnrichCacheProofs`: `NvdIsPaced`, `CvesAreAccountedFor`, `AgesAreTold`,
  `CataloguesReachEveryCve`. The limiter's list is the end of the run's requests, and
  what it dropped is out of the window for good; after its one wait, of at most a
  window, fewer requests than the allowance are left in it. What is on disk was
  published on the day it was stored. The counters are cardinalities of the CVEs the
  loop has handled, which grow by one a turn; a record is past its age only if that
  turn was counted as stale, since a fresh one and an answer are within it. EPSS
  answers the CVEs left, none of which has a score yet.
- `PipelineProofs`: `SharedIsNeverBlocked`, `RankingIsKept`,
  `ReanalysisTellsTheSame`, `BundleIsPacked`, `AnswersAreInOrder`,
  `LookupsSpeakTruly`, for any articles, suffix rules, catalogues, days, rows and
  calls; see the next section.

### The argument for the pipeline

The inductive invariant is that every archived report is well made (`WellMade`): it is
what an analysis makes of the articles it stores; besides, no day that has not come
has one. Nothing more is needed of the state, and all else is about operators.

- *Lists.* The provers cannot be given an induction theorem over data, so that an
  induction goes through a least counterexample instead: a set of numbers that is not
  empty has a least member. In this way a sorted listing holds each member once and in
  order, a flattened sequence is its parts at their offsets, and the folds of the
  community modules are replaced by running totals that are proved to exist.
- *Blocking.* A finding comes from one line of a body, whose section is that of the
  last heading; an action takes its value from a confirmed finding, and a block has no
  reason to be benign. What is confirmed, with no reason, is nothing that many share.
- *Ranking.* A board differs from what its articles ask for by a bijection of places
  that moves patches only. A bijection leaves as many of a kind as there were, so that
  each action is there once if it was asked for once.
- *Clusters.* The two loops join articles of one CVE. While they run, the parents form
  a forest with a rank that grows along every link; what was compared so far is
  linked, and nothing but what sharing links. A tree at the end is thus closed under
  sharing, and no part of it is.
- *Second analysis.* Two well made reports of the same articles say the same, what
  catalogues say of CVEs aside.
- *Bundle.* What a consumer holds was packed from an archive of past days that still
  have their articles (`AsItWas`): a day may be analysed again meanwhile, and damage
  that the validator does not refuse takes exclusions only.
- *Validator.* Its match and exclusion are put as one case each, and every case gives
  the clause of the order that its answer must satisfy. The decision on a value is
  that of its last day, since one exists and no later one names it.
- *Service.* Every key that a value needs is in a statement of its group. A value that
  lost no statement is therefore answered from all the rows there are for its keys;
  records and exclusions built from those rows are the bundle's; so the service's match
  agrees with the validator's, case by case, except that D1 knows no URL beneath a
  domain. One that lost a statement of the news is an error. Sample and feed answers
  are the nearest key that is known, the samples' slash form aside (`LookedAt`).
  `LookupsSpeakTruly` carries the four exceptions of `LookupSpeaksTruly`.

### Invariants, and what the proofs corrected

The inductive invariants of the other modules are needed because none of the
properties speaks of the steps under way. TLC checked each of them on a run before it
was proved.

A proof also corrected a property. `archive` used to check that a source is mailed
about whenever its streak, over the reports the check reads, is 2, 4, 8 or 16. That
held within the run's four days and is false beyond them: once an outage is longer
than `HealthLookback`, the check counts the lookback's length whatever the outage's.
`OutageMailed` counts the outage itself, and says how far the lookback reaches.

Proofs corrected two more, and with them the model. `FollowsTheOrder` was too strong
for a URL that a row calls another type, and for a URL on an internal host; the run
had no such rows, and now has. `LookupSpeaksTruly` held of the run's calls and not of
every call: the exclusion of a URL has two stored forms and may be told with either, a
hash is only looked up for what is called one, and a value of a sample's type may be
answered by a record that another value of the call brought in. The model of the
service now has these cases, and a sixth call meets the last two.

Model-checked only:

- Liveness (`RunEnds`, `EventuallyExported`), which needs `ENABLED` under fairness.
- The four violated properties: each is a counterexample, not a theorem.

## Divergences found

- `RetriesMailOnce`: `README.md:225` promises that a retry of a slot does not mail
  twice; the Report ID covers failing sources (`report.py:341`).
- `SameVersionSameAnswer`: the contract promises one answer per version; the
  workflow pushes without `--corpus-state-from` (`daily-deliver.yml:195`).
- `StallsAreMailed`: `run-feeds.sh:7-9` promises an alert once no source has
  refreshed for `STALL_HOURS`. A refresh in which every source failed still pushes
  its batch, and the `INSERT OR REPLACE` of `feed_state` (`feed_export.py:429`) then
  leaves no row with `ok = 1`, so that every later run has no latest refresh to
  measure the stall on.
- `UnseenIsHeldNowhere`: the sample side asks for a URL's form with a slash at its end
  (`enrich.ts:675`) and reads only the form without one (`enrich.ts:920`), so that a
  sample's `https://h/` is reported unseen. `enrich-observables-contract.md:222` says
  the match is "exact (plus a URL's trailing-slash twin)", and line 283 that `unseen`
  "means no side holds the value".

Read in the code and not run, each for want of a text that promises otherwise, of
texts that agree, or of a model that keeps the detail:

- `feed_export.py:32-33` has a ThreatFox value expire "RETENTION_DAYS after ThreatFox
  last saw them (`last_seen`, or `first_seen` when it never re-saw them)". The upsert's
  guard (`feed_export.py:443-447`) does not compare `first_seen`: a value without a
  `last_seen`, listed again with a newer `first_seen`, keeps the date it had, expires
  by it, and is absent until the next refresh inserts it anew.
- The push and delivery steps of `daily-deliver.yml` (lines 125, 150-188, 195-202) warn
  and stay green when the push is refused, skipped or fails; a day can be missing with
  no alert of that run.
- The guard of a push and its replacement of the day are two steps
  (`run-daily.sh:154`): a fuller day that the other site stores between them is lost.

- `sample_export.py:304` leaves a job out whose indicators cannot be read once, and the
  watermark passes it. `sample_export.py:204` walks newest first, so that jobs below the cap of one run
  are not taken up by the next one, as `run-samples.sh:13-15` has it.
- `source_health.py:46` reads 21 reports, so that the doubling to 32 failing days
  (lines 16-19) is not mailed.
- `site_export.py:83-94` pages by `LIMIT` and `OFFSET` over tables that other runs
  replace rows of meanwhile.
- A record served from the cache is stamped with today as `retrieved_at`
  (`enrich.py:565`), so that it does not say how old its answer is; the report counts
  it as stale.
- A failed NVD lookup serves nothing (`enrich.py:443-448`), where a spent budget
  serves a stale record (`enrich.py:433`).
- Only bare addresses are examined (`evidence.py:415`): a URL on a private or a
  resolver's address is confirmed and blocked, and the validator skips it.
- Rows of Feodo and Emerging Threats never expire, though `run-feeds.sh:34-36`
  speaks of each source's rows expiring.
- A hunt for a filename is always marked new, since the previous day's set holds no
  filenames; an exclusion is keyed by the value whatever its type; a URL with a path
  never matches as the child of a domain.
- `urlHost` (`enrich.ts:142`) cuts two characters off a text without `://`, so that
  `evil.com` sent as a `url` is looked up as `il.com`; the validator refuses such a
  row (`unparseable_host`).
- The sample side also answers a URL from its host, where
  `enrich-observables-contract.md:222` says matching is exact.
- `enrich-observables-contract.md:316-318` makes a value an error if any statement it
  needed did not complete, and says that the service "never answers from a partial set
  of lookups"; a hit or an exclusion stands where its sample or feed
  statement was lost, and the call can be `complete`. `enrich.test.ts:850` asserts the
  code's side ("it is a different claim"), and so does `LookupSpeaksTruly`: the two
  texts of the repository disagree, and the model follows the code. By line 106 of it every value is
  in one of five lists; one that only samples or feeds have is in none of them.
- `export_d1.py:78` stores no registrable domain of a URL, "as in the offline
  validator"; that one groups URLs as well (`validate.py:341`), so that a URL without
  a path can be a child there and not in the service.
- A URL that one article excludes with a slash at its end and another without one has
  two exclusions: the validator tells the last of them in the bundle
  (`validate.py:335`), the service that of the form without the slash.
- `enrich-observables-contract.md:228` has a value of a sample's type answered by the
  sample side alone; where another value of the call asks for the same key in the
  news, the record or exclusion that this fetches answers it as well.
- The statements of a call are no transaction: a day replaced between two of them can
  leave a value unseen that D1 held all the while.

## Not modelled

HTML and RSS extraction (`parser.py`), rendering, the site file and the local query
tools are conversions without state. Of the Worker's lookup, undefanging, the guard's
limits on length, labels and credentials, the counts and status of an answer and the
older lookup tool (`lookup.ts`) are left out, and no push happens between the
statements of a call (`Corpus` has the reads of a lookup against pushes). Resend, D1's batches, `wrangler`, the
analyser and the CVE services are modelled as their callers use them.
`missed_sources`, what an unreadable evidence file does to the bundle,
`first_field.py`'s parsing, and the DNS wait are left out of `Corpus`. The sample
freshness check compares one stored time with the clock. Token issue (a count, then
an insert) is a hazard without a model so far.

## Plan

Done: the report pair, delivery, the push, quotas and their refinement, the archive,
both exports of the analyser's data, the CVE cache, and the two ways from an article
to a consumer's answer; every safety property that a passing run checks is proved.
Left:

1. An abstract day store that `Corpus` implements.
2. `TokenIssue`: the label check of `token-admin.mjs`, with `TokenQuota`'s revoke.
3. `missed_sources` in `Archive`.
4. A lookup's statements between pushes, in `Corpus`.
