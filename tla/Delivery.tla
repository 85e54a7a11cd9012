------------------------------ MODULE Delivery ------------------------------
(***************************************************************************)
(* Runs of `deliver` and of `send-report` over one day's folder.  A        *)
(* `deliver` run writes the pair (ReportPair), then iocs.csv, then reads   *)
(* the pair back from disk and mails it; a `send-report` run only reads    *)
(* and mails.  The two files are read one after the other, and another     *)
(* run may be writing them.                                                *)
(*                                                                         *)
(* Resend is external: it remembers the Idempotency-Key of every mail it   *)
(* accepted, answers a key it has seen without mailing again, and its      *)
(* reply or the request may be lost.                                       *)
(***************************************************************************)
EXTENDS ReportPair, FiniteSets, SequencesExt

CONSTANT Resender   \* runs of `send-report`

Run == Writer \cup Resender

ASSUME DeliveryAssumption ==
    /\ Writer \cap Resender = {}
    /\ \A r \in Report : {"articles", "failures", "stats"} = DOMAIN r

VARIABLES
    csv,     \* iocs.csv
    task,    \* what each run does outside `_write_report_pair`
    got,     \* the files `_load_report_pair` has read in each run
    tries,   \* POSTs each run has made
    mailbox  \* Resend: the mails it accepted, in order

mailVars == <<task, got, tries, mailbox>>
allVars == <<vars, csv, mailVars>>

Attempts == 3

Open == {"csv", "readJson", "readMd", "check", "post"}
Over == {"sent", "dry", "error", "killed"}

(* The identity of a report covers its articles and the errors of the      *)
(* sources that failed, and not source_stats or the retrieval times.       *)
ReportId(r) == <<r.articles, r.failures>>

DeliveryInit ==
    /\ Init
    /\ csv = disk["json"]
    /\ task = [p \in Run |-> "none"]
    /\ got = [p \in Run |-> NoFiles]
    /\ tries = [p \in Run |-> 0]
    /\ mailbox = <<>>

-----------------------------------------------------------------------------

(* `_write_report_pair`, in a `deliver` run.                               *)
WritePair ==
    /\ Next
    /\ UNCHANGED <<csv, mailVars>>

Proceed(p, next) == task' = [task EXCEPT ![p] = next]

StartCsv(w) ==
    /\ at[w] = "done"
    /\ task[w] = "none"
    /\ Proceed(w, "csv")
    /\ UNCHANGED <<vars, csv, got, tries, mailbox>>

(* `_atomic_write`: replaced whole, or an OSError that ends the run.       *)
WriteCsv(w) ==
    /\ task[w] = "csv"
    /\ \/ csv' = report[w] /\ Proceed(w, "readJson")
       \/ UNCHANGED csv /\ Proceed(w, "error")
    /\ UNCHANGED <<vars, got, tries, mailbox>>

StartResend(p) ==
    /\ p \in Resender
    /\ task[p] = "none"
    /\ Proceed(p, "readJson")
    /\ UNCHANGED <<vars, csv, got, tries, mailbox>>

(* A missing file is a ResendError. *)
ReadFile(p, d, next) ==
    /\ Proceed(p, IF disk[d] = Absent THEN "error" ELSE next)
    /\ got' = [got EXCEPT ![p][d] = disk[d]]
    /\ UNCHANGED <<vars, csv, tries, mailbox>>

ReadJson(p) == task[p] = "readJson" /\ ReadFile(p, "json", "readMd")
ReadMd(p)   == task[p] = "readMd" /\ ReadFile(p, "md", "check")

(* Mutant: only the Report ID is looked for in the Markdown, as for        *)
(* reports without a reader_digest.                                        *)
CheckIdOnly(p) ==
    /\ task[p] = "check"
    /\ \/ /\ ReportId(got[p]["json"]) = ReportId(got[p]["md"])
          /\ Proceed(p, "post") \/ Proceed(p, "dry")
       \/ Proceed(p, "error")
    /\ UNCHANGED <<vars, csv, got, tries, mailbox>>

(* reader_digest is the hash of the Markdown the JSON was written with.    *)
(* A pair that matches may still be too large to send; a dry run ends here.*)
CheckDigest(p) ==
    /\ task[p] = "check"
    /\ \/ got[p]["json"] = got[p]["md"] /\ Proceed(p, "post")
       \/ got[p]["json"] = got[p]["md"] /\ Proceed(p, "dry")
       \/ Proceed(p, "error")
    /\ UNCHANGED <<vars, csv, got, tries, mailbox>>

(* Mutant: every attempt makes a key of its own. *)
KeyPerAttempt(p) == <<ReportId(got[p]["json"]), tries[p]>>

(* Made of the Report ID and of the recipients, the same in every run.     *)
IdempotencyKey(p) == ReportId(got[p]["json"])

(* Resend takes the mail unless it has taken one under the same key.       *)
Accept(p) ==
    LET mail == [key  |-> IdempotencyKey(p),
                 json |-> got[p]["json"], md |-> got[p]["md"]]
    IN  mailbox' = IF \E m \in ToSet(mailbox) : m.key = mail.key
                   THEN mailbox ELSE Append(mailbox, mail)

(* Mutant: after the last attempt the count starts over. *)
RetryForever(p) ==
    /\ tries' = [tries EXCEPT ![p] = (@ + 1) % Attempts]
    /\ Proceed(p, "post")

(* 429, 5xx and a lost exchange are retried, with the same key.            *)
Retry(p) ==
    /\ tries' = [tries EXCEPT ![p] = @ + 1]
    /\ Proceed(p, IF tries'[p] < Attempts THEN "post" ELSE "error")

(* Mutant: a status other than 429 and 5xx counts as accepted. *)
PostAnyAnswer(p) ==
    /\ task[p] = "post"
    /\ Accept(p) \/ UNCHANGED mailbox
    /\ tries' = [tries EXCEPT ![p] = @ + 1]
    /\ Proceed(p, "sent")
    /\ UNCHANGED <<vars, csv, got>>

(* A reply with an id. *)
PostAnswered(p) ==
    /\ task[p] = "post"
    /\ Accept(p)
    /\ tries' = [tries EXCEPT ![p] = @ + 1]
    /\ Proceed(p, "sent")
    /\ UNCHANGED <<vars, csv, got>>

(* HTTPError, 429 or 5xx: the mail may have been accepted all the same.    *)
PostUnanswered(p) ==
    /\ task[p] = "post"
    /\ Accept(p) \/ UNCHANGED mailbox
    /\ Retry(p)
    /\ UNCHANGED <<vars, csv, got>>

(* Any other 4xx; a success without an id is an error too, though mailed.  *)
PostRejected(p) ==
    /\ task[p] = "post"
    /\ Accept(p) \/ UNCHANGED mailbox
    /\ tries' = [tries EXCEPT ![p] = @ + 1]
    /\ Proceed(p, "error")
    /\ UNCHANGED <<vars, csv, got>>

Kill(p) ==
    /\ task[p] \in Open
    /\ Proceed(p, "killed")
    /\ UNCHANGED <<vars, csv, got, tries, mailbox>>

Advance(p) ==
    \/ p \in Writer /\ (StartCsv(p) \/ WriteCsv(p))
    \/ ReadJson(p) \/ ReadMd(p) \/ CheckDigest(p)
    \/ PostAnswered(p) \/ PostUnanswered(p) \/ PostRejected(p)

DeliveryNext ==
    \/ WritePair
    \/ \E p \in Run : StartResend(p) \/ Advance(p) \/ Kill(p)

DeliverySpec == DeliveryInit /\ [][DeliveryNext]_allVars

(* A started process goes on running: its steps are its own, and every     *)
(* POST ends in a reply or in the client's 30 s timeout.                   *)
FairSpec ==
    /\ DeliverySpec
    /\ \A w \in Writer : WF_allVars(Step(w) /\ UNCHANGED <<csv, mailVars>>)
    /\ \A p \in Run : WF_allVars(Advance(p))

-----------------------------------------------------------------------------

(* A mail never mixes two reports, though the files are read one after the *)
(* other while another run replaces them.                                  *)
MailIsOnePair == \A m \in ToSet(mailbox) : m.json = m.md

(* One mail per Report ID, whatever replies are lost and however many runs *)
(* of the same report retry.                                               *)
OneMailPerId ==
    \A i, j \in DOMAIN mailbox :
        ReportId(mailbox[i].json) = ReportId(mailbox[j].json) => i = j

(* A run that reports an email id has a mail, its own or an earlier run's, *)
(* with the Report ID of the pair it read.                                 *)
SentMeansMailed ==
    \A p \in Run :
        task[p] = "sent" =>
            \E m \in ToSet(mailbox) :
                ReportId(m.json) = ReportId(got[p]["json"])

(* Every run under way comes to an end, mailed, failed or killed: the      *)
(* retries are bounded.                                                    *)
RunEnds ==
    /\ \A w \in Writer :
           Running(w) ~> at[w] \in {"failed", "dead"} \/ task[w] \in Over
    /\ \A p \in Run : task[p] \in Open ~> task[p] \in Over

(* README.md: the slot's generated_at is fixed at 06:00, "retries do not   *)
(* send twice".  Two runs of the slot that found the same articles should  *)
(* then send one mail.                                                     *)
RetriesMailOnce ==
    \A i, j \in DOMAIN mailbox :
        mailbox[i].json.articles = mailbox[j].json.articles => i = j
=============================================================================
