-------------------------- MODULE AcceptanceReview --------------------------
(* The acceptance of one report (internal/agenttask/evaluator.go,             *)
(* grounding.go, grounding_parts.go, graph_reviews.go, graph_grounding.go):   *)
(* the evidence gates, the claim audit and the reviewer, over the iterations  *)
(* that produce reports and the retries that review one again.  Executor      *)
(* version 1 audits first and then asks the reviewer; version 2 runs both at  *)
(* once, cancels the audit on a rejection, and keeps audited parts for a      *)
(* retry of the same report.                                                  *)
EXTENDS Naturals, FiniteSets

CONSTANTS
    ReviewUrls, UrlBucket,   \* pages, and page -> the source it counts for
    ReviewTasks,    \* [version, required, diverse]: what the criteria and the contract ask
    AuditTallies,   \* what an audit of a part may find: [grounded, partial, hard, soft, recheck]
    ReportParts,    \* parts of a report audited apart by version 2
    MaxReports,     \* reports written
    MaxReviewFaults \* unreadable records, failed and malformed answers

ASSUME ReviewConstants ==
    /\ IsFiniteSet(ReviewUrls) /\ DOMAIN UrlBucket = ReviewUrls /\ ReportParts \in Nat \ {0}
    /\ MaxReports \in Nat /\ MaxReviewFaults \in Nat
    /\ \A t \in ReviewTasks : t.version \in {1, 2} /\ t.required \in Nat /\ t.diverse \in BOOLEAN

VARIABLES
    rvTask,
    rvPhase,     \* "work", "gates", "review", "accepted", "ended"
    rvFetched,   \* pages fetched by the task
    rvNow,       \* pages fetched in this iteration
    rvRecheck,   \* pages the next report must have fetched again
    rvReport,    \* its number and the pages it cites
    rvAnswer,    \* the reviewer's answer
    rvAudit,     \* part -> still to do, lost, or the tally found
    rvSource,    \* part -> the report it was audited in, 0 for none
    rvPrior,     \* parts whose audit is kept for a retry, and of which report
    rvFaults

reviewVars == <<rvTask, rvPhase, rvFetched, rvNow, rvRecheck, rvReport, rvAnswer, rvAudit, rvSource,
                rvPrior, rvFaults>>

Version2 == rvTask.version = 2
AuditParts == IF Version2 THEN 1 .. ReportParts ELSE {1}
ReviewFault == rvFaults < MaxReviewFaults /\ rvFaults' = rvFaults + 1
Todo == [state |-> "todo"]
LostAudit == [state |-> "lost"]
Found(t) == [state |-> "found", tally |-> t]
NoAudit == [p \in 1 .. ReportParts |-> Todo]
NoSource == [p \in 1 .. ReportParts |-> 0]
NoPrior == [report |-> 0, parts |-> {}]

-----------------------------------------------------------------------------
(* An iteration                                                               *)

FetchPage(u) ==
    /\ rvPhase = "work" /\ u \notin rvNow /\ (Version2 => rvReport.n = 0)
    /\ rvFetched' = rvFetched \cup {u} /\ rvNow' = rvNow \cup {u}
    /\ UNCHANGED <<rvTask, rvPhase, rvRecheck, rvReport, rvAnswer, rvAudit, rvSource, rvPrior, rvFaults>>

\* An iteration that ends without a report clears the recheck list.
UpdateProgress ==
    /\ rvPhase = "work" /\ ~ Version2 /\ (rvNow # {} \/ rvRecheck # {})
    /\ rvNow' = {} /\ rvRecheck' = {}
    /\ UNCHANGED <<rvTask, rvPhase, rvFetched, rvReport, rvAnswer, rvAudit, rvSource, rvPrior, rvFaults>>

SubmitReport(cited) ==
    /\ rvPhase = "work" /\ rvReport.n < MaxReports
    /\ rvReport' = [n |-> rvReport.n + 1, cited |-> cited] /\ rvPhase' = "gates"
    /\ UNCHANGED <<rvTask, rvFetched, rvNow, rvRecheck, rvAnswer, rvAudit, rvSource, rvPrior, rvFaults>>

GiveUpReporting ==
    /\ rvPhase = "work" /\ rvReport.n = MaxReports /\ rvPhase' = "ended"
    /\ UNCHANGED <<rvTask, rvFetched, rvNow, rvRecheck, rvReport, rvAnswer, rvAudit, rvSource, rvPrior,
                   rvFaults>>

-----------------------------------------------------------------------------
(* The gates before any model is asked                                        *)

\* Gate B': every page of the list was fetched again in this iteration.
RecheckMissing == rvRecheck \ rvNow

\* Pages cited and none ever fetched.
NothingRead(cited) == cited # {} /\ rvFetched = {}

\* The criteria name a count, and too few of the cited pages were fetched.
TooFewRead(cited) == rvTask.required > 0 /\ Cardinality(cited \cap rvFetched) < rvTask.required

MostlyInventedNever(cited) == FALSE         \* mutant: one page read excuses the rest

\* Fewer than half of the cited pages were fetched.
MostlyInvented(cited) ==
    /\ Cardinality(cited) >= 2 /\ rvFetched # {}
    /\ Cardinality(cited \cap rvFetched) * 2 < Cardinality(cited)

BucketShare(cited, b) == Cardinality({u \in cited : UrlBucket[u] = b})

\* Gate D: at least three sources, none with more than half of the citations.
OneSided(cited) ==
    LET buckets == {UrlBucket[u] : u \in cited} IN
    /\ Cardinality(cited) >= 4 /\ rvTask.diverse
    /\ \/ Cardinality(buckets) < 3
       \/ \E b \in buckets : BucketShare(cited, b) * 2 > Cardinality(cited)

GateRejects(cited) ==
    \/ RecheckMissing # {} \/ NothingRead(cited) \/ TooFewRead(cited)
    \/ MostlyInvented(cited) \/ OneSided(cited)

-----------------------------------------------------------------------------
(* Verdicts                                                                   *)

\* A report that is rejected goes back to work, with the pages to fetch again
\* if the audit named any; version 2 rewrites it from the evidence it has.
RejectSubmission(recheck) ==
    /\ rvPhase' = "work" /\ rvNow' = {}
    /\ rvRecheck' = (IF Version2 THEN {} ELSE recheck)
    /\ rvAnswer' = "none" /\ rvAudit' = NoAudit /\ rvSource' = NoSource /\ rvPrior' = NoPrior
    /\ UNCHANGED <<rvTask, rvFetched, rvReport, rvFaults>>

\* The same report is reviewed again later; what was audited of it is kept.
KeepAudited == [report |-> rvReport.n, parts |-> {p \in AuditParts : rvAudit[p].state = "found"}]

UnavailableAcceptance ==
    /\ rvPhase' = "gates" /\ rvAnswer' = "none"
    /\ rvPrior' = (IF Version2 THEN KeepAudited ELSE NoPrior)
    /\ UNCHANGED <<rvTask, rvFetched, rvNow, rvRecheck, rvReport, rvAudit, rvSource>>

\* A kept audit counts only for the very report, documents and policy it read.
ReusedParts == {p \in AuditParts : p \in rvPrior.parts /\ rvPrior.report = rvReport.n}

EvidenceGates ==
    /\ rvPhase = "gates" /\ ~ GateRejects(rvReport.cited)
    /\ rvPhase' = "review"
    /\ rvAudit' = [p \in 1 .. ReportParts |-> IF p \in ReusedParts THEN rvAudit[p] ELSE Todo]
    /\ rvSource' = [p \in 1 .. ReportParts |-> IF p \in ReusedParts THEN rvSource[p] ELSE 0]
    /\ UNCHANGED <<rvTask, rvFetched, rvNow, rvRecheck, rvReport, rvAnswer, rvPrior, rvFaults>>

GatesReject ==
    /\ rvPhase = "gates" /\ GateRejects(rvReport.cited)
    /\ RejectSubmission({})

\* The fetch record or the documents could not be read: not a verdict.
EvidenceUnreadable ==
    /\ rvPhase = "gates" /\ RecheckMissing = {} /\ ReviewFault
    /\ UNCHANGED <<rvTask, rvPhase, rvFetched, rvNow, rvRecheck, rvReport, rvAnswer, rvAudit, rvSource,
                   rvPrior>>

-----------------------------------------------------------------------------
(* The audit and the reviewer                                                 *)

Total(t) == t.grounded + t.partial + t.hard + t.soft

\* Half credit for a partial claim, seventy percent to pass, and one claim in
\* twenty of a hard category may be ungrounded.
ScoreGrounding(t) ==
    \/ Total(t) = 0
    \/ 10 * t.grounded + 5 * t.partial >= 7 * Total(t) /\ t.hard <= Total(t) \div 20

StrictByAverage(t) == Total(t) > 0 /\ ScoreGrounding(t)     \* mutant: version 2 scored as version 1

\* Version 2: no average excuses an unsupported assertion.
StrictGrounding(t) == Total(t) > 0 /\ t.partial = 0 /\ t.hard = 0

GroundingMet(t) == IF Version2 THEN StrictGrounding(t) ELSE ScoreGrounding(t)

Audited == rvFetched # {}                       \* there are documents to audit against
AuditRuns == \E p \in AuditParts : rvAudit[p].state = "todo"
AuditLost == \E p \in AuditParts : rvAudit[p].state = "lost"
AuditMet == \A p \in AuditParts : rvAudit[p].state = "found" /\ GroundingMet(rvAudit[p].tally)
AuditRecheck == UNION {rvAudit[p].tally.recheck : p \in {q \in AuditParts : rvAudit[q].state = "found"}}

\* A worker audits one part, unless a rejection has cancelled the audit.  An
\* audit without claims is no audit in version 2.
EvaluateGroundingPart(p) ==
    /\ rvPhase = "review" /\ Audited /\ p \in AuditParts /\ rvAudit[p].state = "todo"
    /\ \/ \E t \in AuditTallies :
             /\ rvAnswer \notin {"rejected", "error"}
             /\ rvAudit' = [rvAudit EXCEPT ![p] = IF Version2 /\ Total(t) = 0 THEN LostAudit ELSE Found(t)]
             /\ rvSource' = [rvSource EXCEPT ![p] = rvReport.n] /\ UNCHANGED rvFaults
       \/ /\ ReviewFault \/ (rvAnswer \in {"rejected", "error"} /\ UNCHANGED rvFaults)
          /\ rvAudit' = [rvAudit EXCEPT ![p] = LostAudit] /\ UNCHANGED rvSource
    /\ UNCHANGED <<rvTask, rvPhase, rvFetched, rvNow, rvRecheck, rvReport, rvAnswer, rvPrior>>

\* Version 1 asks after its audit, version 2 while it runs.
AskReviewer ==
    /\ rvPhase = "review" /\ rvAnswer = "none"
    /\ Version2 \/ ~ Audited \/ (~ AuditRuns /\ ~ AuditLost)
    /\ \/ rvAnswer' \in {"met", "rejected"} /\ UNCHANGED rvFaults
       \/ rvAnswer' \in {"error", "malformed"} /\ ReviewFault
    /\ UNCHANGED <<rvTask, rvPhase, rvFetched, rvNow, rvRecheck, rvReport, rvAudit, rvSource, rvPrior>>

Settled == Audited => ~ AuditRuns
Lost == rvAnswer \in {"error", "malformed"} \/ (Audited /\ AuditLost)

\* Version 1 without an audit: nothing is asked and the report waits.
AuditUnavailable ==
    /\ rvPhase = "review" /\ ~ Version2 /\ rvAnswer = "none" /\ Audited /\ ~ AuditRuns /\ AuditLost
    /\ UnavailableAcceptance /\ UNCHANGED rvFaults

\* A complete rejection stands whatever became of the audit.
ReviewRejects ==
    /\ rvPhase = "review" /\ Settled /\ rvAnswer = "rejected"
    /\ RejectSubmission(IF Audited /\ ~ AuditLost THEN AuditRecheck ELSE {})

ReviewUnavailable ==
    /\ rvPhase = "review" /\ Settled /\ rvAnswer \notin {"none", "rejected"} /\ Lost
    /\ UnavailableAcceptance /\ UNCHANGED rvFaults

\* Both gates must agree: the audit overrides a satisfied reviewer.
GroundingOverrides ==
    /\ rvPhase = "review" /\ Settled /\ rvAnswer = "met" /\ ~ Lost /\ Audited /\ ~ AuditMet
    /\ RejectSubmission(AuditRecheck)

ReportAccepted ==
    /\ rvPhase = "review" /\ Settled /\ rvAnswer = "met" /\ ~ Lost /\ (Audited => AuditMet)
    /\ rvPhase' = "accepted"
    /\ UNCHANGED <<rvTask, rvFetched, rvNow, rvRecheck, rvReport, rvAnswer, rvAudit, rvSource, rvPrior,
                   rvFaults>>

ReviewInit ==
    /\ rvTask \in ReviewTasks /\ rvPhase = "work" /\ rvFetched = {} /\ rvNow = {} /\ rvRecheck = {}
    /\ rvReport = [n |-> 0, cited |-> {}] /\ rvAnswer = "none" /\ rvAudit = NoAudit
    /\ rvSource = NoSource /\ rvPrior = NoPrior /\ rvFaults = 0

ReviewNext ==
    \/ \E u \in ReviewUrls : FetchPage(u)
    \/ UpdateProgress \/ GiveUpReporting
    \/ \E cited \in SUBSET ReviewUrls : SubmitReport(cited)
    \/ EvidenceGates \/ GatesReject \/ EvidenceUnreadable
    \/ \E p \in 1 .. ReportParts : EvaluateGroundingPart(p)
    \/ AskReviewer \/ AuditUnavailable \/ ReviewRejects \/ ReviewUnavailable
    \/ GroundingOverrides \/ ReportAccepted

ReviewSpec == ReviewInit /\ [][ReviewNext]_reviewVars

-----------------------------------------------------------------------------
(* Properties                                                                 *)

\* An accepted report was audited, part by part, as it stands: a repaired report
\* never passes on the audit of the one it replaced, whatever was retried.
AcceptedWasAudited ==
    rvPhase = "accepted" /\ Audited => \A p \in AuditParts : rvSource[p] = rvReport.n

\* No average accepts a version 2 report with a claim known to be unsupported.
AcceptedIsSupported ==
    rvPhase = "accepted" /\ Audited /\ Version2 => \A p \in AuditParts : rvAudit[p].tally.hard + rvAudit[p].tally.partial = 0

\* A report that cites pages is accepted only if pages were read, and, with
\* more than one citation, at least half of those it cites.
AcceptedWasRead ==
    rvPhase = "accepted" /\ rvReport.cited # {} =>
        /\ rvFetched # {}
        /\ Cardinality(rvReport.cited) >= 2 =>
             2 * Cardinality(rvReport.cited \cap rvFetched) >= Cardinality(rvReport.cited)

\* What acceptance means.
ReviewSound == AcceptedWasAudited /\ AcceptedIsSupported /\ AcceptedWasRead
=============================================================================
