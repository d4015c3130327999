------------------------------- MODULE MCParts -------------------------------
(* Small instances of six parts that have nothing to do with each other,     *)
(* checked in one run: each behaviour is one part's, the others stand still. *)
EXTENDS ReportStore, RateLimit, Pages, SpfWalk, Assessment, TLC

CONSTANTS root, sub, rep

VARIABLES part, lateRow, lateRun, lateSpare

-----------------------------------------------------------------------------
(* The report store: a root and a subdomain; a report published for the      *)
(* subdomain with records of both; one kind of mail that always counts and   *)
(* one without DMARC that names no reporter.                                 *)
MCLineage == [n \in {root, sub} |-> IF n = root THEN <<root>> ELSE <<sub, root>>]
MCPublished == [k \in {rep} |-> sub]
MCFroms == [k \in {rep} |-> {root, sub}]
MCFacts == {[origin |-> "external", dmarc |-> "pass", matches |-> "yes"],
            [origin |-> "external", dmarc |-> "other", matches |-> "null"]}

\* The polls do the same: states that differ in who did what are one.
Alike == Permutations(Ingester)

(* The queue with settings that nothing enforces: rows are reclaimed at once, *)
(* so that a consumer may still handle a row that another one was given and   *)
(* has settled meanwhile.                                                     *)
Late == INSTANCE JobQueue WITH
  Job <- {"j1", "j2"}, Key <- {"k"}, NoKey <- "no key", Worker <- {"w1", "w2"}, Slot <- {"s"}, NoWorker <- "no worker",
  MaxAttempts <- 2, AttemptCap <- 3, BackoffBase <- 1, BackoffMax <- 1, Stale <- 0, Keep <- 0, MaxRun <- 1, Losses <- 0,
  row <- lateRow, run <- lateRun, spare <- lateSpare
lateVars == <<lateRow, lateRun, lateSpare>>

MCHosts == {"r", "x", "y"}
MCTargets == {<<>>} \cup {<<h>> : h \in MCHosts}
MCSpfRecords ==
  {[copies |-> 1, direct |-> 0, includes |-> i, redirect |-> t] : i \in MCTargets, t \in MCTargets}
  \cup {[copies |-> 1, direct |-> 0, includes |-> <<g, h>>, redirect |-> <<>>] : g \in MCHosts, h \in MCHosts}
  \cup {[copies |-> 2, direct |-> 2, includes |-> i, redirect |-> <<>>] : i \in MCTargets}

MCWeight == [dmarc |-> 25, spf |-> 10, dmarc_pass_rate |-> 20]
MCFindingSets ==
  {{"pending"}, {"pass"}, {"error"}, {"warn", "error"}, {"pass", "error"}, {"fail", "pending"}, {"warn", "pass"}}
MCCounts == {<<4, 4>>, <<4, 1>>, <<5, 0>>}

-----------------------------------------------------------------------------
StoreStill == Init /\ stored = NoRows
LimiterStill == LimiterInit /\ backend = "memory"
PagesStill == PagesInit /\ descending /\ \A x \in Ids : key[x] = 0
AssessmentStill == AssessmentInit /\ profile = "sends_mail" /\ ~unreviewed /\ published[1] = {"none"}

PartsInit ==
  /\ part \in {"store", "queue", "limiter", "pages", "spf", "assessment"}
  /\ IF part = "store" THEN Init ELSE StoreStill
  /\ Late!Init
  /\ IF part = "limiter" THEN LimiterInit ELSE LimiterStill
  /\ IF part = "pages" THEN PagesInit ELSE PagesStill
  /\ SpfInit
  /\ IF part = "assessment" THEN AssessmentInit ELSE AssessmentStill

PartsNext ==
  \/ part = "store" /\ Next /\ UNCHANGED <<part, lateVars, limiterVars, pagesVars, spf, assessmentVars>>
  \/ part = "queue" /\ Late!Next /\ UNCHANGED <<part, vars, limiterVars, pagesVars, spf, assessmentVars>>
  \/ part = "limiter" /\ LimiterNext /\ UNCHANGED <<part, vars, lateVars, pagesVars, spf, assessmentVars>>
  \/ part = "pages" /\ PagesNext /\ UNCHANGED <<part, vars, lateVars, limiterVars, spf, assessmentVars>>
  \/ part = "spf" /\ SpfNext /\ UNCHANGED <<part, vars, lateVars, limiterVars, pagesVars, assessmentVars>>
  \/ part = "assessment" /\ AssessmentNext /\ UNCHANGED <<part, vars, lateVars, limiterVars, pagesVars, spf>>

PartsSpec == PartsInit /\ [][PartsNext]_<<part, vars, lateVars, limiterVars, pagesVars, spf, assessmentVars>>

\* No two active rows share a dedupe key (migration 0023), although here a late
\* handler may put its row back when the key has been given to a newer one.
OneActivePerKey == Late!OneActivePerKey
=============================================================================
