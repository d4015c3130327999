------------------------------ MODULE Assessment ------------------------------
(***************************************************************************)
(* What a domain's owner is told about it: the score (services/rating/      *)
(* score.py), whether it is ready for a stricter DMARC policy               *)
(* (domain_rating.py), which policy to publish (policy_recommendation.py)   *)
(* and the trend of its pass rate (trend.py).                               *)
(*                                                                          *)
(* All are computed from the checks' latest findings and from reports,      *)
(* which name a day, the policy published then and counts of messages, and  *)
(* arrive when they like.  Numbers of messages and days are scaled down;    *)
(* percentages are in tenths, as rounded by the code.                       *)
(***************************************************************************)
EXTENDS Integers, FiniteSets, Sequences, FiniteSetsExt

CONSTANTS
  Checked,        \* the types of checks that are scored
  Weight,         \* [Checked \cup {dmarc_pass_rate} -> WEIGHTS]
  FindingSets,    \* bound: what the findings of one type may be
  Counts,         \* bound: <<messages, passed>> of one report
  RatingDays,     \* rating_window_days
  MinVolume,      \* READY_TO_ENFORCE_MIN_VOLUME
  MinPass,        \* READY_TO_ENFORCE_MIN_PASS_PCT, in tenths
  StableDays,     \* POLICY_STABILITY_MIN_DAYS
  RecentDays, BaselineDays, MinDays, MinRecent, MinBaseline, MinExcess, MinChange,
  ExactBelow,     \* EXACT_TEST_BELOW
  MaxDay,
  MaxChanges      \* bounds: days; reports, rechecks and changes of policy by day together

ASSUME AssessmentAssumption ==
  /\ Checked \subseteq DOMAIN Weight /\ {"dmarc", "dmarc_pass_rate"} \subseteq DOMAIN Weight /\ IsFiniteSet(Checked)
  /\ \A c \in DOMAIN Weight : Weight[c] \in Nat \ {0}
  /\ FindingSets \subseteq SUBSET {"pending", "fail", "error", "warn", "pass"}
  /\ \A m \in Counts : m[1] \in Nat \ {0} /\ m[2] \in 0 .. m[1]
  /\ RatingDays \in Nat /\ MinPass \in Nat /\ StableDays \in Nat /\ MaxDay \in Nat \ {0}
  /\ RecentDays \in Nat /\ BaselineDays \in Nat /\ MinDays \in Nat /\ ExactBelow \in Nat
  /\ MinRecent \in Nat \ {0} /\ MinBaseline \in Nat \ {0} /\ MinExcess \in Nat /\ MinChange \in Nat

VARIABLES
  findings,       \* [Checked -> the statuses of the latest findings]
  today,
  published,      \* [days -> the policies the domain published that day]
  reports,        \* the reports received, in that order
  profile,        \* mail_profile: whether the domain sends mail
  unreviewed,     \* whether a sender of some volume is not reviewed yet
  changes

assessmentVars == <<findings, today, published, reports, profile, unreviewed, changes>>

Statuses == {"pending", "fail", "error", "warn", "pass"}
Policies == <<"none", "quarantine", "reject">>
Rank(p) == IF p = "" THEN 1 ELSE CHOOSE i \in 1 .. 3 : Policies[i] = p
Days == 1 .. MaxDay
Total(some) == SumFunctionOnSet([i \in DOMAIN reports |-> reports[i].total], some)
Passing(some) == SumFunctionOnSet([i \in DOMAIN reports |-> reports[i].passed], some)

(* round(100 * part / whole, 1), in tenths; ties are beyond the bounds. *)
Tenths(part, whole) == (2000 * part + whole) \div (2 * whole)

AssessmentTypeOK ==
  /\ findings \in [Checked -> SUBSET Statuses] /\ today \in Days
  /\ published \in [Days -> SUBSET {"none", "quarantine", "reject"}]
  /\ reports \in Seq([day : Days, policy : {"none", "quarantine", "reject"}, total : Nat, passed : Nat])
  /\ \A i \in DOMAIN reports :
       /\ reports[i].day <= today /\ reports[i].policy \in published[reports[i].day]
       /\ reports[i].passed <= reports[i].total /\ reports[i].total > 0
  /\ profile \in {"sends_mail", "receive_only"} /\ unreviewed \in BOOLEAN /\ changes \in Nat

-----------------------------------------------------------------------------
(* The score. *)

\* Mutant: warnings are looked for before errors.
WorstWarning(some) ==
  IF "fail" \in some THEN "fail" ELSE IF "warn" \in some THEN "warn" ELSE IF "error" \in some THEN "error" ELSE "pass"

WorstStatus(some) ==
  IF "fail" \in some THEN "fail" ELSE IF "error" \in some THEN "error" ELSE IF "warn" \in some THEN "warn" ELSE "pass"

StatusScore == [pass |-> 1000, warn |-> 600, error |-> 400, fail |-> 0]
Scored == {c \in Checked : findings[c] \ {"pending"} # {}}

(* The reports of the rating window; senders that are blocked are left out *)
(* where they are counted.                                                  *)
Windowed == {i \in DOMAIN reports : reports[i].day > today - RatingDays}
Volume == Total(Windowed)
PassRate == Tenths(Passing(Windowed), Volume)
RatesTraffic == profile = "sends_mail" /\ Volume > 0

InsufficientData == IF profile = "sends_mail" THEN Volume = 0 ELSE Scored = {}

(* The weighted average, not divided yet: sum of weights * scores, of weights. *)
Score ==
  LET earned == [c \in Scored |-> Weight[c] * StatusScore[WorstStatus(findings[c] \ {"pending"})]]
      checks == [points |-> SumFunctionOnSet(earned, Scored), weight |-> SumFunctionOnSet(Weight, Scored)] IN
  IF RatesTraffic
  THEN [points |-> checks.points + Weight.dmarc_pass_rate * PassRate, weight |-> checks.weight + Weight.dmarc_pass_rate]
  ELSE checks

Grade(score) ==
  LET bands == {b \in {900, 800, 700, 600} : score.points >= b * score.weight} IN
  IF bands = {} THEN 0 ELSE Max(bands)

-----------------------------------------------------------------------------
(* Readiness and the recommendation. *)

(* By the time of receipt, not by the day reported on. *)
LatestPolicy == IF reports = <<>> THEN "" ELSE reports[Len(reports)].policy

NextRung == [none |-> "quarantine", quarantine |-> "reject"]
Ready ==
  /\ LatestPolicy \in DOMAIN NextRung
  /\ RatesTraffic /\ Volume >= MinVolume /\ PassRate >= MinPass

(* policy_stability_days: days back from the latest one reported on that all *)
(* reports agree with it on the policy.                                      *)
Reported == {reports[i].day : i \in DOMAIN reports}
PoliciesOn(d) == {reports[i].policy : i \in {j \in DOMAIN reports : reports[j].day = d}}
StabilityDays ==
  IF Reported = {} THEN 0
  ELSE LET newest == Max(Reported)
           breaks == {d \in Reported : PoliciesOn(d) # PoliciesOn(newest) \/ Cardinality(PoliciesOn(d)) # 1} IN
       Cardinality({d \in Reported : \A b \in breaks : b < d})

\* Mutant: a day more than asked for.
StableForLonger == StabilityDays > StableDays

StableEnough == StabilityDays >= StableDays
Blocked == unreviewed \/ ~RatesTraffic \/ PassRate < MinPass
NextPolicy ==
  CASE LatestPolicy \in {"", "none"} -> "quarantine"
    [] LatestPolicy = "quarantine" -> IF StableEnough THEN "reject" ELSE "quarantine"
    [] OTHER -> "reject"

Recommended ==
  CASE profile # "sends_mail" -> "reject"
    [] profile = "sends_mail" /\ InsufficientData -> "none"
    [] profile = "sends_mail" /\ ~InsufficientData /\ Blocked -> IF LatestPolicy = "" THEN "none" ELSE LatestPolicy
    [] OTHER -> NextPolicy

-----------------------------------------------------------------------------
(* The trend: -1 down, 1 up, 0 stable or not enough data.  A day is <<total, *)
(* passed>> by its number; rates are compared as fractions.                  *)
Choose[n \in Nat] ==
  [k \in Nat |-> IF k > n THEN 0 ELSE IF k = 0 \/ k = n THEN 1 ELSE Choose[n - 1][k - 1] + Choose[n - 1][k]]

SumOver(day, some, part) == SumFunctionOnSet([d \in Days |-> day[d][part]], some)

(* Fisher's exact test, one-sided, at 5%; what cannot be has no ways.        *)
FisherSignificant(bp, bt, rp, rt, lower) ==
  LET passed == bp + rp
      failed == bt + rt - passed
      ways == [x \in 0 .. rt |-> Choose[passed][x] * Choose[failed][rt - x]]
      tail == IF lower THEN 0 .. rp ELSE rp .. rt IN
  20 * SumFunctionOnSet(ways, tail) < Choose[bt + rt][rt]

\* Mutant: the variance of each rate by itself, none if both are 0 or 1.
UnpooledZSignificant(bp, bt, rp, rt, lower) ==
  LET d == IF lower THEN bp * rt - rp * bt ELSE rp * bt - bp * rt
      variance == bp * (bt - bp) * rt * rt * rt + rp * (rt - rp) * bt * bt * bt IN
  variance > 0 /\ d >= 0 /\ 625 * d * d * bt * rt >= 2401 * variance

(* z >= 1.96, that is z^2 >= (49/25)^2, with the variance of the pooled rate. *)
ZSignificant(bp, bt, rp, rt, lower) ==
  LET d == IF lower THEN bp * rt - rp * bt ELSE rp * bt - bp * rt
      passed == bp + rp
      all == bt + rt IN
  passed \in 1 .. all - 1 /\ d >= 0 /\ 625 * d * d * all >= 2401 * bt * rt * passed * (all - passed)

Significant(bp, bt, rp, rt, lower) ==
  IF rt < ExactBelow THEN FisherSignificant(bp, bt, rp, rt, lower) ELSE ZSignificant(bp, bt, rp, rt, lower)

Trend(day) ==
  LET recent == {d \in Days : today - RecentDays < d /\ d <= today /\ day[d][1] > 0}
      baseline == {d \in Days : today - RecentDays - BaselineDays < d /\ d <= today - RecentDays /\ day[d][1] > 0}
      rt == SumOver(day, recent, 1)    rp == SumOver(day, recent, 2)
      bt == SumOver(day, baseline, 1)  bp == SumOver(day, baseline, 2)
      change == rp * bt - bp * rt      \* change of the rate, times rt * bt
      below == {d \in recent : day[d][2] * bt < bp * day[d][1]}
      above == {d \in recent : day[d][2] * bt > bp * day[d][1]} IN
  IF rt < MinRecent \/ bt < MinBaseline \/ Cardinality(recent) < MinDays THEN 0
  ELSE IF /\ -100 * change >= MinChange * rt * bt /\ -change >= MinExcess * bt
          /\ Cardinality(below) >= MinDays /\ Significant(bp, bt, rp, rt, TRUE) THEN -1
  ELSE IF /\ 100 * change >= MinChange * rt * bt /\ change >= MinExcess * bt
          /\ Cardinality(above) >= MinDays /\ Significant(bp, bt, rp, rt, FALSE) THEN 1
  ELSE 0

(* daily_totals_excluding_blocked *)
Daily == [d \in Days |-> LET some == {i \in DOMAIN reports : reports[i].day = d} IN <<Total(some), Passing(some)>>]

-----------------------------------------------------------------------------
AssessmentInit ==
  /\ findings = [c \in Checked |-> {}]
  /\ today = 1
  /\ published \in {[d \in Days |-> IF d = 1 THEN {p} ELSE {}] : p \in {"none", "quarantine", "reject"}}
  /\ reports = <<>>
  /\ profile \in {"sends_mail", "receive_only"}
  /\ unreviewed \in BOOLEAN
  /\ changes = 0

Eventful == Len(reports) + changes < MaxChanges

(* A check ran again; worst_status and the filter of pending ones see a set. *)
Recheck(c, some) ==
  /\ Eventful /\ some # findings[c]
  /\ findings' = [findings EXCEPT ![c] = some]
  /\ changes' = changes + 1
  /\ UNCHANGED <<today, published, reports, profile, unreviewed>>

(* The policy of the next day, and one that is changed in the course of it. *)
NextDay(p) ==
  /\ today < MaxDay
  /\ today' = today + 1
  /\ published' = [published EXCEPT ![today + 1] = {p}]
  /\ UNCHANGED <<findings, reports, profile, unreviewed, changes>>

PublishPolicy(p) ==
  /\ Eventful /\ p \notin published[today]
  /\ published' = [published EXCEPT ![today] = @ \cup {p}]
  /\ changes' = changes + 1
  /\ UNCHANGED <<findings, today, reports, profile, unreviewed>>

Receive(d, p, m) ==
  /\ Eventful /\ d <= today /\ p \in published[d]
  /\ reports' = Append(reports, [day |-> d, policy |-> p, total |-> m[1], passed |-> m[2]])
  /\ UNCHANGED <<findings, today, published, profile, unreviewed, changes>>

AssessmentNext ==
  \/ \E c \in Checked, some \in FindingSets : Recheck(c, some)
  \/ \E p \in {"none", "quarantine", "reject"} : NextDay(p) \/ PublishPolicy(p)
  \/ \E d \in Days, p \in {"none", "quarantine", "reject"}, m \in Counts : Receive(d, p, m)

AssessmentSpec == AssessmentInit /\ [][AssessmentNext]_assessmentVars

-----------------------------------------------------------------------------
(* Properties. *)

Order == [fail |-> 1, error |-> 2, warn |-> 3, pass |-> 4]

(* Findings got better if one of them did and the others are what they were. *)
Better(old, new) ==
  \E x \in old : \E y \in new : /\ x # "pending" /\ y # "pending" /\ Order[x] < Order[y]
                                /\ new = (old \ {x}) \cup {y}

(* Of one step: if a check's findings got better, so did the score, or it    *)
(* stayed; the averages are compared as fractions.                           *)
BetterScoresNoWorse ==
  (\E c \in Checked : Better(findings[c], findings'[c])) =>
    /\ Score'.points * Score.weight >= Score.points * Score'.weight
    /\ Grade(Score)' >= Grade(Score)

(* When a finding of a check gets better and nothing else changes, neither   *)
(* the score nor the grade gets worse.                                       *)
BetterNeverScoresWorse == [][BetterScoresNoWorse]_assessmentVars

(* When the owner is told that a domain is ready for a stricter policy, the  *)
(* recommendation is that policy: unless a sender is to be reviewed or the   *)
(* policy is not stable yet, which only the recommendation looks at.         *)
ReadyIsRecommended ==
  Ready /\ ~unreviewed /\ (LatestPolicy = "none" \/ StabilityDays >= StableDays) =>
    Recommended = NextRung[LatestPolicy]

(* A message more that failed lately, instead of passing, never makes the    *)
(* trend look better: by either test, and next to the floors on change,      *)
(* excess and days.                                                          *)
FewerPassesNeverLookBetter ==
  \A d \in Days : d > today - RecentDays /\ d <= today /\ Daily[d][2] > 0 =>
    Trend([Daily EXCEPT ![d] = <<@[1], @[2] - 1>>]) <= Trend(Daily)

(* "Stable at p=quarantine for N days": whoever is told to move on from      *)
(* quarantine to reject has had nothing but quarantine in the reports of the *)
(* last days reported on.                                                    *)
RejectIsEarned ==
  profile = "sends_mail" /\ LatestPolicy = "quarantine" /\ Recommended = "reject" =>
    Cardinality({d \in Reported : \A e \in Reported : e >= d => PoliciesOn(e) = {"quarantine"}}) >= StableDays
=============================================================================
