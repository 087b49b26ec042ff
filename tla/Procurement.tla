----------------------------- MODULE Procurement -----------------------------
(***************************************************************************)
(* CreatorForge's buying side: a procurement run chooses a vendor by its   *)
(* return on investment, checks the budget, pays, and writes the purchase, *)
(* the ledger and the vendor's profile, one SQLite transaction each.       *)
(*                                                                         *)
(* The routes are coroutines that never await: a run keeps the event loop  *)
(* to its end, so that no two runs or decisions overlap.  What comes       *)
(* between its steps is a failure, or midnight.                            *)
(*                                                                         *)
(* ROI values are in sixths of a point, so that an average of up to three  *)
(* scores is a whole number.                                               *)
(***************************************************************************)
EXTENDS Integers, Sequences, SequencesExt

CONSTANTS
  Vendors,     (* The vendors on offer.                                    *)
  Traces,      (* The trace ids of the runs; a client may repeat one.      *)
  Expect,      (* Expect[v] is the expected_credits of vendor v.           *)
  Reports,     (* What a vendor may report as credits_used.                *)
  Excess,      (* How far a report goes beyond what was expected, at most. *)
  Scores,      (* The ROI scores of a purchase.                            *)
  DailyCap, VendorCap, Threshold,
  MaxRuns,     (* Number of runs (a bound).                                *)
  MaxFailures, (* Number of failures (a bound).                            *)
  MaxDays,     (* Number of midnights (a bound).                           *)
  None         (* No vendor, no profile.                                   *)

ASSUME ExpectKnown == Expect \in [Vendors -> Int]
ASSUME ReportsBounded ==
  /\ Reports \subseteq Nat
  /\ Excess \in Nat
  /\ \A v \in Vendors, c \in Reports : c <= Expect[v] + Excess
ASSUME ScoresKnown == Scores \subseteq Nat
ASSUME CapsKnown == DailyCap \in Nat /\ VendorCap \in Nat /\ Threshold \in Nat
ASSUME NoneIsNothing == None \notin Vendors /\ None \notin Nat

VARIABLES
  run,       (* The run in progress.                                       *)
  purchases, (* Table purchases, in the order of the ids.                  *)
  daily,     (* Sum of today's entries in budget_ledger.                   *)
  spend,     (* spend[v] is the part of vendor v in that sum.              *)
  profile,   (* profile[v] is rolling_roi in vendor_profiles, or None.     *)
  approvals, (* Table approval_requests, and what Mindra was told.         *)
  unbooked,  (* Payments that are not in the ledger (history).             *)
  strayed,   (* Vendors whose last run broke off between the tables, or    *)
             (* found its purchase already recorded (history).             *)
  failures, runs, days

vars == <<run, purchases, daily, spend, profile, approvals, unbooked, strayed,
          failures, runs, days>>

NoRun == [stage |-> "idle"]

-----------------------------------------------------------------------------
(* Return on investment.                                                   *)

LastThree(s) == SubSeq(s, IF Len(s) > 3 THEN Len(s) - 2 ELSE 1, Len(s))

Average(scores) ==
  IF scores = <<>> THEN 0
  ELSE (6 * FoldLeft(LAMBDA x, y : x + y, 0, scores)) \div Len(scores)

RollingFaulty(scores) == Average(scores)

(* rolling_roi() with its window of three.                                 *)
Rolling(scores) == Average(LastThree(scores))

(* The scores that vendor v got in rows of purchases, oldest first.        *)
ScoresOf(v, rows) ==
  LET upTo[n \in 0 .. Len(rows)] ==
        IF n = 0 THEN <<>>
        ELSE IF rows[n].vendor = v THEN Append(upTo[n - 1], rows[n].score)
        ELSE upTo[n - 1]
  IN  upTo[Len(rows)]

(* vendor_recent_rois(), oldest first.                                     *)
Recent(v) == LastThree(ScoresOf(v, purchases))

Forecast(v) ==
  IF profile[v] # None THEN profile[v]
  ELSE IF 11 - Expect[v] > 5 THEN 6 * (11 - Expect[v]) ELSE 33

Best(offered) == {v \in offered : \A w \in offered : Forecast(w) <= Forecast(v)}

(* The offered vendor of the latest purchase.                              *)
Current(offered) ==
  LET bought == {i \in 1 .. Len(purchases) : purchases[i].vendor \in offered}
  IN  IF bought = {} THEN None
      ELSE purchases[CHOOSE i \in bought : \A j \in bought : j <= i].vendor

(* Repeat at 7.0 and above; switch below 4.0, with three samples and an    *)
(* alternative at 5.5 or above; otherwise hold.                            *)
Switches(v, offered) ==
  /\ Len(Recent(v)) >= 3
  /\ Rolling(Recent(v)) < 24
  /\ \E w \in offered \ {v} : Forecast(w) >= 33

Chosen(offered) ==
  LET current == Current(offered)
      from == IF current = None THEN offered
              ELSE IF Switches(current, offered) THEN offered \ {current}
              ELSE offered \intersect {current}
  IN  Best(from)

-----------------------------------------------------------------------------
(* The budget gate.                                                        *)

AllowedFaulty(v) ==
  /\ Expect[v] > 0
  /\ daily + Expect[v] <= DailyCap
  /\ spend[v] < VendorCap

Allowed(v) ==
  /\ Expect[v] > 0
  /\ daily + Expect[v] <= DailyCap
  /\ spend[v] + Expect[v] <= VendorCap

Begin ==
  /\ run = NoRun
  /\ runs < MaxRuns
  /\ runs' = runs + 1
  /\ UNCHANGED <<purchases, daily, spend, profile, unbooked, strayed, failures, days>>

Blocked(offered) ==
  /\ Begin
  /\ \E v \in Chosen(offered) : ~Allowed(v)
  /\ UNCHANGED <<run, approvals>>

AskHumanFaulty(offered) ==
  /\ Begin
  /\ \E v \in Chosen(offered) :
       /\ Allowed(v) /\ Expect[v] > Threshold
       /\ approvals' = Append(approvals, [vendor |-> v, status |-> "pending"])
  /\ UNCHANGED run

AskHuman(offered) ==
  /\ Begin
  /\ \E v \in Chosen(offered) :
       /\ Allowed(v) /\ Expect[v] > Threshold
       /\ approvals' = Append(approvals, [vendor |-> v, status |-> "pending", told |-> "nothing"])
  /\ UNCHANGED run

(* Within the threshold, or auto_approve.                                  *)
Buy(trace, offered, auto) ==
  /\ Begin
  /\ \E v \in Chosen(offered) :
       /\ Allowed(v) /\ (Expect[v] > Threshold => auto)
       /\ run' = [stage |-> "buying", trace |-> trace, vendor |-> v]
  /\ UNCHANGED approvals

-----------------------------------------------------------------------------
(* The vendor, over HTTP with an x402 token: it takes the credits, then    *)
(* answers with what it used.                                              *)

Charge ==
  /\ run.stage = "buying"
  /\ run' = [stage |-> "charged", trace |-> run.trace, vendor |-> run.vendor]
  /\ unbooked' = unbooked + 1
  /\ UNCHANGED <<purchases, daily, spend, profile, approvals, strayed, failures, runs, days>>

Answer(credits, score) ==
  /\ run.stage = "charged"
  /\ run' = [stage |-> "answered", trace |-> run.trace, vendor |-> run.vendor,
             credits |-> credits, score |-> score,
             rolling |-> Rolling(Append(Recent(run.vendor), score))]
  /\ UNCHANGED <<purchases, daily, spend, profile, approvals, unbooked, strayed,
                 failures, runs, days>>

(* No token, an error status, a timeout: the run raises.                   *)
NoAnswer ==
  /\ run.stage \in {"buying", "charged"}
  /\ failures < MaxFailures
  /\ run' = NoRun
  /\ failures' = failures + 1
  /\ UNCHANGED <<purchases, daily, spend, profile, approvals, unbooked, strayed, runs, days>>

-----------------------------------------------------------------------------
(* The three tables.                                                       *)

Recorded == \E i \in 1 .. Len(purchases) :
              purchases[i].trace = run.trace /\ purchases[i].vendor = run.vendor

(* record_purchase() is idempotent: one row for a trace and a vendor.      *)
RecordPurchase ==
  /\ run.stage = "answered"
  /\ run' = [stage |-> "recorded", trace |-> run.trace, vendor |-> run.vendor,
             credits |-> run.credits, rolling |-> run.rolling, fresh |-> ~Recorded]
  /\ purchases' = IF Recorded THEN purchases
                  ELSE Append(purchases, [trace |-> run.trace, vendor |-> run.vendor,
                                          score |-> run.score])
  /\ strayed' = strayed \union {run.vendor}
  /\ UNCHANGED <<daily, spend, profile, approvals, unbooked, failures, runs, days>>

RecordBudgetFaulty ==
  /\ run.stage = "recorded"
  /\ run' = [stage |-> "booked", vendor |-> run.vendor, rolling |-> run.rolling,
             fresh |-> run.fresh]
  /\ IF profile[run.vendor] = run.rolling
     THEN UNCHANGED <<daily, spend, unbooked>>
     ELSE /\ daily' = daily + run.credits
          /\ spend' = [spend EXCEPT ![run.vendor] = @ + run.credits]
          /\ unbooked' = unbooked - 1
  /\ UNCHANGED <<purchases, profile, approvals, strayed, failures, runs, days>>

(* record_budget_entry() is not: it books a repeated trace again, which    *)
(* was also paid again.                                                    *)
RecordBudget ==
  /\ run.stage = "recorded"
  /\ run' = [stage |-> "booked", vendor |-> run.vendor, rolling |-> run.rolling,
             fresh |-> run.fresh]
  /\ daily' = daily + run.credits
  /\ spend' = [spend EXCEPT ![run.vendor] = @ + run.credits]
  /\ unbooked' = unbooked - 1
  /\ UNCHANGED <<purchases, profile, approvals, strayed, failures, runs, days>>

(* upsert_vendor_profile(); the decision's row ends the run.               *)
UpdateProfile ==
  /\ run.stage = "booked"
  /\ run' = NoRun
  /\ profile' = [profile EXCEPT ![run.vendor] = run.rolling]
  /\ strayed' = IF run.fresh THEN strayed \ {run.vendor} ELSE strayed
  /\ UNCHANGED <<purchases, daily, spend, approvals, unbooked, failures, runs, days>>

(* The process dies, or a write raises.                                    *)
BreakOff ==
  /\ run # NoRun
  /\ failures < MaxFailures
  /\ run' = NoRun
  /\ failures' = failures + 1
  /\ UNCHANGED <<purchases, daily, spend, profile, approvals, unbooked, strayed, runs, days>>

Midnight ==
  /\ days < MaxDays
  /\ daily' = 0
  /\ spend' = [v \in Vendors |-> 0]
  /\ days' = days + 1
  /\ UNCHANGED <<run, purchases, profile, approvals, unbooked, strayed, failures, runs>>

-----------------------------------------------------------------------------
(* Human decisions.                                                        *)

ResolveFaulty(a, verdict) ==
  /\ run = NoRun
  /\ a \in 1 .. Len(approvals)
  /\ \E told \in {verdict, approvals[a].told} :
       approvals' = [approvals EXCEPT ![a].status = verdict, ![a].told = told]
  /\ UNCHANGED <<run, purchases, daily, spend, profile, unbooked, strayed, failures, runs, days>>

(* The status is committed before Mindra is told: the call may fail, and   *)
(* the decision cannot be repeated.                                        *)
Resolve(a, verdict) ==
  /\ run = NoRun
  /\ a \in 1 .. Len(approvals) /\ approvals[a].status = "pending"
  /\ \E told \in {verdict, "nothing"} :
       approvals' = [approvals EXCEPT ![a].status = verdict, ![a].told = told]
  /\ UNCHANGED <<run, purchases, daily, spend, profile, unbooked, strayed, failures, runs, days>>

-----------------------------------------------------------------------------
Init ==
  /\ run = NoRun
  /\ purchases = <<>> /\ approvals = <<>>
  /\ daily = 0 /\ spend = [v \in Vendors |-> 0]
  /\ profile = [v \in Vendors |-> None]
  /\ unbooked = 0 /\ strayed = {}
  /\ failures = 0 /\ runs = 0 /\ days = 0

Offers == SUBSET Vendors \ {{}}
Verdicts == {"approved", "rejected"}

Start ==
  \E offered \in Offers :
    \/ Blocked(offered) \/ AskHuman(offered)
    \/ \E trace \in Traces, auto \in BOOLEAN : Buy(trace, offered, auto)
Pay == Charge \/ NoAnswer \/ \E credits \in Reports, score \in Scores : Answer(credits, score)
Write == RecordPurchase \/ RecordBudget \/ UpdateProfile

Next ==
  \/ Start \/ Pay \/ Write \/ BreakOff \/ Midnight
  \/ \E a \in 1 .. Len(approvals), verdict \in Verdicts : Resolve(a, verdict)

Spec == Init /\ [][Next]_vars

-----------------------------------------------------------------------------
Paying == {"buying", "charged"}

Runs ==
  {NoRun}
    \union [stage : Paying, trace : Traces, vendor : Vendors]
    \union [stage : {"answered"}, trace : Traces, vendor : Vendors, credits : Reports,
            score : Scores, rolling : Int]
    \union [stage : {"recorded"}, trace : Traces, vendor : Vendors, credits : Reports,
            rolling : Int, fresh : BOOLEAN]
    \union [stage : {"booked"}, vendor : Vendors, rolling : Int, fresh : BOOLEAN]

(* Every variable keeps its type.                                          *)
TypeOK ==
  /\ run \in Runs
  /\ purchases \in Seq([trace : Traces, vendor : Vendors, score : Scores])
  /\ daily \in Nat /\ spend \in [Vendors -> Nat]
  /\ profile \in [Vendors -> Int \union {None}]
  /\ approvals \in Seq([vendor : Vendors, status : {"pending"} \union Verdicts,
                        told : {"nothing"} \union Verdicts])
  /\ unbooked \in Int
  /\ strayed \subseteq Vendors
  /\ failures \in Nat /\ runs \in Nat /\ days \in Nat

(* The day's spend, and each vendor's, exceed the caps by one report's     *)
(* excess over what was expected at most: the gate adds what it expects,   *)
(* the ledger what the vendor reports, and the next run is gated again,    *)
(* also when midnight falls between the gate and the ledger.               *)
SpendBound ==
  /\ daily <= DailyCap + Excess
  /\ \A v \in Vendors : spend[v] <= VendorCap + Excess

(* Inductive for SpendBound: what the gate has let through still fits      *)
(* until it is booked.                                                     *)
Gated == {"buying", "charged", "answered", "recorded"}
Reserved ==
  run.stage \in Gated =>
    /\ daily + Expect[run.vendor] <= DailyCap
    /\ spend[run.vendor] + Expect[run.vendor] <= VendorCap

(* A payment misses in the ledger only while its run goes on, or because   *)
(* the run failed: one failure loses one payment at most, and a repeated   *)
(* trace none.                                                             *)
Unbookable == {"charged", "answered", "recorded"}
EveryPaymentBooked ==
  unbooked <= failures + (IF run.stage \in Unbookable THEN 1 ELSE 0)

(* The profile that forecasts are made from agrees with the purchases, for *)
(* every vendor whose last run did not break off between the tables or     *)
(* find its purchase recorded; one complete run puts a strayed one right.  *)
ProfileFollows ==
  \A v \in Vendors \ strayed :
    profile[v] = IF Recent(v) = <<>> THEN None ELSE Rolling(Recent(v))

(* Mindra never hears another decision than the one on record.             *)
MindraAgrees ==
  \A a \in 1 .. Len(approvals) :
    approvals[a].told # "nothing" => approvals[a].told = approvals[a].status

(* "Enforces daily and per-vendor spend constraints" (budget_engine.py:16) *)
(* holds when no vendor reports more than was expected, and only then.     *)
CapsEnforced == daily <= DailyCap /\ \A v \in Vendors : spend[v] <= VendorCap
=============================================================================
