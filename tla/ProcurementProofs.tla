-------------------------- MODULE ProcurementProofs --------------------------
(***************************************************************************)
(* Theorems about Procurement, for any vendors, prices and caps.           *)
(***************************************************************************)
EXTENDS Procurement, Induction

USE ExpectKnown, ReportsBounded, CapsKnown

(* The part of the types that the ledger depends on.  Scores and rolling   *)
(* averages do not touch it.                                               *)
Books ==
  /\ daily \in Nat /\ spend \in [Vendors -> Nat]
  /\ unbooked \in Int /\ failures \in Nat
  /\ run.stage \in {"idle", "booked"} \union Gated
  /\ run.stage \in Gated => run.vendor \in Vendors
  /\ run.stage \in {"answered", "recorded"} => run.credits \in Reports

IInv == Books /\ Reserved /\ SpendBound /\ EveryPaymentBooked

LEMMA Initially == Init => IInv
  BY DEF Init, NoRun, IInv, Books, Reserved, Gated, SpendBound, EveryPaymentBooked, Unbookable

LEMMA ChosenIsOffered ==
  ASSUME NEW offered \in Offers, NEW v \in Chosen(offered)
  PROVE  v \in Vendors
  BY DEF Chosen, Best, Offers

(* The gate reserves what it expects for the run it lets through.          *)
LEMMA GatePreserves ==
  ASSUME IInv, NEW offered \in Offers, NEW trace, NEW auto, Buy(trace, offered, auto)
  PROVE  IInv'
<1>1. PICK v \in Chosen(offered) :
        Allowed(v) /\ run' = [stage |-> "buying", trace |-> trace, vendor |-> v]
  BY DEF Buy
<1>2. v \in Vendors
  BY ChosenIsOffered
<1>3. run.stage = "idle"
  BY DEF Buy, Begin, NoRun
<1>4. UNCHANGED <<daily, spend, unbooked, failures>>
  BY DEF Buy, Begin
<1>5. Books'
  BY <1>1, <1>2, <1>4 DEF IInv, Books, Gated
<1>6. Reserved'
  BY <1>1, <1>4 DEF Allowed, Reserved
<1>7. SpendBound' /\ EveryPaymentBooked'
  BY <1>1, <1>3, <1>4 DEF IInv, SpendBound, EveryPaymentBooked, Unbookable
<1> QED BY <1>5, <1>6, <1>7 DEF IInv

LEMMA PayPreserves == IInv /\ Pay => IInv'
<1> SUFFICES ASSUME IInv, Pay PROVE IInv'
  OBVIOUS
<1> USE DEF IInv, Books, Reserved, Gated, SpendBound, EveryPaymentBooked, Unbookable
<1>1. CASE Charge
  BY <1>1 DEF Charge
<1>2. CASE NoAnswer
  BY <1>2 DEF NoAnswer, NoRun
<1>3. CASE \E credits \in Reports, score \in Scores : Answer(credits, score)
  BY <1>3 DEF Answer
<1> QED BY <1>1, <1>2, <1>3 DEF Pay

LEMMA WritePreserves == IInv /\ Write => IInv'
<1> SUFFICES ASSUME IInv, Write PROVE IInv'
  OBVIOUS
<1> USE DEF IInv, Books, Reserved, Gated, EveryPaymentBooked, Unbookable
<1>1. CASE RecordPurchase
  BY <1>1 DEF RecordPurchase, SpendBound
<1>2. CASE RecordBudget
  <2>1. /\ run.stage = "recorded" /\ run'.stage = "booked"
        /\ daily' = daily + run.credits
        /\ spend' = [spend EXCEPT ![run.vendor] = @ + run.credits]
        /\ unbooked' = unbooked - 1 /\ failures' = failures
    BY <1>2 DEF RecordBudget
  <2>2. run.vendor \in Vendors /\ run.credits \in Nat
        /\ run.credits <= Expect[run.vendor] + Excess
    BY <2>1
  (* What was reserved leaves room for all but the excess.                 *)
  <2>3. /\ daily + run.credits <= DailyCap + Excess
        /\ spend[run.vendor] + run.credits <= VendorCap + Excess
    BY <2>1, <2>2
  <2>4. SpendBound'
    BY <2>1, <2>2, <2>3 DEF SpendBound
  <2> QED BY <2>1, <2>2, <2>4
<1>3. CASE UpdateProfile
  BY <1>3 DEF UpdateProfile, NoRun, SpendBound
<1> QED BY <1>1, <1>2, <1>3 DEF Write

LEMMA IInvStep == IInv /\ [Next]_vars => IInv'
<1> SUFFICES ASSUME IInv, [Next]_vars PROVE IInv'
  OBVIOUS
<1>1. CASE Start
  <2>1. PICK offered \in Offers :
          \/ Blocked(offered) \/ AskHuman(offered)
          \/ \E trace \in Traces, auto \in BOOLEAN : Buy(trace, offered, auto)
    BY <1>1 DEF Start
  <2>2. CASE Blocked(offered) \/ AskHuman(offered)
    <3>1. UNCHANGED <<run, daily, spend, unbooked, failures>>
      BY <2>2 DEF Blocked, AskHuman, Begin
    <3> QED BY <3>1 DEF IInv, Books, Reserved, SpendBound, EveryPaymentBooked
  <2> QED BY <2>1, <2>2, GatePreserves
<1>2. CASE BreakOff
  BY <1>2 DEF BreakOff, NoRun, IInv, Books, Reserved, Gated, SpendBound,
       EveryPaymentBooked, Unbookable
<1>3. CASE Midnight
  <2>1. /\ UNCHANGED <<run, unbooked, failures>>
        /\ daily' = 0 /\ spend' = [v \in Vendors |-> 0]
    BY <1>3 DEF Midnight
  <2>2. Books' /\ EveryPaymentBooked'
    BY <2>1 DEF IInv, Books, EveryPaymentBooked
  <2>3. Reserved'
    BY <2>1 DEF IInv, Books, Reserved
  <2>4. SpendBound'
    BY <2>1 DEF SpendBound
  <2> QED BY <2>2, <2>3, <2>4 DEF IInv
<1>4. CASE \E a \in 1 .. Len(approvals), verdict \in Verdicts : Resolve(a, verdict)
  <2>1. UNCHANGED <<run, daily, spend, unbooked, failures>>
    BY <1>4 DEF Resolve
  <2> QED BY <2>1 DEF IInv, Books, Reserved, SpendBound, EveryPaymentBooked
<1>5. CASE UNCHANGED vars
  BY <1>5 DEF vars, IInv, Books, Reserved, SpendBound, EveryPaymentBooked
<1> QED BY <1>1, <1>2, <1>3, <1>4, <1>5, PayPreserves, WritePreserves DEF Next

LEMMA IInvAlways == Spec => []IInv
  BY Initially, IInvStep, PTL DEF Spec

(* Whatever is reported, the day's spend and each vendor's exceed the caps *)
(* by the excess of one report at most.                                    *)
THEOREM SpendBoundAlways == Spec => []SpendBound
<1>1. IInv => SpendBound
  BY DEF IInv
<1> QED BY <1>1, IInvAlways, PTL

(* A payment that is not in the ledger is that of the run in progress, or  *)
(* of a failed one.                                                        *)
THEOREM PaymentsBooked == Spec => []EveryPaymentBooked
<1>1. IInv => EveryPaymentBooked
  BY DEF IInv
<1> QED BY <1>1, IInvAlways, PTL

(* When no vendor reports more than was expected, the caps hold.           *)
THEOREM CapsHold == Excess = 0 => (Spec => []CapsEnforced)
<1> SUFFICES ASSUME Excess = 0 PROVE Spec => []CapsEnforced
  OBVIOUS
<1>1. IInv => CapsEnforced
  BY DEF IInv, Books, SpendBound, CapsEnforced
<1> QED BY <1>1, IInvAlways, PTL

-----------------------------------------------------------------------------
(* What the scores of a vendor are.                                        *)

Purchases == [trace : Traces, vendor : Vendors, score : Scores]

(* upTo of ScoresOf, for the first n rows.                                 *)
CountsUpTo(f, v, rows, n) ==
  f = [k \in 0 .. n |->
         IF k = 0 THEN <<>>
         ELSE IF rows[k].vendor = v THEN Append(f[k - 1], rows[k].score)
         ELSE f[k - 1]]

LEMMA CountsExist ==
  ASSUME NEW v, NEW rows, NEW n \in Nat
  PROVE  \E f : CountsUpTo(f, v, rows, n)
<1> DEFINE S == {k \in Nat : \E f : CountsUpTo(f, v, rows, k)}
<1>1. 0 \in S
  <2> DEFINE f == [k \in 0 .. 0 |-> <<>>]
  <2>1. CountsUpTo(f, v, rows, 0)
    BY DEF CountsUpTo
  <2> HIDE DEF f
  <2> QED BY <2>1
<1>2. ASSUME NEW k \in Nat, NEW f, CountsUpTo(f, v, rows, k)
      PROVE  \E g : CountsUpTo(g, v, rows, k + 1)
  <2> DEFINE g == [j \in 0 .. k + 1 |->
                     IF j <= k THEN f[j]
                     ELSE IF rows[k + 1].vendor = v THEN Append(f[k], rows[k + 1].score)
                     ELSE f[k]]
  <2>1. ASSUME NEW j \in 0 .. k + 1
        PROVE  g[j] = IF j = 0 THEN <<>>
                      ELSE IF rows[j].vendor = v THEN Append(g[j - 1], rows[j].score)
                      ELSE g[j - 1]
    <3>1. CASE j = 0
      BY <1>2, <3>1 DEF CountsUpTo
    <3>2. CASE j \in 1 .. k
      <4>1. j \in 0 .. k /\ j - 1 \in 0 .. k /\ j - 1 \in 0 .. k + 1 /\ j # 0
        BY <3>2
      <4>2. g[j] = f[j] /\ g[j - 1] = f[j - 1]
        BY <4>1
      <4> QED BY <1>2, <4>1, <4>2 DEF CountsUpTo
    <3>3. CASE j = k + 1
      <4>1. g[j - 1] = f[k] /\ j # 0 /\ ~ (j <= k)
        BY <3>3
      <4> QED BY <3>3, <4>1
    <3> QED BY <3>1, <3>2, <3>3
  <2>2. g = [j \in 0 .. k + 1 |-> g[j]]
    OBVIOUS
  <2> HIDE DEF g
  <2>3. CountsUpTo(g, v, rows, k + 1)
    BY <2>1, <2>2 DEF CountsUpTo
  <2> QED BY <2>3
<1>3. \A k \in Nat : k \in S => k + 1 \in S
  BY <1>2
<1> HIDE DEF S
<1>4. n \in S
  BY <1>1, <1>3, NatSetInduction
<1> QED BY <1>4 DEF S

(* It counts rows that agree alike.                                        *)
LEMMA CountsAgree ==
  ASSUME NEW v, NEW rows, NEW more, NEW n \in Nat, NEW m \in Nat, n <= m,
         NEW f, CountsUpTo(f, v, rows, n), NEW g, CountsUpTo(g, v, more, m),
         \A k \in 1 .. n : rows[k] = more[k]
  PROVE  f[n] = g[n]
<1> DEFINE S == {k \in Nat : k <= n => f[k] = g[k]}
<1>1. 0 \in S
  BY DEF CountsUpTo
<1>2. ASSUME NEW k \in Nat, k \in S PROVE k + 1 \in S
  <2> SUFFICES ASSUME k + 1 <= n PROVE f[k + 1] = g[k + 1]
    OBVIOUS
  <2>1. f[k] = g[k] /\ rows[k + 1] = more[k + 1]
    BY <1>2
  <2>2. k + 1 \in 0 .. n /\ k + 1 \in 0 .. m /\ k + 1 # 0 /\ (k + 1) - 1 = k
    OBVIOUS
  <2>3. f[k + 1] = IF rows[k + 1].vendor = v THEN Append(f[k], rows[k + 1].score) ELSE f[k]
    BY <2>2, ZenonT(60) DEF CountsUpTo
  <2>4. g[k + 1] = IF more[k + 1].vendor = v THEN Append(g[k], more[k + 1].score) ELSE g[k]
    BY <2>2 DEF CountsUpTo
  <2> QED BY <2>1, <2>3, <2>4
<1> HIDE DEF S
<1>3. n \in S
  BY <1>1, <1>2, NatSetInduction
<1> QED BY <1>3 DEF S

LEMMA ScoresAre ==
  ASSUME NEW v, NEW rows \in Seq(Purchases)
  PROVE  \E f : CountsUpTo(f, v, rows, Len(rows)) /\ ScoresOf(v, rows) = f[Len(rows)]
<1>1. \E f : CountsUpTo(f, v, rows, Len(rows))
  <2>1. Len(rows) \in Nat
    OBVIOUS
  <2> QED BY <2>1, CountsExist
<1>2. ScoresOf(v, rows) = (CHOOSE f : CountsUpTo(f, v, rows, Len(rows)))[Len(rows)]
  BY DEF ScoresOf, CountsUpTo
<1> QED BY <1>1, <1>2

(* One more row adds its score, to its vendor's scores only.               *)
LEMMA ScoresGrow ==
  ASSUME NEW v, NEW rows \in Seq(Purchases), NEW p \in Purchases
  PROVE  ScoresOf(v, Append(rows, p)) =
           IF p.vendor = v THEN Append(ScoresOf(v, rows), p.score) ELSE ScoresOf(v, rows)
<1> DEFINE n == Len(rows)  more == Append(rows, p)
<1>1. /\ n \in Nat /\ more \in Seq(Purchases) /\ Len(more) = n + 1 /\ more[n + 1] = p
      /\ \A k \in 1 .. n : rows[k] = more[k]
  OBVIOUS
<1>2. PICK f : CountsUpTo(f, v, rows, n) /\ ScoresOf(v, rows) = f[n]
  BY ScoresAre
<1>3. PICK g : CountsUpTo(g, v, more, n + 1) /\ ScoresOf(v, more) = g[n + 1]
  BY <1>1, ScoresAre
<1> HIDE DEF n, more
<1>4. f[n] = g[n]
  <2>1. n + 1 \in Nat /\ n <= n + 1
    BY <1>1
  <2> QED BY <1>1, <1>2, <1>3, <2>1, CountsAgree
<1>5. g[n + 1] = IF p.vendor = v THEN Append(g[n], p.score) ELSE g[n]
  <2>1. n + 1 \in 0 .. n + 1 /\ n + 1 # 0 /\ (n + 1) - 1 = n
    BY <1>1
  <2> QED BY <1>1, <1>3, <2>1 DEF CountsUpTo
<1> QED BY <1>2, <1>3, <1>4, <1>5 DEF more

LEMMA ScoresTyped ==
  ASSUME NEW v, NEW rows \in Seq(Purchases)
  PROVE  ScoresOf(v, rows) \in Seq(Scores)
<1>1. PICK f : CountsUpTo(f, v, rows, Len(rows)) /\ ScoresOf(v, rows) = f[Len(rows)]
  BY ScoresAre
<1> DEFINE S == {k \in Nat : k <= Len(rows) => f[k] \in Seq(Scores)}
<1>2. 0 \in S
  BY <1>1 DEF CountsUpTo
<1>3. ASSUME NEW k \in Nat, k \in S PROVE k + 1 \in S
  <2> SUFFICES ASSUME k + 1 <= Len(rows) PROVE f[k + 1] \in Seq(Scores)
    OBVIOUS
  <2>1. f[k] \in Seq(Scores) /\ rows[k + 1].score \in Scores
    <3>1. k + 1 \in 1 .. Len(rows)
      OBVIOUS
    <3>2. rows[k + 1] \in Purchases
      BY <3>1
    <3> QED BY <1>3, <3>2 DEF Purchases
  <2>2. k + 1 \in 0 .. Len(rows) /\ k + 1 # 0 /\ (k + 1) - 1 = k
    OBVIOUS
  <2>3. Append(f[k], rows[k + 1].score) \in Seq(Scores)
    BY <2>1
  <2> QED BY <1>1, <2>1, <2>2, <2>3 DEF CountsUpTo
<1> HIDE DEF S
<1>4. Len(rows) \in S
  BY <1>2, <1>3, NatSetInduction
<1> QED BY <1>1, <1>4 DEF S

-----------------------------------------------------------------------------
(* The window of three.                                                    *)

LEMMA WindowIs ==
  ASSUME NEW s \in Seq(Scores)
  PROVE  /\ LastThree(s) \in Seq(Scores)
         /\ Len(LastThree(s)) = IF Len(s) > 3 THEN 3 ELSE Len(s)
         /\ \A i \in 1 .. Len(LastThree(s)) :
              LastThree(s)[i] = s[IF Len(s) > 3 THEN Len(s) - 3 + i ELSE i]
<1>1. CASE Len(s) > 3
  <2>1. LastThree(s) = SubSeq(s, Len(s) - 2, Len(s))
    BY <1>1 DEF LastThree
  <2> QED BY <1>1, <2>1
<1>2. CASE ~ (Len(s) > 3)
  <2>1. LastThree(s) = SubSeq(s, 1, Len(s))
    BY <1>2 DEF LastThree
  <2> QED BY <1>2, <2>1
<1> QED BY <1>1, <1>2

LEMMA RollingTyped ==
  ASSUME NEW s \in Seq(Scores)
  PROVE  Rolling(s) \in Int
<1> DEFINE t == LastThree(s)
<1>1. t \in Seq(Scores)
  BY WindowIs
<1> HIDE DEF t
<1>2. t \in Seq(Int)
  <2>1. Len(t) \in Nat /\ t \in [1 .. Len(t) -> Scores]
    BY <1>1
  <2>2. \A i \in 1 .. Len(t) : t[i] \in Scores
    BY <2>1
  <2>3. \A x \in Scores : x \in Int
    BY ScoresKnown
  <2> QED BY <2>1, <2>2, <2>3
<1>3. PICK sum \in Int : sum = FoldLeft(LAMBDA x, y : x + y, 0, t)
  BY <1>2, SumIsTyped
<1>4. t # <<>> => Len(t) \in Nat \ {0}
  BY <1>2
<1>5. t # <<>> => (6 * sum) \div Len(t) \in Int
  BY <1>4
<1>6. Average(t) = IF t = <<>> THEN 0 ELSE (6 * sum) \div Len(t)
  BY <1>3 DEF Average
<1>7. Average(t) \in Int
  BY <1>5, <1>6
<1> QED BY <1>7 DEF Rolling, t

(* A score that enters the window pushes out the same one, whether the     *)
(* window is of all scores or of the last three.                           *)
LEMMA WindowMoves ==
  ASSUME NEW s \in Seq(Scores), NEW x \in Scores
  PROVE  /\ LastThree(Append(LastThree(s), x)) = LastThree(Append(s, x))
         /\ LastThree(LastThree(s)) = LastThree(s)
         /\ LastThree(Append(s, x)) # <<>>
<1> DEFINE w == LastThree(s)
           inner == Append(w, x)
           outer == Append(s, x)
<1>1. w \in Seq(Scores) /\ inner \in Seq(Scores) /\ outer \in Seq(Scores)
  BY WindowIs
<1>2. Len(outer) = Len(s) + 1 /\ Len(inner) = Len(w) + 1
  BY <1>1
<1>3. \A i \in 1 .. Len(outer) : outer[i] = IF i <= Len(s) THEN s[i] ELSE x
  OBVIOUS
<1>4. \A i \in 1 .. Len(inner) : inner[i] = IF i <= Len(w) THEN w[i] ELSE x
  BY <1>1
<1>5. /\ Len(w) = IF Len(s) > 3 THEN 3 ELSE Len(s)
      /\ \A i \in 1 .. Len(w) : w[i] = s[IF Len(s) > 3 THEN Len(s) - 3 + i ELSE i]
  BY WindowIs
<1>6. /\ LastThree(w) \in Seq(Scores) /\ Len(LastThree(w)) = Len(w)
      /\ \A i \in 1 .. Len(w) : LastThree(w)[i] = w[i]
  <2>1. ~ (Len(w) > 3)
    BY <1>5
  <2> HIDE DEF w
  <2> QED BY <1>1, <2>1, WindowIs
<1>7. LastThree(w) = w
  BY <1>1, <1>6
<1>8. /\ LastThree(inner) \in Seq(Scores)
      /\ Len(LastThree(inner)) = IF Len(inner) > 3 THEN 3 ELSE Len(inner)
      /\ \A i \in 1 .. Len(LastThree(inner)) :
           LastThree(inner)[i] = inner[IF Len(inner) > 3 THEN Len(inner) - 3 + i ELSE i]
  BY <1>1, WindowIs
<1>9. /\ LastThree(outer) \in Seq(Scores)
      /\ Len(LastThree(outer)) = IF Len(outer) > 3 THEN 3 ELSE Len(outer)
      /\ \A i \in 1 .. Len(LastThree(outer)) :
           LastThree(outer)[i] = outer[IF Len(outer) > 3 THEN Len(outer) - 3 + i ELSE i]
  BY <1>1, WindowIs
<1> HIDE DEF w, inner, outer
<1>10. Len(LastThree(inner)) = Len(LastThree(outer)) /\ Len(LastThree(outer)) # 0
  BY <1>2, <1>5, <1>8, <1>9
<1>11. \A i \in 1 .. Len(LastThree(outer)) : LastThree(inner)[i] = LastThree(outer)[i]
  <2> SUFFICES ASSUME NEW i \in 1 .. Len(LastThree(outer))
               PROVE  LastThree(inner)[i] = LastThree(outer)[i]
    OBVIOUS
  <2>1. CASE Len(s) >= 3
    <3>1. Len(w) = 3 /\ Len(inner) = 4 /\ Len(outer) > 3 /\ i \in 1 .. 3
      BY <1>2, <1>5, <1>9, <2>1
    <3>2. LastThree(inner)[i] = inner[i + 1]
      <4>1. Len(inner) - 3 + i = i + 1
        BY <3>1
      <4> QED BY <1>8, <3>1, <4>1
    <3>3. LastThree(outer)[i] = outer[Len(s) - 2 + i]
      <4>1. Len(outer) - 3 + i = Len(s) - 2 + i
        BY <1>2
      <4> QED BY <1>9, <3>1, <4>1
    <3>4. CASE i = 3
      <4>1. i + 1 = 4 /\ Len(s) - 2 + i = Len(s) + 1 /\ Len(s) \in Nat
        BY <3>4
      <4>2. inner[i + 1] = x
        <5> QED BY <1>4, <3>1, <4>1
      <4>3. outer[Len(s) - 2 + i] = x
        <5>1. Len(s) + 1 \in 1 .. Len(outer) /\ ~ (Len(s) + 1 <= Len(s))
          BY <1>2, <4>1
        <5> QED BY <1>3, <4>1, <5>1
      <4> QED BY <3>2, <3>3, <4>2, <4>3
    <3>5. CASE i < 3
      <4>0. i \in Nat /\ 1 <= i /\ Len(s) \in Nat
        OBVIOUS
      <4>3. inner[i + 1] = w[i + 1]
        <5>1. i + 1 \in 1 .. Len(inner) /\ i + 1 <= Len(w)
          BY <3>1, <3>5, <4>0
        <5> QED BY <1>4, <5>1
      <4>4. outer[Len(s) - 2 + i] = s[Len(s) - 2 + i]
        <5>1. Len(s) - 2 + i \in 1 .. Len(outer) /\ Len(s) - 2 + i <= Len(s)
          BY <1>2, <2>1, <3>5, <4>0
        <5> QED BY <1>3, <5>1
      <4>1. inner[i + 1] = w[i + 1] /\ outer[Len(s) - 2 + i] = s[Len(s) - 2 + i]
        BY <4>3, <4>4
      <4>2. w[i + 1] = s[Len(s) - 2 + i]
        BY <1>5, <2>1, <3>1, <3>5
      <4> QED BY <3>2, <3>3, <4>1, <4>2
    <3> QED BY <3>1, <3>4, <3>5
  <2>2. CASE Len(s) < 3
    BY <1>2, <1>3, <1>4, <1>5, <1>8, <1>9, <2>2
  <2> QED BY <2>1, <2>2
<1>12. LastThree(inner) = LastThree(outer)
  <2> HIDE DEF LastThree
  <2> DEFINE a == LastThree(inner)
             b == LastThree(outer)
  <2>1. a \in Seq(Scores) /\ b \in Seq(Scores) /\ Len(a) = Len(b)
    BY <1>8, <1>9, <1>10
  <2>2. \A i \in 1 .. Len(b) : a[i] = b[i]
    BY <1>11
  <2> HIDE DEF a, b
  <2>3. a = b
    BY <2>1, <2>2
  <2> QED BY <2>3 DEF a, b
<1> QED BY <1>7, <1>10, <1>12 DEF w, inner, outer

-----------------------------------------------------------------------------
(* Types.                                                                  *)

Approvals == [vendor : Vendors, status : {"pending"} \union Verdicts,
              told : {"nothing"} \union Verdicts]

LEMMA RunIs ==
  ASSUME TypeOK
  PROVE  /\ run.stage \in {"idle", "buying", "charged", "answered", "recorded", "booked"}
         /\ run.stage # "idle" => run.vendor \in Vendors
         /\ run.stage \in {"buying", "charged", "answered", "recorded"} => run.trace \in Traces
         /\ run.stage \in {"answered", "recorded"} => run.credits \in Reports
         /\ run.stage = "answered" => run.score \in Scores
         /\ run.stage \in {"answered", "recorded", "booked"} => run.rolling \in Int
         /\ run.stage \in {"recorded", "booked"} => run.fresh \in BOOLEAN
  BY DEF TypeOK, Runs, NoRun, Paying

LEMMA RecentTyped ==
  ASSUME TypeOK, NEW v
  PROVE  /\ ScoresOf(v, purchases) \in Seq(Scores)
         /\ Recent(v) \in Seq(Scores)
  BY ScoresTyped, WindowIs DEF TypeOK, Purchases, Recent

LEMMA TypeInitially == Init => TypeOK
  BY DEF Init, TypeOK, Runs, NoRun

LEMMA StartTyped ==
  ASSUME TypeOK, NEW offered \in Offers
  PROVE  /\ Blocked(offered) => TypeOK'
         /\ AskHuman(offered) => TypeOK'
         /\ \A trace \in Traces, auto \in BOOLEAN : Buy(trace, offered, auto) => TypeOK'
<1>1. Blocked(offered) => TypeOK'
  BY DEF Blocked, Begin, TypeOK
<1>2. ASSUME AskHuman(offered) PROVE TypeOK'
  <2>1. PICK v \in Chosen(offered) :
          approvals' = Append(approvals, [vendor |-> v, status |-> "pending", told |-> "nothing"])
    BY <1>2 DEF AskHuman
  <2>2. v \in Vendors
    BY ChosenIsOffered
  <2>3. approvals' \in Seq(Approvals)
    BY <2>1, <2>2 DEF TypeOK, Approvals
  <2> QED BY <1>2, <2>3 DEF AskHuman, Begin, TypeOK, Approvals
<1>3. ASSUME NEW trace \in Traces, NEW auto \in BOOLEAN, Buy(trace, offered, auto) PROVE TypeOK'
  <2>1. PICK v \in Chosen(offered) : run' = [stage |-> "buying", trace |-> trace, vendor |-> v]
    BY <1>3 DEF Buy
  <2>2. v \in Vendors
    BY ChosenIsOffered
  <2>3. run' \in Runs
    BY <2>1, <2>2 DEF Runs, Paying
  <2> QED BY <1>3, <2>3 DEF Buy, Begin, TypeOK
<1> QED BY <1>1, <1>2, <1>3

LEMMA PayTyped == TypeOK /\ Pay => TypeOK'
<1> SUFFICES ASSUME TypeOK, Pay PROVE TypeOK'
  OBVIOUS
<1>1. CASE Charge
  <2>1. run' \in Runs
    BY <1>1, RunIs DEF Charge, Runs, Paying
  <2> QED BY <1>1, <2>1 DEF Charge, TypeOK
<1>2. CASE NoAnswer
  BY <1>2 DEF NoAnswer, TypeOK, Runs
<1>3. ASSUME NEW credits \in Reports, NEW score \in Scores, Answer(credits, score)
      PROVE  TypeOK'
  <2>1. Append(Recent(run.vendor), score) \in Seq(Scores)
    BY RecentTyped
  <2>2. Rolling(Append(Recent(run.vendor), score)) \in Int
    BY <2>1, RollingTyped
  <2>3. run.vendor \in Vendors /\ run.trace \in Traces
    BY <1>3, RunIs DEF Answer
  <2>4. run' \in Runs
    BY <1>3, <2>2, <2>3 DEF Answer, Runs
  <2> QED BY <1>3, <2>4 DEF Answer, TypeOK
<1> QED BY <1>1, <1>2, <1>3 DEF Pay

LEMMA WriteTyped == TypeOK /\ Write => TypeOK'
<1> SUFFICES ASSUME TypeOK, Write PROVE TypeOK'
  OBVIOUS
<1>1. CASE RecordPurchase
  <2>1. /\ run.stage = "answered" /\ run.vendor \in Vendors /\ run.trace \in Traces
        /\ run.credits \in Reports /\ run.score \in Scores /\ run.rolling \in Int
    BY <1>1, RunIs DEF RecordPurchase
  <2>2. run' \in Runs
    <3>1. Recorded \in BOOLEAN
      BY DEF Recorded
    <3> QED BY <1>1, <2>1, <3>1 DEF RecordPurchase, Runs
  <2>3. purchases' \in Seq(Purchases)
    <3> DEFINE row == [trace |-> run.trace, vendor |-> run.vendor, score |-> run.score]
    <3>1. row \in Purchases /\ purchases \in Seq(Purchases)
      BY <2>1 DEF TypeOK, Purchases
    <3>2. purchases' = purchases \/ purchases' = Append(purchases, row)
      BY <1>1 DEF RecordPurchase
    <3> HIDE DEF row
    <3> QED BY <3>1, <3>2
  <2> QED BY <1>1, <2>1, <2>2, <2>3 DEF RecordPurchase, TypeOK, Purchases
<1>2. CASE RecordBudget
  <2>1. /\ run.stage = "recorded" /\ run.vendor \in Vendors
        /\ run.credits \in Nat /\ run.rolling \in Int /\ run.fresh \in BOOLEAN
    BY <1>2, RunIs DEF RecordBudget
  <2>2. run' \in Runs
    BY <1>2, <2>1 DEF RecordBudget, Runs
  <2>3. daily' \in Nat /\ spend' \in [Vendors -> Nat] /\ unbooked' \in Int
    BY <1>2, <2>1 DEF RecordBudget, TypeOK
  <2> QED BY <1>2, <2>2, <2>3 DEF RecordBudget, TypeOK
<1>3. CASE UpdateProfile
  <2>1. run.vendor \in Vendors /\ run.rolling \in Int
    BY <1>3, RunIs DEF UpdateProfile
  <2> QED BY <1>3, <2>1 DEF UpdateProfile, TypeOK, Runs
<1> QED BY <1>1, <1>2, <1>3 DEF Write

(* What a decision does to the row.                                        *)
LEMMA ResolveIs ==
  ASSUME TypeOK, NEW a \in 1 .. Len(approvals), NEW verdict \in Verdicts, Resolve(a, verdict)
  PROVE  \E told \in {verdict, "nothing"} :
           approvals' = [approvals EXCEPT ![a] =
                           [vendor |-> approvals[a].vendor, status |-> verdict, told |-> told]]
<1>1. PICK told \in {verdict, "nothing"} :
        approvals' = [approvals EXCEPT ![a].status = verdict, ![a].told = told]
  BY DEF Resolve
<1>2. approvals \in Seq(Approvals)
  BY DEF TypeOK, Approvals
<1>3. approvals[a] \in Approvals
  BY <1>2
<1> DEFINE row == approvals[a]
<1>4. PICK v, old, heard : row = [vendor |-> v, status |-> old, told |-> heard]
  BY <1>3 DEF Approvals
<1> HIDE DEF row
<1>5. [[row EXCEPT !.status = verdict] EXCEPT !.told = told]
        = [vendor |-> row.vendor, status |-> verdict, told |-> told]
  <2>1. [row EXCEPT !.status = verdict] = [vendor |-> v, status |-> verdict, told |-> heard]
    BY <1>4
  <2>2. [[vendor |-> v, status |-> verdict, told |-> heard] EXCEPT !.told = told]
          = [vendor |-> v, status |-> verdict, told |-> told]
    OBVIOUS
  <2> QED BY <1>4, <2>1, <2>2
<1>6. approvals' = [approvals EXCEPT ![a] = [[row EXCEPT !.status = verdict] EXCEPT !.told = told]]
  BY <1>1, <1>2 DEF row
<1> QED BY <1>5, <1>6 DEF row

LEMMA ResolveTyped ==
  ASSUME TypeOK, NEW a \in 1 .. Len(approvals), NEW verdict \in Verdicts, Resolve(a, verdict)
  PROVE  TypeOK'
<1>1. PICK told \in {verdict, "nothing"} :
        approvals' = [approvals EXCEPT ![a] =
                        [vendor |-> approvals[a].vendor, status |-> verdict, told |-> told]]
  BY ResolveIs
<1>2. approvals \in Seq(Approvals) /\ verdict \in Verdicts
  BY DEF TypeOK, Approvals
<1>2a. approvals[a] \in Approvals
  BY <1>2
<1>3. [vendor |-> approvals[a].vendor, status |-> verdict, told |-> told] \in Approvals
  BY <1>2, <1>2a DEF Approvals
<1>4. approvals' \in Seq(Approvals)
  BY <1>1, <1>2, <1>3
<1> QED BY <1>4 DEF Resolve, TypeOK, Approvals

(* Every variable keeps its type; above all the rolling ROI, an average    *)
(* over what the purchases table holds, is always a number.                *)
THEOREM TypeCorrect == Spec => []TypeOK
<1>1. TypeOK /\ [Next]_vars => TypeOK'
  <2> SUFFICES ASSUME TypeOK, [Next]_vars PROVE TypeOK'
    OBVIOUS
  <2>1. CASE Start
    BY <2>1, StartTyped DEF Start
  <2>2. CASE BreakOff
    BY <2>2 DEF BreakOff, TypeOK, Runs
  <2>3. CASE Midnight
    BY <2>3 DEF Midnight, TypeOK
  <2>4. CASE UNCHANGED vars
    BY <2>4 DEF vars, TypeOK
  <2> QED BY <2>1, <2>2, <2>3, <2>4, PayTyped, WriteTyped, ResolveTyped DEF Next
<1> QED BY <1>1, TypeInitially, PTL DEF Spec

(* Mindra never hears another decision than the one on record: a decision  *)
(* is taken once, and what it is told then never changes.                  *)
THEOREM MindraAgreesAlways == Spec => []MindraAgrees
<1>1. Init => MindraAgrees
  BY DEF Init, MindraAgrees
<1>2. TypeOK /\ MindraAgrees /\ [Next]_vars => MindraAgrees'
  <2> SUFFICES ASSUME TypeOK, MindraAgrees, [Next]_vars PROVE MindraAgrees'
    OBVIOUS
  <2>1. ASSUME NEW offered \in Offers, AskHuman(offered) PROVE MindraAgrees'
    <3>1. PICK v \in Chosen(offered) :
            approvals' = Append(approvals, [vendor |-> v, status |-> "pending", told |-> "nothing"])
      BY <2>1 DEF AskHuman
    <3> QED BY <3>1 DEF MindraAgrees, TypeOK
  <2>2. ASSUME NEW a \in 1 .. Len(approvals), NEW verdict \in Verdicts, Resolve(a, verdict)
        PROVE  MindraAgrees'
    <3>1. PICK told \in {verdict, "nothing"} :
            approvals' = [approvals EXCEPT ![a] =
                            [vendor |-> approvals[a].vendor, status |-> verdict, told |-> told]]
      BY <2>2, ResolveIs
    <3> DEFINE row == [vendor |-> approvals[a].vendor, status |-> verdict, told |-> told]
    <3>2. row.status = verdict /\ row.told = told
      OBVIOUS
    <3>3. approvals \in Seq(Approvals) /\ approvals' = [approvals EXCEPT ![a] = row]
      BY <3>1 DEF TypeOK, Approvals
    <3> HIDE DEF row
    <3>4. Len(approvals') = Len(approvals) /\ approvals'[a] = row
          /\ \A b \in 1 .. Len(approvals) : b # a => approvals'[b] = approvals[b]
      BY <3>3
    <3> QED BY <3>1, <3>2, <3>4 DEF MindraAgrees
  <2>3. CASE UNCHANGED approvals
    BY <2>3 DEF MindraAgrees
  <2>4. \/ UNCHANGED approvals
        \/ \E offered \in Offers : AskHuman(offered)
        \/ \E a \in 1 .. Len(approvals), verdict \in Verdicts : Resolve(a, verdict)
    BY DEF Next, vars, Start, Blocked, Buy, Pay, Charge, NoAnswer, Answer, Write,
       RecordPurchase, RecordBudget, UpdateProfile, BreakOff, Midnight
  <2> QED BY <2>1, <2>2, <2>3, <2>4
<1> QED BY <1>1, <1>2, TypeCorrect, PTL DEF Spec

-----------------------------------------------------------------------------
(* Profiles and purchases.                                                 *)

(* What a run carries from its purchase to the profile: the rolling ROI    *)
(* was computed before the purchase is in its table, and is that of the    *)
(* table from then on.                                                     *)
Carried ==
  /\ run.stage = "answered" =>
       run.rolling = Rolling(Append(Recent(run.vendor), run.score))
  /\ run.stage \in {"recorded", "booked"} =>
       /\ run.vendor \in strayed
       /\ run.fresh => Recent(run.vendor) # <<>> /\ run.rolling = Rolling(Recent(run.vendor))

PInv == Carried /\ ProfileFollows

LEMMA RecentSame ==
  UNCHANGED purchases => \A v : Recent(v)' = Recent(v)
  BY DEF Recent

(* A step that leaves purchases and profiles alone, and whose run is at    *)
(* no stage that carries anything.                                         *)
LEMMA NothingCarried ==
  ASSUME PInv, UNCHANGED <<purchases, profile, strayed>>,
         run'.stage \notin {"answered", "recorded", "booked"}
  PROVE  PInv'
  BY RecentSame DEF PInv, Carried, ProfileFollows

LEMMA AnswerFollows ==
  ASSUME TypeOK, PInv, NEW credits, NEW score, Answer(credits, score)
  PROVE  PInv'
<1>1. UNCHANGED <<purchases, profile, strayed>>
  BY DEF Answer
<1>2. /\ run'.stage = "answered" /\ run'.vendor = run.vendor /\ run'.score = score
      /\ run'.rolling = Rolling(Append(Recent(run.vendor), score))
  BY DEF Answer
<1>3. Carried'
  BY <1>1, <1>2, RecentSame DEF Carried
<1>4. ProfileFollows'
  BY <1>1, RecentSame DEF PInv, ProfileFollows
<1> QED BY <1>3, <1>4 DEF PInv

LEMMA RecordPurchaseFollows ==
  ASSUME TypeOK, PInv, RecordPurchase
  PROVE  PInv'
<1> DEFINE v == run.vendor
           row == [trace |-> run.trace, vendor |-> v, score |-> run.score]
           scores == ScoresOf(v, purchases)
<1>1. run.stage = "answered" /\ v \in Vendors /\ run.score \in Scores /\ run.trace \in Traces
  BY RunIs DEF RecordPurchase
<1>2. /\ run'.stage = "recorded" /\ run'.vendor = v /\ run'.rolling = run.rolling
      /\ run'.fresh = ~Recorded /\ strayed' = strayed \union {v} /\ profile' = profile
      /\ purchases' = IF Recorded THEN purchases ELSE Append(purchases, row)
  BY DEF RecordPurchase
<1>3. purchases \in Seq(Purchases) /\ row \in Purchases /\ scores \in Seq(Scores)
  BY <1>1, RecentTyped DEF TypeOK, Purchases
<1>4. ~Recorded => Recent(v)' = LastThree(Append(scores, run.score))
  <2>1. ScoresOf(v, Append(purchases, row)) = Append(scores, run.score)
    BY <1>3, ScoresGrow
  <2> QED BY <1>2, <2>1 DEF Recent
<1>5. run.rolling = Rolling(Append(Recent(v), run.score))
  BY <1>1 DEF PInv, Carried
(* The window of the table after the purchase is the one that the run      *)
(* averaged over before it.                                                *)
<1>6. run.rolling = Rolling(LastThree(Append(scores, run.score)))
  <2>1. LastThree(Append(Recent(v), run.score)) = LastThree(Append(scores, run.score))
    BY <1>1, <1>3, WindowMoves DEF Recent
  <2>2. Append(scores, run.score) \in Seq(Scores)
    BY <1>1, <1>3
  <2>3. LastThree(LastThree(Append(scores, run.score))) = LastThree(Append(scores, run.score))
    BY <1>1, <2>2, WindowMoves
  <2> QED BY <1>5, <2>1, <2>3 DEF Rolling
<1>7. ~Recorded => Recent(v)' # <<>> /\ run.rolling = Rolling(Recent(v)')
  BY <1>1, <1>3, <1>4, <1>6, WindowMoves
<1>8. ASSUME NEW w \in Vendors, w # v PROVE Recent(w)' = Recent(w)
  <2>1. ScoresOf(w, Append(purchases, row)) = ScoresOf(w, purchases)
    BY <1>3, <1>8, ScoresGrow
  <2> QED BY <1>2, <2>1 DEF Recent
<1> HIDE DEF v, row, scores
<1>9. Carried'
  BY <1>2, <1>7 DEF Carried, v
<1>10. ProfileFollows'
  BY <1>2, <1>8 DEF PInv, ProfileFollows
<1> QED BY <1>9, <1>10 DEF PInv

LEMMA RecordBudgetFollows ==
  ASSUME PInv, RecordBudget
  PROVE  PInv'
<1>1. UNCHANGED <<purchases, profile, strayed>>
  BY DEF RecordBudget
<1>2. /\ run.stage = "recorded" /\ run'.stage = "booked" /\ run'.vendor = run.vendor
      /\ run'.rolling = run.rolling /\ run'.fresh = run.fresh
  BY DEF RecordBudget
<1>3. Carried'
  BY <1>1, <1>2, RecentSame DEF PInv, Carried
<1>4. ProfileFollows'
  BY <1>1, RecentSame DEF PInv, ProfileFollows
<1> QED BY <1>3, <1>4 DEF PInv

LEMMA UpdateProfileFollows ==
  ASSUME TypeOK, PInv, UpdateProfile
  PROVE  PInv'
<1> DEFINE v == run.vendor
<1>1. /\ run.stage = "booked" /\ v \in Vendors /\ profile \in [Vendors -> Int \union {None}]
      /\ run' = NoRun /\ profile' = [profile EXCEPT ![v] = run.rolling]
      /\ strayed' = (IF run.fresh THEN strayed \ {v} ELSE strayed) /\ purchases' = purchases
  BY RunIs DEF UpdateProfile, TypeOK
<1>2. v \in strayed /\ (run.fresh => Recent(v) # <<>> /\ run.rolling = Rolling(Recent(v)))
  BY <1>1 DEF PInv, Carried
<1> HIDE DEF v
<1>3. ASSUME NEW w \in Vendors, w \notin strayed'
      PROVE  profile'[w] = IF Recent(w)' = <<>> THEN None ELSE Rolling(Recent(w)')
  <2>1. CASE w = v
    <3>1. run.fresh
      BY <1>1, <1>2, <1>3, <2>1
    <3> QED BY <1>1, <1>2, <2>1, <3>1, RecentSame
  <2>2. CASE w # v
    <3>1. w \notin strayed /\ profile'[w] = profile[w]
      BY <1>1, <1>3, <2>2
    <3>2. profile[w] = IF Recent(w) = <<>> THEN None ELSE Rolling(Recent(w))
      BY <3>1 DEF PInv, ProfileFollows
    <3> QED BY <1>1, <3>1, <3>2, RecentSame
  <2> QED BY <2>1, <2>2
<1>4. Carried'
  BY <1>1 DEF Carried, NoRun
<1>5. ProfileFollows'
  BY <1>3 DEF ProfileFollows
<1> QED BY <1>4, <1>5 DEF PInv

LEMMA PInvStep == TypeOK /\ PInv /\ [Next]_vars => PInv'
<1> SUFFICES ASSUME TypeOK, PInv, [Next]_vars PROVE PInv'
  OBVIOUS
<1>1. CASE Start
  <2>1. PICK offered \in Offers :
          \/ Blocked(offered) \/ AskHuman(offered)
          \/ \E trace \in Traces, auto \in BOOLEAN : Buy(trace, offered, auto)
    BY <1>1 DEF Start
  <2>2. run.stage = "idle" /\ UNCHANGED <<purchases, profile, strayed>>
    BY <2>1 DEF Blocked, AskHuman, Buy, Begin, NoRun
  <2>3. run' = run \/ run'.stage = "buying"
    BY <2>1 DEF Blocked, AskHuman, Buy
  <2> QED BY <2>2, <2>3, NothingCarried
<1>2. CASE Pay
  <2>1. CASE Charge
    BY <2>1, NothingCarried DEF Charge
  <2>2. CASE NoAnswer
    BY <2>2, NothingCarried DEF NoAnswer, NoRun
  <2> QED BY <1>2, <2>1, <2>2, AnswerFollows DEF Pay
<1>3. CASE Write
  BY <1>3, RecordPurchaseFollows, RecordBudgetFollows, UpdateProfileFollows DEF Write
<1>4. CASE BreakOff
  BY <1>4, NothingCarried DEF BreakOff, NoRun
<1>5. CASE UNCHANGED <<run, purchases, profile, strayed>>
  BY <1>5, RecentSame DEF PInv, Carried, ProfileFollows
<1>6. CASE Midnight
  BY <1>5, <1>6 DEF Midnight
<1>7. CASE \E a \in 1 .. Len(approvals), verdict \in Verdicts : Resolve(a, verdict)
  BY <1>5, <1>7 DEF Resolve
<1>8. CASE UNCHANGED vars
  BY <1>5, <1>8 DEF vars
<1> QED BY <1>1, <1>2, <1>3, <1>4, <1>6, <1>7, <1>8 DEF Next

LEMMA PInvInitially == Init => PInv
<1> SUFFICES ASSUME Init PROVE PInv
  OBVIOUS
<1>1. /\ run.stage = "idle" /\ purchases = <<>> /\ \A v \in Vendors : profile[v] = None
  BY DEF Init, NoRun
<1>2. ASSUME NEW v PROVE Recent(v) = <<>>
  <2>1. purchases \in Seq(Purchases) /\ Len(purchases) = 0
    BY <1>1
  <2>2. PICK f : CountsUpTo(f, v, purchases, 0) /\ ScoresOf(v, purchases) = f[0]
    BY <2>1, ScoresAre
  <2>3. ScoresOf(v, purchases) = <<>>
    BY <2>2 DEF CountsUpTo
  <2> QED BY <2>3 DEF Recent, LastThree
<1> QED BY <1>1, <1>2 DEF PInv, Carried, ProfileFollows

(* The profile that forecasts are made from is the rolling average of the  *)
(* vendor's purchases, unless its last run broke off between the tables or *)
(* found its purchase recorded: however many purchases there are, the      *)
(* average taken before the purchase is written is the table's afterwards. *)
THEOREM ProfileFollowsAlways == Spec => []ProfileFollows
<1>1. PInv => ProfileFollows
  BY DEF PInv
<1>2. Spec => []PInv
  BY TypeCorrect, PInvInitially, PInvStep, PTL DEF Spec
<1> QED BY <1>1, <1>2, PTL
=============================================================================
