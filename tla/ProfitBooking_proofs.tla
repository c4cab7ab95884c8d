------------------------- MODULE ProfitBooking_proofs -------------------------
(***************************************************************************)
(* The types of ProfitBooking and what it promises of the books, for every    *)
(* number of lots, closers and gaps.                                         *)
(*                                                                         *)
(* That no profit is booked twice is not inductive: what a thread has read and *)
(* resolved may be written long after.  JobsBacked says that what a thread     *)
(* would write, and what it would add up from its row and its order, is backed *)
(* by lots that are sold; lots are never unsold, so it stays backed.          *)
(***************************************************************************)
EXTENDS ProfitBooking, FiniteSetTheorems, TLAPS

Sold == Cardinality(sold)

BackedBy(j, n) ==
    /\ j.total <= n
    /\ j.prior + j.leg <= n
    /\ j.prior + Cardinality(j.order) <= n

JobsBacked == ~guessed => result.pnl <= Sold /\ \A t \in Bookers : BackedBy(job[t], Sold)

Backed == ProfitTypeOK /\ JobsBacked
-----------------------------------------------------------------------------
(* Sets of lots, and how many are sold.                                      *)
LEMMA CountOfLots ==
  ASSUME NEW S \in SUBSET Pieces
  PROVE  IsFiniteSet(S) /\ Cardinality(S) \in Nat
BY ProfitAssumption, FS_Subset, FS_CardinalityType

LEMMA FewerLots ==
  ASSUME NEW S \in SUBSET Pieces, NEW T \in SUBSET S
  PROVE  Cardinality(T) <= Cardinality(S)
BY CountOfLots, FS_Subset

LEMMA SizeType == Size \in Nat
BY CountOfLots DEF Size

LEMMA MoreLots ==
  ASSUME NEW S \in SUBSET Pieces, NEW T \in SUBSET (Pieces \ S)
  PROVE  Cardinality(S \cup T) = Cardinality(S) + Cardinality(T)
<1>1. IsFiniteSet(S) /\ IsFiniteSet(T) /\ Cardinality(S) \in Nat /\ Cardinality(T) \in Nat
  BY CountOfLots
<1>2. S \cap T = {} OBVIOUS
<1>3. Cardinality(S \cup T) = Cardinality(S) + Cardinality(T) - Cardinality(S \cap T)
  BY <1>1, FS_Union
<1>4. Cardinality(S \cap T) = 0 BY <1>2, FS_EmptySet
<1>5. QED BY <1>1, <1>3, <1>4

LEMMA NoJobFits == NoJob \in Jobs /\ \A n \in Nat : BackedBy(NoJob, n)
<1>1. Cardinality({}) = 0 BY FS_EmptySet
<1>2. QED BY <1>1 DEF NoJob, Jobs, BackedBy

(* What a question is answered with.                                         *)
LEMMA LegIsPaid ==
  ASSUME ProfitTypeOK, NEW t \in Bookers, NEW n \in LegAnswers(t)
  PROVE  n \in Nat /\ n <= Cardinality(job[t].order)
<1>1. job[t].order \in SUBSET Pieces BY DEF ProfitTypeOK, Jobs
<1>2. tracked \cap job[t].order \in SUBSET job[t].order OBVIOUS
<1>3. tracked \cap job[t].order \in SUBSET Pieces BY <1>1
<1>4. n \in {Cardinality(tracked \cap job[t].order), 0, Cardinality(job[t].order)}
  BY DEF LegAnswers
<1>5. Cardinality(job[t].order) \in Nat /\ Cardinality(tracked \cap job[t].order) \in Nat
  BY <1>1, <1>3, CountOfLots
<1>6. Cardinality(tracked \cap job[t].order) <= Cardinality(job[t].order)
  BY <1>1, <1>2, FewerLots
<1>7. QED BY <1>4, <1>5, <1>6

LEMMA LifecycleIsPaid ==
  ASSUME ProfitTypeOK, NEW t \in Bookers, NEW n \in LifecycleAnswers(t)
  PROVE  n \in Nat /\ n <= Sold
<1>1. sold \in SUBSET Pieces /\ tracked \in SUBSET sold /\ tracked \in SUBSET Pieces
  BY DEF ProfitTypeOK
<1>2. Sold \in Nat /\ Cardinality(tracked) \in Nat /\ Cardinality(tracked) <= Sold
  BY <1>1, CountOfLots, FewerLots DEF Sold
<1>3. n \in {Cardinality(tracked), 0, Sold} BY DEF LifecycleAnswers, Sold
<1>4. QED BY <1>2, <1>3

LEMMA ProfitIsPaid ==
  ASSUME ProfitTypeOK, NEW t \in Bookers, NEW booked \in Nat, NEW p \in Profits(t, booked)
  PROVE  /\ p.profit \in Nat /\ p.guess \in BOOLEAN
         /\ ~p.guess => p.profit <= Sold \/ p.profit = booked \/ p.profit = 0
<1>1. \/ \E n \in LifecycleAnswers(t) : p = Made(n)
      \/ p \in {Made(booked), Made(0), Guessed(Size + 1)}
  BY DEF Profits, Estimates
<1>2. ASSUME NEW n \in LifecycleAnswers(t), p = Made(n)
      PROVE  p.profit \in Nat /\ p.guess \in BOOLEAN /\ p.profit <= Sold
  <2>1. n \in Nat /\ n <= Sold BY LifecycleIsPaid
  <2>2. QED BY <1>2, <2>1 DEF Made
<1>3. CASE p = Made(booked)
  BY <1>3 DEF Made
<1>4. CASE p = Made(0)
  BY <1>4 DEF Made
<1>5. CASE p = Guessed(Size + 1)
  <2>1. p.profit = Size + 1 /\ p.guess = TRUE BY <1>5 DEF Guessed
  <2>2. p.profit \in Nat BY <2>1, SizeType
  <2>3. QED BY <2>1, <2>2, Zenon
<1>6. QED BY <1>1, <1>2, <1>3, <1>4, <1>5

LEMMA FullIsPaid ==
  ASSUME ProfitTypeOK, NEW t \in Bookers, NEW p \in FullProfits(t)
  PROVE  /\ p.profit \in Nat /\ p.guess \in BOOLEAN
         /\ ~p.guess => \/ p.profit <= Sold \/ p.profit = job[t].prior \/ p.profit = 0
                        \/ p.profit = job[t].prior + job[t].leg
<1>1. job[t].prior \in Nat /\ job[t].leg \in Nat BY DEF ProfitTypeOK, Jobs
<1>2. \/ \E n \in LifecycleAnswers(t) : p = Made(n)
      \/ p = Made(job[t].prior + job[t].leg)
      \/ p \in Profits(t, job[t].prior)
  BY DEF FullProfits
<1>3. ASSUME NEW n \in LifecycleAnswers(t), p = Made(n)
      PROVE  p.profit \in Nat /\ p.guess \in BOOLEAN /\ p.profit <= Sold
  <2>1. n \in Nat /\ n <= Sold BY LifecycleIsPaid
  <2>2. QED BY <1>3, <2>1 DEF Made
<1>4. CASE p = Made(job[t].prior + job[t].leg)
  BY <1>1, <1>4 DEF Made
<1>5. CASE p \in Profits(t, job[t].prior)
  BY <1>1, <1>5, ProfitIsPaid
<1>6. QED BY <1>2, <1>3, <1>4, <1>5
-----------------------------------------------------------------------------
(* What a step keeps: lots stay sold, and one thread's job changes at a time.  *)
Claims == {"none", "main", "close_pipeline", "watchdog"}

LEMMA NoneUnsold ==
  ASSUME ProfitTypeOK, sold' \in SUBSET Pieces, sold \subseteq sold'
  PROVE  Sold \in Nat /\ Sold' \in Nat /\ Sold <= Sold'
<1>1. sold \in SUBSET sold' /\ sold \in SUBSET Pieces OBVIOUS
<1>2. QED BY <1>1, CountOfLots, FewerLots DEF Sold

LEMMA StillBacked ==
  ASSUME NEW j \in Jobs, NEW m \in Nat, NEW n \in Nat, m <= n, BackedBy(j, m)
  PROVE  BackedBy(j, n)
<1>1. Cardinality(j.order) \in Nat /\ j.prior \in Nat /\ j.leg \in Nat /\ j.total \in Nat
  BY CountOfLots DEF Jobs
<1>2. QED BY <1>1 DEF BackedBy

LEMMA OneJob ==
  ASSUME Backed, sold' \in SUBSET Pieces, sold \subseteq sold', UNCHANGED result,
         guessed => guessed', NEW t \in Bookers, NEW j \in Jobs,
         job' = [job EXCEPT ![t] = j], ~guessed' => BackedBy(j, Sold')
  PROVE  job' \in [Bookers -> Jobs] /\ JobsBacked'
<1>1. job \in [Bookers -> Jobs] /\ result.pnl \in Nat
  BY DEF Backed, ProfitTypeOK
<1>2. Sold \in Nat /\ Sold' \in Nat /\ Sold <= Sold'
  BY NoneUnsold DEF Backed
<1>3. job' \in [Bookers -> Jobs] BY <1>1
<1>4. ASSUME ~guessed' PROVE result'.pnl <= Sold' /\ \A u \in Bookers : BackedBy(job'[u], Sold')
  <2>1. result.pnl <= Sold /\ \A u \in Bookers : BackedBy(job[u], Sold)
    BY <1>4 DEF Backed, JobsBacked
  <2>2. ASSUME NEW u \in Bookers PROVE BackedBy(job'[u], Sold')
    <3>1. CASE u = t BY <1>1, <1>4, <3>1
    <3>2. CASE u # t
      <4>1. job'[u] = job[u] /\ job[u] \in Jobs BY <1>1, <3>2
      <4>2. BackedBy(job[u], Sold') BY <1>2, <2>1, <4>1, StillBacked
      <4>3. QED BY <4>1, <4>2
    <3>3. QED BY <3>1, <3>2
  <2>3. QED BY <1>1, <1>2, <2>1, <2>2
<1>5. QED BY <1>3, <1>4 DEF JobsBacked

LEMMA SameJobs ==
  ASSUME Backed, sold' \in SUBSET Pieces, sold \subseteq sold', UNCHANGED <<result, job>>,
         guessed => guessed'
  PROVE  job' \in [Bookers -> Jobs] /\ JobsBacked'
<1>1. Watchdog \in Bookers /\ job \in [Bookers -> Jobs]
  BY DEF Backed, ProfitTypeOK, Bookers
<1>2. job' = [job EXCEPT ![Watchdog] = job[Watchdog]] /\ job[Watchdog] \in Jobs BY <1>1
<1>3. ~guessed' => BackedBy(job[Watchdog], Sold')
  <2>1. Sold \in Nat /\ Sold' \in Nat /\ Sold <= Sold' BY NoneUnsold DEF Backed
  <2>2. ~guessed => BackedBy(job[Watchdog], Sold) BY <1>1 DEF Backed, JobsBacked
  <2>3. QED BY <1>2, <2>1, <2>2, StillBacked
<1>4. QED BY <1>1, <1>2, <1>3, OneJob

LEMMA Moved ==
  ASSUME ProfitTypeOK, NEW t \in Bookers, NEW label \in Labels, MovesTo(t, label)
  PROVE  step' \in [Bookers -> Labels]
BY DEF ProfitTypeOK, MovesTo

(* A step of a thread that sells nothing and does not write the row.          *)
LEMMA JobStep ==
  ASSUME Backed, UNCHANGED <<fillVars, result, gaps>>,
         day' \in Int, behind' \in BOOLEAN, closeClaim' \in Claims,
         guessed' \in BOOLEAN, guessed => guessed',
         NEW t \in Bookers, NEW label \in Labels, MovesTo(t, label),
         NEW j \in Jobs, job' = [job EXCEPT ![t] = j], ~guessed' => BackedBy(j, Sold)
  PROVE  Backed'
<1>1. UNCHANGED <<sold, onWay, tracked>> BY DEF fillVars
<1>2. sold \in SUBSET Pieces BY DEF Backed, ProfitTypeOK
<1>3. Sold' = Sold BY <1>1 DEF Sold
<1>4. job' \in [Bookers -> Jobs] /\ JobsBacked' BY <1>1, <1>2, <1>3, OneJob
<1>5. step' \in [Bookers -> Labels] BY Moved DEF Backed
<1>6. QED BY <1>1, <1>4, <1>5 DEF Backed, ProfitTypeOK, Claims

LEMMA LastKept ==
  ASSUME Backed, NEW t \in Bookers
  PROVE  /\ job[t] \in Jobs /\ job[t].prior \in Nat /\ job[t].leg \in Nat /\ job[t].total \in Nat
         /\ Cardinality(job[t].order) \in Nat /\ Sold \in Nat /\ result.pnl \in Nat
         /\ ~guessed => BackedBy(job[t], Sold) /\ result.pnl <= Sold
<1>1. job[t] \in Jobs /\ sold \in SUBSET Pieces /\ result.pnl \in Nat
  BY DEF Backed, ProfitTypeOK
<1>2. job[t].order \in SUBSET Pieces BY <1>1 DEF Jobs
<1>3. QED BY <1>1, <1>2, CountOfLots DEF Backed, JobsBacked, Jobs, Sold

LEMMA Kept == ASSUME Backed PROVE closeClaim \in Claims /\ day \in Int /\ behind \in BOOLEAN
                                  /\ guessed \in BOOLEAN
BY DEF Backed, ProfitTypeOK, Claims
-----------------------------------------------------------------------------
(* The steps of a thread on its way through a booking.                       *)
LEMMA ResolveLegBacked == ASSUME Backed, NEW t \in Bookers, ResolveLeg(t) PROVE Backed'
<1>1. PICK n \in LegAnswers(t) : job' = [job EXCEPT ![t].leg = n] BY DEF ResolveLeg
<1> DEFINE j == [job[t] EXCEPT !.leg = n]
<1>2. n \in Nat /\ n <= Cardinality(job[t].order) BY LegIsPaid DEF Backed
<1>3. j \in Jobs BY <1>2, LastKept DEF Jobs
<1>4. j.prior = job[t].prior /\ j.leg = n /\ j.total = job[t].total /\ j.order = job[t].order
  BY LastKept DEF Jobs
<1>5. ~guessed => BackedBy(j, Sold) BY <1>2, <1>4, LastKept DEF BackedBy
<1>6. job' = [job EXCEPT ![t] = j] BY <1>1
<1>7. /\ UNCHANGED <<fillVars, bookVars, closeClaim, gaps, guessed>>
      /\ MovesTo(t, "total")
  BY DEF ResolveLeg
<1>8. "total" \in Labels BY DEF Labels
<1> HIDE DEF j
<1>9. QED BY <1>3, <1>5, <1>6, <1>7, <1>8, Kept, JobStep DEF bookVars

LEMMA ResolveTotalBacked == ASSUME Backed, NEW t \in Bookers, ResolveTotal(t) PROVE Backed'
<1>1. PICK full \in CountsAsFull(t) :
         \E p \in IF full THEN FullProfits(t) ELSE {Made(job[t].prior + job[t].leg)} :
            /\ job' = [job EXCEPT ![t] = [NoJob EXCEPT !.partial = job[t].partial, !.total = p.profit,
                                                     !.delta = p.profit - job[t].prior]]
            /\ guessed' = (guessed \/ p.guess)
  BY DEF ResolveTotal
<1>2. PICK p \in IF full THEN FullProfits(t) ELSE {Made(job[t].prior + job[t].leg)} :
            /\ job' = [job EXCEPT ![t] = [NoJob EXCEPT !.partial = job[t].partial, !.total = p.profit,
                                                     !.delta = p.profit - job[t].prior]]
            /\ guessed' = (guessed \/ p.guess)
  BY <1>1
<1> DEFINE j == [NoJob EXCEPT !.partial = job[t].partial, !.total = p.profit,
                              !.delta = p.profit - job[t].prior]
<1>3. /\ p.profit \in Nat /\ p.guess \in BOOLEAN
      /\ ~p.guess => \/ p.profit <= Sold \/ p.profit = job[t].prior \/ p.profit = 0
                     \/ p.profit = job[t].prior + job[t].leg
  <2>1. CASE full BY <1>2, <2>1, FullIsPaid DEF Backed
  <2>2. CASE ~full
    <3>1. p.profit = job[t].prior + job[t].leg /\ p.guess = FALSE BY <1>2, <2>2 DEF Made
    <3>2. p.profit \in Nat BY <3>1, LastKept
    <3>3. QED BY <3>1, <3>2, Zenon
  <2>3. QED BY <2>1, <2>2
<1>4. j \in Jobs
  <2>1. job[t].partial \in BOOLEAN BY LastKept DEF Jobs
  <2>2. p.profit - job[t].prior \in Int BY <1>3, LastKept
  <2>3. QED BY <1>3, <2>1, <2>2 DEF Jobs, NoJob
<1>5. j.prior = 0 /\ j.leg = 0 /\ j.total = p.profit /\ j.order = {} BY DEF NoJob
<1>6. ASSUME ~guessed, ~p.guess PROVE BackedBy(j, Sold)
  <2>1. p.profit <= Sold BY <1>3, <1>6, LastKept DEF BackedBy
  <2>2. Cardinality(j.order) = 0 BY <1>5, FS_EmptySet
  <2>3. QED BY <1>5, <2>1, <2>2, LastKept DEF BackedBy
<1>7. /\ UNCHANGED <<fillVars, bookVars, closeClaim, gaps>>
      /\ MovesTo(t, IF t = Watchdog /\ ~job[t].partial THEN "mark" ELSE "row")
  BY DEF ResolveTotal
<1>8. (IF t = Watchdog /\ ~job[t].partial THEN "mark" ELSE "row") \in Labels BY DEF Labels
<1> HIDE DEF j
<1>9. job' = [job EXCEPT ![t] = j] BY <1>2 DEF j
<1>10. guessed' \in BOOLEAN /\ (guessed => guessed') /\ (~guessed' => ~guessed /\ ~p.guess)
  BY <1>2, Zenon
<1>11. QED BY <1>4, <1>6, <1>7, <1>8, <1>9, <1>10, Kept, JobStep DEF bookVars

LEMMA UpdateTradeBacked == ASSUME Backed, NEW t \in Bookers, UpdateTrade(t) PROVE Backed'
<1>1. /\ result' = [closed |-> result.closed /\ t # Watchdog, pnl |-> job[t].total]
      /\ UNCHANGED <<sold, onWay, tracked, day, behind, closeClaim, job, gaps, guessed>>
      /\ MovesTo(t, "add")
  BY DEF UpdateTrade, fillVars
<1>2. result'.pnl = job[t].total /\ result'.closed \in BOOLEAN BY <1>1
<1>3. result' \in [closed : BOOLEAN, pnl : Nat] BY <1>1, LastKept
<1>4. JobsBacked' BY <1>1, <1>2, LastKept DEF Backed, JobsBacked, BackedBy, Sold
<1>5. step' \in [Bookers -> Labels] BY <1>1, Moved DEF Labels, Backed
<1>6. QED BY <1>1, <1>3, <1>4, <1>5 DEF Backed, ProfitTypeOK

LEMMA AddDailyBacked == ASSUME Backed, NEW t \in Bookers, AddDaily(t) PROVE Backed'
<1> DEFINE j == [job[t] EXCEPT !.delta = 0]
<1>1. job' = [job EXCEPT ![t] = j] BY DEF AddDaily
<1>2. job[t].delta \in Int BY LastKept DEF Jobs
<1>3. j \in Jobs BY LastKept DEF Jobs
<1>4. j.prior = job[t].prior /\ j.leg = job[t].leg /\ j.total = job[t].total /\ j.order = job[t].order
  BY LastKept DEF Jobs
<1>5. ~guessed => BackedBy(j, Sold) BY <1>4, LastKept DEF BackedBy
<1>6. /\ UNCHANGED <<fillVars, result, behind, closeClaim, gaps, guessed>>
      /\ day' = day + job[t].delta
      /\ MovesTo(t, "read")
  BY DEF AddDaily
<1>7. "read" \in Labels BY DEF Labels
<1> HIDE DEF j
<1>8. day' \in Int BY <1>2, <1>6, Kept
<1>9. guessed' \in BOOLEAN /\ behind' \in BOOLEAN /\ closeClaim' \in Claims BY <1>6, Kept
<1>10. QED BY <1>1, <1>3, <1>5, <1>6, <1>7, <1>8, <1>9, JobStep

LEMMA AnalyticsType == ASSUME Backed PROVE Analytics \in Nat
BY LastKept DEF Analytics, Backed, ProfitTypeOK

LEMMA SyncReadBacked == ASSUME Backed, NEW t \in Bookers, SyncRead(t) PROVE Backed'
<1> DEFINE j == [job[t] EXCEPT !.day = Analytics]
<1>1. job' = [job EXCEPT ![t] = j] BY DEF SyncRead
<1>2. j \in Jobs BY LastKept, AnalyticsType DEF Jobs
<1>3. j.prior = job[t].prior /\ j.leg = job[t].leg /\ j.total = job[t].total /\ j.order = job[t].order
  BY LastKept DEF Jobs
<1>4. ~guessed => BackedBy(j, Sold) BY <1>3, LastKept DEF BackedBy
<1>5. UNCHANGED <<fillVars, bookVars, closeClaim, gaps, guessed>> /\ MovesTo(t, "write")
  BY DEF SyncRead
<1>6. "write" \in Labels BY DEF Labels
<1> HIDE DEF j
<1>7. QED BY <1>1, <1>2, <1>4, <1>5, <1>6, Kept, JobStep DEF bookVars

LEMMA RestsBacked ==
  ASSUME Backed, NEW t \in Bookers, Rests(t), UNCHANGED <<fillVars, result, gaps, guessed>>,
         day' \in Int, behind' \in BOOLEAN, closeClaim' \in Claims
  PROVE  Backed'
<1>1. MovesTo(t, "idle") /\ job' = [job EXCEPT ![t] = NoJob] BY DEF Rests
<1>2. "idle" \in Labels BY DEF Labels
<1>3. BackedBy(NoJob, Sold) BY LastKept, NoJobFits
<1>4. QED BY <1>1, <1>2, <1>3, NoJobFits, Kept, JobStep

LEMMA GivenBack == ASSUME Backed, NEW t \in Bookers, GivesBack(t) PROVE closeClaim' \in Claims
BY Kept DEF GivesBack, Claims

LEMMA SyncWriteBacked == ASSUME Backed, NEW t \in Bookers, SyncWrite(t) PROVE Backed'
<1>1. /\ UNCHANGED <<fillVars, result, gaps, guessed>>
      /\ day' = job[t].day /\ behind' = (job[t].day # Analytics)
  BY DEF SyncWrite
<1>2. day' \in Int /\ behind' \in BOOLEAN
  <2>1. job[t].day \in Nat BY LastKept DEF Jobs
  <2>2. QED BY <1>1, <2>1
<1>3. CASE t = Worker /\ ~job[t].partial /\ ~job[t].closing
  <2> DEFINE j == [job[t] EXCEPT !.day = 0]
  <2>1. MovesTo(t, "mark") /\ job' = [job EXCEPT ![t] = j] /\ UNCHANGED closeClaim
    BY <1>3 DEF SyncWrite
  <2>2. j \in Jobs BY LastKept DEF Jobs
  <2>3. /\ j.prior = job[t].prior /\ j.leg = job[t].leg
        /\ j.total = job[t].total /\ j.order = job[t].order
    BY LastKept DEF Jobs
  <2>4. ~guessed => BackedBy(j, Sold) BY <2>3, LastKept DEF BackedBy
  <2>5. "mark" \in Labels BY DEF Labels
  <2> HIDE DEF j
  <2>6. QED BY <1>1, <1>2, <2>1, <2>2, <2>4, <2>5, Kept, JobStep
<1>4. CASE ~(t = Worker /\ ~job[t].partial /\ ~job[t].closing)
  <2>1. Rests(t) /\ GivesBack(t) BY <1>4 DEF SyncWrite, Ends
  <2>2. QED BY <1>1, <1>2, <2>1, GivenBack, RestsBacked
<1>5. QED BY <1>3, <1>4

(* A job that starts from the row.                                           *)
LEMMA FromRow ==
  ASSUME Backed, NEW j \in Jobs,
         j.prior = result.pnl, j.leg = 0, j.total = 0, j.order = {}
  PROVE  ~guessed => BackedBy(j, Sold)
<1>1. result.pnl \in Nat BY DEF Backed, ProfitTypeOK
<1>2. Cardinality(j.order) = 0 BY FS_EmptySet
<1>3. Sold \in Nat /\ (~guessed => result.pnl <= Sold)
  BY CountOfLots DEF Backed, ProfitTypeOK, JobsBacked, Sold
<1>4. QED BY <1>1, <1>2, <1>3 DEF BackedBy

LEMMA FindGoneBacked == ASSUME Backed, NEW t \in Bookers, FindGone(t) PROVE Backed'
<1> DEFINE j == [NoJob EXCEPT !.prior = result.pnl]
<1>1. job' = [job EXCEPT ![t] = j] BY DEF FindGone
<1>2. j \in Jobs BY NoJobFits DEF Backed, ProfitTypeOK, Jobs
<1>3. j.prior = result.pnl /\ j.leg = 0 /\ j.total = 0 /\ j.order = {} BY DEF NoJob
<1>4. UNCHANGED <<fillVars, bookVars, closeClaim, gaps, guessed>> /\ MovesTo(t, "gone")
  BY DEF FindGone
<1>5. "gone" \in Labels BY DEF Labels
<1> HIDE DEF j
<1>6. ~guessed => BackedBy(j, Sold) BY <1>2, <1>3, FromRow
<1>7. QED BY <1>1, <1>2, <1>4, <1>5, <1>6, Kept, JobStep DEF bookVars

LEMMA ResolveGoneBacked == ASSUME Backed, NEW t \in Bookers, ResolveGone(t) PROVE Backed'
<1>1. PICK p \in Profits(t, job[t].prior), books \in BOOLEAN :
         /\ job' = [job EXCEPT ![t] = [NoJob EXCEPT !.total = p.profit, !.books = books]]
         /\ guessed' = (guessed \/ p.guess)
  BY DEF ResolveGone
<1> DEFINE j == [NoJob EXCEPT !.total = p.profit, !.books = books]
<1>2. /\ p.profit \in Nat /\ p.guess \in BOOLEAN
      /\ ~p.guess => p.profit <= Sold \/ p.profit = job[t].prior \/ p.profit = 0
  BY LastKept, ProfitIsPaid DEF Backed
<1>3. j \in Jobs
  <2>1. p.profit \in Nat /\ books \in BOOLEAN BY <1>2
  <2>2. QED BY <2>1, NoJobFits DEF Jobs
<1>4. j.prior = 0 /\ j.leg = 0 /\ j.total = p.profit /\ j.order = {} BY DEF NoJob
<1>5. ASSUME ~guessed, ~p.guess PROVE BackedBy(j, Sold)
  <2>1. p.profit <= Sold BY <1>2, <1>5, LastKept DEF BackedBy
  <2>2. Cardinality(j.order) = 0 BY <1>4, FS_EmptySet
  <2>3. QED BY <1>4, <2>1, <2>2, LastKept DEF BackedBy
<1>6. UNCHANGED <<fillVars, bookVars, closeClaim, gaps>> /\ MovesTo(t, "mark")
  BY DEF ResolveGone
<1>7. "mark" \in Labels BY DEF Labels
<1> HIDE DEF j
<1>8. job' = [job EXCEPT ![t] = j] BY <1>1 DEF j
<1>9. guessed' \in BOOLEAN /\ (guessed => guessed') /\ (~guessed' => ~guessed /\ ~p.guess)
  BY <1>1, Zenon
<1>10. QED BY <1>3, <1>5, <1>6, <1>7, <1>8, <1>9, Kept, JobStep DEF bookVars

LEMMA MarkSkipsBacked == ASSUME Backed, NEW t \in Bookers, MarkSkips(t) PROVE Backed'
BY GivenBack, RestsBacked, Kept DEF MarkSkips, Ends, bookVars

LEMMA MarkBeginsBacked == ASSUME Backed, NEW t \in Bookers, MarkBegins(t) PROVE Backed'
<1>1. PICK p \in IF t \in Closers /\ job[t].total = 0
                 THEN Profits(t, result.pnl) ELSE {Made(job[t].total)} :
         /\ job' = [job EXCEPT
                ![t].total = p.profit, ![t].closing = TRUE, ![t].books = FALSE,
                ![t].delta = IF t = Watchdog \/ (job[t].books /\ p.profit # 0)
                             THEN p.profit - result.pnl ELSE 0]
         /\ guessed' = (guessed \/ p.guess)
  BY DEF MarkBegins
<1> DEFINE d == IF t = Watchdog \/ (job[t].books /\ p.profit # 0) THEN p.profit - result.pnl ELSE 0
           j == [job[t] EXCEPT !.total = p.profit, !.closing = TRUE, !.books = FALSE, !.delta = d]
<1>2. /\ p.profit \in Nat /\ p.guess \in BOOLEAN
      /\ ~p.guess => \/ p.profit <= Sold \/ p.profit = result.pnl \/ p.profit = 0
                     \/ p.profit = job[t].total
  <2>1. CASE t \in Closers /\ job[t].total = 0
    BY <1>1, <2>1, LastKept, ProfitIsPaid DEF Backed
  <2>2. CASE ~(t \in Closers /\ job[t].total = 0)
    <3>1. p.profit = job[t].total /\ p.guess = FALSE BY <1>1, <2>2 DEF Made
    <3>2. p.profit \in Nat BY <3>1, LastKept
    <3>3. QED BY <3>1, <3>2, Zenon
  <2>3. QED BY <2>1, <2>2
<1>3. d \in Int BY <1>2, LastKept
<1>4. j \in Jobs BY <1>2, <1>3, LastKept DEF Jobs
<1>5. j.prior = job[t].prior /\ j.leg = job[t].leg /\ j.total = p.profit /\ j.order = job[t].order
  BY LastKept DEF Jobs
<1>6. ASSUME ~guessed, ~p.guess PROVE BackedBy(j, Sold)
  BY <1>2, <1>5, <1>6, LastKept DEF BackedBy
<1>7. /\ UNCHANGED <<fillVars, bookVars, gaps>> /\ MovesTo(t, "commit")
      /\ closeClaim' = IF closeClaim = "none" THEN "close_pipeline" ELSE closeClaim
  BY DEF MarkBegins
<1>8. "commit" \in Labels BY DEF Labels
<1>9. job' = [job EXCEPT ![t] = j] BY <1>1
<1> HIDE DEF j, d
<1>10. closeClaim' \in Claims BY <1>7, Kept DEF Claims
<1>11. guessed' \in BOOLEAN /\ (guessed => guessed') /\ (~guessed' => ~guessed /\ ~p.guess)
  BY <1>1, Zenon
<1>12. QED BY <1>4, <1>6, <1>7, <1>8, <1>9, <1>10, <1>11, Kept, JobStep DEF bookVars

LEMMA CloseTradeBacked == ASSUME Backed, NEW t \in Bookers, CloseTrade(t) PROVE Backed'
<1>1. UNCHANGED <<sold, onWay, tracked, day, behind, gaps, guessed>> BY DEF CloseTrade, fillVars
<1>2. CASE result.closed
  BY <1>2, <1>1, GivenBack, RestsBacked, Kept DEF CloseTrade, Ends, fillVars
<1>3. CASE ~result.closed
  <2>1. /\ result' = [closed |-> TRUE, pnl |-> job[t].total]
        /\ MovesTo(t, "add") /\ UNCHANGED <<job, closeClaim>>
    BY <1>3 DEF CloseTrade
  <2>2. result'.pnl = job[t].total /\ result' \in [closed : BOOLEAN, pnl : Nat]
    BY <2>1, LastKept
  <2>3. JobsBacked' BY <1>1, <2>1, <2>2, LastKept DEF Backed, JobsBacked, BackedBy, Sold
  <2>4. step' \in [Bookers -> Labels] BY <2>1, Moved DEF Labels, Backed
  <2>5. QED BY <1>1, <2>1, <2>2, <2>3, <2>4 DEF Backed, ProfitTypeOK
<1>4. QED BY <1>2, <1>3
-----------------------------------------------------------------------------
(* Taking a job, selling, and finding nothing to sell.                       *)
LEMMA BookersKnown == Worker \in Bookers /\ Watchdog \in Bookers
BY DEF Bookers, MainBookers

LEMMA TakesBacked ==
  ASSUME Backed, NEW t \in Bookers, NEW label \in Labels, NEW partial \in BOOLEAN,
         job' = [job EXCEPT ![t] = [NoJob EXCEPT !.partial = partial, !.prior = result.pnl]],
         MovesTo(t, label), UNCHANGED <<fillVars, bookVars, gaps, guessed>>,
         closeClaim' \in Claims
  PROVE  Backed'
<1> DEFINE j == [NoJob EXCEPT !.partial = partial, !.prior = result.pnl]
<1>1. j \in Jobs
  <2>1. result.pnl \in Nat BY DEF Backed, ProfitTypeOK
  <2>2. [NoJob EXCEPT !.partial = partial] \in Jobs BY NoJobFits DEF Jobs
  <2>3. QED BY <2>1, <2>2 DEF Jobs
<1>2. j.prior = result.pnl /\ j.leg = 0 /\ j.total = 0 /\ j.order = {} BY DEF NoJob
<1>3. job' = [job EXCEPT ![t] = j] OBVIOUS
<1> HIDE DEF j
<1>4. ~guessed => BackedBy(j, Sold) BY <1>1, <1>2, FromRow
<1>5. QED BY <1>1, <1>3, <1>4, Kept, JobStep DEF bookVars

LEMMA SellsBacked ==
  ASSUME Backed, NEW t \in Bookers, NEW S \in SUBSET (Pieces \ sold), Sell(S),
         job' = [job EXCEPT ![t].order = S], MovesTo(t, "leg"),
         UNCHANGED <<bookVars, gaps, guessed>>, closeClaim' \in Claims
  PROVE  Backed'
<1> DEFINE j == [job[t] EXCEPT !.order = S]
<1>1. sold' = sold \cup S /\ onWay' = onWay \cup S /\ tracked' = tracked BY DEF Sell
<1>2. sold \in SUBSET Pieces /\ onWay \in SUBSET sold /\ tracked \in SUBSET sold
  BY DEF Backed, ProfitTypeOK
<1>3. sold' \in SUBSET Pieces /\ sold \subseteq sold' /\ onWay' \in SUBSET sold'
      /\ tracked' \in SUBSET sold'
  BY <1>1, <1>2
<1>4. Sold' = Sold + Cardinality(S) BY <1>1, <1>2, MoreLots DEF Sold
<1>5. S \in SUBSET Pieces /\ Cardinality(S) \in Nat BY CountOfLots
<1>6. j \in Jobs BY <1>5, LastKept DEF Jobs
<1>7. j.prior = job[t].prior /\ j.leg = job[t].leg /\ j.total = job[t].total /\ j.order = S
  BY LastKept DEF Jobs
<1>8. ~guessed => BackedBy(j, Sold') BY <1>4, <1>5, <1>7, LastKept DEF BackedBy
<1>9. job' = [job EXCEPT ![t] = j] OBVIOUS
<1> HIDE DEF j
<1>10. job' \in [Bookers -> Jobs] /\ JobsBacked'
  BY <1>3, <1>6, <1>8, <1>9, OneJob DEF bookVars
<1>11. step' \in [Bookers -> Labels] BY Moved DEF Labels, Backed
<1>12. QED BY <1>3, <1>10, <1>11 DEF Backed, ProfitTypeOK, bookVars, Claims

LEMMA TakeJobBacked == ASSUME Backed, NEW partial \in BOOLEAN, TakeJob(partial) PROVE Backed'
<1>1. /\ job' = [job EXCEPT ![Worker] = [NoJob EXCEPT !.partial = partial, !.prior = result.pnl]]
      /\ MovesTo(Worker, "order") /\ closeClaim' = "main"
      /\ UNCHANGED <<fillVars, bookVars, gaps, guessed>>
  BY DEF TakeJob
<1>2. "order" \in Labels /\ closeClaim' \in Claims BY <1>1 DEF Labels, Claims
<1>3. QED BY <1>1, <1>2, BookersKnown, TakesBacked

LEMMA WatchdogReadsBacked ==
  ASSUME Backed, NEW partial \in BOOLEAN, WatchdogReads(partial) PROVE Backed'
<1>1. /\ job' = [job EXCEPT ![Watchdog] = [NoJob EXCEPT !.partial = partial, !.prior = result.pnl]]
      /\ MovesTo(Watchdog, "breach")
      /\ UNCHANGED <<fillVars, bookVars, closeClaim, gaps, guessed>>
  BY DEF WatchdogReads
<1>2. "breach" \in Labels BY DEF Labels
<1>3. QED BY <1>1, <1>2, BookersKnown, Kept, TakesBacked

LEMMA WorkerSellsBacked ==
  ASSUME Backed, NEW S \in SUBSET (Pieces \ sold), WorkerSells(S) PROVE Backed'
BY BookersKnown, Kept, SellsBacked DEF WorkerSells

LEMMA WatchdogSellsBacked ==
  ASSUME Backed, NEW S \in SUBSET (Pieces \ sold), WatchdogSells(S) PROVE Backed'
<1>1. closeClaim' \in Claims BY DEF WatchdogSells, Claims
<1>2. QED BY <1>1, BookersKnown, SellsBacked DEF WatchdogSells

LEMMA WorkerFindsNothingBacked == ASSUME Backed, WorkerFindsNothing PROVE Backed'
<1>1. UNCHANGED <<fillVars, bookVars, gaps, guessed>> BY DEF WorkerFindsNothing
<1>2. CASE MovesTo(Worker, "gone") /\ UNCHANGED <<job, closeClaim>>
  <2>1. job[Worker] \in Jobs /\ (~guessed => BackedBy(job[Worker], Sold))
    BY BookersKnown, LastKept
  <2>2. job' = [job EXCEPT ![Worker] = job[Worker]]
    BY <1>2, BookersKnown DEF Backed, ProfitTypeOK
  <2>3. "gone" \in Labels BY DEF Labels
  <2>4. QED BY <1>1, <1>2, <2>1, <2>2, <2>3, BookersKnown, Kept, JobStep DEF bookVars
<1>3. CASE Rests(Worker) /\ closeClaim' = "none"
  <2>1. closeClaim' \in Claims BY <1>3 DEF Claims
  <2>2. QED BY <1>1, <1>3, <2>1, BookersKnown, Kept, RestsBacked DEF bookVars
<1>4. QED BY <1>2, <1>3 DEF WorkerFindsNothing

LEMMA WatchdogDefersBacked == ASSUME Backed, WatchdogDefers PROVE Backed'
BY BookersKnown, Kept, RestsBacked DEF WatchdogDefers, bookVars

LEMMA WatchdogFindsNothingBacked == ASSUME Backed, WatchdogFindsNothing PROVE Backed'
<1>1. PICK p \in Estimates(result.pnl) :
         /\ job' = [job EXCEPT ![Watchdog].total = p.profit,
                               ![Watchdog].delta = p.profit - result.pnl,
                               ![Watchdog].closing = TRUE]
         /\ guessed' = (guessed \/ p.guess)
  BY DEF WatchdogFindsNothing
<1> DEFINE j == [job[Watchdog] EXCEPT !.total = p.profit, !.delta = p.profit - result.pnl,
                                      !.closing = TRUE]
<1>2. result.pnl \in Nat /\ Sold \in Nat /\ job[Watchdog] \in Jobs
      /\ (~guessed => BackedBy(job[Watchdog], Sold) /\ result.pnl <= Sold)
  BY BookersKnown, LastKept
<1>3. p.profit \in Nat /\ p.guess \in BOOLEAN
      /\ (~p.guess => p.profit = result.pnl \/ p.profit = 0)
  <2>1. CASE p = Made(result.pnl) BY <1>2, <2>1 DEF Made
  <2>2. CASE p = Made(0) BY <2>2 DEF Made
  <2>3. CASE p = Guessed(Size + 1)
    <3>1. p.profit = Size + 1 /\ p.guess = TRUE BY <2>3 DEF Guessed
    <3>2. p.profit \in Nat BY <3>1, SizeType
    <3>3. QED BY <3>1, <3>2, Zenon
  <2>4. p = Made(result.pnl) \/ p = Made(0) \/ p = Guessed(Size + 1) BY DEF Estimates
  <2>5. QED BY <2>1, <2>2, <2>3, <2>4
<1>4. p.profit - result.pnl \in Int BY <1>2, <1>3
<1>5. j \in Jobs BY <1>2, <1>3, <1>4 DEF Jobs
<1>6. /\ j.prior = job[Watchdog].prior /\ j.leg = job[Watchdog].leg
      /\ j.total = p.profit /\ j.order = job[Watchdog].order
  BY <1>2 DEF Jobs
<1>7. ASSUME ~guessed, ~p.guess PROVE BackedBy(j, Sold)
  BY <1>2, <1>3, <1>6, <1>7 DEF BackedBy
<1>8. /\ UNCHANGED <<fillVars, bookVars, gaps>> /\ MovesTo(Watchdog, "commit")
      /\ closeClaim' = "watchdog"
  BY DEF WatchdogFindsNothing
<1>9. "commit" \in Labels /\ closeClaim' \in Claims BY <1>8 DEF Labels, Claims
<1>10. job' = [job EXCEPT ![Watchdog] = j] BY <1>1
<1> HIDE DEF j
<1>11. guessed' \in BOOLEAN /\ (guessed => guessed') /\ (~guessed' => ~guessed /\ ~p.guess)
  BY <1>1, Zenon
<1>12. QED BY <1>5, <1>7, <1>8, <1>9, <1>10, <1>11, BookersKnown, Kept, JobStep DEF bookVars
-----------------------------------------------------------------------------
(* The exchange, its stream, restarts and the claim's time.                   *)
LEMMA ExchangeBacked ==
  ASSUME Backed, \/ \E S \in SUBSET (Pieces \ sold) : SellOutside(S)
                 \/ \E lot \in Pieces : RecordFill(lot)
                 \/ FillsLost \/ ClaimExpires
  PROVE  Backed'
<1>1. /\ sold' \in SUBSET Pieces /\ sold \subseteq sold'
      /\ onWay' \in SUBSET sold' /\ tracked' \in SUBSET sold'
  BY DEF Backed, ProfitTypeOK, SellOutside, Sell, RecordFill, FillsLost, ClaimExpires, fillVars
<1>2. UNCHANGED <<result, day, behind, step, job, guessed>>
  BY DEF SellOutside, RecordFill, FillsLost, ClaimExpires, bookVars
<1>3. gaps' \in 0 .. MaxGaps
  BY ProfitAssumption
  DEF Backed, ProfitTypeOK, SellOutside, RecordFill, FillsLost, ClaimExpires
<1>4. closeClaim' \in Claims
  BY Kept DEF SellOutside, RecordFill, FillsLost, ClaimExpires, Claims
<1>5. job' \in [Bookers -> Jobs] /\ JobsBacked' BY <1>1, <1>2, SameJobs
<1>6. QED BY <1>1, <1>2, <1>3, <1>4, <1>5 DEF Backed, ProfitTypeOK, Claims

LEMMA RestartBacked == ASSUME Backed, NEW process, Restart(process) PROVE Backed'
<1>1. /\ UNCHANGED <<sold, result, day, closeClaim, guessed>>
      /\ gaps < MaxGaps /\ gaps' = gaps + 1
      /\ step' = [t \in Bookers |-> IF t \in process THEN "idle" ELSE step[t]]
      /\ job' = [t \in Bookers |-> IF t \in process THEN NoJob ELSE job[t]]
      /\ behind' = (behind \/ \E t \in process : Booking(t))
  BY DEF Restart
<1>2. onWay' \in SUBSET sold /\ tracked' \in SUBSET sold
  BY DEF Restart, Backed, ProfitTypeOK
<1>3. gaps' \in 0 .. MaxGaps BY <1>1, ProfitAssumption DEF Backed, ProfitTypeOK
<1>4. step' \in [Bookers -> Labels] BY <1>1 DEF Backed, ProfitTypeOK, Labels
<1>5. job' \in [Bookers -> Jobs] BY <1>1, NoJobFits DEF Backed, ProfitTypeOK
<1>6. JobsBacked'
  <2>1. Sold \in Nat BY CountOfLots DEF Backed, ProfitTypeOK, Sold
  <2>2. BackedBy(NoJob, Sold) BY <2>1, NoJobFits
  <2>3. \A t \in Bookers : job'[t] = NoJob \/ job'[t] = job[t] BY <1>1
  <2>4. QED BY <1>1, <2>2, <2>3 DEF Backed, JobsBacked, Sold
<1>7. behind' \in BOOLEAN BY <1>1, Zenon
<1>8. QED BY <1>1, <1>2, <1>3, <1>4, <1>5, <1>6, <1>7 DEF Backed, ProfitTypeOK

LEMMA InitBacked == ProfitInit => Backed
<1> SUFFICES ASSUME ProfitInit PROVE Backed
  OBVIOUS
<1>1. Sold = 0 BY FS_EmptySet DEF ProfitInit, Sold
<1>2. gaps \in 0 .. MaxGaps BY ProfitAssumption DEF ProfitInit
<1>3. job \in [Bookers -> Jobs] /\ step \in [Bookers -> Labels]
  BY NoJobFits DEF ProfitInit, Labels
<1>4. JobsBacked
  <2>1. BackedBy(NoJob, 0) BY NoJobFits
  <2>2. QED BY <1>1, <2>1 DEF ProfitInit, JobsBacked
<1>5. sold \in SUBSET Pieces /\ onWay \in SUBSET sold /\ tracked \in SUBSET sold
  BY DEF ProfitInit
<1>6. /\ result \in [closed : BOOLEAN, pnl : Nat] /\ day \in Int
      /\ closeClaim \in {"none", "main", "close_pipeline", "watchdog"}
      /\ guessed \in BOOLEAN /\ behind \in BOOLEAN
  <2>1. result = [closed |-> FALSE, pnl |-> 0] /\ day = 0 /\ closeClaim = "none"
    BY DEF ProfitInit
  <2>2. result \in [closed : BOOLEAN, pnl : Nat] BY <2>1
  <2>3. guessed \in BOOLEAN /\ behind \in BOOLEAN BY Zenon DEF ProfitInit
  <2>4. day \in Int BY <2>1
  <2>5. QED BY <2>1, <2>2, <2>3, <2>4
<1>7. QED BY <1>2, <1>3, <1>4, <1>5, <1>6 DEF Backed, ProfitTypeOK

LEMMA NextBacked == ASSUME Backed, [ProfitNext]_profitVars PROVE Backed'
<1>1. CASE \E S \in SUBSET (Pieces \ sold) : SellOutside(S) \/ WorkerSells(S) \/ WatchdogSells(S)
  BY <1>1, ExchangeBacked, WorkerSellsBacked, WatchdogSellsBacked
<1>2. CASE (\E lot \in Pieces : RecordFill(lot)) \/ FillsLost \/ ClaimExpires
  BY <1>2, ExchangeBacked
<1>3. CASE Restart(MainBookers \cup {Report}) \/ Restart({Watchdog})
  BY <1>3, RestartBacked
<1>4. CASE \E partial \in BOOLEAN : TakeJob(partial) \/ WatchdogReads(partial)
  BY <1>4, TakeJobBacked, WatchdogReadsBacked
<1>5. CASE WorkerFindsNothing \/ WatchdogDefers \/ WatchdogFindsNothing
  BY <1>5, WorkerFindsNothingBacked, WatchdogDefersBacked, WatchdogFindsNothingBacked
<1>6. ASSUME NEW t \in Bookers, BookStep(t) PROVE Backed'
  <2>1. CASE ResolveLeg(t) \/ ResolveTotal(t) \/ UpdateTrade(t)
    BY <2>1, ResolveLegBacked, ResolveTotalBacked, UpdateTradeBacked
  <2>2. CASE AddDaily(t) \/ SyncRead(t) \/ SyncWrite(t)
    BY <2>2, AddDailyBacked, SyncReadBacked, SyncWriteBacked
  <2>3. CASE FindGone(t) \/ ResolveGone(t)
    BY <2>3, FindGoneBacked, ResolveGoneBacked
  <2>4. CASE MarkSkips(t) \/ MarkBegins(t) \/ CloseTrade(t)
    BY <2>4, MarkSkipsBacked, MarkBeginsBacked, CloseTradeBacked
  <2>5. QED BY <1>6, <2>1, <2>2, <2>3, <2>4 DEF BookStep
<1>7. CASE UNCHANGED profitVars
  <2>1. UNCHANGED <<sold, onWay, tracked, result, day, behind, closeClaim, step, job, gaps, guessed>>
    BY <1>7 DEF profitVars, fillVars, bookVars
  <2>2. sold' \in SUBSET Pieces BY <2>1 DEF Backed, ProfitTypeOK
  <2>3. JobsBacked' BY <2>1, <2>2, SameJobs
  <2>4. QED BY <2>1, <2>3 DEF Backed, ProfitTypeOK
<1>8. QED BY <1>1, <1>2, <1>3, <1>4, <1>5, <1>6, <1>7 DEF ProfitNext
-----------------------------------------------------------------------------
(* The day: what writes it or the row is in a booking until a sync is written. *)
LEMMA DayStays ==
  ASSUME DayHoldsClosed, UNCHANGED bookVars,
         \A t \in Bookers : Booking(t) => Booking(t)'
  PROVE  DayHoldsClosed'
BY DEF DayHoldsClosed, bookVars, Booking

LEMMA NotBooked ==
  ASSUME ProfitTypeOK, DayHoldsClosed, UNCHANGED bookVars,
         NEW t \in Bookers, NEW label, MovesTo(t, label),
         Booking(t) => label \in {"add", "read", "write"}
  PROVE  DayHoldsClosed'
<1>1. \A u \in Bookers : Booking(u) => Booking(u)'
  BY DEF Booking, MovesTo, ProfitTypeOK
<1>2. QED BY <1>1, DayStays

LEMMA Begun ==
  ASSUME ProfitTypeOK, NEW t \in Bookers, NEW label \in {"add", "read", "write"},
         MovesTo(t, label)
  PROVE  DayHoldsClosed'
<1>1. Booking(t)' BY DEF Booking, MovesTo, ProfitTypeOK
<1>2. QED BY <1>1 DEF DayHoldsClosed

LEMMA NextHoldsDay ==
  ASSUME ProfitTypeOK, DayHoldsClosed, [ProfitNext]_profitVars PROVE DayHoldsClosed'
<1>1. CASE \/ \E S \in SUBSET (Pieces \ sold) : SellOutside(S)
           \/ \E lot \in Pieces : RecordFill(lot)
           \/ FillsLost \/ ClaimExpires
  <2>1. UNCHANGED bookVars /\ UNCHANGED step
    BY <1>1 DEF SellOutside, RecordFill, FillsLost, ClaimExpires
  <2>2. QED BY <2>1, DayStays DEF Booking
<1>2. ASSUME NEW process \in SUBSET Bookers, Restart(process) PROVE DayHoldsClosed'
  <2>1. /\ UNCHANGED <<result, day>>
        /\ step' = [t \in Bookers |-> IF t \in process THEN "idle" ELSE step[t]]
        /\ behind' = (behind \/ \E t \in process : Booking(t))
    BY <1>2 DEF Restart
  <2>2. ASSUME ~behind', \A t \in Bookers : ~Booking(t)' PROVE \A t \in Bookers : ~Booking(t)
    BY <2>1, <2>2 DEF Booking
  <2>3. QED BY <2>1, <2>2 DEF DayHoldsClosed
<1>3. ASSUME NEW partial \in BOOLEAN, TakeJob(partial) \/ WatchdogReads(partial) PROVE DayHoldsClosed'
  <2>1. CASE TakeJob(partial)
    BY <2>1, BookersKnown, NotBooked DEF TakeJob, Stands, Booking
  <2>2. CASE WatchdogReads(partial)
    BY <2>2, BookersKnown, NotBooked DEF WatchdogReads, Stands, Booking
  <2>3. QED BY <1>3, <2>1, <2>2
<1>4. ASSUME NEW S \in SUBSET (Pieces \ sold), WorkerSells(S) \/ WatchdogSells(S) PROVE DayHoldsClosed'
  <2>1. CASE WorkerSells(S)
    BY <2>1, BookersKnown, NotBooked DEF WorkerSells, Stands, Booking
  <2>2. CASE WatchdogSells(S)
    BY <2>2, BookersKnown, NotBooked DEF WatchdogSells, Stands, Booking
  <2>3. QED BY <1>4, <2>1, <2>2
<1>5. CASE WorkerFindsNothing
  BY <1>5, BookersKnown, NotBooked DEF WorkerFindsNothing, Stands, Booking, Rests
<1>6. CASE WatchdogDefers
  BY <1>6, BookersKnown, NotBooked DEF WatchdogDefers, Stands, Booking, Rests
<1>7. CASE WatchdogFindsNothing
  BY <1>7, BookersKnown, NotBooked DEF WatchdogFindsNothing, Stands, Booking
<1>8. ASSUME NEW t \in Bookers, BookStep(t) PROVE DayHoldsClosed'
  <2>1. CASE ResolveLeg(t)
    BY <2>1, NotBooked DEF ResolveLeg, Stands, Booking
  <2>2. CASE ResolveTotal(t)
    BY <2>2, NotBooked DEF ResolveTotal, Stands, Booking
  <2>3. CASE UpdateTrade(t)
    BY <2>3, Begun DEF UpdateTrade
  <2>4. CASE AddDaily(t)
    BY <2>4, Begun DEF AddDaily
  <2>5. CASE SyncRead(t)
    BY <2>5, Begun DEF SyncRead
  <2>6. CASE SyncWrite(t)
    <3>1. result' = result /\ day' = job[t].day /\ behind' = (job[t].day # Analytics)
      BY <2>6 DEF SyncWrite
    <3>2. QED BY <3>1 DEF DayHoldsClosed, Analytics
  <2>7. CASE FindGone(t)
    BY <2>7, NotBooked DEF FindGone, Stands, Booking
  <2>8. CASE ResolveGone(t)
    BY <2>8, NotBooked DEF ResolveGone, Stands, Booking
  <2>9. CASE MarkSkips(t)
    BY <2>9, NotBooked DEF MarkSkips, Stands, Booking, Ends, Rests
  <2>10. CASE MarkBegins(t)
    BY <2>10, NotBooked DEF MarkBegins, Stands, Booking
  <2>11. CASE CloseTrade(t) /\ result.closed
    <3>1. UNCHANGED bookVars /\ MovesTo(t, "idle") /\ ~Booking(t)
      BY <2>11 DEF CloseTrade, Ends, Rests, bookVars, Stands, Booking
    <3>2. QED BY <3>1, NotBooked
  <2>12. CASE CloseTrade(t) /\ ~result.closed
    BY <2>12, Begun DEF CloseTrade
  <2>13. QED BY <1>8, <2>1, <2>2, <2>3, <2>4, <2>5, <2>6, <2>7, <2>8, <2>9, <2>10, <2>11, <2>12
           DEF BookStep
<1>9. CASE UNCHANGED profitVars
  <2>1. UNCHANGED bookVars /\ UNCHANGED step BY <1>9 DEF profitVars
  <2>2. QED BY <2>1, DayStays DEF Booking
<1>10. MainBookers \cup {Report} \in SUBSET Bookers /\ {Watchdog} \in SUBSET Bookers
  BY DEF Bookers
<1>11. QED BY <1>1, <1>2, <1>3, <1>4, <1>5, <1>6, <1>7, <1>8, <1>9, <1>10 DEF ProfitNext
-----------------------------------------------------------------------------
(* Type correctness of the booking of profits, for any number of lots, closers *)
(* and gaps.                                                                *)
THEOREM ProfitTypes == ProfitSpec => []ProfitTypeOK
<1>1. ProfitInit => Backed BY InitBacked
<1>2. Backed /\ [ProfitNext]_profitVars => Backed' BY NextBacked
<1>3. Backed => ProfitTypeOK BY DEF Backed
<1>4. QED BY <1>1, <1>2, <1>3, PTL DEF ProfitSpec

(* The row of a trade never holds more than the exchange has paid, unless it   *)
(* is an estimate, and the day agrees with the row whenever no booking is under *)
(* way, unless its last sync was overtaken (the closes of manager.py,           *)
(* reconciliation.py and watchdog.py, and database.py's daily_stats).         *)
THEOREM BookedOnce == ProfitSpec => []ProfitBookedOnce
<1>1. ProfitInit => Backed /\ DayHoldsClosed
  BY InitBacked DEF ProfitInit, DayHoldsClosed
<1>2. Backed /\ DayHoldsClosed /\ [ProfitNext]_profitVars => (Backed /\ DayHoldsClosed)'
  <2>1. Backed => ProfitTypeOK BY DEF Backed
  <2>2. QED BY <2>1, NextBacked, NextHoldsDay
<1>3. Backed /\ DayHoldsClosed => ProfitBookedOnce
  BY DEF Backed, JobsBacked, ProfitBookedOnce, OnlyMadeIsBooked, Sold
<1>4. QED BY <1>1, <1>2, <1>3, PTL DEF ProfitSpec
=============================================================================
