----------------------------- MODULE ReviewBudget -----------------------------
(***************************************************************************)
(* The monthly budget of one repository with a limit: reservations in       *)
(* SERIALIZABLE transactions and settlements outside of them                *)
(* (github-app/use-cases/reserve-budget), under the runs that ReviewRuns    *)
(* describes step by step.  Money is counted in units.  A run is executed   *)
(* by one worker at a time.  PostgreSQL aborts a serializable transaction   *)
(* when one that it read past, and that read past it, commits first, or     *)
(* when the row it updates was updated since its snapshot.                  *)
(***************************************************************************)
EXTENDS Naturals, FiniteSets, FiniteSetsExt

CONSTANTS Runs,
          Months,          \* bound on the month counter
          Amount,          \* reservationFor(repository)
          Limit,           \* config.budgetMonthlyUsd
          Costs            \* what a review may cost

ASSUME BudgetAssumption ==
  /\ Amount \in Nat /\ Limit \in Nat /\ Months \in Nat \ {0} /\ Costs \subseteq Nat
  /\ IsFiniteSet(Runs)

VARIABLES
  month,                                \* budgetMonthFor(now)
  rowStatus, budgetMonth, reservedUsd,  \* columns of the row
  consumedUsd, settled,                 \* settled: consumedUsd is not null
  supersededOnce,  \* skipReason = superseded, which nothing erases
  pc,              \* where the worker is with the run
  tx,              \* the reservation transaction of the run
  reservedIn       \* history: month whose limit the reservation was checked against
moneyVars == <<budgetMonth, reservedUsd, consumedUsd, settled>>
budgetVars == <<month, rowStatus, moneyVars, supersededOnce, pc, tx, reservedIn>>

NoTx == [month |-> 0, committed |-> 0, conflict |-> FALSE]

BudgetInit ==
  /\ month = 1
  /\ rowStatus = [r \in Runs |-> "none"] /\ budgetMonth = [r \in Runs |-> 0]
  /\ reservedUsd = [r \in Runs |-> 0] /\ consumedUsd = [r \in Runs |-> 0]
  /\ settled = [r \in Runs |-> FALSE] /\ supersededOnce = [r \in Runs |-> FALSE]
  /\ pc = [r \in Runs |-> "none"] /\ tx = [r \in Runs |-> NoTx]
  /\ reservedIn = [r \in Runs |-> 0]

SetRow(r, s) == rowStatus' = [rowStatus EXCEPT ![r] = s]
StepTo(r, from, to) == pc[r] = from /\ pc' = [pc EXCEPT ![r] = to]

NextMonth ==
  /\ month < Months /\ month' = month + 1
  /\ UNCHANGED <<rowStatus, moneyVars, supersededOnce, pc, tx, reservedIn>>

Enqueue(r) ==
  /\ StepTo(r, "none", "waiting") /\ SetRow(r, "queued")
  /\ budgetMonth' = [budgetMonth EXCEPT ![r] = month]
  /\ UNCHANGED <<month, reservedUsd, consumedUsd, settled, supersededOnce, tx, reservedIn>>

\* A newer push, at any time; it changes the row a reservation may be updating.
Supersede(r) ==
  /\ rowStatus[r] \in {"queued", "running"} /\ SetRow(r, "superseded")
  /\ supersededOnce' = [supersededOnce EXCEPT ![r] = TRUE]
  /\ tx' = [tx EXCEPT ![r].conflict = pc[r] = "inTx"]
  /\ UNCHANGED <<month, moneyVars, pc, reservedIn>>

Load(r) ==
  /\ StepTo(r, "waiting", IF rowStatus[r] \in {"queued", "running"} THEN "mark" ELSE "over")
  /\ UNCHANGED <<month, rowStatus, moneyVars, supersededOnce, tx, reservedIn>>

Mark(r) ==
  /\ StepTo(r, "mark", "reserve") /\ SetRow(r, "running")
  /\ UNCHANGED <<month, moneyVars, supersededOnce, tx, reservedIn>>

Consuming == {"queued", "running", "completed"}
Commitment(r) == IF settled[r] THEN consumedUsd[r] ELSE reservedUsd[r]
Others(r, m) == {q \in Runs \ {r} : budgetMonth[q] = m /\ rowStatus[q] \in Consuming}

BeginReserve(r) ==
  /\ StepTo(r, "reserve", "inTx")
  /\ tx' = [tx EXCEPT ![r] = [month |-> month, conflict |-> FALSE,
              committed |-> MapThenSumSet(Commitment, Others(r, month))]]
  /\ UNCHANGED <<month, rowStatus, moneyVars, supersededOnce, reservedIn>>

\* Mutant: READ COMMITTED instead of SERIALIZABLE.
ReadPastNone(r) == {}

\* Open transactions whose sum the commit of r makes out of date, and whose row
\* the sum of r has read.
ReadPast(r) ==
  {q \in Runs \ {r} : /\ pc[q] = "inTx"
                      /\ tx[q].month = budgetMonth[r] /\ tx[r].month = budgetMonth[q]
                      /\ {rowStatus[q], rowStatus[r]} \subseteq Consuming}

Fits(r) == tx[r].committed + Amount <= Limit

Reserve(r) ==
  /\ ~tx[r].conflict /\ Fits(r) /\ StepTo(r, "inTx", "review")
  /\ reservedUsd' = [reservedUsd EXCEPT ![r] = Amount]
  /\ reservedIn' = [reservedIn EXCEPT ![r] = tx[r].month]
  /\ tx' = [q \in Runs |-> IF q = r THEN NoTx
                           ELSE [tx[q] EXCEPT !.conflict = @ \/ q \in ReadPast(r)]]
  /\ UNCHANGED <<month, rowStatus, budgetMonth, consumedUsd, settled, supersededOnce>>

\* budget_exceeded: the transaction has written nothing.
Refuse(r) ==
  /\ ~Fits(r) /\ StepTo(r, "inTx", "over") /\ SetRow(r, "skipped")
  /\ tx' = [tx EXCEPT ![r] = NoTx]
  /\ UNCHANGED <<month, moneyVars, supersededOnce, reservedIn>>

\* "could not serialize access": the job throws and BullMQ tries it again.
Abort(r) ==
  /\ tx[r].conflict /\ StepTo(r, "inTx", "waiting")
  /\ tx' = [tx EXCEPT ![r] = NoTx]
  /\ UNCHANGED <<month, rowStatus, moneyVars, supersededOnce, reservedIn>>

\* configuration_required: no OpenAI key, after the reservation.
KeyMissing(r) ==
  /\ StepTo(r, "review", "over") /\ SetRow(r, "skipped")
  /\ UNCHANGED <<month, moneyVars, supersededOnce, tx, reservedIn>>

\* The pipeline spends money, whatever becomes of its result.
Review(r) ==
  /\ StepTo(r, "review", "settle")
  /\ UNCHANGED <<month, rowStatus, moneyVars, supersededOnce, tx, reservedIn>>

\* The usage reported; zero when its price is unknown, or in the catch block.
SettleUsage(r, c) ==
  /\ StepTo(r, "settle", "conclude")
  /\ consumedUsd' = [consumedUsd EXCEPT ![r] = c]
  /\ settled' = [settled EXCEPT ![r] = TRUE]
  /\ UNCHANGED <<month, rowStatus, budgetMonth, reservedUsd, supersededOnce, tx, reservedIn>>

\* Superseded runs are left so; a verdict is written by id.
Conclude(r) ==
  /\ StepTo(r, "conclude", "over")
  /\ \/ rowStatus[r] = "superseded" /\ UNCHANGED rowStatus
     \/ \E s \in {"completed", "failed"} : SetRow(r, s)
  /\ UNCHANGED <<month, moneyVars, supersededOnce, tx, reservedIn>>

BudgetNext ==
  \/ NextMonth
  \/ \E r \in Runs :
       \/ Enqueue(r) \/ Supersede(r) \/ Load(r) \/ Mark(r)
       \/ BeginReserve(r) \/ Reserve(r) \/ Refuse(r) \/ Abort(r)
       \/ KeyMissing(r) \/ Review(r)
       \/ (\E c \in Costs \cup {0} : SettleUsage(r, c)) \/ Conclude(r)

BudgetSpec == BudgetInit /\ [][BudgetNext]_budgetVars

-----------------------------------------------------------------------------

\* Concurrent reservations never add up above the limit: the rows the budget
\* counts in a month stay within it, if they were reserved in the month they are
\* booked in and no newer push ever took them over.  (A review costs at most its
\* reservation in the instance checked; the code does not enforce that.)
Booked(m) == {r \in Runs : /\ budgetMonth[r] = m /\ reservedIn[r] = m
                           /\ rowStatus[r] \in Consuming /\ ~supersededOnce[r]}
CommittedWithinLimit ==
  \A m \in 1..Months : MapThenSumSet(Commitment, Booked(m)) <= Limit

=============================================================================
