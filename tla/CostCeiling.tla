----------------------------- MODULE CostCeiling -----------------------------
(***************************************************************************)
(* libs/performance/cost_ceiling_manager.py: one ceiling, used through the *)
(* CostCeilingManager of each service.  The managers share the database    *)
(* and have their own ceiling_cache and spending_cache; a manager has one  *)
(* session, so it runs one record_cost at a time.                          *)
(*                                                                         *)
(* Amounts are whole numbers; a window is the day, week, ... of the        *)
(* ceiling's type.  Callers stop spending in a window once record_cost     *)
(* returned False or raised.  Recommendations, statistics and the rows of  *)
(* cost_alerts, which only reports read, are left out.                     *)
(***************************************************************************)
EXTENDS Integers, FiniteSets, FiniteSetsExt

CONSTANTS
  Managers,
  CostAmounts,
  LimitAmount,
  MaxWindow,    \* bound on the number of windows
  MaxSpend      \* bound on what one manager records in one window

ASSUME CostAssumptions ==
  /\ IsFiniteSet(Managers)
  /\ CostAmounts \subseteq Nat \ {0}
  /\ \E most \in CostAmounts : \A a \in CostAmounts : a <= most
  /\ LimitAmount \in Nat \ {0} /\ MaxWindow \in Nat /\ MaxSpend \in Nat

VARIABLES
  window,         \* _get_time_window_key of the present
  ceilingStored,  \* the row of cost_ceilings is there
  ceilingCache,   \* managers that have the ceiling in ceiling_cache
  costRecords,    \* costRecords[m]: sum of m's cost_records stamped in this window
  spendingCache,  \* spendingCache[m] for this window, -1 when the key is absent
  costTask,       \* the record_cost in progress in each manager
  stopped         \* managers whose callers spend no more in this window

costVars == <<window, ceilingStored, ceilingCache, costRecords, spendingCache, costTask,
              stopped>>

Windows == 0..MaxWindow
NoTask == [stage |-> "none", amount |-> 0, key |-> 0, total |-> 0]
AlertLevels == {"warning", "critical", "emergency"}

CostTypeOK ==
  /\ window \in Windows
  /\ ceilingStored \in BOOLEAN
  /\ ceilingCache \subseteq Managers
  /\ costRecords \in [Managers -> Nat]
  /\ spendingCache \in [Managers -> Nat \cup {-1}]
  /\ costTask \in [Managers -> [stage : {"none", "stored", "queried"},
                                amount : Nat, key : Windows, total : Nat]]
  /\ stopped \subseteq Managers

CostInit ==
  /\ window = 0
  /\ ceilingStored = FALSE
  /\ ceilingCache = {}
  /\ costRecords = [m \in Managers |-> 0]
  /\ spendingCache = [m \in Managers |-> -1]
  /\ costTask = [m \in Managers |-> NoTask]
  /\ stopped = {}

Absent(m) == spendingCache[m] = -1
Spent == MapThenSumSet(LAMBDA m : costRecords[m], Managers)

-----------------------------------------------------------------------------
(* create_cost_ceiling: the row, then the cache of this manager *)
CreateCostCeiling(m) ==
  /\ ~ceilingStored
  /\ ceilingStored' = TRUE
  /\ ceilingCache' = ceilingCache \cup {m}
  /\ UNCHANGED <<window, costRecords, spendingCache, costTask, stopped>>

(* record_cost of a ceiling that get_cost_ceiling does not find: False *)
RecordUnknown(m) ==
  /\ costTask[m] = NoTask /\ ~ceilingStored /\ m \notin stopped
  /\ stopped' = stopped \cup {m}
  /\ UNCHANGED <<window, ceilingStored, ceilingCache, costRecords, spendingCache,
                 costTask>>

(* record_cost up to the commit of _store_cost_record *)
StoreCostRecord(m, a) ==
  /\ costTask[m] = NoTask /\ ceilingStored /\ m \notin stopped
  /\ costRecords[m] + a <= MaxSpend
  /\ ceilingCache' = ceilingCache \cup {m}
  /\ costRecords' = [costRecords EXCEPT ![m] = @ + a]
  /\ costTask' = [costTask EXCEPT ![m] = [NoTask EXCEPT !.stage = "stored", !.amount = a]]
  /\ UNCHANGED <<window, ceilingStored, spendingCache, stopped>>

(* get_current_spending when the window is not cached: the sum over the
   database, which has the new record already. *)
QuerySpending(m) ==
  /\ costTask[m].stage = "stored" /\ Absent(m)
  /\ costTask' = [costTask EXCEPT ![m].stage = "queried", ![m].key = window,
                                  ![m].total = Spent]
  /\ UNCHANGED <<window, ceilingStored, ceilingCache, costRecords, spendingCache,
                 stopped>>

\* _check_ceiling_violations with the default thresholds
AlertsAt(spending) ==
  {l \in AlertLevels :
     \/ l = "warning" /\ 100 * spending >= 80 * LimitAmount
     \/ l = "critical" /\ 100 * spending >= 95 * LimitAmount
     \/ l = "emergency" /\ spending >= LimitAmount}

\* The spending_cache of m with the answer of the query, and then with the amount
\* added under the key of the present.
Loaded(m) ==
  IF costTask[m].stage = "queried" /\ costTask[m].key = window
  THEN costTask[m].total ELSE spendingCache[m]

\* Seeded fault: the amount is added only when the key was absent.
Charged_OnlyNew(m) ==
  IF Loaded(m) = -1 THEN costTask[m].amount ELSE Loaded(m)

Charged(m) ==
  (IF Loaded(m) = -1 THEN 0 ELSE Loaded(m)) + costTask[m].amount

(* The rest of record_cost.  The spending that is judged is what was cached or
   queried, so the first record of a window is charged twice and a later one is
   judged without itself.  An alert that cannot be stored makes the call raise. *)
FinishRecord(m, raised) ==
  LET spending == IF costTask[m].stage = "queried" THEN costTask[m].total
                  ELSE spendingCache[m]
  IN  /\ \/ costTask[m].stage = "queried"
         \/ costTask[m].stage = "stored" /\ ~Absent(m)
      /\ raised => AlertsAt(spending) # {}
      /\ spendingCache' = [spendingCache EXCEPT ![m] = Charged(m)]
      /\ stopped' = IF raised \/ spending >= LimitAmount
                    THEN stopped \cup {m} ELSE stopped
      /\ costTask' = [costTask EXCEPT ![m] = NoTask]
      /\ UNCHANGED <<window, ceilingStored, ceilingCache, costRecords>>

(* The query raises: the record stays, the cache knows nothing of it. *)
QueryRaises(m) ==
  /\ costTask[m].stage = "stored" /\ Absent(m)
  /\ costTask' = [costTask EXCEPT ![m] = NoTask]
  /\ stopped' = stopped \cup {m}
  /\ UNCHANGED <<window, ceilingStored, ceilingCache, costRecords, spendingCache>>

(* get_current_spending called for a report fills the cache as well. *)
ReportSpending(m) ==
  /\ costTask[m] = NoTask /\ ceilingStored /\ Absent(m)
  /\ ceilingCache' = ceilingCache \cup {m}
  /\ spendingCache' = [spendingCache EXCEPT ![m] = Spent]
  /\ UNCHANGED <<window, ceilingStored, costRecords, costTask, stopped>>

(* Time passes.  Sums and cache entries of earlier windows are never read again,
   also by a call that began there, and are dropped. *)
NextWindow ==
  /\ window < MaxWindow
  /\ window' = window + 1
  /\ costRecords' = [m \in Managers |-> 0]
  /\ spendingCache' = [m \in Managers |-> -1]
  /\ stopped' = {}
  /\ UNCHANGED <<ceilingStored, ceilingCache, costTask>>

CostNext ==
  \/ \E m \in Managers :
       \/ CreateCostCeiling(m) \/ RecordUnknown(m)
       \/ \E a \in CostAmounts : StoreCostRecord(m, a)
       \/ QuerySpending(m) \/ QueryRaises(m) \/ ReportSpending(m)
       \/ \E raised \in BOOLEAN : FinishRecord(m, raised)
  \/ NextWindow

CostSpec == CostInit /\ [][CostNext]_costVars

-----------------------------------------------------------------------------
(* A manager between two calls never believes that less was spent in the window
   than it recorded itself (it knows nothing of what the others recorded since
   it filled its cache), and so its callers overrun the ceiling by less than two
   records, also when a window ends in the middle of a call or calls raise. *)
OverrunBounded ==
  /\ CostTypeOK
  /\ \A m \in Managers :
       costTask[m] = NoTask /\ ~Absent(m) =>
         spendingCache[m] >= costRecords[m]
  /\ \A m \in Managers : costRecords[m] < LimitAmount + 2 * Max(CostAmounts)
=============================================================================
