---------------------------- MODULE TrafficProofs ----------------------------
(***************************************************************************)
(* What is proved of Traffic, for every set of users and every number of   *)
(* additions: no addition is lost and none is booked twice by the task.    *)
(***************************************************************************)
EXTENDS Traffic, TLAPS

CounterType == item \in [Counters -> Nat] /\ batch \in [Counters -> Nat]
HistoryType ==
  panel \in [Counters -> Nat] /\ gen \in [Counters -> Nat] /\ twice \in [Counters -> Nat]

\* What the task has swapped out is a counter it has marked, while it drains;
\* between two reports it has nothing.
TaskType ==
  /\ items \subseteq Users /\ start \subseteq items /\ drained \subseteq items \X Kinds
  /\ report \in {"idle", "drain", "submit", "restore"}
  /\ report = "idle" => batch = Zero
  /\ report = "drain" => \A x \in Counters : x \notin drained => batch[x] = 0
  /\ report # "drain" => start = {} /\ drained = {}

IInv == CounterType /\ HistoryType /\ TaskType /\ Conservation

\* The sum of two functions, counter by counter.
LEMMA PlusType ==
  ASSUME NEW f \in [Counters -> Nat], NEW g \in [Counters -> Nat]
  PROVE  /\ Plus(f, g) \in [Counters -> Nat]
         /\ \A x \in Counters : Plus(f, g)[x] = f[x] + g[x]
BY DEF Plus

\* Every counter starts at nothing.
LEMMA ZeroType == Zero \in [Counters -> Nat] /\ \A x \in Counters : Zero[x] = 0
BY DEF Zero

\* UsersService starts with no item and nothing reported.
LEMMA InitIInv == Init => IInv
BY ZeroType DEF Init, IInv, CounterType, HistoryType, TaskType, Conservation

\* A counter is 0 or more after an addition, and the books still balance.
LEMMA AddIInv == ASSUME IInv, NEW x \in Counters, Add(x) PROVE IInv'
<1>1. UNCHANGED <<items, report, start, drained, batch, panel, twice>>
  BY DEF Add, taskVars
<1>2. /\ item' = [item EXCEPT ![x] = item[x] + 1]
      /\ gen' = [gen EXCEPT ![x] = gen[x] + 1]
  BY DEF Add
<1>3. /\ item \in [Counters -> Nat] /\ batch \in [Counters -> Nat]
      /\ panel \in [Counters -> Nat] /\ gen \in [Counters -> Nat] /\ twice \in [Counters -> Nat]
  BY DEF IInv, CounterType, HistoryType
<1>4. CounterType' /\ HistoryType'
  BY <1>1, <1>2, <1>3 DEF CounterType, HistoryType
<1>5. TaskType'
  BY <1>1 DEF IInv, TaskType, Zero
<1>6. ASSUME NEW y \in Counters
      PROVE  item'[y] + batch'[y] + panel'[y] = gen'[y] + twice'[y]
  <2>1. item[y] + batch[y] + panel[y] = gen[y] + twice[y]
    BY DEF IInv, Conservation
  <2>2. /\ item[y] \in Nat /\ batch[y] \in Nat /\ panel[y] \in Nat
        /\ gen[y] \in Nat /\ twice[y] \in Nat
    BY <1>3
  <2>3. batch'[y] = batch[y] /\ panel'[y] = panel[y] /\ twice'[y] = twice[y]
    BY <1>1
  <2>4. CASE y = x
    <3>1. item'[y] = item[y] + 1 /\ gen'[y] = gen[y] + 1
      BY <1>2, <1>3, <2>4
    <3> QED BY <2>1, <2>2, <2>3, <3>1
  <2>5. CASE y # x
    <3>1. item'[y] = item[y] /\ gen'[y] = gen[y]
      BY <1>2, <1>3, <2>5
    <3> QED BY <2>1, <2>3, <3>1
  <2> QED BY <2>4, <2>5
<1>7. Conservation'
  BY <1>6 DEF Conservation
<1> QED BY <1>4, <1>5, <1>7 DEF IInv

\* Swap moves a counter's value to the batch, where there was nothing for it.
LEMMA SwapIInv == ASSUME IInv, NEW x \in Counters, DrainSwap(x) PROVE IInv'
<1> USE DEF IInv, CounterType, HistoryType, TaskType, Conservation, DrainSwap
<1>1. CounterType' /\ HistoryType'
  OBVIOUS
<1>2. TaskType'
  <2>1. x \in items \X Kinds
    BY DEF Counters
  <2>2. \A y \in Counters : y \notin drained' => batch'[y] = 0
    OBVIOUS
  <2> QED BY <2>1, <2>2
<1>3. Conservation'
  <2> SUFFICES ASSUME NEW y \in Counters
               PROVE  item'[y] + batch'[y] + panel'[y] = gen'[y] + twice'[y]
    OBVIOUS
  <2>1. item[y] + batch[y] + panel[y] = gen[y] + twice[y]
    OBVIOUS
  <2>2. item[y] \in Nat /\ batch[y] \in Nat /\ panel[y] \in Nat
    OBVIOUS
  <2>3. CASE y = x
    <3>1. item'[y] = 0 /\ batch'[y] = item[y] /\ batch[y] = 0
      BY <2>3
    <3> QED BY <2>1, <2>2, <3>1
  <2>4. CASE y # x
    <3>1. item'[y] = item[y] /\ batch'[y] = batch[y]
      BY <2>4
    <3> QED BY <2>1, <3>1
  <2> QED BY <2>3, <2>4
<1> QED BY <1>1, <1>2, <1>3

\* Add puts a counter's share of the batch back on top of what was added since.
LEMMA RestoreIInv == ASSUME IInv, NEW x \in Counters, RestoreAdd(x) PROVE IInv'
<1> USE DEF IInv, CounterType, HistoryType, TaskType, Conservation, RestoreAdd, taskVars
<1>1. CounterType' /\ HistoryType'
  <2>1. item[x] \in Nat /\ batch[x] \in Nat
    OBVIOUS
  <2>2. item[x] + batch[x] \in Nat
    BY <2>1
  <2> QED BY <2>2
<1>2. TaskType'
  OBVIOUS
<1>3. Conservation'
  <2> SUFFICES ASSUME NEW y \in Counters
               PROVE  item'[y] + batch'[y] + panel'[y] = gen'[y] + twice'[y]
    OBVIOUS
  <2>1. item[y] + batch[y] + panel[y] = gen[y] + twice[y]
    OBVIOUS
  <2>2. item[y] \in Nat /\ batch[y] \in Nat /\ panel[y] \in Nat
    OBVIOUS
  <2>3. CASE y = x
    <3>1. item'[y] = item[y] + batch[y] /\ batch'[y] = 0
      BY <2>3
    <3> QED BY <2>1, <2>2, <3>1
  <2>4. CASE y # x
    <3>1. item'[y] = item[y] /\ batch'[y] = batch[y]
      BY <2>4
    <3> QED BY <2>1, <3>1
  <2> QED BY <2>3, <2>4
<1> QED BY <1>1, <1>2, <1>3

\* A Submit that succeeds books the batch, which leaves the task's hands.
LEMMA SubmitOkIInv == ASSUME IInv, SubmitOk PROVE IInv'
<1> USE DEF IInv, CounterType, HistoryType, TaskType, Conservation, SubmitOk
<1>1. CounterType' /\ HistoryType'
  BY PlusType, ZeroType
<1>2. TaskType'
  OBVIOUS
<1>3. Conservation'
  <2> SUFFICES ASSUME NEW y \in Counters
               PROVE  item'[y] + batch'[y] + panel'[y] = gen'[y] + twice'[y]
    OBVIOUS
  <2>1. item[y] + batch[y] + panel[y] = gen[y] + twice[y]
    OBVIOUS
  <2>2. item[y] \in Nat /\ batch[y] \in Nat /\ panel[y] \in Nat
    OBVIOUS
  <2>3. panel'[y] = panel[y] + batch[y] /\ batch'[y] = 0
    BY PlusType, ZeroType
  <2> QED BY <2>1, <2>2, <2>3
<1> QED BY <1>1, <1>2, <1>3

\* A Submit that fails leaves the batch to be restored; if the panel booked it
\* all the same, it is owed twice.
LEMMA SubmitFailIInv == ASSUME IInv, SubmitFail PROVE IInv'
<1>1. /\ report = "submit" /\ report' = "restore"
      /\ UNCHANGED <<items, item, start, drained, batch, gen>>
  BY DEF SubmitFail
<1>2. \/ UNCHANGED <<panel, twice>>
      \/ panel' = Plus(panel, batch) /\ twice' = Plus(twice, batch)
  BY DEF SubmitFail
<1>3. /\ item \in [Counters -> Nat] /\ batch \in [Counters -> Nat]
      /\ panel \in [Counters -> Nat] /\ gen \in [Counters -> Nat] /\ twice \in [Counters -> Nat]
  BY DEF IInv, CounterType, HistoryType
<1>4. CounterType' /\ HistoryType'
  <2>1. Plus(panel, batch) \in [Counters -> Nat] /\ Plus(twice, batch) \in [Counters -> Nat]
    BY <1>3, PlusType
  <2> QED BY <1>1, <1>2, <1>3, <2>1 DEF CounterType, HistoryType
<1>5. TaskType'
  BY <1>1 DEF IInv, TaskType
<1>6. ASSUME NEW y \in Counters
      PROVE  item'[y] + batch'[y] + panel'[y] = gen'[y] + twice'[y]
  <2>1. item[y] + batch[y] + panel[y] = gen[y] + twice[y]
    BY DEF IInv, Conservation
  <2>2. /\ item[y] \in Nat /\ batch[y] \in Nat /\ panel[y] \in Nat
        /\ gen[y] \in Nat /\ twice[y] \in Nat
    BY <1>3
  <2>3. item'[y] = item[y] /\ batch'[y] = batch[y] /\ gen'[y] = gen[y]
    BY <1>1
  <2>4. CASE UNCHANGED <<panel, twice>>
    BY <2>1, <2>3, <2>4
  <2>5. CASE panel' = Plus(panel, batch) /\ twice' = Plus(twice, batch)
    <3>1. panel'[y] = panel[y] + batch[y] /\ twice'[y] = twice[y] + batch[y]
      BY <1>3, <2>5, PlusType
    <3> QED BY <2>1, <2>2, <2>3, <3>1
  <2> QED BY <1>2, <2>4, <2>5
<1>7. Conservation'
  BY <1>6 DEF Conservation
<1> QED BY <1>4, <1>5, <1>7 DEF IInv

\* The steps that move no traffic: a new item, and the task going on.
LEMMA QuietIInv ==
  ASSUME IInv,
         \/ \E u \in Users : LoadOrStore(u)
         \/ ReportStart \/ DrainEnd \/ RestoreEnd
  PROVE  IInv'
<1> USE DEF IInv, CounterType, HistoryType, TaskType, Conservation, taskVars
<1>1. ASSUME NEW u \in Users, LoadOrStore(u) PROVE IInv'
  BY <1>1 DEF LoadOrStore
<1>2. CASE ReportStart
  BY <1>2, ZeroType DEF ReportStart
<1>3. CASE DrainEnd
  BY <1>3 DEF DrainEnd
<1>4. CASE RestoreEnd
  BY <1>4 DEF RestoreEnd
<1> QED BY <1>1, <1>2, <1>3, <1>4

\* The inductive invariant of the accounting.
THEOREM Invariance == Spec => []IInv
<1>1. Init => IInv
  BY InitIInv
<1>2. IInv /\ [Next]_vars => IInv'
  <2> SUFFICES ASSUME IInv, [Next]_vars PROVE IInv'
    OBVIOUS
  <2>1. ASSUME NEW x \in Counters, Add(x) PROVE IInv'
    BY <2>1, AddIInv
  <2>2. ASSUME NEW x \in Counters, DrainSwap(x) PROVE IInv'
    BY <2>2, SwapIInv
  <2>3. ASSUME NEW x \in Counters, RestoreAdd(x) PROVE IInv'
    BY <2>3, RestoreIInv
  <2>4. CASE SubmitOk
    BY <2>4, SubmitOkIInv
  <2>5. CASE SubmitFail
    BY <2>5, SubmitFailIInv
  <2>6. CASE (\E u \in Users : LoadOrStore(u)) \/ ReportStart \/ DrainEnd \/ RestoreEnd
    BY <2>6, QuietIInv
  <2>7. CASE UNCHANGED vars
    BY <2>7 DEF vars, taskVars, IInv, CounterType, HistoryType, TaskType, Conservation
  <2> QED BY <2>1, <2>2, <2>3, <2>4, <2>5, <2>6, <2>7 DEF Next, ReportStep
<1> QED BY <1>1, <1>2, PTL DEF Spec

\* Types, and no batch between two reports (users.go:143-156).
THEOREM TypeCorrect == Spec => []TypeOK
<1>1. IInv => TypeOK
  BY DEF IInv, CounterType, HistoryType, TaskType, TypeOK
<1> QED BY <1>1, Invariance, PTL

\* Every addition is in a counter, in the task's hands or booked, once, but for
\* Submits that fail and are booked (users.go:143-156, 248-292).
THEOREM NothingLost == Spec => []Conservation
<1>1. IInv => Conservation
  BY DEF IInv
<1> QED BY <1>1, Invariance, PTL
=============================================================================
