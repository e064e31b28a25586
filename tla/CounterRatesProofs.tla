------------------------- MODULE CounterRatesProofs -------------------------
(* What CounterRates guarantees for every width, bound and set of loops: no  *)
(* report invents growth, and for a key with a single loop nothing is        *)
(* counted twice.                                                            *)
EXTENDS CounterRates, TLAPS

\* Between the two readings the counter grew at most by what grew in all: a
\* restart only makes the later value smaller.
Follows(later, early) ==
    /\ early.grown <= later.grown
    /\ later.value <= early.value + (later.grown - early.grown)

\* The same for a sample and the counter as it is.
Precedes(e) == e.grown <= grown /\ counter <= e.value + (grown - e.grown)

\* A loop that holds a reading.
Holds(l) == pc[l] \in {"stamp", "observe"}

\* With one loop, and while no reading failed, the stored sample precedes the
\* one a loop holds, and both precede the counter as it is.
SampleOrder ==
    SingleLoop /\ faults = 0 =>
        /\ prev # None => Precedes(prev)
        /\ \A l \in Loops : Holds(l) =>
               /\ Precedes(cur[l])
               /\ prev # None => Follows(cur[l], prev)

\* Nothing is credited before there is a sample.
CreditNeedsSample == prev = None => credited = 0

IInv == SampleOrder /\ NeverOverReports /\ CreditNeedsSample

-----------------------------------------------------------------------------
\* A difference is a counter value, and is 0 unless the counter advanced.
LEMMA DeltaType ==
    ASSUME NEW p \in Samples, NEW s \in Samples
    PROVE  /\ Delta(p, s) \in 0..(Width - 1)
           /\ Delta(p, s) = 0 \/ Delta(p, s) = s.value - p.value
BY BoundsAssumption DEF Delta, Samples

\* A reading taken now is a sample.
LEMMA ReadingType ==
    ASSUME TypeOK
    PROVE  Reading(counter, FALSE) \in Samples /\ Reading(0, TRUE) \in Samples
<1>1. /\ counter \in 0..(Width - 1) /\ 0 \in 0..(Width - 1) /\ 0 \in 0..MaxTime
      /\ grown \in 0..MaxGrowth /\ moment \in 0..(MaxGrowth + MaxResets)
  BY BoundsAssumption DEF TypeOK
<1>2. QED
  BY <1>1, Zenon DEF Reading, Samples

\* The initial state is well typed.
LEMMA InitType == Init => TypeOK
<1> SUFFICES ASSUME Init PROVE TypeOK
  OBVIOUS
<1>1. NoSample \in Samples
  BY BoundsAssumption DEF NoSample, Samples
<1>2. QED
  BY <1>1, BoundsAssumption DEF Init, TypeOK, NoReport

\* Time and the counter keep the types.
LEMMA EnvironmentType ==
    ASSUME TypeOK, Tick \/ SetBack \/ Grow \/ Reset
    PROVE  TypeOK'
<1> USE BoundsAssumption DEF TypeOK, loopVars, outVars
<1>1. CASE Tick BY <1>1 DEF Tick
<1>2. CASE SetBack BY <1>2 DEF SetBack
<1>3. CASE Grow BY <1>3 DEF Grow
<1>4. CASE Reset BY <1>4 DEF Reset
<1>5. QED BY <1>1, <1>2, <1>3, <1>4

\* Stamping, reading and giving up a cycle keep the types.
LEMMA CycleType ==
    ASSUME TypeOK, NEW l \in users, l \in Loops,
           \/ NodeStamp(l) \/ NodeRead(l) \/ NodeReadFails(l) \/ NodeSkip(l)
           \/ VMRead(l) \/ VMReadFails(l) \/ VMStamp(l) \/ VMSkip(l)
    PROVE  TypeOK'
<1>1. NoSample \in Samples
  BY BoundsAssumption DEF NoSample, Samples
<1>2. Reading(counter, FALSE) \in Samples /\ Reading(0, TRUE) \in Samples
  BY ReadingType
<1> USE BoundsAssumption DEF TypeOK, envVars, outVars
<1>3. CASE NodeStamp(l) BY <1>3 DEF NodeStamp
<1>4. CASE NodeRead(l) BY <1>2, <1>4 DEF NodeRead
<1>5. CASE NodeReadFails(l)
  <2> DEFINE r == Reading(0, TRUE)
  <2>1. /\ faults < MaxFaults /\ faults' = faults + 1
        /\ cur' = [cur EXCEPT ![l] = r] /\ pc' = [pc EXCEPT ![l] = "observe"]
        /\ UNCHANGED <<envVars, now, outVars>>
    BY <1>5, Zenon DEF NodeReadFails
  <2>2. r \in Samples
    BY <1>2
  <2> HIDE DEF r
  <2>3. QED BY <2>1, <2>2
<1>6. CASE NodeSkip(l) BY <1>1, <1>6 DEF NodeSkip, Done
<1>7. CASE VMRead(l) BY <1>2, <1>7 DEF VMRead
<1>8. CASE VMReadFails(l)
  <2> DEFINE r == Reading(0, TRUE)
  <2>1. /\ faults < MaxFaults /\ faults' = faults + 1
        /\ cur' = [cur EXCEPT ![l] = r] /\ pc' = [pc EXCEPT ![l] = "stamp"]
        /\ UNCHANGED <<envVars, now, outVars>>
    BY <1>8, Zenon DEF VMReadFails
  <2>2. r \in Samples
    BY <1>2
  <2> HIDE DEF r
  <2>3. QED BY <2>1, <2>2
<1>9. CASE VMStamp(l) BY <1>9 DEF VMStamp
<1>10. CASE VMSkip(l) BY <1>1, <1>10 DEF VMSkip, Done
<1>11. QED BY <1>3, <1>4, <1>5, <1>6, <1>7, <1>8, <1>9, <1>10

\* Storing a sample keeps the types.
LEMMA ObserveType ==
    ASSUME TypeOK, NEW l \in Loops, Observe(l)
    PROVE  TypeOK'
<1> DEFINE s == [cur[l] EXCEPT !.at = now[l]]
<1>1. NoSample \in Samples
  BY BoundsAssumption DEF NoSample, Samples
<1>2. s \in Samples
  BY DEF TypeOK, Samples
<1>3. /\ pc' \in [Loops -> {"idle", "read", "stamp", "observe"}]
      /\ \A m \in Loops \ users : pc'[m] = "idle"
      /\ now' \in [Loops -> 0..MaxTime] /\ cur' \in [Loops -> Samples]
  BY <1>1, BoundsAssumption DEF TypeOK, Observe, Done
<1>4. /\ prev' \in Samples \cup {None}
      /\ report' \in [delta : 0..(Width - 1), seconds : -MaxTime..MaxTime,
                      from : Samples, to : Samples]
      /\ credited' \in Nat /\ first' \in 0..MaxGrowth
  <2>1. ObserveCounter(s)
    BY DEF Observe
  <2>2. s.grown \in 0..MaxGrowth /\ s.at \in 0..MaxTime
    BY <1>2 DEF Samples
  <2> HIDE DEF s
  <2>3. CASE prev = None
    BY <1>2, <2>1, <2>2, <2>3 DEF ObserveCounter, TypeOK
  <2>4. CASE prev # None
    <3>1. prev \in Samples /\ prev.at \in 0..MaxTime
      BY <2>4 DEF TypeOK, Samples
    <3>2. Delta(prev, s) \in 0..(Width - 1) /\ s.at - prev.at \in -MaxTime..MaxTime
      BY <1>2, <2>2, <3>1, DeltaType, BoundsAssumption
    <3>3. QED
      BY <1>2, <2>1, <2>4, <3>1, <3>2, BoundsAssumption DEF ObserveCounter, TypeOK
  <2>5. QED BY <2>3, <2>4
<1>5. UNCHANGED <<envVars, faults>>
  BY DEF Observe
<1>6. QED
  BY <1>3, <1>4, <1>5 DEF TypeOK, envVars

\* Every step keeps the types.
LEMMA NextType == TypeOK /\ [Next]_vars => TypeOK'
<1> SUFFICES ASSUME TypeOK, [Next]_vars PROVE TypeOK'
  OBVIOUS
<1>1. CASE UNCHANGED vars
  BY <1>1 DEF vars, TypeOK
<1>2. ASSUME NEW l \in users, l \in Loops, NodeLoop(l) \/ VMLoop(l) PROVE TypeOK'
  BY <1>2, CycleType, ObserveType DEF NodeLoop, VMLoop
<1>3. QED
  BY <1>1, <1>2, EnvironmentType DEF Next, Loops

\* Samples and reports have their types, in particular no reported difference
\* is negative or exceeds the width of a counter, however many loops share it.
THEOREM TypeCorrect == Spec => []TypeOK
BY InitType, NextType, PTL DEF Spec

-----------------------------------------------------------------------------
\* Initially there is no sample and no loop holds a reading.
LEMMA InitInv == Init => IInv
BY DEF Init, IInv, SampleOrder, NeverOverReports, CreditNeedsSample, Holds

\* What follows a sample gives no difference that exceeds what grew in between.
LEMMA DeltaBounded ==
    ASSUME NEW p \in Samples, NEW s \in Samples, Follows(s, p)
    PROVE  Delta(p, s) <= s.grown - p.grown
BY BoundsAssumption DEF Follows, Delta, Samples

\* The clock is not in the invariant, and the counter only moves so that it
\* still follows every sample.
LEMMA EnvironmentInv ==
    ASSUME TypeOK, IInv, Tick \/ SetBack \/ Grow \/ Reset
    PROVE  IInv'
<1> USE DEF loopVars, outVars
<1>1. UNCHANGED <<users, prev, pc, cur, credited, first, faults>>
  BY DEF Tick, SetBack, Grow, Reset
<1>2. ASSUME NEW e \in Samples, Precedes(e)
      PROVE  e.grown <= grown' /\ counter' <= e.value + (grown' - e.grown)
  <2>1. e.value \in Nat /\ e.grown \in Nat /\ counter \in Nat /\ grown \in Nat
    BY BoundsAssumption DEF TypeOK, Samples
  <2>2. \/ counter' = counter /\ grown' = grown
        \/ counter' = counter + 1 /\ grown' = grown + 1
        \/ counter' = 0 /\ grown' = grown
    BY DEF Tick, SetBack, Grow, Reset
  <2>3. QED BY <1>2, <2>1, <2>2 DEF Precedes
<1>3. SampleOrder'
  BY <1>1, <1>2 DEF IInv, SingleLoop, SampleOrder, Holds, Precedes, Follows, TypeOK
<1>4. QED
  BY <1>1, <1>3 DEF IInv, SingleLoop, NeverOverReports, CreditNeedsSample

\* A loop that stamps or skips keeps the samples as they are.
LEMMA StampInv ==
    ASSUME TypeOK, IInv, NEW l \in Loops,
           NodeStamp(l) \/ NodeSkip(l) \/ VMStamp(l) \/ VMSkip(l)
    PROVE  IInv'
<1>1. UNCHANGED <<users, prev, counter, grown, credited, first, faults>>
  BY DEF NodeStamp, NodeSkip, VMStamp, VMSkip, envVars, outVars
<1>2. \A m \in Loops : Holds(m)' => Holds(m) /\ cur'[m] = cur[m]
  BY DEF NodeStamp, NodeSkip, VMStamp, VMSkip, Done, Holds, TypeOK
<1>3. SampleOrder'
  BY <1>1, <1>2 DEF IInv, SingleLoop, SampleOrder, Precedes, Follows
<1>4. QED
  BY <1>1, <1>3 DEF IInv, SingleLoop, NeverOverReports, CreditNeedsSample

\* A reading follows what precedes the counter.
LEMMA ReadInv ==
    ASSUME TypeOK, IInv, NEW l \in Loops, NodeRead(l) \/ VMRead(l)
    PROVE  IInv'
<1> DEFINE r == Reading(counter, FALSE)
<1>1. UNCHANGED <<users, prev, counter, grown, credited, first, faults>>
  BY DEF NodeRead, VMRead, envVars, outVars
<1>2. cur' = [cur EXCEPT ![l] = r] /\ \A m \in Loops \ {l} : Holds(m)' => Holds(m)
  BY DEF NodeRead, VMRead, Holds, TypeOK
<1>3. r.value = counter /\ r.grown = grown
  BY DEF Reading
<1> HIDE DEF r
<1>4. counter \in Nat /\ grown \in Nat
  BY BoundsAssumption DEF TypeOK
<1>5. cur'[l] = r /\ \A m \in Loops \ {l} : cur'[m] = cur[m]
  BY <1>2 DEF TypeOK
<1>6. SampleOrder'
  BY <1>1, <1>2, <1>3, <1>4, <1>5 DEF IInv, SingleLoop, SampleOrder, Precedes, Follows
<1>7. QED
  BY <1>1, <1>6 DEF IInv, SingleLoop, NeverOverReports, CreditNeedsSample

\* After a failed reading the invariant claims nothing about samples.
LEMMA ReadFailsInv ==
    ASSUME TypeOK, IInv, NEW l \in Loops, NodeReadFails(l) \/ VMReadFails(l)
    PROVE  IInv'
<1>1. faults' = faults + 1 /\ UNCHANGED outVars
  BY Zenon DEF NodeReadFails, VMReadFails
<1>2. faults' # 0 /\ UNCHANGED <<prev, credited>>
  BY <1>1, BoundsAssumption DEF TypeOK, outVars
<1>3. QED
  BY <1>2 DEF IInv, SingleLoop, SampleOrder, NeverOverReports, CreditNeedsSample

\* The stored sample is replaced by one that follows it, and the difference
\* is at most what grew between them.
LEMMA ObserveInv ==
    ASSUME TypeOK, IInv, NEW l \in users, l \in Loops, Observe(l)
    PROVE  IInv'
<1> DEFINE s == [cur[l] EXCEPT !.at = now[l]]
<1>1. UNCHANGED <<users, counter, grown, faults>> /\ ObserveCounter(s) /\ prev' = s
  BY DEF Observe, ObserveCounter, envVars
<1>2. /\ s \in Samples /\ s.value = cur[l].value /\ s.grown = cur[l].grown
      /\ s.value \in Nat /\ s.grown \in Nat
  BY BoundsAssumption DEF TypeOK, Samples
<1>3. SingleLoop => \A m \in Loops : ~Holds(m)'
  BY DEF SingleLoop, Observe, Done, Holds, TypeOK
<1>4. SingleLoop /\ faults = 0 => Precedes(s) /\ (prev # None => Follows(s, prev))
  BY <1>2 DEF IInv, SingleLoop, SampleOrder, Holds, Observe, Precedes, Follows
<1>5. SampleOrder'
  BY <1>1, <1>3, <1>4 DEF SampleOrder, SingleLoop, Precedes
<1> HIDE DEF s
<1>6. CreditNeedsSample'
  BY <1>1, <1>2, NoneAssumption DEF CreditNeedsSample
<1>7. NeverOverReports'
  <2>1. SUFFICES ASSUME SingleLoop, faults = 0 PROVE credited' <= s.grown - first'
    BY <1>1 DEF NeverOverReports, SingleLoop
  <2>2. CASE prev = None
    <3>1. credited' = 0 /\ first' = s.grown
      BY <1>1, <2>2 DEF ObserveCounter, IInv, CreditNeedsSample
    <3>2. QED BY <1>2, <3>1
  <2>3. CASE prev # None
    <3>1. credited' = credited + Delta(prev, s) /\ first' = first
      BY <1>1, <2>3 DEF ObserveCounter
    <3>2. prev \in Samples /\ prev.grown \in Nat /\ credited \in Nat /\ first \in Nat
      BY <2>3, BoundsAssumption DEF TypeOK, Samples
    <3>3. Delta(prev, s) <= s.grown - prev.grown /\ Delta(prev, s) \in Nat
      BY <1>2, <1>4, <2>1, <2>3, <3>2, DeltaBounded, DeltaType, BoundsAssumption
    <3>4. credited <= prev.grown - first
      BY <2>1, <2>3 DEF IInv, NeverOverReports
    <3>5. QED BY <1>2, <3>1, <3>2, <3>3, <3>4
  <2>4. QED BY <2>2, <2>3
<1>8. QED
  BY <1>5, <1>6, <1>7 DEF IInv

\* The invariant is inductive.
LEMMA NextInv == TypeOK /\ IInv /\ [Next]_vars => IInv'
<1> SUFFICES ASSUME TypeOK, IInv, [Next]_vars PROVE IInv'
  OBVIOUS
<1>1. CASE UNCHANGED vars
  BY <1>1 DEF vars, IInv, SingleLoop, SampleOrder, NeverOverReports, CreditNeedsSample,
              Holds, Precedes, Follows
<1>2. ASSUME NEW l \in users, l \in Loops, NodeLoop(l) \/ VMLoop(l) PROVE IInv'
  BY <1>2, StampInv, ReadInv, ReadFailsInv, ObserveInv DEF NodeLoop, VMLoop
<1>3. QED
  BY <1>1, <1>2, EnvironmentInv DEF Next, Loops

\* For a key with a single loop, as every disk and network counter has, the
\* deltas reported over any run never sum up to more than the counter grew
\* since the first sample, unless a reading failed.
THEOREM CountedOnce == Spec => []NeverOverReports
<1>1. Init => TypeOK /\ IInv
  BY InitType, InitInv
<1>2. (TypeOK /\ IInv) /\ [Next]_vars => (TypeOK /\ IInv)'
  BY NextType, NextInv
<1>3. TypeOK /\ IInv => NeverOverReports
  BY DEF IInv
<1>4. QED
  BY <1>1, <1>2, <1>3, PTL DEF Spec

-----------------------------------------------------------------------------
(* Any number of loops *)

\* The samples that are stored or held.  A loop that holds none has NoSample,
\* which is what reading the counter gave at its first moment.
Taken(a) == (prev # None /\ a = prev) \/ \E l \in Loops : a = cur[l]

\* A sample agrees with the past of the counter as it is.
Genuine(a) ==
    /\ a.failed => a.value = 0
    /\ ~a.failed =>
          /\ a.value <= a.grown /\ a.grown <= a.moment /\ a.moment <= moment
          /\ resets = 0 => a.value = a.grown
          /\ Precedes(a)
          /\ a.moment = moment => a.value = counter /\ a.grown = grown

\* Two samples agree with each other, in the order in which they were taken.
Ordered(a, b) == ~a.failed /\ ~b.failed /\ a.moment <= b.moment => Follows(b, a)

GInv ==
    /\ resets = 0 => counter = grown
    /\ \A a \in Samples : Taken(a) => Genuine(a)
    /\ \A a, b \in Samples : Taken(a) /\ Taken(b) => Ordered(a, b)

\* The same reading, whatever its time stamp.
Same(a, b) ==
    a.value = b.value /\ a.grown = b.grown /\ a.moment = b.moment /\ (a.failed <=> b.failed)

\* The counter as it is.
Present(a) == ~a.failed /\ a.value = counter /\ a.grown = grown /\ a.moment = moment

\* A failed reading.
Failed(a) == a.failed /\ a.value = 0

\* The counter's first moment.
Origin(a) == ~a.failed /\ a.value = 0 /\ a.grown = 0 /\ a.moment = 0

\* Where a sample may come from in one step of a loop.
Known(a) ==
    \/ \E b \in Samples : Taken(b) /\ Same(a, b)
    \/ Present(a) \/ Failed(a) \/ Origin(a)

\* The fields of a sample are numbers.
LEMMA Fields ==
    ASSUME NEW a \in Samples
    PROVE  /\ a.value \in Nat /\ a.grown \in Nat /\ a.moment \in Nat /\ a.at \in Nat
           /\ a.failed \in BOOLEAN
BY BoundsAssumption DEF Samples

\* The counter's state is made of numbers.
LEMMA CounterFields ==
    ASSUME TypeOK
    PROVE  /\ counter \in Nat /\ grown \in Nat /\ moment \in Nat /\ resets \in Nat
           /\ counter <= grown /\ moment = grown + resets
BY BoundsAssumption DEF TypeOK

\* Whatever a step of a loop stores or holds agrees with the counter's past.
LEMMA KnownGenuine ==
    ASSUME TypeOK, GInv, NEW a \in Samples, Known(a)
    PROVE  Genuine(a)
<1> USE Fields, CounterFields
<1>1. CASE \E b \in Samples : Taken(b) /\ Same(a, b)
  BY <1>1 DEF GInv, Same, Genuine, Precedes
<1>2. CASE Present(a)
  BY <1>2 DEF GInv, Present, Genuine, Precedes
<1>3. CASE Failed(a)
  BY <1>3 DEF Failed, Genuine
<1>4. CASE Origin(a)
  BY <1>4 DEF GInv, Origin, Genuine, Precedes
<1>5. QED
  BY <1>1, <1>2, <1>3, <1>4 DEF Known

\* And any two of them agree with each other.
LEMMA KnownOrdered ==
    ASSUME TypeOK, GInv, NEW a \in Samples, NEW b \in Samples, Known(a), Known(b)
    PROVE  Ordered(a, b)
<1> USE Fields, CounterFields
<1>1. Genuine(a) /\ Genuine(b)
  BY KnownGenuine
<1>2. CASE Present(b) \/ Present(a)
  BY <1>1, <1>2 DEF Present, Genuine, Precedes, Ordered, Follows
<1>3. CASE Failed(a) \/ Failed(b)
  BY <1>3 DEF Failed, Ordered
<1>4. CASE Origin(a) \/ Origin(b)
  BY <1>1, <1>4 DEF Origin, Genuine, Ordered, Follows
<1>5. ASSUME NEW c \in Samples, NEW d \in Samples,
             Taken(c), Same(a, c), Taken(d), Same(b, d)
      PROVE  Ordered(a, b)
  BY <1>5 DEF GInv, Same, Ordered, Follows
<1>6. QED
  BY <1>2, <1>3, <1>4, <1>5 DEF Known

\* So a step of a loop keeps the agreement.
LEMMA LoopGInv ==
    ASSUME TypeOK, GInv, UNCHANGED <<counter, grown, moment, resets>>,
           \A a \in Samples : Taken(a)' => Known(a)
    PROVE  GInv'
<1>1. \A a \in Samples : Taken(a)' => Genuine(a)'
  BY KnownGenuine DEF Genuine, Precedes
<1>2. \A a, b \in Samples : Taken(a)' /\ Taken(b)' => Ordered(a, b)
  BY KnownOrdered
<1>3. QED
  BY <1>1, <1>2 DEF GInv, Ordered, Follows

\* The counter moves on, and its past stays what it was.
LEMMA EnvironmentGInv ==
    ASSUME TypeOK, GInv, Tick \/ SetBack \/ Grow \/ Reset
    PROVE  GInv'
<1> USE Fields, CounterFields
<1>1. UNCHANGED <<prev, cur>>
  BY DEF Tick, SetBack, Grow, Reset, loopVars, outVars
<1>2. \/ UNCHANGED <<counter, grown, moment, resets>>
      \/ /\ counter' = counter + 1 /\ grown' = grown + 1 /\ moment' = moment + 1
         /\ resets' = resets
      \/ /\ counter' = 0 /\ grown' = grown /\ moment' = moment + 1
         /\ resets' = resets + 1
  BY DEF Tick, SetBack, Grow, Reset
<1>3. ASSUME NEW a \in Samples, Genuine(a) PROVE Genuine(a)'
  BY <1>2, <1>3 DEF Genuine, Precedes
<1>4. \A a \in Samples : Taken(a)' => Taken(a)
  BY <1>1 DEF Taken
<1>5. (resets = 0 => counter = grown)'
  BY <1>2 DEF GInv
<1>6. QED
  BY <1>3, <1>4, <1>5 DEF GInv, Ordered, Follows

\* The three kinds of samples that a loop takes or forgets.
LEMMA NewSamples ==
    /\ Present(Reading(counter, FALSE)) /\ Failed(Reading(0, TRUE)) /\ Origin(NoSample)
<1>1. Present(Reading(counter, FALSE))
  BY Zenon DEF Reading, Present
<1>2. Failed(Reading(0, TRUE))
  BY Zenon DEF Reading, Failed
<1>3. Origin(NoSample)
  BY Zenon DEF NoSample, Origin
<1>4. QED
  BY <1>1, <1>2, <1>3

\* A step of a loop that stores nothing.
LEMMA CycleGInv ==
    ASSUME TypeOK, GInv, NEW l \in Loops,
           \/ NodeStamp(l) \/ NodeRead(l) \/ NodeReadFails(l) \/ NodeSkip(l)
           \/ VMRead(l) \/ VMReadFails(l) \/ VMStamp(l) \/ VMSkip(l)
    PROVE  GInv'
<1>1. UNCHANGED <<counter, grown, moment, resets, prev>>
  BY DEF NodeStamp, NodeRead, NodeReadFails, NodeSkip, VMRead, VMReadFails, VMStamp, VMSkip,
         envVars, outVars
<1>2. PICK r : /\ Present(r) \/ Failed(r) \/ Origin(r)
               /\ cur' = cur \/ cur' = [cur EXCEPT ![l] = r]
  BY NewSamples, Zenon
  DEF NodeStamp, NodeRead, NodeReadFails, NodeSkip, VMRead, VMReadFails, VMStamp, VMSkip, Done
<1>3. \A m \in Loops : cur'[m] = cur[m] \/ cur'[m] = r
  BY <1>2 DEF TypeOK
<1>4. ASSUME NEW a \in Samples, Taken(a)' PROVE Known(a)
  <2>1. Taken(a) \/ a = r
    BY <1>1, <1>3, <1>4 DEF Taken
  <2>2. Same(a, a)
    BY DEF Same
  <2>3. QED
    BY <1>2, <2>1, <2>2 DEF Known
<1>5. QED
  BY <1>1, <1>4, LoopGInv

\* Storing a sample: it agrees with the past as the one that was held did.
LEMMA ObserveGInv ==
    ASSUME TypeOK, GInv, NEW l \in Loops, Observe(l)
    PROVE  GInv'
<1> DEFINE s == [cur[l] EXCEPT !.at = now[l]]
<1>1. UNCHANGED <<counter, grown, moment, resets>> /\ prev' = s
  BY DEF Observe, ObserveCounter, envVars
<1>2. s \in Samples /\ cur[l] \in Samples /\ Taken(cur[l]) /\ Same(s, cur[l])
  BY DEF TypeOK, Samples, Taken, Same
<1> HIDE DEF s
<1>3. \A m \in Loops : cur'[m] = cur[m] \/ cur'[m] = NoSample
  BY DEF Observe, Done, TypeOK
<1>4. ASSUME NEW a \in Samples, Taken(a)' PROVE Known(a)
  <2>1. Taken(a) \/ a = NoSample \/ a = s
    BY <1>1, <1>3, <1>4 DEF Taken
  <2>2. Same(a, a)
    BY DEF Same
  <2>3. QED
    BY <1>2, <2>1, <2>2, NewSamples DEF Known
<1>5. QED
  BY <1>1, <1>4, LoopGInv

\* The agreement holds in every reachable state.
LEMMA NextGInv == TypeOK /\ GInv /\ [Next]_vars => GInv'
<1> SUFFICES ASSUME TypeOK, GInv, [Next]_vars PROVE GInv'
  OBVIOUS
<1>1. CASE UNCHANGED vars
  BY <1>1 DEF vars, GInv, Taken, Genuine, Precedes, Ordered, Follows
<1>2. ASSUME NEW l \in users, l \in Loops, NodeLoop(l) \/ VMLoop(l) PROVE GInv'
  BY <1>2, CycleGInv, ObserveGInv DEF NodeLoop, VMLoop
<1>3. QED
  BY <1>1, <1>2, EnvironmentGInv DEF Next, Loops

\* Initially every loop has NoSample.
LEMMA InitGInv == Init => GInv
<1> SUFFICES ASSUME Init PROVE GInv
  OBVIOUS
<1>1. NoSample \in Samples
  BY BoundsAssumption DEF NoSample, Samples
<1>2. \A a : Taken(a) => a = NoSample
  BY DEF Init, Taken
<1>3. counter = 0 /\ grown = 0 /\ moment = 0 /\ resets = 0
  BY DEF Init
<1>4. Genuine(NoSample)
  BY <1>1, <1>3, NewSamples, Fields DEF Origin, Genuine, Precedes
<1>5. Ordered(NoSample, NoSample)
  BY <1>1, Fields DEF Ordered, Follows
<1>6. QED
  BY <1>2, <1>3, <1>4, <1>5 DEF GInv

\* The report of one observation: what it claims has grown, unless it starts
\* from a failed reading or goes back over a restart.
LEMMA ObserveGrowth ==
    ASSUME TypeOK, GInv, NoInventedGrowth, NEW l \in Loops, Observe(l)
    PROVE  NoInventedGrowth'
<1> DEFINE s == [cur[l] EXCEPT !.at = now[l]]
<1>1. UNCHANGED resets /\ ObserveCounter(s)
  BY DEF Observe, envVars
<1>2. s \in Samples /\ cur[l] \in Samples /\ Taken(cur[l]) /\ Same(s, cur[l])
  BY DEF TypeOK, Samples, Taken, Same
<1> HIDE DEF s
<1>3. CASE prev = None
  BY <1>1, <1>3 DEF ObserveCounter, NoInventedGrowth
<1>4. CASE prev # None
  <2>1. prev \in Samples /\ Taken(prev)
    BY <1>4 DEF TypeOK, Taken
  <2>2. /\ report'.delta = Delta(prev, s) /\ report'.seconds = s.at - prev.at
        /\ report'.from = prev /\ report'.to = s
    BY <1>1, <1>4 DEF ObserveCounter
  <2>3. SUFFICES ASSUME Delta(prev, s) > 0, ~prev.failed,
                        ~(s.moment < prev.moment /\ resets > 0)
                 PROVE  s.at - prev.at > 0 /\ Delta(prev, s) <= s.grown - prev.grown
    BY <1>1, <2>1, <2>2, Fields, <1>2, DeltaType DEF NoInventedGrowth, Delta
  <2>4. /\ s.at - prev.at > 0 /\ Delta(prev, s) = s.value - prev.value
        /\ s.value > prev.value
    BY <1>2, <2>1, <2>3, Fields DEF Delta
  <2>5. ~s.failed /\ ~cur[l].failed
    BY <1>2, <2>1, <2>4, Fields DEF GInv, Genuine, Same
  <2>6. CASE prev.moment <= s.moment
    <3>1. Follows(s, prev)
      BY <1>2, <2>1, <2>3, <2>5, <2>6 DEF GInv, Ordered, Same, Follows
    <3>2. QED
      BY <1>2, <2>1, <2>4, <3>1, Fields DEF Follows
  <2>7. CASE resets = 0
    <3>1. s.value = s.grown /\ prev.value = prev.grown
      BY <1>2, <2>1, <2>3, <2>5, <2>7 DEF GInv, Genuine, Same
    <3>2. QED
      BY <1>2, <2>1, <2>4, <3>1, Fields
  <2>8. QED
    BY <1>2, <2>1, <2>3, <2>6, <2>7, Fields, CounterFields
<1>5. QED
  BY <1>3, <1>4

\* Every other step leaves the last report, and restarts are never undone.
LEMMA NextGrowth == TypeOK /\ GInv /\ NoInventedGrowth /\ [Next]_vars => NoInventedGrowth'
<1> SUFFICES ASSUME TypeOK, GInv, NoInventedGrowth, [Next]_vars PROVE NoInventedGrowth'
  OBVIOUS
<1>1. CASE UNCHANGED report /\ (resets' = resets \/ resets' = resets + 1)
  BY <1>1, CounterFields DEF NoInventedGrowth
<1>2. ASSUME NEW l \in users, l \in Loops, NodeLoop(l) \/ VMLoop(l) PROVE NoInventedGrowth'
  <2>1. Observe(l) \/ UNCHANGED <<report, resets>>
    BY <1>2 DEF NodeLoop, VMLoop, NodeStamp, NodeRead, NodeReadFails, NodeSkip, VMRead,
                VMReadFails, VMStamp, VMSkip, envVars, outVars
  <2>2. QED
    BY <1>1, <1>2, <2>1, ObserveGrowth
<1>3. CASE Tick \/ SetBack \/ Grow \/ Reset
  BY <1>1, <1>3 DEF Tick, SetBack, Grow, Reset, outVars
<1>4. CASE UNCHANGED vars
  BY <1>1, <1>4 DEF vars
<1>5. QED
  BY <1>2, <1>3, <1>4 DEF Next, Loops

\* However many loops share a key, however their samples overtake each other
\* and however often the counter restarts or the clock is set back: a report
\* claims no more than grew between its two readings, over a positive interval,
\* unless the earlier one failed or they were stored in the opposite order with
\* a restart.
THEOREM GrowthIsReal == Spec => []NoInventedGrowth
<1>1. Init => TypeOK /\ GInv /\ NoInventedGrowth
  BY InitType, InitGInv DEF Init, NoReport, NoInventedGrowth
<1>2. (TypeOK /\ GInv /\ NoInventedGrowth) /\ [Next]_vars
      => (TypeOK /\ GInv /\ NoInventedGrowth)'
  BY NextType, NextGInv, NextGrowth
<1>3. QED
  BY <1>1, <1>2, PTL DEF Spec
=============================================================================
