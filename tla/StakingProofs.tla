--------------------------- MODULE StakingProofs ---------------------------
(***************************************************************************)
(* LP staking pays no more than its schedule has released, whoever bonds,  *)
(* unbonds and withdraws when, whatever slots the owner replaces and when  *)
(* the distribution is stopped.                                            *)
(***************************************************************************)
EXTENDS StakingProperties, ArithmeticTheorems, TLAPS

-----------------------------------------------------------------------------
(* Slots.                                                                  *)

LEMMA DecMulBounds ==
    ASSUME NEW d \in Nat, NEW n \in Nat
    PROVE  /\ DecMul(d, n) \in Nat
           /\ One * DecMul(d, n) <= d * n
           /\ d * n < One * DecMul(d, n) + One
<1>1. d * n \in Nat /\ One \in Nat \ {0}
  BY MulNat, StakingAssumption
<1> QED
  BY <1>1, DivBounds DEF DecMul

\* Rounding twice gives at most what rounding once gives.
LEMMA DecMulAdds ==
    ASSUME NEW d \in Nat, NEW a \in Nat, NEW b \in Nat
    PROVE  DecMul(d, a) + DecMul(d, b) <= DecMul(d, a + b)
<1> DEFINE x == DecMul(d, a)
           y == DecMul(d, b)
           z == DecMul(d, a + b)
<1>0. a + b \in Nat /\ One \in Nat \ {0}
  BY StakingAssumption
<1>1. /\ x \in Nat /\ One * x <= d * a
      /\ y \in Nat /\ One * y <= d * b
      /\ z \in Nat /\ d * (a + b) < One * z + One
      /\ One \in Nat \ {0}
  BY <1>0, DecMulBounds
<1>2. d * (a + b) = d * a + d * b /\ d * a \in Nat /\ d * b \in Nat
  BY MulNat
<1> HIDE DEF x, y, z
<1>3. One * x + One * y < One * z + One
  BY <1>1, <1>2
<1>4. SUFFICES ASSUME x + y >= z + 1 PROVE FALSE
  BY <1>1 DEF x, y, z
<1>5. (z + 1) * One <= (x + y) * One
  BY <1>1, <1>4, MulMono
<1> QED
  BY <1>1, <1>3, <1>5

LEMMA DecMulZero ==
    ASSUME NEW d \in Nat
    PROVE  DecMul(d, 0) = 0 /\ DecMul(0, d) = 0
BY StakingAssumption DEF DecMul

SlotTyped(s) == s[1] \in Nat /\ s[2] \in Nat /\ s[3] \in Nat

\* GLOW per second.
RateOf(s) == from_ratio(s[3], s[2] - s[1])

LEMMA RateBounds ==
    ASSUME NEW s, SlotTyped(s), s[1] < s[2]
    PROVE  /\ RateOf(s) \in Nat
           /\ DecMul(RateOf(s), s[2] - s[1]) <= s[3]
<1> DEFINE len == s[2] - s[1]
           rate == RateOf(s)
           all == DecMul(rate, len)
<1>1. len \in Nat \ {0} /\ s[3] \in Nat /\ s[3] * One \in Nat /\ One \in Nat \ {0}
  BY MulNat, StakingAssumption DEF SlotTyped
<1>2. rate = (s[3] * One) \div len
  BY DEF RateOf, from_ratio
<1> HIDE DEF len, rate
<1>3. rate \in Nat /\ len * rate <= s[3] * One
  BY <1>1, <1>2, DivBounds
<1>4. all \in Nat /\ One * all <= rate * len
  BY <1>1, <1>3, DecMulBounds
<1> HIDE DEF all
<1>5. all * One <= s[3] * One
  BY <1>1, <1>3, <1>4
<1>6. all <= s[3]
  BY <1>1, <1>4, <1>5, MulCancel
<1> QED
  BY <1>3, <1>6 DEF all, rate, len

\* What a slot has released up to time t; when it is over, all of it.  A slot
\* that ends at t counts in full when full is true.
Upto(s, t, full) ==
    IF s[1] >= s[2] \/ t <= s[1] THEN 0
    ELSE IF s[2] < t \/ (full /\ s[2] = t) THEN s[3]
    ELSE DecMul(RateOf(s), t - s[1])

LEMMA UptoTyped ==
    ASSUME NEW s, SlotTyped(s), NEW t \in Nat, NEW full \in BOOLEAN
    PROVE  Upto(s, t, full) \in Nat /\ Upto(s, t, full) <= s[3]
<1>1. CASE s[1] >= s[2] \/ t <= s[1]
  BY <1>1 DEF Upto, SlotTyped
<1>2. CASE ~(s[1] >= s[2] \/ t <= s[1]) /\ (s[2] < t \/ (full /\ s[2] = t))
  BY <1>2 DEF Upto, SlotTyped
<1>3. CASE ~(s[1] >= s[2] \/ t <= s[1]) /\ ~(s[2] < t \/ (full /\ s[2] = t))
  <2>1. /\ s[1] < s[2] /\ t - s[1] \in Nat /\ s[2] - t \in Nat /\ s[3] \in Nat
        /\ s[2] - s[1] = (t - s[1]) + (s[2] - t)
    BY <1>3 DEF SlotTyped
  <2>2. Upto(s, t, full) = DecMul(RateOf(s), t - s[1])
    BY <1>3 DEF Upto
  <2>3. RateOf(s) \in Nat /\ DecMul(RateOf(s), s[2] - s[1]) <= s[3]
    BY <2>1, RateBounds
  <2> DEFINE x == DecMul(RateOf(s), t - s[1])
             y == DecMul(RateOf(s), s[2] - t)
             z == DecMul(RateOf(s), s[2] - s[1])
  <2>4. x \in Nat /\ y \in Nat /\ x + y <= z
    BY <2>1, <2>3, DecMulBounds, DecMulAdds
  <2>5. z \in Nat
    <3>1. s[2] - s[1] \in Nat
      BY <2>1
    <3> QED
      BY <2>3, <3>1, DecMulBounds
  <2>6. z <= s[3]
    BY <2>3
  <2> HIDE DEF x, y, z
  <2>7. x <= s[3]
    BY <2>1, <2>4, <2>5, <2>6
  <2> QED
    BY <2>2, <2>4, <2>7 DEF x
<1> QED
  BY <1>1, <1>2, <1>3

\* The code pays for a stretch of time at most the difference.
LEMMA DistributedBelow ==
    ASSUME NEW s, SlotTyped(s), NEW from \in Nat, NEW to \in Nat, from <= to,
           NEW full \in BOOLEAN, s[1] > to \/ s[2] < from \/ s[1] < s[2]
    PROVE  /\ Distributed(s, from, to) \in Nat
           /\ Distributed(s, from, to) + Upto(s, from, full) <= Upto(s, to, full)
<1>0. /\ s[1] \in Nat /\ s[2] \in Nat /\ s[3] \in Nat
      /\ Upto(s, from, full) \in Nat /\ Upto(s, to, full) \in Nat
      /\ Upto(s, from, full) <= s[3]
  BY UptoTyped DEF SlotTyped
<1>1. CASE s[1] > to
  BY <1>0, <1>1 DEF Distributed, Upto
<1>2. CASE s[1] <= to /\ s[2] < from
  <2>1. Distributed(s, from, to) = 0
    BY <1>2 DEF Distributed
  <2>2. Upto(s, from, full) <= Upto(s, to, full)
    <3>1. CASE s[1] >= s[2]
      BY <3>1 DEF Upto
    <3>2. CASE s[1] < s[2]
      BY <1>0, <1>2, <3>2 DEF Upto
    <3> QED
      BY <1>0, <3>1, <3>2
  <2> QED
    BY <1>0, <2>1, <2>2
<1>3. CASE s[1] <= to /\ s[2] >= from
  <2> DEFINE rate == RateOf(s)
             start == Larger(s[1], from)
             end == Smaller(s[2], to)
             a == start - s[1]
             b == end - start
             c == end - s[1]
             d == DecMul(rate, b)
             x == DecMul(rate, a)
             z == DecMul(rate, c)
  <2>1. s[1] < s[2]
    BY <1>0, <1>3
  <2>2. Distributed(s, from, to) = d
    BY <1>0, <1>3 DEF Distributed, RateOf
  <2>3. start \in Nat /\ end \in Nat /\ a \in Nat /\ b \in Nat /\ c \in Nat /\ c = a + b
    BY <1>0, <1>3, <2>1 DEF Larger, Smaller
  <2>4. rate \in Nat /\ DecMul(rate, s[2] - s[1]) <= s[3]
    BY <2>1, RateBounds
  <2>5. x \in Nat /\ d \in Nat /\ z \in Nat /\ x + d <= z
    <3> HIDE DEF rate, a, b, c
    <3>1. x + d <= DecMul(rate, a + b)
      BY <2>3, <2>4, DecMulAdds
    <3> QED
      BY <2>3, <2>4, <3>1, DecMulBounds
  <2>6. z <= Upto(s, to, full)
    <3>1. CASE to <= s[1]
      <4>1. c = 0 /\ Upto(s, to, full) = 0
        BY <1>0, <1>3, <2>1, <3>1 DEF Smaller, Upto
      <4>2. z = 0
        BY <2>4, <4>1, DecMulZero
      <4> QED
        BY <4>1, <4>2
    <3>2. CASE to > s[1] /\ to < s[2]
      <4>1. c = to - s[1] /\ Upto(s, to, full) = DecMul(rate, to - s[1])
        BY <1>0, <2>1, <3>2 DEF Smaller, Upto
      <4> QED
        BY <2>5, <4>1
    <3>3. CASE to >= s[2]
      <4>1. c = s[2] - s[1]
        BY <1>0, <3>3 DEF Smaller
      <4>2. z <= s[3]
        BY <2>4, <4>1
      <4>3. \/ Upto(s, to, full) = s[3]
            \/ Upto(s, to, full) = DecMul(rate, to - s[1]) /\ to = s[2]
        <5>1. ~(s[1] >= s[2] \/ to <= s[1])
          BY <1>0, <2>1, <3>3
        <5>2. CASE s[2] < to \/ (full /\ s[2] = to)
          BY <5>1, <5>2 DEF Upto
        <5>3. CASE ~(s[2] < to \/ (full /\ s[2] = to))
          <6>1. to = s[2]
            BY <1>0, <3>3, <5>3
          <6>2. Upto(s, to, full) = DecMul(rate, to - s[1])
            BY <5>1, <5>3 DEF Upto
          <6> QED
            BY <6>1, <6>2
        <5> QED
          BY <5>2, <5>3
      <4>4. CASE Upto(s, to, full) = s[3]
        BY <4>2, <4>4
      <4>5. CASE Upto(s, to, full) = DecMul(rate, to - s[1]) /\ to = s[2]
        BY <2>5, <4>1, <4>5
      <4> QED
        BY <4>3, <4>4, <4>5
    <3> QED
      BY <1>0, <3>1, <3>2, <3>3
  <2>7. CASE from <= s[1]
    <3>1. Upto(s, from, full) = 0
      BY <2>7 DEF Upto
    <3> QED
      BY <1>0, <2>2, <2>5, <2>6, <3>1
  <2>8. CASE from > s[1] /\ ~(full /\ s[2] = from)
    <3>1. a = from - s[1]
      BY <1>0, <2>8 DEF Larger
    <3>2. Upto(s, from, full) = x
      BY <1>0, <1>3, <2>1, <2>8, <3>1 DEF Upto
    <3> QED
      BY <1>0, <2>2, <2>5, <2>6, <3>2
  <2>9. CASE from > s[1] /\ full /\ s[2] = from
    <3>1. b = 0 /\ Upto(s, to, full) = s[3]
      BY <1>0, <2>1, <2>9 DEF Larger, Smaller, Upto
    <3>2. d = 0
      BY <2>4, <3>1, DecMulZero
    <3> QED
      BY <1>0, <2>2, <3>1, <3>2
  <2> QED
    BY <1>0, <2>7, <2>8, <2>9
<1> QED
  BY <1>0, <1>1, <1>2, <1>3

-----------------------------------------------------------------------------
(* Schedules.                                                              *)

ScheduleTyped(schedule) ==
    IsFiniteSet(DOMAIN schedule) /\ \A i \in DOMAIN schedule : SlotTyped(schedule[i])

UptoIn(schedule, t, full) == [i \in DOMAIN schedule |-> Upto(schedule[i], t, full)]
Emitted(schedule, t, full) == SumFunctionOnSet(UptoIn(schedule, t, full), DOMAIN schedule)

AmountsIn(schedule) == [i \in DOMAIN schedule |-> schedule[i][3]]
Amounts(schedule) == SumFunctionOnSet(AmountsIn(schedule), DOMAIN schedule)

\* The amounts of the slots that have begun at time t.
BegunIn(schedule, t) ==
    [i \in DOMAIN schedule |-> IF schedule[i][1] <= t THEN schedule[i][3] ELSE 0]
Begun(schedule, t) == SumFunctionOnSet(BegunIn(schedule, t), DOMAIN schedule)

LEMMA SequenceIsTyped ==
    ASSUME NEW schedule \in Seq(Nat \X Nat \X Nat)
    PROVE  ScheduleTyped(schedule)
<1>1. DOMAIN schedule = 1..Len(schedule) /\ Len(schedule) \in Nat
  OBVIOUS
<1>2. IsFiniteSet(DOMAIN schedule)
  BY <1>1, FS_Interval
<1>3. ASSUME NEW i \in DOMAIN schedule PROVE SlotTyped(schedule[i])
  <2>1. schedule[i] \in Nat \X Nat \X Nat
    OBVIOUS
  <2> QED
    BY <2>1 DEF SlotTyped
<1> QED
  BY <1>2, <1>3 DEF ScheduleTyped

LEMMA EmittedTyped ==
    ASSUME NEW schedule, ScheduleTyped(schedule), NEW t \in Nat, NEW full \in BOOLEAN
    PROVE  /\ Emitted(schedule, t, full) \in Nat /\ Amounts(schedule) \in Nat
           /\ Emitted(schedule, t, full) <= Amounts(schedule)
           /\ Begun(schedule, t) \in Nat /\ Begun(schedule, t) <= Amounts(schedule)
<1> DEFINE D == DOMAIN schedule
           f == UptoIn(schedule, t, full)
           g == AmountsIn(schedule)
           h == BegunIn(schedule, t)
<1>1. ASSUME NEW i \in D
      PROVE  f[i] \in Nat /\ g[i] \in Nat /\ h[i] \in Nat /\ f[i] <= g[i] /\ h[i] <= g[i]
  <2>1. SlotTyped(schedule[i])
    BY DEF ScheduleTyped
  <2>2. Upto(schedule[i], t, full) \in Nat /\ Upto(schedule[i], t, full) <= schedule[i][3]
    BY <2>1, UptoTyped
  <2> QED
    BY <2>1, <2>2 DEF UptoIn, AmountsIn, BegunIn, SlotTyped
<1>2. IsFiniteSet(D)
  BY DEF ScheduleTyped
<1> HIDE DEF D, f, g, h
<1>3. /\ SumFunctionOnSet(f, D) \in Nat /\ SumFunctionOnSet(g, D) \in Nat
      /\ SumFunctionOnSet(h, D) \in Nat
  BY <1>1, <1>2, SumNat
<1>4. /\ \A i \in D : f[i] \in Int
      /\ \A i \in D : g[i] \in Int
      /\ \A i \in D : h[i] \in Int
      /\ \A i \in D : f[i] <= g[i]
      /\ \A i \in D : h[i] <= g[i]
  BY <1>1
<1>5. /\ SumFunctionOnSet(f, D) <= SumFunctionOnSet(g, D)
      /\ SumFunctionOnSet(h, D) <= SumFunctionOnSet(g, D)
  BY <1>2, <1>4, SumBelow
<1> QED
  BY <1>3, <1>5 DEF Emitted, Amounts, Begun, D, f, g, h

\* A schedule pays for a stretch of time at most what it releases in it.
LEMMA EmissionBound ==
    ASSUME NEW schedule, ScheduleTyped(schedule), NEW from \in Nat, NEW to \in Nat,
           from <= to, NEW full \in BOOLEAN, SlotsUsable(schedule, from, to)
    PROVE  /\ ScheduledBetween(schedule, from, to) \in Nat
           /\ ScheduledBetween(schedule, from, to) + Emitted(schedule, from, full)
                <= Emitted(schedule, to, full)
<1> DEFINE D == DOMAIN schedule
           d == [i \in D |-> Distributed(schedule[i], from, to)]
           f == UptoIn(schedule, from, full)
           g == UptoIn(schedule, to, full)
           h == [i \in D |-> d[i] + f[i]]
<1>1. ASSUME NEW i \in D
      PROVE  d[i] \in Nat /\ f[i] \in Nat /\ g[i] \in Nat /\ d[i] + f[i] <= g[i]
  <2>1. SlotTyped(schedule[i])
    BY DEF ScheduleTyped
  <2>2. schedule[i][1] > to \/ schedule[i][2] < from \/ schedule[i][1] < schedule[i][2]
    BY DEF SlotsUsable
  <2>3. /\ Upto(schedule[i], from, full) \in Nat /\ Upto(schedule[i], to, full) \in Nat
        /\ Distributed(schedule[i], from, to) \in Nat
        /\ Distributed(schedule[i], from, to) + Upto(schedule[i], from, full)
              <= Upto(schedule[i], to, full)
    BY <2>1, <2>2, UptoTyped, DistributedBelow
  <2> QED
    BY <2>3 DEF UptoIn
<1>2. IsFiniteSet(D)
  BY DEF ScheduleTyped
<1>3. ScheduledBetween(schedule, from, to) = SumFunction(d) /\ DOMAIN d = D
  BY DEF ScheduledBetween
<1>4. \A i \in D : h[i] = d[i] + f[i]
  OBVIOUS
<1> HIDE DEF D, d, f, g, h
<1>5. SumFunction(d) = SumFunctionOnSet(d, D)
  BY <1>3, SumOnDomain
<1>6. /\ \A i \in D : d[i] \in Int
      /\ \A i \in D : f[i] \in Int
      /\ \A i \in D : g[i] \in Int
      /\ \A i \in D : h[i] \in Int
      /\ \A i \in D : h[i] <= g[i]
  BY <1>1, <1>4
<1>7. SumFunctionOnSet(h, D) = SumFunctionOnSet(d, D) + SumFunctionOnSet(f, D)
  BY <1>2, <1>4, <1>6, SumPlus
<1>8. SumFunctionOnSet(h, D) <= SumFunctionOnSet(g, D)
  BY <1>2, <1>6, SumBelow
<1>9. SumFunctionOnSet(d, D) \in Nat
  BY <1>1, <1>2, SumNat
<1>10. SumFunctionOnSet(d, D) + SumFunctionOnSet(f, D) <= SumFunctionOnSet(g, D)
  BY <1>7, <1>8
<1> QED
  BY <1>3, <1>5, <1>9, <1>10 DEF Emitted, D, f, g

\* Nothing is taken back as time passes.
LEMMA EmissionGrows ==
    ASSUME NEW schedule, ScheduleTyped(schedule), NEW from \in Nat, NEW to \in Nat,
           from <= to, NEW full \in BOOLEAN
    PROVE  /\ Emitted(schedule, from, full) <= Emitted(schedule, to, full)
           /\ Begun(schedule, from) <= Begun(schedule, to)
<1> DEFINE D == DOMAIN schedule
           f == UptoIn(schedule, from, full)
           g == UptoIn(schedule, to, full)
           h == BegunIn(schedule, from)
           k == BegunIn(schedule, to)
<1>1. ASSUME NEW i \in D
      PROVE  /\ f[i] \in Int /\ g[i] \in Int /\ f[i] <= g[i]
             /\ h[i] \in Int /\ k[i] \in Int /\ h[i] <= k[i]
  <2>1. SlotTyped(schedule[i])
    BY DEF ScheduleTyped
  <2> DEFINE s == schedule[i]
  <2>2. Upto(s, from, full) \in Nat /\ Upto(s, to, full) \in Nat
    BY <2>1, UptoTyped
  <2>3. Upto(s, from, full) <= Upto(s, to, full)
    <3>1. CASE s[1] >= s[2]
      BY <3>1 DEF Upto
    <3>2. CASE s[1] < s[2]
      <4>1. /\ Distributed(s, from, to) \in Nat
            /\ Distributed(s, from, to) + Upto(s, from, full) <= Upto(s, to, full)
        BY <2>1, <3>2, DistributedBelow
      <4> QED
        BY <2>2, <4>1
    <3> QED
      BY <2>1, <3>1, <3>2 DEF SlotTyped
  <2>4. /\ f[i] = Upto(s, from, full) /\ g[i] = Upto(s, to, full)
        /\ h[i] = (IF s[1] <= from THEN s[3] ELSE 0) /\ k[i] = (IF s[1] <= to THEN s[3] ELSE 0)
    BY DEF UptoIn, BegunIn
  <2>5. s[1] \in Nat /\ s[3] \in Nat
    BY <2>1 DEF SlotTyped
  <2> HIDE DEF s, f, g, h, k
  <2> QED
    BY <2>2, <2>3, <2>4, <2>5
<1>2. IsFiniteSet(D)
  BY DEF ScheduleTyped
<1> HIDE DEF D, f, g, h, k
<1>3. /\ \A i \in D : f[i] \in Int
      /\ \A i \in D : g[i] \in Int
      /\ \A i \in D : f[i] <= g[i]
      /\ \A i \in D : h[i] \in Int
      /\ \A i \in D : k[i] \in Int
      /\ \A i \in D : h[i] <= k[i]
  BY <1>1
<1>4. SumFunctionOnSet(f, D) <= SumFunctionOnSet(g, D)
  BY <1>2, <1>3, SumBelow
<1>5. SumFunctionOnSet(h, D) <= SumFunctionOnSet(k, D)
  BY <1>2, <1>3, SumBelow
<1> QED
  BY <1>4, <1>5 DEF Emitted, Begun, D, f, g, h, k

\* A new schedule that keeps the slots that have begun has released as much.
LEMMA KeptSlots ==
    ASSUME NEW old, NEW new, ScheduleTyped(old), ScheduleTyped(new), NEW t \in Nat,
           NEW full \in BOOLEAN,
           \A s : s[1] <= t => Count(old, s) = Count(new, s)
    PROVE  /\ Emitted(new, t, full) = Emitted(old, t, full)
           /\ Begun(new, t) = Begun(old, t)
<1> DEFINE P == DOMAIN old
           Q == DOMAIN new
           S == {old[i] : i \in P} \cup {new[j] : j \in Q}
           h == [s \in S |-> Upto(s, t, full)]
           k == [s \in S |-> IF s[1] <= t THEN s[3] ELSE 0]
<1>1. IsFiniteSet(P) /\ IsFiniteSet(Q)
  BY DEF ScheduleTyped
<1>2. \A s \in S : SlotTyped(s)
  BY DEF ScheduleTyped
<1>3. ASSUME NEW s \in S
      PROVE  /\ h[s] \in Int /\ k[s] \in Int
             /\ h[s] # 0 \/ k[s] # 0 => s[1] <= t
  <2>1. SlotTyped(s)
    BY <1>2
  <2>2. Upto(s, t, full) \in Nat
    BY <2>1, UptoTyped
  <2>3. s[1] > t => Upto(s, t, full) = 0
    BY <2>1 DEF Upto, SlotTyped
  <2>4. h[s] = Upto(s, t, full) /\ k[s] = (IF s[1] <= t THEN s[3] ELSE 0)
    OBVIOUS
  <2>5. s[1] \in Nat /\ s[3] \in Nat
    BY <2>1 DEF SlotTyped
  <2> HIDE DEF h, k, S
  <2> QED
    BY <2>2, <2>3, <2>4, <2>5
<1>4. \A s \in S : h[s] # 0 \/ k[s] # 0 =>
          Cardinality({i \in P : old[i] = s}) = Cardinality({j \in Q : new[j] = s})
  BY <1>3 DEF Count
<1> DEFINE f == UptoIn(old, t, full)
           g == UptoIn(new, t, full)
           a == BegunIn(old, t)
           b == BegunIn(new, t)
<1>5. /\ \A i \in P : old[i] \in S
      /\ \A j \in Q : new[j] \in S
      /\ \A s : s \notin S => {i \in P : old[i] = s} = {} /\ {j \in Q : new[j] = s} = {}
  OBVIOUS
<1>6. /\ \A i \in P : f[i] = h[old[i]]
      /\ \A j \in Q : g[j] = h[new[j]]
      /\ \A i \in P : a[i] = k[old[i]]
      /\ \A j \in Q : b[j] = k[new[j]]
  BY <1>5 DEF UptoIn, BegunIn
<1> HIDE DEF P, Q, S, h, k, f, g, a, b
<1>7. /\ Weighs(f, P, old, h) /\ Weighs(g, Q, new, h)
      /\ Weighs(a, P, old, k) /\ Weighs(b, Q, new, k)
  BY <1>3, <1>5, <1>6 DEF Weighs
<1>8. AsOften(P, old, Q, new, h) /\ AsOften(P, old, Q, new, k)
  <2>1. \A s : h[s] # 0 \/ k[s] # 0 =>
            Cardinality({i \in P : old[i] = s}) = Cardinality({j \in Q : new[j] = s})
    BY <1>4, <1>5
  <2> QED
    BY <2>1 DEF AsOften
<1>9. /\ SumFunctionOnSet(f, P) = SumFunctionOnSet(g, Q)
      /\ SumFunctionOnSet(a, P) = SumFunctionOnSet(b, Q)
  BY <1>1, <1>7, <1>8, SumByCounts
<1> QED
  BY <1>9 DEF Emitted, Begun, P, Q, f, g, a, b

-----------------------------------------------------------------------------
(* The inductive invariant.                                                *)

\* What a staker has been credited with, less what the current bond would
\* have earned had it been there from the start.
Settled(rs, ps) ==
    [u \in Stakers |-> rs[u].pending_reward + ps[u]
                          - DecMul(rs[u].reward_index, rs[u].bond_amount)]
BondsIn(rs) == [u \in Stakers |-> rs[u].bond_amount]

\* The stakers together have no more than was released, but for the rounding
\* of one unit for each change of a bond.
Backed(rs, ps, index, bonded, released, c) ==
    One * TotalOver(Settled(rs, ps)) + index * bonded <= One * (released + c)

Released(full) == Emitted(config.distribution_schedule, state.last_distributed, full)

BackedNow(full) ==
    Backed(reward, paid, state.global_reward_index, state.total_bond_amount,
           Released(full), changed)

\* A slot that ends at the time of the last update was cut there by
\* migrate_staking or was to end there; only the former counts in full.  A
\* second migrate_staking sends the same GLOW again: from then on the
\* schedule is more than the funds, for good.
ReleasedBacks ==
    \/ Funds = TOTAL_DISTRIBUTION_AMOUNT /\ BackedNow(FALSE)
    \/ /\ Funds < TOTAL_DISTRIBUTION_AMOUNT
       /\ \/ BackedNow(TRUE)
          \/ Begun(config.distribution_schedule, state.last_distributed) > Funds

BondsAddUp ==
    /\ state.total_bond_amount = TotalOver(BondsIn(reward))
    /\ state.total_bond_amount = lp

\* Before the upgrade nothing has happened.
Untouched ==
    /\ state = [last_distributed |-> 0, total_bond_amount |-> 0, global_reward_index |-> 0]
    /\ reward = [u \in Stakers |-> NoStaker] /\ paid = [u \in Stakers |-> 0]
    /\ changed = 0 /\ glow = TOTAL_DISTRIBUTION_AMOUNT

StakingInv ==
    /\ StakingTypeOK
    /\ state.last_distributed <= now
    /\ \A u \in Stakers : reward[u].reward_index <= state.global_reward_index
    /\ BondsAddUp
    /\ Funds <= TOTAL_DISTRIBUTION_AMOUNT
    /\ config.owner = None => Untouched
    /\ ReleasedBacks

LEMMA StateTyped ==
    ASSUME StakingTypeOK
    PROVE  /\ state.last_distributed \in Nat /\ state.total_bond_amount \in Nat
           /\ state.global_reward_index \in Nat
           /\ ScheduleTyped(config.distribution_schedule)
           /\ \A u \in Stakers : /\ reward[u].reward_index \in Nat
                                 /\ reward[u].bond_amount \in Nat
                                 /\ reward[u].pending_reward \in Nat
                                 /\ paid[u] \in Nat
<1>1. config.distribution_schedule \in Seq(Nat \X Nat \X Nat)
  BY DEF StakingTypeOK
<1>2. ScheduleTyped(config.distribution_schedule)
  BY <1>1, SequenceIsTyped
<1>3. \A u \in Stakers : reward[u] \in StakerInfo /\ paid[u] \in Nat
  BY DEF StakingTypeOK
<1> QED
  BY <1>2, <1>3 DEF StakingTypeOK, StakerInfo

LEMMA StakersFinite == IsFiniteSet(Stakers)
BY StakingAssumption

\* The entries that count.
StakersTyped(rs, ps) ==
    \A u \in Stakers : /\ rs[u].reward_index \in Nat /\ rs[u].bond_amount \in Nat
                       /\ rs[u].pending_reward \in Nat /\ ps[u] \in Nat

LEMMA TotalsTyped ==
    ASSUME NEW rs, NEW ps, StakersTyped(rs, ps)
    PROVE  /\ \A u \in Stakers : Settled(rs, ps)[u] \in Int
           /\ TotalOver(Settled(rs, ps)) \in Int
           /\ TotalOver(BondsIn(rs)) \in Nat /\ TotalOver(ps) \in Nat
           /\ \A u \in Stakers : rs[u].bond_amount <= TotalOver(BondsIn(rs))
<1> DEFINE f == Settled(rs, ps)
           g == BondsIn(rs)
<1>1. ASSUME NEW u \in Stakers PROVE f[u] \in Int /\ g[u] \in Nat /\ ps[u] \in Nat
  <2>1. DecMul(rs[u].reward_index, rs[u].bond_amount) \in Nat
    BY DecMulBounds DEF StakersTyped
  <2> QED
    BY <2>1 DEF StakersTyped, Settled, BondsIn
<1>2. \A u \in Stakers : g[u] = rs[u].bond_amount
  BY DEF BondsIn
<1> HIDE DEF f, g
<1>3. SumFunctionOnSet(f, Stakers) \in Int
  BY <1>1, StakersFinite, SumInt
<1>4. /\ SumFunctionOnSet(g, Stakers) \in Nat
      /\ \A u \in Stakers : g[u] <= SumFunctionOnSet(g, Stakers)
  BY <1>1, StakersFinite, SumNat
<1>5. SumFunctionOnSet(ps, Stakers) \in Nat
  BY <1>1, StakersFinite, SumNat
<1> QED
  BY <1>1, <1>2, <1>3, <1>4, <1>5 DEF TotalOver, f, g

LEMMA InvFacts ==
    ASSUME StakingInv
    PROVE  /\ StakingTypeOK /\ StakersTyped(reward, paid) /\ Funds \in Nat
           /\ glow \in Nat /\ TotalOver(paid) \in Nat /\ Funds = glow + TotalOver(paid)
           /\ state.last_distributed \in Nat /\ state.total_bond_amount \in Nat
           /\ state.global_reward_index \in Nat /\ now \in Nat /\ changed \in Nat
           /\ ScheduleTyped(config.distribution_schedule)
<1>1. StakingTypeOK /\ glow \in Nat /\ now \in Nat /\ changed \in Nat
  BY DEF StakingInv, StakingTypeOK
<1>2. StakersTyped(reward, paid)
  BY <1>1, StateTyped DEF StakersTyped
<1>3. TotalOver(paid) \in Nat
  BY <1>2, TotalsTyped
<1> QED
  BY <1>1, <1>2, <1>3, StateTyped DEF Funds

-----------------------------------------------------------------------------
(* Bringing the index up to date.                                          *)

LEMMA RatioBounds ==
    ASSUME NEW a \in Nat, NEW b \in Nat \ {0}
    PROVE  from_ratio(a, b) \in Nat /\ from_ratio(a, b) * b <= a * One
<1>1. a * One \in Nat
  BY MulNat, StakingAssumption
<1> DEFINE x == a * One
           q == x \div b
<1>2. q \in Nat /\ b * q <= x
  BY <1>1, DivBounds
<1> HIDE DEF x, q
<1>3. q * b <= x
  BY <1>2
<1> QED
  BY <1>2, <1>3 DEF x, q, from_ratio

LEMMA IndexNow ==
    ASSUME StakingInv, RewardComputable(state, now)
    PROVE  /\ StateNow \in [last_distributed : Nat, total_bond_amount : Nat,
                            global_reward_index : Nat]
           /\ StateNow.last_distributed = now
           /\ StateNow.total_bond_amount = state.total_bond_amount
           /\ state.global_reward_index <= StateNow.global_reward_index
           /\ \A full \in BOOLEAN : BackedNow(full) =>
                 Backed(reward, paid, StateNow.global_reward_index, state.total_bond_amount,
                        Emitted(config.distribution_schedule, now, full), changed)
<1> DEFINE schedule == config.distribution_schedule
           last == state.last_distributed
           total == state.total_bond_amount
           index == state.global_reward_index
           d == ScheduledBetween(schedule, last, now)
           inc == from_ratio(d, total)
           v == TotalOver(Settled(reward, paid))
           c == changed
<1>0. /\ state \in [last_distributed : Nat, total_bond_amount : Nat, global_reward_index : Nat]
      /\ last <= now
  BY DEF StakingInv, StakingTypeOK
<1>1. /\ last \in Nat /\ total \in Nat /\ index \in Nat /\ now \in Nat /\ c \in Nat
      /\ v \in Int /\ ScheduleTyped(schedule) /\ One \in Nat \ {0}
  BY InvFacts, TotalsTyped, StakingAssumption
<1>2. CASE total = 0
  <2>1. StateNow = [state EXCEPT !.last_distributed = now]
    BY <1>2 DEF StateNow, compute_reward
  <2>2. /\ StateNow \in [last_distributed : Nat, total_bond_amount : Nat, global_reward_index : Nat]
        /\ StateNow.last_distributed = now /\ StateNow.total_bond_amount = state.total_bond_amount
        /\ StateNow.global_reward_index = state.global_reward_index
    BY <1>0, <1>1, <2>1
  <2>3. ASSUME NEW full \in BOOLEAN, BackedNow(full)
        PROVE  Backed(reward, paid, index, total, Emitted(schedule, now, full), c)
    <3> DEFINE e == Emitted(schedule, last, full)
               e1 == Emitted(schedule, now, full)
    <3>1. e \in Nat /\ e1 \in Nat /\ e <= e1
      BY <1>0, <1>1, EmittedTyped, EmissionGrows
    <3>2. One * v + index * total <= One * (e + c)
      BY <2>3 DEF BackedNow, Backed, Released
    <3>3. index * total \in Nat
      BY <1>1, MulNat
    <3> HIDE DEF e, e1, v, c
    <3>4. One * (e + c) <= One * (e1 + c)
      BY <1>1, <3>1
    <3>5. One * v + index * total <= One * (e1 + c)
      BY <1>1, <3>1, <3>2, <3>3, <3>4
    <3> QED
      BY <3>5 DEF Backed, e1, v, c
  <2> QED
    BY <1>1, <2>2, <2>3
<1>3. CASE total # 0
  <2>0. SlotsUsable(schedule, last, now)
    BY <1>3 DEF RewardComputable
  <2>1. d \in Nat
    <3>1. TRUE \in BOOLEAN
      OBVIOUS
    <3> QED
      BY <1>0, <1>1, <2>0, <3>1, EmissionBound
  <2>2. StateNow = [state EXCEPT !.last_distributed = now, !.global_reward_index = @ + inc]
    BY <1>3 DEF StateNow, compute_reward
  <2>3. inc \in Nat /\ inc * total <= d * One
    <3> HIDE DEF d
    <3> QED
      BY <1>1, <1>3, <2>1, RatioBounds
  <2>4. /\ StateNow \in [last_distributed : Nat, total_bond_amount : Nat, global_reward_index : Nat]
        /\ StateNow.last_distributed = now /\ StateNow.total_bond_amount = state.total_bond_amount
        /\ StateNow.global_reward_index = index + inc
    <3> DEFINE n == index + inc
    <3>1. n \in Nat
      BY <1>1, <2>3
    <3>2. StateNow = [state EXCEPT !.last_distributed = now, !.global_reward_index = n]
      BY <1>0, <2>2
    <3> HIDE DEF n
    <3>3. StateNow.global_reward_index = n
      BY <1>0, <3>2
    <3>4. StateNow \in [last_distributed : Nat, total_bond_amount : Nat, global_reward_index : Nat]
      BY <1>0, <1>1, <3>1, <3>2
    <3>5. StateNow.last_distributed = now /\ StateNow.total_bond_amount = state.total_bond_amount
      BY <1>0, <3>2
    <3> QED
      BY <3>3, <3>4, <3>5 DEF n
  <2>5. ASSUME NEW full \in BOOLEAN, BackedNow(full)
        PROVE  Backed(reward, paid, index + inc, total, Emitted(schedule, now, full), c)
    <3> DEFINE e == Emitted(schedule, last, full)
               e1 == Emitted(schedule, now, full)
    <3>1. e \in Nat /\ e1 \in Nat /\ d + e <= e1
      BY <1>0, <1>1, <2>0, EmittedTyped, EmissionBound
    <3>2. One * v + index * total <= One * (e + c)
      BY <2>5 DEF BackedNow, Backed, Released
    <3> HIDE DEF e, e1, v, c, d, inc, index, total
    <3>3. index * total \in Nat /\ inc * total \in Nat
          /\ (index + inc) * total = index * total + inc * total
      BY <1>1, <2>3, MulNat
    <3>4. One * (d + e + c) <= One * (e1 + c)
      BY <1>1, <2>1, <3>1
    <3>5. One * (d + e + c) = d * One + One * (e + c)
      BY <1>1, <2>1, <3>1
    <3>6. One * v + (index + inc) * total <= One * (e1 + c)
      BY <1>1, <2>1, <2>3, <3>1, <3>2, <3>3, <3>4, <3>5
    <3> QED
      BY <3>6 DEF Backed, e1, v, c
  <2> QED
    BY <1>1, <2>3, <2>4, <2>5
<1> QED
  BY <1>2, <1>3

-----------------------------------------------------------------------------
(* What every message of a staker does.                                    *)

\* Changing a bond rounds by less than one unit.
LEMMA BondRounding ==
    ASSUME NEW g \in Nat, NEW a \in Nat, NEW b \in Nat
    PROVE  One * (DecMul(g, a) - DecMul(g, b)) + g * b - g * a <= One
<1> DEFINE x == DecMul(g, a)
           y == DecMul(g, b)
           p == g * a
           q == g * b
<1>1. /\ x \in Nat /\ One * x <= p
      /\ y \in Nat /\ q < One * y + One
      /\ p \in Nat /\ q \in Nat /\ One \in Nat
  BY DecMulBounds, MulNat, StakingAssumption
<1> HIDE DEF x, y, p, q
<1>2. One * (x - y) = One * x - One * y /\ One * x \in Nat /\ One * y \in Nat
  BY <1>1, MulNat
<1>3. One * (x - y) + q - p <= One
  BY <1>1, <1>2
<1> QED
  BY <1>3 DEF x, y, p, q

LEMMA StakerUpdated ==
    ASSUME NEW f, NEW g, NEW u \in Stakers,
           \A v \in Stakers : f[v] \in Int, \A v \in Stakers : g[v] \in Int,
           \A v \in Stakers \ {u} : g[v] = f[v]
    PROVE  TotalOver(g) = TotalOver(f) - f[u] + g[u]
BY StakersFinite, SumUpdate DEF TotalOver

LEMMA BackedAfter ==
    ASSUME NEW g \in Nat, NEW a \in Nat, NEW b \in Nat, NEW total \in Nat, a <= total,
           NEW v \in Int, NEW e \in Nat, NEW n \in Nat, NEW c \in {0, 1}, c = 1 \/ a = b,
           One * v + g * total <= One * (e + n)
    PROVE  One * (v + DecMul(g, a) - DecMul(g, b)) + g * (total - a + b) <= One * (e + (n + c))
<1> DEFINE x == DecMul(g, a)
           y == DecMul(g, b)
           z == x - y
           p == g * a
           q == g * b
           t == g * total
<1>1. /\ x \in Nat /\ y \in Nat /\ p \in Nat /\ q \in Nat /\ t \in Nat /\ z \in Int
      /\ One \in Nat /\ One * z + q - p <= One
  <2>1. x \in Nat /\ y \in Nat
    BY DecMulBounds
  <2>2. p \in Nat /\ q \in Nat /\ t \in Nat /\ One \in Nat
    BY MulNat, StakingAssumption
  <2>3. One * z + q - p <= One
    BY BondRounding, Zenon
  <2>4. z \in Int
    <3> HIDE DEF x, y
    <3> QED
      BY <2>1
  <2> QED
    BY <2>1, <2>2, <2>3, <2>4
<1>2. g * (total - a + b) = t - p + q
  OBVIOUS
<1>3. One * v + t <= One * (e + n)
  OBVIOUS
<1>4. a = b => z = 0 /\ q = p
  BY <1>1
<1>5. v + x - y = v + z
  BY <1>1
<1> HIDE DEF x, y, z, p, q, t
<1>6. /\ One * (v + z) = One * v + One * z
      /\ One * (e + (n + c)) = One * (e + n) + One * c
      /\ One * v \in Int /\ One * z \in Int /\ One * (e + n) \in Int
  BY <1>1
<1>7. One * z + q - p <= One * c
  <2>1. CASE c = 1
    BY <1>1, <2>1
  <2>2. CASE c = 0
    BY <1>1, <1>4, <2>2
  <2> QED
    BY <2>1, <2>2
<1>8. One * c \in Int
  BY <1>1
<1>9. One * (v + z) + (t - p + q) <= One * (e + (n + c))
  BY <1>1, <1>3, <1>6, <1>7, <1>8
<1> QED
  BY <1>2, <1>5, <1>9 DEF x, y

\* The staker's own settlement.
LEMMA SettledNow ==
    ASSUME StakingInv, RewardComputable(state, now), NEW u \in Stakers
    PROVE  /\ InfoNow(u) \in StakerInfo
           /\ InfoNow(u).bond_amount = reward[u].bond_amount
           /\ InfoNow(u).reward_index = StateNow.global_reward_index
           /\ InfoNow(u).pending_reward = reward[u].pending_reward
                + DecMul(StateNow.global_reward_index, reward[u].bond_amount)
                - DecMul(reward[u].reward_index, reward[u].bond_amount)
<1> DEFINE g == StateNow.global_reward_index
           r == reward[u].reward_index
           b == reward[u].bond_amount
           p == reward[u].pending_reward
           n == p + DecMul(g, b) - DecMul(r, b)
<1>1. g \in Nat /\ r \in Nat /\ b \in Nat /\ p \in Nat /\ r <= g /\ reward[u] \in StakerInfo
  <2>1. g \in Nat /\ state.global_reward_index \in Nat /\ state.global_reward_index <= g
    BY IndexNow, InvFacts
  <2>2. r \in Nat /\ b \in Nat /\ p \in Nat /\ r <= state.global_reward_index
    BY InvFacts DEF StakersTyped, StakingInv
  <2>3. reward[u] \in StakerInfo
    BY DEF StakingInv, StakingTypeOK
  <2> HIDE DEF g, r, b, p
  <2> QED
    BY <2>1, <2>2, <2>3
<1>2. n \in Nat
  <2> DEFINE h == g - r
             x == DecMul(r, b)
             y == DecMul(h, b)
             z == DecMul(g, b)
  <2>1. x \in Nat /\ z \in Nat
    BY <1>1, DecMulBounds
  <2>2. x <= z
    <3>1. r * b <= g * b /\ r * b \in Nat /\ g * b \in Nat
      BY <1>1, MulMono, MulNat
    <3>2. One * x <= r * b /\ g * b < One * z + One /\ One \in Nat \ {0}
      BY <1>1, DecMulBounds, StakingAssumption
    <3> HIDE DEF g, r, b, x, z
    <3>3. SUFFICES ASSUME x >= z + 1 PROVE FALSE
      BY <2>1
    <3>4. (z + 1) * One <= x * One
      BY <2>1, <3>2, <3>3, MulMono
    <3> QED
      BY <2>1, <3>1, <3>2, <3>4
  <2>3. n = p + z - x
    OBVIOUS
  <2> HIDE DEF x, z, n, g, r, b, p
  <2> QED
    BY <1>1, <2>1, <2>2, <2>3
<1>3. InfoNow(u) = [reward[u] EXCEPT !.reward_index = g, !.pending_reward = n]
  BY <1>1 DEF InfoNow, compute_staker_reward, StakerInfo
<1> HIDE DEF n, g
<1>4. /\ InfoNow(u) \in StakerInfo /\ InfoNow(u).reward_index = g
      /\ InfoNow(u).bond_amount = b /\ InfoNow(u).pending_reward = n
  BY <1>1, <1>2, <1>3 DEF StakerInfo
<1> QED
  BY <1>4 DEF n, g

LEMMA MessageStep ==
    ASSUME StakingInv, Settles, NEW u \in Stakers, NEW info \in StakerInfo, NEW pay \in Nat,
           NEW c \in {0, 1}, pay <= glow,
           info.reward_index <= StateNow.global_reward_index,
           info.pending_reward + pay - DecMul(info.reward_index, info.bond_amount)
             = InfoNow(u).pending_reward
                 - DecMul(StateNow.global_reward_index, info.bond_amount),
           c = 1 \/ reward[u].bond_amount = info.bond_amount,
           state' = [StateNow EXCEPT !.total_bond_amount =
                        state.total_bond_amount - reward[u].bond_amount + info.bond_amount],
           reward' = [reward EXCEPT ![u] = info],
           paid' = [paid EXCEPT ![u] = paid[u] + pay],
           glow' = glow - pay,
           lp' = lp - reward[u].bond_amount + info.bond_amount,
           changed' = changed + c, purse' \in Nat, UNCHANGED <<config, now>>
    PROVE  StakingInv'
<1> DEFINE schedule == config.distribution_schedule
           g == StateNow.global_reward_index
           a == reward[u].bond_amount
           b == info.bond_amount
           total == state.total_bond_amount
           f == Settled(reward, paid)
           h == Settled(reward', paid')
<1>0. RewardComputable(state, now) /\ config.owner # None
  BY DEF Settles
<1>1. /\ StakingTypeOK /\ StakersTyped(reward, paid) /\ Funds \in Nat
      /\ glow \in Nat /\ TotalOver(paid) \in Nat /\ Funds = glow + TotalOver(paid)
      /\ total \in Nat /\ now \in Nat /\ changed \in Nat /\ ScheduleTyped(schedule)
      /\ state.last_distributed \in Nat /\ state.last_distributed <= now
      /\ reward \in [Stakers -> StakerInfo] /\ paid \in [Stakers -> Nat]
      /\ state.global_reward_index \in Nat
  BY InvFacts DEF StakingInv, StakingTypeOK
<1>2. /\ StateNow \in [last_distributed : Nat, total_bond_amount : Nat, global_reward_index : Nat]
      /\ StateNow.last_distributed = now /\ g \in Nat /\ state.global_reward_index <= g
      /\ \A full \in BOOLEAN : BackedNow(full) =>
           Backed(reward, paid, g, total, Emitted(schedule, now, full), changed)
  BY <1>0, IndexNow
<1>3. a \in Nat /\ b \in Nat /\ a <= total /\ total = TotalOver(BondsIn(reward)) /\ total = lp
  <2>1. b \in Nat
    BY DEF StakerInfo
  <2>2. a \in Nat
    BY <1>1 DEF StakersTyped
  <2> QED
    BY <1>1, <2>1, <2>2, TotalsTyped DEF StakingInv, BondsAddUp
<1> DEFINE total1 == total - a + b
<1>4. total1 \in Nat
  <2> HIDE DEF total, a, b
  <2> QED
    BY <1>1, <1>3
<1>5. /\ state' \in [last_distributed : Nat, total_bond_amount : Nat, global_reward_index : Nat]
      /\ state'.last_distributed = now /\ state'.global_reward_index = g
      /\ state'.total_bond_amount = total1 /\ lp' = total1
  <2>1. state' = [StateNow EXCEPT !.total_bond_amount = total1] /\ lp' = total1
    BY <1>3
  <2> HIDE DEF total1
  <2> QED
    BY <1>2, <1>4, <2>1
<1>6. reward' \in [Stakers -> StakerInfo] /\ paid' \in [Stakers -> Nat]
  <2>1. paid[u] + pay \in Nat
    BY <1>1
  <2> QED
    BY <1>1, <2>1
<1>7. StakingTypeOK'
  <2>1. glow - pay \in Nat /\ changed + c \in Nat
    BY <1>1
  <2> QED
    BY <1>1, <1>4, <1>5, <1>6, <2>1 DEF StakingTypeOK
<1>8. /\ \A v \in Stakers \ {u} : reward'[v] = reward[v] /\ paid'[v] = paid[v]
      /\ reward'[u] = info /\ paid'[u] = paid[u] + pay
  BY <1>1
<1>9. StakersTyped(reward', paid')
  BY <1>6 DEF StakersTyped, StakerInfo
<1>10. \A v \in Stakers : reward'[v].reward_index <= g
  <2>1. ASSUME NEW v \in Stakers \ {u} PROVE reward'[v].reward_index <= g
    <3>1. reward[v].reward_index <= state.global_reward_index /\ reward[v].reward_index \in Nat
      BY <1>1 DEF StakingInv, StakersTyped
    <3> HIDE DEF g
    <3> QED
      BY <1>1, <1>2, <1>8, <3>1
  <2> QED
    BY <1>8, <2>1
<1>11. TotalOver(paid') = TotalOver(paid) + pay
  <2>1. /\ \A v \in Stakers : paid[v] \in Int
        /\ \A v \in Stakers : paid'[v] \in Int
        /\ \A v \in Stakers \ {u} : paid'[v] = paid[v]
    BY <1>1, <1>6, <1>8
  <2> DEFINE x == paid
             y == paid'
  <2> HIDE DEF x, y
  <2>2. TotalOver(y) = TotalOver(x) - x[u] + y[u]
    <3>1. /\ \A v \in Stakers : x[v] \in Int
          /\ \A v \in Stakers : y[v] \in Int
          /\ \A v \in Stakers \ {u} : y[v] = x[v]
      BY <2>1, Zenon DEF x, y
    <3> QED
      BY <3>1, StakerUpdated, Zenon
  <2>3. paid[u] \in Nat
    BY <1>1
  <2> QED
    BY <1>1, <1>8, <2>2, <2>3 DEF x, y
<1>12. Funds' = Funds
  BY <1>1, <1>11 DEF Funds
<1>13. total1 = TotalOver(BondsIn(reward'))
  <2> DEFINE x == BondsIn(reward)
             y == BondsIn(reward')
  <2>1. /\ \A v \in Stakers : x[v] \in Int
        /\ \A v \in Stakers : y[v] \in Int
        /\ \A v \in Stakers \ {u} : y[v] = x[v]
        /\ x[u] = a /\ y[u] = b
    BY <1>1, <1>8, <1>9 DEF BondsIn, StakersTyped
  <2> HIDE DEF x, y
  <2>2. TotalOver(y) = TotalOver(x) - x[u] + y[u]
    BY <2>1, StakerUpdated, Zenon
  <2> QED
    BY <1>3, <2>1, <2>2 DEF x, y
<1>14. h[u] = f[u] + DecMul(g, a) - DecMul(g, b)
  <2> DEFINE i == InfoNow(u).pending_reward
             p == reward[u].pending_reward
             x == DecMul(g, a)
             y == DecMul(g, b)
             z == DecMul(reward[u].reward_index, a)
             w == DecMul(info.reward_index, b)
             k == info.pending_reward
             m == paid[u]
  <2>1. i = p + x - z
    BY <1>0, SettledNow
  <2>2. k + pay - w = i - y
    OBVIOUS
  <2>3. f[u] = p + m - z
    BY DEF Settled
  <2>4. h[u] = k + (m + pay) - w
    BY <1>8 DEF Settled
  <2>5. /\ p \in Nat /\ m \in Nat /\ k \in Nat /\ x \in Nat /\ y \in Nat /\ z \in Nat /\ w \in Nat
    <3>1. /\ p \in Nat /\ m \in Nat /\ reward[u].reward_index \in Nat
          /\ k \in Nat /\ info.reward_index \in Nat
      BY <1>1 DEF StakersTyped, StakerInfo
    <3> QED
      BY <1>2, <1>3, <3>1, DecMulBounds
  <2> HIDE DEF i, p, x, y, z, w, k, m, f, h
  <2>6. h[u] = f[u] + x - y
    BY <2>1, <2>2, <2>3, <2>4, <2>5
  <2> QED
    BY <2>6 DEF x, y
<1>15. /\ TotalOver(f) \in Int /\ \A v \in Stakers : f[v] \in Int
       /\ TotalOver(h) \in Int /\ \A v \in Stakers : h[v] \in Int
  BY <1>1, <1>9, TotalsTyped
<1>16. \A v \in Stakers \ {u} : h[v] = f[v]
  BY <1>8 DEF Settled
<1>17. TotalOver(h) = TotalOver(f) + DecMul(g, a) - DecMul(g, b)
  <2> HIDE DEF f, h
  <2>1. TotalOver(h) = TotalOver(f) - f[u] + h[u]
    BY <1>15, <1>16, StakerUpdated, Zenon
  <2>2. DecMul(g, a) \in Nat /\ DecMul(g, b) \in Nat
    BY <1>2, <1>3, DecMulBounds
  <2>3. f[u] \in Int
    BY <1>15
  <2> QED
    BY <1>14, <1>15, <2>1, <2>2, <2>3
<1>18. ASSUME NEW full \in BOOLEAN, BackedNow(full)
       PROVE  BackedNow(full)'
  <2> DEFINE e == Emitted(schedule, now, full)
             v == TotalOver(f)
             n == changed
  <2>1. e \in Nat
    BY <1>1, EmittedTyped
  <2>2. One * v + g * total <= One * (e + n)
    BY <1>2, <1>18 DEF Backed
  <2>3. One * (v + DecMul(g, a) - DecMul(g, b)) + g * (total - a + b) <= One * (e + (n + c))
    <3>1. /\ g \in Nat /\ a \in Nat /\ b \in Nat /\ total \in Nat /\ a <= total /\ v \in Int
          /\ n \in Nat /\ (c = 1 \/ a = b)
      BY <1>1, <1>2, <1>3, <1>15
    <3> HIDE DEF g, a, b, total, v, n, e
    <3> QED
      BY <2>1, <2>2, <3>1, BackedAfter
  <2>4. One * TotalOver(h) + g * total1 <= One * (e + changed')
    BY <1>17, <2>3
  <2>5. Released(full)' = e
    BY <1>5 DEF Released
  <2> QED
    BY <1>5, <2>4, <2>5 DEF BackedNow, Backed
<1>19. ReleasedBacks'
  <2>1. CASE Funds = TOTAL_DISTRIBUTION_AMOUNT /\ BackedNow(FALSE)
    BY <1>12, <1>18, <2>1 DEF ReleasedBacks
  <2>2. CASE Funds < TOTAL_DISTRIBUTION_AMOUNT /\ BackedNow(TRUE)
    BY <1>12, <1>18, <2>2 DEF ReleasedBacks
  <2>3. CASE Funds < TOTAL_DISTRIBUTION_AMOUNT /\ Begun(schedule, state.last_distributed) > Funds
    <3>1. TRUE \in BOOLEAN
      OBVIOUS
    <3>2. /\ Begun(schedule, state.last_distributed) <= Begun(schedule, now)
          /\ Begun(schedule, state.last_distributed) \in Nat /\ Begun(schedule, now) \in Nat
      BY <1>1, <3>1, EmissionGrows, EmittedTyped
    <3>3. Begun(schedule, now) > Funds
      BY <1>1, <2>3, <3>2
    <3> QED
      BY <1>5, <1>12, <2>3, <3>3 DEF ReleasedBacks
  <2> QED
    BY <2>1, <2>2, <2>3 DEF StakingInv, ReleasedBacks
<1>20. (state.last_distributed <= now)' /\ (Funds <= TOTAL_DISTRIBUTION_AMOUNT)'
  BY <1>1, <1>5, <1>12 DEF StakingInv
<1>21. BondsAddUp'
  BY <1>5, <1>13 DEF BondsAddUp
<1>22. (config.owner = None => Untouched)'
  BY <1>0
<1> QED
  BY <1>5, <1>7, <1>10, <1>19, <1>20, <1>21, <1>22 DEF StakingInv

-----------------------------------------------------------------------------
(* The messages of a staker.                                               *)

LEMMA PaidNothing ==
    ASSUME StakingTypeOK, NEW u \in Stakers, UNCHANGED <<paid, glow>>
    PROVE  /\ paid' = [paid EXCEPT ![u] = paid[u] + 0]
           /\ glow' = glow - 0 /\ 0 <= glow
<1>1. paid \in [Stakers -> Nat] /\ glow \in Nat
  BY DEF StakingTypeOK
<1>2. paid[u] + 0 = paid[u] /\ glow - 0 = glow /\ 0 <= glow
  BY <1>1
<1> QED
  BY <1>1, <1>2

LEMMA BondKeeps ==
    ASSUME StakingInv, NEW u \in Stakers, NEW amount \in BondAmounts, bond(u, amount)
    PROVE  StakingInv'
<1> DEFINE b == reward[u].bond_amount
           g == StateNow.global_reward_index
           n == b + amount
           info == [InfoNow(u) EXCEPT !.bond_amount = n]
           total == state.total_bond_amount
<1>1. /\ Settles /\ amount <= purse
      /\ state' = [StateNow EXCEPT !.total_bond_amount = @ + amount]
      /\ reward' = [reward EXCEPT ![u] = [InfoNow(u) EXCEPT !.bond_amount = @ + amount]]
      /\ lp' = lp + amount /\ purse' = purse - amount /\ changed' = changed + 1
      /\ UNCHANGED <<config, now>> /\ UNCHANGED <<paid, glow>>
  BY Zenon DEF bond
<1>2. /\ StakingTypeOK /\ amount \in Nat /\ b \in Nat /\ total \in Nat /\ lp \in Nat /\ purse \in Nat
      /\ RewardComputable(state, now)
  BY <1>1, StateTyped, StakingAssumption DEF StakingInv, StakingTypeOK, Settles
<1>3. /\ InfoNow(u) \in StakerInfo /\ InfoNow(u).bond_amount = b
      /\ InfoNow(u).reward_index = g
  BY <1>2, SettledNow
<1>4. /\ StateNow \in [last_distributed : Nat, total_bond_amount : Nat, global_reward_index : Nat]
      /\ StateNow.total_bond_amount = total
  BY <1>2, IndexNow
<1>5. n \in Nat /\ total + amount = total - b + n /\ lp + amount = lp - b + n
      /\ purse - amount \in Nat
  <2> HIDE DEF b, total
  <2> QED
    BY <1>1, <1>2
<1>6. [InfoNow(u) EXCEPT !.bond_amount = @ + amount] = info
  BY <1>3 DEF StakerInfo
<1>7. [StateNow EXCEPT !.total_bond_amount = @ + amount]
        = [StateNow EXCEPT !.total_bond_amount = total + amount]
  BY <1>4
<1> HIDE DEF n
<1>8. /\ info \in StakerInfo /\ info.bond_amount = n /\ info.reward_index = g
      /\ info.pending_reward = InfoNow(u).pending_reward
  BY <1>3, <1>5 DEF StakerInfo
<1>9. g \in Nat /\ InfoNow(u).pending_reward \in Nat
  BY <1>3, <1>4 DEF StakerInfo
<1> HIDE DEF info, b, g, total
<1>10. g <= g /\ info.pending_reward + 0 - DecMul(g, n) = InfoNow(u).pending_reward - DecMul(g, n)
  <2>1. g <= g /\ info.pending_reward + 0 = InfoNow(u).pending_reward
    BY <1>8, <1>9
  <2>2. DecMul(g, n) \in Nat
    BY <1>5, <1>9, DecMulBounds
  <2> QED
    BY <1>8, <1>9, <2>1, <2>2
<1>11. /\ paid' = [paid EXCEPT ![u] = paid[u] + 0]
       /\ glow' = glow - 0 /\ 0 <= glow
  BY <1>1, <1>2, PaidNothing
<1>12. /\ info.reward_index <= StateNow.global_reward_index
       /\ info.pending_reward + 0 - DecMul(info.reward_index, info.bond_amount)
             = InfoNow(u).pending_reward - DecMul(StateNow.global_reward_index, info.bond_amount)
       /\ state' = [StateNow EXCEPT !.total_bond_amount =
                        state.total_bond_amount - reward[u].bond_amount + info.bond_amount]
       /\ reward' = [reward EXCEPT ![u] = info]
       /\ lp' = lp - reward[u].bond_amount + info.bond_amount
       /\ purse' \in Nat
  BY <1>1, <1>5, <1>6, <1>7, <1>8, <1>10 DEF b, g, total
<1>13. 0 \in Nat /\ 1 \in {0, 1} /\ 1 = 1
  OBVIOUS
<1> QED
  BY <1>1, <1>8, <1>11, <1>12, <1>13, MessageStep

\* An entry that is removed settles to nothing.
LEMMA StoredSettles ==
    ASSUME NEW info \in StakerInfo, NEW g \in Nat, info.reward_index = g, NEW k \in Nat
    PROVE  /\ Stored(info) \in StakerInfo
           /\ Stored(info).bond_amount = info.bond_amount
           /\ Stored(info).reward_index <= g
           /\ Stored(info).pending_reward + k
                - DecMul(Stored(info).reward_index, Stored(info).bond_amount)
              = info.pending_reward + k - DecMul(g, info.bond_amount)
<1>0. info.pending_reward \in Nat /\ info.bond_amount \in Nat
  BY DEF StakerInfo
<1>1. CASE info.pending_reward = 0 /\ info.bond_amount = 0
  <2>1. Stored(info) = NoStaker
    BY <1>1 DEF Stored
  <2>2. /\ NoStaker \in StakerInfo /\ NoStaker.bond_amount = 0 /\ NoStaker.reward_index = 0
        /\ NoStaker.pending_reward = 0
    BY DEF NoStaker, StakerInfo
  <2>3. DecMul(g, 0) = 0 /\ DecMul(0, 0) = 0
    BY DecMulZero
  <2> QED
    BY <1>1, <2>1, <2>2, <2>3
<1>2. CASE ~(info.pending_reward = 0 /\ info.bond_amount = 0)
  <2>1. Stored(info) = info
    BY <1>2 DEF Stored
  <2> QED
    BY <2>1
<1> QED
  BY <1>1, <1>2

LEMMA UnbondKeeps ==
    ASSUME StakingInv, NEW u \in Stakers, NEW amount \in BondAmounts, unbond(u, amount)
    PROVE  StakingInv'
<1> DEFINE b == reward[u].bond_amount
           g == StateNow.global_reward_index
           n == b - amount
           left == [InfoNow(u) EXCEPT !.bond_amount = n]
           info == Stored(left)
           total == state.total_bond_amount
<1>1. /\ Settles /\ reward[u].bond_amount >= amount
      /\ state' = [StateNow EXCEPT !.total_bond_amount = @ - amount]
      /\ reward' = [reward EXCEPT ![u] = Stored([InfoNow(u) EXCEPT !.bond_amount = @ - amount])]
      /\ lp' = lp - amount /\ changed' = changed + 1
      /\ UNCHANGED <<config, now>> /\ UNCHANGED <<paid, glow>> /\ purse' = purse
  BY Zenon DEF unbond
<1>2. /\ StakingTypeOK /\ amount \in Nat /\ b \in Nat /\ total \in Nat /\ lp \in Nat /\ purse' \in Nat
      /\ RewardComputable(state, now)
  BY <1>1, StateTyped, StakingAssumption DEF StakingInv, StakingTypeOK, Settles
<1>3. /\ InfoNow(u) \in StakerInfo /\ InfoNow(u).bond_amount = b
      /\ InfoNow(u).reward_index = g
  BY <1>2, SettledNow
<1>4. /\ StateNow \in [last_distributed : Nat, total_bond_amount : Nat, global_reward_index : Nat]
      /\ StateNow.total_bond_amount = total
  BY <1>2, IndexNow
<1>5. n \in Nat /\ total - amount = total - b + n /\ lp - amount = lp - b + n
  <2>1. b >= amount
    BY <1>1
  <2> HIDE DEF b, total
  <2> QED
    BY <1>2, <2>1
<1>6. [InfoNow(u) EXCEPT !.bond_amount = @ - amount] = left
  BY <1>3 DEF StakerInfo
<1>7. [StateNow EXCEPT !.total_bond_amount = @ - amount]
        = [StateNow EXCEPT !.total_bond_amount = total - amount]
  BY <1>4
<1> HIDE DEF n
<1>8. /\ left \in StakerInfo /\ left.bond_amount = n /\ left.reward_index = g
      /\ left.pending_reward = InfoNow(u).pending_reward
  BY <1>3, <1>5 DEF StakerInfo
<1>9. g \in Nat /\ InfoNow(u).pending_reward \in Nat
  BY <1>3, <1>4 DEF StakerInfo
<1> HIDE DEF left, b, g, total
<1>10. /\ info \in StakerInfo /\ info.bond_amount = n /\ info.reward_index <= g
       /\ info.pending_reward + 0 - DecMul(info.reward_index, info.bond_amount)
            = InfoNow(u).pending_reward - DecMul(g, n)
  <2>1. 0 \in Nat
    OBVIOUS
  <2>2. /\ info \in StakerInfo /\ info.bond_amount = left.bond_amount /\ info.reward_index <= g
        /\ info.pending_reward + 0 - DecMul(info.reward_index, info.bond_amount)
            = left.pending_reward + 0 - DecMul(g, left.bond_amount)
    BY <1>8, <1>9, <2>1, StoredSettles
  <2> HIDE DEF info
  <2>3. left.pending_reward + 0 = InfoNow(u).pending_reward
    BY <1>8, <1>9
  <2>4. left.pending_reward + 0 - DecMul(g, left.bond_amount)
          = InfoNow(u).pending_reward - DecMul(g, n)
    <3>1. DecMul(g, n) \in Nat
      BY <1>5, <1>9, DecMulBounds
    <3> QED
      BY <1>8, <1>9, <2>3, <3>1
  <2> QED
    BY <1>8, <2>2, <2>4, Zenon
<1> HIDE DEF info
<1>11. /\ paid' = [paid EXCEPT ![u] = paid[u] + 0]
       /\ glow' = glow - 0 /\ 0 <= glow
  BY <1>1, <1>2, PaidNothing
<1>12. /\ info.reward_index <= StateNow.global_reward_index
       /\ info.pending_reward + 0 - DecMul(info.reward_index, info.bond_amount)
             = InfoNow(u).pending_reward - DecMul(StateNow.global_reward_index, info.bond_amount)
       /\ state' = [StateNow EXCEPT !.total_bond_amount =
                        state.total_bond_amount - reward[u].bond_amount + info.bond_amount]
       /\ reward' = [reward EXCEPT ![u] = info]
       /\ lp' = lp - reward[u].bond_amount + info.bond_amount
  BY <1>1, <1>5, <1>6, <1>7, <1>10 DEF b, g, total, info
<1>13. 0 \in Nat /\ 1 \in {0, 1} /\ 1 = 1
  OBVIOUS
<1> QED
  BY <1>1, <1>2, <1>10, <1>11, <1>12, <1>13, MessageStep

LEMMA WithdrawKeeps ==
    ASSUME StakingInv, NEW u \in Stakers, withdraw(u)
    PROVE  StakingInv'
<1> DEFINE b == reward[u].bond_amount
           g == StateNow.global_reward_index
           amount == InfoNow(u).pending_reward
           left == [InfoNow(u) EXCEPT !.pending_reward = 0]
           info == Stored(left)
           total == state.total_bond_amount
<1>1. /\ Settles /\ amount <= glow
      /\ state' = StateNow
      /\ reward' = [reward EXCEPT ![u] = Stored([InfoNow(u) EXCEPT !.pending_reward = 0])]
      /\ glow' = glow - amount
      /\ paid' = [paid EXCEPT ![u] = @ + amount]
      /\ UNCHANGED <<config, now>> /\ lp' = lp /\ changed' = changed /\ purse' = purse
  BY Zenon DEF withdraw
<1>2. /\ StakingTypeOK /\ b \in Nat /\ total \in Nat /\ lp \in Nat /\ purse' \in Nat
      /\ changed \in Nat /\ RewardComputable(state, now) /\ paid \in [Stakers -> Nat]
  BY <1>1, StateTyped DEF StakingInv, StakingTypeOK, Settles
<1>3. /\ InfoNow(u) \in StakerInfo /\ InfoNow(u).bond_amount = b
      /\ InfoNow(u).reward_index = g
  BY <1>2, SettledNow
<1>4. /\ StateNow \in [last_distributed : Nat, total_bond_amount : Nat, global_reward_index : Nat]
      /\ StateNow.total_bond_amount = total
  BY <1>2, IndexNow
<1>5. total = total - b + b /\ lp = lp - b + b /\ changed = changed + 0
  <2> HIDE DEF b, total
  <2> QED
    BY <1>2
<1>6. /\ left \in StakerInfo /\ left.bond_amount = b /\ left.reward_index = g
      /\ left.pending_reward = 0 /\ g \in Nat /\ amount \in Nat
  BY <1>3, <1>4 DEF StakerInfo
<1>7. StateNow = [StateNow EXCEPT !.total_bond_amount = total]
  BY <1>4
<1>8. paid' = [paid EXCEPT ![u] = paid[u] + amount]
  BY <1>1, <1>2
<1>9. info = Stored([InfoNow(u) EXCEPT !.pending_reward = 0])
  OBVIOUS
<1> HIDE DEF left, b, g, total, amount
<1>10. /\ info \in StakerInfo /\ info.bond_amount = b /\ info.reward_index <= g
       /\ info.pending_reward + amount - DecMul(info.reward_index, info.bond_amount)
            = amount - DecMul(g, b)
  <2>1. /\ info \in StakerInfo /\ info.bond_amount = left.bond_amount /\ info.reward_index <= g
        /\ info.pending_reward + amount - DecMul(info.reward_index, info.bond_amount)
            = left.pending_reward + amount - DecMul(g, left.bond_amount)
    BY <1>6, StoredSettles
  <2> HIDE DEF info
  <2>2. left.pending_reward + amount = amount
    BY <1>6
  <2>3. left.pending_reward + amount - DecMul(g, left.bond_amount) = amount - DecMul(g, b)
    <3>1. DecMul(g, b) \in Nat
      BY <1>2, <1>6, DecMulBounds
    <3> QED
      BY <1>6, <2>2, <3>1
  <2> QED
    BY <1>6, <2>1, <2>3, Zenon
<1> HIDE DEF info
<1>11. state' = [StateNow EXCEPT !.total_bond_amount = total - b + info.bond_amount]
       /\ lp' = lp - b + info.bond_amount /\ changed' = changed + 0
  BY <1>1, <1>5, <1>7, <1>10
<1>12. /\ info.reward_index <= StateNow.global_reward_index
       /\ info.pending_reward + amount - DecMul(info.reward_index, info.bond_amount)
             = InfoNow(u).pending_reward - DecMul(StateNow.global_reward_index, info.bond_amount)
       /\ state' = [StateNow EXCEPT !.total_bond_amount =
                        state.total_bond_amount - reward[u].bond_amount + info.bond_amount]
       /\ reward' = [reward EXCEPT ![u] = info]
       /\ lp' = lp - reward[u].bond_amount + info.bond_amount
       /\ reward[u].bond_amount = info.bond_amount
  BY <1>1, <1>9, <1>10, <1>11 DEF b, g, total, amount
<1>13. 0 \in {0, 1}
  OBVIOUS
<1> QED
  BY <1>1, <1>2, <1>6, <1>8, <1>10, <1>11, <1>12, <1>13, MessageStep

-----------------------------------------------------------------------------
(* The owner's messages and the passing of time.                           *)

LEMMA NothingOwed ==
    ASSUME NEW e \in Nat
    PROVE  /\ Backed([u \in Stakers |-> NoStaker], [u \in Stakers |-> 0], 0, 0, e, 0)
           /\ TotalOver([u \in Stakers |-> 0]) = 0
           /\ TotalOver(BondsIn([u \in Stakers |-> NoStaker])) = 0
<1> DEFINE rs == [u \in Stakers |-> NoStaker]
           ps == [u \in Stakers |-> 0]
           f == Settled(rs, ps)
           g == BondsIn(rs)
<1>1. DecMul(0, 0) = 0
  BY DecMulZero
<1>2. ASSUME NEW u \in Stakers PROVE f[u] = 0 /\ g[u] = 0 /\ ps[u] = 0
  BY <1>1 DEF Settled, BondsIn, NoStaker
<1> HIDE DEF f, g, ps, rs
<1>3. SumFunctionOnSet(f, Stakers) = 0 /\ SumFunctionOnSet(g, Stakers) = 0
      /\ SumFunctionOnSet(ps, Stakers) = 0
  BY <1>2, StakersFinite, SumZero
<1>4. One * 0 + 0 * 0 <= One * (e + 0)
  BY StakingAssumption
<1> QED
  BY <1>3, <1>4 DEF Backed, TotalOver, f, g, ps, rs

LEMMA StakingInitially ==
    ASSUME StakingInit
    PROVE  StakingInv
<1>1. /\ config.owner \in Owners \cup {None} /\ config.distribution_schedule \in InitSchedules
      /\ config \in [owner : Owners \cup {None}, distribution_schedule : InitSchedules]
      /\ Untouched /\ state.last_distributed = 0 /\ state.total_bond_amount = 0
      /\ state.global_reward_index = 0 /\ now = 0 /\ lp = 0 /\ purse = Purse
  BY DEF StakingInit, Untouched
<1>2. StakingTypeOK
  <2>1. config \in [owner : Owners \cup {None}, distribution_schedule : Seq(Nat \X Nat \X Nat)]
    BY <1>1, StakingAssumption
  <2>2. reward \in [Stakers -> StakerInfo] /\ paid \in [Stakers -> Nat]
    BY <1>1 DEF Untouched, NoStaker, StakerInfo
  <2>3. state \in [last_distributed : Nat, total_bond_amount : Nat, global_reward_index : Nat]
    BY <1>1 DEF Untouched
  <2>4. purse \in Nat /\ glow \in Nat
    BY <1>1, StakingAssumption DEF Untouched
  <2> QED
    BY <1>1, <2>1, <2>2, <2>3, <2>4 DEF StakingTypeOK, Untouched
<1>3. Released(FALSE) \in Nat
  <2>1. FALSE \in BOOLEAN
    OBVIOUS
  <2> QED
    BY <1>2, <2>1, StateTyped, EmittedTyped DEF Released
<1>4. /\ Backed(reward, paid, 0, 0, Released(FALSE), 0)
      /\ TotalOver(paid) = 0 /\ TotalOver(BondsIn(reward)) = 0
  BY <1>1, <1>3, NothingOwed DEF Untouched
<1>5. Funds = TOTAL_DISTRIBUTION_AMOUNT
  BY <1>1, <1>4, StakingAssumption DEF Funds, Untouched
<1>6. ReleasedBacks
  BY <1>1, <1>4, <1>5 DEF ReleasedBacks, BackedNow, Untouched
<1>7. Funds <= TOTAL_DISTRIBUTION_AMOUNT
  BY <1>5, StakingAssumption
<1>8. \A u \in Stakers : reward[u].reward_index = 0
  BY <1>1 DEF Untouched, NoStaker
<1> QED
  BY <1>1, <1>2, <1>4, <1>6, <1>7, <1>8 DEF StakingInv, BondsAddUp

\* A schedule that has released as much as the one it replaces.
LEMMA ConfigStep ==
    ASSUME StakingInv, config.owner # None, config'.owner # None,
           config' \in [owner : Owners \cup {None}, distribution_schedule : Seq(Nat \X Nat \X Nat)],
           \A full \in BOOLEAN :
               Emitted(config'.distribution_schedule, state.last_distributed, full)
                 = Emitted(config.distribution_schedule, state.last_distributed, full),
           Begun(config'.distribution_schedule, state.last_distributed)
             = Begun(config.distribution_schedule, state.last_distributed),
           UNCHANGED <<state, reward, now, lp, glow, paid, changed, purse>>
    PROVE  StakingInv'
<1>1. StakingTypeOK'
  BY DEF StakingInv, StakingTypeOK
<1>2. Funds' = Funds
  BY DEF Funds
<1>3. \A full \in BOOLEAN : BackedNow(full)' = BackedNow(full)
  BY DEF BackedNow, Released
<1>4. ReleasedBacks'
  BY <1>2, <1>3 DEF StakingInv, ReleasedBacks
<1>5. BondsAddUp'
  BY DEF StakingInv, BondsAddUp
<1> QED
  BY <1>1, <1>2, <1>4, <1>5 DEF StakingInv

LEMMA CountFacts ==
    ASSUME NEW schedule, ScheduleTyped(schedule), NEW s
    PROVE  /\ Count(schedule, s) \in Nat
           /\ s \notin Slots(schedule) => Count(schedule, s) = 0
<1> DEFINE T == {i \in DOMAIN schedule : schedule[i] = s}
<1>1. IsFiniteSet(T)
  BY FS_Subset DEF ScheduleTyped
<1>2. Cardinality(T) \in Nat
  BY <1>1, FS_CardinalityType
<1>3. s \notin Slots(schedule) => T = {}
  BY DEF Slots
<1>4. Cardinality({}) = 0
  BY FS_EmptySet
<1> QED
  BY <1>2, <1>3, <1>4 DEF Count

LEMMA UpdateConfigKeeps ==
    ASSUME StakingInv, NEW sender \in Owners, NEW owner \in Owners,
           NEW schedule \in NewSchedules \cup {None}, update_config(sender, owner, schedule)
    PROVE  StakingInv'
<1> DEFINE old == config.distribution_schedule
           new == IF schedule = None THEN old ELSE schedule
           last == state.last_distributed
<1>1. /\ config.owner = sender /\ (schedule # None => assert_new_schedules(schedule))
      /\ config' = [owner |-> owner, distribution_schedule |-> new]
      /\ UNCHANGED <<state, reward, now, lp, glow, paid, changed, purse>>
  BY Zenon DEF update_config
<1>2. config.owner # None /\ owner # None
  BY <1>1, StakingAssumption
<1>3. StakingTypeOK /\ old \in Seq(Nat \X Nat \X Nat)
  BY DEF StakingInv, StakingTypeOK
<1>4. new \in Seq(Nat \X Nat \X Nat)
  BY <1>3, StakingAssumption
<1>5. ScheduleTyped(old) /\ ScheduleTyped(new) /\ last \in Nat
  BY <1>3, <1>4, SequenceIsTyped, StateTyped
<1>6. \A s : s[1] <= last => Count(old, s) = Count(new, s)
  <2>1. CASE schedule = None
    BY <2>1
  <2>2. CASE schedule # None
    <3>1. SUFFICES ASSUME NEW s, s[1] <= last PROVE Count(old, s) = Count(new, s)
      OBVIOUS
    <3>2. /\ s \in Slots(old) => Count(old, s) <= Count(new, s)
          /\ s \in Slots(new) => Count(new, s) <= Count(old, s)
      BY <1>1, <2>2, <3>1 DEF assert_new_schedules
    <3>3. /\ Count(old, s) \in Nat /\ Count(new, s) \in Nat
          /\ s \notin Slots(old) => Count(old, s) = 0
          /\ s \notin Slots(new) => Count(new, s) = 0
      BY <1>5, CountFacts
    <3> HIDE DEF old, new
    <3> QED
      BY <3>2, <3>3
  <2> QED
    BY <2>1, <2>2
<1> HIDE DEF new
<1>7. config'.owner = owner /\ config'.distribution_schedule = new
      /\ config' \in [owner : Owners \cup {None}, distribution_schedule : Seq(Nat \X Nat \X Nat)]
  BY <1>1, <1>4
<1>8. \A full \in BOOLEAN : Emitted(new, last, full) = Emitted(old, last, full)
  BY <1>5, <1>6, KeptSlots
<1>9. Begun(new, last) = Begun(old, last)
  <2>1. TRUE \in BOOLEAN
    OBVIOUS
  <2> QED
    BY <1>5, <1>6, <2>1, KeptSlots
<1> QED
  BY <1>1, <1>2, <1>7, <1>8, <1>9, ConfigStep

LEMMA MigrateKeeps ==
    ASSUME StakingInv, NEW owner \in Owners, NEW schedule \in InitSchedules,
           config.owner = None, migrate(owner, schedule)
    PROVE  StakingInv'
<1>1. /\ config' = [owner |-> owner, distribution_schedule |-> schedule]
      /\ UNCHANGED <<state, reward, now, lp, glow, paid, changed, purse>>
  BY Zenon DEF migrate
<1>2. Untouched /\ StakingTypeOK /\ schedule \in Seq(Nat \X Nat \X Nat) /\ owner # None
  BY StakingAssumption DEF StakingInv
<1>3. config'.owner = owner /\ config'.distribution_schedule = schedule
      /\ config' \in [owner : Owners \cup {None}, distribution_schedule : Seq(Nat \X Nat \X Nat)]
  BY <1>1, <1>2
<1>4. StakingTypeOK'
  BY <1>1, <1>2, <1>3 DEF StakingTypeOK
<1>5. Funds' = Funds /\ Funds = TOTAL_DISTRIBUTION_AMOUNT
  <2>1. TotalOver(paid) = 0
    <3>1. 0 \in Nat
      OBVIOUS
    <3> QED
      BY <1>2, <3>1, NothingOwed DEF Untouched
  <2> QED
    BY <1>1, <1>2, <2>1, StakingAssumption DEF Funds, Untouched
<1>6. Released(FALSE)' \in Nat
  <2>1. FALSE \in BOOLEAN /\ state.last_distributed \in Nat /\ ScheduleTyped(schedule)
    BY <1>2, StateTyped, SequenceIsTyped
  <2>2. Emitted(schedule, state.last_distributed, FALSE) \in Nat
    BY <2>1, EmittedTyped
  <2> QED
    BY <1>1, <1>3, <2>2 DEF Released
<1>7. Backed(reward, paid, 0, 0, Released(FALSE)', 0)
  BY <1>2, <1>6, NothingOwed DEF Untouched
<1>8. BackedNow(FALSE)'
  BY <1>1, <1>2, <1>7 DEF BackedNow, Untouched
<1>9. BondsAddUp'
  BY <1>1 DEF StakingInv, BondsAddUp
<1> QED
  BY <1>1, <1>2, <1>3, <1>4, <1>5, <1>8, <1>9 DEF StakingInv, ReleasedBacks

LEMMA TickKeeps ==
    ASSUME StakingInv, Tick
    PROVE  StakingInv'
<1>1. now' = now + 1 /\ UNCHANGED <<config, state, reward, lp, glow, paid, changed, purse>>
  BY Zenon DEF Tick, storage
<1>2. StakingTypeOK' /\ (state.last_distributed <= now)'
  <2>1. now \in Nat /\ state.last_distributed \in Nat /\ state.last_distributed <= now
    BY InvFacts DEF StakingInv
  <2> QED
    BY <1>1, <2>1 DEF StakingInv, StakingTypeOK
<1>3. ReleasedBacks' /\ BondsAddUp' /\ Funds' = Funds
  BY <1>1 DEF StakingInv, ReleasedBacks, BackedNow, Released, BondsAddUp, Funds
<1>4. (config.owner = None => Untouched)'
  BY <1>1 DEF StakingInv, Untouched
<1> QED
  BY <1>1, <1>2, <1>3, <1>4 DEF StakingInv

LEMMA StakingStutters ==
    ASSUME StakingInv, UNCHANGED vars
    PROVE  StakingInv'
<1>1. UNCHANGED <<config, state, reward, now, lp, glow, paid, changed, purse>>
  BY DEF vars, storage
<1>2. StakingTypeOK'
  BY <1>1 DEF StakingInv, StakingTypeOK
<1>3. ReleasedBacks' /\ BondsAddUp' /\ Funds' = Funds
  BY <1>1 DEF StakingInv, ReleasedBacks, BackedNow, Released, BondsAddUp, Funds
<1>4. (config.owner = None => Untouched)'
  BY <1>1 DEF StakingInv, Untouched
<1> QED
  BY <1>1, <1>2, <1>3, <1>4 DEF StakingInv

-----------------------------------------------------------------------------
(* Stopping the distribution.                                              *)

RankOf(B, i) == Cardinality({j \in B : j <= i})

\* The elements of a finite set of integers are numbered in their order.
LEMMA Ranking ==
    ASSUME NEW B \in SUBSET Int, IsFiniteSet(B)
    PROVE  /\ Cardinality(B) \in Nat
           /\ \A i \in B : RankOf(B, i) \in 1..Cardinality(B)
           /\ \A i, k \in B : RankOf(B, i) = RankOf(B, k) => i = k
           /\ \A n \in 1..Cardinality(B) : \E i \in B : RankOf(B, i) = n
<1> DEFINE N == Cardinality(B)
           T == 1..N
           L(i) == {j \in B : j <= i}
           rank == [i \in B |-> RankOf(B, i)]
<1>1. N \in Nat
  BY FS_CardinalityType
<1>2. ASSUME NEW i \in B PROVE IsFiniteSet(L(i)) /\ RankOf(B, i) \in T
  <2>1. L(i) \in SUBSET B /\ i \in L(i)
    OBVIOUS
  <2>2. IsFiniteSet(L(i)) /\ Cardinality(L(i)) <= N
    BY <2>1, FS_Subset
  <2>3. Cardinality(L(i)) \in Nat /\ Cardinality(L(i)) # 0
    BY <2>1, <2>2, FS_CardinalityType, FS_EmptySet
  <2> QED
    BY <1>1, <2>2, <2>3 DEF RankOf
<1>3. ASSUME NEW i \in B, NEW k \in B, RankOf(B, i) = RankOf(B, k) PROVE i = k
  <2>1. ASSUME NEW x \in B, NEW y \in B, RankOf(B, x) = RankOf(B, y), x < y PROVE FALSE
    <3>0. x \in Int /\ y \in Int /\ \A j \in B : j \in Int
      OBVIOUS
    <3>1. L(x) \in SUBSET L(y) /\ y \in L(y) /\ y \notin L(x)
      <4>1. \A j \in B : j <= x => j <= y
        BY <2>1, <3>0
      <4>2. y <= y /\ ~(y <= x)
        BY <2>1, <3>0
      <4> QED
        BY <4>1, <4>2
    <3>2. IsFiniteSet(L(y)) /\ Cardinality(L(y)) = Cardinality(L(x))
      BY <1>2, <2>1 DEF RankOf
    <3>3. L(y) = L(x)
      BY <3>1, <3>2, FS_Subset
    <3> QED
      BY <3>1, <3>3
  <2>2. i \in Int /\ k \in Int
    OBVIOUS
  <2>3. ~(i < k) /\ ~(k < i)
    BY <1>3, <2>1
  <2> QED
    BY <2>2, <2>3
<1>4. rank \in Injection(B, T)
  <2>1. rank \in [B -> T]
    BY <1>2
  <2>2. \A i, k \in B : rank[i] = rank[k] => i = k
    BY <1>3
  <2> HIDE DEF rank
  <2>3. IsInjective(rank)
    BY <2>1, <2>2 DEF IsInjective
  <2> QED
    BY <2>1, <2>3 DEF Injection
<1>5. IsFiniteSet(T) /\ Cardinality(T) = N
  <2>1. 1 \in Int /\ N \in Int
    BY <1>1
  <2> HIDE DEF N
  <2>2. IsFiniteSet(1..N) /\ Cardinality(1..N) = IF 1 > N THEN 0 ELSE N - 1 + 1
    BY <2>1, FS_Interval
  <2> QED
    BY <1>1, <2>2
<1>6. rank \in Surjection(B, T)
  <2> HIDE DEF rank, T
  <2> QED
    BY <1>4, <1>5, FS_Injection
<1>7. \A n \in T : \E i \in B : rank[i] = n
  BY <1>6, Zenon DEF Surjection
<1>8. \A i \in B : rank[i] = RankOf(B, i)
  OBVIOUS
<1> HIDE DEF rank
<1> QED
  BY <1>1, <1>2, <1>3, <1>7, <1>8

BegunAt(schedule, t) == {i \in DOMAIN schedule : schedule[i][1] < t}

\* BegunSlots is those slots in their order.
LEMMA SlotsInOrder ==
    ASSUME StakingTypeOK
    PROVE  LET schedule == config.distribution_schedule
               begun == BegunAt(schedule, now)
           IN /\ BegunSlots \in Seq(Nat \X Nat \X Nat)
              /\ DOMAIN BegunSlots = 1..Cardinality(begun)
              /\ \A n \in DOMAIN BegunSlots : BegunSlots[n][1] < now
              /\ \A i \in begun : BegunSlots[RankOf(begun, i)] = schedule[i]
<1> DEFINE schedule == config.distribution_schedule
           B == BegunAt(schedule, now)
           pick(n) == CHOOSE i \in B : RankOf(B, i) = n
           m == Cardinality(B)
<1>1. schedule \in Seq(Nat \X Nat \X Nat)
  BY DEF StakingTypeOK
<1>2. B \in SUBSET Int /\ IsFiniteSet(B)
  <2>1. DOMAIN schedule = 1..Len(schedule) /\ Len(schedule) \in Nat
    BY <1>1
  <2>2. B \in SUBSET (DOMAIN schedule) /\ DOMAIN schedule \subseteq Int
    BY <2>1 DEF BegunAt
  <2>3. IsFiniteSet(DOMAIN schedule)
    BY <1>1, SequenceIsTyped DEF ScheduleTyped
  <2> QED
    BY <2>2, <2>3, FS_Subset
<1>3. BegunSlots = [n \in 1..m |-> schedule[pick(n)]]
  BY DEF BegunSlots, BegunAt, RankOf
<1>4. \A i \in B : schedule[i] \in Nat \X Nat \X Nat /\ schedule[i][1] < now
  BY <1>1 DEF BegunAt
<1> HIDE DEF schedule, B, m
<1>5. /\ m \in Nat
      /\ \A i \in B : RankOf(B, i) \in 1..m
      /\ \A i, k \in B : RankOf(B, i) = RankOf(B, k) => i = k
      /\ \A n \in 1..m : \E i \in B : RankOf(B, i) = n
  BY <1>2, Ranking DEF m
<1>6. ASSUME NEW n \in 1..m PROVE pick(n) \in B /\ RankOf(B, pick(n)) = n
  BY <1>5
<1>7. ASSUME NEW i \in B PROVE pick(RankOf(B, i)) = i
  <2>1. RankOf(B, i) \in 1..m
    BY <1>5
  <2>2. pick(RankOf(B, i)) \in B /\ RankOf(B, pick(RankOf(B, i))) = RankOf(B, i)
    BY <1>6, <2>1
  <2> QED
    BY <1>5, <2>2
<1> HIDE DEF pick
<1>8. DOMAIN BegunSlots = 1..m
  BY <1>3
<1>9. \A n \in 1..m : BegunSlots[n] = schedule[pick(n)]
  BY <1>3
<1>10. \A n \in 1..m : BegunSlots[n] \in Nat \X Nat \X Nat /\ BegunSlots[n][1] < now
  BY <1>4, <1>6, <1>9
<1>11. BegunSlots \in Seq(Nat \X Nat \X Nat)
  <2>1. BegunSlots \in [1..m -> Nat \X Nat \X Nat]
    BY <1>3, <1>9, <1>10
  <2> HIDE DEF m
  <2> QED
    BY <1>5, <2>1
<1>12. \A i \in B : BegunSlots[RankOf(B, i)] = schedule[i]
  BY <1>5, <1>7, <1>9
<1> QED
  BY <1>8, <1>10, <1>11, <1>12 DEF m, B, schedule

LEMMA TruncatedSlot ==
    ASSUME NEW s \in Nat \X Nat \X Nat, NEW t \in Nat, s[1] < t, s[2] >= t => s \in Slot
    PROVE  /\ Truncated(s, t) \in Nat \X Nat \X Nat
           /\ Truncated(s, t)[1] < t
           /\ Upto(s, t, FALSE) <= Upto(Truncated(s, t), t, TRUE)
<1>0. SlotTyped(s) /\ s[1] \in Nat /\ s[2] \in Nat /\ s[3] \in Nat
  BY DEF SlotTyped
<1>1. CASE s[2] < t
  <2>1. Truncated(s, t) = s
    BY <1>1 DEF Truncated
  <2>2. Upto(s, t, FALSE) = Upto(s, t, TRUE)
    BY <1>0, <1>1 DEF Upto
  <2>3. Upto(s, t, TRUE) \in Nat
    <3>1. TRUE \in BOOLEAN
      OBVIOUS
    <3> QED
      BY <1>0, <3>1, UptoTyped
  <2>4. Upto(Truncated(s, t), t, TRUE) = Upto(s, t, FALSE)
    BY <2>1, <2>2, Zenon
  <2>5. Upto(s, t, FALSE) \in Nat
    BY <2>2, <2>3, Zenon
  <2> DEFINE x == Upto(s, t, FALSE)
             y == Upto(Truncated(s, t), t, TRUE)
  <2> HIDE DEF x, y
  <2>6. x <= y
    <3>1. x = y /\ x \in Nat
      BY <2>4, <2>5, Zenon DEF x, y
    <3> QED
      BY <3>1
  <2> QED
    BY <2>1, <2>6, Zenon DEF x, y
<1>2. CASE s[2] >= t
  <2> DEFINE a == DecMul(RateOf(s), t - s[1])
             c == <<s[1], t, a>>
  <2>1. s[1] < s[2] /\ t - s[1] \in Nat
    BY <1>0, <1>2 DEF Slot
  <2>2. a \in Nat
    <3>1. RateOf(s) \in Nat
      BY <1>0, <2>1, RateBounds
    <3> QED
      BY <2>1, <3>1, DecMulBounds
  <2>3. Truncated(s, t) = c
    BY <1>0, <1>2 DEF Truncated, RateOf
  <2>4. Upto(s, t, FALSE) = a
    BY <1>0, <1>2, <2>1 DEF Upto
  <2> HIDE DEF a
  <2>5. c \in Nat \X Nat \X Nat /\ c[1] = s[1] /\ c[2] = t /\ c[3] = a
    BY <1>0, <2>2
  <2> HIDE DEF c
  <2>6. Upto(c, t, TRUE) = a
    BY <1>0, <2>5 DEF Upto
  <2>7. a <= a
    BY <2>2
  <2>8. c[1] < t
    BY <2>5
  <2> QED
    BY <2>3, <2>4, <2>5, <2>6, <2>7, <2>8, Zenon
<1>3. s[2] < t \/ s[2] >= t
  BY <1>0
<1> QED
  BY <1>1, <1>2, <1>3, Zenon

Stopped == [i \in DOMAIN BegunSlots |-> Truncated(BegunSlots[i], now)]

\* The slots as they are stopped have released all that the schedule has, and
\* all that is left of them counts.
LEMMA StoppedSlots ==
    ASSUME StakingTypeOK,
           \A i \in DOMAIN BegunSlots : BegunSlots[i][2] >= now => BegunSlots[i] \in Slot
    PROVE  /\ Stopped \in Seq(Nat \X Nat \X Nat)
           /\ SumFunction([i \in DOMAIN Stopped |-> Stopped[i][3]]) = Amounts(Stopped)
           /\ Begun(Stopped, now) = Amounts(Stopped)
           /\ Emitted(config.distribution_schedule, now, FALSE) <= Emitted(Stopped, now, TRUE)
<1> DEFINE schedule == config.distribution_schedule
           B == BegunAt(schedule, now)
           D == DOMAIN schedule
           K == 1..Cardinality(B)
<1>0. now \in Nat /\ ScheduleTyped(schedule)
  BY StateTyped DEF StakingTypeOK
<1>1. /\ BegunSlots \in Seq(Nat \X Nat \X Nat) /\ DOMAIN BegunSlots = K
      /\ \A n \in K : BegunSlots[n][1] < now
      /\ \A i \in B : BegunSlots[RankOf(B, i)] = schedule[i]
  BY SlotsInOrder, Zenon
<1>2. \A n \in K : BegunSlots[n] \in Nat \X Nat \X Nat
  <2>1. BegunSlots \in Seq(Nat \X Nat \X Nat) /\ DOMAIN BegunSlots = K
    BY <1>1
  <2> HIDE DEF K
  <2> QED
    BY <2>1
<1>3. IsFiniteSet(B) /\ B \in SUBSET D /\ IsFiniteSet(D) /\ D \subseteq Int
  <2>1. IsFiniteSet(D)
    BY <1>0 DEF ScheduleTyped
  <2>2. schedule \in Seq(Nat \X Nat \X Nat)
    BY DEF StakingTypeOK
  <2>3. D \subseteq Int
    BY <2>2
  <2>4. B \in SUBSET D
    BY DEF BegunAt
  <2> QED
    BY <2>1, <2>3, <2>4, FS_Subset
<1>4. /\ Cardinality(B) \in Nat
      /\ \A i \in B : RankOf(B, i) \in K
      /\ \A i, k \in B : RankOf(B, i) = RankOf(B, k) => i = k
      /\ \A n \in K : \E i \in B : RankOf(B, i) = n
  <2> HIDE DEF B
  <2> QED
    BY <1>3, Ranking
<1>5. IsFiniteSet(K)
  BY <1>4, FS_Interval
<1>6. DOMAIN Stopped = K /\ \A n \in K : Stopped[n] = Truncated(BegunSlots[n], now)
  BY <1>1 DEF Stopped
<1>7. \A n \in K : /\ Stopped[n] \in Nat \X Nat \X Nat /\ Stopped[n][1] < now
                   /\ Upto(BegunSlots[n], now, FALSE) <= Upto(Stopped[n], now, TRUE)
  <2>1. ASSUME NEW n \in K
        PROVE  /\ Stopped[n] \in Nat \X Nat \X Nat /\ Stopped[n][1] < now
               /\ Upto(BegunSlots[n], now, FALSE) <= Upto(Stopped[n], now, TRUE)
    <3> DEFINE s == BegunSlots[n]
    <3>1. s \in Nat \X Nat \X Nat /\ s[1] < now /\ (s[2] >= now => s \in Slot)
      BY <1>1, <1>2
    <3>2. Stopped[n] = Truncated(s, now)
      BY <1>6
    <3> HIDE DEF s
    <3>3. /\ Truncated(s, now) \in Nat \X Nat \X Nat
          /\ Truncated(s, now)[1] < now
          /\ Upto(s, now, FALSE) <= Upto(Truncated(s, now), now, TRUE)
      BY <1>0, <3>1, TruncatedSlot
    <3> QED
      BY <3>2, <3>3, Zenon DEF s
  <2> QED
    BY <2>1
<1>8. Stopped \in Seq(Nat \X Nat \X Nat)
  <2>1. Stopped \in [K -> Nat \X Nat \X Nat]
    BY <1>6, <1>7 DEF Stopped
  <2> QED
    BY <1>4, <2>1
<1>9. ScheduleTyped(Stopped)
  BY <1>8, SequenceIsTyped
<1>10. SumFunction([i \in DOMAIN Stopped |-> Stopped[i][3]]) = Amounts(Stopped)
  <2> DEFINE f == AmountsIn(Stopped)
  <2>1. DOMAIN f = DOMAIN Stopped /\ f = [i \in DOMAIN Stopped |-> Stopped[i][3]]
    BY DEF AmountsIn
  <2> HIDE DEF f
  <2>2. SumFunction(f) = SumFunctionOnSet(f, DOMAIN Stopped)
    BY <2>1, SumOnDomain
  <2> QED
    BY <2>1, <2>2 DEF Amounts, f
<1>11. Begun(Stopped, now) = Amounts(Stopped)
  <2>1. \A n \in K : Stopped[n][1] <= now
    <3>1. ASSUME NEW n \in K PROVE Stopped[n][1] <= now
      <4>1. Stopped[n] \in Nat \X Nat \X Nat /\ Stopped[n][1] < now
        BY <1>7
      <4>2. Stopped[n][1] \in Nat
        BY <4>1
      <4> QED
        BY <1>0, <4>1, <4>2
    <3> QED
      BY <3>1
  <2>2. BegunIn(Stopped, now) = AmountsIn(Stopped)
    BY <1>6, <2>1 DEF BegunIn, AmountsIn
  <2> QED
    BY <2>2 DEF Begun, Amounts
<1>12. Emitted(schedule, now, FALSE) <= Emitted(Stopped, now, TRUE)
  <2> DEFINE f == UptoIn(schedule, now, FALSE)
             x == UptoIn(BegunSlots, now, FALSE)
             y == UptoIn(Stopped, now, TRUE)
             r == [i \in B |-> RankOf(B, i)]
  <2>1. ASSUME NEW i \in D
        PROVE  f[i] \in Int /\ f[i] = Upto(schedule[i], now, FALSE) /\ (i \notin B => f[i] = 0)
    <3>1. SlotTyped(schedule[i])
      BY <1>0 DEF ScheduleTyped
    <3>2. Upto(schedule[i], now, FALSE) \in Nat
      <4>1. FALSE \in BOOLEAN
        OBVIOUS
      <4> QED
        BY <1>0, <3>1, <4>1, UptoTyped
    <3>3. i \notin B => Upto(schedule[i], now, FALSE) = 0
      BY <1>0, <3>1 DEF BegunAt, Upto, SlotTyped
    <3> DEFINE a == Upto(schedule[i], now, FALSE)
    <3>4. f[i] = a
      BY Zenon DEF UptoIn
    <3>5. a \in Nat /\ (i \notin B => a = 0)
      BY <3>2, <3>3, Zenon
    <3> HIDE DEF a, f, B
    <3>6. f[i] \in Int /\ f[i] = a /\ (i \notin B => f[i] = 0)
      BY <3>4, <3>5
    <3> QED
      BY <3>6, Zenon DEF a
  <2>2. ASSUME NEW n \in K
        PROVE  x[n] \in Int /\ y[n] \in Int /\ x[n] <= y[n] /\ x[n] = Upto(BegunSlots[n], now, FALSE)
    <3>1. SlotTyped(BegunSlots[n]) /\ SlotTyped(Stopped[n])
      BY <1>2, <1>7 DEF SlotTyped
    <3>2. TRUE \in BOOLEAN /\ FALSE \in BOOLEAN
      OBVIOUS
    <3> DEFINE a == Upto(BegunSlots[n], now, FALSE)
               b == Upto(Stopped[n], now, TRUE)
    <3>3. a \in Nat /\ b \in Nat
      BY <1>0, <3>1, <3>2, UptoTyped
    <3>4. n \in DOMAIN BegunSlots /\ n \in DOMAIN Stopped
      BY <1>1, <1>6
    <3>5. x[n] = a /\ y[n] = b
      BY <3>4, Zenon DEF UptoIn
    <3>6. a <= b
      BY <1>7
    <3> HIDE DEF a, b, x, y
    <3>7. x[n] \in Int /\ y[n] \in Int /\ x[n] <= y[n] /\ x[n] = a
      BY <3>3, <3>5, <3>6
    <3> QED
      BY <3>7, Zenon DEF a
  <2>3. \A i \in B : r[i] \in K /\ f[i] = x[r[i]]
    <3>1. \A i \in B : r[i] = RankOf(B, i) /\ RankOf(B, i) \in K /\ i \in D
      BY <1>3, <1>4
    <3>2. \A n \in K : x[n] = Upto(BegunSlots[n], now, FALSE)
      BY <2>2, Zenon
    <3>3. \A i \in D : f[i] = Upto(schedule[i], now, FALSE)
      BY <2>1, Zenon
    <3>4. \A i \in B : BegunSlots[RankOf(B, i)] = schedule[i]
      BY <1>1
    <3> HIDE DEF r, f, x, B, K, D, schedule
    <3>5. ASSUME NEW i \in B PROVE r[i] \in K /\ f[i] = x[r[i]]
      <4>1. r[i] \in K /\ i \in D /\ BegunSlots[r[i]] = schedule[i]
        BY <3>1, <3>4
      <4>2. x[r[i]] = Upto(BegunSlots[r[i]], now, FALSE) /\ f[i] = Upto(schedule[i], now, FALSE)
        BY <3>2, <3>3, <4>1, Zenon
      <4> QED
        BY <4>1, <4>2, Zenon
    <3> QED
      BY <3>5
  <2>4. \A i, k \in B : r[i] = r[k] => i = k
    BY <1>4
  <2>5. \A n \in K : x[n] \in Int /\ \E i \in B : r[i] = n
    BY <1>4, <2>2
  <2> HIDE DEF r, f, x, y, B, K, D
  <2>6. SumFunctionOnSet(f, B) = SumFunctionOnSet(x, K)
    <3>1. IsFiniteSet(B) /\ IsFiniteSet(K)
      BY <1>3, <1>5
    <3> QED
      BY <2>3, <2>4, <2>5, <3>1, SumReindex
  <2>7. SumFunctionOnSet(f, B) = SumFunctionOnSet(f, D)
    <3>1. /\ \A i \in B : f[i] \in Int
          /\ \A i \in B : f[i] = f[i]
          /\ \A i \in D \ B : f[i] = 0
      BY <1>3, <2>1
    <3> QED
      BY <1>3, <3>1, SumOnSubset
  <2>8. SumFunctionOnSet(x, K) <= SumFunctionOnSet(y, K)
    <3>1. /\ \A n \in K : x[n] \in Int
          /\ \A n \in K : y[n] \in Int
          /\ \A n \in K : x[n] <= y[n]
      BY <2>2
    <3> QED
      BY <1>5, <3>1, SumBelow
  <2>9. SumFunctionOnSet(f, D) <= SumFunctionOnSet(y, K)
    BY <2>6, <2>7, <2>8
  <2> QED
    BY <1>6, <2>9 DEF Emitted, f, y, D
<1> QED
  BY <1>8, <1>10, <1>11, <1>12

LEMMA MigrateStakingKeeps ==
    ASSUME StakingInv, NEW sender \in Owners, migrate_staking(sender)
    PROVE  StakingInv'
<1> DEFINE schedule == config.distribution_schedule
           kept == SumFunction([i \in DOMAIN Stopped |-> Stopped[i][3]])
           remaining == TOTAL_DISTRIBUTION_AMOUNT - kept
           g == StateNow.global_reward_index
           total == state.total_bond_amount
<1>1. /\ config.owner = sender /\ RewardComputable(state, now)
      /\ \A i \in DOMAIN BegunSlots : BegunSlots[i][2] >= now => BegunSlots[i] \in Slot
      /\ remaining > 0 /\ remaining <= glow
      /\ config' = [config EXCEPT !.distribution_schedule = Stopped]
      /\ state' = StateNow /\ glow' = glow - remaining
      /\ UNCHANGED <<reward, now, lp, paid, changed, purse>>
  BY Zenon DEF migrate_staking, Stopped
<1>2. /\ StakingTypeOK /\ StakersTyped(reward, paid) /\ Funds \in Nat
      /\ glow \in Nat /\ TotalOver(paid) \in Nat /\ Funds = glow + TotalOver(paid)
      /\ total \in Nat /\ now \in Nat /\ changed \in Nat /\ ScheduleTyped(schedule)
      /\ state.global_reward_index \in Nat /\ Funds <= TOTAL_DISTRIBUTION_AMOUNT
      /\ TOTAL_DISTRIBUTION_AMOUNT \in Nat
  BY InvFacts, StakingAssumption DEF StakingInv
<1>3. /\ StateNow \in [last_distributed : Nat, total_bond_amount : Nat, global_reward_index : Nat]
      /\ StateNow.last_distributed = now /\ StateNow.total_bond_amount = total
      /\ g \in Nat /\ state.global_reward_index <= g
      /\ \A full \in BOOLEAN : BackedNow(full) =>
           Backed(reward, paid, g, total, Emitted(schedule, now, full), changed)
  BY <1>1, IndexNow
<1>4. /\ Stopped \in Seq(Nat \X Nat \X Nat) /\ kept = Amounts(Stopped)
      /\ Begun(Stopped, now) = Amounts(Stopped)
      /\ Emitted(schedule, now, FALSE) <= Emitted(Stopped, now, TRUE)
  BY <1>1, <1>2, StoppedSlots
<1>5. /\ kept \in Nat /\ Emitted(Stopped, now, TRUE) \in Nat
      /\ Emitted(schedule, now, FALSE) \in Nat
  <2>1. ScheduleTyped(Stopped) /\ TRUE \in BOOLEAN /\ FALSE \in BOOLEAN
    BY <1>4, SequenceIsTyped
  <2> QED
    BY <1>2, <1>4, <2>1, EmittedTyped
<1> HIDE DEF kept
<1>6. config.owner # None
  BY <1>1, StakingAssumption
<1>7. /\ config'.owner = config.owner /\ config'.distribution_schedule = Stopped
      /\ config' \in [owner : Owners \cup {None}, distribution_schedule : Seq(Nat \X Nat \X Nat)]
  BY <1>1, <1>2, <1>4 DEF StakingTypeOK
<1>8. glow' \in Nat
  BY <1>1, <1>2, <1>5
<1>9. StakingTypeOK'
  BY <1>1, <1>2, <1>3, <1>7, <1>8 DEF StakingTypeOK
<1>10. Funds' = Funds - remaining /\ Funds' \in Nat
  <2>1. Funds' = glow' + TotalOver(paid)
    BY <1>1 DEF Funds
  <2>2. Funds' = (glow - remaining) + TotalOver(paid)
    BY <1>1, <2>1
  <2> QED
    BY <1>1, <1>2, <1>5, <2>2
<1>11. Funds' < TOTAL_DISTRIBUTION_AMOUNT
  BY <1>1, <1>2, <1>5, <1>10
<1>12. ASSUME Funds = TOTAL_DISTRIBUTION_AMOUNT PROVE ReleasedBacks'
  <2> DEFINE e == Emitted(schedule, now, FALSE)
             e1 == Emitted(Stopped, now, TRUE)
             v == TotalOver(Settled(reward, paid))
  <2>1. BackedNow(FALSE)
    <3>1. ~(Funds < TOTAL_DISTRIBUTION_AMOUNT)
      BY <1>2, <1>12
    <3> QED
      BY <3>1, Zenon DEF StakingInv, ReleasedBacks
  <2>2. One * v + g * total <= One * (e + changed)
    BY <1>3, <2>1 DEF Backed
  <2>3. v \in Int /\ g * total \in Nat /\ One \in Nat /\ e <= e1 /\ e \in Nat /\ e1 \in Nat
    BY <1>2, <1>3, <1>4, <1>5, TotalsTyped, MulNat, StakingAssumption
  <2> HIDE DEF e, e1, v, g, total
  <2>4. One * (e + changed) <= One * (e1 + changed)
    BY <1>2, <2>3
  <2>5. One * v + g * total <= One * (e1 + changed)
    BY <1>2, <2>2, <2>3, <2>4
  <2>6. Released(TRUE)' = e1
    BY <1>1, <1>3, <1>7 DEF Released, e1
  <2>7. BackedNow(TRUE)'
    BY <1>1, <1>3, <2>5, <2>6 DEF BackedNow, Backed, v, g, total
  <2> QED
    BY <1>11, <2>7 DEF ReleasedBacks
<1>13. ASSUME Funds # TOTAL_DISTRIBUTION_AMOUNT PROVE ReleasedBacks'
  <2>1. Funds' < kept
    BY <1>2, <1>5, <1>10, <1>13
  <2>2. Begun(Stopped, now) > Funds'
    BY <1>4, <1>5, <1>10, <2>1
  <2>3. (Begun(config.distribution_schedule, state.last_distributed) > Funds)'
    BY <1>1, <1>3, <1>7, <2>2
  <2> QED
    BY <1>11, <2>3 DEF ReleasedBacks
<1>14. ReleasedBacks'
  BY <1>12, <1>13
<1>15. BondsAddUp'
  BY <1>1, <1>3 DEF StakingInv, BondsAddUp
<1>16. (\A u \in Stakers : reward[u].reward_index <= state.global_reward_index)'
  <2>1. ASSUME NEW u \in Stakers PROVE reward[u].reward_index <= g
    <3>1. reward[u].reward_index \in Nat /\ reward[u].reward_index <= state.global_reward_index
      BY <1>2 DEF StakingInv, StakersTyped
    <3> HIDE DEF g
    <3> QED
      BY <1>2, <1>3, <3>1
  <2> QED
    BY <1>1, <2>1
<1>17. (state.last_distributed <= now)' /\ (Funds <= TOTAL_DISTRIBUTION_AMOUNT)'
  BY <1>1, <1>2, <1>3, <1>10, <1>11
<1> QED
  BY <1>6, <1>7, <1>9, <1>14, <1>15, <1>16, <1>17 DEF StakingInv

-----------------------------------------------------------------------------
(* The theorems.                                                           *)

\* LP staking keeps its books, whoever bonds, unbonds and withdraws when:
\* every message of Staking.tla leaves the state in its types and what has
\* been credited within what the schedule has released.
THEOREM StakingInvariant == StakingSpec => []StakingInv
<1>1. StakingInit => StakingInv
  BY StakingInitially
<1>2. ASSUME StakingInv, [StakingNext]_vars PROVE StakingInv'
  <2>1. CASE \E u \in Stakers, amount \in BondAmounts : bond(u, amount) \/ unbond(u, amount)
    BY <1>2, <2>1, BondKeeps, UnbondKeeps
  <2>2. CASE \E u \in Stakers : withdraw(u)
    BY <1>2, <2>2, WithdrawKeeps
  <2>3. CASE \E sender, owner \in Owners, schedule \in NewSchedules \cup {None} :
                update_config(sender, owner, schedule)
    BY <1>2, <2>3, UpdateConfigKeeps
  <2>4. CASE \E sender \in Owners : migrate_staking(sender)
    BY <1>2, <2>4, MigrateStakingKeeps
  <2>5. CASE \E owner \in Owners, schedule \in InitSchedules :
                config.owner = None /\ migrate(owner, schedule)
    BY <1>2, <2>5, MigrateKeeps
  <2>6. CASE Tick
    BY <1>2, <2>6, TickKeeps
  <2>7. CASE UNCHANGED vars
    BY <1>2, <2>7, StakingStutters
  <2> QED
    BY <1>2, <2>1, <2>2, <2>3, <2>4, <2>5, <2>6, <2>7, Zenon DEF StakingNext
<1> QED
  BY <1>1, <1>2, PTL DEF StakingSpec

\* What the stakers have earned by now.
EarnedIn == [u \in Stakers |-> Earned(u)]

LEMMA EarnedIsReleased ==
    ASSUME StakingInv, RewardComputable(state, now), NEW full \in BOOLEAN, BackedNow(full)
    PROVE  /\ TotalOver(EarnedIn) \in Int
           /\ TotalOver(EarnedIn) + TotalOver(paid)
                <= Emitted(config.distribution_schedule, now, full) + changed
<1> DEFINE g == StateNow.global_reward_index
           total == state.total_bond_amount
           e == Emitted(config.distribution_schedule, now, full)
           f == Settled(reward, paid)
           b == BondsIn(reward)
           v == EarnedIn
           c == [u \in Stakers |-> DecMul(g, reward[u].bond_amount)]
           oc == [u \in Stakers |-> One * c[u]]
           gb == [u \in Stakers |-> g * b[u]]
           w == [u \in Stakers |-> v[u] + paid[u]]
<1>1. /\ StakersTyped(reward, paid) /\ total \in Nat /\ now \in Nat /\ changed \in Nat
      /\ e \in Nat /\ One \in Nat \ {0}
  BY InvFacts, EmittedTyped, StakingAssumption
<1>2. g \in Nat /\ One * TotalOver(f) + g * total <= One * (e + changed)
  BY IndexNow DEF Backed
<1>3. total = TotalOver(b)
  BY DEF StakingInv, BondsAddUp
<1>4. ASSUME NEW u \in Stakers
      PROVE  /\ f[u] \in Int /\ b[u] \in Nat /\ c[u] \in Nat /\ v[u] \in Int /\ paid[u] \in Int
             /\ w[u] = v[u] + paid[u] /\ w[u] = f[u] + c[u]
             /\ oc[u] = One * c[u] /\ gb[u] = g * b[u]
             /\ oc[u] \in Int /\ gb[u] \in Int /\ oc[u] <= gb[u]
  <2> DEFINE p == reward[u].pending_reward
             a == reward[u].bond_amount
             q == paid[u]
             x == DecMul(g, a)
             z == DecMul(reward[u].reward_index, a)
  <2>1. /\ p \in Nat /\ a \in Nat /\ q \in Nat /\ reward[u].reward_index \in Nat
    BY <1>1 DEF StakersTyped
  <2>2. x \in Nat /\ z \in Nat /\ One * x <= g * a /\ g * a \in Nat /\ One * x \in Nat
    BY <1>1, <1>2, <2>1, DecMulBounds, MulNat
  <2>3. v[u] = p + x - z
    <3>1. v[u] = InfoNow(u).pending_reward
      BY DEF EarnedIn, Earned
    <3> QED
      BY <3>1, SettledNow
  <2>4. f[u] = p + q - z /\ b[u] = a /\ c[u] = x
    BY DEF Settled, BondsIn
  <2>5. w[u] = v[u] + q /\ oc[u] = One * c[u] /\ gb[u] = g * b[u]
    OBVIOUS
  <2> HIDE DEF p, a, q, x, z, v, f, b, c, w, oc, gb, g
  <2>6. v[u] \in Int /\ f[u] \in Int /\ w[u] = f[u] + c[u]
    BY <2>1, <2>2, <2>3, <2>4, <2>5
  <2>7. oc[u] \in Int /\ gb[u] \in Int /\ oc[u] <= gb[u]
    BY <2>2, <2>4, <2>5
  <2> QED
    BY <2>1, <2>2, <2>4, <2>5, <2>6, <2>7 DEF q
<1> HIDE DEF g, total, e, f, b, v, c, oc, gb, w
<1>5. /\ \A u \in Stakers : f[u] \in Int
      /\ \A u \in Stakers : b[u] \in Int
      /\ \A u \in Stakers : c[u] \in Int
      /\ \A u \in Stakers : v[u] \in Int
      /\ \A u \in Stakers : paid[u] \in Int
      /\ \A u \in Stakers : oc[u] \in Int
      /\ \A u \in Stakers : gb[u] \in Int
  BY <1>4
<1>6. /\ TotalOver(f) \in Int /\ TotalOver(b) \in Int /\ TotalOver(c) \in Int
      /\ TotalOver(v) \in Int /\ TotalOver(paid) \in Int
  BY <1>5, StakersFinite, SumInt DEF TotalOver
<1>7. TotalOver(w) = TotalOver(v) + TotalOver(paid)
  <2>1. \A u \in Stakers : w[u] = v[u] + paid[u]
    BY <1>4
  <2> QED
    BY <1>5, <2>1, StakersFinite, SumPlus DEF TotalOver
<1>8. TotalOver(w) = TotalOver(f) + TotalOver(c)
  <2>1. \A u \in Stakers : w[u] = f[u] + c[u]
    BY <1>4
  <2> QED
    BY <1>5, <2>1, StakersFinite, SumPlus DEF TotalOver
<1>9. One * TotalOver(c) <= g * TotalOver(b)
  <2>1. \A u \in Stakers : oc[u] = One * c[u]
    BY <1>4
  <2>2. \A u \in Stakers : gb[u] = g * b[u]
    BY <1>4
  <2>3. \A u \in Stakers : oc[u] <= gb[u]
    BY <1>4
  <2>4. One \in Int /\ g \in Int
    BY <1>1, <1>2
  <2>5. TotalOver(oc) = One * TotalOver(c)
    BY <1>5, <2>1, <2>4, StakersFinite, SumScale DEF TotalOver
  <2>6. TotalOver(gb) = g * TotalOver(b)
    BY <1>5, <2>2, <2>4, StakersFinite, SumScale DEF TotalOver
  <2>7. TotalOver(oc) <= TotalOver(gb)
    BY <1>5, <2>3, StakersFinite, SumBelow DEF TotalOver
  <2> QED
    BY <2>5, <2>6, <2>7
<1> DEFINE W == TotalOver(w)
           F == TotalOver(f)
           C == TotalOver(c)
           gt == g * total
           E == e + changed
<1>10. /\ One * F + gt <= One * E /\ One * C <= gt /\ W = F + C
       /\ F \in Int /\ C \in Int /\ gt \in Nat /\ E \in Nat
  BY <1>1, <1>2, <1>3, <1>6, <1>8, <1>9, MulNat
<1> HIDE DEF W, F, C, gt, E
<1>11. One * W = One * F + One * C /\ One * F \in Int /\ One * C \in Int /\ One * E \in Int
  BY <1>1, <1>10
<1>12. One * W <= One * E
  BY <1>1, <1>10, <1>11
<1>13. W <= E
  <2>1. W \in Int
    BY <1>10
  <2>2. SUFFICES ASSUME W >= E + 1 PROVE FALSE
    BY <1>10, <2>1
  <2>3. W - E - 1 \in Nat
    BY <1>10, <2>1, <2>2
  <2>4. One * (W - E - 1) \in Nat
    BY <1>1, <2>3, MulNat
  <2>5. One * (W - E - 1) = One * W - One * E - One
    BY <1>1, <1>10, <2>1
  <2> QED
    BY <1>1, <1>10, <1>11, <1>12, <2>1, <2>4, <2>5
<1> QED
  BY <1>6, <1>7, <1>13 DEF W, E, v, e

\* StakersCovered holds of every deployment of contracts/staking: bonds add up
\* and are held in LP tokens, and while the schedule is within the GLOW put
\* into the contract everything earned so far can be paid, up to one unit for
\* each change of a bond.
THEOREM StakersStayCovered == StakingSpec => []StakersCovered
<1>1. ASSUME StakingInv PROVE StakersCovered
  <2> DEFINE schedule == config.distribution_schedule
             amounts == SumFunction([i \in DOMAIN schedule |-> schedule[i][3]])
             earned == TotalOver([u \in Stakers |-> Earned(u)])
             spent == TotalOver(paid)
  <2>1. /\ state.total_bond_amount = TotalOver([u \in Stakers |-> reward[u].bond_amount])
        /\ state.total_bond_amount = lp
    BY <1>1 DEF StakingInv, BondsAddUp, BondsIn
  <2>2. ASSUME RewardComputable(state, now), amounts <= Funds
        PROVE  earned <= glow + changed
    <3>1. /\ Funds \in Nat /\ glow \in Nat /\ spent \in Nat /\ Funds = glow + spent
          /\ changed \in Nat /\ now \in Nat /\ ScheduleTyped(schedule)
          /\ state.last_distributed \in Nat
      BY <1>1, InvFacts
    <3>2. amounts = Amounts(schedule)
      <4> DEFINE f == AmountsIn(schedule)
      <4>1. DOMAIN f = DOMAIN schedule /\ f = [i \in DOMAIN schedule |-> schedule[i][3]]
        BY DEF AmountsIn
      <4> HIDE DEF f
      <4>2. SumFunction(f) = SumFunctionOnSet(f, DOMAIN schedule)
        BY <4>1, SumOnDomain
      <4> QED
        BY <4>1, <4>2 DEF Amounts, f
    <3>3. PICK full \in BOOLEAN : BackedNow(full)
      <4>1. ~(Begun(schedule, state.last_distributed) > Funds)
        <5>1. TRUE \in BOOLEAN
          OBVIOUS
        <5>2. /\ Begun(schedule, state.last_distributed) \in Nat /\ Amounts(schedule) \in Nat
              /\ Begun(schedule, state.last_distributed) <= Amounts(schedule)
          BY <3>1, <5>1, EmittedTyped
        <5> QED
          BY <2>2, <3>1, <3>2, <5>2
      <4>2. BackedNow(FALSE) \/ BackedNow(TRUE)
        BY <1>1, <4>1, Zenon DEF StakingInv, ReleasedBacks
      <4> QED
        BY <4>2, Zenon
    <3>4. /\ earned \in Int
          /\ earned + spent <= Emitted(schedule, now, full) + changed
      BY <1>1, <2>2, <3>3, EarnedIsReleased DEF EarnedIn
    <3>5. /\ Emitted(schedule, now, full) \in Nat /\ Amounts(schedule) \in Nat
          /\ Emitted(schedule, now, full) <= Amounts(schedule)
      BY <3>1, EmittedTyped
    <3> DEFINE e == Emitted(schedule, now, full)
               a == Amounts(schedule)
    <3>6. e <= a /\ a <= Funds /\ e \in Nat /\ a \in Nat /\ earned + spent <= e + changed
      BY <2>2, <3>2, <3>4, <3>5
    <3> HIDE DEF e, a, earned, spent
    <3> QED
      BY <3>1, <3>4, <3>6
  <2> QED
    BY <2>1, <2>2 DEF StakersCovered
<1> QED
  BY <1>1, StakingInvariant, PTL

\* The state of contracts/staking keeps its types: no amount, index or balance
\* is ever negative, and what the owner stores is a schedule.
THEOREM StakingTyped == StakingSpec => []StakingTypeOK
<1>1. StakingInv => StakingTypeOK
  BY DEF StakingInv
<1> QED
  BY <1>1, StakingInvariant, PTL

-----------------------------------------------------------------------------
(* What is earned stays earned.                                            *)

OrderedSchedule(schedule) ==
    ScheduleTyped(schedule) /\ \A i \in DOMAIN schedule : schedule[i][1] < schedule[i][2]

LEMMA SlotsAreOrdered ==
    ASSUME NEW schedule \in Seq(Slot)
    PROVE  schedule \in Seq(Nat \X Nat \X Nat) /\ OrderedSchedule(schedule)
<1>1. \A i \in DOMAIN schedule : schedule[i] \in Slot
  OBVIOUS
<1>2. \A i \in DOMAIN schedule :
          schedule[i] \in Nat \X Nat \X Nat /\ schedule[i][1] < schedule[i][2]
  BY <1>1 DEF Slot
<1>3. schedule \in Seq(Nat \X Nat \X Nat)
  BY <1>2
<1> QED
  BY <1>2, <1>3, SequenceIsTyped DEF OrderedSchedule

LEMMA DecMulGrows ==
    ASSUME NEW a \in Nat, NEW b \in Nat, a <= b, NEW n \in Nat
    PROVE  DecMul(a, n) <= DecMul(b, n) /\ DecMul(n, a) <= DecMul(n, b)
<1> DEFINE x == DecMul(a, n)
           z == DecMul(b, n)
           v == DecMul(n, a)
           w == DecMul(n, b)
<1>1. /\ a * n <= b * n /\ a * n \in Nat /\ b * n \in Nat
      /\ n * a = a * n /\ n * b = b * n /\ One \in Nat \ {0}
  BY MulMono, MulNat, StakingAssumption
<1>2. /\ x \in Nat /\ z \in Nat /\ One * x <= a * n /\ b * n < One * z + One
      /\ v \in Nat /\ w \in Nat /\ One * v <= n * a /\ n * b < One * w + One
  BY DecMulBounds
<1> HIDE DEF x, z, v, w
<1>3. x <= z
  <2>1. SUFFICES ASSUME x >= z + 1 PROVE FALSE
    BY <1>2
  <2>2. (z + 1) * One <= x * One
    BY <1>1, <1>2, <2>1, MulMono
  <2> QED
    BY <1>1, <1>2, <2>2
<1>4. v <= w
  <2>1. SUFFICES ASSUME v >= w + 1 PROVE FALSE
    BY <1>2
  <2>2. (w + 1) * One <= v * One
    BY <1>1, <1>2, <2>1, MulMono
  <2> QED
    BY <1>1, <1>2, <2>2
<1> QED
  BY <1>3, <1>4 DEF x, z, v, w

LEMMA RatioGrows ==
    ASSUME NEW a \in Nat, NEW b \in Nat, a <= b, NEW n \in Nat \ {0}
    PROVE  from_ratio(a, n) <= from_ratio(b, n)
<1> DEFINE p == a * One
           q == b * One
           x == p \div n
           y == q \div n
<1>1. p \in Nat /\ q \in Nat /\ p <= q
  BY MulNat, MulMono, StakingAssumption
<1>2. /\ x \in Nat /\ n * x <= p
      /\ y \in Nat /\ q < n * y + n
  BY <1>1, DivBounds
<1> HIDE DEF p, q, x, y
<1>3. x <= y
  <2>1. SUFFICES ASSUME x >= y + 1 PROVE FALSE
    BY <1>2
  <2>2. (y + 1) * n <= x * n
    BY <1>2, <2>1, MulMono
  <2> QED
    BY <1>1, <1>2, <2>2
<1> QED
  BY <1>3 DEF from_ratio, p, q, x, y

\* A slot gives nothing in no time, never less in more time, and nothing
\* before its start.
LEMMA DistributedGrows ==
    ASSUME NEW s, SlotTyped(s), s[1] < s[2], NEW from \in Nat, NEW to \in Nat, NEW t \in Nat,
           from <= to, to <= t
    PROVE  /\ Distributed(s, from, to) \in Nat /\ Distributed(s, from, t) \in Nat
           /\ Distributed(s, from, to) <= Distributed(s, from, t)
           /\ from = to => Distributed(s, from, to) = 0
           /\ Distributed(s, from, to) # 0 => s[1] < to
<1> DEFINE rate == RateOf(s)
           a == Smaller(s[2], to) - Larger(s[1], from)
           b == Smaller(s[2], t) - Larger(s[1], from)
<1>0. /\ s[1] \in Nat /\ s[2] \in Nat /\ rate \in Nat
  BY RateBounds DEF SlotTyped
<1>1. Distributed(s, from, to) \in Nat /\ Distributed(s, from, t) \in Nat
  <2>1. TRUE \in BOOLEAN /\ from <= t
    OBVIOUS
  <2> QED
    BY <2>1, DistributedBelow
<1>2. CASE s[1] > to \/ s[2] < from
  <2>1. Distributed(s, from, to) = 0
    BY <1>2 DEF Distributed
  <2> QED
    BY <1>1, <2>1
<1>3. CASE ~(s[1] > to \/ s[2] < from)
  <2>1. /\ Distributed(s, from, to) = DecMul(rate, a)
        /\ Distributed(s, from, t) = DecMul(rate, b)
    BY <1>0, <1>3 DEF Distributed, RateOf
  <2>2. /\ a \in Nat /\ b \in Nat /\ a <= b
        /\ from = to => a = 0
        /\ s[1] < to \/ a = 0
    BY <1>0, <1>3 DEF Larger, Smaller
  <2> HIDE DEF rate, a, b
  <2>3. DecMul(rate, a) <= DecMul(rate, b) /\ DecMul(rate, 0) = 0
    BY <1>0, <2>2, DecMulGrows, DecMulZero
  <2> QED
    BY <1>1, <2>1, <2>2, <2>3
<1> QED
  BY <1>2, <1>3

DistributedIn(schedule, from, to) ==
    [i \in DOMAIN schedule |-> Distributed(schedule[i], from, to)]

LEMMA ScheduledIsSum ==
    ASSUME NEW schedule, NEW from, NEW to
    PROVE  ScheduledBetween(schedule, from, to)
             = SumFunctionOnSet(DistributedIn(schedule, from, to), DOMAIN schedule)
<1> DEFINE d == DistributedIn(schedule, from, to)
<1>1. DOMAIN d = DOMAIN schedule
      /\ ScheduledBetween(schedule, from, to) = SumFunction(d)
  BY DEF DistributedIn, ScheduledBetween
<1> HIDE DEF d
<1> QED
  BY <1>1, SumOnDomain DEF d

LEMMA ScheduledGrows ==
    ASSUME NEW schedule, OrderedSchedule(schedule), NEW from \in Nat, NEW to \in Nat,
           NEW t \in Nat, from <= to, to <= t
    PROVE  /\ ScheduledBetween(schedule, from, to) \in Nat
           /\ ScheduledBetween(schedule, from, to) <= ScheduledBetween(schedule, from, t)
           /\ from = to => ScheduledBetween(schedule, from, to) = 0
<1> DEFINE D == DOMAIN schedule
           f == DistributedIn(schedule, from, to)
           g == DistributedIn(schedule, from, t)
<1>1. ASSUME NEW i \in D
      PROVE  f[i] \in Nat /\ g[i] \in Int /\ f[i] <= g[i] /\ (from = to => f[i] = 0)
  <2>1. SlotTyped(schedule[i]) /\ schedule[i][1] < schedule[i][2]
    BY DEF OrderedSchedule, ScheduleTyped
  <2> DEFINE s == schedule[i]
  <2>2. f[i] = Distributed(s, from, to) /\ g[i] = Distributed(s, from, t)
    BY DEF DistributedIn
  <2> HIDE DEF s, f, g
  <2>3. /\ Distributed(s, from, to) \in Nat /\ Distributed(s, from, t) \in Nat
        /\ Distributed(s, from, to) <= Distributed(s, from, t)
        /\ from = to => Distributed(s, from, to) = 0
    BY <2>1, DistributedGrows DEF s
  <2> QED
    BY <2>2, <2>3
<1>2. IsFiniteSet(D)
  BY DEF OrderedSchedule, ScheduleTyped
<1>3. /\ ScheduledBetween(schedule, from, to) = SumFunctionOnSet(f, D)
      /\ ScheduledBetween(schedule, from, t) = SumFunctionOnSet(g, D)
  BY ScheduledIsSum
<1> HIDE DEF D, f, g
<1>4. SumFunctionOnSet(f, D) \in Nat
  BY <1>1, <1>2, SumNat
<1>5. SumFunctionOnSet(f, D) <= SumFunctionOnSet(g, D)
  <2>1. /\ \A i \in D : f[i] \in Int
        /\ \A i \in D : g[i] \in Int
        /\ \A i \in D : f[i] <= g[i]
    BY <1>1
  <2> QED
    BY <1>2, <2>1, SumBelow
<1>6. from = to => SumFunctionOnSet(f, D) = 0
  <2>1. ASSUME from = to PROVE SumFunctionOnSet(f, D) = 0
    <3>1. \A i \in D : f[i] = 0
      BY <1>1, <2>1
    <3> QED
      BY <1>2, <3>1, SumZero
  <2> QED
    BY <2>1
<1> QED
  BY <1>3, <1>4, <1>5, <1>6

\* What every schedule has to keep when it is replaced at time t.
KeepsBegun(old, new, t) ==
    \A s \in Slots(old) : s[1] < t => Count(old, s) <= Count(new, s)

LEMMA ScheduledKept ==
    ASSUME NEW old, NEW new, OrderedSchedule(old), OrderedSchedule(new),
           NEW from \in Nat, NEW t \in Nat, from <= t, KeepsBegun(old, new, t)
    PROVE  ScheduledBetween(old, from, t) <= ScheduledBetween(new, from, t)
<1> DEFINE P == DOMAIN old
           Q == DOMAIN new
           S == {old[i] : i \in P} \cup {new[j] : j \in Q}
           h == [s \in S |-> Distributed(s, from, t)]
           f == DistributedIn(old, from, t)
           g == DistributedIn(new, from, t)
<1>1. IsFiniteSet(P) /\ IsFiniteSet(Q) /\ ScheduleTyped(old) /\ ScheduleTyped(new)
  BY DEF OrderedSchedule, ScheduleTyped
<1>2. \A s \in S : SlotTyped(s) /\ s[1] < s[2]
  BY DEF OrderedSchedule, ScheduleTyped
<1>3. ASSUME NEW s \in S PROVE h[s] \in Nat /\ (h[s] # 0 => s[1] < t)
  <2>1. t <= t /\ h[s] = Distributed(s, from, t)
    OBVIOUS
  <2>2. SlotTyped(s) /\ s[1] < s[2]
    BY <1>2
  <2> HIDE DEF S, h
  <2> QED
    BY <2>1, <2>2, DistributedGrows
<1>4. /\ \A i \in P : old[i] \in S
      /\ \A j \in Q : new[j] \in S
      /\ \A s : s \notin S => {i \in P : old[i] = s} = {} /\ {j \in Q : new[j] = s} = {}
  OBVIOUS
<1>5. ASSUME NEW s, h[s] # 0
      PROVE  Cardinality({i \in P : old[i] = s}) <= Cardinality({j \in Q : new[j] = s})
  <2>1. /\ Count(old, s) = Cardinality({i \in P : old[i] = s})
        /\ Count(new, s) = Cardinality({j \in Q : new[j] = s})
    BY DEF Count
  <2>2. /\ Count(old, s) \in Nat /\ Count(new, s) \in Nat
        /\ s \notin Slots(old) => Count(old, s) = 0
    BY <1>1, CountFacts
  <2>3. CASE s \in Slots(old)
    <3>1. s \in S
      BY <2>3 DEF Slots
    <3>2. s[1] < t
      BY <1>3, <1>5, <3>1
    <3> QED
      BY <2>1, <2>3, <3>2 DEF KeepsBegun
  <2>4. CASE s \notin Slots(old)
    <3>1. Count(old, s) <= Count(new, s)
      BY <2>2, <2>4
    <3> QED
      BY <2>1, <3>1
  <2> QED
    BY <2>3, <2>4
<1>6. /\ \A i \in P : f[i] = h[old[i]]
      /\ \A j \in Q : g[j] = h[new[j]]
  BY <1>4 DEF DistributedIn
<1>7. /\ ScheduledBetween(old, from, t) = SumFunctionOnSet(f, P)
      /\ ScheduledBetween(new, from, t) = SumFunctionOnSet(g, Q)
  BY ScheduledIsSum
<1> HIDE DEF P, Q, S, h, f, g
<1>8. /\ \A i \in P : h[old[i]] \in Nat
      /\ \A j \in Q : h[new[j]] \in Nat
  BY <1>3, <1>4
<1>9. Weighs(f, P, old, h) /\ Weighs(g, Q, new, h)
  BY <1>6, <1>8 DEF Weighs
<1>10. NoMoreOften(P, old, Q, new, h)
  BY <1>5 DEF NoMoreOften
<1>11. SumFunctionOnSet(f, P) <= SumFunctionOnSet(g, Q)
  BY <1>1, <1>8, <1>9, <1>10, SumByMoreCounts
<1> QED
  BY <1>7, <1>11

StateType == [last_distributed : Nat, total_bond_amount : Nat, global_reward_index : Nat]
IndexOf(schedule, st, t) == compute_reward(schedule, st, t).global_reward_index

\* A staker's pending reward when the index is g.
EarnedBy(g, info) ==
    info.pending_reward + DecMul(g, info.bond_amount) - DecMul(info.reward_index, info.bond_amount)

LEMMA IndexValue ==
    ASSUME NEW schedule, OrderedSchedule(schedule), NEW st \in StateType, NEW t \in Nat,
           st.last_distributed <= t
    PROVE  /\ ScheduledBetween(schedule, st.last_distributed, t) \in Nat
           /\ st.total_bond_amount = 0 => IndexOf(schedule, st, t) = st.global_reward_index
           /\ st.total_bond_amount # 0 => IndexOf(schedule, st, t) = st.global_reward_index
                + from_ratio(ScheduledBetween(schedule, st.last_distributed, t),
                             st.total_bond_amount)
           /\ IndexOf(schedule, st, t) \in Nat
<1> DEFINE last == st.last_distributed
           total == st.total_bond_amount
           index == st.global_reward_index
           d == ScheduledBetween(schedule, last, t)
           n == index + from_ratio(d, total)
<1>1. last \in Nat /\ total \in Nat /\ index \in Nat /\ last <= t /\ t <= t
  BY DEF StateType
<1>2. d \in Nat
  <2> HIDE DEF last
  <2> QED
    BY <1>1, ScheduledGrows
<1>3. CASE total = 0
  <2>1. compute_reward(schedule, st, t) = [st EXCEPT !.last_distributed = t]
    BY <1>3 DEF compute_reward
  <2>2. compute_reward(schedule, st, t).global_reward_index = index
    BY <2>1 DEF StateType
  <2> QED
    BY <1>1, <1>2, <1>3, <2>2 DEF IndexOf
<1>4. CASE total # 0
  <2>1. compute_reward(schedule, st, t)
          = [st EXCEPT !.last_distributed = t, !.global_reward_index = n]
    BY <1>4 DEF compute_reward, StateType
  <2> HIDE DEF n
  <2>2. compute_reward(schedule, st, t).global_reward_index = n
    BY <2>1 DEF StateType
  <2>3. from_ratio(d, total) \in Nat
    <3> HIDE DEF d, total
    <3> QED
      BY <1>1, <1>2, <1>4, RatioBounds
  <2>4. n \in Nat
    BY <1>1, <2>3 DEF n
  <2> QED
    BY <1>2, <1>4, <2>2, <2>4 DEF IndexOf, n
<1> QED
  BY <1>3, <1>4

LEMMA IndexAtOnce ==
    ASSUME NEW schedule, OrderedSchedule(schedule), NEW st \in StateType
    PROVE  IndexOf(schedule, st, st.last_distributed) = st.global_reward_index
<1> DEFINE last == st.last_distributed
           total == st.total_bond_amount
           index == st.global_reward_index
           d == ScheduledBetween(schedule, last, last)
<1>1. last \in Nat /\ total \in Nat /\ index \in Nat /\ last <= last /\ last = last
  BY DEF StateType
<1>2. d = 0
  <2> HIDE DEF last
  <2> QED
    BY <1>1, ScheduledGrows
<1>3. /\ total = 0 => IndexOf(schedule, st, last) = index
      /\ total # 0 => IndexOf(schedule, st, last) = index + from_ratio(d, total)
  BY <1>1, IndexValue
<1>4. total # 0 => from_ratio(0, total) = 0
  <2> HIDE DEF total
  <2>1. ASSUME total # 0 PROVE from_ratio(0, total) = 0
    <3>1. 0 \in Nat /\ total \in Nat \ {0}
      BY <1>1, <2>1
    <3>2. from_ratio(0, total) \in Nat /\ from_ratio(0, total) * total <= 0 * One
      BY <3>1, RatioBounds
    <3> DEFINE x == from_ratio(0, total)
    <3>3. x \in Nat /\ x * total <= 0
      BY <3>2, StakingAssumption
    <3> HIDE DEF x
    <3>4. x = 0
      <4>1. SUFFICES ASSUME x >= 1 PROVE FALSE
        BY <3>3
      <4>2. 1 * total <= x * total
        BY <3>1, <3>3, <4>1, MulMono
      <4> QED
        BY <3>1, <3>3, <4>2
    <3> QED
      BY <3>4 DEF x
  <2> QED
    BY <2>1
<1> HIDE DEF d, total, index, last
<1> QED
  BY <1>1, <1>2, <1>3, <1>4 DEF index, last

LEMMA IndexGrows ==
    ASSUME NEW old, NEW new, OrderedSchedule(old), OrderedSchedule(new), NEW st \in StateType,
           NEW t \in Nat, NEW t1 \in Nat, st.last_distributed <= t, t <= t1,
           ScheduledBetween(old, st.last_distributed, t)
             <= ScheduledBetween(new, st.last_distributed, t1)
    PROVE  IndexOf(old, st, t) <= IndexOf(new, st, t1)
<1> DEFINE last == st.last_distributed
           total == st.total_bond_amount
           index == st.global_reward_index
           a == ScheduledBetween(old, last, t)
           b == ScheduledBetween(new, last, t1)
           x == IndexOf(old, st, t)
           y == IndexOf(new, st, t1)
<1>1. last \in Nat /\ total \in Nat /\ index \in Nat /\ last <= t1
  BY DEF StateType
<1>2. /\ a \in Nat /\ x \in Nat
      /\ total = 0 => x = index
      /\ total # 0 => x = index + from_ratio(a, total)
  BY <1>1, IndexValue
<1>3. /\ b \in Nat /\ y \in Nat
      /\ total = 0 => y = index
      /\ total # 0 => y = index + from_ratio(b, total)
  BY <1>1, IndexValue
<1>4. a <= b
  OBVIOUS
<1> HIDE DEF total, index, a, b, x, y
<1>5. CASE total = 0
  BY <1>2, <1>3, <1>5 DEF x, y
<1>6. CASE total # 0
  <2>1. /\ from_ratio(a, total) \in Nat /\ from_ratio(b, total) \in Nat
        /\ from_ratio(a, total) <= from_ratio(b, total)
    BY <1>1, <1>2, <1>3, <1>4, <1>6, RatioBounds, RatioGrows
  <2> DEFINE p == from_ratio(a, total)
             q == from_ratio(b, total)
  <2> HIDE DEF p, q
  <2>2. p \in Nat /\ q \in Nat /\ p <= q /\ x = index + p /\ y = index + q
    BY <1>2, <1>3, <1>6, <2>1 DEF p, q
  <2> QED
    BY <1>1, <2>2 DEF x, y
<1> QED
  BY <1>5, <1>6

LEMMA EarnedValue ==
    ASSUME NEW st, NEW info \in StakerInfo
    PROVE  compute_staker_reward(st, info).pending_reward = EarnedBy(st.global_reward_index, info)
<1> DEFINE g == st.global_reward_index
           x == DecMul(g, info.bond_amount)
           y == DecMul(info.reward_index, info.bond_amount)
           n == EarnedBy(g, info)
<1>1. compute_staker_reward(st, info)
        = [info EXCEPT !.reward_index = g, !.pending_reward = n]
  BY DEF compute_staker_reward, EarnedBy, StakerInfo
<1> HIDE DEF n, g
<1> QED
  BY <1>1 DEF StakerInfo, n, g

LEMMA EarnedByGrows ==
    ASSUME NEW g \in Nat, NEW h \in Nat, g <= h, NEW info \in StakerInfo
    PROVE  /\ EarnedBy(g, info) \in Int /\ EarnedBy(h, info) \in Int
           /\ EarnedBy(g, info) <= EarnedBy(h, info)
<1> DEFINE p == info.pending_reward
           b == info.bond_amount
           x == DecMul(g, b)
           y == DecMul(h, b)
           z == DecMul(info.reward_index, b)
<1>1. p \in Nat /\ b \in Nat /\ info.reward_index \in Nat
  BY DEF StakerInfo
<1>2. x \in Nat /\ y \in Nat /\ z \in Nat /\ x <= y
  <2> HIDE DEF b, p
  <2> QED
    BY <1>1, DecMulBounds, DecMulGrows
<1>3. EarnedBy(g, info) = p + x - z /\ EarnedBy(h, info) = p + y - z
  BY DEF EarnedBy
<1> HIDE DEF p, x, y, z
<1> QED
  BY <1>1, <1>2, <1>3

-----------------------------------------------------------------------------
(* No step takes anything away.                                            *)

\* update_config does not look at the slots it stores; as long as they begin
\* before they end, none ever stops the computation of rewards.
Ordered == config.distribution_schedule \in Seq(Slot)
UpdatesOrdered == NewSchedules \subseteq Seq(Slot)

EarnedKept == \A u \in Stakers : Earned(u)' + paid'[u] >= Earned(u) + paid[u]

IndexHere == IndexOf(config.distribution_schedule, state, now)

LEMMA EarnedHere ==
    ASSUME StakingInv, Ordered
    PROVE  /\ state \in StateType /\ OrderedSchedule(config.distribution_schedule)
           /\ now \in Nat /\ state.last_distributed <= now
           /\ IndexHere \in Nat /\ IndexHere = StateNow.global_reward_index
           /\ RewardComputable(state, now)
           /\ \A u \in Stakers : reward[u] \in StakerInfo /\ paid[u] \in Nat
           /\ \A u \in Stakers : Earned(u) = EarnedBy(IndexHere, reward[u])
           /\ \A u \in Stakers : Earned(u) \in Int
<1>1. /\ state \in StateType /\ now \in Nat /\ state.last_distributed <= now
      /\ \A u \in Stakers : reward[u] \in StakerInfo /\ paid[u] \in Nat
  BY DEF StakingInv, StakingTypeOK, StateType
<1>2. OrderedSchedule(config.distribution_schedule)
  BY SlotsAreOrdered DEF Ordered
<1>3. IndexHere = StateNow.global_reward_index
  BY DEF IndexHere, IndexOf, StateNow
<1>4. RewardComputable(state, now)
  BY <1>2 DEF RewardComputable, SlotsUsable, OrderedSchedule
<1>5. ASSUME NEW u \in Stakers PROVE Earned(u) = EarnedBy(IndexHere, reward[u])
  <2>1. reward[u] \in StakerInfo
    BY <1>1
  <2>2. compute_staker_reward(StateNow, reward[u]).pending_reward
          = EarnedBy(StateNow.global_reward_index, reward[u])
    BY <2>1, EarnedValue
  <2> QED
    BY <1>3, <2>2 DEF Earned, InfoNow
<1>6. IndexHere \in Nat
  BY <1>1, <1>2, IndexValue DEF IndexHere
<1>7. ASSUME NEW u \in Stakers PROVE Earned(u) \in Int
  <2>1. IndexHere <= IndexHere
    BY <1>6
  <2> QED
    BY <1>1, <1>5, <1>6, <2>1, EarnedByGrows
<1> QED
  BY <1>1, <1>2, <1>3, <1>4, <1>5, <1>6, <1>7

\* The same after a step.
LEMMA EarnedNext ==
    ASSUME StakingInv', Ordered'
    PROVE  /\ state' \in StateType /\ OrderedSchedule(config'.distribution_schedule)
           /\ now' \in Nat
           /\ IndexHere' \in Nat
           /\ \A u \in Stakers : reward'[u] \in StakerInfo /\ paid'[u] \in Nat
           /\ \A u \in Stakers : Earned(u)' = EarnedBy(IndexHere', reward'[u])
           /\ \A u \in Stakers : Earned(u)' \in Int
<1>1. /\ state' \in StateType /\ now' \in Nat /\ state'.last_distributed <= now'
      /\ \A u \in Stakers : reward'[u] \in StakerInfo /\ paid'[u] \in Nat
  BY DEF StakingInv, StakingTypeOK, StateType
<1>2. OrderedSchedule(config'.distribution_schedule)
  BY SlotsAreOrdered DEF Ordered
<1>3. IndexHere' = StateNow'.global_reward_index
  BY DEF IndexHere, IndexOf, StateNow
<1>4. IndexHere' \in Nat
  BY <1>1, <1>2, IndexValue DEF IndexHere
<1>5. ASSUME NEW u \in Stakers PROVE Earned(u)' = EarnedBy(IndexHere', reward'[u])
  <2>1. reward'[u] \in StakerInfo
    BY <1>1
  <2>2. compute_staker_reward(StateNow', reward'[u]).pending_reward
          = EarnedBy(StateNow'.global_reward_index, reward'[u])
    BY <2>1, EarnedValue
  <2> QED
    BY <1>3, <2>2 DEF Earned, InfoNow
<1>6. ASSUME NEW u \in Stakers PROVE Earned(u)' \in Int
  <2> DEFINE g == IndexHere'
             info == reward'[u]
  <2>1. g \in Nat /\ g <= g /\ info \in StakerInfo
    BY <1>1, <1>4
  <2> HIDE DEF g, info
  <2>2. EarnedBy(g, info) \in Int
    BY <2>1, EarnedByGrows
  <2> QED
    BY <1>5, <2>2 DEF g, info
<1> QED
  BY <1>1, <1>2, <1>4, <1>5, <1>6

\* Where no entry changes, it is enough that the index does not fall.
LEMMA EntriesKeep ==
    ASSUME StakingInv, Ordered, StakingInv', Ordered', UNCHANGED <<reward, paid>>,
           IndexHere <= IndexHere'
    PROVE  EarnedKept
<1> DEFINE g == IndexHere
           h == IndexHere'
<1>1. SUFFICES ASSUME NEW u \in Stakers PROVE Earned(u)' + paid'[u] >= Earned(u) + paid[u]
  BY DEF EarnedKept
<1>2. g \in Nat /\ Earned(u) = EarnedBy(g, reward[u]) /\ reward[u] \in StakerInfo /\ paid[u] \in Nat
  BY EarnedHere
<1>3. h \in Nat /\ Earned(u)' = EarnedBy(h, reward[u])
  BY EarnedNext
<1>4. g <= h
  OBVIOUS
<1> HIDE DEF g, h
<1>5. /\ EarnedBy(g, reward[u]) \in Int /\ EarnedBy(h, reward[u]) \in Int
      /\ EarnedBy(g, reward[u]) <= EarnedBy(h, reward[u])
  BY <1>2, <1>3, <1>4, EarnedByGrows
<1> DEFINE x == EarnedBy(g, reward[u])
           y == EarnedBy(h, reward[u])
           p == paid[u]
<1>6. x \in Int /\ y \in Int /\ x <= y /\ p \in Nat
  BY <1>2, <1>5
<1> HIDE DEF x, y, p
<1>7. y + p >= x + p
  BY <1>6
<1> QED
  BY <1>2, <1>3, <1>7 DEF x, y, p

\* Rewards that were brought up to date at this time are up to date.
LEMMA IndexSettled ==
    ASSUME StakingInv, Ordered, StakingInv', Ordered', now' = now,
           state'.last_distributed = now, state'.global_reward_index = StateNow.global_reward_index
    PROVE  IndexHere' = IndexHere
<1>1. state' \in StateType /\ OrderedSchedule(config'.distribution_schedule)
  BY EarnedNext
<1>2. IndexOf(config'.distribution_schedule, state', state'.last_distributed)
        = state'.global_reward_index
  BY <1>1, IndexAtOnce
<1>3. IndexHere = StateNow.global_reward_index
  BY EarnedHere
<1> QED
  BY <1>2, <1>3 DEF IndexHere

\* A message of staker u settles u's entry and what it pays is counted.
LEMMA MessageEarns ==
    ASSUME StakingInv, Ordered, StakingInv', UNCHANGED <<config, now>>,
           state'.last_distributed = now, state'.global_reward_index = StateNow.global_reward_index,
           NEW u \in Stakers, NEW info, NEW pay \in Nat,
           reward' = [reward EXCEPT ![u] = info], paid' = [paid EXCEPT ![u] = paid[u] + pay],
           EarnedBy(StateNow.global_reward_index, info) + pay = InfoNow(u).pending_reward
    PROVE  EarnedKept
<1>0. Ordered'
  BY DEF Ordered
<1>1. IndexHere' = IndexHere
  BY <1>0, IndexSettled
<1>2. IndexHere = StateNow.global_reward_index
  BY EarnedHere
<1>3. reward \in [Stakers -> StakerInfo] /\ paid \in [Stakers -> Nat]
  BY DEF StakingInv, StakingTypeOK
<1>4. SUFFICES ASSUME NEW v \in Stakers PROVE Earned(v)' + paid'[v] >= Earned(v) + paid[v]
  BY DEF EarnedKept
<1>5. Earned(v) = EarnedBy(IndexHere, reward[v]) /\ Earned(v) \in Int /\ paid[v] \in Nat
  BY EarnedHere
<1>6. Earned(v)' = EarnedBy(IndexHere, reward'[v]) /\ Earned(v)' \in Int
  BY <1>0, <1>1, EarnedNext
<1>7. CASE v # u
  <2>1. reward'[v] = reward[v] /\ paid'[v] = paid[v]
    BY <1>3, <1>7
  <2> DEFINE x == Earned(v)
             y == Earned(v)'
             p == paid[v]
  <2>2. x = y /\ x \in Int /\ p \in Nat
    BY <1>5, <1>6, <2>1
  <2> HIDE DEF x, y, p
  <2>3. y + p >= x + p
    BY <2>2
  <2> QED
    BY <2>1, <2>3 DEF x, y, p
<1>8. CASE v = u
  <2>1. reward'[v] = info /\ paid'[v] = paid[v] + pay
    BY <1>3, <1>8
  <2>2. Earned(v) = InfoNow(u).pending_reward
    BY <1>8 DEF Earned
  <2> DEFINE x == Earned(v)
             y == Earned(v)'
             p == paid[v]
  <2>3. y + pay = x /\ y \in Int /\ x \in Int /\ p \in Nat
    BY <1>2, <1>5, <1>6, <2>1, <2>2
  <2> HIDE DEF x, y, p
  <2>4. y + (p + pay) >= x + p
    BY <2>3
  <2> QED
    BY <2>1, <2>4 DEF x, y, p
<1> QED
  BY <1>7, <1>8

\* Once settled, changing the bond changes nothing that was earned.
LEMMA SettledEntry ==
    ASSUME NEW info \in StakerInfo, NEW g \in Nat, info.reward_index = g
    PROVE  EarnedBy(g, info) = info.pending_reward /\ EarnedBy(g, Stored(info)) = info.pending_reward
<1> DEFINE p == info.pending_reward
           x == DecMul(g, info.bond_amount)
           k == Stored(info).pending_reward
           y == DecMul(Stored(info).reward_index, Stored(info).bond_amount)
<1>1. p \in Nat /\ x \in Nat
  BY DecMulBounds DEF StakerInfo
<1>2. EarnedBy(g, info) = p + x - x
  BY DEF EarnedBy
<1>3. 0 \in Nat
  OBVIOUS
<1>4. /\ Stored(info) \in StakerInfo /\ Stored(info).bond_amount = info.bond_amount
      /\ k + 0 - y = p + 0 - x
  BY <1>3, StoredSettles
<1>5. k \in Nat /\ y \in Nat
  BY <1>4, DecMulBounds DEF StakerInfo
<1>6. EarnedBy(g, Stored(info)) = k + x - y
  BY <1>4 DEF EarnedBy
<1> HIDE DEF p, x, k, y
<1> QED
  BY <1>1, <1>2, <1>4, <1>5, <1>6 DEF p

LEMMA StateFields ==
    ASSUME NEW st \in StateType, NEW n
    PROVE  /\ [st EXCEPT !.total_bond_amount = n].last_distributed = st.last_distributed
           /\ [st EXCEPT !.total_bond_amount = n].global_reward_index = st.global_reward_index
BY DEF StateType

LEMMA BondEarns ==
    ASSUME StakingInv, Ordered, StakingInv', NEW u \in Stakers, NEW amount \in BondAmounts,
           bond(u, amount) \/ unbond(u, amount)
    PROVE  EarnedKept
<1> DEFINE g == StateNow.global_reward_index
<1>1. /\ UNCHANGED <<config, now>> /\ UNCHANGED paid
      /\ \/ /\ state' = [StateNow EXCEPT !.total_bond_amount = @ + amount]
            /\ reward' = [reward EXCEPT ![u] = [InfoNow(u) EXCEPT !.bond_amount = @ + amount]]
         \/ /\ reward[u].bond_amount >= amount
            /\ state' = [StateNow EXCEPT !.total_bond_amount = @ - amount]
            /\ reward' = [reward EXCEPT ![u] = Stored([InfoNow(u) EXCEPT !.bond_amount = @ - amount])]
  BY Zenon DEF bond, unbond
<1>2. amount \in Nat /\ RewardComputable(state, now)
  BY EarnedHere, StakingAssumption
<1>3. /\ InfoNow(u) \in StakerInfo /\ InfoNow(u).reward_index = g
      /\ InfoNow(u).bond_amount = reward[u].bond_amount
  BY <1>2, SettledNow
<1>4. StateNow \in StateType /\ g \in Nat /\ StateNow.last_distributed = now
  BY <1>2, IndexNow DEF StateType
<1>5. state'.last_distributed = now /\ state'.global_reward_index = g
  <2>1. CASE state' = [StateNow EXCEPT !.total_bond_amount = @ + amount]
    <3>1. state' = [StateNow EXCEPT !.total_bond_amount = StateNow.total_bond_amount + amount]
      BY <1>4, <2>1 DEF StateType
    <3> QED
      BY <1>4, <3>1, StateFields
  <2>2. CASE state' = [StateNow EXCEPT !.total_bond_amount = @ - amount]
    <3>1. state' = [StateNow EXCEPT !.total_bond_amount = StateNow.total_bond_amount - amount]
      BY <1>4, <2>2 DEF StateType
    <3> QED
      BY <1>4, <3>1, StateFields
  <2> QED
    BY <1>1, <2>1, <2>2
<1>6. PICK n \in Nat : \/ reward' = [reward EXCEPT ![u] = [InfoNow(u) EXCEPT !.bond_amount = n]]
                       \/ reward' = [reward EXCEPT ![u] = Stored([InfoNow(u) EXCEPT !.bond_amount = n])]
  <2> DEFINE b == InfoNow(u).bond_amount
  <2>1. b \in Nat
    BY <1>3 DEF StakerInfo
  <2>2. CASE reward' = [reward EXCEPT ![u] = [InfoNow(u) EXCEPT !.bond_amount = @ + amount]]
    <3>1. [InfoNow(u) EXCEPT !.bond_amount = @ + amount] = [InfoNow(u) EXCEPT !.bond_amount = b + amount]
      BY <1>3 DEF StakerInfo
    <3>2. b + amount \in Nat
      BY <1>2, <2>1
    <3> QED
      BY <2>2, <3>1, <3>2
  <2>3. CASE /\ reward[u].bond_amount >= amount
             /\ reward' = [reward EXCEPT ![u] = Stored([InfoNow(u) EXCEPT !.bond_amount = @ - amount])]
    <3>1. [InfoNow(u) EXCEPT !.bond_amount = @ - amount] = [InfoNow(u) EXCEPT !.bond_amount = b - amount]
      BY <1>3 DEF StakerInfo
    <3>2. b - amount \in Nat
      BY <1>2, <1>3, <2>1, <2>3
    <3> QED
      BY <2>3, <3>1, <3>2
  <2> QED
    BY <1>1, <2>2, <2>3
<1> DEFINE info == [InfoNow(u) EXCEPT !.bond_amount = n]
<1>7. /\ info \in StakerInfo /\ info.reward_index = g
      /\ info.pending_reward = InfoNow(u).pending_reward
  BY <1>3, <1>6 DEF StakerInfo
<1>8. reward' = [reward EXCEPT ![u] = info] \/ reward' = [reward EXCEPT ![u] = Stored(info)]
  BY <1>6
<1>9. InfoNow(u).pending_reward \in Nat
  BY <1>3 DEF StakerInfo
<1> HIDE DEF info, g
<1>10. /\ EarnedBy(g, info) = InfoNow(u).pending_reward
       /\ EarnedBy(g, Stored(info)) = InfoNow(u).pending_reward
  BY <1>4, <1>7, SettledEntry
<1>11. paid' = [paid EXCEPT ![u] = paid[u] + 0] /\ 0 \in Nat
  <2>1. paid \in [Stakers -> Nat]
    BY DEF StakingInv, StakingTypeOK
  <2>2. paid[u] + 0 = paid[u]
    BY <2>1
  <2> QED
    BY <1>1, <2>1, <2>2
<1>12. PICK new : /\ reward' = [reward EXCEPT ![u] = new]
                  /\ EarnedBy(g, new) = InfoNow(u).pending_reward
  BY <1>8, <1>10
<1>13. EarnedBy(g, new) + 0 = InfoNow(u).pending_reward
  BY <1>9, <1>12
<1> QED
  BY <1>1, <1>5, <1>11, <1>12, <1>13, MessageEarns DEF g

LEMMA WithdrawEarns ==
    ASSUME StakingInv, Ordered, StakingInv', NEW u \in Stakers, withdraw(u)
    PROVE  EarnedKept
<1> DEFINE g == StateNow.global_reward_index
           amount == InfoNow(u).pending_reward
           info == [InfoNow(u) EXCEPT !.pending_reward = 0]
<1>1. /\ UNCHANGED <<config, now>>
      /\ state' = StateNow
      /\ reward' = [reward EXCEPT ![u] = Stored(info)]
      /\ paid' = [paid EXCEPT ![u] = @ + amount]
  BY Zenon DEF withdraw
<1>2. RewardComputable(state, now)
  BY EarnedHere
<1>3. InfoNow(u) \in StakerInfo /\ InfoNow(u).reward_index = g
  BY <1>2, SettledNow
<1>4. g \in Nat /\ StateNow.last_distributed = now
  BY <1>2, IndexNow
<1>5. info \in StakerInfo /\ info.reward_index = g /\ info.pending_reward = 0
  BY <1>3 DEF StakerInfo
<1>6. amount \in Nat
  BY <1>3 DEF StakerInfo
<1>7. paid' = [paid EXCEPT ![u] = paid[u] + amount]
  BY <1>1 DEF StakingInv, StakingTypeOK
<1> HIDE DEF info, g, amount
<1>8. EarnedBy(g, Stored(info)) + amount = InfoNow(u).pending_reward
  <2>1. EarnedBy(g, Stored(info)) = 0
    BY <1>4, <1>5, SettledEntry
  <2> QED
    BY <1>6, <2>1 DEF amount
<1> QED
  BY <1>1, <1>4, <1>6, <1>7, <1>8, MessageEarns DEF g

LEMMA UpdateConfigEarns ==
    ASSUME StakingInv, Ordered, StakingInv', UpdatesOrdered, NEW sender \in Owners,
           NEW owner \in Owners, NEW schedule \in NewSchedules \cup {None},
           update_config(sender, owner, schedule),
           schedule # None => KeepsBegun(config.distribution_schedule, schedule, now)
    PROVE  EarnedKept /\ Ordered'
<1> DEFINE old == config.distribution_schedule
           new == IF schedule = None THEN old ELSE schedule
           last == state.last_distributed
<1>1. /\ config' = [owner |-> owner, distribution_schedule |-> new]
      /\ UNCHANGED <<state, now>> /\ UNCHANGED <<reward, paid>>
  BY Zenon DEF update_config
<1>2. new \in Seq(Slot) /\ config'.distribution_schedule = new
  BY <1>1 DEF Ordered, UpdatesOrdered
<1>3. Ordered'
  BY <1>2 DEF Ordered
<1>4. /\ OrderedSchedule(old) /\ OrderedSchedule(new)
      /\ state \in StateType /\ now \in Nat /\ last \in Nat /\ last <= now /\ now <= now
  BY <1>2, EarnedHere, SlotsAreOrdered DEF StateType
<1>5. KeepsBegun(old, new, now)
  <2>1. CASE schedule = None
    <3>1. \A s : Count(old, s) \in Nat
      BY <1>4, CountFacts DEF OrderedSchedule
    <3>2. \A s : Count(old, s) <= Count(old, s)
      BY <3>1
    <3> QED
      BY <2>1, <3>2 DEF KeepsBegun
  <2>2. CASE schedule # None
    BY <2>2
  <2> QED
    BY <2>1, <2>2
<1> HIDE DEF old, new
<1>6. ScheduledBetween(old, last, now) <= ScheduledBetween(new, last, now)
  <2> HIDE DEF last
  <2> QED
    BY <1>4, <1>5, ScheduledKept
<1>7. IndexOf(old, state, now) <= IndexOf(new, state, now)
  BY <1>4, <1>6, IndexGrows
<1>8. IndexHere <= IndexHere'
  BY <1>1, <1>2, <1>7 DEF IndexHere, old
<1> QED
  BY <1>1, <1>3, <1>8, EntriesKeep

LEMMA TickEarns ==
    ASSUME StakingInv, Ordered, StakingInv', Tick
    PROVE  EarnedKept /\ Ordered'
<1> DEFINE schedule == config.distribution_schedule
           last == state.last_distributed
           next == now + 1
<1>1. now' = next /\ UNCHANGED <<config, state>> /\ UNCHANGED <<reward, paid>>
  BY Zenon DEF Tick, storage
<1>2. Ordered'
  BY <1>1 DEF Ordered
<1>3. /\ OrderedSchedule(schedule)
      /\ state \in StateType /\ now \in Nat /\ last \in Nat /\ last <= now
      /\ next \in Nat /\ now <= next
  BY EarnedHere DEF StateType
<1> HIDE DEF next
<1>4. ScheduledBetween(schedule, last, now) <= ScheduledBetween(schedule, last, next)
  <2> HIDE DEF last, schedule
  <2> QED
    BY <1>3, ScheduledGrows
<1> HIDE DEF schedule
<1>5. IndexOf(schedule, state, now) <= IndexOf(schedule, state, next)
  BY <1>3, <1>4, IndexGrows
<1>6. IndexHere <= IndexHere'
  BY <1>1, <1>5 DEF IndexHere, schedule
<1> QED
  BY <1>1, <1>2, <1>6, EntriesKeep

\* Every slot that is cut ends now, after its beginning.
LEMMA StoppedOrdered ==
    ASSUME StakingInv, Ordered
    PROVE  Stopped \in Seq(Slot)
<1> DEFINE schedule == config.distribution_schedule
           B == BegunAt(schedule, now)
           K == 1..Cardinality(B)
<1>1. StakingTypeOK /\ now \in Nat
  BY InvFacts
<1>2. schedule \in Seq(Slot)
  BY DEF Ordered
<1>3. /\ BegunSlots \in Seq(Nat \X Nat \X Nat) /\ DOMAIN BegunSlots = K
      /\ \A n \in K : BegunSlots[n][1] < now
  BY <1>1, SlotsInOrder, Zenon
<1>4. ASSUME NEW n \in K PROVE BegunSlots[n] \in Slot
  <2>1. K = 1..Cardinality(B) /\ n \in K
    OBVIOUS
  <2>2. \E i \in B : RankOf(B, i) = n
    <3>1. B \in SUBSET Int /\ IsFiniteSet(B)
      <4>1. DOMAIN schedule = 1..Len(schedule) /\ Len(schedule) \in Nat
        BY <1>2
      <4>2. B \in SUBSET (DOMAIN schedule) /\ DOMAIN schedule \subseteq Int
        BY <4>1 DEF BegunAt
      <4>3. IsFiniteSet(DOMAIN schedule)
        BY <1>1, StateTyped DEF ScheduleTyped
      <4> QED
        BY <4>2, <4>3, FS_Subset
    <3> HIDE DEF B
    <3> QED
      BY <2>1, <3>1, Ranking
  <2>3. PICK i \in B : BegunSlots[n] = schedule[i]
    BY <1>1, <2>2, SlotsInOrder
  <2>4. i \in DOMAIN schedule
    BY DEF BegunAt
  <2> QED
    BY <1>2, <2>3, <2>4
<1>5. ASSUME NEW s \in Slot, s[1] < now PROVE Truncated(s, now) \in Slot
  <2>1. /\ s \in Nat \X Nat \X Nat /\ s[1] < s[2]
        /\ s[1] \in Nat /\ s[2] \in Nat /\ s[3] \in Nat
    BY DEF Slot
  <2>2. CASE s[2] < now
    BY <2>2 DEF Truncated
  <2>3. CASE ~(s[2] < now)
    <3> DEFINE a == DecMul(RateOf(s), now - s[1])
    <3>1. RateOf(s) \in Nat /\ now - s[1] \in Nat
      BY <1>1, <1>5, <2>1, RateBounds DEF SlotTyped
    <3>2. a \in Nat
      BY <3>1, DecMulBounds
    <3>3. Truncated(s, now) = <<s[1], now, a>>
      BY <2>1, <2>3 DEF Truncated, RateOf
    <3> HIDE DEF a
    <3> QED
      BY <1>1, <1>5, <2>1, <3>2, <3>3 DEF Slot
  <2> QED
    BY <2>2, <2>3
<1>6. ASSUME NEW n \in K PROVE Truncated(BegunSlots[n], now) \in Slot
  BY <1>3, <1>4, <1>5
<1>7. Stopped = [n \in K |-> Truncated(BegunSlots[n], now)]
  BY <1>3 DEF Stopped
<1>8. Cardinality(B) \in Nat
  <2>1. DOMAIN BegunSlots = 1..Len(BegunSlots) /\ Len(BegunSlots) \in Nat
    BY <1>3
  <2>2. IsFiniteSet(B)
    <3>1. B \in SUBSET (DOMAIN schedule)
      BY DEF BegunAt
    <3>2. IsFiniteSet(DOMAIN schedule)
      BY <1>1, StateTyped DEF ScheduleTyped
    <3> QED
      BY <3>1, <3>2, FS_Subset
  <2> QED
    BY <2>2, FS_CardinalityType
<1> DEFINE m == Cardinality(B)
<1>9. Stopped \in [1..m -> Slot]
  BY <1>6, <1>7
<1> HIDE DEF m, K, B
<1>10. m \in Nat
  BY <1>8 DEF m
<1> QED
  BY <1>9, <1>10

LEMMA MigrateStakingEarns ==
    ASSUME StakingInv, Ordered, StakingInv', NEW sender \in Owners, migrate_staking(sender)
    PROVE  EarnedKept /\ Ordered'
<1>1. /\ config' = [config EXCEPT !.distribution_schedule = Stopped]
      /\ state' = StateNow /\ now' = now /\ UNCHANGED <<reward, paid>>
  BY Zenon DEF migrate_staking, Stopped
<1>2. config'.distribution_schedule = Stopped
  BY <1>1 DEF StakingInv, StakingTypeOK
<1>3. Ordered'
  BY <1>2, StoppedOrdered DEF Ordered
<1>4. StateNow.last_distributed = now
  BY EarnedHere, IndexNow
<1>5. IndexHere' = IndexHere /\ IndexHere \in Nat
  BY <1>1, <1>3, <1>4, IndexSettled, EarnedHere
<1>6. IndexHere <= IndexHere'
  BY <1>5
<1> QED
  BY <1>1, <1>3, <1>6, EntriesKeep

\* Before the upgrade nobody has anything to lose.
LEMMA MigrateEarns ==
    ASSUME StakingInv, Ordered, StakingInv', NEW owner \in Owners, NEW schedule \in InitSchedules,
           config.owner = None, migrate(owner, schedule)
    PROVE  EarnedKept /\ Ordered'
<1>1. /\ config' = [owner |-> owner, distribution_schedule |-> schedule]
      /\ UNCHANGED <<state, reward, now, paid>> /\ UNCHANGED <<reward, paid>>
  BY Zenon DEF migrate
<1>2. schedule \in Seq(Slot) /\ config'.distribution_schedule = schedule
  BY <1>1, StakingAssumption
<1>3. Ordered'
  BY <1>2 DEF Ordered
<1>4. state.total_bond_amount = 0 /\ state.global_reward_index = 0
  BY DEF StakingInv, Untouched
<1>5. /\ OrderedSchedule(config.distribution_schedule) /\ OrderedSchedule(schedule)
      /\ state \in StateType /\ now \in Nat /\ state.last_distributed <= now
  BY <1>2, EarnedHere, SlotsAreOrdered
<1>6. IndexOf(config.distribution_schedule, state, now) = 0 /\ IndexOf(schedule, state, now) = 0
  BY <1>4, <1>5, IndexValue
<1>7. IndexHere = 0 /\ IndexHere' = 0
  BY <1>1, <1>2, <1>6 DEF IndexHere
<1>8. IndexHere <= IndexHere'
  BY <1>7
<1> QED
  BY <1>1, <1>3, <1>8, EntriesKeep

\* A new schedule keeps the slots that have begun.  assert_new_schedules only
\* asks for those that had begun when rewards were last computed: a slot that
\* has begun since can be taken away, with what it gave so far.
BegunSlotsKept ==
    \A sender, owner \in Owners, schedule \in NewSchedules :
        schedule # None /\ update_config(sender, owner, schedule)
            => KeepsBegun(config.distribution_schedule, schedule, now)

\* EarnedNeverLost, for any stakers and any times: if update_config stores
\* slots that begin before they end and keeps those that have begun, no
\* staker's message, no update, no migrate_staking and no passing of time
\* takes anything from what a staker has earned.
THEOREM EarnedIsNeverLost ==
    ASSUME UpdatesOrdered
    PROVE  StakingSpec /\ [][BegunSlotsKept]_vars => EarnedNeverLost
<1>1. StakingInit => Ordered
  <2> SUFFICES ASSUME StakingInit PROVE Ordered
    OBVIOUS
  <2>1. config.distribution_schedule \in InitSchedules
    BY DEF StakingInit
  <2> QED
    BY <2>1, StakingAssumption DEF Ordered
<1>2. ASSUME StakingInv, StakingInv', Ordered, [StakingNext]_vars, [BegunSlotsKept]_vars
      PROVE  EarnedKept /\ Ordered'
  <2>1. CASE \E u \in Stakers, amount \in BondAmounts : bond(u, amount) \/ unbond(u, amount)
    <3>1. config' = config
      BY <2>1, Zenon DEF bond, unbond
    <3> QED
      BY <1>2, <2>1, <3>1, BondEarns DEF Ordered
  <2>2. CASE \E u \in Stakers : withdraw(u)
    <3>1. config' = config
      BY <2>2, Zenon DEF withdraw
    <3> QED
      BY <1>2, <2>2, <3>1, WithdrawEarns DEF Ordered
  <2>3. CASE UNCHANGED vars
    <3>1. /\ UNCHANGED <<config, state, now>> /\ UNCHANGED <<reward, paid>>
      BY <2>3, Zenon DEF vars, storage
    <3>2. Ordered' /\ IndexHere' = IndexHere /\ IndexHere \in Nat
      BY <1>2, <3>1, EarnedHere DEF Ordered, IndexHere
    <3>3. IndexHere <= IndexHere'
      BY <3>2
    <3> QED
      BY <1>2, <3>1, <3>2, <3>3, EntriesKeep
  <2>4. CASE (\E sender, owner \in Owners, schedule \in NewSchedules \cup {None} :
                  update_config(sender, owner, schedule)) /\ BegunSlotsKept
    <3>1. PICK sender \in Owners, owner \in Owners, schedule \in NewSchedules \cup {None} :
              update_config(sender, owner, schedule)
      BY <2>4
    <3>2. schedule # None => KeepsBegun(config.distribution_schedule, schedule, now)
      BY <2>4, <3>1 DEF BegunSlotsKept
    <3> QED
      BY <1>2, <3>1, <3>2, UpdateConfigEarns
  <2>5. CASE \E sender \in Owners : migrate_staking(sender)
    BY <1>2, <2>5, MigrateStakingEarns
  <2>6. CASE \E owner \in Owners, schedule \in InitSchedules :
                config.owner = None /\ migrate(owner, schedule)
    BY <1>2, <2>6, MigrateEarns
  <2>7. CASE Tick
    BY <1>2, <2>7, TickEarns
  <2> QED
    BY <1>2, <2>1, <2>2, <2>3, <2>4, <2>5, <2>6, <2>7, Zenon DEF StakingNext
<1>3. ASSUME StakingInv, StakingInv', Ordered, Ordered', [StakingNext]_vars, [BegunSlotsKept]_vars
      PROVE  [\A u \in Stakers : Earned(u)' + paid'[u] >= Earned(u) + paid[u]]_vars
  BY <1>2, <1>3, Zenon DEF EarnedKept
<1> QED
  BY <1>1, <1>2, <1>3, StakingInvariant, PTL DEF StakingSpec, EarnedNeverLost

=============================================================================
