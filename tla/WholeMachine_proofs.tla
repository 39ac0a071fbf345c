------------------------- MODULE WholeMachine_proofs ------------------------
(* The machine: what the loops of its devices and of the management        *)
(* thread compute, and with it what the display shows, what the SPI host   *)
(* exchanges, what the state file records and which lines a client has     *)
(* carried out.                                                            *)
EXTENDS WholeMachine, Board_proofs, FiniteSetTheorems, SequenceTheorems
-----------------------------------------------------------------------------
(* Induction over an interval, for a set instead of a predicate. *)

LEMMA IntervalInduction ==
  ASSUME NEW n \in Nat, NEW S, 0 \in S, \A i \in 0 .. n - 1 : i \in S => i + 1 \in S
  PROVE  0 .. n \subseteq S
<1> SUFFICES ASSUME ~(0 .. n \subseteq S) PROVE FALSE
  OBVIOUS
<1> DEFINE LessThan == {ss \in Nat \X Nat : ss[1] < ss[2]}
           Out == {i \in 0 .. n : i \notin S}
<1>1. IsWellFoundedOn(LessThan, Nat)
  <2>1. LessThan = OpToRel(<, Nat)
    BY DEF OpToRel
  <2> QED BY ONLY <2>1, NatLessThanWellFounded
<1>2. Out \subseteq Nat /\ Out # {}
  OBVIOUS
<1>3. PICK x \in Out : \A y \in Out : ~(<<y, x>> \in LessThan)
  <2> HIDE DEF LessThan, Out
  <2> QED BY <1>1, <1>2, WFMin
<1>4. x \in 0 .. n /\ x \notin S /\ x # 0
  OBVIOUS
<1>5. x - 1 \in 0 .. n - 1 /\ (x - 1) + 1 = x
  BY <1>4
<1>6. x - 1 \in Out
  BY <1>4, <1>5
<1>7. <<x - 1, x>> \in LessThan
  BY <1>4
<1> QED BY <1>3, <1>6, <1>7
Turned(n, s, first, step) ==
  s[0] = first /\ \A i \in 1 .. n : s[i] = step[<<i, s[i - 1]>>]

(* A loop that runs n times has a state after every turn: what turn i makes *)
(* of the state before it is step[<<i, state>>].                           *)
LEMMA LoopRuns ==
  ASSUME NEW n \in Nat, NEW State, NEW first \in State, NEW step \in [(1 .. n) \X State -> State]
  PROVE  \E s \in [0 .. n -> State] : Turned(n, s, first, step)
<1> DEFINE Runs(m, s) == s[0] = first /\ \A i \in 1 .. m : s[i] = step[<<i, s[i - 1]>>]
           Ran == {m \in 0 .. n : \E s \in [0 .. m -> State] : Runs(m, s)}
<1>1. 0 \in Ran
  <2> DEFINE s == [i \in 0 .. 0 |-> first]
  <2>1. s \in [0 .. 0 -> State] /\ s[0] = first
    OBVIOUS
  <2>2. Runs(0, s)
    BY <2>1
  <2>3. 0 \in 0 .. n
    OBVIOUS
  <2> HIDE DEF s, Runs
  <2> QED BY <2>1, <2>2, <2>3
<1>2. ASSUME NEW m \in 0 .. n - 1, m \in Ran PROVE m + 1 \in Ran
  <2>1. PICK s \in [0 .. m -> State] : Runs(m, s)
    BY <1>2
  <2> DEFINE t == [i \in 0 .. m + 1 |-> IF i = m + 1 THEN step[<<m + 1, s[m]>>] ELSE s[i]]
  <2>2. m \in 0 .. m /\ m + 1 \in 1 .. n /\ m + 1 \in 0 .. n
    OBVIOUS
  <2>3. s[m] \in State
    BY <2>1, <2>2
  <2>4. step[<<m + 1, s[m]>>] \in State
    BY <2>2, <2>3
  <2>5. t \in [0 .. m + 1 -> State]
    <3> SUFFICES ASSUME NEW i \in 0 .. m + 1 PROVE t[i] \in State
      OBVIOUS
    <3>1. i # m + 1 => i \in 0 .. m
      OBVIOUS
    <3> QED BY <2>1, <2>4, <3>1
  <2>6. t[0] = first
    BY <2>1
  <2>7. ASSUME NEW i \in 1 .. m + 1 PROVE t[i] = step[<<i, t[i - 1]>>]
    <3>1. i \in 0 .. m + 1 /\ i - 1 \in 0 .. m + 1 /\ i - 1 # m + 1
      OBVIOUS
    <3>2. t[i - 1] = s[i - 1]
      BY <3>1
    <3>3. CASE i = m + 1
      <4>1. i - 1 = m /\ t[i] = step[<<m + 1, s[m]>>]
        BY <3>1, <3>3
      <4> QED BY <3>2, <3>3, <4>1
    <3>4. CASE i # m + 1
      <4>1. i \in 1 .. m /\ t[i] = s[i]
        BY <3>1, <3>4
      <4> QED BY <2>1, <3>2, <4>1
    <3> QED BY <3>3, <3>4
  <2>8. Runs(m + 1, t)
    BY <2>6, <2>7
  <2> QED BY <2>2, <2>5, <2>8
<1>3. n \in Ran
  <2> HIDE DEF Ran
  <2>1. \A m \in 0 .. n - 1 : m \in Ran => m + 1 \in Ran
    BY <1>2
  <2>2. 0 .. n \subseteq Ran
    BY <1>1, <2>1, IntervalInduction
  <2> QED BY <2>2
<1> QED BY <1>3 DEF Turned

\* What every turn keeps holds of every state.
LEMMA LoopKeeps ==
  ASSUME NEW n \in Nat, NEW State, NEW s, s[0] \in State,
         \A i \in 1 .. n : s[i - 1] \in State => s[i] \in State
  PROVE  \A i \in 0 .. n : s[i] \in State
<1> DEFINE Kept0 == {i \in 0 .. n : s[i] \in State}
<1>1. 0 \in Kept0
  OBVIOUS
<1>2. ASSUME NEW i \in 0 .. n - 1, i \in Kept0 PROVE i + 1 \in Kept0
  <2>1. i + 1 \in 1 .. n /\ (i + 1) - 1 = i /\ i + 1 \in 0 .. n
    OBVIOUS
  <2> QED BY <1>2, <2>1
<1> HIDE DEF Kept0
<1>3. 0 .. n \subseteq Kept0
  BY <1>1, <1>2, IntervalInduction
<1> QED BY <1>3 DEF Kept0
-----------------------------------------------------------------------------
(* get_input *)

ScanState == [start_pt : Nat, found : Seq(Seq(Byte))]

\* What the loop that looks for newlines makes of byte i.
ScanTurn(buf, i, p) ==
  IF buf[i] # Newline THEN p
  ELSE [start_pt |-> i, found |-> Append(p.found, SubSeq(buf, p.start_pt + 1, i - 1))]

LEMMA ScanTurnType ==
  ASSUME NEW buf \in Seq(Byte), NEW i \in 1 .. Len(buf), NEW p \in ScanState
  PROVE  ScanTurn(buf, i, p) \in ScanState
<1> DEFINE line == SubSeq(buf, p.start_pt + 1, i - 1)
<1>1. p.start_pt \in Nat /\ p.found \in Seq(Seq(Byte))
  BY DEF ScanState
<1>2. \A j \in p.start_pt + 1 .. i - 1 : buf[j] \in Byte
  BY <1>1
<1>3. line \in Seq(Byte)
  <2>1. p.start_pt + 1 \in Int /\ i - 1 \in Int
    BY <1>1
  <2> QED BY <1>2, <2>1, SubSeqProperties
<1> HIDE DEF line
<1>4. Append(p.found, line) \in Seq(Seq(Byte))
  BY <1>1, <1>3
<1>5. [start_pt |-> i, found |-> Append(p.found, line)] \in ScanState
  BY <1>4 DEF ScanState
<1> QED BY <1>5 DEF ScanTurn, line

ScanStates(buf, s) ==
  s = [i \in 0 .. Len(buf) |->
        IF i = 0 THEN [start_pt |-> 0, found |-> <<>>] ELSE ScanTurn(buf, i, s[i - 1])]

\* Scan is the loop.
LEMMA ScanRuns ==
  ASSUME NEW buf \in Seq(Byte)
  PROVE  \E s \in [0 .. Len(buf) -> ScanState] :
           /\ s[0] = [start_pt |-> 0, found |-> <<>>]
           /\ \A i \in 1 .. Len(buf) : s[i] = ScanTurn(buf, i, s[i - 1])
           /\ Scan(buf) = s[Len(buf)]
<1> DEFINE n == Len(buf)
           first == [start_pt |-> 0, found |-> <<>>]
           step == [x \in (1 .. n) \X ScanState |-> ScanTurn(buf, x[1], x[2])]
<1>1. n \in Nat /\ first \in ScanState
  BY DEF ScanState
<1>2. step \in [(1 .. n) \X ScanState -> ScanState]
  BY ScanTurnType
<1>3. \E s : ScanStates(buf, s)
  <2>1. PICK s \in [0 .. n -> ScanState] :
          s[0] = first /\ \A i \in 1 .. n : s[i] = step[<<i, s[i - 1]>>]
    <3> HIDE DEF n, first, step
    <3>1. \E s \in [0 .. n -> ScanState] : Turned(n, s, first, step)
      BY <1>1, <1>2, LoopRuns
    <3> QED BY <3>1 DEF Turned
  <2>2. ASSUME NEW i \in 1 .. n PROVE s[i] = ScanTurn(buf, i, s[i - 1])
    <3>1. i - 1 \in 0 .. n
      BY <1>1
    <3>2. <<i, s[i - 1]>> \in (1 .. n) \X ScanState
      BY <2>1, <3>1
    <3> QED BY <2>1, <3>2
  <2>3. s = [i \in 0 .. n |-> IF i = 0 THEN first ELSE ScanTurn(buf, i, s[i - 1])]
    <3>1. \A i \in 0 .. n : i # 0 => i \in 1 .. n
      BY <1>1
    <3> QED BY <2>1, <2>2, <3>1
  <2> QED BY <2>3 DEF ScanStates
<1> DEFINE s == CHOOSE s : ScanStates(buf, s)
<1>4. ScanStates(buf, s)
  BY <1>3
<1>5. Scan(buf) = s[n]
  BY Zenon DEF Scan, ScanStates, ScanTurn
<1> HIDE DEF s
<1>6. s[0] = first /\ \A i \in 1 .. n : s[i] = ScanTurn(buf, i, s[i - 1])
  BY <1>1, <1>4 DEF ScanStates
<1>7. \A i \in 0 .. n : s[i] \in ScanState
  <2>1. \A i \in 1 .. n : s[i - 1] \in ScanState => s[i] \in ScanState
    BY <1>6, ScanTurnType
  <2> HIDE DEF first, n
  <2> QED BY <1>1, <1>6, <2>1, LoopKeeps
<1>8. s \in [0 .. n -> ScanState]
  BY <1>4, <1>7 DEF ScanStates
<1> QED BY <1>5, <1>6, <1>8

\* Stretches with the same bytes are the same.
LEMMA SameStretch ==
  ASSUME NEW S, NEW s, NEW t, NEW k \in Int, NEW l \in Int, NEW m \in Int, NEW n \in Int,
         n - m = l - k,
         \A i \in k .. l : s[i] \in S,
         \A i \in k .. l : t[i + (m - k)] = s[i]
  PROVE  SubSeq(s, k, l) = SubSeq(t, m, n)
<1> DEFINE u == SubSeq(s, k, l)
           v == SubSeq(t, m, n)
<1>1. u \in Seq(S) /\ Len(u) = (IF k <= l THEN l - k + 1 ELSE 0)
      /\ \A i \in 1 .. l - k + 1 : u[i] = s[k + i - 1]
  BY SubSeqProperties
<1>2. \A i \in m .. n : t[i] = s[i - (m - k)] /\ s[i - (m - k)] \in S
  <2> SUFFICES ASSUME NEW i \in m .. n PROVE t[i] = s[i - (m - k)] /\ s[i - (m - k)] \in S
    OBVIOUS
  <2>1. i - (m - k) \in k .. l /\ (i - (m - k)) + (m - k) = i
    OBVIOUS
  <2> QED BY <2>1
<1>3. v \in Seq(S) /\ Len(v) = (IF m <= n THEN n - m + 1 ELSE 0)
      /\ \A i \in 1 .. n - m + 1 : v[i] = t[m + i - 1]
  BY <1>2, SubSeqProperties
<1> HIDE DEF u, v
<1>4. Len(u) = Len(v)
  BY <1>1, <1>3
<1>5. ASSUME NEW i \in 1 .. Len(u) PROVE u[i] = v[i]
  <2>1. k <= l /\ i \in 1 .. l - k + 1 /\ i \in 1 .. n - m + 1
    BY <1>1
  <2>2. k + i - 1 \in k .. l /\ (k + i - 1) + (m - k) = m + i - 1
    BY <2>1
  <2>3. u[i] = s[k + i - 1] /\ v[i] = t[m + i - 1]
    BY <1>1, <1>3, <2>1
  <2>4. t[(k + i - 1) + (m - k)] = s[k + i - 1]
    BY <2>2
  <2> QED BY <2>2, <2>3, <2>4
<1>6. u = v
  BY <1>1, <1>3, <1>4, <1>5, SeqEqual
<1> QED BY <1>6 DEF u, v

\* One byte more of the stream.
LEMMA EndsGrow ==
  ASSUME NEW b, NEW n \in Nat
  PROVE  /\ IsFiniteSet(Ends(b, n)) /\ Cardinality(Ends(b, n)) \in Nat
         /\ Ends(b, n) \subseteq 1 .. n
         /\ b[n + 1] # Newline => Ends(b, n + 1) = Ends(b, n)
         /\ b[n + 1] = Newline => /\ Ends(b, n + 1) = Ends(b, n) \cup {n + 1}
                                  /\ Cardinality(Ends(b, n + 1)) = Cardinality(Ends(b, n)) + 1
<1>1. IsFiniteSet(1 .. n) /\ Ends(b, n) \in SUBSET (1 .. n)
  BY FS_Interval DEF Ends
<1>2. IsFiniteSet(Ends(b, n)) /\ Cardinality(Ends(b, n)) \in Nat
  BY <1>1, FS_Subset, FS_CardinalityType
<1>3. \A p : p \in 1 .. n + 1 <=> p \in 1 .. n \/ p = n + 1
  OBVIOUS
<1>4. ASSUME b[n + 1] # Newline PROVE Ends(b, n + 1) = Ends(b, n)
  BY <1>3, <1>4, Zenon DEF Ends
<1>5. ASSUME b[n + 1] = Newline
      PROVE  /\ Ends(b, n + 1) = Ends(b, n) \cup {n + 1}
             /\ Cardinality(Ends(b, n + 1)) = Cardinality(Ends(b, n)) + 1
  <2>1. Ends(b, n + 1) = Ends(b, n) \cup {n + 1}
    BY <1>3, <1>5 DEF Ends
  <2>2. n + 1 \notin Ends(b, n)
    BY <1>1
  <2>3. Cardinality(Ends(b, n) \cup {n + 1}) = Cardinality(Ends(b, n)) + 1
    BY <1>2, <2>2, FS_AddElement, Zenon
  <2> QED BY <2>1, <2>3
<1> QED BY <1>1, <1>2, <1>4, <1>5

LEMMA NoEnd ==
  ASSUME NEW b, NEW n \in Nat, NEW ls, NEW st, IsCut(b, n, ls, st), b[n + 1] # Newline
  PROVE  IsCut(b, n + 1, ls, st)
<1>1. Ends(b, n + 1) = Ends(b, n)
  BY EndsGrow
<1> QED BY <1>1, Zenon DEF IsCut

\* The line that ends at a place is the one numbered by the ends up to it.
LEMMA LineNumbers ==
  ASSUME NEW b, NEW n \in Nat, NEW p \in Ends(b, n)
  PROVE  Cardinality(Ends(b, p)) \in 1 .. Cardinality(Ends(b, n))
<1>1. p \in 1 .. n /\ b[p] = Newline
  BY DEF Ends
<1>2. Ends(b, p) \in SUBSET Ends(b, n)
  BY <1>1 DEF Ends
<1>3. p \in Ends(b, p)
  BY <1>1 DEF Ends
<1>4. /\ IsFiniteSet(Ends(b, n)) /\ IsFiniteSet(Ends(b, p))
      /\ Cardinality(Ends(b, n)) \in Nat /\ Cardinality(Ends(b, p)) \in Nat
  BY <1>1, EndsGrow
<1>5. Cardinality(Ends(b, p)) <= Cardinality(Ends(b, n))
  BY <1>2, <1>4, FS_Subset
<1>6. Cardinality(Ends(b, p)) # 0
  BY <1>3, <1>4, FS_EmptySet
<1> QED BY <1>4, <1>5, <1>6

LEMMA NewEnd ==
  ASSUME NEW b \in Seq(Byte), NEW n \in Nat, n < Len(b), NEW ls \in Seq(Seq(Byte)), NEW st,
         IsCut(b, n, ls, st), b[n + 1] = Newline
  PROVE  IsCut(b, n + 1, Append(ls, SubSeq(b, st + 1, n)), n + 1)
<1> DEFINE line == SubSeq(b, st + 1, n)
           more == Append(ls, line)
           old == Ends(b, n)
           new == Ends(b, n + 1)
<1>1. /\ new = old \cup {n + 1} /\ Cardinality(new) = Cardinality(old) + 1
      /\ old \subseteq 1 .. n /\ Cardinality(old) \in Nat
  BY EndsGrow
<1>2. st \in old \cup {0} /\ (\A p \in old : p <= st) /\ Len(ls) = Cardinality(old)
  BY DEF IsCut
<1>3. st \in 0 .. n
  BY <1>1, <1>2
<1>4. line \in Seq(Byte)
  <2>1. \A i \in st + 1 .. n : b[i] \in Byte
    BY <1>3
  <2> QED BY <1>3, <2>1, SubSeqProperties
<1> HIDE DEF line
<1>5. /\ Len(more) = Len(ls) + 1 /\ more[Len(ls) + 1] = line
      /\ \A k \in 1 .. Len(ls) : more[k] = ls[k]
  BY <1>4, AppendProperties
<1>6. Len(more) = Cardinality(new)
  BY <1>1, <1>2, <1>5
<1>7. n + 1 \in new /\ \A p \in new : p <= n + 1
  BY <1>1, SMTT(60)
<1>8. ASSUME NEW p \in new, NEW q \in new \cup {0}, q < p, \A r \in new : r <= q \/ p <= r
      PROVE  more[Cardinality(Ends(b, p))] = SubSeq(b, q + 1, p - 1)
  <2>1. q \in old \cup {0}
    BY <1>1, <1>7, <1>8
  <2>2. CASE p \in old
    <3>1. \A r \in old : r <= q \/ p <= r
      BY <1>1, <1>8
    <3>2. ls[Cardinality(Ends(b, p))] = SubSeq(b, q + 1, p - 1)
      BY <1>8, <2>1, <2>2, <3>1, Zenon DEF IsCut
    <3>3. Cardinality(Ends(b, p)) \in 1 .. Len(ls)
      BY <1>2, <2>2, LineNumbers
    <3> QED BY <1>5, <3>2, <3>3
  <2>3. CASE p = n + 1
    <3>1. q = st
      <4>1. q <= st
        BY <1>2, <1>3, <2>1
      <4>2. CASE st = 0
        BY <1>1, <2>1, <4>1, <4>2
      <4>3. CASE st \in old
        <5>1. st <= q \/ n + 1 <= st
          BY <1>1, <1>8, <2>3, <4>3
        <5> QED BY <1>1, <1>3, <2>1, <4>1, <5>1
      <4> QED BY <1>2, <4>2, <4>3
    <3>2. Cardinality(Ends(b, p)) = Len(ls) + 1 /\ p - 1 = n
      BY <1>1, <1>2, <2>3
    <3> QED BY <1>5, <3>1, <3>2 DEF line
  <2> QED BY <1>1, <2>2, <2>3
<1> HIDE DEF more
<1>9. IsCut(b, n + 1, more, n + 1)
  BY <1>6, <1>7, <1>8 DEF IsCut
<1> QED BY <1>9 DEF more, line

\* The stream up to its last newline is cut as all of it, also when more comes.
LEMMA CutOfMore ==
  ASSUME NEW b \in Seq(Byte), NEW h \in Seq(Byte), Len(b) <= Len(h),
         \A i \in 1 .. Len(b) : h[i] = b[i],
         NEW ls, NEW st, IsCut(b, Len(b), ls, st)
  PROVE  IsCut(h, st, ls, st)
<1>1. st \in Ends(b, Len(b)) \cup {0} /\ \A p \in Ends(b, Len(b)) : p <= st
  BY DEF IsCut
<1>2. st \in 0 .. Len(b)
  BY <1>1 DEF Ends
<1>3. Ends(h, st) = Ends(b, Len(b))
  BY <1>1, <1>2 DEF Ends
<1>4. \A p \in Ends(b, Len(b)) : Ends(h, p) = Ends(b, p)
  BY <1>1, <1>2 DEF Ends
<1>5. ASSUME NEW p \in Ends(b, Len(b)), NEW q \in Ends(b, Len(b)) \cup {0}
      PROVE  SubSeq(h, q + 1, p - 1) = SubSeq(b, q + 1, p - 1)
  <2>1. q + 1 \in Int /\ p - 1 \in Int /\ q + 1 >= 1 /\ p - 1 <= Len(b)
    BY DEF Ends
  <2>2. \A i \in q + 1 .. p - 1 : b[i] \in Byte /\ h[i + ((q + 1) - (q + 1))] = b[i]
    BY <2>1
  <2>3. (p - 1) - (q + 1) = (p - 1) - (q + 1)
    OBVIOUS
  <2> QED BY <2>1, <2>2, <2>3, SameStretch, SMTT(60)
<1> QED BY <1>3, <1>4, <1>5, Zenon DEF IsCut

LEMMA MoreLines ==
  ASSUME NEW s \in Seq(Seq(Byte)), NEW t \in Seq(Seq(Byte)), NEW e \in Seq(Byte)
  PROVE  Append(s \o t, e) = s \o Append(t, e) /\ Append(t, e) \in Seq(Seq(Byte))
<1> DEFINE Bytes == Seq(Byte)
<1>1. s \in Seq(Bytes) /\ t \in Seq(Bytes) /\ e \in Bytes /\ s \o t \in Seq(Bytes) /\ <<e>> \in Seq(Bytes)
  OBVIOUS
<1> HIDE DEF Bytes
<1>2. Append(s \o t, e) = (s \o t) \o <<e>>
  BY <1>1, AppendIsConcat
<1>3. Append(t, e) = t \o <<e>> /\ Append(t, e) \in Seq(Bytes)
  BY <1>1, AppendIsConcat
<1>4. (s \o t) \o <<e>> = s \o (t \o <<e>>)
  BY <1>1, ConcatAssociative, SMTT(60)
<1> QED BY <1>2, <1>3, <1>4 DEF Bytes

\* Scan goes on where the stream's last newline was.
LEMMA ScanContinues ==
  ASSUME NEW h \in Seq(Byte), NEW buf \in Seq(Byte), NEW o \in Nat, o + Len(buf) = Len(h),
         \A i \in 1 .. Len(buf) : buf[i] = h[o + i],
         NEW ls \in Seq(Seq(Byte)), IsCut(h, o, ls, o)
  PROVE  /\ Scan(buf).found \in Seq(Seq(Byte)) /\ Scan(buf).start_pt \in 0 .. Len(buf)
         /\ IsCut(h, Len(h), ls \o Scan(buf).found, o + Scan(buf).start_pt)
<1> DEFINE n == Len(buf)
<1>0. n \in Nat
  OBVIOUS
<1>1. PICK s \in [0 .. n -> ScanState] :
        /\ s[0] = [start_pt |-> 0, found |-> <<>>]
        /\ \A i \in 1 .. n : s[i] = ScanTurn(buf, i, s[i - 1])
        /\ Scan(buf) = s[n]
  BY ScanRuns
<1> DEFINE Right(i) == /\ s[i].start_pt \in 0 .. i /\ s[i].found \in Seq(Seq(Byte))
                       /\ IsCut(h, o + i, ls \o s[i].found, o + s[i].start_pt)
           Rights == {i \in 0 .. n : Right(i)}
<1>2. Right(0)
  <2>1. s[0].start_pt = 0 /\ s[0].found = <<>> /\ ls \o <<>> = ls /\ o + 0 = o
    BY <1>1
  <2>2. <<>> \in Seq(Seq(Byte))
    OBVIOUS
  <2> QED BY <2>1, <2>2
<1>3. ASSUME NEW i \in 0 .. n - 1, Right(i) PROVE Right(i + 1)
  <2> DEFINE p == s[i]
             q == s[i + 1]
             line == SubSeq(h, o + p.start_pt + 1, o + i)
  <2>1. q = ScanTurn(buf, i + 1, p) /\ buf[i + 1] = h[(o + i) + 1] /\ o + i \in Nat /\ o + i < Len(h)
    <3>1. i + 1 \in 1 .. n /\ (i + 1) - 1 = i /\ o + (i + 1) = (o + i) + 1
      OBVIOUS
    <3> QED BY <1>1, <3>1
  <2>2. p.start_pt \in 0 .. i /\ p.found \in Seq(Seq(Byte)) /\ ls \o p.found \in Seq(Seq(Byte))
        /\ IsCut(h, o + i, ls \o p.found, o + p.start_pt)
    BY <1>3
  <2>3. CASE buf[i + 1] # Newline
    <3>1. q = p
      BY <2>1, <2>3 DEF ScanTurn
    <3>2. IsCut(h, (o + i) + 1, ls \o p.found, o + p.start_pt)
      BY <2>1, <2>2, <2>3, NoEnd
    <3>3. o + (i + 1) = (o + i) + 1 /\ p.start_pt \in 0 .. i + 1
      BY <2>2, SMTT(60)
    <3> QED BY <2>2, <3>1, <3>2, <3>3
  <2>4. CASE buf[i + 1] = Newline
    <3>1. IsCut(h, (o + i) + 1, Append(ls \o p.found, line), (o + i) + 1)
      <4> DEFINE m == o + i
                 st == o + p.start_pt
                 all == ls \o p.found
      <4>1. m \in Nat /\ m < Len(h) /\ all \in Seq(Seq(Byte)) /\ IsCut(h, m, all, st) /\ h[m + 1] = Newline
        BY <2>1, <2>2, <2>4
      <4> HIDE DEF m, st, all
      <4>2. IsCut(h, m + 1, Append(all, SubSeq(h, st + 1, m)), m + 1)
        BY <4>1, NewEnd
      <4> QED BY <4>2 DEF m, st, all
    <3>2. SubSeq(buf, p.start_pt + 1, (i + 1) - 1) = line /\ line \in Seq(Byte)
      <4> DEFINE k == p.start_pt + 1
      <4>1. k \in Int /\ k >= 1 /\ i < n /\ i \in Int /\ o + p.start_pt + 1 = o + k
        BY <2>2, SMTT(60)
      <4> HIDE DEF k
      <4>2. \A j \in k .. i : buf[j] \in Byte /\ h[j + ((o + k) - k)] = buf[j]
        BY <4>1, SMTT(60)
      <4>3. (o + i) - (o + k) = i - k /\ o + k \in Int /\ o + i \in Int
        BY <4>1
      <4>4. SubSeq(buf, k, i) = SubSeq(h, o + k, o + i)
        BY <4>1, <4>2, <4>3, SameStretch, SMTT(60)
      <4>5. SubSeq(buf, k, i) \in Seq(Byte)
        BY <4>1, <4>2, SubSeqProperties
      <4>6. (i + 1) - 1 = i
        OBVIOUS
      <4> QED BY <4>1, <4>4, <4>5, <4>6 DEF k
    <3>3. q = [start_pt |-> i + 1, found |-> Append(p.found, line)]
      BY <2>1, <2>4, <3>2 DEF ScanTurn
    <3> HIDE DEF line
    <3>4. Append(ls \o p.found, line) = ls \o Append(p.found, line)
          /\ Append(p.found, line) \in Seq(Seq(Byte))
      <4> DEFINE so == p.found
      <4>1. so \in Seq(Seq(Byte)) /\ line \in Seq(Byte)
        BY <2>2, <3>2
      <4> HIDE DEF so
      <4>2. Append(ls \o so, line) = ls \o Append(so, line) /\ Append(so, line) \in Seq(Seq(Byte))
        BY <4>1, MoreLines
      <4> QED BY <4>2 DEF so
    <3>5. o + (i + 1) = (o + i) + 1 /\ i + 1 \in 0 .. i + 1
      OBVIOUS
    <3> QED BY <3>1, <3>3, <3>4, <3>5
  <2> QED BY <2>3, <2>4
<1> HIDE DEF Right
<1>4. 0 .. n \subseteq Rights
  <2>1. 0 \in Rights /\ \A i \in 0 .. n - 1 : i \in Rights => i + 1 \in Rights
    BY <1>0, <1>2, <1>3
  <2> HIDE DEF Rights
  <2> QED BY <1>0, <2>1, IntervalInduction
<1>5. Right(n)
  BY <1>0, <1>4, SMTT(60)
<1> QED BY <1>1, <1>5 DEF Right

(* What get_input leaves in its buffer fits it with room for a byte, and   *)
(* is the line the client has begun.                                       *)
MgmtInv ==
  /\ wire \in Seq(Byte) /\ heard \in Seq(Byte) /\ lines \in Seq(Seq(Byte))
  /\ input \in Seq(Byte) /\ Len(input) < BufSize
  /\ whole => Len(input) <= Len(heard)
  /\ LinesAsSent

LEMMA NothingCut == IsCut(<<>>, 0, <<>>, 0)
<1>1. Ends(<<>>, 0) = {}
  BY DEF Ends
<1> QED BY <1>1, FS_EmptySet DEF IsCut

LEMMA MgmtInvInit == MgmtInit => MgmtInv
<1> SUFFICES ASSUME MgmtInit PROVE MgmtInv
  OBVIOUS
<1>1. heard = <<>> /\ lines = <<>> /\ input = <<>> /\ wire = <<>> /\ Len(input) = 0 /\ Len(heard) = 0
  BY DEF MgmtInit
<1>2. SubSeq(heard, 0 + 1, 0) = <<>>
  BY SubSeqEmpty
<1>3. LinesAsSent
  BY <1>1, <1>2, NothingCut DEF LinesAsSent
<1> QED BY <1>1, <1>3, ManagementAssumption DEF MgmtInv

\* A part of what a client sent.
LEMMA PartOf ==
  ASSUME NEW s \in Seq(Byte), NEW k \in Nat \ {0}, NEW l \in 0 .. Len(s)
  PROVE  /\ SubSeq(s, k, l) \in Seq(Byte)
         /\ Len(SubSeq(s, k, l)) = IF k <= l THEN l - k + 1 ELSE 0
         /\ \A i \in 1 .. l - k + 1 : SubSeq(s, k, l)[i] = s[k + i - 1]
<1>1. \A i \in k .. l : s[i] \in Byte
  OBVIOUS
<1> QED BY <1>1, SubSeqProperties, SMTT(60)

\* A piece that arrives is put behind what the buffer holds.
LEMMA ReadKeeps ==
  ASSUME MgmtInv, ReadSome
  PROVE  MgmtInv'
<1> DEFINE room == BufSize - Len(input) - 1
           n == IF Len(wire) < room THEN Len(wire) ELSE room
           piece == SubSeq(wire, 1, n)
           buf == input \o piece
           found == Scan(buf).found
           st == Scan(buf).start_pt
           begun == Len(heard) - Len(input)
<1>1. /\ wire \in Seq(Byte) /\ heard \in Seq(Byte) /\ lines \in Seq(Seq(Byte)) /\ input \in Seq(Byte)
      /\ Len(input) < BufSize /\ BufSize \in Nat /\ (whole => Len(input) <= Len(heard))
  BY ManagementAssumption DEF MgmtInv
<1>2. /\ n > 0 /\ input' = Kept(buf, st) /\ heard' = heard \o piece /\ lines' = lines \o found
      /\ whole' = (whole /\ Len(buf) - st # 1) /\ wire' = SubSeq(wire, n + 1, Len(wire))
  BY DEF ReadSome
<1>3. n \in 1 .. Len(wire) /\ Len(input) + n < BufSize
  BY <1>1, <1>2
<1>4. piece \in Seq(Byte) /\ Len(piece) = n
  <2> HIDE DEF n
  <2>1. n \in 0 .. Len(wire) /\ 1 <= n
    BY <1>1, <1>3
  <2> QED BY <1>1, <2>1, PartOf
<1>5. wire' \in Seq(Byte)
  <2>1. n + 1 \in Nat \ {0} /\ Len(wire) \in 0 .. Len(wire)
    BY <1>1, <1>3
  <2> HIDE DEF n
  <2> QED BY <1>1, <1>2, <2>1, PartOf
<1> HIDE DEF n, piece
<1>6. /\ buf \in Seq(Byte) /\ Len(buf) = Len(input) + n
      /\ \A i \in 1 .. Len(input) + n : buf[i] = IF i <= Len(input) THEN input[i] ELSE piece[i - Len(input)]
  BY <1>1, <1>4, ConcatProperties, ZenonT(60)
<1>7. /\ heard' \in Seq(Byte) /\ Len(heard') = Len(heard) + n
      /\ \A i \in 1 .. Len(heard) + n : heard'[i] = IF i <= Len(heard) THEN heard[i] ELSE piece[i - Len(heard)]
  BY <1>1, <1>2, <1>4, ConcatProperties, ZenonT(60)
<1>s. /\ n \in Nat \ {0} /\ Len(input) \in Nat /\ Len(heard) \in Nat /\ Len(buf) \in Nat
      /\ Len(buf) = Len(input) + n /\ Len(heard') = Len(heard) + n
  BY <1>1, <1>3, <1>6, <1>7
<1>8. found \in Seq(Seq(Byte)) /\ st \in Nat
  <2> HIDE DEF buf
  <2>1. PICK s \in [0 .. Len(buf) -> ScanState] : Scan(buf) = s[Len(buf)]
    BY <1>6, ScanRuns
  <2>2. Scan(buf) \in ScanState
    BY <1>6, <2>1
  <2> QED BY <2>2 DEF ScanState
<1>9. lines' \in Seq(Seq(Byte))
  <2> DEFINE Bytes == Seq(Byte)
  <2> HIDE DEF Bytes, found
  <2>1. lines \in Seq(Bytes) /\ found \in Seq(Bytes)
    BY <1>1, <1>8 DEF Bytes
  <2>2. lines \o found \in Seq(Bytes)
    BY <2>1
  <2> QED BY <1>2, <2>2 DEF Bytes
<1>10. input' \in Seq(Byte) /\ Len(input') < BufSize
  <2> HIDE DEF buf, st
  <2>1. CASE st < Len(buf) - 1
    <3>1. input' = SubSeq(buf, st + 1, Len(buf)) /\ st + 1 \in Nat \ {0} /\ Len(buf) \in 0 .. Len(buf)
      BY <1>2, <1>6, <1>8, <2>1, SMTT(60) DEF Kept
    <3>2. input' \in Seq(Byte) /\ Len(input') = IF st + 1 <= Len(buf) THEN Len(buf) - (st + 1) + 1 ELSE 0
      BY <1>6, <3>1, PartOf
    <3> QED BY <1>1, <1>3, <1>6, <1>8, <3>2
  <2>2. CASE ~(st < Len(buf) - 1)
    BY <1>1, <1>2, <2>2 DEF Kept
  <2> QED BY <2>1, <2>2
<1>11. ASSUME whole, Len(buf) - st # 1
       PROVE  LinesAsSent' /\ Len(input') <= Len(heard')
  <2>1. IsCut(heard, Len(heard), lines, begun) /\ input = SubSeq(heard, begun + 1, Len(heard))
        /\ begun \in Nat /\ begun <= Len(heard) /\ begun + Len(input) = Len(heard)
    BY <1>1, <1>11 DEF MgmtInv, LinesAsSent
  <2>a. begun \in Nat /\ begun <= Len(heard) /\ begun + Len(input) = Len(heard)
    BY <2>1
  <2> HIDE DEF begun, buf, st, found
  <2>2. IsCut(heard', begun, lines, begun)
    <3>1. Len(heard) <= Len(heard') /\ \A i \in 1 .. Len(heard) : heard'[i] = heard[i]
      BY <1>1, <1>3, <1>7
    <3> QED BY <1>1, <1>7, <2>1, <3>1, CutOfMore
  <2>3. ASSUME NEW i \in 1 .. Len(buf) PROVE buf[i] = heard'[begun + i]
    <3>1. CASE i <= Len(input)
      <4>1. input[i] = heard[begun + i]
        <5>1. begun + 1 \in Nat \ {0} /\ Len(heard) \in 0 .. Len(heard) /\ i \in 1 .. Len(heard) - (begun + 1) + 1
              /\ (begun + 1) + i - 1 = begun + i
          BY <1>1, <1>6, <2>1, <3>1, SMTT(60)
        <5> QED BY <1>1, <2>1, <5>1, PartOf
      <4>2. heard'[begun + i] = heard[begun + i] /\ buf[i] = input[i]
        BY <1>1, <1>3, <1>6, <1>7, <2>1, <3>1, SMTT(60)
      <4> QED BY <4>1, <4>2
    <3>2. CASE ~(i <= Len(input))
      <4>1. begun + i \in 1 .. Len(heard) + n /\ ~(begun + i <= Len(heard))
            /\ (begun + i) - Len(heard) = i - Len(input)
        BY <1>s, <2>a, <3>2, SMTT(60)
      <4> QED BY <1>6, <1>7, <3>2, <4>1
    <3> QED BY <3>1, <3>2
  <2>4. begun + Len(buf) = Len(heard')
    BY <1>s, <2>a
  <2>5. st \in 0 .. Len(buf) /\ IsCut(heard', Len(heard'), lines \o found, begun + st)
    BY <1>1, <1>6, <1>7, <2>1, <2>2, <2>3, <2>4, ScanContinues DEF st, found
  <2>6. /\ Len(input') = Len(buf) - st
        /\ input' = SubSeq(heard', begun + st + 1, Len(heard'))
    <3>1. CASE st < Len(buf) - 1
      <4>1. input' = SubSeq(buf, st + 1, Len(buf)) /\ st + 1 \in Nat \ {0} /\ Len(buf) \in 0 .. Len(buf)
        BY <1>2, <1>6, <2>5, <3>1, SMTT(60) DEF Kept
      <4>2. Len(input') = Len(buf) - st
        BY <1>6, <2>5, <3>1, <4>1, PartOf
      <4>3. SubSeq(buf, st + 1, Len(buf)) = SubSeq(heard', begun + st + 1, Len(heard'))
        <5> DEFINE k == st + 1
                   l == Len(buf)
                   m == begun + st + 1
                   e == Len(heard')
        <5>1. k \in Int /\ l \in Int /\ m \in Int /\ e \in Int /\ e - m = l - k /\ m - k = begun /\ k >= 1
          BY <1>6, <1>7, <2>1, <2>4, <2>5, SMTT(60)
        <5>2. \A i \in k .. l : buf[i] \in Byte
          BY <1>6, <5>1
        <5>3. \A i \in k .. l : heard'[i + begun] = buf[i]
          <6> SUFFICES ASSUME NEW i \in k .. l PROVE heard'[i + begun] = buf[i]
            OBVIOUS
          <6>1. i \in 1 .. Len(buf) /\ i + begun = begun + i
            BY <2>1, <5>1
          <6> QED BY <2>3, <6>1
        <5>4. \A i \in k .. l : heard'[i + (m - k)] = buf[i]
          BY <5>1, <5>3
        <5> HIDE DEF k, l, m, e
        <5>5. SubSeq(buf, k, l) = SubSeq(heard', m, e)
          BY <5>1, <5>2, <5>4, SameStretch
        <5> QED BY <5>5 DEF k, l, m, e
      <4> QED BY <4>1, <4>2, <4>3
    <3>2. CASE ~(st < Len(buf) - 1)
      <4>1. st = Len(buf) /\ input' = <<>> /\ Len(input') = 0
        BY <1>2, <1>6, <1>11, <2>5, <3>2 DEF Kept
      <4>2. SubSeq(heard', begun + st + 1, Len(heard')) = <<>>
        <5>1. begun + st + 1 \in Int /\ Len(heard') \in Int /\ Len(heard') < begun + st + 1
          BY <1>6, <1>7, <2>1, <2>4, <4>1
        <5> QED BY <5>1, SubSeqEmpty
      <4>3. Len(buf) - st = 0
        BY <1>s, <4>1
      <4> QED BY <4>1, <4>2, <4>3, Zenon
    <3> QED BY <3>1, <3>2
  <2>b. st \in 0 .. Len(buf) /\ Len(input') = Len(buf) - st
    BY <2>5, <2>6, Zenon
  <2>7. Len(heard') - Len(input') = begun + st
    BY <1>s, <2>a, <2>4, <2>b, SMTT(60)
  <2>8. Len(input') <= Len(heard')
    BY <1>s, <2>a, <2>4, <2>b
  <2> QED BY <1>2, <2>5, <2>6, <2>7, <2>8 DEF LinesAsSent
<1>12. LinesAsSent' /\ (whole' => Len(input') <= Len(heard'))
  BY <1>2, <1>11 DEF LinesAsSent
<1> QED BY <1>5, <1>7, <1>9, <1>10, <1>12 DEF MgmtInv

\* What the other steps leave of the stream and the buffer.
LEMMA MgmtInvStep == MgmtInv /\ [MgmtNext]_mgmtVars => MgmtInv'
<1> SUFFICES ASSUME MgmtInv, [MgmtNext]_mgmtVars PROVE MgmtInv'
  OBVIOUS
<1>1. CASE ReadSome
  BY <1>1, ReadKeeps
<1>2. CASE UNCHANGED <<wire, input, heard, lines, whole>>
  BY <1>2 DEF MgmtInv, LinesAsSent
<1>3. CASE Send
  <2>1. PICK b \in Byte : wire' = Append(wire, b)
    BY <1>3 DEF Send
  <2>2. wire' \in Seq(Byte)
    BY <2>1 DEF MgmtInv
  <2> QED BY <1>3, <2>2 DEF Send, MgmtInv, LinesAsSent, mgmtState
<1>4. CASE Accept /\ revents.listen
  <2>1. /\ wire' = <<>> /\ heard' = <<>> /\ lines' = <<>> /\ whole' = (input = <<>>) /\ input' = input
    BY <1>4 DEF Accept
  <2>2. input' \in Seq(Byte) /\ Len(input') < BufSize
    BY <2>1 DEF MgmtInv
  <2>3. ASSUME whole' PROVE LinesAsSent' /\ Len(input') <= Len(heard')
    <3>1. input' = <<>> /\ Len(input') = 0 /\ Len(heard') = 0
      BY <2>1, <2>3
    <3>2. SubSeq(heard', 0 + 1, 0) = <<>>
      BY SubSeqEmpty
    <3> QED BY <2>1, <3>1, <3>2, NothingCut DEF LinesAsSent
  <2>4. LinesAsSent' /\ (whole' => Len(input') <= Len(heard'))
    BY <2>3 DEF LinesAsSent
  <2> QED BY <2>1, <2>2, <2>4 DEF MgmtInv
<1> QED
  BY <1>1, <1>2, <1>3, <1>4 DEF MgmtNext, mgmtVars, mgmtClient, mgmtState, Connect, Leave, PollSockets,
     Accept, Serve, ReadNone

(* The lines carried out for a client are the lines it sent, and the       *)
(* buffer holds the one it has begun, for every buffer size, every client  *)
(* and every way the stream comes in pieces, while whole (get_input).      *)
THEOREM LinesAreAsSent == MachineSpec => []LinesAsSent
<1>1. MachineInit => MgmtInv
  BY MgmtInvInit DEF MachineInit
<1>2. MgmtInv /\ [CpuThread \/ MgmtThread]_machineVars => MgmtInv'
  <2>1. [CpuThread \/ MgmtThread]_machineVars => [MgmtNext]_mgmtVars
    BY DEF CpuThread, MgmtThread, machineVars
  <2> QED BY <2>1, MgmtInvStep
<1>3. MgmtInv => LinesAsSent
  BY DEF MgmtInv
<1> QED BY <1>1, <1>2, <1>3, PTL DEF MachineSpec

(* The management thread does not touch the board: what holds of the board *)
(* alone holds of the machine (mgmt_thread).                               *)
THEOREM MachineRunsTheBoard == MachineSpec => BoardSpec
<1>1. MachineInit => BoardInit
  BY DEF MachineInit
<1>2. [CpuThread \/ MgmtThread]_machineVars => [BoardNext]_boardVars
  BY DEF CpuThread, MgmtThread, machineVars
<1> QED BY <1>1, <1>2, PTL DEF MachineSpec, BoardSpec
-----------------------------------------------------------------------------
(* transformFramebuffer *)

\* Quotient and remainder are unique.
LEMMA QuotientOf ==
  ASSUME NEW d \in Nat \ {0}, NEW q \in Nat, NEW r \in 0 .. d - 1
  PROVE  (q * d + r) \div d = q /\ (q * d + r) % d = r
<1> DEFINE x == q * d + r
           p == x \div d
           m == x % d
<1>1. x \in Nat /\ p \in Nat /\ m \in 0 .. d - 1 /\ x = d * p + m
  OBVIOUS
<1>2. ~(p < q)
  <2> SUFFICES ASSUME p < q PROVE FALSE
    OBVIOUS
  <2>1. PICK e \in Nat : q = p + 1 + e
    BY <1>1
  <2>2. q * d = d * p + d + e * d /\ e * d >= 0
    BY <1>1, <2>1
  <2> QED BY <1>1, <2>2
<1>3. ~(q < p)
  <2> SUFFICES ASSUME q < p PROVE FALSE
    OBVIOUS
  <2>1. PICK e \in Nat : p = q + 1 + e
    BY <1>1
  <2>2. d * p = q * d + d + e * d /\ e * d >= 0
    BY <1>1, <2>1
  <2> QED BY <1>1, <2>2
<1>4. p = q
  BY <1>1, <1>2, <1>3
<1> QED BY <1>1, <1>4

LEMMA BitsOfWord ==
  ASSUME NEW a \in Nat, NEW q \in Nat, NEW r \in 0 .. 31, a = q * 32 + r
  PROVE  a \div 32 = q /\ a % 32 = r
OBVIOUS

FetchState == [in : Nat, pcount : Nat, shift : Nat]

\* What one pixel makes of the loop's state.
LineTurn(depth, p) ==
  IF p.pcount = 0
  THEN [in |-> p.in + 1, pcount |-> WordBits \div depth - 1, shift |-> 0]
  ELSE [in |-> p.in, pcount |-> p.pcount - 1, shift |-> p.shift + depth]

LineStates(depth, width, in0, s) ==
  s = [x \in 0 .. width |->
        IF x = 0 THEN [in |-> in0, pcount |-> 0, shift |-> 0] ELSE LineTurn(depth, s[x - 1])]

LEMMA LineTurnType ==
  ASSUME NEW d, Supported(d), NEW p \in FetchState
  PROVE  LineTurn(d, p) \in FetchState
<1>1. WordBits = 32 /\ d \in {1, 2, 4, 8, 16, 32}
  BY LcdcAssumption DEF Supported
<1>2. WordBits \div d - 1 \in Nat
  BY <1>1
<1> QED BY <1>1, <1>2 DEF LineTurn, FetchState

\* LineState is the loop.
LEMMA LineRuns ==
  ASSUME NEW d, Supported(d), NEW w \in Nat
  PROVE  LET s == LineState(d, w, 0) IN
           /\ s[0] = [in |-> 0, pcount |-> 0, shift |-> 0]
           /\ \A x \in 1 .. w : s[x] = LineTurn(d, s[x - 1])
<1> DEFINE first == [in |-> 0, pcount |-> 0, shift |-> 0]
           step == [y \in (1 .. w) \X FetchState |-> LineTurn(d, y[2])]
<1>1. first \in FetchState
  BY DEF FetchState
<1>2. step \in [(1 .. w) \X FetchState -> FetchState]
  BY LineTurnType
<1>3. \E s : LineStates(d, w, 0, s)
  <2>1. PICK s \in [0 .. w -> FetchState] :
          s[0] = first /\ \A i \in 1 .. w : s[i] = step[<<i, s[i - 1]>>]
    <3> HIDE DEF first, step
    <3>1. \E s \in [0 .. w -> FetchState] : Turned(w, s, first, step)
      BY <1>1, <1>2, LoopRuns
    <3> QED BY <3>1 DEF Turned
  <2>2. ASSUME NEW i \in 1 .. w PROVE s[i] = LineTurn(d, s[i - 1])
    <3>1. i - 1 \in 0 .. w
      OBVIOUS
    <3>2. <<i, s[i - 1]>> \in (1 .. w) \X FetchState
      BY <2>1, <3>1
    <3> QED BY <2>1, <3>2
  <2>3. s = [i \in 0 .. w |-> IF i = 0 THEN first ELSE LineTurn(d, s[i - 1])]
    <3>1. \A i \in 0 .. w : i # 0 => i \in 1 .. w
      OBVIOUS
    <3> QED BY <2>1, <2>2, <3>1
  <2> QED BY <2>3 DEF LineStates
<1> DEFINE s == CHOOSE s : LineStates(d, w, 0, s)
<1>4. LineStates(d, w, 0, s)
  BY <1>3
<1>5. LineState(d, w, 0) = s
  BY Zenon DEF LineState, LineStates, LineTurn
<1> HIDE DEF s
<1>6. s[0] = first /\ \A i \in 1 .. w : s[i] = LineTurn(d, s[i - 1])
  BY <1>4 DEF LineStates
<1> QED BY <1>5, <1>6

(* After x pixels of d bits the loop holds the word that the last of them  *)
(* begins in, shifted by the bits before it, and counts what is left of it.*)
Fetched(d, x, p) ==
  /\ p \in FetchState
  /\ IF x = 0 THEN p.in = 0 /\ p.pcount = 0
     ELSE /\ (p.in - 1) * 32 + p.shift = (x - 1) * d
          /\ p.pcount * d = 32 - d - p.shift

LEMMA FetchedOnce ==
  ASSUME NEW d, Supported(d), NEW x \in Nat, NEW p, Fetched(d, x, p)
  PROVE  Fetched(d, x + 1, LineTurn(d, p))
<1>1. WordBits = 32 /\ d \in {1, 2, 4, 8, 16, 32}
  BY LcdcAssumption DEF Supported
<1>2. LineTurn(d, p) \in FetchState
  BY LineTurnType DEF Fetched
<1> DEFINE q == LineTurn(d, p)
<1>3. p.in \in Nat /\ p.pcount \in Nat /\ p.shift \in Nat
  BY DEF Fetched, FetchState
<1>4. (q.in - 1) * 32 + q.shift = x * d /\ q.pcount * d = 32 - d - q.shift
  <2>1. CASE p.pcount = 0
    <3>1. q.in = p.in + 1 /\ q.pcount = 32 \div d - 1 /\ q.shift = 0
      BY <1>1, <2>1 DEF LineTurn
    <3>2. q.pcount * d = 32 - d
      BY <1>1, <3>1
    <3>3. p.in * 32 = x * d
      <4>1. CASE x = 0
        BY <1>1, <4>1 DEF Fetched
      <4>2. CASE x # 0
        <5>1. (p.in - 1) * 32 + p.shift = (x - 1) * d /\ p.shift = 32 - d
          BY <1>1, <1>3, <2>1, <4>2 DEF Fetched
        <5>2. (x - 1) * d = x * d - d
          BY <1>1
        <5> QED BY <1>1, <1>3, <5>1, <5>2
      <4> QED BY <4>1, <4>2
    <3> HIDE DEF q
    <3> QED BY <1>1, <1>3, <3>1, <3>2, <3>3
  <2>2. CASE p.pcount # 0
    <3>1. q.in = p.in /\ q.pcount = p.pcount - 1 /\ q.shift = p.shift + d
      BY <2>2 DEF LineTurn
    <3>2. x # 0 /\ (p.in - 1) * 32 + p.shift = (x - 1) * d /\ p.pcount * d = 32 - d - p.shift
      BY <2>2 DEF Fetched
    <3>3. (x - 1) * d = x * d - d /\ (p.pcount - 1) * d = p.pcount * d - d
      <4>1. \A k \in Nat : (k - 1) * d = k * d - d
        BY <1>1
      <4> QED BY <1>3, <4>1
    <3>4. x * d \in Int /\ p.pcount * d \in Int
      BY <1>1, <1>3
    <3> DEFINE a == x * d
               b == p.pcount * d
    <3>5. (q.pcount) * d = b - d /\ (x - 1) * d = a - d /\ a \in Int /\ b \in Int
      BY <3>1, <3>3, <3>4, Zenon
    <3>6. (p.in - 1) * 32 + p.shift = a - d /\ b = 32 - d - p.shift
      BY <3>2, <3>5, Zenon
    <3> HIDE DEF a, b, q
    <3>7. (q.in - 1) * 32 + q.shift = a /\ q.pcount * d = 32 - d - q.shift
      BY <1>1, <1>3, <3>1, <3>5, <3>6
    <3> QED BY <3>7 DEF a
  <2> QED BY <2>1, <2>2
<1> QED BY <1>2, <1>4 DEF Fetched

LEMMA LineFetches ==
  ASSUME NEW d, Supported(d), NEW w \in Nat, NEW x \in 0 .. w
  PROVE  Fetched(d, x, LineState(d, w, 0)[x])
<1> DEFINE s == LineState(d, w, 0)
           All == {i \in 0 .. w : Fetched(d, i, s[i])}
<1>1. 0 \in All
  <2>1. s[0] = [in |-> 0, pcount |-> 0, shift |-> 0]
    BY LineRuns
  <2> HIDE DEF s
  <2> QED BY <2>1 DEF Fetched, FetchState
<1>2. ASSUME NEW i \in 0 .. w - 1, i \in All PROVE i + 1 \in All
  <2>1. i + 1 \in 1 .. w /\ i + 1 \in 0 .. w /\ i \in Nat /\ (i + 1) - 1 = i
    OBVIOUS
  <2>2. s[i + 1] = LineTurn(d, s[i])
    BY <2>1, LineRuns
  <2> HIDE DEF s
  <2> QED BY <1>2, <2>1, <2>2, FetchedOnce
<1> HIDE DEF s, All
<1>3. 0 .. w \subseteq All
  BY <1>1, <1>2, IntervalInduction
<1> QED BY <1>3 DEF s, All

\* Where a pixel's bits are: lines of whole words, pixels packed from bit 0 on.
LEMMA FetchedAt ==
  ASSUME NEW d, Supported(d), NEW x \in Nat, NEW p, Fetched(d, x + 1, p)
  PROVE  /\ p.in - 1 = (x * d) \div 32 /\ p.shift = (x * d) % 32
         /\ p.in = ((x + 1) * d + 31) \div 32
<1>1. d \in {1, 2, 4, 8, 16, 32}
  BY DEF Supported
<1>2. p.in \in Nat /\ p.pcount \in Nat /\ p.shift \in Nat
  BY DEF Fetched, FetchState
<1> DEFINE a == x * d
           b == p.pcount * d
<1>3. a \in Nat /\ b \in Nat
  BY <1>1, <1>2
<1>4. (p.in - 1) * 32 + p.shift = a /\ b = 32 - d - p.shift
  <2>1. x + 1 # 0 /\ (x + 1) - 1 = x
    OBVIOUS
  <2> QED BY <2>1, Zenon DEF Fetched
<1>5. (x + 1) * d = a + d
  BY <1>1
<1> HIDE DEF a, b
<1>6. p.shift \in 0 .. 31 /\ p.shift + d \in 1 .. 32 /\ p.in - 1 \in Nat
  BY <1>1, <1>2, <1>3, <1>4, SMTT(60)
<1>7. a \div 32 = p.in - 1 /\ a % 32 = p.shift
  BY <1>3, <1>4, <1>6, BitsOfWord
<1>8. (a + d + 31) \div 32 = p.in
  <2>1. p.shift + d - 1 \in 0 .. 31 /\ p.in \in Nat
    BY <1>1, <1>2, <1>6
  <2>2. a + d + 31 = p.in * 32 + (p.shift + d - 1)
    BY <1>1, <1>2, <1>4
  <2>3. a + d + 31 \in Nat
    BY <1>1, <1>3
  <2> QED BY <2>1, <2>2, <2>3, BitsOfWord
<1> QED BY <1>5, <1>7, <1>8, Zenon DEF a

LEMMA LinesAreWholeWords ==
  ASSUME NEW d, Supported(d), NEW w \in Nat
  PROVE  WordsPerLine(d, w) = (w * d + 31) \div 32
<1>1. WordsPerLine(d, w) = LineState(d, w, 0)[w].in
  BY DEF WordsPerLine
<1>2. Fetched(d, w, LineState(d, w, 0)[w])
  BY LineFetches
<1> HIDE DEF LineState
<1>3. CASE w = 0
  BY <1>1, <1>2, <1>3 DEF Fetched, Supported
<1>4. CASE w # 0
  <2> DEFINE x == w - 1
             p == LineState(d, w, 0)[w]
  <2>1. x \in Nat /\ x + 1 = w
    BY <1>4
  <2> HIDE DEF x, p
  <2>2. Fetched(d, x + 1, p)
    BY <1>2, <2>1 DEF p
  <2>3. p.in = ((x + 1) * d + 31) \div 32
    BY <2>1, <2>2, FetchedAt
  <2> QED BY <1>1, <2>1, <2>3, Zenon DEF p
<1> QED BY <1>3, <1>4

\* The copies of a source pixel lie side by side and within the window.
LEMMA CopiesInWindow ==
  ASSUME NEW size \in Nat, NEW k \in Nat \ {0}, NEW x \in 0 .. size \div k - 1, NEW i \in 0 .. k - 1
  PROVE  /\ x * k + i \in 0 .. size - 1
         /\ (x * k + i) \div k = x
         /\ x * k + i < (size \div k) * k
         /\ size \div k \in Nat
<1> DEFINE n == size \div k
<1>1. n \in Nat /\ n * k <= size
  OBVIOUS
<1>2. x \in Nat /\ x * k + i \in Nat
  BY <1>1
<1>3. (x * k + i) \div k = x
  BY <1>2, QuotientOf
<1>4. x * k + i < n * k
  <2>1. PICK e \in Nat : n = x + 1 + e
    <3>1. n - x - 1 \in Nat /\ n = x + 1 + (n - x - 1)
      BY <1>1
    <3> QED BY <3>1
  <2>2. n * k = x * k + k + e * k /\ e * k \in Nat
    BY <1>2, <2>1
  <2> QED BY <1>2, <2>2
<1> QED BY <1>1, <1>2, <1>3, <1>4

\* What ShowsTheFramebuffer asks of a refresh.
Showing ==
  \A x \in 0 .. Width \div lcdc.sx - 1, y \in 0 .. Height \div lcdc.sy - 1 :
    LET line  == y * (((Width \div lcdc.sx) * lcdc.bpp + WordBits - 1) \div WordBits)
        pixel == Shows(line + (x * lcdc.bpp) \div WordBits, (x * lcdc.bpp) % WordBits, lcdc.bpp)
    IN  \A i \in 0 .. lcdc.sx - 1, j \in 0 .. lcdc.sy - 1 :
          screen'[<<x * lcdc.sx + i, y * lcdc.sy + j>>] = pixel

\* A refresh shows them, whatever the geometry and the depth.
LEMMA RefreshShows ==
  ASSUME LcdcRegsOK, Refresh, Supported(lcdc.bpp)
  PROVE  Showing
<1> DEFINE sx == lcdc.sx
           sy == lcdc.sy
           d == lcdc.bpp
           w == Width \div sx
           h == Height \div sy
<1>1. sx \in Nat \ {0} /\ sy \in Nat \ {0}
  <2>1. sx \in {1} \cup ScalesX /\ sy \in {1} \cup ScalesY
    BY DEF LcdcRegsOK
  <2>2. ScalesX \subseteq Nat \ {0} /\ ScalesY \subseteq Nat \ {0}
    BY LcdcAssumption
  <2> HIDE DEF sx, sy
  <2> QED BY <2>1, <2>2
<1>2. WordBits = 32 /\ Width \in Nat /\ Height \in Nat /\ w \in Nat /\ h \in Nat
  BY <1>1, LcdcAssumption
<1> SUFFICES ASSUME NEW x \in 0 .. w - 1, NEW y \in 0 .. h - 1,
                    NEW i \in 0 .. sx - 1, NEW j \in 0 .. sy - 1
             PROVE  screen'[<<x * sx + i, y * sy + j>>]
                      = Shows(y * ((w * d + WordBits - 1) \div WordBits) + (x * d) \div WordBits,
                              (x * d) % WordBits, d)
  BY DEF Showing
<1> DEFINE a == x * sx + i
           b == y * sy + j
           s == LineState(d, w, 0)[x + 1]
<1>3. a \in 0 .. Width - 1 /\ a \div sx = x /\ a < w * sx
  <2>1. x \in 0 .. Width \div sx - 1 /\ i \in 0 .. sx - 1
    OBVIOUS
  <2>2. sx \in Nat \ {0} /\ Width \in Nat
    BY <1>1, <1>2
  <2> HIDE DEF sx
  <2> QED BY ONLY <2>1, <2>2, CopiesInWindow, ZenonT(60)
<1>4. b \in 0 .. Height - 1 /\ b \div sy = y /\ b < h * sy
  <2>1. y \in 0 .. Height \div sy - 1 /\ j \in 0 .. sy - 1
    OBVIOUS
  <2>2. sy \in Nat \ {0} /\ Height \in Nat
    BY <1>1, <1>2
  <2> HIDE DEF sy
  <2> QED BY ONLY <2>1, <2>2, CopiesInWindow, ZenonT(60)
<1>5. w * sx \in Nat /\ h * sy \in Nat
  BY <1>1, <1>2
<1>6. screen'[<<a, b>>] = Shows(y * WordsPerLine(d, w) + s.in - 1, s.shift, d)
  <2> DEFINE p == <<a, b>>
             Source(x1, y1) == LET t == LineState(d, w, 0)[x1 + 1] IN
               Shows(y1 * WordsPerLine(d, w) + t.in - 1, t.shift, d)
             Value(p1) ==
               IF p1[2] >= h * sy THEN screen[p1]
               ELSE IF ~Supported(d) THEN Blue
               ELSE IF p1[1] < w * sx THEN Source(p1[1] \div sx, p1[2] \div sy)
               ELSE screen[<<p1[1], p1[2] - (p1[2] % sy)>>]
  <2>1. p \in Pixel /\ p[1] = a /\ p[2] = b
    BY <1>3, <1>4 DEF Pixel
  <2>2. screen'[p] = Value(p)
    <3>1. screen' = [p1 \in Pixel |-> Value(p1)]
      BY Zenon DEF Refresh, Transformed
    <3> HIDE DEF Value
    <3> QED BY <2>1, <3>1
  <2>3. ~(p[2] >= h * sy) /\ p[1] < w * sx
    <3> HIDE DEF a, b, w, h, p
    <3> QED BY <1>3, <1>4, <1>5, <2>1
  <2>4. Value(p) = Source(p[1] \div sx, p[2] \div sy)
    <3> HIDE DEF Source, p, w, h
    <3> QED BY <2>3
  <2> QED BY <1>3, <1>4, <2>1, <2>2, <2>4, Zenon
<1>7. Fetched(d, x + 1, s)
  <2>1. x + 1 \in 0 .. w
    BY <1>2
  <2> QED BY <1>2, <2>1, LineFetches
<1>8. s.in - 1 = (x * d) \div 32 /\ s.shift = (x * d) % 32 /\ s.in \in Nat
  <2> HIDE DEF s, w, d
  <2>1. x \in Nat /\ Supported(d)
    BY <1>2 DEF d
  <2> QED BY <1>7, <2>1, FetchedAt DEF Fetched, FetchState
<1>9. WordsPerLine(d, w) = (w * d + WordBits - 1) \div WordBits
  <2>1. WordsPerLine(d, w) = (w * d + 31) \div 32
    BY <1>2, LinesAreWholeWords
  <2>2. w * d + WordBits - 1 = w * d + 31
    <3>1. d \in Nat
      BY DEF Supported
    <3> HIDE DEF w, d
    <3> QED BY <1>2, <3>1
  <2> HIDE DEF w, d
  <2> QED BY <1>2, <2>1, <2>2, Zenon
<1>10. y * WordsPerLine(d, w) + s.in - 1 = y * WordsPerLine(d, w) + (s.in - 1)
  <2>1. y \in Nat /\ WordsPerLine(d, w) \in Nat
    <3>1. w * d \in Nat
      BY <1>2 DEF Supported
    <3> HIDE DEF w, d, h
    <3> QED BY <1>2, <1>9, <3>1
  <2>2. y * WordsPerLine(d, w) \in Nat
    <3> HIDE DEF w, d, h
    <3> QED BY <2>1
  <2> HIDE DEF w, d, h, s
  <2> QED BY <1>8, <2>2
<1> HIDE DEF w, h, d, s, a, b
<1>11. screen'[<<a, b>>] = Shows(y * ((w * d + WordBits - 1) \div WordBits) + (x * d) \div WordBits,
                                 (x * d) % WordBits, d)
  BY <1>2, <1>6, <1>8, <1>9, <1>10, Zenon
<1> QED BY <1>11 DEF a, b, w, h, d

\* Only the main loop's poll draws.
LEMMA BoardShows ==
  ASSUME LcdcRegsOK, [BoardNext]_boardVars, screen' # screen, Supported(lcdc.bpp)
  PROVE  Showing
<1>1. Refresh
  BY DEF BoardNext, boardVars, lcdcVars, quitVars, PlatformInit, Read, RamStore, SbdStore,
         LcdcStore, LcdcWrite, SetCtrl, SetDsize, SetFbBase, SetBpp, SetPalIdx, SetPalEntry,
         SpiStore, GpioStore, IntcStore, Interrupting, IntcStep, SbdIgnored,
         SbdCommand, Poll, BadAccess, BadDma, Stop, Quit, SaveOpen, SaveIntc, SaveUart, Save
<1> QED BY <1>1, RefreshShows

(* Every pixel of the window shows the framebuffer's pixel that it is a    *)
(* copy of, lines beginning at words of their own, for every window, every *)
(* scale and every depth (transformFramebuffer, copyLineIndexed).          *)
THEOREM DisplayShowsTheFramebuffer == BoardSpec => ShowsTheFramebuffer
<1> DEFINE Inv == SbdRegsOK /\ LcdcRegsOK
           Shown == screen' # screen /\ Supported(lcdc.bpp) => Showing
<1>1. BoardInit => Inv
  BY RegsInit
<1>2. Inv /\ [BoardNext]_boardVars => Inv'
  BY RegsStep
<1>3. Inv /\ [BoardNext]_boardVars => [Shown]_lcdcVars
  BY BoardShows
<1>4. [][Shown]_lcdcVars => ShowsTheFramebuffer
  BY DEF Showing, ShowsTheFramebuffer
<1> HIDE DEF Inv, Shown
<1> QED BY <1>1, <1>2, <1>3, <1>4, PTL DEF BoardSpec
-----------------------------------------------------------------------------
(* sim_quit: the state file *)

\* The chunks of a sequence.
ChunksOf(s) == {s[i] : i \in 1 .. Len(s)}

LEMMA ChunksAppend ==
  ASSUME NEW S, NEW s \in Seq(S), NEW e \in S
  PROVE  ChunksOf(Append(s, e)) = ChunksOf(s) \cup {e}
<1> DEFINE t == Append(s, e)
           n == Len(s)
<1>1. n \in Nat /\ Len(t) = n + 1 /\ t[n + 1] = e /\ \A i \in 1 .. n : t[i] = s[i]
  BY AppendProperties
<1>2. 1 .. n + 1 = (1 .. n) \cup {n + 1}
  BY <1>1
<1> HIDE DEF t, n
<1>3. {t[i] : i \in 1 .. n + 1} = {s[i] : i \in 1 .. n} \cup {e}
  BY <1>1, <1>2
<1> QED BY <1>1, <1>3, Zenon DEF ChunksOf, n, t

Over(f, w, c, n) == SubSeq(f, 1, w) \o SubSeq(c, 1, n) \o SubSeq(f, w + n + 1, Len(f))

(* The chunks written so far are followed by n more, whatever the file     *)
(* held there and behind.                                                  *)
LEMMA ChunksWritten ==
  ASSUME NEW S, NEW f \in Seq(S), NEW c \in Seq(S),
         NEW w \in 0 .. Len(f), NEW n \in 0 .. Len(c),
         NEW g, g = Over(f, w, c, n)
  PROVE  /\ g \in Seq(S) /\ w + n \in 0 .. Len(g)
         /\ \A i \in 1 .. w : g[i] = f[i]
         /\ \A i \in 1 .. n : g[w + i] = c[i]
<1> DEFINE a == SubSeq(f, 1, w)
           b == SubSeq(c, 1, n)
           r == SubSeq(f, w + n + 1, Len(f))
           ab == a \o b
<1>0. w \in Nat /\ n \in Nat /\ Len(f) \in Nat
  OBVIOUS
<1>1. a \in Seq(S) /\ Len(a) = w /\ \A i \in 1 .. w : a[i] = f[i]
  <2>1. \A i \in 1 .. w : f[i] \in S
    OBVIOUS
  <2>2. a \in Seq(S) /\ Len(a) = (IF 1 <= w THEN w - 1 + 1 ELSE 0)
        /\ \A i \in 1 .. w - 1 + 1 : a[i] = f[1 + i - 1]
    BY <2>1, SubSeqProperties
  <2>3. w - 1 + 1 = w /\ \A i \in 1 .. w : 1 + i - 1 = i
    BY <1>0
  <2> HIDE DEF a
  <2> QED BY <1>0, <2>2, <2>3
<1>2. b \in Seq(S) /\ Len(b) = n /\ \A i \in 1 .. n : b[i] = c[i]
  <2>1. \A i \in 1 .. n : c[i] \in S
    OBVIOUS
  <2>2. b \in Seq(S) /\ Len(b) = (IF 1 <= n THEN n - 1 + 1 ELSE 0)
        /\ \A i \in 1 .. n - 1 + 1 : b[i] = c[1 + i - 1]
    BY <2>1, SubSeqProperties
  <2>3. n - 1 + 1 = n /\ \A i \in 1 .. n : 1 + i - 1 = i
    BY <1>0
  <2> HIDE DEF b
  <2> QED BY <1>0, <2>2, <2>3
<1>3. r \in Seq(S) /\ Len(r) \in Nat
  <2>1. w + n + 1 \in Int /\ Len(f) \in Int /\ \A i \in w + n + 1 .. Len(f) : f[i] \in S
    OBVIOUS
  <2>2. r \in Seq(S)
    BY <2>1, SubSeqProperties
  <2> QED BY <2>2
<1> HIDE DEF a, b, r
<1>4. ab \in Seq(S) /\ Len(ab) = w + n /\ (\A i \in 1 .. w : ab[i] = a[i])
      /\ \A i \in 1 .. n : ab[w + i] = b[i]
  <2>1. /\ ab \in Seq(S) /\ Len(ab) = Len(a) + Len(b)
        /\ \A i \in 1 .. Len(a) + Len(b) : ab[i] = IF i <= Len(a) THEN a[i] ELSE b[i - Len(a)]
    BY <1>1, <1>2, ConcatProperties, ZenonT(60)
  <2> HIDE DEF ab
  <2>2. \A i \in 1 .. w : i \in 1 .. w + n /\ i <= w
    BY <1>0
  <2>3. \A i \in 1 .. n : w + i \in 1 .. w + n /\ ~(w + i <= w) /\ (w + i) - w = i
    BY <1>0
  <2> QED BY <1>1, <1>2, <2>1, <2>2, <2>3
<1> HIDE DEF ab
<1>5. g = ab \o r
  BY DEF Over, ab, a, b, r
<1>6. g \in Seq(S) /\ Len(g) = w + n + Len(r) /\ \A i \in 1 .. w + n : g[i] = ab[i]
  <2>1. /\ g \in Seq(S) /\ Len(g) = Len(ab) + Len(r)
        /\ \A i \in 1 .. Len(ab) + Len(r) : g[i] = IF i <= Len(ab) THEN ab[i] ELSE r[i - Len(ab)]
    <3>1. ab \in Seq(S) /\ r \in Seq(S)
      BY <1>3, <1>4
    <3> QED BY ONLY <3>1, <1>5, ConcatProperties, Zenon
  <2>2. \A i \in 1 .. w + n : i \in 1 .. w + n + Len(r) /\ i <= w + n
    BY <1>0, <1>3
  <2> QED BY <1>4, <2>1, <2>2
<1>7. \A i \in 1 .. n : w + i \in 1 .. w + n
  OBVIOUS
<1>8. \A i \in 1 .. w : i \in 1 .. w + n
  OBVIOUS
<1>9. w + n \in 0 .. Len(g)
  <2>1. Len(g) = w + n + Len(r)
    BY <1>6
  <2> QED BY ONLY <1>0, <1>3, <2>1
<1> QED BY <1>1, <1>2, <1>4, <1>6, <1>7, <1>8, <1>9, ZenonT(60)

\* What MemChunks should hold: each block of the bank that is not zero.
Recordable(a) == <<"MEMBLK", a, ram[a]>>
BankChunks(last) == {Recordable(a) : a \in {x \in Map[1].base .. last : ram[x] # Zero}}

MemTurn(i, p) ==
  LET a == Map[1].base + i - 1 IN IF ram[a] = Zero THEN p ELSE Append(p, <<"MEMBLK", a, ram[a]>>)

MemStates(n, s) ==
  s = [i \in 0 .. n |-> IF i = 0 THEN <<>> ELSE MemTurn(i, s[i - 1])]

LEMMA FirstBank == Map[1].base \in Nat /\ Map[1].size \in Nat
<1>1. 1 \in 1 .. Len(Map)
  <2>1. Map \in Seq([dev : Device, base : Nat, size : Nat]) /\ Map # <<>>
    BY MapAssumption, SaveAssumption, Zenon
  <2> QED BY <2>1, EmptySeq
<1> QED BY <1>1, MapEntry

LEMMA MemTurnType ==
  ASSUME NEW i \in 1 .. Map[1].size, NEW p \in Seq({Recordable(a) : a \in Int})
  PROVE  MemTurn(i, p) \in Seq({Recordable(a) : a \in Int})
<1>1. Map[1].base + i - 1 \in Int
  BY FirstBank
<1>2. Recordable(Map[1].base + i - 1) \in {Recordable(a) : a \in Int}
  BY <1>1
<1> QED BY <1>2 DEF MemTurn, Recordable

\* MemChunks is the loop.
LEMMA MemRuns ==
  \E s \in [0 .. Map[1].size -> Seq({Recordable(a) : a \in Int})] :
    /\ s[0] = <<>>
    /\ \A i \in 1 .. Map[1].size : s[i] = MemTurn(i, s[i - 1])
    /\ MemChunks = s[Map[1].size]
<1> DEFINE n == Map[1].size
           State == Seq({Recordable(a) : a \in Int})
           first == <<>>
           step == [x \in (1 .. n) \X State |-> MemTurn(x[1], x[2])]
<1>1. n \in Nat /\ first \in State
  BY FirstBank
<1>2. step \in [(1 .. n) \X State -> State]
  BY MemTurnType
<1>3. \E s : MemStates(n, s)
  <2>1. PICK s \in [0 .. n -> State] :
          s[0] = first /\ \A i \in 1 .. n : s[i] = step[<<i, s[i - 1]>>]
    <3> HIDE DEF n, first, step, State
    <3>1. \E s \in [0 .. n -> State] : Turned(n, s, first, step)
      BY <1>1, <1>2, LoopRuns
    <3> QED BY <3>1 DEF Turned
  <2> HIDE DEF State, n
  <2>2. ASSUME NEW i \in 1 .. n PROVE s[i] = MemTurn(i, s[i - 1])
    <3>1. i - 1 \in 0 .. n
      BY <1>1
    <3>2. <<i, s[i - 1]>> \in (1 .. n) \X State
      BY <2>1, <3>1
    <3> QED BY <2>1, <3>2
  <2>3. s = [i \in 0 .. n |-> IF i = 0 THEN first ELSE MemTurn(i, s[i - 1])]
    <3>1. \A i \in 0 .. n : i # 0 => i \in 1 .. n
      BY <1>1
    <3> QED BY <2>1, <2>2, <3>1
  <2> QED BY <2>3 DEF MemStates
<1> DEFINE s == CHOOSE s : MemStates(n, s)
<1>4. MemStates(n, s)
  BY <1>3
<1>5. MemChunks = s[n]
  BY Zenon DEF MemChunks, MemStates, MemTurn
<1> HIDE DEF s
<1>6. s[0] = first /\ \A i \in 1 .. n : s[i] = MemTurn(i, s[i - 1])
  BY <1>1, <1>4 DEF MemStates
<1>7. \A i \in 0 .. n : s[i] \in State
  <2>1. \A i \in 1 .. n : s[i - 1] \in State => s[i] \in State
    BY <1>6, MemTurnType
  <2> HIDE DEF first, n, State
  <2> QED BY <1>1, <1>6, <2>1, LoopKeeps
<1>8. s \in [0 .. n -> State]
  BY <1>4, <1>7 DEF MemStates
<1> QED BY <1>5, <1>6, <1>8

(* The memory chunks are the bank's blocks that are not zero, and each of  *)
(* them with its contents.                                                 *)
LEMMA MemHolds ==
  /\ MemChunks \in Seq({Recordable(a) : a \in Int})
  /\ ChunksOf(MemChunks) = BankChunks(Map[1].base + Map[1].size - 1)
<1> DEFINE n == Map[1].size
           base == Map[1].base
           All == {Recordable(a) : a \in Int}
<1>1. n \in Nat /\ base \in Nat
  BY FirstBank
<1>2. PICK s \in [0 .. n -> Seq(All)] :
        s[0] = <<>> /\ (\A i \in 1 .. n : s[i] = MemTurn(i, s[i - 1])) /\ MemChunks = s[n]
  BY MemRuns
<1> DEFINE Right == {i \in 0 .. n : ChunksOf(s[i]) = BankChunks(base + i - 1)}
<1>3. 0 \in Right
  <2>1. ChunksOf(s[0]) = {}
    BY <1>2 DEF ChunksOf
  <2>2. BankChunks(base + 0 - 1) = {}
    <3>1. base .. base + 0 - 1 = {}
      BY <1>1
    <3> QED BY <3>1 DEF BankChunks
  <2>3. 0 \in 0 .. n
    BY <1>1
  <2> QED BY <2>1, <2>2, <2>3, Zenon
<1>4. ASSUME NEW i \in 0 .. n - 1, i \in Right PROVE i + 1 \in Right
  <2>1. i + 1 \in 1 .. n /\ (i + 1) - 1 = i /\ i + 1 \in 0 .. n /\ i \in 0 .. n
    BY <1>1
  <2> DEFINE a == base + (i + 1) - 1
  <2>2. a \in Int /\ a = base + i /\ base .. a = (base .. base + i - 1) \cup {a}
    BY <1>1, SMTT(60)
  <2>3. s[i] \in Seq(All) /\ s[i + 1] = MemTurn(i + 1, s[i])
    BY <1>2, <2>1
  <2>4. ChunksOf(s[i]) = BankChunks(base + i - 1)
    BY <1>4
  <2>5. Recordable(a) \in All
    BY <2>2
  <2> HIDE DEF a, All
  <2>6. CASE ram[a] = Zero
    <3>1. s[i + 1] = s[i]
      BY <2>3, <2>6 DEF MemTurn, a
    <3>2. BankChunks(a) = BankChunks(base + i - 1)
      BY <2>2, <2>6 DEF BankChunks
    <3> QED BY <2>1, <2>4, <3>1, <3>2 DEF a
  <2>7. CASE ram[a] # Zero
    <3>1. s[i + 1] = Append(s[i], Recordable(a))
      BY <2>3, <2>7, Zenon DEF MemTurn, Recordable, a
    <3>2. ChunksOf(s[i + 1]) = ChunksOf(s[i]) \cup {Recordable(a)}
      <4> DEFINE p == s[i]
                 e == Recordable(a)
      <4>1. PICK S : p \in Seq(S) /\ e \in S
        BY <2>3, <2>5
      <4>2. s[i + 1] = Append(p, e)
        BY <3>1
      <4> HIDE DEF p, e
      <4>3. ChunksOf(Append(p, e)) = ChunksOf(p) \cup {e}
        BY ONLY <4>1, ChunksAppend, SMTT(60)
      <4> QED BY <4>2, <4>3 DEF p, e
    <3>3. BankChunks(a) = BankChunks(base + i - 1) \cup {Recordable(a)}
      BY <2>2, <2>7 DEF BankChunks
    <3> QED BY <2>1, <2>4, <3>2, <3>3 DEF a
  <2> QED BY <2>6, <2>7
<1>5. n \in Right
  <2> HIDE DEF Right, n
  <2>1. 0 .. n \subseteq Right
    BY <1>1, <1>3, <1>4, IntervalInduction
  <2> QED BY <1>1, <2>1
<1>6. MemChunks \in Seq(All)
  BY <1>1, <1>2
<1> QED BY <1>2, <1>5, <1>6

Wrote == {file[i] : i \in 1 .. written}
CpuPart == {<<"CPU", irqFlag>>} \cup BankChunks(Map[1].base + Map[1].size - 1)
IntcPart == {<<"IC_ISR", reg["ISR"]>>, <<"IC_IER", reg["IER"]>>}
Ending == <<"CON_SR">>

(* A save in progress has written the parts before its stage, and once it  *)
(* is over the last chunk tells whether it came to the end.                *)
SaveInv ==
  /\ \E S : file \in Seq(S)
  /\ written \in 0 .. Len(file)
  /\ stage \in {"run", "open", "intc", "uart", "exited"}
  /\ stage \in {"run", "open"} => written = 0
  /\ stage = "intc" => Wrote = CpuPart
  /\ stage = "uart" => Wrote = CpuPart \cup IntcPart
  /\ stage = "exited" /\ written > 0 /\ file[written] = Ending
       => Wrote = CpuPart \cup IntcPart \cup {Ending}

\* The processor quits between two accesses to the interrupt controller.
QuitsOutside == stage # "run" \/ cmd # "IDLE" => at[CPU] = "out"

LEMMA SaveInvInit == ASSUME BoardInit PROVE SaveInv /\ QuitsOutside
<1>1. file \in Seq(Range(file)) /\ written = 0 /\ stage = "run" /\ cmd = "IDLE"
  BY SaveAssumption DEF BoardInit, SbdInit
<1>2. written \in 0 .. Len(file)
  BY <1>1
<1> QED BY <1>1, <1>2 DEF SaveInv, QuitsOutside

\* What the two parts hold instead of the end.
LEMMA PartsDoNotEnd == Ending \notin CpuPart /\ Ending \notin IntcPart
BY DEF Ending, CpuPart, IntcPart, BankChunks, Recordable

\* A stage that writes all its chunks, or fewer.
LEMMA SaveWrites ==
  ASSUME SaveInv, NEW S, NEW chunks \in Seq(S), NEW next, Save(chunks, next)
  PROVE  /\ \E T : file' \in Seq(T)
         /\ written' \in 0 .. Len(file')
         /\ Wrote \subseteq Wrote'
         /\ \/ stage' = next /\ Wrote' = Wrote \cup ChunksOf(chunks)
            \/ stage' = "exited" /\ Wrote' \subseteq Wrote \cup ChunksOf(chunks)
<1>1. PICK n \in 0 .. Len(chunks) : /\ file' = Overwritten(chunks, n) /\ written' = written + n
                                    /\ stage' = IF n = Len(chunks) THEN next ELSE "exited"
  BY DEF Save
<1>2. PICK F : file \in Seq(F)
  BY DEF SaveInv
<1> DEFINE T == F \cup S
<1>3. file \in Seq(T) /\ chunks \in Seq(T)
  BY <1>2
<1>4. written \in 0 .. Len(file)
  BY DEF SaveInv
<1>5. file' = Over(file, written, chunks, n)
  BY <1>1 DEF Overwritten, Over
<1>6. /\ file' \in Seq(T) /\ written + n \in 0 .. Len(file')
      /\ \A i \in 1 .. written : file'[i] = file[i]
      /\ \A i \in 1 .. n : file'[written + i] = chunks[i]
  <2> HIDE DEF T
  <2> QED BY <1>3, <1>4, <1>5, ChunksWritten, SMTT(60)
<1>7. Wrote' = Wrote \cup {chunks[i] : i \in 1 .. n}
  <2>1. written \in Nat /\ n \in Nat
    BY <1>3, <1>4
  <2>2. Wrote' = {file'[i] : i \in 1 .. written + n}
    BY <1>1 DEF Wrote
  <2>3. ASSUME NEW i \in 1 .. written + n
        PROVE  file'[i] \in Wrote \cup {chunks[k] : k \in 1 .. n}
    <3>1. CASE i <= written
      BY <1>6, <2>1, <3>1 DEF Wrote
    <3>2. CASE ~(i <= written)
      <4>1. i - written \in 1 .. n /\ written + (i - written) = i
        BY <2>1, <3>2
      <4>2. file'[i] = chunks[i - written]
        BY <1>6, <4>1
      <4> QED BY <4>1, <4>2
    <3> QED BY <3>1, <3>2
  <2>4. ASSUME NEW i \in 1 .. written PROVE file[i] \in {file'[k] : k \in 1 .. written + n}
    <3>1. i \in 1 .. written + n
      BY <2>1
    <3> QED BY <1>6, <3>1
  <2>5. ASSUME NEW i \in 1 .. n PROVE chunks[i] \in {file'[k] : k \in 1 .. written + n}
    <3>1. written + i \in 1 .. written + n
      BY <2>1
    <3> QED BY <1>6, <3>1
  <2> QED BY <2>2, <2>3, <2>4, <2>5, ZenonT(60) DEF Wrote
<1>8. {chunks[i] : i \in 1 .. n} \subseteq ChunksOf(chunks)
      /\ (n = Len(chunks) => {chunks[i] : i \in 1 .. n} = ChunksOf(chunks))
  BY DEF ChunksOf
<1> QED BY <1>1, <1>6, <1>7, <1>8

\* state_save_open writes the registers, and every block that is not zero.
LEMMA CpuHolds == (\E S : CpuChunks \in Seq(S)) /\ ChunksOf(CpuChunks) = CpuPart
<1> DEFINE c == <<"CPU", irqFlag>>
           m == MemChunks
           S == {Recordable(a) : a \in Int} \cup {c}
           q == <<c>> \o m
<1>1. m \in Seq(S) /\ ChunksOf(m) = BankChunks(Map[1].base + Map[1].size - 1) /\ c \in S
  BY MemHolds
<1>2. <<c>> \in Seq(S) /\ Len(<<c>>) = 1 /\ <<c>>[1] = c
  OBVIOUS
<1> HIDE DEF c, m, S
<1>3. /\ q \in Seq(S) /\ Len(q) = 1 + Len(m)
      /\ \A i \in 1 .. 1 + Len(m) : q[i] = IF i <= 1 THEN <<c>>[i] ELSE m[i - 1]
  BY <1>1, <1>2, ConcatProperties
<1>4. ChunksOf(q) = {c} \cup ChunksOf(m)
  <2> HIDE DEF q
  <2>0. Len(m) \in Nat
    BY <1>1
  <2>1. ASSUME NEW i \in 1 .. Len(q) PROVE q[i] \in {c} \cup ChunksOf(m)
    <3>1. CASE i = 1
      BY <1>2, <1>3, <2>0, <3>1
    <3>2. CASE i # 1
      <4>1. i \in 1 .. 1 + Len(m) /\ ~(i <= 1) /\ i - 1 \in 1 .. Len(m)
        BY <1>3, <2>0, <3>2
      <4> QED BY <1>3, <4>1 DEF ChunksOf
    <3> QED BY <3>1, <3>2
  <2>2. c \in ChunksOf(q)
    <3>1. 1 \in 1 .. Len(q) /\ q[1] = c
      BY <1>2, <1>3, <2>0
    <3> QED BY <3>1 DEF ChunksOf
  <2>3. ASSUME NEW i \in 1 .. Len(m) PROVE m[i] \in ChunksOf(q)
    <3>1. i + 1 \in 1 .. 1 + Len(m) /\ ~(i + 1 <= 1) /\ (i + 1) - 1 = i
      BY <2>0
    <3>2. q[i + 1] = m[i] /\ i + 1 \in 1 .. Len(q)
      BY <1>3, <3>1
    <3> QED BY <3>2 DEF ChunksOf
  <2> QED BY <2>1, <2>2, <2>3 DEF ChunksOf
<1>5. CpuChunks = q
  BY DEF CpuChunks, c, m
<1> QED BY <1>1, <1>3, <1>4, <1>5 DEF CpuPart, c

LEMMA PlatformHolds ==
  /\ (\E S : PlatformChunks \in Seq(S)) /\ ChunksOf(PlatformChunks) = IntcPart
  /\ (\E S : <<Ending>> \in Seq(S)) /\ ChunksOf(<<Ending>>) = {Ending}
<1>1. ASSUME NEW x, NEW y PROVE <<x, y>> \in Seq({x, y}) /\ ChunksOf(<<x, y>>) = {x, y}
  <2>1. Len(<<x, y>>) = 2 /\ <<x, y>>[1] = x /\ <<x, y>>[2] = y /\ 1 .. 2 = {1, 2}
    OBVIOUS
  <2>2. ChunksOf(<<x, y>>) = {<<x, y>>[i] : i \in {1, 2}}
    BY <2>1, Zenon DEF ChunksOf
  <2> QED BY <2>1, <2>2
<1>2. ASSUME NEW x PROVE <<x>> \in Seq({x}) /\ ChunksOf(<<x>>) = {x}
  <2>1. Len(<<x>>) = 1 /\ <<x>>[1] = x /\ 1 .. 1 = {1}
    OBVIOUS
  <2>2. ChunksOf(<<x>>) = {<<x>>[i] : i \in {1}}
    BY <2>1, Zenon DEF ChunksOf
  <2> QED BY <2>1, <2>2
<1>3. PlatformChunks \in Seq(IntcPart) /\ ChunksOf(PlatformChunks) = IntcPart
  BY <1>1, Zenon DEF PlatformChunks, IntcPart
<1> QED BY <1>2, <1>3

\* Steps other than a save's do not write, and once sim_quit runs only a save changes anything.
LEMMA NotSaving ==
  ASSUME QuitsOutside, [BoardNext]_boardVars, ~(SaveOpen \/ SaveIntc \/ SaveUart)
  PROVE  /\ UNCHANGED <<file, written>> /\ QuitsOutside'
         /\ \/ stage = "run" /\ stage' \in {"run", "open", "exited"}
            \/ stage' = stage /\ UNCHANGED <<ram, irqFlag, reg>>
<1>1. CASE IntcStep
  <2>1. at[CPU] # "out"
    BY <1>1 DEF IntcStep, InIntc, Load, Store, ReadISR, ReadIER, Decide, Drive
  <2> QED BY <1>1, <2>1 DEF QuitsOutside, IntcStep, sbdVars, quitVars
<1>2. CASE SbdIgnored \/ SbdCommand
  BY <1>2 DEF SbdIgnored, SbdCommand, QuitsOutside, Ignored, Idle, Refused, DoRead, DoWrite,
              intcVars, quitVars
<1>3. CASE BadAccess \/ BadDma \/ Stop
  BY <1>3 DEF BadAccess, BadDma, Stop, Quit, CpuFree, QuitsOutside, sbdVars, intcVars
<1>4. CASE PlatformInit \/ Poll \/ UNCHANGED boardVars
  BY <1>4 DEF PlatformInit, Poll, boardVars, QuitsOutside, sbdVars, intcVars, quitVars
<1>5. CASE Read \/ RamStore \/ SbdStore \/ LcdcStore \/ SpiStore \/ GpioStore
  BY <1>5 DEF Read, RamStore, SbdStore, LcdcStore, SpiStore, GpioStore, Access, CpuFree, WriteRam,
              QuitsOutside, sbdVars, intcVars, quitVars
<1>6. CASE IntcStore \/ Interrupting
  BY <1>6 DEF IntcStore, Interrupting, Access, CpuFree, QuitsOutside, sbdVars, quitVars
<1> QED BY <1>1, <1>2, <1>3, <1>4, <1>5, <1>6 DEF BoardNext

\* The parts are functions of what a save leaves alone.
LEMMA PartsKept ==
  ASSUME UNCHANGED <<ram, irqFlag, reg>>
  PROVE  CpuPart' = CpuPart /\ IntcPart' = IntcPart
BY DEF CpuPart, IntcPart, BankChunks, Recordable

LEMMA SaveInvStep == SaveInv /\ QuitsOutside /\ [BoardNext]_boardVars => SaveInv' /\ QuitsOutside'
<1> SUFFICES ASSUME SaveInv, QuitsOutside, [BoardNext]_boardVars PROVE SaveInv' /\ QuitsOutside'
  OBVIOUS
<1>a. ASSUME NEW chunks, NEW next, Save(chunks, next), stage # "run"
      PROVE  UNCHANGED <<ram, irqFlag, reg>> /\ CpuPart' = CpuPart /\ IntcPart' = IntcPart /\ QuitsOutside'
  <2>1. UNCHANGED <<ram, irqFlag, reg, at, cmd>>
    BY <1>a DEF Save, sbdVars, intcVars
  <2>2. QuitsOutside'
    BY <1>a, <2>1 DEF QuitsOutside
  <2> QED BY <2>1, <2>2, PartsKept
<1>b. ASSUME \E T : file' \in Seq(T), written' \in 0 .. Len(file'), stage' = "exited",
             Ending \notin Wrote'
      PROVE  SaveInv'
  <2>1. written' > 0 => written' \in 1 .. written'
    BY <1>b
  <2>2. written' > 0 => file'[written'] \in Wrote'
    BY <2>1 DEF Wrote
  <2> QED BY <1>b, <2>2 DEF SaveInv
<1>1. CASE SaveOpen
  <2>1. stage = "open" /\ Save(CpuChunks, "intc") /\ written = 0
    BY <1>1 DEF SaveOpen, SaveInv
  <2>2. Wrote = {}
    BY <2>1 DEF Wrote
  <2>3. PICK S : CpuChunks \in Seq(S)
    BY CpuHolds
  <2>4. ChunksOf(CpuChunks) = CpuPart
    BY CpuHolds
  <2>5. /\ \E T : file' \in Seq(T)
        /\ written' \in 0 .. Len(file')
        /\ \/ stage' = "intc" /\ Wrote' = CpuPart
           \/ stage' = "exited" /\ Wrote' \subseteq CpuPart
    BY <2>1, <2>2, <2>3, <2>4, SaveWrites
  <2>6. CpuPart' = CpuPart /\ QuitsOutside'
    BY <1>a, <2>1
  <2>7. CASE stage' = "intc" /\ Wrote' = CpuPart
    BY <2>5, <2>6, <2>7 DEF SaveInv
  <2>8. CASE stage' = "exited" /\ Wrote' \subseteq CpuPart
    <3>1. Ending \notin Wrote'
      BY <2>8, PartsDoNotEnd
    <3> QED BY <1>b, <2>5, <2>6, <2>8, <3>1
  <2> QED BY <2>5, <2>6, <2>7, <2>8
<1>2. CASE SaveIntc
  <2>1. stage = "intc" /\ Save(PlatformChunks, "uart") /\ Wrote = CpuPart
    BY <1>2 DEF SaveIntc, SaveInv
  <2>3. PICK S : PlatformChunks \in Seq(S)
    BY PlatformHolds
  <2>4. ChunksOf(PlatformChunks) = IntcPart
    BY PlatformHolds
  <2>5. /\ \E T : file' \in Seq(T)
        /\ written' \in 0 .. Len(file')
        /\ \/ stage' = "uart" /\ Wrote' = CpuPart \cup IntcPart
           \/ stage' = "exited" /\ Wrote' \subseteq CpuPart \cup IntcPart
    BY <2>1, <2>3, <2>4, SaveWrites
  <2>6. CpuPart' = CpuPart /\ IntcPart' = IntcPart /\ QuitsOutside'
    BY <1>a, <2>1
  <2>7. CASE stage' = "uart" /\ Wrote' = CpuPart \cup IntcPart
    BY <2>5, <2>6, <2>7 DEF SaveInv
  <2>8. CASE stage' = "exited" /\ Wrote' \subseteq CpuPart \cup IntcPart
    <3>1. Ending \notin Wrote'
      BY <2>8, PartsDoNotEnd
    <3> QED BY <1>b, <2>5, <2>6, <2>8, <3>1
  <2> QED BY <2>5, <2>6, <2>7, <2>8
<1>3. CASE SaveUart
  <2>1. stage = "uart" /\ Save(<<Ending>>, "exited") /\ Wrote = CpuPart \cup IntcPart
    BY <1>3 DEF SaveUart, SaveInv, Ending
  <2>3. PICK S : <<Ending>> \in Seq(S)
    BY PlatformHolds
  <2>4. ChunksOf(<<Ending>>) = {Ending}
    BY PlatformHolds
  <2>5. /\ \E T : file' \in Seq(T)
        /\ written' \in 0 .. Len(file')
        /\ stage' = "exited"
        /\ Wrote \subseteq Wrote' /\ Wrote' \subseteq CpuPart \cup IntcPart \cup {Ending}
    BY <2>1, <2>3, <2>4, SaveWrites
  <2>6. CpuPart' = CpuPart /\ IntcPart' = IntcPart /\ QuitsOutside'
    BY <1>a, <2>1
  <2>7. CASE Ending \notin Wrote'
    BY <1>b, <2>5, <2>6, <2>7
  <2>8. CASE Ending \in Wrote'
    <3>1. Wrote' = CpuPart' \cup IntcPart' \cup {Ending}
      BY <2>1, <2>5, <2>6, <2>8
    <3> QED BY <2>5, <2>6, <3>1 DEF SaveInv, Ending
  <2> QED BY <2>7, <2>8
<1>4. CASE ~(SaveOpen \/ SaveIntc \/ SaveUart)
  <2>1. /\ UNCHANGED <<file, written>> /\ QuitsOutside'
        /\ \/ stage = "run" /\ stage' \in {"run", "open", "exited"}
           \/ stage' = stage /\ UNCHANGED <<ram, irqFlag, reg>>
    BY <1>4, NotSaving
  <2>2. CASE stage = "run" /\ stage' \in {"run", "open", "exited"}
    BY <2>1, <2>2 DEF SaveInv
  <2>3. CASE stage' = stage /\ UNCHANGED <<ram, irqFlag, reg>>
    <3>1. CpuPart' = CpuPart /\ IntcPart' = IntcPart /\ Wrote' = Wrote
      BY <2>1, <2>3, PartsKept DEF Wrote
    <3> QED BY <2>1, <2>3, <3>1 DEF SaveInv, Ending
  <2> QED BY <2>1, <2>2, <2>3
<1> QED BY <1>1, <1>2, <1>3, <1>4

\* What a whole file says of the bank.
LEMMA RecordedIsRam ==
  ASSUME SaveInv, WholeSave, NEW a \in Bank0
  PROVE  Recorded(a) = ram[a]
<1> DEFINE Is(i) == file[i][1] = "MEMBLK" /\ file[i][2] = a
<1>1. DOMAIN file = 1 .. written
  BY DEF SaveInv, WholeSave
<1>2. Wrote = CpuPart \cup IntcPart \cup {Ending}
  BY DEF SaveInv, WholeSave, Ending
<1>3. ASSUME NEW i \in DOMAIN file, Is(i) PROVE file[i][3] = ram[a]
  <2>1. file[i] \in CpuPart \cup IntcPart \cup {Ending}
    BY <1>1, <1>2 DEF Wrote
  <2>2. file[i] \in BankChunks(Map[1].base + Map[1].size - 1)
    BY <1>3, <2>1 DEF CpuPart, IntcPart, Ending
  <2> QED BY <1>3, <2>2 DEF BankChunks, Recordable
<1>4. ASSUME ram[a] # Zero PROVE \E i \in DOMAIN file : Is(i)
  <2>1. Recordable(a) \in Wrote
    BY <1>2, <1>4 DEF CpuPart, BankChunks, Bank0, Region
  <2>2. PICK i \in 1 .. written : file[i] = Recordable(a)
    BY <2>1 DEF Wrote
  <2> QED BY <1>1, <2>2 DEF Recordable
<1>5. CASE \E i \in DOMAIN file : Is(i)
  <2> DEFINE c == CHOOSE i \in DOMAIN file : Is(i)
  <2>1. c \in DOMAIN file /\ Is(c)
    BY <1>5
  <2>2. Recorded(a) = file[c][3]
    BY <1>5 DEF Recorded
  <2> HIDE DEF c, Is
  <2> QED BY <1>3, <2>1, <2>2
<1>6. CASE ~\E i \in DOMAIN file : Is(i)
  BY <1>4, <1>6 DEF Recorded
<1> QED BY <1>5, <1>6

(* When sim_quit has written the state file to its end, wherever in a      *)
(* device's access the machine stopped and whatever file was there before, *)
(* the file tells every block of the bank and the interrupt controller's   *)
(* registers and output (state_save_open, platform_state_save).            *)
THEOREM SaveRecordsTheMachine == ASSUME Thread = {CPU} PROVE BoardSpec => []SavedIsTheMachine
<1> DEFINE Inv == SaveInv /\ QuitsOutside
<1>1. BoardInit => Inv
  BY SaveInvInit
<1>2. Inv /\ [BoardNext]_boardVars => Inv'
  BY SaveInvStep
<1>3. Inv /\ AloneInv => SavedIsTheMachine
  <2> SUFFICES ASSUME SaveInv, QuitsOutside, AloneInv, WholeSave
               PROVE  /\ \A a \in Bank0 : Recorded(a) = ram[a]
                      /\ <<"CPU", reg["ISR"] \cap reg["IER"] # {}>> \in {file[i] : i \in DOMAIN file}
                      /\ <<"IC_ISR", reg["ISR"]>> \in {file[i] : i \in DOMAIN file}
                      /\ <<"IC_IER", reg["IER"]>> \in {file[i] : i \in DOMAIN file}
    BY DEF SavedIsTheMachine
  <2>1. {file[i] : i \in DOMAIN file} = CpuPart \cup IntcPart \cup {Ending}
    <3>1. DOMAIN file = 1 .. written
      BY DEF SaveInv, WholeSave
    <3>2. Wrote = CpuPart \cup IntcPart \cup {Ending}
      BY DEF SaveInv, WholeSave, Ending
    <3> QED BY <3>1, <3>2 DEF Wrote
  <2>2. irqFlag = (reg["ISR"] \cap reg["IER"] # {})
    BY DEF WholeSave, QuitsOutside, AloneInv, InputFollows, Pending
  <2>3. <<"CPU", irqFlag>> \in CpuPart
    BY DEF CpuPart
  <2> QED BY <2>1, <2>2, <2>3, RecordedIsRam DEF IntcPart
<1> HIDE DEF Inv
<1>4. IntcSpec => []AloneInv
  BY AloneInvariant
<1> QED BY <1>1, <1>2, <1>3, <1>4, BoardImplementsItsParts, PTL DEF BoardSpec
-----------------------------------------------------------------------------
(* SPIDevGPIO: bytes through the pins *)

Bit == (Channel \X Nat \X Nat) \cup {<<"none">>}
Heard == {<<"slave", n>> : n \in Int} \cup {<<"any">>}
SlaveState == [cpol : BOOLEAN, cpha : BOOLEAN, n : Int, got : Seq(Bit)]
Wire == [clk : BOOLEAN, dout : Bit, slave : SlaveState, mode : Mode, tuned : BOOLEAN]

\* The slave listens, and in the mode it is driven in.
InTune(w) ==
  w \in Wire /\ w.tuned /\ w.mode.cpol = w.slave.cpol /\ w.mode.cpha = w.slave.cpha

\* The clock has left its resting level.
Away(w) == w.clk # w.slave.cpol

\* What a wire keeps whatever the clock does.
SameSetting(v, w) ==
  /\ v.mode = w.mode /\ v.tuned = w.tuned
  /\ v.slave.cpol = w.slave.cpol /\ v.slave.cpha = w.slave.cpha

LEMMA ClockedType ==
  ASSUME NEW w \in Wire, NEW level \in BOOLEAN
  PROVE  /\ Clocked(w, level) \in Wire
         /\ SameSetting(Clocked(w, level), w)
         /\ Clocked(w, level).dout = w.dout /\ Clocked(w, level).clk = level
<1>1. /\ w.clk \in BOOLEAN /\ w.dout \in Bit /\ w.slave \in SlaveState
      /\ w.slave.got \in Seq(Bit) /\ w.slave.n \in Int
  BY DEF Wire, SlaveState
<1>2. Append(w.slave.got, w.dout) \in Seq(Bit) /\ w.slave.n + 1 \in Int
  BY <1>1
<1> DEFINE v == [w EXCEPT !.clk = level]
<1>3. v \in Wire /\ SameSetting(v, w) /\ v.dout = w.dout /\ v.clk = level /\ v.slave = w.slave
  BY DEF Wire, SameSetting
<1> DEFINE g == [v EXCEPT !.slave.got = Append(@, w.dout)]
           m == [v EXCEPT !.slave.n = @ + 1]
<1>4. g \in Wire /\ SameSetting(g, w) /\ g.dout = w.dout /\ g.clk = level
  BY <1>1, <1>2 DEF Wire, SameSetting, SlaveState
<1>5. m \in Wire /\ SameSetting(m, w) /\ m.dout = w.dout /\ m.clk = level
  BY <1>1, <1>2 DEF Wire, SameSetting, SlaveState
<1>6. Clocked(w, level) \in {v, g, m}
  BY DEF Clocked
<1> HIDE DEF v, g, m
<1> QED BY <1>3, <1>4, <1>5, <1>6

\* setClk: an edge that samples, an edge that presents the next bit, or none.
LEMMA SetClkDoes ==
  ASSUME NEW w, InTune(w), NEW on \in BOOLEAN
  PROVE  LET v == SetClk(w, on) IN
           /\ InTune(v) /\ v.mode = w.mode /\ v.dout = w.dout /\ Away(v) = on
           /\ v.slave.got = IF on = Away(w) \/ on = w.slave.cpha THEN w.slave.got
                            ELSE Append(w.slave.got, w.dout)
           /\ v.slave.n = IF on # Away(w) /\ on = w.slave.cpha THEN w.slave.n + 1 ELSE w.slave.n
<1> DEFINE level == on # w.slave.cpol
           v == Clocked(w, level)
<1>1. /\ w \in Wire /\ w.tuned = TRUE /\ w.clk \in BOOLEAN /\ w.slave.cpol \in BOOLEAN
      /\ w.slave.cpha \in BOOLEAN /\ w.mode.cpol = w.slave.cpol
  BY DEF InTune, Wire, SlaveState
<1>2. SetClk(w, on) = v
  BY <1>1 DEF SetClk
<1>3. v \in Wire /\ SameSetting(v, w) /\ v.dout = w.dout /\ v.clk = level
  BY <1>1, ClockedType
<1>4. InTune(v) /\ v.mode = w.mode
  BY <1>3 DEF InTune, SameSetting
<1>5. Away(v) = on
  BY <1>1, <1>3, Zenon DEF Away, SameSetting
<1>6. (level = w.clk) = (on = Away(w))
  BY <1>1, Zenon DEF Away
<1>7. (level # w.slave.cpol) = on
  BY <1>1, Zenon
<1>8. CASE on = Away(w)
  <2>0. level = w.clk
    BY <1>6, <1>8, Zenon
  <2>1. v = [w EXCEPT !.clk = level]
    BY <2>0, Zenon DEF Clocked
  <2>2. v.slave = w.slave
    BY <1>1, <2>1 DEF Wire
  <2> HIDE DEF v, level
  <2> QED BY <1>2, <1>3, <1>4, <1>5, <1>8, <2>2
<1>9. CASE on # Away(w) /\ on # w.slave.cpha
  <2>1. v = [[w EXCEPT !.clk = level] EXCEPT !.slave.got = Append(@, w.dout)]
    BY <1>1, <1>6, <1>7, <1>9 DEF Clocked
  <2> HIDE DEF v, level
  <2>2. v.slave.got = Append(w.slave.got, w.dout) /\ v.slave.n = w.slave.n
    BY <1>1, <2>1 DEF Wire, SlaveState
  <2> QED BY <1>2, <1>3, <1>4, <1>5, <1>9, <2>2
<1>10. CASE on # Away(w) /\ on = w.slave.cpha
  <2>1. v = [[w EXCEPT !.clk = level] EXCEPT !.slave.n = @ + 1]
    BY <1>1, <1>6, <1>7, <1>10 DEF Clocked
  <2> HIDE DEF v, level
  <2>2. v.slave.got = w.slave.got /\ v.slave.n = w.slave.n + 1
    BY <1>1, <2>1 DEF Wire, SlaveState
  <2> QED BY <1>2, <1>3, <1>4, <1>5, <1>10, <2>2
<1> QED BY <1>8, <1>9, <1>10

LEMMA SetClkType ==
  ASSUME NEW w \in Wire, NEW on \in BOOLEAN
  PROVE  SetClk(w, on) \in Wire /\ SameSetting(SetClk(w, on), w)
<1>1. (on # w.mode.cpol) \in BOOLEAN
  OBVIOUS
<1> QED BY <1>1, ClockedType DEF SetClk

ByteState == [w : Wire, r : Seq(Heard)]
TxBits == [0 .. ByteBits - 1 -> Bit]

\* What getPutByte makes of bit k.
ByteTurn(cpha, tx, k, p) ==
  LET w == [p.w EXCEPT !.dout = tx[ByteBits - k]]
      v == SetClk(w, ~cpha)
  IN [w |-> IF cpha /\ k = ByteBits THEN v ELSE SetClk(v, cpha), r |-> Append(p.r, Din(w))]

ByteFirst(w0) == [w |-> SetClk(w0, w0.mode.cpha), r |-> <<>>]

ByteStates(w0, tx, s) ==
  s = [k \in 0 .. ByteBits |-> IF k = 0 THEN ByteFirst(w0) ELSE ByteTurn(w0.mode.cpha, tx, k, s[k - 1])]

LEMMA SetDoutType ==
  ASSUME NEW w \in Wire, NEW b \in Bit
  PROVE  /\ [w EXCEPT !.dout = b] \in Wire /\ SameSetting([w EXCEPT !.dout = b], w)
         /\ [w EXCEPT !.dout = b].dout = b
         /\ [w EXCEPT !.dout = b].slave = w.slave /\ [w EXCEPT !.dout = b].clk = w.clk
BY DEF Wire, SameSetting

LEMMA DinType == ASSUME NEW w \in Wire PROVE Din(w) \in Heard
<1>1. w.slave.n \in Int
  BY DEF Wire, SlaveState
<1> QED BY <1>1 DEF Din, Heard

LEMMA ByteTurnType ==
  ASSUME NEW cpha \in BOOLEAN, NEW tx \in TxBits, NEW k \in 1 .. ByteBits, NEW p \in ByteState
  PROVE  /\ ByteTurn(cpha, tx, k, p) \in ByteState
         /\ SameSetting(ByteTurn(cpha, tx, k, p).w, p.w)
<1> DEFINE w == [p.w EXCEPT !.dout = tx[ByteBits - k]]
           v == SetClk(w, ~cpha)
           u == SetClk(v, cpha)
<1>1. p.w \in Wire /\ p.r \in Seq(Heard)
  BY DEF ByteState
<1>2. tx[ByteBits - k] \in Bit
  <2>1. ByteBits - k \in 0 .. ByteBits - 1
    BY SpiAssumption
  <2> QED BY <2>1 DEF TxBits
<1>3. w \in Wire /\ SameSetting(w, p.w)
  BY <1>1, <1>2, SetDoutType
<1> HIDE DEF w
<1>4. v \in Wire /\ SameSetting(v, w)
  BY <1>3, SetClkType
<1> HIDE DEF v
<1>5. u \in Wire /\ SameSetting(u, v)
  BY <1>4, SetClkType
<1> HIDE DEF u
<1>6. Append(p.r, Din(w)) \in Seq(Heard)
  <2>1. Din(w) \in Heard
    BY <1>3, DinType
  <2> QED BY <1>1, <2>1
<1>7. ByteTurn(cpha, tx, k, p) = [w |-> IF cpha /\ k = ByteBits THEN v ELSE u, r |-> Append(p.r, Din(w))]
  BY Zenon DEF ByteTurn, w, v, u
<1>8. SameSetting(v, p.w) /\ SameSetting(u, p.w)
  BY <1>3, <1>4, <1>5 DEF SameSetting
<1> QED BY <1>4, <1>5, <1>6, <1>7, <1>8 DEF ByteState

\* GetPutByte is the loop.
LEMMA ByteRuns ==
  ASSUME NEW w0 \in Wire, NEW tx \in TxBits
  PROVE  \E s \in [0 .. ByteBits -> ByteState] :
           /\ s[0] = ByteFirst(w0)
           /\ \A k \in 1 .. ByteBits : s[k] = ByteTurn(w0.mode.cpha, tx, k, s[k - 1])
           /\ GetPutByte(w0, tx) = [w |-> SetClk(s[ByteBits].w, FALSE), r |-> s[ByteBits].r]
<1> DEFINE n == ByteBits
           first == ByteFirst(w0)
           cpha == w0.mode.cpha
           step == [x \in (1 .. n) \X ByteState |-> ByteTurn(cpha, tx, x[1], x[2])]
<1>0. n \in Nat /\ cpha \in BOOLEAN
  BY SpiAssumption DEF Wire, Mode
<1>1. first \in ByteState
  BY <1>0, SetClkType DEF ByteState, ByteFirst
<1>2. step \in [(1 .. n) \X ByteState -> ByteState]
  BY <1>0, ByteTurnType
<1>3. \E s : ByteStates(w0, tx, s)
  <2> HIDE DEF n, first, cpha
  <2>1. PICK s \in [0 .. n -> ByteState] :
          s[0] = first /\ \A i \in 1 .. n : s[i] = step[<<i, s[i - 1]>>]
    <3> HIDE DEF step
    <3>1. \E s \in [0 .. n -> ByteState] : Turned(n, s, first, step)
      BY <1>0, <1>1, <1>2, LoopRuns
    <3> QED BY <3>1 DEF Turned
  <2>2. ASSUME NEW i \in 1 .. n PROVE s[i] = ByteTurn(cpha, tx, i, s[i - 1])
    <3>1. i - 1 \in 0 .. n
      BY <1>0
    <3>2. <<i, s[i - 1]>> \in (1 .. n) \X ByteState
      BY <2>1, <3>1
    <3> QED BY <2>1, <3>2
  <2>3. s = [i \in 0 .. n |-> IF i = 0 THEN first ELSE ByteTurn(cpha, tx, i, s[i - 1])]
    <3>1. \A i \in 0 .. n : i # 0 => i \in 1 .. n
      BY <1>0
    <3> QED BY <2>1, <2>2, <3>1
  <2> QED BY <2>3 DEF ByteStates, n, first, cpha
<1> DEFINE s == CHOOSE s : ByteStates(w0, tx, s)
<1>4. ByteStates(w0, tx, s)
  BY <1>3
<1>5. GetPutByte(w0, tx) = [w |-> SetClk(s[n].w, FALSE), r |-> s[n].r]
  BY Zenon DEF GetPutByte, ByteStates, ByteTurn, ByteFirst
<1> HIDE DEF s
<1>6. s[0] = first /\ \A i \in 1 .. n : s[i] = ByteTurn(cpha, tx, i, s[i - 1])
  <2> HIDE DEF first, cpha
  <2> QED BY <1>0, <1>4 DEF ByteStates, first, cpha
<1>7. \A i \in 0 .. n : s[i] \in ByteState
  <2>1. \A i \in 1 .. n : s[i - 1] \in ByteState => s[i] \in ByteState
    BY <1>0, <1>6, ByteTurnType, ZenonT(60)
  <2> HIDE DEF first, n
  <2> QED BY <1>0, <1>1, <1>6, <2>1, LoopKeeps
<1>8. s \in [0 .. n -> ByteState]
  BY <1>4, <1>7 DEF ByteStates
<1> QED BY <1>5, <1>6, <1>8

\* A byte leaves the setting of the wires as it was, heard or not.
LEMMA ByteKeepsSetting ==
  ASSUME NEW w0 \in Wire, NEW tx \in TxBits
  PROVE  LET b == GetPutByte(w0, tx) IN
           b.w \in Wire /\ SameSetting(b.w, w0) /\ b.r \in Seq(Heard)
<1>1. ByteBits \in Nat /\ w0.mode.cpha \in BOOLEAN
  BY SpiAssumption DEF Wire, Mode
<1>2. PICK s \in [0 .. ByteBits -> ByteState] :
        /\ s[0] = ByteFirst(w0)
        /\ \A k \in 1 .. ByteBits : s[k] = ByteTurn(w0.mode.cpha, tx, k, s[k - 1])
        /\ GetPutByte(w0, tx) = [w |-> SetClk(s[ByteBits].w, FALSE), r |-> s[ByteBits].r]
  BY ByteRuns
<1> DEFINE Kept1 == {p \in ByteState : SameSetting(p.w, w0)}
<1>3. s[0] \in Kept1
  BY <1>1, <1>2, SetClkType DEF ByteFirst, ByteState
<1>4. ASSUME NEW k \in 1 .. ByteBits, s[k - 1] \in Kept1 PROVE s[k] \in Kept1
  <2>1. s[k] \in ByteState /\ SameSetting(s[k].w, s[k - 1].w)
    BY <1>1, <1>2, <1>4, ByteTurnType
  <2> QED BY <1>4, <2>1 DEF SameSetting
<1>5. \A k \in 0 .. ByteBits : s[k] \in Kept1
  <2> HIDE DEF Kept1
  <2> QED BY <1>1, <1>3, <1>4, LoopKeeps
<1>6. s[ByteBits] \in ByteState /\ SameSetting(s[ByteBits].w, w0)
  BY <1>1, <1>5
<1>7. s[ByteBits].w \in Wire /\ s[ByteBits].r \in Seq(Heard)
  BY <1>6 DEF ByteState
<1>8. SetClk(s[ByteBits].w, FALSE) \in Wire /\ SameSetting(SetClk(s[ByteBits].w, FALSE), s[ByteBits].w)
  BY <1>7, SetClkType
<1> DEFINE b == GetPutByte(w0, tx)
<1>9. b.w = SetClk(s[ByteBits].w, FALSE) /\ b.r = s[ByteBits].r
  BY <1>2
<1> HIDE DEF b
<1>10. b.w \in Wire /\ SameSetting(b.w, w0) /\ b.r \in Seq(Heard)
  BY <1>6, <1>7, <1>8, <1>9 DEF SameSetting
<1> QED BY <1>10 DEF b

\* Between bytes: the clock rests, and the slave presents the bit after those it has taken.
Resting(w) ==
  /\ InTune(w) /\ ~Away(w)
  /\ w.slave.n = Len(w.slave.got) - (IF w.slave.cpha THEN 1 ELSE 0)

(* Within a byte, after k bits: the slave has the first k bits and the     *)
(* host has the k that the slave presented; the clock stands where the     *)
(* next bit is presented, or rests after the last one of phase 1.          *)
InByte(w0, tx, k, p) ==
  LET L == Len(w0.slave.got)
      cpha == w0.slave.cpha
  IN /\ p \in ByteState /\ InTune(p.w) /\ SameSetting(p.w, w0)
     /\ Len(p.w.slave.got) = L + k
     /\ \A i \in 1 .. L : p.w.slave.got[i] = w0.slave.got[i]
     /\ \A i \in 1 .. k : p.w.slave.got[L + i] = tx[ByteBits - i]
     /\ Len(p.r) = k
     /\ \A i \in 1 .. k : p.r[i] = <<"slave", L + i - 1>>
     /\ IF cpha /\ k = ByteBits THEN ~Away(p.w) /\ p.w.slave.n = L + k - 1
        ELSE Away(p.w) = cpha /\ p.w.slave.n = L + k

\* A turn in tune.
LEMMA TurnInTune ==
  ASSUME NEW tx \in TxBits, NEW k \in 1 .. ByteBits, NEW p \in ByteState, NEW cpha \in BOOLEAN,
         InTune(p.w), p.w.slave.cpha = cpha, Away(p.w) = cpha
  PROVE  LET q == ByteTurn(cpha, tx, k, p) IN
           /\ q \in ByteState /\ InTune(q.w) /\ SameSetting(q.w, p.w)
           /\ q.w.slave.got = Append(p.w.slave.got, tx[ByteBits - k])
           /\ q.r = Append(p.r, <<"slave", p.w.slave.n>>)
           /\ IF cpha /\ k = ByteBits THEN ~Away(q.w) /\ q.w.slave.n = p.w.slave.n
              ELSE Away(q.w) = cpha /\ q.w.slave.n = p.w.slave.n + 1
<1> DEFINE b == tx[ByteBits - k]
           w == [p.w EXCEPT !.dout = b]
           v == SetClk(w, ~cpha)
           u == SetClk(v, cpha)
           q == ByteTurn(cpha, tx, k, p)
<1>1. b \in Bit
  <2>1. ByteBits - k \in 0 .. ByteBits - 1
    BY SpiAssumption
  <2> QED BY <2>1 DEF TxBits
<1>2. w \in Wire /\ SameSetting(w, p.w) /\ w.dout = b /\ w.slave = p.w.slave /\ w.clk = p.w.clk
  BY <1>1, SetDoutType DEF ByteState
<1> HIDE DEF b, w
<1>3. InTune(w) /\ Away(w) = cpha
  BY <1>2 DEF InTune, Away, SameSetting
<1>4. (~cpha) \in BOOLEAN /\ (~cpha) # cpha
  OBVIOUS
<1>5. InTune(v) /\ v.mode = w.mode /\ Away(v) = ~cpha
      /\ v.slave.got = Append(w.slave.got, w.dout) /\ v.slave.n = w.slave.n
  <2>1. w.slave.cpha = cpha
    BY <1>2
  <2> QED BY <1>3, <1>4, <2>1, SetClkDoes, ZenonT(60)
<1>6. SameSetting(v, w)
  BY <1>2, <1>4, SetClkType
<1> HIDE DEF v
<1>7. InTune(u) /\ Away(u) = cpha /\ u.slave.got = v.slave.got /\ u.slave.n = v.slave.n + 1
  <2>1. v.slave.cpha = cpha
    BY <1>2, <1>6 DEF SameSetting
  <2>2. cpha # Away(v)
    BY <1>4, <1>5
  <2> QED BY <1>5, <2>1, <2>2, SetClkDoes, SMTT(60)
<1> HIDE DEF u
<1>8. q = [w |-> IF cpha /\ k = ByteBits THEN v ELSE u, r |-> Append(p.r, Din(w))]
  BY Zenon DEF ByteTurn, w, v, u, b
<1>9. Din(w) = <<"slave", p.w.slave.n>>
  BY <1>2, <1>3 DEF Din, InTune
<1>10. q \in ByteState /\ SameSetting(q.w, p.w)
  BY ByteTurnType
<1> HIDE DEF q
<1>11. q.r = Append(p.r, <<"slave", p.w.slave.n>>) /\ q.w = IF cpha /\ k = ByteBits THEN v ELSE u
  BY <1>8, <1>9
<1>12. CASE cpha /\ k = ByteBits
  <2>1. q.w = v /\ ~Away(v)
    BY <1>5, <1>11, <1>12
  <2> QED BY <1>2, <1>5, <1>10, <1>11, <1>12, <2>1 DEF q, b
<1>13. CASE ~(cpha /\ k = ByteBits)
  <2>1. q.w = u
    BY <1>11, <1>13
  <2> QED BY <1>2, <1>5, <1>7, <1>10, <1>11, <1>13, <2>1 DEF q, b
<1> QED BY <1>12, <1>13

\* One more element, by position.
LEMMA AppendedAt ==
  ASSUME NEW S, NEW s \in Seq(S), NEW e \in S, NEW n \in Nat, Len(s) = n
  PROVE  /\ Append(s, e) \in Seq(S) /\ Len(Append(s, e)) = n + 1
         /\ \A i \in 1 .. n : Append(s, e)[i] = s[i]
         /\ Append(s, e)[n + 1] = e
BY AppendProperties

LEMMA InByteNext ==
  ASSUME NEW w0 \in Wire, NEW tx \in TxBits, NEW k \in 1 .. ByteBits, NEW p,
         InByte(w0, tx, k - 1, p)
  PROVE  InByte(w0, tx, k, ByteTurn(w0.slave.cpha, tx, k, p))
<1> DEFINE L == Len(w0.slave.got)
           cpha == w0.slave.cpha
           q == ByteTurn(cpha, tx, k, p)
           g == p.w.slave.got
           h == q.w.slave.got
           b == tx[ByteBits - k]
           a == <<"slave", p.w.slave.n>>
<1>1. L \in Nat /\ cpha \in BOOLEAN /\ ByteBits \in Nat /\ k \in Nat /\ k - 1 \in Nat /\ k - 1 # ByteBits
  BY SpiAssumption DEF Wire, SlaveState
<1>2. p \in ByteState /\ InTune(p.w) /\ SameSetting(p.w, w0) /\ Away(p.w) = cpha
      /\ p.w.slave.n = L + (k - 1) /\ Len(g) = L + (k - 1) /\ Len(p.r) = k - 1
  BY <1>1 DEF InByte
<1>3. (\A i \in 1 .. L : g[i] = w0.slave.got[i]) /\ (\A i \in 1 .. k - 1 : g[L + i] = tx[ByteBits - i])
      /\ \A i \in 1 .. k - 1 : p.r[i] = <<"slave", L + i - 1>>
  BY DEF InByte
<1>4. p.w.slave.cpha = cpha
  BY <1>2 DEF SameSetting
<1>5. /\ q \in ByteState /\ InTune(q.w) /\ SameSetting(q.w, p.w)
      /\ h = Append(g, b) /\ q.r = Append(p.r, a)
      /\ IF cpha /\ k = ByteBits THEN ~Away(q.w) /\ q.w.slave.n = p.w.slave.n
         ELSE Away(q.w) = cpha /\ q.w.slave.n = p.w.slave.n + 1
  <2> HIDE DEF cpha
  <2>1. InTune(p.w) /\ Away(p.w) = cpha /\ p \in ByteState /\ cpha \in BOOLEAN
    BY <1>1, <1>2
  <2>2. LET t == ByteTurn(cpha, tx, k, p) IN
          /\ t \in ByteState /\ InTune(t.w) /\ SameSetting(t.w, p.w)
          /\ t.w.slave.got = Append(p.w.slave.got, tx[ByteBits - k])
          /\ t.r = Append(p.r, <<"slave", p.w.slave.n>>)
          /\ IF cpha /\ k = ByteBits THEN ~Away(t.w) /\ t.w.slave.n = p.w.slave.n
             ELSE Away(t.w) = cpha /\ t.w.slave.n = p.w.slave.n + 1
    BY ONLY <1>4, <2>1, tx \in TxBits, k \in 1 .. ByteBits, TurnInTune, ZenonT(60)
  <2> QED BY <2>2, ZenonT(60)
<1>6. g \in Seq(Bit) /\ p.r \in Seq(Heard) /\ b \in Bit /\ a \in Heard
  <2>1. ByteBits - k \in 0 .. ByteBits - 1
    BY SpiAssumption
  <2>2. b \in Bit
    BY <2>1 DEF TxBits
  <2>3. p.w \in Wire /\ p.r \in Seq(Heard)
    BY <1>2 DEF ByteState
  <2>4. p.w.slave \in SlaveState
    BY <2>3 DEF Wire
  <2>5. g \in Seq(Bit) /\ p.w.slave.n \in Int
    BY <2>4 DEF SlaveState
  <2>6. a \in Heard
    BY <2>5 DEF Heard
  <2> QED BY <2>2, <2>3, <2>5, <2>6
<1> HIDE DEF L, cpha, q, g, h, b, a
<1>7. Len(h) = L + k /\ (\A i \in 1 .. L + (k - 1) : h[i] = g[i]) /\ h[L + k] = b
  <2>1. L + (k - 1) \in Nat /\ (L + (k - 1)) + 1 = L + k
    BY <1>1
  <2>2. /\ Len(Append(g, b)) = (L + (k - 1)) + 1
        /\ \A i \in 1 .. L + (k - 1) : Append(g, b)[i] = g[i]
        /\ Append(g, b)[(L + (k - 1)) + 1] = b
    BY <1>2, <1>6, <2>1, AppendedAt
  <2> QED BY <1>5, <2>1, <2>2
<1>8. Len(q.r) = k /\ (\A i \in 1 .. k - 1 : q.r[i] = p.r[i]) /\ q.r[k] = a
  <2>1. k - 1 \in Nat /\ (k - 1) + 1 = k
    BY <1>1
  <2>2. /\ Len(Append(p.r, a)) = (k - 1) + 1
        /\ \A i \in 1 .. k - 1 : Append(p.r, a)[i] = p.r[i]
        /\ Append(p.r, a)[(k - 1) + 1] = a
    BY <1>2, <1>6, <2>1, AppendedAt
  <2> QED BY <1>5, <2>1, <2>2
<1>9. \A i \in 1 .. L : h[i] = w0.slave.got[i]
  <2>1. \A i \in 1 .. L : i \in 1 .. L + (k - 1)
    BY <1>1
  <2> QED BY <1>3, <1>7, <2>1
<1>10. ASSUME NEW i \in 1 .. k PROVE h[L + i] = tx[ByteBits - i]
  <2>1. CASE i = k
    BY <1>7, <2>1 DEF b
  <2>2. CASE i # k
    <3>1. i \in 1 .. k - 1 /\ L + i \in 1 .. L + (k - 1)
      BY <1>1, <2>2
    <3> QED BY <1>3, <1>7, <3>1
  <2> QED BY <2>1, <2>2
<1>11. ASSUME NEW i \in 1 .. k PROVE q.r[i] = <<"slave", L + i - 1>>
  <2>1. CASE i = k
    <3>1. p.w.slave.n = L + i - 1
      BY <1>1, <1>2, <2>1
    <3> QED BY <1>8, <2>1, <3>1, Zenon DEF a
  <2>2. CASE i # k
    <3>1. i \in 1 .. k - 1
      BY <1>1, <2>2
    <3> QED BY <1>3, <1>8, <3>1
  <2> QED BY <2>1, <2>2
<1>12. IF cpha /\ k = ByteBits THEN ~Away(q.w) /\ q.w.slave.n = L + k - 1
       ELSE Away(q.w) = cpha /\ q.w.slave.n = L + k
  <2>1. p.w.slave.n = L + k - 1 /\ p.w.slave.n + 1 = L + k
    BY <1>1, <1>2
  <2> QED BY <1>5, <2>1, Zenon
<1>13. SameSetting(q.w, w0)
  BY <1>2, <1>5 DEF SameSetting
<1>14. q \in ByteState /\ InTune(q.w)
  BY <1>5
<1> QED BY <1>7, <1>8, <1>9, <1>10, <1>11, <1>12, <1>13, <1>14, Zenon DEF InByte, L, cpha, q, h

\* The loop begins with the clock where the first bit is presented.
LEMMA InByteFirst ==
  ASSUME NEW w0, Resting(w0), NEW tx \in TxBits
  PROVE  InByte(w0, tx, 0, ByteFirst(w0))
<1> DEFINE cpha == w0.slave.cpha
           v == SetClk(w0, cpha)
           L == Len(w0.slave.got)
           p == ByteFirst(w0)
<1>1. InTune(w0) /\ w0 \in Wire /\ w0.mode.cpha = cpha /\ ~Away(w0)
  BY DEF Resting, InTune
<1>2. cpha \in BOOLEAN /\ L \in Nat /\ w0.slave.got \in Seq(Bit) /\ w0.slave.n \in Int
      /\ w0.slave.n = L - (IF cpha THEN 1 ELSE 0) /\ ByteBits \in Nat /\ 0 # ByteBits
  BY <1>1, SpiAssumption DEF Resting, Wire, SlaveState
<1>3. p = [w |-> v, r |-> <<>>]
  BY <1>1 DEF ByteFirst
<1>4. /\ InTune(v) /\ Away(v) = cpha
      /\ v.slave.got = w0.slave.got
      /\ v.slave.n = IF cpha # Away(w0) THEN w0.slave.n + 1 ELSE w0.slave.n
  <2>1. w0.slave.cpha = cpha
    OBVIOUS
  <2> HIDE DEF cpha
  <2>2. CASE cpha # Away(w0)
    <3>1. InTune(v) /\ Away(v) = cpha /\ v.slave.got = w0.slave.got /\ v.slave.n = w0.slave.n + 1
      <4>1. InTune(w0) /\ cpha \in BOOLEAN
        BY <1>1, <1>2
      <4> QED BY <2>1, <2>2, <4>1, SetClkDoes
    <3> HIDE DEF v
    <3> QED BY <2>2, <3>1
  <2>3. CASE cpha = Away(w0)
    <3>1. InTune(v) /\ Away(v) = cpha /\ v.slave.got = w0.slave.got /\ v.slave.n = w0.slave.n
      BY <1>1, <1>2, <2>1, <2>3, SetClkDoes
    <3> HIDE DEF v
    <3> QED BY <2>3, <3>1
  <2> QED BY <2>2, <2>3
<1>5. v \in Wire /\ SameSetting(v, w0)
  BY <1>1, <1>2, SetClkType
<1> HIDE DEF v, cpha, L
<1>6. v.slave.n = L
  <2>1. CASE cpha = TRUE
    <3>1. cpha # Away(w0) /\ w0.slave.n = L - 1
      BY <1>1, <1>2, <2>1
    <3> QED BY <1>2, <1>4, <3>1
  <2>2. CASE cpha = FALSE
    <3>1. cpha = Away(w0) /\ w0.slave.n = L
      BY <1>1, <1>2, <2>2 DEF Away
    <3> QED BY <1>2, <1>4, <3>1
  <2> QED BY <1>2, <2>1, <2>2
<1>7. p.w = v /\ p.r = <<>> /\ p \in ByteState /\ Len(p.r) = 0
  BY <1>3, <1>5 DEF ByteState
<1> HIDE DEF p
<1>8. Len(p.w.slave.got) = L + 0 /\ p.w.slave.n = L + 0
  BY <1>2, <1>4, <1>6, <1>7 DEF L
<1>9. \A i \in 1 .. 0 : FALSE
  OBVIOUS
<1> QED BY <1>2, <1>4, <1>5, <1>7, <1>8, <1>9, Zenon DEF InByte, L, cpha, p

(* getPutByte: the slave gets the byte's bits from the highest on, the     *)
(* host the bits that the slave presents, and the wires rest again.        *)
LEMMA ByteExchanged ==
  ASSUME NEW w0, Resting(w0), NEW tx \in TxBits
  PROVE  LET b == GetPutByte(w0, tx)
             L == Len(w0.slave.got)
         IN /\ Resting(b.w) /\ SameSetting(b.w, w0)
            /\ b.w.slave.got \in Seq(Bit) /\ Len(b.w.slave.got) = L + ByteBits
            /\ \A i \in 1 .. L : b.w.slave.got[i] = w0.slave.got[i]
            /\ \A i \in 1 .. ByteBits : b.w.slave.got[L + i] = tx[ByteBits - i]
            /\ b.r = [i \in 1 .. ByteBits |-> <<"slave", L + i - 1>>]
<1> DEFINE b == GetPutByte(w0, tx)
           L == Len(w0.slave.got)
           cpha == w0.slave.cpha
<1>1. InTune(w0) /\ w0 \in Wire /\ w0.mode.cpha = cpha /\ ByteBits \in Nat \ {0}
  BY SpiAssumption DEF Resting, InTune
<1>2. PICK s \in [0 .. ByteBits -> ByteState] :
        /\ s[0] = ByteFirst(w0)
        /\ \A k \in 1 .. ByteBits : s[k] = ByteTurn(w0.mode.cpha, tx, k, s[k - 1])
        /\ b = [w |-> SetClk(s[ByteBits].w, FALSE), r |-> s[ByteBits].r]
  BY <1>1, ByteRuns
<1> DEFINE All == {k \in 0 .. ByteBits : InByte(w0, tx, k, s[k])}
<1>3. 0 \in All
  BY <1>1, <1>2, InByteFirst
<1>4. ASSUME NEW i \in 0 .. ByteBits - 1, i \in All PROVE i + 1 \in All
  <2> DEFINE k == i + 1
  <2>1. k \in 1 .. ByteBits /\ k - 1 = i /\ k \in 0 .. ByteBits
    BY <1>1
  <2> HIDE DEF k
  <2>2. InByte(w0, tx, k - 1, s[i]) /\ s[k] = ByteTurn(cpha, tx, k, s[i])
    BY <1>1, <1>2, <1>4, <2>1
  <2>3. InByte(w0, tx, k, s[k])
    BY <1>1, <2>1, <2>2, InByteNext
  <2> QED BY <2>1, <2>3 DEF k
<1>5. InByte(w0, tx, ByteBits, s[ByteBits])
  <2> HIDE DEF All
  <2>1. 0 .. ByteBits \subseteq All
    BY <1>1, <1>3, <1>4, IntervalInduction
  <2>2. ByteBits \in 0 .. ByteBits
    BY <1>1
  <2>3. ByteBits \in All
    BY <2>1, <2>2
  <2> QED BY <2>3 DEF All
<1> DEFINE w == s[ByteBits].w
           r == s[ByteBits].r
           v == SetClk(w, FALSE)
<1>6. /\ InTune(w) /\ SameSetting(w, w0) /\ w \in Wire /\ r \in Seq(Heard)
      /\ Len(w.slave.got) = L + ByteBits
      /\ Len(r) = ByteBits
      /\ IF cpha /\ ByteBits = ByteBits THEN ~Away(w) /\ w.slave.n = L + ByteBits - 1
         ELSE Away(w) = cpha /\ w.slave.n = L + ByteBits
  BY <1>5 DEF InByte, ByteState
<1>7. /\ \A i \in 1 .. L : w.slave.got[i] = w0.slave.got[i]
      /\ \A i \in 1 .. ByteBits : w.slave.got[L + i] = tx[ByteBits - i]
      /\ \A i \in 1 .. ByteBits : r[i] = <<"slave", L + i - 1>>
  BY <1>5, ZenonT(60) DEF InByte
<1>8. b.w = v /\ b.r = r
  BY <1>2
<1> HIDE DEF w, r, b, cpha, L
<1>9. cpha \in BOOLEAN /\ L \in Nat /\ w.slave.got \in Seq(Bit) /\ w.slave.cpha = cpha
  BY <1>1, <1>6 DEF Wire, SlaveState, cpha, L, SameSetting
<1>10. ~Away(w)
  BY <1>6, <1>9 DEF Away
<1>11. /\ InTune(v) /\ ~Away(v) /\ v.slave.got = w.slave.got /\ v.slave.n = w.slave.n
  <2>1. FALSE = Away(w)
    BY <1>10 DEF Away
  <2> QED BY <1>6, <2>1, SetClkDoes
<1>12. SameSetting(v, w)
  BY <1>6, SetClkType, SMTT(60)
<1> HIDE DEF v
<1>13. SameSetting(v, w0) /\ v.slave.cpha = cpha
  BY <1>6, <1>9, <1>12 DEF SameSetting
<1>14. v.slave.n = Len(v.slave.got) - (IF v.slave.cpha THEN 1 ELSE 0)
  <2> DEFINE x == v.slave.n
             y == Len(v.slave.got)
  <2>0. ByteBits \in Nat /\ L \in Nat /\ y = L + ByteBits /\ x = w.slave.n
    BY <1>1, <1>6, <1>9, <1>11
  <2>1. CASE cpha = TRUE
    <3>1. x = L + ByteBits - 1 /\ v.slave.cpha = TRUE
      BY <1>6, <1>11, <1>13, <2>1
    <3> HIDE DEF x, y
    <3>2. x = y - 1
      BY <2>0, <3>1
    <3> QED BY <3>1, <3>2, Zenon DEF x, y
  <2>2. CASE cpha = FALSE
    <3>1. x = L + ByteBits /\ v.slave.cpha = FALSE
      BY <1>6, <1>11, <1>13, <2>2
    <3> HIDE DEF x, y
    <3>2. x = y - 0
      BY <2>0, <3>1
    <3> QED BY <3>1, <3>2, Zenon DEF x, y
  <2> QED BY <1>9, <2>1, <2>2
<1>15. Resting(v)
  BY <1>11, <1>14 DEF Resting
<1>16. r = [i \in 1 .. ByteBits |-> <<"slave", L + i - 1>>]
  <2>1. DOMAIN r = 1 .. ByteBits /\ r = [i \in DOMAIN r |-> r[i]]
    BY <1>6, LenProperties
  <2> QED BY <1>7, <2>1, Zenon
<1>17. Resting(b.w) /\ SameSetting(b.w, w0) /\ b.w.slave.got = w.slave.got
  BY <1>8, <1>11, <1>13, <1>15, ZenonT(60)
<1>18. b.w.slave.got \in Seq(Bit) /\ Len(b.w.slave.got) = L + ByteBits
  BY <1>6, <1>9, <1>17, ZenonT(60)
<1>19. /\ \A i \in 1 .. L : b.w.slave.got[i] = w0.slave.got[i]
       /\ \A i \in 1 .. ByteBits : b.w.slave.got[L + i] = tx[ByteBits - i]
  BY <1>7, <1>17, ZenonT(60)
<1>20. b.r = [i \in 1 .. ByteBits |-> <<"slave", L + i - 1>>]
  BY <1>8, <1>16, ZenonT(60)
<1> QED BY <1>17, <1>18, <1>19, <1>20, ZenonT(60) DEF b, L

TransferState == [w : Wire, r : Seq(Seq(Heard))]

\* What doTransfer makes of byte i - 1.
TransferTurn(ch, i, p) ==
  LET b == GetPutByte(p.w, TxByte(ch, i - 1)) IN [w |-> b.w, r |-> Append(p.r, b.r)]

TransferStates(w0, ch, len, s) ==
  s = [i \in 0 .. len + 1 |-> IF i = 0 THEN [w |-> w0, r |-> <<>>] ELSE TransferTurn(ch, i, s[i - 1])]

LEMMA TxByteType ==
  ASSUME NEW ch \in Channel, NEW i \in Nat
  PROVE  /\ TxByte(ch, i) \in TxBits
         /\ \A k \in 1 .. ByteBits : TxByte(ch, i)[ByteBits - k] = <<ch, i, ByteBits - k>>
<1>1. \A b \in 0 .. ByteBits - 1 : <<ch, i, b>> \in Bit
  BY SpiAssumption DEF Bit
<1>2. TxByte(ch, i) \in TxBits
  BY <1>1 DEF TxByte, TxBits
<1>3. \A k \in 1 .. ByteBits : ByteBits - k \in 0 .. ByteBits - 1
  BY SpiAssumption
<1> QED BY <1>2, <1>3 DEF TxByte

LEMMA TransferTurnType ==
  ASSUME NEW ch \in Channel, NEW i \in Nat \ {0}, NEW p \in TransferState
  PROVE  /\ TransferTurn(ch, i, p) \in TransferState
         /\ SameSetting(TransferTurn(ch, i, p).w, p.w)
<1> DEFINE b == GetPutByte(p.w, TxByte(ch, i - 1))
<1>1. i - 1 \in Nat
  OBVIOUS
<1>2. TxByte(ch, i - 1) \in TxBits /\ p.w \in Wire /\ p.r \in Seq(Seq(Heard))
  BY <1>1, TxByteType DEF TransferState
<1>3. b.w \in Wire /\ SameSetting(b.w, p.w) /\ b.r \in Seq(Heard)
  BY <1>2, ByteKeepsSetting
<1>4. TransferTurn(ch, i, p) = [w |-> b.w, r |-> Append(p.r, b.r)]
  BY DEF TransferTurn
<1> HIDE DEF b
<1>5. Append(p.r, b.r) \in Seq(Seq(Heard))
  BY <1>2, <1>3, AppendProperties
<1> QED BY <1>3, <1>4, <1>5 DEF TransferState

\* DoTransfer is the loop.
LEMMA TransferRuns ==
  ASSUME NEW w0 \in Wire, NEW ch \in Channel, NEW len \in Nat
  PROVE  \E s \in [0 .. len + 1 -> TransferState] :
           /\ s[0] = [w |-> w0, r |-> <<>>]
           /\ \A i \in 1 .. len + 1 : s[i] = TransferTurn(ch, i, s[i - 1])
           /\ DoTransfer(w0, ch, len) = s[len + 1]
<1> DEFINE n == len + 1
           first == [w |-> w0, r |-> <<>>]
           step == [x \in (1 .. n) \X TransferState |-> TransferTurn(ch, x[1], x[2])]
<1>0. n \in Nat /\ \A i \in 1 .. n : i \in Nat \ {0}
  OBVIOUS
<1>1. first \in TransferState
  BY DEF TransferState
<1>2. step \in [(1 .. n) \X TransferState -> TransferState]
  BY <1>0, TransferTurnType
<1>3. \E s : TransferStates(w0, ch, len, s)
  <2> HIDE DEF n, first
  <2>1. PICK s \in [0 .. n -> TransferState] :
          s[0] = first /\ \A i \in 1 .. n : s[i] = step[<<i, s[i - 1]>>]
    <3> HIDE DEF step
    <3>1. \E s \in [0 .. n -> TransferState] : Turned(n, s, first, step)
      BY <1>0, <1>1, <1>2, LoopRuns
    <3> QED BY <3>1 DEF Turned
  <2>2. ASSUME NEW i \in 1 .. n PROVE s[i] = TransferTurn(ch, i, s[i - 1])
    <3>1. i - 1 \in 0 .. n
      BY <1>0
    <3>2. <<i, s[i - 1]>> \in (1 .. n) \X TransferState
      BY <2>1, <3>1
    <3> QED BY <2>1, <3>2
  <2>3. s = [i \in 0 .. n |-> IF i = 0 THEN first ELSE TransferTurn(ch, i, s[i - 1])]
    <3>1. \A i \in 0 .. n : i # 0 => i \in 1 .. n
      BY <1>0
    <3> QED BY <2>1, <2>2, <3>1
  <2> QED BY <2>3 DEF TransferStates, n, first
<1> DEFINE s == CHOOSE s : TransferStates(w0, ch, len, s)
<1>4. TransferStates(w0, ch, len, s)
  BY <1>3
<1>5. DoTransfer(w0, ch, len) = s[n]
  BY Zenon DEF DoTransfer, TransferStates, TransferTurn
<1> HIDE DEF s
<1>6. s[0] = first /\ \A i \in 1 .. n : s[i] = TransferTurn(ch, i, s[i - 1])
  <2> HIDE DEF first
  <2> QED BY <1>0, <1>4 DEF TransferStates, first
<1>7. \A i \in 0 .. n : s[i] \in TransferState
  <2>1. \A i \in 1 .. n : s[i - 1] \in TransferState => s[i] \in TransferState
    BY <1>0, <1>6, TransferTurnType
  <2> HIDE DEF first, n
  <2> QED BY <1>0, <1>1, <1>6, <2>1, LoopKeeps
<1>8. s \in [0 .. n -> TransferState]
  BY <1>4, <1>7 DEF TransferStates
<1> QED BY <1>5, <1>6, <1>8

\* A transfer leaves the setting of the wires as it was, heard or not.
LEMMA TransferKeepsSetting ==
  ASSUME NEW w0 \in Wire, NEW ch \in Channel, NEW len \in Nat
  PROVE  DoTransfer(w0, ch, len).w \in Wire /\ SameSetting(DoTransfer(w0, ch, len).w, w0)
<1> DEFINE n == len + 1
<1>1. n \in Nat /\ n \in 0 .. n /\ \A i \in 1 .. n : i \in Nat \ {0}
  OBVIOUS
<1>2. PICK s \in [0 .. n -> TransferState] :
        /\ s[0] = [w |-> w0, r |-> <<>>]
        /\ \A i \in 1 .. n : s[i] = TransferTurn(ch, i, s[i - 1])
        /\ DoTransfer(w0, ch, len) = s[n]
  BY TransferRuns
<1> DEFINE Kept2 == {p \in TransferState : SameSetting(p.w, w0)}
<1>3. s[0] \in Kept2
  BY <1>2 DEF TransferState, SameSetting
<1>4. ASSUME NEW i \in 1 .. n, s[i - 1] \in Kept2 PROVE s[i] \in Kept2
  <2>1. s[i] \in TransferState /\ SameSetting(s[i].w, s[i - 1].w)
    BY <1>1, <1>2, <1>4, TransferTurnType
  <2> QED BY <1>4, <2>1 DEF SameSetting
<1>5. \A i \in 0 .. n : s[i] \in Kept2
  <2> HIDE DEF Kept2, n
  <2> QED BY <1>1, <1>3, <1>4, LoopKeeps
<1> HIDE DEF n
<1> QED BY <1>1, <1>2, <1>5 DEF TransferState

(* Within a transfer, after i bytes: the slave has all their bits, the     *)
(* host as many bytes of what the slave presented, and the wires rest.     *)
InTransfer(w0, ch, i, p) ==
  LET L == Len(w0.slave.got)
      g == p.w.slave.got
  IN /\ p \in TransferState /\ Resting(p.w) /\ SameSetting(p.w, w0)
     /\ Len(g) = L + i * ByteBits
     /\ \A k \in 1 .. L : g[k] = w0.slave.got[k]
     /\ \A j \in 0 .. i - 1, k \in 1 .. ByteBits : g[L + j * ByteBits + k] = <<ch, j, ByteBits - k>>
     /\ Len(p.r) = i
     /\ \A q \in 1 .. i :
          p.r[q] = [b \in 1 .. ByteBits |-> <<"slave", L + (q - 1) * ByteBits + b - 1>>]

\* Whole bytes before the last one.
LEMMA WithinBytes ==
  ASSUME NEW d \in Nat, NEW i \in Nat, NEW j \in 0 .. i - 1, NEW k \in 1 .. d
  PROVE  j * d + k \in 1 .. i * d
<1>1. PICK e \in Nat : i = j + 1 + e
  <2>1. i - 1 - j \in Nat /\ i = j + 1 + (i - 1 - j)
    OBVIOUS
  <2> QED BY <2>1
<1>2. i * d = j * d + d + e * d /\ e * d \in Nat /\ j * d \in Nat /\ i * d \in Nat
  BY <1>1
<1> QED BY <1>2

LEMMA InTransferNext ==
  ASSUME NEW w0 \in Wire, NEW ch \in Channel, NEW i \in Nat, NEW p, InTransfer(w0, ch, i, p)
  PROVE  InTransfer(w0, ch, i + 1, TransferTurn(ch, i + 1, p))
<1> DEFINE L == Len(w0.slave.got)
           M == Len(p.w.slave.got)
           g == p.w.slave.got
           tx == TxByte(ch, i)
           b == GetPutByte(p.w, tx)
           h == b.w.slave.got
           q == TransferTurn(ch, i + 1, p)
           a == [x \in 1 .. ByteBits |-> <<"slave", M + x - 1>>]
<1>1. L \in Nat /\ ByteBits \in Nat \ {0} /\ i * ByteBits \in Nat /\ (i + 1) * ByteBits = i * ByteBits + ByteBits
  BY SpiAssumption DEF Wire, SlaveState
<1>2. p \in TransferState /\ Resting(p.w) /\ SameSetting(p.w, w0) /\ M = L + i * ByteBits /\ Len(p.r) = i
      /\ p.w \in Wire /\ p.r \in Seq(Seq(Heard))
  BY DEF InTransfer, TransferState
<1>3. /\ \A k \in 1 .. L : g[k] = w0.slave.got[k]
      /\ \A j \in 0 .. i - 1, k \in 1 .. ByteBits : g[L + j * ByteBits + k] = <<ch, j, ByteBits - k>>
      /\ \A x \in 1 .. i :
           p.r[x] = [y \in 1 .. ByteBits |-> <<"slave", L + (x - 1) * ByteBits + y - 1>>]
  BY DEF InTransfer
<1>4. tx \in TxBits /\ \A k \in 1 .. ByteBits : tx[ByteBits - k] = <<ch, i, ByteBits - k>>
  BY TxByteType
<1> HIDE DEF tx
<1>5. /\ Resting(b.w) /\ SameSetting(b.w, p.w) /\ Len(h) = M + ByteBits
      /\ \A k \in 1 .. M : h[k] = g[k]
      /\ \A k \in 1 .. ByteBits : h[M + k] = tx[ByteBits - k]
      /\ b.r = a
  BY <1>2, <1>4, ByteExchanged, ZenonT(60)
<1>6. b.w \in Wire /\ b.r \in Seq(Heard)
  BY <1>2, <1>4, ByteKeepsSetting
<1>7. q = [w |-> b.w, r |-> Append(p.r, b.r)]
  <2>1. (i + 1) - 1 = i
    OBVIOUS
  <2> QED BY <2>1, Zenon DEF TransferTurn, tx
<1> HIDE DEF L, M, g, b, h, q, a
<1>8. /\ Append(p.r, b.r) \in Seq(Seq(Heard)) /\ Len(Append(p.r, b.r)) = i + 1
      /\ \A x \in 1 .. i : Append(p.r, b.r)[x] = p.r[x]
      /\ Append(p.r, b.r)[i + 1] = b.r
  BY <1>2, <1>6, AppendedAt
<1>9. q \in TransferState /\ q.w = b.w /\ q.r = Append(p.r, b.r)
  BY <1>6, <1>7, <1>8 DEF TransferState
<1>10. SameSetting(b.w, w0)
  BY <1>2, <1>5 DEF SameSetting
<1>11. Len(h) = L + (i + 1) * ByteBits
  BY <1>1, <1>2, <1>5
<1>12. \A k \in 1 .. L : h[k] = w0.slave.got[k]
  <2>1. L \in Nat /\ M \in Nat /\ L <= M
    <3> DEFINE n == i * ByteBits
    <3>1. L \in Nat /\ n \in Nat /\ M = L + n
      BY <1>1, <1>2
    <3> HIDE DEF n
    <3> QED BY <3>1
  <2>2. \A k \in 1 .. L : k \in 1 .. M
    BY <2>1
  <2> QED BY <1>3, <1>5, <2>2
<1>13. ASSUME NEW j \in 0 .. (i + 1) - 1, NEW k \in 1 .. ByteBits
       PROVE  h[L + j * ByteBits + k] = <<ch, j, ByteBits - k>>
  <2>1. CASE j = i
    <3>1. L + j * ByteBits + k = M + k
      BY <1>1, <1>2, <2>1
    <3> QED BY <1>4, <1>5, <2>1, <3>1
  <2>2. CASE j # i
    <3>1. j \in 0 .. i - 1
      BY <2>2
    <3>2. j * ByteBits + k \in 1 .. i * ByteBits
      BY <1>1, <3>1, WithinBytes
    <3>3. j * ByteBits \in Nat
      BY <1>1
    <3>4. L + j * ByteBits + k \in 1 .. M
      BY <1>1, <1>2, <3>2, <3>3
    <3> QED BY <1>3, <1>5, <3>1, <3>4
  <2> QED BY <2>1, <2>2
<1>14. ASSUME NEW x \in 1 .. i + 1
       PROVE  q.r[x] = [y \in 1 .. ByteBits |-> <<"slave", L + (x - 1) * ByteBits + y - 1>>]
  <2>1. CASE x = i + 1
    <3>1. x - 1 = i
      BY <2>1
    <3>2. L + (x - 1) * ByteBits = M
      BY <1>1, <1>2, <3>1
    <3>3. q.r[x] = a
      BY <1>5, <1>8, <1>9, <2>1
    <3> QED BY <3>2, <3>3, Zenon DEF a
  <2>2. CASE x # i + 1
    <3>1. x \in 1 .. i
      BY <2>2
    <3> QED BY <1>3, <1>8, <1>9, <3>1, Zenon
  <2> QED BY <2>1, <2>2
<1>15. Len(q.r) = i + 1
  BY <1>8, <1>9
<1>16. Resting(q.w) /\ SameSetting(q.w, w0) /\ q.w.slave.got = h
  BY <1>5, <1>9, <1>10 DEF h
<1> QED BY <1>9, <1>11, <1>12, <1>13, <1>14, <1>15, <1>16, Zenon DEF InTransfer, L, q

(* doTransfer: the slave gets the bits of the transfer's bytes after those *)
(* it has, and the register the bits that the slave presents.              *)
LEMMA TransferExchanged ==
  ASSUME NEW w0, Resting(w0), NEW ch \in Channel, NEW len \in Nat
  PROVE  LET d == DoTransfer(w0, ch, len)
         IN /\ Resting(d.w)
            /\ BitsOf(ch, len) \in Seq(Bit) /\ Len(BitsOf(ch, len)) = (len + 1) * ByteBits
            /\ d.w.slave.got = w0.slave.got \o BitsOf(ch, len)
            /\ d.r = Received(ch, len, Len(w0.slave.got))
<1> DEFINE n == len + 1
           L == Len(w0.slave.got)
           d == DoTransfer(w0, ch, len)
           bits == BitsOf(ch, len)
           g == d.w.slave.got
<1>1. w0 \in Wire /\ n \in Nat \ {0} /\ ByteBits \in Nat \ {0} /\ n * ByteBits \in Nat
  BY SpiAssumption DEF Resting, InTune
<1>2. PICK s \in [0 .. n -> TransferState] :
        /\ s[0] = [w |-> w0, r |-> <<>>]
        /\ \A i \in 1 .. n : s[i] = TransferTurn(ch, i, s[i - 1])
        /\ d = s[n]
  BY <1>1, TransferRuns, ZenonT(60)
<1>3. w0.slave.got \in Seq(Bit) /\ L \in Nat
  BY <1>1 DEF Wire, SlaveState
<1> HIDE DEF n, L, d, bits
<1> DEFINE All == {i \in 0 .. n : InTransfer(w0, ch, i, s[i])}
<1>4. 0 \in All
  <2>1. /\ s[0] \in TransferState /\ s[0].w = w0 /\ s[0].r = <<>> /\ Len(<<>>) = 0 /\ 0 \in 0 .. n
        /\ Len(w0.slave.got) = Len(w0.slave.got) + 0 * ByteBits
    <3>1. 0 \in 0 .. n /\ 0 * ByteBits = 0
      BY <1>1
    <3>2. L = L + 0
      BY <1>3
    <3> QED BY <1>2, <3>1, <3>2, SMTT(60) DEF L
  <2>2. SameSetting(w0, w0) /\ (\A j \in 0 .. 0 - 1 : FALSE) /\ \A j \in 1 .. 0 : FALSE
    BY DEF SameSetting
  <2> QED BY <2>1, <2>2, Zenon DEF InTransfer
<1>5. ASSUME NEW i \in 0 .. n - 1, i \in All PROVE i + 1 \in All
  <2>1. i \in Nat /\ i + 1 \in 1 .. n /\ (i + 1) - 1 = i /\ i + 1 \in 0 .. n
    BY <1>1
  <2>2. InTransfer(w0, ch, i, s[i]) /\ s[i + 1] = TransferTurn(ch, i + 1, s[i])
    BY <1>2, <1>5, <2>1
  <2> QED BY <1>1, <2>1, <2>2, InTransferNext
<1>6. InTransfer(w0, ch, n, d)
  <2> HIDE DEF All
  <2>1. 0 .. n \subseteq All
    BY <1>1, <1>4, <1>5, IntervalInduction
  <2>2. n \in 0 .. n
    BY <1>1
  <2>3. n \in All
    BY <2>1, <2>2
  <2> QED BY <1>2, <2>3 DEF All
<1>7. d \in TransferState /\ Resting(d.w) /\ Len(g) = L + n * ByteBits /\ Len(d.r) = n
      /\ d.w \in Wire /\ d.r \in Seq(Seq(Heard))
  BY <1>6 DEF InTransfer, TransferState, L
<1>8. /\ \A k \in 1 .. L : g[k] = w0.slave.got[k]
      /\ \A j \in 0 .. n - 1, k \in 1 .. ByteBits : g[L + j * ByteBits + k] = <<ch, j, ByteBits - k>>
      /\ \A q \in 1 .. n :
           d.r[q] = [b \in 1 .. ByteBits |-> <<"slave", L + (q - 1) * ByteBits + b - 1>>]
  BY <1>6 DEF InTransfer, L
<1>9. g \in Seq(Bit)
  BY <1>7 DEF Wire, SlaveState
<1> HIDE DEF g
<1>10. ASSUME NEW k \in 1 .. n * ByteBits
       PROVE  LET j == (k - 1) \div ByteBits
                  m == (k - 1) % ByteBits
              IN /\ j \in 0 .. n - 1 /\ m \in 0 .. ByteBits - 1
                 /\ k = j * ByteBits + (m + 1)
  <2> DEFINE j == (k - 1) \div ByteBits
             m == (k - 1) % ByteBits
  <2>1. k - 1 \in Nat /\ j \in Nat /\ m \in 0 .. ByteBits - 1 /\ k - 1 = j * ByteBits + m
    BY <1>1
  <2> HIDE DEF j, m
  <2>2. j < n
    <3> SUFFICES ASSUME n <= j PROVE FALSE
      BY <1>1, <2>1
    <3>1. PICK e \in Nat : j = n + e
      <4>1. j - n \in Nat /\ j = n + (j - n)
        BY <1>1, <2>1
      <4> QED BY <4>1
    <3>2. j * ByteBits = n * ByteBits + e * ByteBits /\ e * ByteBits \in Nat
      BY <1>1, <3>1
    <3> QED BY <1>1, <2>1, <3>2
  <2>3. j * ByteBits \in Nat
    BY <1>1, <2>1
  <2>4. k = j * ByteBits + (m + 1) /\ j \in 0 .. n - 1
    BY <1>1, <2>1, <2>2, <2>3
  <2> QED BY <2>1, <2>4 DEF j, m
<1>11. bits = [k \in 1 .. n * ByteBits |->
                 <<ch, (k - 1) \div ByteBits, ByteBits - 1 - ((k - 1) % ByteBits)>>]
  BY DEF bits, BitsOf, n
<1>12. ASSUME NEW k \in 1 .. n * ByteBits PROVE bits[k] \in Bit /\ g[L + k] = bits[k]
  <2> DEFINE j == (k - 1) \div ByteBits
             m == (k - 1) % ByteBits
  <2>1. j \in 0 .. n - 1 /\ m \in 0 .. ByteBits - 1 /\ k = j * ByteBits + (m + 1)
    BY <1>10
  <2>2. bits[k] = <<ch, j, ByteBits - 1 - m>>
    BY <1>11
  <2> HIDE DEF j, m
  <2>3. j \in Nat /\ ByteBits - 1 - m \in Nat /\ m + 1 \in 1 .. ByteBits /\ j * ByteBits \in Nat
        /\ ByteBits - (m + 1) = ByteBits - 1 - m
    BY <1>1, <2>1
  <2>4. L + k = L + j * ByteBits + (m + 1)
    BY <1>3, <2>1, <2>3
  <2>5. g[L + j * ByteBits + (m + 1)] = <<ch, j, ByteBits - (m + 1)>>
    BY <1>8, <2>1, <2>3
  <2>6. <<ch, j, ByteBits - 1 - m>> \in Bit
    BY <2>3 DEF Bit
  <2> QED BY <2>2, <2>3, <2>4, <2>5, <2>6, Zenon
<1>13. bits \in Seq(Bit) /\ Len(bits) = n * ByteBits
  <2> DEFINE N == n * ByteBits
  <2>1. N \in Nat /\ bits \in [1 .. N -> Bit]
    BY <1>1, <1>11, <1>12
  <2> HIDE DEF N
  <2> QED BY <2>1 DEF N
<1>14. g = w0.slave.got \o bits
  <2> DEFINE c == w0.slave.got \o bits
             N == n * ByteBits
  <2>1. /\ c \in Seq(Bit) /\ Len(c) = L + N
        /\ \A i \in 1 .. L + N : c[i] = IF i <= L THEN w0.slave.got[i] ELSE bits[i - L]
    <3> DEFINE o == w0.slave.got
    <3>1. o \in Seq(Bit) /\ bits \in Seq(Bit) /\ Len(o) = L /\ Len(bits) = N
      BY <1>3, <1>13 DEF L
    <3> HIDE DEF o, N
    <3>2. /\ o \o bits \in Seq(Bit) /\ Len(o \o bits) = Len(o) + Len(bits)
          /\ \A i \in 1 .. Len(o) + Len(bits) :
               (o \o bits)[i] = IF i <= Len(o) THEN o[i] ELSE bits[i - Len(o)]
      BY ONLY <3>1, ConcatProperties, ZenonT(60)
    <3>3. c = o \o bits
      BY DEF o
    <3> HIDE DEF c
    <3> QED BY <3>1, <3>2, <3>3, ZenonT(60) DEF o
  <2>2. N \in Nat
    BY <1>1
  <2> HIDE DEF c, N
  <2>3. ASSUME NEW i \in 1 .. L + N PROVE g[i] = c[i]
    <3>1. CASE i <= L
      <4>1. i \in 1 .. L
        BY <1>3, <2>2, <3>1
      <4> QED BY <1>8, <2>1, <3>1, <4>1
    <3>2. CASE ~(i <= L)
      <4>1. i - L \in 1 .. N /\ L + (i - L) = i
        BY <1>3, <2>2, <3>2
      <4> QED BY <1>12, <2>1, <3>2, <4>1 DEF N
    <3> QED BY <3>1, <3>2
  <2>4. Len(g) = L + N
    BY <1>7 DEF N
  <2> QED BY <1>9, <2>1, <2>3, <2>4, SeqEqual DEF c
<1>15. d.r = Received(ch, len, L)
  <2>1. DOMAIN d.r = 1 .. n /\ d.r = [i \in DOMAIN d.r |-> d.r[i]]
    BY <1>7, LenProperties
  <2> QED BY <1>8, <2>1, Zenon DEF Received, n
<1> QED BY <1>7, <1>13, <1>14, <1>15, Zenon DEF n, L, d, bits, g

(* Between register writes: a slave that has been driven in its mode has   *)
(* the clock at rest and presents the bit after those it has taken.        *)
SpiInv ==
  /\ pins \in [clk : BOOLEAN, dout : Bit, cs : BOOLEAN]
  /\ slave \in SlaveState /\ config \in Mode /\ tuned \in BOOLEAN
  /\ tuned => /\ spidev /\ pins.clk = slave.cpol
              /\ slave.n = Len(slave.got) - (IF slave.cpha THEN 1 ELSE 0)

LEMMA WiresRest ==
  ASSUME SpiInv, NEW mode \in Mode
  PROVE  LET v == SetClk(Wires(mode), FALSE) IN
           /\ v \in Wire /\ v.tuned = (tuned /\ InMode(mode))
           /\ v.tuned => Resting(v) /\ v.slave.got = slave.got
<1> DEFINE w == Wires(mode)
           v == SetClk(w, FALSE)
<1>1. w = [clk |-> pins.clk, dout |-> pins.dout, slave |-> slave, mode |-> mode,
           tuned |-> tuned /\ InMode(mode)]
  BY DEF Wires
<1>2. pins.clk \in BOOLEAN /\ pins.dout \in Bit /\ slave \in SlaveState /\ (tuned /\ InMode(mode)) \in BOOLEAN
  BY DEF SpiInv
<1>3. w \in Wire /\ w.tuned = (tuned /\ InMode(mode)) /\ w.slave = slave /\ w.clk = pins.clk /\ w.mode = mode
  BY <1>1, <1>2 DEF Wire
<1> HIDE DEF w
<1>4. v \in Wire /\ SameSetting(v, w)
  BY <1>3, SetClkType
<1>5. v.tuned = (tuned /\ InMode(mode))
  BY <1>3, <1>4 DEF SameSetting
<1>6. ASSUME w.tuned PROVE Resting(v) /\ v.slave.got = slave.got
  <2>1. tuned /\ InMode(mode)
    BY <1>3, <1>6
  <2>2. mode.cpol = slave.cpol /\ mode.cpha = slave.cpha
    BY <2>1 DEF InMode
  <2>3. InTune(w) /\ FALSE = Away(w)
    BY <1>3, <1>6, <2>1, <2>2 DEF InTune, Away, SpiInv
  <2>4. InTune(v) /\ ~Away(v) /\ v.slave.got = w.slave.got /\ v.slave.n = w.slave.n
    BY <2>3, SetClkDoes
  <2> HIDE DEF v
  <2>5. v.slave.cpha = slave.cpha /\ slave.n = Len(slave.got) - (IF slave.cpha THEN 1 ELSE 0)
    BY <1>3, <1>4, <2>1 DEF SameSetting, SpiInv
  <2> QED BY <1>3, <2>4, <2>5 DEF Resting
<1>7. v.tuned => Resting(v) /\ v.slave.got = slave.got
  BY <1>3, <1>5, <1>6
<1> QED BY <1>4, <1>5, <1>7 DEF w

LEMMA AtRestType ==
  ASSUME slave \in SlaveState
  PROVE  /\ AtRest \in SlaveState /\ AtRest.got = <<>> /\ AtRest.n = 0
         /\ AtRest.cpol = slave.cpol /\ AtRest.cpha = slave.cpha
<1>1. \A e \in Seq(Bit), k \in Int :
        LET s == [slave EXCEPT !.n = k, !.got = e] IN
          s \in SlaveState /\ s.got = e /\ s.n = k /\ s.cpol = slave.cpol /\ s.cpha = slave.cpha
  BY DEF SlaveState
<1>2. <<>> \in Seq(Bit) /\ 0 \in Int
  OBVIOUS
<1> QED BY <1>1, <1>2, ZenonT(60) DEF AtRest

LEMMA SettleRests ==
  ASSUME SpiInv, NEW w \in Wire, w.tuned => Resting(w), spidev, Settle(w), config' \in Mode
  PROVE  SpiInv'
<1>1. w.clk \in BOOLEAN /\ w.dout \in Bit /\ w.slave \in SlaveState /\ w.tuned \in BOOLEAN
  BY DEF Wire
<1>2. pins' = [pins EXCEPT !.clk = w.clk, !.dout = w.dout] /\ spidev' = spidev /\ tuned' = w.tuned
      /\ slave' = IF w.tuned THEN w.slave ELSE AtRest
  BY DEF Settle
<1>3. pins' \in [clk : BOOLEAN, dout : Bit, cs : BOOLEAN] /\ pins'.clk = w.clk
  BY <1>1, <1>2 DEF SpiInv
<1>4. AtRest \in SlaveState
  BY AtRestType DEF SpiInv
<1>5. slave' \in SlaveState /\ tuned' \in BOOLEAN
  BY <1>1, <1>2, <1>4
<1>6. ASSUME tuned'
      PROVE  spidev' /\ pins'.clk = slave'.cpol
             /\ slave'.n = Len(slave'.got) - (IF slave'.cpha THEN 1 ELSE 0)
  <2>1. slave' = w.slave /\ Resting(w)
    BY <1>2, <1>6
  <2>2. w.clk = w.slave.cpol
    BY <2>1 DEF Resting, Away
  <2> QED BY <1>2, <1>3, <2>1, <2>2 DEF Resting
<1> QED BY <1>3, <1>5, <1>6 DEF SpiInv

\* write32 to CTRL, with a back end.
LEMMA CtrlExchanges ==
  ASSUME SpiInv, spidev, NEW m \in Mode, NEW run \in SUBSET Channel, NEW len \in [run -> 0 .. MaxLen],
         WriteCtrl(m, run, len)
  PROVE  LET n  == Len(slave.got)
             na == IF "A" \in run THEN (len["A"] + 1) * ByteBits ELSE 0
         IN /\ SpiInv'
            /\ tuned' =>
                 /\ slave'.got = slave.got
                      \o (IF "A" \in run THEN BitsOf("A", len["A"]) ELSE <<>>)
                      \o (IF "B" \in run THEN BitsOf("B", len["B"]) ELSE <<>>)
                 /\ "A" \in run => rxd'["A"] = Received("A", len["A"], n)
                 /\ "B" \in run => rxd'["B"] = Received("B", len["B"], n + na)
<1> DEFINE n  == Len(slave.got)
           na == IF "A" \in run THEN (len["A"] + 1) * ByteBits ELSE 0
           A == IF "A" \in run THEN BitsOf("A", len["A"]) ELSE <<>>
           B == IF "B" \in run THEN BitsOf("B", len["B"]) ELSE <<>>
           w == SetClk(Wires(m), FALSE)
           a == IF "A" \in run THEN DoTransfer(w, "A", len["A"]) ELSE [w |-> w, r |-> rxd["A"]]
           b == IF "B" \in run THEN DoTransfer(a.w, "B", len["B"]) ELSE [w |-> a.w, r |-> rxd["B"]]
<1>1. Settle(b.w) /\ rxd' = [A |-> a.r, B |-> b.r] /\ config' = m
  BY Zenon DEF WriteCtrl
<1>3. ("A" \in run => len["A"] \in Nat) /\ ("B" \in run => len["B"] \in Nat) /\ "A" \in Channel /\ "B" \in Channel
  BY SpiAssumption DEF Channel
<1>4. slave.got \in Seq(Bit) /\ n \in Nat
  BY DEF SpiInv, SlaveState
<1> HIDE DEF w, n
<1>5. w \in Wire /\ (w.tuned => Resting(w) /\ w.slave.got = slave.got)
  BY WiresRest DEF w
<1>6. /\ a.w \in Wire /\ a.w.tuned = w.tuned
      /\ w.tuned => /\ Resting(a.w) /\ A \in Seq(Bit) /\ Len(A) = na
                    /\ a.w.slave.got = slave.got \o A
                    /\ "A" \in run => a.r = Received("A", len["A"], n)
  <2>1. CASE "A" \in run
    <3>1. a = DoTransfer(w, "A", len["A"]) /\ A = BitsOf("A", len["A"]) /\ na = (len["A"] + 1) * ByteBits
      BY <2>1
    <3> HIDE DEF a, A, na
    <3>2. a.w \in Wire /\ SameSetting(a.w, w)
      BY <1>3, <1>5, <2>1, <3>1, TransferKeepsSetting
    <3>3. ASSUME w.tuned
          PROVE  /\ Resting(a.w) /\ A \in Seq(Bit) /\ Len(A) = na
                 /\ a.w.slave.got = slave.got \o A
                 /\ a.r = Received("A", len["A"], n)
      <4>1. Resting(w) /\ w.slave.got = slave.got /\ len["A"] \in Nat
        BY <1>3, <1>5, <2>1, <3>3
      <4>2. /\ Resting(a.w) /\ A \in Seq(Bit) /\ Len(A) = na
            /\ a.w.slave.got = w.slave.got \o A
            /\ a.r = Received("A", len["A"], Len(w.slave.got))
        BY <1>3, <3>1, <4>1, TransferExchanged, ZenonT(60)
      <4> QED BY <4>1, <4>2 DEF n
    <3> QED BY <2>1, <3>2, <3>3 DEF SameSetting
  <2>2. CASE "A" \notin run
    <3>1. a.w = w /\ A = <<>> /\ na = 0
      BY <2>2
    <3>2. A \in Seq(Bit) /\ Len(A) = na /\ slave.got \o A = slave.got
      <4>1. <<>> \in Seq(Bit) /\ Len(<<>>) = 0
        OBVIOUS
      <4>2. slave.got \o <<>> = slave.got
        BY <1>4, ConcatEmptySeq
      <4> QED BY <3>1, <4>1, <4>2, Zenon
    <3> HIDE DEF a, A, na
    <3> QED BY <1>5, <2>2, <3>1, <3>2
  <2> QED BY <2>1, <2>2
<1> HIDE DEF a
<1>7. /\ b.w \in Wire /\ b.w.tuned = w.tuned
      /\ w.tuned => /\ Resting(b.w)
                    /\ b.w.slave.got = (slave.got \o A) \o B
                    /\ "B" \in run => b.r = Received("B", len["B"], n + na)
  <2>0. w.tuned => Len(a.w.slave.got) = n + na /\ a.w.slave.got \in Seq(Bit)
    <3> SUFFICES ASSUME w.tuned PROVE Len(a.w.slave.got) = n + na /\ a.w.slave.got \in Seq(Bit)
      OBVIOUS
    <3> HIDE DEF A, na
    <3>1. A \in Seq(Bit) /\ Len(A) = na /\ a.w.slave.got = slave.got \o A
      BY <1>6
    <3>2. slave.got \o A \in Seq(Bit) /\ Len(slave.got \o A) = Len(slave.got) + Len(A)
      BY <1>4, <3>1, ConcatProperties, ZenonT(60)
    <3> QED BY <3>1, <3>2 DEF n
  <2>1. CASE "B" \in run
    <3>1. b = DoTransfer(a.w, "B", len["B"]) /\ B = BitsOf("B", len["B"])
      BY <2>1
    <3> HIDE DEF b, B, A, na
    <3>2. b.w \in Wire /\ SameSetting(b.w, a.w)
      BY <1>3, <1>6, <2>1, <3>1, TransferKeepsSetting
    <3>3. ASSUME w.tuned
          PROVE  /\ Resting(b.w)
                 /\ b.w.slave.got = (slave.got \o A) \o B
                 /\ b.r = Received("B", len["B"], n + na)
      <4>1. Resting(a.w) /\ a.w.slave.got = slave.got \o A /\ len["B"] \in Nat /\ Len(a.w.slave.got) = n + na
        BY <1>3, <1>6, <2>0, <2>1, <3>3
      <4>2. /\ Resting(b.w)
            /\ b.w.slave.got = a.w.slave.got \o B
            /\ b.r = Received("B", len["B"], Len(a.w.slave.got))
        BY <1>3, <3>1, <4>1, TransferExchanged, ZenonT(60)
      <4> QED BY <4>1, <4>2
    <3> QED BY <1>6, <2>1, <3>2, <3>3 DEF SameSetting
  <2>2. CASE "B" \notin run
    <3>1. b.w = a.w /\ B = <<>>
      BY <2>2
    <3> HIDE DEF b, B, A, na
    <3>2. w.tuned => (slave.got \o A) \o B = a.w.slave.got
      BY <1>6, <2>0, <3>1, ConcatEmptySeq
    <3> QED BY <1>6, <2>2, <3>1, <3>2
  <2> QED BY <2>1, <2>2
<1> HIDE DEF b, A, B, na
<1>8. SpiInv'
  BY <1>1, <1>7, SettleRests
<1>9. tuned' = w.tuned /\ (w.tuned => slave' = b.w.slave)
  BY <1>1, <1>7 DEF Settle
<1>10. rxd'["A"] = a.r /\ rxd'["B"] = b.r
  BY <1>1
<1>11. tuned' => /\ slave'.got = slave.got \o A \o B
                 /\ "A" \in run => rxd'["A"] = Received("A", len["A"], n)
                 /\ "B" \in run => rxd'["B"] = Received("B", len["B"], n + na)
  BY <1>6, <1>7, <1>9, <1>10
<1> QED BY <1>8, <1>11, Zenon DEF A, B, n, na

LEMMA SpiInvInit == ASSUME SpiInit PROVE SpiInv
<1>1. <<"none">> \in Bit /\ <<>> \in Seq(Bit) /\ 0 \in Int
  BY DEF Bit
<1>2. pins \in [clk : BOOLEAN, dout : Bit, cs : BOOLEAN]
  BY <1>1 DEF SpiInit
<1>3. slave \in SlaveState
  BY <1>1 DEF SpiInit, SlaveState
<1>4. config \in Mode /\ tuned = FALSE
  BY DEF SpiInit, Mode
<1> QED BY <1>2, <1>3, <1>4 DEF SpiInv

LEMMA CsRests == ASSUME SpiInv, NEW v \in BOOLEAN, WriteCs(v) PROVE SpiInv'
<1>1. CASE ~spidev
  BY <1>1 DEF SpiInv, WriteCs
<1>2. CASE spidev
  <2>1. config' \in Mode /\ spidev' /\ pins' = [pins EXCEPT !.cs = v]
    BY <1>2 DEF WriteCs, SpiInv
  <2>2. pins' \in [clk : BOOLEAN, dout : Bit, cs : BOOLEAN] /\ pins'.clk = pins.clk
    BY <2>1 DEF SpiInv
  <2>3. /\ AtRest \in SlaveState /\ AtRest.got = <<>>
        /\ AtRest.cpol = slave.cpol /\ AtRest.cpha = slave.cpha
    BY AtRestType DEF SpiInv
  <2>4. CASE pins.cs /\ ~v
    <3> DEFINE k == IF tuned' /\ slave.cpha THEN -1 ELSE 0
    <3>1. tuned' = (pins.clk = slave.cpol /\ InMode(config)) /\ slave' = [AtRest EXCEPT !.n = k]
      BY <1>2, <2>4 DEF WriteCs
    <3>2. k \in Int
      OBVIOUS
    <3> HIDE DEF k
    <3>3. /\ slave' \in SlaveState /\ slave'.got = <<>> /\ slave'.n = k
          /\ slave'.cpol = slave.cpol /\ slave'.cpha = slave.cpha
      <4> DEFINE r == AtRest
      <4>1. r \in SlaveState => [r EXCEPT !.n = k] \in SlaveState /\ [r EXCEPT !.n = k].got = r.got
              /\ [r EXCEPT !.n = k].n = k /\ [r EXCEPT !.n = k].cpol = r.cpol
              /\ [r EXCEPT !.n = k].cpha = r.cpha
        <5> HIDE DEF r
        <5> QED BY <3>2 DEF SlaveState
      <4> QED BY <2>3, <3>1, <4>1
    <3>4. tuned' => slave'.n = Len(slave'.got) - (IF slave'.cpha THEN 1 ELSE 0)
      <4>1. Len(<<>>) = 0 /\ 0 - 1 = -1 /\ 0 - 0 = 0
        OBVIOUS
      <4> QED BY <3>3, <4>1 DEF k
    <3> QED BY <2>1, <2>2, <3>1, <3>3, <3>4 DEF SpiInv
  <2>5. CASE ~(pins.cs /\ ~v)
    <3>1. tuned' = (tuned /\ ~v) /\ slave' = IF v THEN AtRest ELSE slave
      BY <1>2, <2>5 DEF WriteCs
    <3>2. slave' \in SlaveState /\ (tuned' => tuned /\ slave' = slave)
      BY <2>3, <3>1 DEF SpiInv
    <3> QED BY <2>1, <2>2, <3>1, <3>2 DEF SpiInv
  <2> QED BY <2>4, <2>5
<1> QED BY <1>1, <1>2

LEMMA SpiInvWrite == ASSUME SpiInv, SpiWrite PROVE SpiInv'
<1>1. CASE \E m \in Mode, run \in SUBSET Channel : \E len \in [run -> 0 .. MaxLen] : WriteCtrl(m, run, len)
  <2>1. PICK m \in Mode, run \in SUBSET Channel : \E len \in [run -> 0 .. MaxLen] : WriteCtrl(m, run, len)
    BY <1>1
  <2>2. PICK len \in [run -> 0 .. MaxLen] : WriteCtrl(m, run, len)
    BY <2>1
  <2>3. CASE spidev
    BY <2>2, <2>3, CtrlExchanges
  <2>4. CASE ~spidev
    <3>1. config' \in Mode /\ UNCHANGED <<pins, slave, spidev, tuned>>
      BY <2>2, <2>4 DEF WriteCtrl
    <3> QED BY <3>1 DEF SpiInv
  <2> QED BY <2>3, <2>4
<1>2. CASE WriteClkDiv
  <2>1. CASE spidev
    <3> DEFINE w == SetClk(Wires(config), FALSE)
    <3>1. Settle(w) /\ config' \in Mode /\ config \in Mode
      BY <1>2, <2>1 DEF WriteClkDiv, SpiInv
    <3>2. w \in Wire /\ (w.tuned => Resting(w))
      BY <3>1, WiresRest
    <3> HIDE DEF w
    <3> QED BY <2>1, <3>1, <3>2, SettleRests
  <2>2. CASE ~spidev
    BY <1>2, <2>2 DEF WriteClkDiv, SpiInv
  <2> QED BY <2>1, <2>2
<1>3. CASE \E v \in BOOLEAN : WriteCs(v)
  BY <1>3, CsRests
<1> QED BY <1>1, <1>2, <1>3 DEF SpiWrite

LEMMA SpiInvStep == SpiInv /\ [BoardNext]_boardVars => SpiInv'
<1> SUFFICES ASSUME SpiInv, [BoardNext]_boardVars PROVE SpiInv'
  OBVIOUS
<1>1. CASE SpiStore
  BY <1>1, SpiInvWrite DEF SpiStore
<1>2. CASE UNCHANGED spiVars
  BY <1>2 DEF SpiInv, spiVars
<1>3. SpiStore \/ UNCHANGED spiVars
  BY DEF BoardNext, boardVars, quitVars, PlatformInit, Read, RamStore, SbdStore,
         LcdcStore, GpioStore, IntcStore, Interrupting, IntcStep, SbdIgnored,
         SbdCommand, Poll, BadAccess, BadDma, Stop, Quit, SaveOpen, SaveIntc, SaveUart, Save
<1> QED BY <1>1, <1>2, <1>3

(* A transfer exchanges exactly its bits with a slave that is driven in    *)
(* its mode, both ways and in order, for every byte width, every length,   *)
(* all four clock modes and any writes before it in the same selection     *)
(* (DevSPI::doTransfer over SPIDevGPIO::getPutByte).                       *)
THEOREM TransfersExchangeTheirBits == BoardSpec => ExchangesItsBits
<1> DEFINE Exchange ==
      ~pins.cs /\ tuned' /\ pins'.cs = pins.cs =>
        \A m \in Mode, run \in SUBSET Channel : \A len \in [run -> 0 .. MaxLen] :
        WriteCtrl(m, run, len) =>
          LET n  == Len(slave.got)
              na == IF "A" \in run THEN (len["A"] + 1) * ByteBits ELSE 0
          IN /\ slave'.got = slave.got
                  \o (IF "A" \in run THEN BitsOf("A", len["A"]) ELSE <<>>)
                  \o (IF "B" \in run THEN BitsOf("B", len["B"]) ELSE <<>>)
             /\ "A" \in run => rxd'["A"] = Received("A", len["A"], n)
             /\ "B" \in run => rxd'["B"] = Received("B", len["B"], n + na)
<1>1. BoardInit => SpiInv
  BY SpiInvInit DEF BoardInit
<1>2. SpiInv /\ [BoardNext]_boardVars => SpiInv'
  BY SpiInvStep
<1>3. SpiInv => Exchange
  <2> SUFFICES ASSUME SpiInv, tuned', NEW m \in Mode, NEW run \in SUBSET Channel,
                      NEW len \in [run -> 0 .. MaxLen], WriteCtrl(m, run, len)
               PROVE  LET n  == Len(slave.got)
                          na == IF "A" \in run THEN (len["A"] + 1) * ByteBits ELSE 0
                      IN /\ slave'.got = slave.got
                              \o (IF "A" \in run THEN BitsOf("A", len["A"]) ELSE <<>>)
                              \o (IF "B" \in run THEN BitsOf("B", len["B"]) ELSE <<>>)
                         /\ "A" \in run => rxd'["A"] = Received("A", len["A"], n)
                         /\ "B" \in run => rxd'["B"] = Received("B", len["B"], n + na)
    BY Zenon
  <2>1. spidev
    <3> SUFFICES ASSUME ~spidev PROVE FALSE
      OBVIOUS
    <3>1. tuned' = tuned
      BY DEF WriteCtrl
    <3> QED BY <3>1 DEF SpiInv
  <2> QED BY <2>1, CtrlExchanges, Zenon
<1>4. [][Exchange]_spiVars => ExchangesItsBits
  BY DEF ExchangesItsBits
<1> HIDE DEF Exchange
<1> QED BY <1>1, <1>2, <1>3, <1>4, PTL DEF BoardSpec
=============================================================================
