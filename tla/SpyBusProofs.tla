---------------------------- MODULE SpyBusProofs ----------------------------
(***************************************************************************)
(* Proofs about cc, for registers and instructions of every length, every  *)
(* patience of reg_get and every number of faults: which register an       *)
(* answer is of, that an instruction is executed once and as asked, and    *)
(* what the verdict of a register test is worth.                           *)
(***************************************************************************)
EXTENDS SpyBus, SequenceTheorems, WellFoundedInduction, TLAPS

-----------------------------------------------------------------------------
(***************************************************************************)
(* Sequences: parts put together, and what is left of one.                 *)
(***************************************************************************)
\* One part behind another (named, so that the provers do not take it apart).
Join(s, t) == s \o t

\* What u is then, in one word.
Consists(S, u, s, t, m, n) ==
  /\ u \in Seq(S) /\ Len(u) = m + n
  /\ \A k \in 1 .. m : u[k] = s[k]
  /\ \A k \in 1 .. n : u[m + k] = t[k]

LEMMA Joined ==
  ASSUME NEW S, NEW s \in Seq(S), NEW t \in Seq(S), NEW m \in Nat, NEW n \in Nat,
         Len(s) = m, Len(t) = n
  PROVE  Consists(S, Join(s, t), s, t, m, n)
<1>1. PICK u : u = Join(s, t)
  OBVIOUS
<1>2. u = s \o t
  BY <1>1 DEF Join
<1>3. u \in Seq(S) /\ Len(u) = m + n
  BY <1>2, ConcatProperties
<1>4. \A k \in 1 .. m : u[k] = s[k]
  BY <1>2
<1>5. \A k \in 1 .. n : u[m + k] = t[k]
  BY <1>2
<1> QED BY <1>1, <1>3, <1>4, <1>5 DEF Consists

\* What is left of a script from its k-th step on.
Rest(s, k) == SubSeq(s, k, Len(s))

LEMMA RestItems ==
  ASSUME NEW S, NEW s \in Seq(S), NEW m \in Nat, m = Len(s), NEW k \in 1 .. m + 1
  PROVE  /\ Rest(s, k) \in Seq(S)
         /\ Len(Rest(s, k)) = m - k + 1
         /\ \A i \in 1 .. m - k + 1 : Rest(s, k)[i] = s[k + i - 1]
<1>1. \A i \in k .. m : s[i] \in S
  BY ElementOfSeq
<1>2. /\ SubSeq(s, k, m) \in Seq(S)
      /\ Len(SubSeq(s, k, m)) = IF k <= m THEN m - k + 1 ELSE 0
      /\ \A i \in 1 .. m - k + 1 : SubSeq(s, k, m)[i] = s[k + i - 1]
  BY <1>1, SubSeqProperties
<1> QED BY <1>2 DEF Rest

LEMMA RestStep ==
  ASSUME NEW S, NEW s \in Seq(S), NEW m \in Nat, m = Len(s), NEW k \in 1 .. m
  PROVE  /\ Rest(s, k) # <<>>
         /\ Head(Rest(s, k)) = s[k]
         /\ Tail(Rest(s, k)) = Rest(s, k + 1)
         /\ k + 1 \in 1 .. m + 1
<1>1. Head(SubSeq(s, k, m)) = s[k] /\ Tail(SubSeq(s, k, m)) = SubSeq(s, k + 1, m)
  BY HeadTailOfSubSeq
<1>2. k \in 1 .. m + 1 /\ k + 1 \in 1 .. m + 1 /\ m - k + 1 # 0
  OBVIOUS
<1>3. Len(Rest(s, k)) # 0
  BY <1>2, RestItems
<1>4. Rest(s, k) # <<>>
  BY <1>3
<1> QED BY <1>1, <1>2, <1>4 DEF Rest

LEMMA RestEnds ==
  ASSUME NEW S, NEW s \in Seq(S), NEW m \in Nat, m = Len(s)
  PROVE  Rest(s, 1) = s /\ Rest(s, m + 1) = <<>>
<1>1. SubSeq(s, m + 1, m) = <<>>
  BY SubSeqEmpty
<1> QED BY <1>1, SubSeqFull DEF Rest

LEMMA RestLast ==
  ASSUME NEW S, NEW s \in Seq(S), NEW m \in Nat \ {0}, m = Len(s)
  PROVE  Rest(s, m) = <<s[m]>>
<1>1. m \in 1 .. m + 1 /\ m - m + 1 = 1
  OBVIOUS
<1>2. Rest(s, m) \in Seq(S)
  BY <1>1, RestItems
<1>3. Rest(s, m) # <<>> /\ Head(Rest(s, m)) = s[m] /\ Tail(Rest(s, m)) = Rest(s, m + 1)
  BY <1>1, RestStep
<1>4. Rest(s, m + 1) = <<>>
  BY RestEnds
<1>5. PICK u : u = Rest(s, m)
  OBVIOUS
<1>6. u \in Seq(S) /\ u # <<>> /\ Head(u) = s[m] /\ Tail(u) = <<>>
  BY <1>2, <1>3, <1>4, <1>5
<1>7. Len(u) = 1
  <2>1. Len(Tail(u)) = Len(u) - 1
    BY <1>6, HeadTailProperties
  <2>2. PICK n \in Nat : n = Len(u)
    BY <1>6
  <2>3. PICK v : v = Tail(u)
    OBVIOUS
  <2>4. Len(v) = 0
    BY <1>6, <2>3
  <2>5. n - 1 = 0
    BY <2>1, <2>2, <2>3, <2>4
  <2>6. n = 1
    BY <2>5
  <2> QED BY <2>2, <2>6
<1> QED BY <1>5, <1>6, <1>7

\* r is the n steps of s from the k-th on.
Stretch(S, r, s, k, n) ==
  /\ r \in Seq(S) /\ Len(r) = n
  /\ \A i \in 1 .. n : r[i] = s[k + i - 1]

LEMMA RestStretch ==
  ASSUME NEW S, NEW s \in Seq(S), NEW m \in Nat, m = Len(s), NEW k \in 1 .. m + 1,
         NEW n \in Nat, n = m - k + 1
  PROVE  Stretch(S, Rest(s, k), s, k, n)
<1>1. \A i \in k .. m : s[i] \in S
  BY ElementOfSeq
<1>2. PICK r : r = SubSeq(s, k, m)
  OBVIOUS
<1>3. /\ r \in Seq(S)
      /\ Len(r) = IF k <= m THEN m - k + 1 ELSE 0
      /\ \A i \in 1 .. m - k + 1 : r[i] = s[k + i - 1]
  BY <1>1, <1>2, SubSeqProperties
<1>4. Len(r) = n
  BY <1>3
<1>5. Stretch(S, r, s, k, n)
  BY <1>3, <1>4 DEF Stretch
<1>6. r = Rest(s, k)
  BY <1>2 DEF Rest
<1> QED BY <1>5, <1>6

\* Steps put in front of what is left, which are the ones before it.
LEMMA RestAgain ==
  ASSUME NEW S, NEW s \in Seq(S), NEW m \in Nat, m = Len(s),
         NEW k \in 1 .. m + 1, NEW j \in 1 .. k,
         NEW a \in Nat, a = k - j, NEW again, Stretch(S, again, s, j, a)
  PROVE  Join(again, Rest(s, k)) = Rest(s, j)
<1>1. PICK n \in Nat : n = m - k + 1
  OBVIOUS
<1>2. PICK r : r = Rest(s, k)
  OBVIOUS
<1>3. PICK t : t = Rest(s, j)
  OBVIOUS
<1>4. PICK w \in Nat : w = a + n
  OBVIOUS
<1>5. w = m - j + 1 /\ j \in 1 .. m + 1
  BY <1>1, <1>4
<1>6. Stretch(S, r, s, k, n)
  BY <1>1, <1>2, RestStretch
<1>7. Stretch(S, t, s, j, w)
  BY <1>3, <1>5, RestStretch
<1>8. PICK u : u = Join(again, r)
  OBVIOUS
<1>9. r \in Seq(S) /\ Len(r) = n /\ again \in Seq(S) /\ Len(again) = a
  BY <1>6 DEF Stretch
<1>10. Consists(S, u, again, r, a, n)
  BY <1>8, <1>9, Joined
<1>11. u \in Seq(S) /\ Len(u) = w /\ t \in Seq(S) /\ Len(t) = w
  BY <1>4, <1>7, <1>10 DEF Stretch, Consists
<1>12. ASSUME NEW i \in 1 .. w PROVE u[i] = t[i]
  <2>1. PICK y \in Int : y = j + i - 1
    OBVIOUS
  <2>2. t[i] = s[y]
    BY <1>7, <2>1 DEF Stretch
  <2>3. CASE i <= a
    <3>1. i \in 1 .. a
      BY <2>3
    <3>2. u[i] = again[i]
      BY <1>10, <3>1 DEF Consists
    <3>3. again[i] = s[y]
      BY <2>1, <3>1 DEF Stretch
    <3> QED BY <2>2, <3>2, <3>3
  <2>4. CASE i > a
    <3>1. PICK h \in 1 .. n : i = a + h
      BY <1>4, <2>4
    <3>2. y = k + h - 1
      BY <2>1, <3>1
    <3>3. u[i] = r[h]
      BY <1>10, <3>1 DEF Consists
    <3>4. r[h] = s[y]
      BY <1>6, <3>2 DEF Stretch
    <3> QED BY <2>2, <3>3, <3>4
  <2>5. i <= a \/ i > a
    OBVIOUS
  <2> QED BY <2>3, <2>4, <2>5, Zenon
<1>13. u = t
  BY <1>11, <1>12, SeqEqual
<1> QED BY <1>2, <1>3, <1>8, <1>13

-----------------------------------------------------------------------------
(***************************************************************************)
(* Scripts, step by step.                                                  *)
(***************************************************************************)
ReadRegs == ({"ir", "md"} \X (1 .. Parts)) \cup {<<"scratch", 1>>}
WriteRegs == ReadRegs \cup {<<"clk", 1>>}

Sets == [op : {"set"}, reg : WriteRegs, val : Word]
Gets == [op : {"get"}, reg : ReadRegs]
Transfers == Sets \cup Gets
Verifies == [op : {"verify"}, want : Wide, again : Seq(Transfers)]
Tries == [op : {"try"}, want : Seq(Word)]
Steps == Transfers \cup Verifies \cup Tries \cup {Show, Fail}

\* The steps that load an instruction and read it back, one by one.
LoadStep(ir, k) ==
  IF k <= Parts THEN CcSet(<<"ir", k>>, ir[k])
  ELSE IF k <= 2 * Parts THEN CcSet(<<"ir", k - Parts>>, ir[k - Parts])
  ELSE IF k = 2 * Parts + 1 THEN Clk(14)
  ELSE IF k = 2 * Parts + 2 THEN Clk(0)
  ELSE CcGet(<<"ir", k - (2 * Parts + 2)>>)

Load(ir) == WriteDiagIr(ir) \o NoopDebugClock \o ReadIr

LEMMA ZeroIsWord == Zero \in Word /\ Digits \in Places
BY SizeAssumption DEF Zero, Word, Places

LEMMA ClkStep ==
  ASSUME NEW n \in 0 .. 15
  PROVE  /\ Clk(n) \in Sets /\ Clk(n).op = "set" /\ Clk(n).reg = <<"clk", 1>>
         /\ Clk(n).val \in Word /\ Clk(n).val[Digits] = n
<1>1. [Zero EXCEPT ![Digits] = n] \in Word /\ [Zero EXCEPT ![Digits] = n][Digits] = n
  BY ZeroIsWord DEF Word
<1> QED BY <1>1 DEF Clk, CcSet, Sets, WriteRegs

LEMMA RegStep ==
  ASSUME NEW name \in {"ir", "md"}, NEW p \in 1 .. Parts, NEW v \in Word
  PROVE  CcSet(<<name, p>>, v) \in Sets /\ CcGet(<<name, p>>) \in Gets
BY DEF CcSet, CcGet, Sets, Gets, WriteRegs, ReadRegs

LEMMA WritesAll ==
  ASSUME NEW name \in {"ir", "md"}, NEW v \in Wide
  PROVE  /\ WriteAll(name, v) \in Seq(Transfers)
         /\ Len(WriteAll(name, v)) = Parts
         /\ \A p \in 1 .. Parts : WriteAll(name, v)[p] = CcSet(<<name, p>>, v[p])
<1>1. Parts \in Nat /\ Len(v) = Parts /\ \A p \in 1 .. Parts : v[p] \in Word
  BY SizeAssumption DEF Wide
<1>2. WriteAll(name, v) = [p \in 1 .. Parts |-> CcSet(<<name, p>>, v[p])]
  BY <1>1 DEF WriteAll
<1>3. \A p \in 1 .. Parts : CcSet(<<name, p>>, v[p]) \in Transfers
  BY <1>1, RegStep DEF Transfers
<1> HIDE DEF CcSet
<1> QED BY <1>1, <1>2, <1>3

LEMMA ReadsAll ==
  ASSUME NEW name \in {"ir", "md"}
  PROVE  /\ ReadAll(name, Parts) \in Seq(Transfers)
         /\ Len(ReadAll(name, Parts)) = Parts
         /\ \A p \in 1 .. Parts : ReadAll(name, Parts)[p] = CcGet(<<name, p>>)
<1>1. Parts \in Nat
  BY SizeAssumption
<1>2. ReadAll(name, Parts) = [p \in 1 .. Parts |-> CcGet(<<name, p>>)]
  BY DEF ReadAll
<1>3. \A p \in 1 .. Parts : CcGet(<<name, p>>) \in Transfers
  BY RegStep, ZeroIsWord DEF Transfers
<1> QED BY <1>1, <1>2, <1>3

LEMMA LoadSteps ==
  ASSUME NEW ir \in Wide
  PROVE  /\ Load(ir) \in Seq(Transfers)
         /\ Len(Load(ir)) = 3 * Parts + 2
         /\ \A k \in 1 .. 3 * Parts + 2 : Load(ir)[k] = LoadStep(ir, k)
<1>1. PICK n \in Nat \ {0} : n = Parts
  BY SizeAssumption
<1>2. PICK w : w = WriteAll("ir", ir)
  OBVIOUS
<1>3. /\ w \in Seq(Transfers) /\ Len(w) = n
      /\ \A p \in 1 .. n : w[p] = CcSet(<<"ir", p>>, ir[p])
  BY <1>1, <1>2, WritesAll
<1>4. PICK c : c = NoopDebugClock
  OBVIOUS
<1>5. c \in Seq(Transfers) /\ Len(c) = 2 /\ c[1] = Clk(14) /\ c[2] = Clk(0)
  <2>1. Clk(14) \in Transfers /\ Clk(0) \in Transfers
    BY ClkStep DEF Transfers
  <2>2. c = <<Clk(14), Clk(0)>>
    BY <1>4 DEF NoopDebugClock, Pulse
  <2> QED BY <2>1, <2>2
<1>6. PICK r : r = ReadIr
  OBVIOUS
<1>7. r \in Seq(Transfers) /\ Len(r) = n /\ \A p \in 1 .. n : r[p] = CcGet(<<"ir", p>>)
  BY <1>1, <1>6, ReadsAll DEF ReadIr
<1>8. Load(ir) = Join(Join(Join(w, w), c), r)
  BY <1>2, <1>4, <1>6 DEF Load, WriteDiagIr, Join
<1>9q. PICK q \in Nat : q = n + n
  OBVIOUS
<1>9two. PICK two \in Nat : two = 2
  OBVIOUS
<1>9o. PICK o \in Nat : o = q + two
  OBVIOUS
<1>9. q = n + n /\ two = 2 /\ o = q + two
  BY <1>9q, <1>9two, <1>9o
<1>10. PICK ww : ww = Join(w, w)
  OBVIOUS
<1>11. /\ ww \in Seq(Transfers) /\ Len(ww) = q
       /\ \A k \in 1 .. n : ww[k] = w[k] /\ ww[n + k] = w[k]
  <2>1. w \in Seq(Transfers) /\ Len(w) = n
    BY <1>3
  <2>2. Consists(Transfers, ww, w, w, n, n)
    BY <1>10, <2>1, Joined
  <2> QED BY <1>9, <2>2 DEF Consists
<1>12. PICK wc : wc = Join(ww, c)
  OBVIOUS
<1>13. /\ wc \in Seq(Transfers) /\ Len(wc) = o
       /\ \A k \in 1 .. q : wc[k] = ww[k]
       /\ \A k \in 1 .. two : wc[q + k] = c[k]
  <2>1. c \in Seq(Transfers) /\ Len(c) = two
    BY <1>5, <1>9
  <2>2. ww \in Seq(Transfers) /\ Len(ww) = q
    BY <1>11
  <2>3. Consists(Transfers, wc, ww, c, q, two)
    BY <1>12, <2>1, <2>2, Joined
  <2> QED BY <1>9, <2>3 DEF Consists
<1>14. PICK s : s = Join(wc, r)
  OBVIOUS
<1>s. /\ s \in Seq(Transfers) /\ Len(s) = o + n
      /\ \A k \in 1 .. o : s[k] = wc[k]
      /\ \A k \in 1 .. n : s[o + k] = r[k]
  <2>1. wc \in Seq(Transfers) /\ Len(wc) = o
    BY <1>13
  <2>2. r \in Seq(Transfers) /\ Len(r) = n
    BY <1>7
  <2>3. Consists(Transfers, s, wc, r, o, n)
    BY <1>14, <2>1, <2>2, Joined
  <2> QED BY <2>3 DEF Consists
<1>15. ASSUME NEW k \in 1 .. 3 * n + 2 PROVE s[k] = LoadStep(ir, k)
  <2>1. CASE k <= n
    <3>1. s[k] = w[k]
      BY <1>9, <1>11, <1>13, <1>s, <2>1
    <3> QED BY <1>1, <1>3, <2>1, <3>1 DEF LoadStep
  <2>2. CASE k > n /\ k <= q
    <3>1. PICK p \in 1 .. n : k = n + p
      BY <1>9, <2>2
    <3>2. s[k] = ww[k] /\ ww[n + p] = w[p]
      BY <1>9, <1>11, <1>13, <1>s, <2>2
    <3>3. ~(k <= n) /\ k <= 2 * n /\ k - n = p
      BY <1>9, <2>2, <3>1
    <3> QED BY <1>1, <1>3, <3>1, <3>2, <3>3 DEF LoadStep
  <2>3. CASE k = q + 1
    <3>1. 1 \in 1 .. two /\ k \in 1 .. o
      BY <1>9, <2>3
    <3>s. s[k] = Clk(14)
      BY <1>5, <1>13, <1>s, <2>3, <3>1
    <3>2. ~(k <= n) /\ ~(k <= 2 * n) /\ k = 2 * n + 1
      BY <1>9, <2>3
    <3> QED BY <1>1, <3>s, <3>2 DEF LoadStep
  <2>4. CASE k = q + 2
    <3>1. 2 \in 1 .. two /\ k \in 1 .. o
      BY <1>9, <2>4
    <3>s. s[k] = Clk(0)
      BY <1>5, <1>13, <1>s, <2>4, <3>1
    <3>2. ~(k <= n) /\ ~(k <= 2 * n) /\ k # 2 * n + 1 /\ k = 2 * n + 2
      BY <1>9, <2>4
    <3> QED BY <1>1, <3>s, <3>2 DEF LoadStep
  <2>5. CASE k > q + 2
    <3>1. PICK p \in 1 .. n : k = o + p
      BY <1>9, <2>5
    <3>2. s[k] = CcGet(<<"ir", p>>)
      BY <1>7, <1>s, <3>1
    <3>3. /\ ~(k <= n) /\ ~(k <= 2 * n) /\ k # 2 * n + 1 /\ k # 2 * n + 2
          /\ k - (2 * n + 2) = p
      BY <1>9, <2>5, <3>1
    <3> QED BY <1>1, <3>2, <3>3 DEF LoadStep
  <2>6. k <= n \/ (k > n /\ k <= q) \/ k = q + 1 \/ k = q + 2 \/ k > q + 2
    OBVIOUS
  <2> QED BY <2>1, <2>2, <2>3, <2>4, <2>5, <2>6
<1>16. Len(s) = 3 * n + 2
  BY <1>9, <1>s
<1> QED BY <1>1, <1>8, <1>10, <1>12, <1>14, <1>15, <1>16, <1>s

\* A step behind a sequence, and two.
EndsWith(S, u, s, m, e) ==
  /\ u \in Seq(S) /\ Len(u) = m + 1
  /\ \A k \in 1 .. m : u[k] = s[k]
  /\ u[m + 1] = e

EndsWithBoth(S, u, s, m, e, f) ==
  /\ u \in Seq(S) /\ Len(u) = m + 2
  /\ \A k \in 1 .. m : u[k] = s[k]
  /\ u[m + 1] = e
  /\ u[m + 2] = f

LEMMA JoinedOne ==
  ASSUME NEW S, NEW s \in Seq(S), NEW m \in Nat, Len(s) = m, NEW e \in S
  PROVE  EndsWith(S, Join(s, <<e>>), s, m, e)
<1>n. PICK n \in Nat : n = 1
  OBVIOUS
<1>1. PICK t : t = <<e>>
  OBVIOUS
<1>2. t \in Seq(S) /\ Len(t) = n /\ t[1] = e /\ 1 \in 1 .. n
  BY <1>n, <1>1
<1>3. Consists(S, Join(s, t), s, t, m, n)
  BY <1>2, Joined
<1> QED BY <1>n, <1>1, <1>2, <1>3 DEF Consists, EndsWith

LEMMA JoinedTwo ==
  ASSUME NEW S, NEW s \in Seq(S), NEW m \in Nat, Len(s) = m, NEW e \in S, NEW f \in S
  PROVE  EndsWithBoth(S, Join(s, <<e, f>>), s, m, e, f)
<1>n. PICK n \in Nat : n = 2
  OBVIOUS
<1>1. PICK t : t = <<e, f>>
  OBVIOUS
<1>2. t \in Seq(S) /\ Len(t) = n /\ t[1] = e /\ t[2] = f /\ 1 \in 1 .. n /\ 2 \in 1 .. n
  BY <1>n, <1>1
<1>3. Consists(S, Join(s, t), s, t, m, n)
  BY <1>2, Joined
<1> QED BY <1>n, <1>1, <1>2, <1>3 DEF Consists, EndsWithBoth

LEMMA TransfersAreSteps ==
  ASSUME NEW s \in Seq(Transfers)
  PROVE  s \in Seq(Steps)
BY SeqMonotonic DEF Steps

\* An instruction loaded and verified.
LEMMA LoadIrSteps ==
  ASSUME NEW ir \in Wide, NEW l \in Nat, l = 3 * Parts + 2
  PROVE  /\ LoadIr(ir) \in Seq(Steps)
         /\ Len(LoadIr(ir)) = l + 1
         /\ \A k \in 1 .. l : LoadIr(ir)[k] = LoadStep(ir, k)
         /\ LoadIr(ir)[l + 1] = Verify(ir, Load(ir))
<1>1. PICK s : s = Load(ir)
  OBVIOUS
<1>2. /\ s \in Seq(Transfers) /\ s \in Seq(Steps) /\ Len(s) = l
      /\ \A k \in 1 .. l : s[k] = LoadStep(ir, k)
  BY <1>1, LoadSteps, TransfersAreSteps
<1>3. PICK e : e = Verify(ir, s)
  OBVIOUS
<1>4. e \in Steps
  <2>1. e \in Verifies
    BY <1>2, <1>3 DEF Verify, Verifies
  <2> QED BY <2>1 DEF Steps
<1>5. LoadIr(ir) = Join(s, <<e>>)
  BY <1>1, <1>3 DEF LoadIr, Load, Join
<1>6. EndsWith(Steps, Join(s, <<e>>), s, l, e)
  BY <1>2, <1>4, JoinedOne
<1>7. EndsWith(Steps, LoadIr(ir), s, l, e)
  BY <1>5, <1>6
<1> QED BY <1>1, <1>2, <1>3, <1>7 DEF EndsWith

LEMMA ExecuteRSteps ==
  ASSUME NEW ir \in Wide, NEW l \in Nat, l = 3 * Parts + 2
  PROVE  /\ ExecuteR(ir) \in Seq(Steps)
         /\ Len(ExecuteR(ir)) = l + 3
         /\ \A k \in 1 .. l : ExecuteR(ir)[k] = LoadStep(ir, k)
         /\ ExecuteR(ir)[l + 1] = Verify(ir, Load(ir))
         /\ ExecuteR(ir)[l + 2] = Clk(10)
         /\ ExecuteR(ir)[l + 3] = Clk(0)
<1>m. PICK m \in Nat : m = l + 1
  OBVIOUS
<1>1. PICK s : s = LoadIr(ir)
  OBVIOUS
<1>2. /\ s \in Seq(Steps) /\ Len(s) = m
      /\ \A k \in 1 .. l : s[k] = LoadStep(ir, k)
      /\ s[m] = Verify(ir, Load(ir))
  BY <1>m, <1>1, LoadIrSteps
<1>3. PICK e, f : e = Clk(10) /\ f = Clk(0)
  OBVIOUS
<1>4. e \in Steps /\ f \in Steps
  BY <1>3, ClkStep DEF Transfers, Steps
<1>5. ExecuteR(ir) = Join(s, <<e, f>>)
  BY <1>1, <1>3 DEF ExecuteR, DebugClock, Pulse, Join
<1>6. EndsWithBoth(Steps, ExecuteR(ir), s, m, e, f)
  BY <1>2, <1>4, <1>5, JoinedTwo
<1>7. /\ m \in 1 .. m /\ \A k \in 1 .. l : k \in 1 .. m
      /\ m + 1 = l + 2 /\ m + 2 = l + 3
  BY <1>m
<1> QED BY <1>m, <1>1, <1>2, <1>3, <1>6, <1>7 DEF EndsWithBoth

LEMMA ExecuteWSteps ==
  ASSUME NEW ir \in Wide, NEW l \in Nat, l = 3 * Parts + 2
  PROVE  /\ ExecuteW(ir) \in Seq(Steps)
         /\ Len(ExecuteW(ir)) = l + 5
         /\ \A k \in 1 .. l : ExecuteW(ir)[k] = LoadStep(ir, k)
         /\ ExecuteW(ir)[l + 1] = Verify(ir, Load(ir))
         /\ ExecuteW(ir)[l + 2] = Clk(2)
         /\ ExecuteW(ir)[l + 3] = Clk(0)
         /\ ExecuteW(ir)[l + 4] = Clk(6)
         /\ ExecuteW(ir)[l + 5] = Clk(0)
<1>m. PICK m \in Nat : m = l + 1
  OBVIOUS
<1>1. PICK s : s = LoadIr(ir)
  OBVIOUS
<1>2. /\ s \in Seq(Steps) /\ Len(s) = m
      /\ \A k \in 1 .. l : s[k] = LoadStep(ir, k)
      /\ s[m] = Verify(ir, Load(ir))
  BY <1>m, <1>1, LoadIrSteps
<1>3. PICK e, f, g : e = Clk(2) /\ f = Clk(0) /\ g = Clk(6)
  OBVIOUS
<1>4. e \in Steps /\ f \in Steps /\ g \in Steps
  BY <1>3, ClkStep DEF Transfers, Steps
<1>q. PICK q \in Nat : q = m + 2
  OBVIOUS
<1>5. PICK t : t = Join(s, <<e, f>>)
  OBVIOUS
<1>6. /\ t \in Seq(Steps) /\ Len(t) = q
      /\ \A k \in 1 .. m : t[k] = s[k]
      /\ t[m + 1] = e
      /\ t[m + 2] = f
  <2>1. s \in Seq(Steps) /\ Len(s) = m
    BY <1>2
  <2>2. e \in Steps /\ f \in Steps
    BY <1>4
  <2>3. EndsWithBoth(Steps, t, s, m, e, f)
    BY <1>5, <2>1, <2>2, JoinedTwo
  <2> QED BY <1>q, <2>3 DEF EndsWithBoth
<1>7. /\ Join(t, <<g, f>>) \in Seq(Steps) /\ Len(Join(t, <<g, f>>)) = q + 2
      /\ \A k \in 1 .. q : Join(t, <<g, f>>)[k] = t[k]
      /\ Join(t, <<g, f>>)[q + 1] = g
      /\ Join(t, <<g, f>>)[q + 2] = f
  <2>1. t \in Seq(Steps) /\ Len(t) = q
    BY <1>6
  <2>2. g \in Steps /\ f \in Steps
    BY <1>4
  <2>3. EndsWithBoth(Steps, Join(t, <<g, f>>), t, q, g, f)
    BY <2>1, <2>2, JoinedTwo
  <2> QED BY <2>3 DEF EndsWithBoth
<1>8. ExecuteW(ir) = Join(t, <<g, f>>)
  BY <1>1, <1>3, <1>5 DEF ExecuteW, StepClock, NoopClock, Pulse, Join
<1>9. /\ m \in 1 .. m /\ \A k \in 1 .. l : k \in 1 .. m
      /\ \A k \in 1 .. m : k \in 1 .. q
      /\ m + 1 \in 1 .. q /\ m + 2 \in 1 .. q
      /\ m + 1 = l + 2 /\ m + 2 = l + 3 /\ q + 1 = l + 4 /\ q + 2 = l + 5
  BY <1>m, <1>q
<1> QED BY <1>m, <1>1, <1>2, <1>3, <1>6, <1>7, <1>8, <1>9

LEMMA WriteMdIsSteps ==
  ASSUME NEW v \in Wide
  PROVE  WriteMd(v) \in Seq(Steps)
<1>1. PICK w, r : w = WriteAll("md", v) /\ r = ReadAll("md", Parts)
  OBVIOUS
<1>2. w \in Seq(Transfers) /\ r \in Seq(Transfers)
  BY <1>1, WritesAll, ReadsAll
<1>3. PICK l : l = w \o r
  OBVIOUS
<1>4. l \in Seq(Transfers)
  BY <1>2, <1>3
<1>5. PICK e : e = Verify(v, l)
  OBVIOUS
<1>6. e \in Verifies
  BY <1>4, <1>5 DEF Verify, Verifies
<1>7. l \in Seq(Steps) /\ <<e>> \in Seq(Steps)
  BY <1>4, <1>6, TransfersAreSteps DEF Steps
<1>8. WriteMd(v) = l \o <<e>>
  BY <1>1, <1>3, <1>5 DEF WriteMd
<1> QED BY <1>7, <1>8, ConcatProperties

LEMMA AttemptsAreSteps ==
  ASSUME NEW w \in Seq(Steps), NEW r \in Seq(Steps), NEW want \in Seq(Word)
  PROVE  Attempts(w, r, want) \in Seq(Steps)
<1>1. PICK t : t = Try(want)
  OBVIOUS
<1>2. t \in Steps /\ Fail \in Steps
  BY <1>1 DEF Try, Tries, Steps
<1>3. <<t>> \in Seq(Steps) /\ <<t, Fail>> \in Seq(Steps)
  BY <1>2
<1>4. Attempts(w, r, want) = w \o r \o <<t>> \o r \o <<t>> \o w \o r \o <<t, Fail>>
  BY <1>1 DEF Attempts
<1>5. \A a, b \in Seq(Steps) : a \o b \in Seq(Steps)
  BY ConcatProperties
<1>6. w \o r \o <<t>> \in Seq(Steps)
  BY <1>3, <1>5
<1>7. w \o r \o <<t>> \o r \o <<t>> \in Seq(Steps)
  BY <1>3, <1>5, <1>6
<1>8. w \o r \o <<t>> \o r \o <<t>> \o w \o r \in Seq(Steps)
  BY <1>5, <1>7
<1> QED BY <1>3, <1>4, <1>5, <1>8

LEMMA CallKinds ==
  ASSUME NEW c \in Calls
  PROVE  \/ c.proc = "execute_r" /\ c.ir \in Wide
         \/ c.proc = "test_ir" /\ c.ir \in Wide
         \/ c.proc = "write_a_mem" /\ c.ir \in Wide /\ c.md \in Wide
         \/ c.proc = "test_scratch" /\ c.md \in Wide
BY WordAssumption DEF Calls

LEMMA ScriptIsSteps ==
  ASSUME NEW c \in Calls
  PROVE  Script(c) \in Seq(Steps)
<1>1. CASE c.proc = "execute_r" /\ c.ir \in Wide
  <2>1. PICK l \in Nat : l = 3 * Parts + 2
    BY SizeAssumption
  <2>2. ExecuteR(c.ir) \in Seq(Steps)
    BY <1>1, <2>1, ExecuteRSteps
  <2> QED BY <1>1, <2>2 DEF Script
<1>2. CASE c.proc = "test_ir" /\ c.ir \in Wide
  <2>1. PICK w, r : w = WriteDiagIr(c.ir) \o NoopDebugClock /\ r = ReadIr
    OBVIOUS
  <2>2. w \in Seq(Steps)
    <3>1. WriteAll("ir", c.ir) \in Seq(Steps)
      BY <1>2, WritesAll, TransfersAreSteps
    <3>2. Clk(14) \in Steps /\ Clk(0) \in Steps
      BY ClkStep DEF Transfers, Steps
    <3>3. NoopDebugClock \in Seq(Steps)
      BY <3>2 DEF NoopDebugClock, Pulse
    <3>4. WriteDiagIr(c.ir) \in Seq(Steps)
      BY <3>1 DEF WriteDiagIr
    <3> QED BY <2>1, <3>3, <3>4, ConcatProperties
  <2>3. r \in Seq(Steps)
    BY <2>1, ReadsAll, TransfersAreSteps DEF ReadIr
  <2>4. c.ir \in Seq(Word)
    BY <1>2, SizeAssumption DEF Wide
  <2>5. Attempts(w, r, c.ir) \in Seq(Steps)
    BY <2>2, <2>3, <2>4, AttemptsAreSteps
  <2> QED BY <1>2, <2>1, <2>5 DEF Script, TestIr
<1>3. CASE c.proc = "write_a_mem" /\ c.ir \in Wide /\ c.md \in Wide
  <2>1. PICK l \in Nat : l = 3 * Parts + 2
    BY SizeAssumption
  <2>2. ExecuteW(c.ir) \in Seq(Steps)
    BY <1>3, <2>1, ExecuteWSteps
  <2>3. WriteMd(c.md) \in Seq(Steps)
    BY <1>3, WriteMdIsSteps
  <2>4. ReadAll("md", Parts) \in Seq(Steps)
    BY ReadsAll, TransfersAreSteps
  <2>5. <<Show>> \in Seq(Steps)
    BY DEF Steps
  <2>6. WriteAMem(c.ir, c.md) \in Seq(Steps)
    BY <2>2, <2>3, <2>4, <2>5, ConcatProperties DEF WriteAMem
  <2> QED BY <1>3, <2>6 DEF Script
<1>4. CASE c.proc = "test_scratch" /\ c.md \in Wide
  <2>1. PICK g, s : g = CcGet(<<"scratch", 1>>) /\ s = CcSet(<<"scratch", 1>>, c.md[1])
    OBVIOUS
  <2>2. c.md[1] \in Word
    BY <1>4, SizeAssumption DEF Wide
  <2>3. g \in Steps /\ s \in Steps /\ Show \in Steps
    BY <2>1, <2>2 DEF CcGet, CcSet, Gets, Sets, ReadRegs, WriteRegs, Transfers, Steps
  <2>4. <<g, Show, s>> \in Seq(Steps) /\ <<g>> \in Seq(Steps) /\ <<c.md[1]>> \in Seq(Word)
    BY <2>2, <2>3
  <2>5. Attempts(<<g, Show, s>>, <<g>>, <<c.md[1]>>) \in Seq(Steps)
    BY <2>4, AttemptsAreSteps
  <2>6. TestScratch(c.md[1]) = Attempts(<<g, Show, s>>, <<g>>, <<c.md[1]>>)
    BY <2>1 DEF TestScratch
  <2> QED BY <1>4, <2>5, <2>6 DEF Script
<1> QED BY <1>1, <1>2, <1>3, <1>4, CallKinds

-----------------------------------------------------------------------------
(***************************************************************************)
(* What the variables hold.                                                *)
(***************************************************************************)
Chars == Places \X (0 .. 15)
Executions == [ir : Wide, md : Wide]
Machines == [clk : 0 .. 15, scratch : Word, ir : Wide, executed : Seq(Executions),
             diag : Wide, md : Wide]

HostTypes ==
  /\ script \in Seq(Steps) /\ got \in Seq(Word)
  /\ call \in Calls \cup {[proc |-> "none"]}
  /\ verdict \in {"none", "ok", "bad"}
LineTypes ==
  /\ sent \in 0 .. Digits /\ loops \in 0 .. MaxLoops
  /\ buf \in Seq(Chars) /\ line \in Seq(Chars)
MachineTypes == nibs \in Word /\ machine \in Machines
FaultTypes == faults \in 0 .. MaxFaults /\ seen \subseteq FaultKinds
Types == HostTypes /\ LineTypes /\ MachineTypes /\ FaultTypes

\* What the operation of a step says of the step.
LEMMA StepKinds ==
  ASSUME NEW s \in Steps
  PROVE  /\ s.op = "set" => s \in Sets
         /\ s.op = "get" => s \in Gets
         /\ s.op = "verify" => s \in Verifies
         /\ s.op = "try" => s \in Tries
         /\ s.op = "show" => s = Show
         /\ s.op = "fail" => s = Fail
BY DEF Steps, Transfers, Sets, Gets, Verifies, Tries, Show, Fail

LEMMA HeadAndTail ==
  ASSUME NEW S, NEW s \in Seq(S), s # <<>>
  PROVE  Head(s) \in S /\ Tail(s) \in Seq(S)
BY HeadTailProperties

LEMMA ZerosAreWide == [p \in 1 .. Parts |-> Zero] \in Wide
BY ZeroIsWord DEF Wide

LEMMA RegisterWritten ==
  ASSUME NEW m \in Machines, NEW r \in WriteRegs, NEW v \in Word
  PROVE  WriteRegister(m, r, v) \in Machines
<1>1. CASE r[1] = "clk"
  <2>1. v[Digits] \in 0 .. 15
    BY ZeroIsWord DEF Word
  <2>2. [ir |-> m.ir, md |-> m.md] \in Executions /\ m.executed \in Seq(Executions)
    BY DEF Machines, Executions
  <2>3. Append(m.executed, [ir |-> m.ir, md |-> m.md]) \in Seq(Executions)
    BY <2>2
  <2>4. m.diag \in Wide /\ Imem \in Wide
    BY WordAssumption DEF Machines
  <2>5. Clocked(m, v[Digits]) \in Machines
    BY <2>1, <2>3, <2>4 DEF Clocked, Machines
  <2> QED BY <1>1, <2>5 DEF WriteRegister
<1>2. CASE r[1] = "ir"
  <2>1. r[2] \in 1 .. Parts
    BY <1>2 DEF WriteRegs, ReadRegs
  <2>2. [m EXCEPT !.diag[r[2]] = v] \in Machines
    BY <2>1 DEF Machines, Wide
  <2> QED BY <1>2, <2>2 DEF WriteRegister
<1>3. CASE r[1] = "md"
  <2>1. r[2] \in 1 .. Parts
    BY <1>3 DEF WriteRegs, ReadRegs
  <2>2. [m EXCEPT !.md[r[2]] = v] \in Machines
    BY <2>1 DEF Machines, Wide
  <2> QED BY <1>3, <2>2 DEF WriteRegister
<1>4. CASE r[1] = "scratch"
  <2>1. [m EXCEPT !.scratch = v] \in Machines
    BY DEF Machines
  <2> QED BY <1>4, <2>1 DEF WriteRegister
<1>5. r[1] = "clk" \/ r[1] = "ir" \/ r[1] = "md" \/ r[1] = "scratch"
  BY DEF WriteRegs, ReadRegs
<1> QED BY <1>1, <1>2, <1>3, <1>4, <1>5

LEMMA RegisterRead ==
  ASSUME NEW m \in Machines, NEW r \in ReadRegs
  PROVE  ReadRegister(m, r) \in Word
<1>1. CASE r[1] = "scratch"
  BY <1>1 DEF ReadRegister, Machines
<1>2. ASSUME r[1] # "scratch" PROVE r[2] \in 1 .. Parts /\ r[1] \in {"ir", "md"}
  BY <1>2 DEF ReadRegs
<1>3. m.ir \in Wide /\ m.md \in Wide
  BY DEF Machines
<1>4. CASE r[1] = "ir"
  BY <1>2, <1>3, <1>4 DEF ReadRegister, Wide
<1>5. CASE r[1] = "md"
  BY <1>2, <1>3, <1>5 DEF ReadRegister, Wide
<1> QED BY <1>1, <1>2, <1>4, <1>5

\* The characters of an answer, as the adapter sends them.
LEMMA AnswerItems ==
  ASSUME NEW r \in ReadRegs, MachineTypes
  PROVE  /\ Answer(r) \in Seq(Chars) /\ Len(Answer(r)) = Digits
         /\ \A d \in Places : /\ Answer(r)[d][1] = d
                              /\ Answer(r)[d][2] = ReadRegister(machine, r)[d]
<1>1. PICK v : v = ReadRegister(machine, r)
  OBVIOUS
<1>2. v \in Word
  BY <1>1, RegisterRead DEF MachineTypes
<1>3. Answer(r) = [d \in Places |-> <<d, v[d]>>]
  BY <1>1 DEF Answer
<1>4. \A d \in Places : <<d, v[d]>> \in Chars
  BY <1>2 DEF Word, Chars
<1>5. Answer(r) \in Seq(Chars) /\ Len(Answer(r)) = Digits
  BY <1>3, <1>4, SizeAssumption DEF Places
<1> QED BY <1>1, <1>3, <1>5

LEMMA OneLost ==
  ASSUME NEW s \in Seq(Chars), NEW d \in 1 .. Len(s)
  PROVE  RemoveAt(s, d) \in Seq(Chars) /\ Len(RemoveAt(s, d)) = Len(s) - 1
<1>1. PICK n \in Nat : n = Len(s)
  OBVIOUS
<1>2. \A i \in 1 .. n : s[i] \in Chars
  BY <1>1, ElementOfSeq
<1>3. PICK a, b : a = SubSeq(s, 1, d - 1) /\ b = SubSeq(s, d + 1, n)
  OBVIOUS
<1>4. a \in Seq(Chars) /\ Len(a) = d - 1
  BY <1>1, <1>2, <1>3
<1>5. b \in Seq(Chars) /\ Len(b) = n - d
  BY <1>1, <1>2, <1>3
<1>6. RemoveAt(s, d) = a \o b
  BY <1>1, <1>3 DEF RemoveAt
<1> QED BY <1>1, <1>4, <1>5, <1>6

LEMMA OneRepeated ==
  ASSUME NEW s \in Seq(Chars), NEW d \in 1 .. Len(s), NEW c \in Chars
  PROVE  InsertAt(s, d, c) \in Seq(Chars)
<1>1. PICK n \in Nat : n = Len(s)
  OBVIOUS
<1>2. \A i \in 1 .. n : s[i] \in Chars
  BY <1>1, ElementOfSeq
<1>3. PICK a, b, e : a = SubSeq(s, 1, d - 1) /\ b = SubSeq(s, d, n) /\ e = <<c>>
  OBVIOUS
<1>4. a \in Seq(Chars)
  BY <1>1, <1>2, <1>3
<1>5. b \in Seq(Chars)
  BY <1>1, <1>2, <1>3
<1>6. e \in Seq(Chars)
  BY <1>3
<1>7. InsertAt(s, d, c) = a \o e \o b
  BY <1>1, <1>3 DEF InsertAt
<1> QED BY <1>4, <1>5, <1>6, <1>7, ConcatProperties

LEMMA TypesAtStart == Init => Types
<1> SUFFICES ASSUME Init PROVE Types
  OBVIOUS
<1>1. HostTypes
  <2>1. script = <<>> /\ got = <<>> /\ call = [proc |-> "none"] /\ verdict = "none"
    BY DEF Init
  <2>2. script \in Seq(Steps) /\ got \in Seq(Word)
    BY <2>1
  <2> QED BY <2>1, <2>2 DEF HostTypes
<1>2. LineTypes
  BY SizeAssumption DEF Init, LineTypes
<1>3. MachineTypes
  <2>1. machine = [clk |-> 0, scratch |-> Zero, ir |-> Imem, executed |-> <<>>,
                   diag |-> [p \in 1 .. Parts |-> Zero], md |-> [p \in 1 .. Parts |-> Zero]]
    BY DEF Init
  <2>2. <<>> \in Seq(Executions)
    OBVIOUS
  <2>3. machine \in Machines
    BY <2>1, <2>2, ZeroIsWord, ZerosAreWide, WordAssumption DEF Machines
  <2> QED BY <2>3, ZeroIsWord DEF MachineTypes, Init
<1>4. FaultTypes
  BY SizeAssumption DEF Init, FaultTypes
<1> QED BY <1>1, <1>2, <1>3, <1>4 DEF Types

LEMMA TypesStartCall == Types /\ StartCall => Types'
<1> SUFFICES ASSUME Types, StartCall PROVE Types'
  OBVIOUS
<1>1. HostTypes'
  <2>1. PICK c \in Calls : call' = c /\ script' = Script(c)
    BY DEF StartCall
  <2>2. got' = <<>> /\ verdict' = "none"
    BY DEF StartCall
  <2>3. script' \in Seq(Steps)
    BY <2>1, ScriptIsSteps
  <2>4. got' \in Seq(Word)
    BY <2>2
  <2> QED BY <2>1, <2>2, <2>3, <2>4 DEF HostTypes
<1>2. MachineTypes'
  <2>1. machine' = [machine EXCEPT !.executed = <<>>] /\ nibs' = nibs
    BY DEF StartCall
  <2>2. <<>> \in Seq(Executions)
    OBVIOUS
  <2> QED BY <2>1, <2>2 DEF Types, MachineTypes, Machines
<1>3. LineTypes' /\ FaultTypes'
  BY DEF Types, LineTypes, FaultTypes, StartCall, io
<1> QED BY <1>1, <1>2, <1>3 DEF Types

LEMMA FaultKept ==
  ASSUME FaultTypes, NEW kinds \in SUBSET FaultKinds, Fine \/ Fault(kinds)
  PROVE  FaultTypes' /\ seen \subseteq seen'
BY SizeAssumption DEF FaultTypes, Fine, Fault

LEMMA TypesSendSet == Types /\ SendSet => Types'
<1> SUFFICES ASSUME Types, SendSet PROVE Types'
  OBVIOUS
<1>1. PICK s : s = Head(script)
  OBVIOUS
<1>2. script \in Seq(Steps) /\ script # <<>> /\ s.op = "set"
  BY <1>1 DEF SendSet, Doing, Types, HostTypes
<1>3. s \in Sets /\ Tail(script) \in Seq(Steps)
  BY <1>1, <1>2, HeadAndTail, StepKinds
<1>4. s.reg \in WriteRegs /\ s.val \in Word
  BY <1>3 DEF Sets
<1>5. HostTypes'
  <2>1. script' = script \/ script' = Tail(script)
    BY <1>1 DEF SendSet
  <2>2. got' = got /\ call' = call /\ verdict' = verdict
    BY DEF SendSet
  <2> QED BY <1>2, <1>3, <2>1, <2>2 DEF Types, HostTypes
<1>6. LineTypes'
  <2>1. sent' = IF sent = Digits THEN 0 ELSE sent + 1
    BY DEF SendSet
  <2>2. buf' = buf /\ loops' = loops /\ line' = line
    BY DEF SendSet
  <2> QED BY <2>1, <2>2, SizeAssumption DEF Types, LineTypes
<1>7. MachineTypes'
  <2>1. \/ nibs' = nibs
        \/ sent # Digits /\ nibs' = [nibs EXCEPT ![sent + 1] = s.val[sent + 1]]
    BY <1>1 DEF SendSet
  <2>2. nibs' \in Word
    <3>1. sent # Digits => sent + 1 \in Places
      BY SizeAssumption DEF Types, LineTypes, Places
    <3>2. nibs \in Word
      BY DEF Types, MachineTypes
    <3> QED BY <1>4, <2>1, <3>1, <3>2 DEF Word
  <2>3. machine' = machine \/ machine' = WriteRegister(machine, s.reg, nibs)
    BY <1>1 DEF SendSet
  <2>4. machine' \in Machines
    BY <1>4, <2>3, RegisterWritten DEF Types, MachineTypes
  <2> QED BY <2>2, <2>4 DEF MachineTypes
<1>8. FaultTypes'
  <2>1. PICK kinds : kinds = {"lost"} \cup (IF s.reg[1] = "clk" THEN {"clock"} ELSE {})
    OBVIOUS
  <2>2. Fine \/ Fault(kinds)
    BY <1>1, <2>1 DEF SendSet
  <2>3. kinds \in SUBSET FaultKinds
    BY <2>1 DEF FaultKinds
  <2> QED BY <2>2, <2>3, FaultKept DEF Types
<1> QED BY <1>5, <1>6, <1>7, <1>8 DEF Types

\* What an answer is, when it arrives as it was sent and when it does not.
LEMMA AnswersTypes ==
  ASSUME Types, NEW r \in ReadRegs, Answers(r)
  PROVE  /\ line' \in Seq(Chars) /\ FaultTypes' /\ seen \subseteq seen'
         /\ \/ line' = line \o Answer(r)
            \/ "repeated" \in seen'
            \/ line = <<>> => Len(line') < Digits
<1>1. PICK a : a = Answer(r)
  OBVIOUS
<1>2. a \in Seq(Chars) /\ Len(a) = Digits
  BY <1>1, AnswerItems DEF Types
<1>3. line \in Seq(Chars) /\ FaultTypes
  BY DEF Types, LineTypes
<1>4. CASE line' = line \o a /\ Fine
  <2>1. {} \in SUBSET FaultKinds
    OBVIOUS
  <2>2. FaultTypes' /\ seen \subseteq seen'
    BY <1>3, <1>4, <2>1, FaultKept
  <2>3. line' \in Seq(Chars)
    BY <1>2, <1>3, <1>4
  <2> QED BY <1>1, <1>4, <2>2, <2>3
<1>5. ASSUME NEW d \in Places, line' = line \o RemoveAt(a, d), Fault({"lost"})
      PROVE  /\ line' \in Seq(Chars) /\ FaultTypes' /\ seen \subseteq seen'
             /\ line = <<>> => Len(line') < Digits
  <2>1. d \in 1 .. Len(a)
    BY <1>2 DEF Places
  <2>2. PICK b : b = RemoveAt(a, d)
    OBVIOUS
  <2>3. b \in Seq(Chars) /\ Len(b) = Digits - 1
    BY <1>2, <2>1, <2>2, OneLost
  <2>4. line' = line \o b
    BY <1>5, <2>2
  <2>5. line = <<>> => Len(line') < Digits
    BY <1>3, <2>3, <2>4, SizeAssumption
  <2>6. {"lost"} \in SUBSET FaultKinds
    BY DEF FaultKinds
  <2>7. FaultTypes' /\ seen \subseteq seen'
    BY <1>3, <1>5, <2>6, FaultKept
  <2>8. line' \in Seq(Chars)
    BY <1>3, <2>3, <2>4
  <2> QED BY <2>5, <2>7, <2>8
<1>6. ASSUME NEW d \in Places, line' = line \o InsertAt(a, d, a[d]), Fault({"repeated"})
      PROVE  /\ line' \in Seq(Chars) /\ FaultTypes' /\ seen \subseteq seen'
             /\ "repeated" \in seen'
  <2>1. d \in 1 .. Len(a) /\ a[d] \in Chars
    BY <1>2, ElementOfSeq DEF Places
  <2>2. PICK b : b = InsertAt(a, d, a[d])
    OBVIOUS
  <2>3. b \in Seq(Chars)
    BY <1>2, <2>1, <2>2, OneRepeated
  <2>4. line' = line \o b
    BY <1>6, <2>2
  <2>5. line' \in Seq(Chars)
    BY <1>3, <2>3, <2>4
  <2>6. {"repeated"} \in SUBSET FaultKinds
    BY DEF FaultKinds
  <2>7. FaultTypes' /\ seen \subseteq seen'
    BY <1>3, <1>6, <2>6, FaultKept
  <2>8. "repeated" \in seen'
    BY <1>6 DEF Fault
  <2> QED BY <2>5, <2>7, <2>8
<1>7. \/ line' = line \o a /\ Fine
      \/ \E d \in Places : line' = line \o RemoveAt(a, d) /\ Fault({"lost"})
      \/ \E d \in Places : line' = line \o InsertAt(a, d, a[d]) /\ Fault({"repeated"})
  BY <1>1 DEF Answers
<1> QED BY <1>1, <1>4, <1>5, <1>6, <1>7

LEMMA TypesSendGet == Types /\ SendGet => Types'
<1> SUFFICES ASSUME Types, SendGet PROVE Types'
  OBVIOUS
<1>1. PICK r : r = Head(script).reg
  OBVIOUS
<1>2. script \in Seq(Steps) /\ script # <<>> /\ Head(script).op = "get"
  BY DEF SendGet, Doing, Types, HostTypes
<1>3. Head(script) \in Gets
  BY <1>2, HeadAndTail, StepKinds
<1>4. r \in ReadRegs
  BY <1>1, <1>3 DEF Gets
<1>5. line' \in Seq(Chars) /\ FaultTypes'
  <2>1. Answers(r) \/ (Fault({"lost"}) /\ line' = line)
    BY <1>1 DEF SendGet
  <2>2. ASSUME Fault({"lost"}), line' = line PROVE line' \in Seq(Chars) /\ FaultTypes'
    <3>1. {"lost"} \in SUBSET FaultKinds
      BY DEF FaultKinds
    <3> QED BY <2>2, <3>1, FaultKept DEF Types, LineTypes
  <2> QED BY <1>4, <2>1, <2>2, AnswersTypes
<1>6. HostTypes' /\ MachineTypes'
  BY DEF Types, HostTypes, MachineTypes, SendGet, host
<1>7. LineTypes'
  <2>1. sent' = 1 /\ buf' = buf /\ loops' = loops
    BY DEF SendGet
  <2> QED BY <1>5, <2>1, SizeAssumption DEF Types, LineTypes
<1> QED BY <1>5, <1>6, <1>7 DEF Types

\* Of some places there is a last.
LEMMA LastPlace ==
  ASSUME NEW n \in Nat, NEW T \in SUBSET (1 .. n), T # {}
  PROVE  Max(T) \in T /\ \A x \in T : Max(T) >= x
<1> DEFINE U == {i \in 0 .. n : n - i \in T}
<1> DEFINE Less == {x \in Nat \X Nat : x[1] < x[2]}
<1>1. U \subseteq Nat /\ U # {}
  <2>1. PICK x \in T : TRUE
    OBVIOUS
  <2>2. n - x \in 0 .. n /\ n - (n - x) = x
    OBVIOUS
  <2>3. n - x \in U
    BY <2>2
  <2>4. U \subseteq Nat
    OBVIOUS
  <2> HIDE DEF U
  <2> QED BY <2>3, <2>4
<1>2. IsWellFoundedOn(Less, Nat)
  <2>1. Less = OpToRel(<, Nat)
    BY DEF OpToRel
  <2> QED BY <2>1, NatLessThanWellFounded
<1>3. PICK u \in U : \A i \in U : ~(<<i, u>> \in Less)
  <2> HIDE DEF Less, U
  <2> QED BY <1>1, <1>2, WFMin
<1>4. \A i \in U : u <= i
  <2>1. SUFFICES ASSUME NEW i \in U PROVE u <= i
    OBVIOUS
  <2>2. i \in Nat /\ u \in Nat /\ ~(<<i, u>> \in Less)
    BY <1>1, <1>3
  <2> QED BY <2>2
<1>5. PICK m : m = n - u
  OBVIOUS
<1>6. m \in T /\ m \in 1 .. n
  BY <1>5
<1>7. ASSUME NEW x \in T PROVE m >= x
  <2>1. n - x \in 0 .. n /\ n - (n - x) = x
    OBVIOUS
  <2>2. u <= n - x
    BY <1>4, <2>1
  <2> QED BY <1>5, <2>2
<1> QED BY <1>6, <1>7 DEF Max

\* What reg_get makes of the characters it has: with a digit missing it is 0,
\* and an answer that came as it was sent is what was answered.
LEMMA Decoding ==
  ASSUME NEW chars \in Seq(Chars), NEW n \in Nat, n = Len(chars)
  PROVE  /\ Decode(chars) \in Word
         /\ \A d \in Places : (\A i \in 1 .. n : chars[i][1] # d) => Decode(chars) = Zero
         /\ (n = Digits /\ \A d \in Places : chars[d][1] = d) =>
              Decode(chars) = [d \in Places |-> chars[d][2]]
<1> DEFINE found(d) == {i \in DOMAIN chars : chars[i][1] = d}
<1>1. DOMAIN chars = 1 .. n
  OBVIOUS
<1>2. Decode(chars) = IF \A d \in Places : found(d) # {}
                      THEN [d \in Places |-> chars[Max(found(d))][2]]
                      ELSE Zero
  BY DEF Decode
<1>3. \A d \in Places : found(d) # {} => Max(found(d)) \in found(d)
  <2>1. SUFFICES ASSUME NEW d \in Places, found(d) # {}
                 PROVE  Max(found(d)) \in found(d)
    OBVIOUS
  <2>2. found(d) \in SUBSET (1 .. n)
    BY <1>1
  <2> HIDE DEF found
  <2> QED BY <2>1, <2>2, LastPlace
<1>4. \A i \in 1 .. n : chars[i] \in Chars
  BY ElementOfSeq
<1>5. Decode(chars) \in Word
  <2>1. CASE \A d \in Places : found(d) # {}
    <3>1. \A d \in Places : chars[Max(found(d))][2] \in 0 .. 15
      <4>1. SUFFICES ASSUME NEW d \in Places PROVE chars[Max(found(d))][2] \in 0 .. 15
        OBVIOUS
      <4>2. PICK m : m = Max(found(d))
        OBVIOUS
      <4>3. m \in 1 .. n
        BY <1>1, <1>3, <2>1, <4>2
      <4>4. chars[m] \in Chars
        BY <1>4, <4>3
      <4>5. chars[m][2] \in 0 .. 15
        BY <4>4 DEF Chars
      <4> QED BY <4>2, <4>5
    <3>2. Decode(chars) = [d \in Places |-> chars[Max(found(d))][2]]
      BY <1>2, <2>1
    <3> HIDE DEF found
    <3> QED BY <3>1, <3>2 DEF Word
  <2>2. CASE ~ \A d \in Places : found(d) # {}
    BY <1>2, <2>2, ZeroIsWord
  <2> QED BY <2>1, <2>2
<1>6. ASSUME NEW d \in Places, \A i \in 1 .. n : chars[i][1] # d
      PROVE  Decode(chars) = Zero
  <2>1. found(d) = {}
    BY <1>1, <1>6
  <2> HIDE DEF found
  <2> QED BY <1>2, <2>1
<1>7. ASSUME n = Digits, \A d \in Places : chars[d][1] = d
      PROVE  Decode(chars) = [d \in Places |-> chars[d][2]]
  <2>1. \A d \in Places : found(d) = {d}
    BY <1>1, <1>7 DEF Places
  <2>2. \A d \in Places : Max(found(d)) = d
    <3>1. SUFFICES ASSUME NEW d \in Places PROVE Max(found(d)) = d
      OBVIOUS
    <3>2. found(d) # {} /\ found(d) = {d}
      BY <2>1
    <3> HIDE DEF found
    <3> QED BY <1>3, <3>2
  <2> HIDE DEF found
  <2> QED BY <1>2, <2>1, <2>2
<1> QED BY <1>5, <1>6, <1>7

LEMMA TypesReadChars ==
  ASSUME Types, NEW k \in 1 .. Len(line), ReadChars(k), FaultTypes'
  PROVE  Types'
<1>1. PICK l \in Nat : l = Len(line)
  BY DEF Types, LineTypes
<1>2. line \in Seq(Chars) /\ buf \in Seq(Chars) /\ \A i \in 1 .. l : line[i] \in Chars
  BY <1>1, ElementOfSeq DEF Types, LineTypes
<1>3. PICK part : part = SubSeq(line, 1, k)
  OBVIOUS
<1>4. part \in Seq(Chars)
  BY <1>1, <1>2, <1>3
<1>5. PICK total : total = buf \o part
  OBVIOUS
<1>6. total \in Seq(Chars)
  BY <1>2, <1>4, <1>5
<1>7. script \in Seq(Steps) /\ script # <<>>
  BY DEF ReadChars, Awaiting, Doing, Types, HostTypes
<1>8. LineTypes'
  <2>1. line' \in Seq(Chars)
    <3>1. line' = SubSeq(line, k + 1, l)
      BY <1>1 DEF ReadChars
    <3> QED BY <1>1, <1>2, <3>1
  <2>2. buf' = <<>> \/ buf' = total
    BY <1>3, <1>5 DEF ReadChars
  <2>e. <<>> \in Seq(Chars)
    OBVIOUS
  <2>3. buf' \in Seq(Chars)
    BY <1>6, <2>2, <2>e
  <2>4. sent' \in {0, 1} /\ loops' \in {0, loops}
    BY DEF ReadChars
  <2> QED BY <2>1, <2>3, <2>4, SizeAssumption DEF Types, LineTypes
<1>9. HostTypes'
  <2>1. PICK d : d = Decode(SubSeq(total, 1, k))
    OBVIOUS
  <2>2. got' = got \/ (Len(total) = Digits /\ got' = Append(got, d))
    BY <1>3, <1>5, <2>1 DEF ReadChars
  <2>3. ASSUME Len(total) = Digits PROVE d \in Word
    <3>1. k <= Len(total)
      <4>1. Len(part) = k
        BY <1>1, <1>2, <1>3
      <4> QED BY <1>2, <1>4, <1>5, <4>1
    <3>2. PICK t : t = SubSeq(total, 1, k)
      OBVIOUS
    <3>3. PICK m \in Nat : m = Len(total)
      BY <1>6
    <3>4. \A i \in 1 .. m : total[i] \in Chars
      BY <1>6, <3>3, ElementOfSeq
    <3>5. t \in Seq(Chars)
      BY <1>6, <3>1, <3>2, <3>3, <3>4
    <3>6. PICK n \in Nat : n = Len(t)
      BY <3>5
    <3> QED BY <2>1, <3>2, <3>5, <3>6, Decoding
  <2>4. got' \in Seq(Word)
    BY <2>2, <2>3 DEF Types, HostTypes
  <2>5. script' = script \/ script' = Tail(script)
    BY DEF ReadChars
  <2>6. script' \in Seq(Steps)
    BY <1>7, <2>5, HeadAndTail
  <2>7. call' = call /\ verdict' = verdict
    BY DEF ReadChars
  <2> QED BY <2>4, <2>6, <2>7 DEF Types, HostTypes
<1>10. MachineTypes'
  BY DEF Types, MachineTypes, ReadChars
<1> QED BY <1>8, <1>9, <1>10 DEF Types

LEMMA TypesReadAnswer == Types /\ ReadAnswer => Types'
<1> SUFFICES ASSUME Types, ReadAnswer PROVE Types'
  OBVIOUS
<1>1. PICK l \in Nat : l = Len(line)
  BY DEF Types, LineTypes
<1>2. ASSUME line # <<>>, ReadChars(Len(line)), Fine PROVE Types'
  <2>1. Len(line) \in 1 .. Len(line)
    BY <1>2 DEF Types, LineTypes
  <2>2. FaultTypes'
    BY <1>2 DEF Types, FaultTypes, Fine
  <2> QED BY <1>2, <2>1, <2>2, TypesReadChars
<1>3. ASSUME NEW k \in 1 .. Len(line) - 1, ReadChars(k), Fault({"split"}) PROVE Types'
  <2>1. k \in 1 .. Len(line)
    BY <1>1
  <2>2. {"split"} \in SUBSET FaultKinds
    BY DEF FaultKinds
  <2>3. FaultTypes'
    BY <1>3, <2>2, FaultKept DEF Types
  <2> QED BY <1>3, <2>1, <2>3, TypesReadChars
<1> QED BY <1>2, <1>3 DEF ReadAnswer

LEMMA TypesReadNothing == Types /\ ReadNothing => Types'
<1> SUFFICES ASSUME Types, ReadNothing PROVE Types'
  OBVIOUS
<1>1. FaultTypes'
  <2>1. {"late"} \in SUBSET FaultKinds
    BY DEF FaultKinds
  <2>2. Fine \/ Fault({"late"})
    BY DEF ReadNothing
  <2> QED BY <2>1, <2>2, FaultKept DEF Types
<1>2. LineTypes'
  <2>1. \/ loops < MaxLoops /\ loops' = loops + 1 /\ sent' = sent /\ buf' = buf
        \/ sent' = 0 /\ loops' = 0 /\ buf' = <<>>
    BY DEF ReadNothing, Again
  <2>2. line' = line
    BY DEF ReadNothing
  <2>e. <<>> \in Seq(Chars)
    OBVIOUS
  <2>3. buf' \in Seq(Chars)
    BY <2>1, <2>e DEF Types, LineTypes
  <2> QED BY <2>1, <2>2, <2>3, SizeAssumption DEF Types, LineTypes
<1>3. HostTypes' /\ MachineTypes'
  BY DEF Types, HostTypes, MachineTypes, ReadNothing, host
<1> QED BY <1>1, <1>2, <1>3 DEF Types

LEMMA TypesCompare == Types /\ Compare => Types'
<1> SUFFICES ASSUME Types, Compare PROVE Types'
  OBVIOUS
<1>1. PICK s : s = Head(script)
  OBVIOUS
<1>2. script \in Seq(Steps) /\ script # <<>>
  BY DEF Compare, Doing, Types, HostTypes
<1>3. s \in Steps /\ Tail(script) \in Seq(Steps)
  BY <1>1, <1>2, HeadAndTail
<1>4. script' \in Seq(Steps)
  <2>1. \/ script' = Tail(script) \/ script' = <<>>
        \/ s.op = "verify" /\ script' = s.again \o script
    BY <1>1 DEF Compare, Doing
  <2>2. ASSUME s.op = "verify" PROVE s.again \in Seq(Steps)
    <3>1. s \in Verifies
      BY <1>3, <2>2, StepKinds
    <3>2. s.again \in Seq(Transfers)
      BY <3>1 DEF Verifies
    <3> QED BY <3>2, TransfersAreSteps
  <2>3. <<>> \in Seq(Steps)
    OBVIOUS
  <2> QED BY <1>2, <1>3, <2>1, <2>2, <2>3, ConcatProperties
<1>5. HostTypes'
  <2>1. got' = <<>> /\ call' = call /\ verdict' \in {verdict, "ok", "bad"}
    BY DEF Compare
  <2>2. got' \in Seq(Word)
    BY <2>1
  <2> QED BY <1>4, <2>1, <2>2 DEF Types, HostTypes
<1>6. LineTypes' /\ MachineTypes' /\ FaultTypes'
  BY DEF Types, LineTypes, MachineTypes, FaultTypes, Compare, io
<1> QED BY <1>5, <1>6 DEF Types

LEMMA TypesKept == Types /\ [Next]_vars => Types'
<1> SUFFICES ASSUME Types, [Next]_vars PROVE Types'
  OBVIOUS
<1>1. CASE UNCHANGED vars
  <2>1. HostTypes' /\ LineTypes'
    BY <1>1 DEF vars, host, io, Types, HostTypes, LineTypes
  <2>2. MachineTypes' /\ FaultTypes'
    BY <1>1 DEF vars, Types, MachineTypes, FaultTypes
  <2> QED BY <2>1, <2>2 DEF Types
<1> QED BY <1>1, TypesStartCall, TypesSendSet, TypesSendGet, TypesReadAnswer,
           TypesReadNothing, TypesCompare DEF Next, Proceed

-----------------------------------------------------------------------------
(***************************************************************************)
(* Whose answer is on the line.                                            *)
(***************************************************************************)
\* Of the answer that reg_get waits for there is never more than was sent: what
\* it has already and what is on the line are that answer, or a character of it
\* is lost and they are too few ever to be taken for one.  When it has a part
\* only, the line has divided the answer.
Waiting(r) ==
  \/ Len(buf) + Len(line) < Digits
  \/ /\ Join(buf, line) = Answer(r)
     /\ buf # <<>> => "split" \in seen

LineRight ==
  InStep => IF Awaiting THEN Waiting(Head(script).reg) ELSE buf = <<>> /\ line = <<>>

LEMMA InStepBefore ==
  ASSUME InStep', seen \subseteq seen'
  PROVE  InStep
BY DEF InStep

\* The faults of a step.
LEMMA SeenGrows == Types /\ [Next]_vars => seen \subseteq seen'
<1> SUFFICES ASSUME Types, [Next]_vars PROVE seen \subseteq seen'
  OBVIOUS
<1>f. ASSUME NEW kinds, Fine \/ Fault(kinds) PROVE seen \subseteq seen'
  BY <1>f DEF Fine, Fault
<1>1. CASE UNCHANGED vars \/ StartCall \/ Compare
  BY <1>1 DEF vars, StartCall, Compare
<1>2. CASE SendSet
  BY <1>2, <1>f DEF SendSet
<1>3. CASE SendGet
  <2>1. Answers(Head(script).reg) \/ Fault({"lost"})
    BY <1>3 DEF SendGet
  <2>2. \/ Fine \/ Fault({"lost"}) \/ Fault({"repeated"})
    BY <2>1 DEF Answers
  <2> QED BY <2>2, <1>f
<1>4. CASE ReadAnswer
  BY <1>4, <1>f DEF ReadAnswer
<1>5. CASE ReadNothing
  BY <1>5, <1>f DEF ReadNothing
<1> QED BY <1>1, <1>2, <1>3, <1>4, <1>5 DEF Next, Proceed

\* Steps that are no part of a read.
LEMMA LineQuiet == Types /\ LineRight /\ (StartCall \/ SendSet \/ Compare) => LineRight'
<1> SUFFICES ASSUME Types, LineRight, StartCall \/ SendSet \/ Compare, InStep'
             PROVE  LineRight'
  BY DEF LineRight
<1>1. InStep
  BY InStepBefore, SeenGrows DEF Next, Proceed
<1>2. ~Awaiting
  BY DEF StartCall, SendSet, Compare, Awaiting, Doing
<1>3. buf = <<>> /\ line = <<>>
  BY <1>1, <1>2 DEF LineRight
<1>4. buf' = <<>> /\ line' = <<>>
  BY <1>3 DEF StartCall, SendSet, Compare, io
<1> QED BY <1>4, SizeAssumption DEF LineRight, Waiting

LEMMA JoinEmpty ==
  ASSUME NEW S, NEW s \in Seq(S)
  PROVE  Join(<<>>, s) = s /\ Join(s, <<>>) = s
BY ConcatEmptySeq DEF Join

LEMMA LineSendGet == Types /\ LineRight /\ SendGet => LineRight'
<1> SUFFICES ASSUME Types, LineRight, SendGet, InStep' PROVE LineRight'
  BY DEF LineRight
<1>1. InStep /\ ~Awaiting
  BY InStepBefore, SeenGrows DEF Next, Proceed, SendGet, Awaiting
<1>2. buf = <<>> /\ line = <<>>
  BY <1>1 DEF LineRight
<1>3. PICK r : r = Head(script).reg
  OBVIOUS
<1>4. r \in ReadRegs
  <2>1. script \in Seq(Steps) /\ script # <<>> /\ Head(script).op = "get"
    BY DEF SendGet, Doing, Types, HostTypes
  <2>2. Head(script) \in Gets
    BY <2>1, HeadAndTail, StepKinds
  <2> QED BY <1>3, <2>2 DEF Gets
<1>5. /\ script' = script /\ buf' = <<>> /\ sent' = 1 /\ machine' = machine
      /\ "repeated" \notin seen'
  BY <1>2 DEF SendGet, host, InStep
<1>6. PICK a : a = Answer(r)
  OBVIOUS
<1>7. a \in Seq(Chars) /\ Len(a) = Digits /\ (Answer(r))' = a
  <2>1. (Answer(r))' = Answer(r)
    BY <1>5 DEF Answer
  <2> QED BY <1>4, <1>6, <2>1, AnswerItems DEF Types
<1>8. line' = a \/ Len(line') < Digits
  <2>1. CASE Answers(r)
    <3>1. line' = line \o a \/ "repeated" \in seen' \/ (line = <<>> => Len(line') < Digits)
      BY <1>4, <1>6, <2>1, AnswersTypes
    <3>2. line \o a = a
      BY <1>2, <1>7, ConcatEmptySeq
    <3> QED BY <1>2, <1>5, <3>1, <3>2
  <2>2. CASE line' = line
    BY <1>2, <2>2, SizeAssumption
  <2> QED BY <1>3, <2>1, <2>2 DEF SendGet
<1>9. Waiting(r)'
  <2>1. CASE line' = a
    <3>1. Join(<<>>, a) = a
      BY <1>7, JoinEmpty
    <3>2. Join(buf', line') = Join(<<>>, a)
      BY <1>5, <2>1
    <3> QED BY <1>5, <1>7, <3>1, <3>2 DEF Waiting
  <2>2. CASE Len(line') < Digits
    <3>1. line' \in Seq(Chars)
      BY TypesSendGet DEF Types, LineTypes
    <3>2. Len(buf') + Len(line') < Digits
      BY <1>5, <2>2, <3>1
    <3> QED BY <3>2 DEF Waiting
  <2> QED BY <1>8, <2>1, <2>2
<1>10. Awaiting'
  <2>1. Doing("get")
    BY DEF SendGet
  <2> QED BY <1>5, <2>1 DEF Awaiting, Doing
<1>11. (Head(script).reg)' = r
  BY <1>3, <1>5
<1> QED BY <1>9, <1>10, <1>11 DEF LineRight

LEMMA LineReadNothing == Types /\ LineRight /\ ReadNothing => LineRight'
<1> SUFFICES ASSUME Types, LineRight, ReadNothing, InStep' PROVE LineRight'
  BY DEF LineRight
<1>1. InStep /\ Awaiting
  BY InStepBefore, SeenGrows DEF Next, Proceed, ReadNothing
<1>2. PICK r : r = Head(script).reg
  OBVIOUS
<1>3. Waiting(r)
  BY <1>1, <1>2 DEF LineRight
<1>4. script' = script /\ line' = line /\ machine' = machine /\ seen \subseteq seen'
  BY SeenGrows DEF ReadNothing, host, Next, Proceed
<1>5. CASE loops < MaxLoops
  <2>1. sent' = sent /\ buf' = buf
    BY <1>5 DEF ReadNothing
  <2>2. Awaiting' /\ Waiting(r)'
    BY <1>1, <1>3, <1>4, <2>1 DEF Awaiting, Doing, Waiting, Answer
  <2>3. (Head(script).reg)' = r
    BY <1>2, <1>4
  <2> QED BY <2>2, <2>3 DEF LineRight
<1>6. CASE ~(loops < MaxLoops)
  <2>1. sent' = 0 /\ buf' = <<>>
    BY <1>6 DEF ReadNothing, Again
  <2>2. line = <<>> \/ Fault({"late"})
    BY <1>6 DEF ReadNothing
  <2>3. line = <<>>
    BY <2>2 DEF Fault, InStep
  <2>4. ~Awaiting'
    BY <2>1 DEF Awaiting
  <2> QED BY <1>4, <2>1, <2>3, <2>4 DEF LineRight
<1> QED BY <1>5, <1>6

LEMMA JoinAssociates ==
  ASSUME NEW S, NEW s \in Seq(S), NEW t \in Seq(S), NEW u \in Seq(S)
  PROVE  Join(Join(s, t), u) = Join(s, Join(t, u))
<1>1. PICK m \in Nat : Len(s) = m
  OBVIOUS
<1>2. PICK n \in Nat : Len(t) = n
  OBVIOUS
<1>3. PICK p \in Nat : Len(u) = p
  OBVIOUS
<1>s. s \in Seq(S) /\ t \in Seq(S) /\ u \in Seq(S)
  OBVIOUS
<1>4. PICK a : a = Join(s, t)
  OBVIOUS
<1>5. PICK q \in Nat : q = m + n
  OBVIOUS
<1>6. /\ a \in Seq(S) /\ Len(a) = q
      /\ \A k \in 1 .. m : a[k] = s[k]
      /\ \A k \in 1 .. n : a[m + k] = t[k]
  <2>1. Consists(S, a, s, t, m, n)
    BY <1>s, <1>1, <1>2, <1>4, Joined
  <2> QED BY <1>5, <2>1 DEF Consists
<1>7. PICK c : c = Join(a, u)
  OBVIOUS
<1>8. /\ c \in Seq(S) /\ Len(c) = q + p
      /\ \A k \in 1 .. q : c[k] = a[k]
      /\ \A k \in 1 .. p : c[q + k] = u[k]
  <2>1. a \in Seq(S) /\ Len(a) = q
    BY <1>6
  <2>2. Consists(S, c, a, u, q, p)
    BY <1>3, <1>7, <2>1, Joined
  <2> QED BY <2>2 DEF Consists
<1>9. PICK b : b = Join(t, u)
  OBVIOUS
<1>10. PICK o \in Nat : o = n + p
  OBVIOUS
<1>11. /\ b \in Seq(S) /\ Len(b) = o
       /\ \A k \in 1 .. n : b[k] = t[k]
       /\ \A k \in 1 .. p : b[n + k] = u[k]
  <2>1. Consists(S, b, t, u, n, p)
    BY <1>s, <1>2, <1>3, <1>9, Joined
  <2> QED BY <1>10, <2>1 DEF Consists
<1>12. PICK d : d = Join(s, b)
  OBVIOUS
<1>13. /\ d \in Seq(S) /\ Len(d) = m + o
       /\ \A k \in 1 .. m : d[k] = s[k]
       /\ \A k \in 1 .. o : d[m + k] = b[k]
  <2>1. b \in Seq(S) /\ Len(b) = o
    BY <1>11
  <2>2. Consists(S, d, s, b, m, o)
    BY <1>s, <1>1, <1>12, <2>1, Joined
  <2> QED BY <2>2 DEF Consists
<1>14. ASSUME NEW k \in 1 .. q + p PROVE c[k] = d[k]
  <2>1. CASE k <= m
    BY <1>5, <1>6, <1>8, <1>13, <2>1
  <2>2. CASE k > m /\ k <= q
    <3>1. PICK h \in 1 .. n : k = m + h
      BY <1>5, <2>2
    <3>2. c[k] = t[h]
      BY <1>5, <1>6, <1>8, <3>1
    <3>3. d[k] = t[h]
      BY <1>10, <1>11, <1>13, <3>1
    <3> QED BY <3>2, <3>3
  <2>3. CASE k > q
    <3>1. PICK h \in 1 .. p : k = q + h
      BY <2>3
    <3>2. c[k] = u[h]
      BY <1>8, <3>1
    <3>3. n + h \in 1 .. o /\ k = m + (n + h)
      BY <1>5, <1>10, <3>1
    <3>4. d[k] = b[n + h]
      BY <1>13, <3>3
    <3> QED BY <1>11, <3>2, <3>4
  <2> QED BY <2>1, <2>2, <2>3
<1>15. Len(c) = Len(d)
  BY <1>5, <1>8, <1>10, <1>13
<1>16. c = d
  BY <1>8, <1>13, <1>14, <1>15, SeqEqual
<1> QED BY <1>4, <1>7, <1>9, <1>12, <1>16

\* A read() takes the first k characters from the line and leaves the others.
LEMMA Taken ==
  ASSUME NEW S, NEW s \in Seq(S), NEW n \in Nat, n = Len(s), NEW k \in 1 .. n
  PROVE  /\ SubSeq(s, 1, k) \in Seq(S) /\ Len(SubSeq(s, 1, k)) = k
         /\ SubSeq(s, k + 1, n) \in Seq(S) /\ Len(SubSeq(s, k + 1, n)) = n - k
         /\ Join(SubSeq(s, 1, k), SubSeq(s, k + 1, n)) = s
<1>1. \A i \in 1 .. n : s[i] \in S
  BY ElementOfSeq
<1>2. k \in Nat /\ k <= n /\ n - k \in Nat
  OBVIOUS
<1>3. PICK p \in Nat : p = n - k
  BY <1>2
<1>4. PICK f : f = SubSeq(s, 1, k)
  OBVIOUS
<1>5. f \in Seq(S) /\ Len(f) = k /\ \A i \in 1 .. k : f[i] = s[i]
  BY <1>1, <1>4
<1>6. PICK l : l = SubSeq(s, k + 1, n)
  OBVIOUS
<1>7. l \in Seq(S) /\ Len(l) = p /\ \A i \in 1 .. p : l[i] = s[k + i]
  BY <1>1, <1>3, <1>6
<1>8. PICK t : t = Join(f, l)
  OBVIOUS
<1>9. /\ t \in Seq(S) /\ Len(t) = k + p
      /\ \A i \in 1 .. k : t[i] = f[i]
      /\ \A i \in 1 .. p : t[k + i] = l[i]
  <2>1. Consists(S, t, f, l, k, p)
    BY <1>2, <1>5, <1>7, <1>8, Joined
  <2> QED BY <2>1 DEF Consists
<1>10. ASSUME NEW i \in 1 .. n PROVE t[i] = s[i]
  <2>1. CASE i <= k
    BY <1>5, <1>9, <2>1
  <2>2. CASE i > k
    <3>1. PICK j \in 1 .. p : i = k + j
      BY <1>3, <2>2
    <3>2. t[i] = l[j] /\ l[j] = s[i]
      BY <1>7, <1>9, <3>1
    <3> QED BY <3>2
  <2> QED BY <2>1, <2>2
<1>11. Len(t) = n
  BY <1>3, <1>9
<1>12. t = s
  BY <1>9, <1>10, <1>11, SeqEqual
<1> QED BY <1>3, <1>4, <1>5, <1>6, <1>7, <1>8, <1>12

\* What reg_get returns is the register, or a word of zeros.
Returned(v, r) ==
  \/ v = ReadRegister(machine, r)
  \/ v = Zero /\ "split" \in seen'

LEMMA LineReadChars ==
  ASSUME Types, LineRight, NEW n \in Nat, n = Len(line), NEW k \in 1 .. n, ReadChars(k),
         InStep', seen \subseteq seen', k < n => "split" \in seen'
  PROVE  /\ LineRight'
         /\ \/ got' = got
            \/ \E v : got' = Append(got, v) /\ Returned(v, Head(script).reg)
<1>1. PICK r : r = Head(script).reg
  OBVIOUS
<1>2. Awaiting /\ Waiting(r)
  BY <1>1, InStepBefore DEF LineRight, ReadChars
<1>3. r \in ReadRegs
  <2>1. script \in Seq(Steps) /\ script # <<>> /\ Head(script).op = "get"
    BY <1>2 DEF Awaiting, Doing, Types, HostTypes
  <2>2. Head(script) \in Gets
    BY <2>1, HeadAndTail, StepKinds
  <2> QED BY <1>1, <2>2 DEF Gets
<1>4. PICK m \in Nat : m = Len(buf)
  BY DEF Types, LineTypes
<1>5. PICK total : total = buf \o SubSeq(line, 1, k)
  OBVIOUS
<1>6. PICK rest : rest = SubSeq(line, k + 1, n)
  OBVIOUS
<1>7. /\ total \in Seq(Chars) /\ Len(total) = m + k
      /\ rest \in Seq(Chars) /\ Len(rest) = n - k
      /\ Join(total, rest) = Join(buf, line)
  <2>1. buf \in Seq(Chars) /\ line \in Seq(Chars) /\ Len(buf) = m
    BY <1>4 DEF Types, LineTypes
  <2>2. PICK f : f = SubSeq(line, 1, k)
    OBVIOUS
  <2>3. /\ f \in Seq(Chars) /\ Len(f) = k /\ k \in Nat
        /\ rest \in Seq(Chars) /\ Len(rest) = n - k
        /\ Join(f, rest) = line
    BY <1>6, <2>1, <2>2, Taken
  <2>4. Join(buf, f) \in Seq(Chars) /\ Len(Join(buf, f)) = m + k
    <3>1. Consists(Chars, Join(buf, f), buf, f, m, k)
      BY <2>1, <2>3, Joined
    <3> QED BY <3>1 DEF Consists
  <2>5. Join(buf, f) = total
    BY <1>5, <2>2 DEF Join
  <2>6. Join(Join(buf, f), rest) = Join(buf, Join(f, rest))
    BY <2>1, <2>3, JoinAssociates
  <2> QED BY <2>3, <2>4, <2>5, <2>6
<1>8. /\ buf' = IF Len(total) = Digits THEN <<>> ELSE total
      /\ sent' = IF Len(total) = Digits THEN 0 ELSE 1
      /\ script' = IF Len(total) = Digits THEN Tail(script) ELSE script
      /\ got' = IF Len(total) = Digits THEN Append(got, Decode(SubSeq(total, 1, k))) ELSE got
      /\ line' = rest /\ machine' = machine
  BY <1>5, <1>6 DEF ReadChars
<1>9. ASSUME Len(total) # Digits, Waiting(r)' PROVE LineRight' /\ got' = got
  <2>1. Awaiting' /\ (Head(script).reg)' = r
    BY <1>1, <1>2, <1>8, <1>9 DEF Awaiting, Doing
  <2> QED BY <1>8, <1>9, <2>1 DEF LineRight
<1>10. PICK a : a = Answer(r)
  OBVIOUS
<1>11. /\ a \in Seq(Chars) /\ Len(a) = Digits
       /\ \A d \in Places : a[d][1] = d /\ a[d][2] = ReadRegister(machine, r)[d]
  BY <1>3, <1>10, AnswerItems DEF Types
<1>12. CASE Len(buf) + Len(line) < Digits
  <2>1. Len(total) # Digits /\ Len(total) + Len(rest) < Digits
    BY <1>4, <1>7, <1>12
  <2>2. Waiting(r)'
    BY <1>8, <2>1 DEF Waiting
  <2> QED BY <1>9, <2>1, <2>2
<1>13. CASE Join(buf, line) = a /\ (buf # <<>> => "split" \in seen)
  <2>1. m + n = Digits
    <3>1. buf \in Seq(Chars) /\ line \in Seq(Chars)
      BY DEF Types, LineTypes
    <3>2. Len(Join(buf, line)) = m + n
      <4>1. Consists(Chars, Join(buf, line), buf, line, m, n)
        BY <1>4, <3>1, Joined
      <4> QED BY <4>1 DEF Consists
    <3> QED BY <1>11, <1>13, <3>2
  <2>2. CASE Len(total) # Digits
    <3>1. k < n
      BY <1>7, <2>1, <2>2
    <3>2. Join(total, rest) = a /\ "split" \in seen'
      BY <1>7, <1>13, <3>1
    <3>3. (Answer(r))' = a
      BY <1>8, <1>10 DEF Answer
    <3>4. buf' = total /\ line' = rest
      BY <1>8, <2>2
    <3>5. Waiting(r)'
      BY <3>2, <3>3, <3>4 DEF Waiting
    <3> QED BY <1>9, <2>2, <3>5
  <2>3. CASE Len(total) = Digits
    <3>1. k = n /\ rest = <<>>
      BY <1>7, <2>1, <2>3
    <3>2. total = a
      <4>1. Join(total, <<>>) = a
        BY <1>7, <1>13, <3>1
      <4> QED BY <1>7, <4>1, JoinEmpty
    <3>3. LineRight'
      BY <1>8, <2>3, <3>1 DEF LineRight, Awaiting
    <3>4. PICK v : v = Decode(SubSeq(total, 1, k))
      OBVIOUS
    <3>5. got' = Append(got, v)
      BY <1>8, <2>3, <3>4
    <3>6. CASE k = Digits
      <4>1. SubSeq(total, 1, k) = a
        BY <1>11, <3>2, <3>6, SubSeqFull
      <4>2. PICK q \in Nat : q = Len(a)
        BY <1>11
      <4>3. v = [d \in Places |-> a[d][2]]
        BY <1>11, <3>4, <4>1, <4>2, Decoding
      <4>4. PICK w : w = ReadRegister(machine, r)
        OBVIOUS
      <4>5. w \in Word
        BY <1>3, <4>4, RegisterRead DEF Types, MachineTypes
      <4>6. v = w
        BY <1>11, <4>3, <4>4, <4>5 DEF Word
      <4> QED BY <1>1, <3>3, <3>5, <4>4, <4>6 DEF Returned
    <3>7. CASE k # Digits
      <4>1. buf # <<>>
        BY <1>4, <2>1, <3>1, <3>7
      <4>2. "split" \in seen'
        BY <1>13, <4>1
      <4>3. k < Digits
        BY <2>1, <3>1, <3>7
      <4>4. PICK c : c = SubSeq(total, 1, k)
        OBVIOUS
      <4>5. c \in Seq(Chars) /\ Len(c) = k /\ \A i \in 1 .. k : c[i] = a[i]
        <5>1. \A i \in 1 .. k : a[i] \in Chars
          BY <1>11, <4>3, ElementOfSeq
        <5> QED BY <1>11, <3>2, <4>3, <4>4, <5>1, SubSeqProperties
      <4>6. PICK d : d = k + 1
        OBVIOUS
      <4>7. d \in Places /\ \A i \in 1 .. k : i \in Places /\ i # d
        BY <4>3, <4>6, SizeAssumption DEF Places
      <4>8. \A i \in 1 .. k : c[i][1] # d
        BY <1>11, <4>5, <4>7
      <4>9. Decode(c) = Zero
        <5>1. c \in Seq(Chars) /\ k \in Nat /\ k = Len(c)
          BY <4>5
        <5> QED BY <4>7, <4>8, <5>1, Decoding
      <4>10. v = Zero
        BY <3>4, <4>4, <4>9
      <4> QED BY <1>1, <3>3, <3>5, <4>2, <4>10 DEF Returned
    <3> QED BY <3>6, <3>7
  <2> QED BY <2>2, <2>3
<1> QED BY <1>2, <1>10, <1>12, <1>13 DEF Waiting

LEMMA LineReadAnswer ==
  ASSUME Types, LineRight, ReadAnswer, InStep'
  PROVE  /\ LineRight'
         /\ \/ got' = got
            \/ \E v : got' = Append(got, v) /\ Returned(v, Head(script).reg)
<1>1. PICK n \in Nat : n = Len(line)
  BY DEF Types, LineTypes
<1>2. seen \subseteq seen'
  BY SeenGrows DEF Next, Proceed
<1>3. CASE line # <<>> /\ ReadChars(Len(line))
  <2>1. n \in 1 .. n /\ ~(n < n) /\ ReadChars(n)
    BY <1>1, <1>3 DEF Types, LineTypes
  <2> QED BY <1>1, <1>2, <2>1, LineReadChars
<1>4. ASSUME NEW k \in 1 .. Len(line) - 1, ReadChars(k), Fault({"split"})
      PROVE  /\ LineRight'
             /\ \/ got' = got
                \/ \E v : got' = Append(got, v) /\ Returned(v, Head(script).reg)
  <2>1. k \in 1 .. n
    BY <1>1
  <2>2. "split" \in seen'
    BY <1>4 DEF Fault
  <2> QED BY <1>1, <1>2, <1>4, <2>1, <2>2, LineReadChars
<1> QED BY <1>3, <1>4 DEF ReadAnswer

LEMMA LineKept == Types /\ LineRight /\ [Next]_vars => LineRight'
<1> SUFFICES ASSUME Types, LineRight, [Next]_vars, InStep' PROVE LineRight'
  BY DEF LineRight
<1>1. CASE UNCHANGED vars
  BY <1>1 DEF vars, host, io, LineRight, InStep, Awaiting, Doing, Waiting, Answer
<1> QED BY <1>1, LineQuiet, LineSendGet, LineReadAnswer, LineReadNothing DEF Next, Proceed

-----------------------------------------------------------------------------
\* Answers were not mixed up so far.
AnswersInv == Types /\ LineRight

LEMMA AnswersInvHolds == Spec => []AnswersInv
<1>1. Init => AnswersInv
  <2>1. ASSUME Init PROVE LineRight
    BY <2>1 DEF Init, LineRight, Awaiting, Doing
  <2> QED BY <2>1, TypesAtStart DEF AnswersInv
<1>2. AnswersInv /\ [Next]_vars => AnswersInv'
  BY TypesKept, LineKept DEF AnswersInv
<1> QED BY <1>1, <1>2, PTL DEF Spec

\* The variables hold what the buffers and registers of cc.c and of the adapter
\* can: four-digit words, at most MaxLoops empty reads, a clock of four bits.
THEOREM SpyBusTypes == Spec => []TypeOK
<1>1. Types => TypeOK
  <2> SUFFICES ASSUME Types PROVE TypeOK
    OBVIOUS
  <2>1. machine.clk \in 0 .. 15 /\ machine.scratch \in Word
        /\ {machine.diag, machine.ir, machine.md} \subseteq Wide
    BY DEF Types, MachineTypes, Machines
  <2>2. sent \in 0 .. Digits + 1
    BY SizeAssumption DEF Types, LineTypes
  <2> QED BY <2>1, <2>2 DEF Types, HostTypes, LineTypes, MachineTypes, FaultTypes, TypeOK,
                            Chars
<1> QED BY <1>1, AnswersInvHolds, PTL DEF AnswersInv

\* An answer of reg_get is the register it asked for, at the time of the
\* answer, or, when the answer came in parts, zero, however many characters were
\* lost and however often it had to ask (reg_get, cc.c).
THEOREM AnswersAreOfTheRegister == Spec => AnswersAreOwn
<1>1. ASSUME AnswersInv, [Next]_vars
      PROVE  [Len(got') > Len(got) /\ InStep' =>
                LET v == got'[Len(got')]
                IN  \/ v = ReadRegister(machine, Head(script).reg)
                    \/ v = Zero /\ "split" \in seen']_vars
  <2>1. SUFFICES ASSUME Len(got') > Len(got), InStep'
                 PROVE  Returned(got'[Len(got')], Head(script).reg)
    BY DEF Returned
  <2>2. got \in Seq(Word)
    BY <1>1 DEF AnswersInv, Types, HostTypes
  <2>3. ReadAnswer
    <3>1. ~(got' = got) /\ ~(got' = <<>>)
      BY <2>1, <2>2
    <3> QED BY <1>1, <3>1 DEF Next, Proceed, StartCall, SendSet, SendGet, ReadNothing,
                              Compare, vars, host
  <2>4. PICK v : got' = Append(got, v) /\ Returned(v, Head(script).reg)
    BY <1>1, <2>1, <2>3, LineReadAnswer DEF AnswersInv
  <2>5. got'[Len(got')] = v
    BY <2>2, <2>4
  <2> QED BY <2>4, <2>5
<1> QED BY <1>1, AnswersInvHolds, PTL DEF Spec, AnswersAreOwn

-----------------------------------------------------------------------------
(***************************************************************************)
(* The scripts that execute an instruction.                                *)
(***************************************************************************)
MdLoad(v) == WriteAll("md", v) \o ReadAll("md", Parts)

\* The steps that put a word in MD, read it back and show it.
MdStep(v, k) ==
  IF k <= Parts THEN CcSet(<<"md", k>>, v[k])
  ELSE IF k <= 2 * Parts THEN CcGet(<<"md", k - Parts>>)
  ELSE IF k = 2 * Parts + 1 THEN Verify(v, MdLoad(v))
  ELSE IF k <= 3 * Parts + 1 THEN CcGet(<<"md", k - (2 * Parts + 1)>>)
  ELSE Show

MdPart(v) == WriteMd(v) \o ReadAll("md", Parts) \o <<Show>>

LEMMA MdLoadSteps ==
  ASSUME NEW v \in Wide, NEW n \in Nat, n = Parts
  PROVE  /\ MdLoad(v) \in Seq(Transfers) /\ Len(MdLoad(v)) = n + n
         /\ \A k \in 1 .. n : MdLoad(v)[k] = CcSet(<<"md", k>>, v[k])
         /\ \A k \in 1 .. n : MdLoad(v)[n + k] = CcGet(<<"md", k>>)
<1>1. PICK w : w = WriteAll("md", v)
  OBVIOUS
<1>2. /\ w \in Seq(Transfers) /\ Len(w) = n
      /\ \A k \in 1 .. n : w[k] = CcSet(<<"md", k>>, v[k])
  BY <1>1, WritesAll
<1>3. PICK r : r = ReadAll("md", Parts)
  OBVIOUS
<1>4. /\ r \in Seq(Transfers) /\ Len(r) = n
      /\ \A k \in 1 .. n : r[k] = CcGet(<<"md", k>>)
  BY <1>3, ReadsAll
<1>5. MdLoad(v) = Join(w, r)
  BY <1>1, <1>3 DEF MdLoad, Join
<1>6. /\ Join(w, r) \in Seq(Transfers) /\ Len(Join(w, r)) = n + n
      /\ \A k \in 1 .. n : Join(w, r)[k] = w[k]
      /\ \A k \in 1 .. n : Join(w, r)[n + k] = r[k]
  <2>1. w \in Seq(Transfers) /\ Len(w) = n /\ r \in Seq(Transfers) /\ Len(r) = n
    BY <1>2, <1>4
  <2>2. Consists(Transfers, Join(w, r), w, r, n, n)
    BY <2>1, Joined
  <2> QED BY <2>2 DEF Consists
<1> QED BY <1>2, <1>4, <1>5, <1>6

LEMMA MdSteps ==
  ASSUME NEW v \in Wide, NEW l \in Nat, l = 3 * Parts + 2
  PROVE  /\ MdPart(v) \in Seq(Steps)
         /\ Len(MdPart(v)) = l
         /\ \A k \in 1 .. l : MdPart(v)[k] = MdStep(v, k)
<1>1. PICK n \in Nat \ {0} : n = Parts
  BY SizeAssumption
<1>2. PICK s : s = MdLoad(v)
  OBVIOUS
<1>3. PICK m \in Nat : m = n + n
  OBVIOUS
<1>4. /\ s \in Seq(Transfers) /\ Len(s) = m
      /\ \A k \in 1 .. n : s[k] = CcSet(<<"md", k>>, v[k])
      /\ \A k \in 1 .. n : s[n + k] = CcGet(<<"md", k>>)
  BY <1>1, <1>2, <1>3, MdLoadSteps
<1>5. PICK e : e = Verify(v, s)
  OBVIOUS
<1>6. e \in Steps
  <2>1. e \in Verifies
    BY <1>4, <1>5 DEF Verify, Verifies
  <2> QED BY <2>1 DEF Steps
<1>7. PICK w : w = Join(s, <<e>>)
  OBVIOUS
<1>8. /\ w \in Seq(Steps) /\ Len(w) = m + 1
      /\ \A k \in 1 .. m : w[k] = s[k]
      /\ w[m + 1] = e
  <2>1. s \in Seq(Steps) /\ Len(s) = m /\ m \in Nat
    BY <1>4, TransfersAreSteps
  <2>2. EndsWith(Steps, Join(s, <<e>>), s, m, e)
    BY <1>6, <2>1, JoinedOne
  <2> QED BY <1>7, <2>2 DEF EndsWith
<1>9. PICK r : r = ReadAll("md", Parts)
  OBVIOUS
<1>10. r \in Seq(Steps) /\ Len(r) = n /\ \A k \in 1 .. n : r[k] = CcGet(<<"md", k>>)
  BY <1>1, <1>9, ReadsAll, TransfersAreSteps
<1>11. PICK o \in Nat : o = m + 1
  OBVIOUS
<1>12. PICK x : x = Join(w, r)
  OBVIOUS
<1>13. /\ x \in Seq(Steps) /\ Len(x) = o + n
       /\ \A k \in 1 .. o : x[k] = w[k]
       /\ \A k \in 1 .. n : x[o + k] = r[k]
  <2>1. w \in Seq(Steps) /\ Len(w) = o
    BY <1>8, <1>11
  <2>2. r \in Seq(Steps) /\ Len(r) = n
    BY <1>10
  <2>3. Consists(Steps, x, w, r, o, n)
    BY <1>12, <2>1, <2>2, Joined
  <2> QED BY <2>3 DEF Consists
<1>14. PICK q \in Nat : q = o + n
  OBVIOUS
<1>15. PICK y : y = Join(x, <<Show>>)
  OBVIOUS
<1>16. /\ y \in Seq(Steps) /\ Len(y) = q + 1
       /\ \A k \in 1 .. q : y[k] = x[k]
       /\ y[q + 1] = Show
  <2>1. x \in Seq(Steps) /\ Len(x) = q /\ Show \in Steps
    BY <1>13, <1>14 DEF Steps
  <2>2. EndsWith(Steps, y, x, q, Show)
    BY <1>15, <2>1, JoinedOne
  <2> QED BY <2>2 DEF EndsWith
<1>17. MdPart(v) = y
  BY <1>2, <1>5, <1>7, <1>9, <1>12, <1>15 DEF MdPart, WriteMd, MdLoad, Join
<1>18. ASSUME NEW k \in 1 .. l PROVE y[k] = MdStep(v, k)
  <2>1. CASE k <= n
    <3>1. y[k] = s[k] /\ s[k] = CcSet(<<"md", k>>, v[k])
      BY <1>1, <1>3, <1>4, <1>8, <1>11, <1>13, <1>14, <1>16, <2>1
    <3> QED BY <1>1, <2>1, <3>1 DEF MdStep
  <2>2. CASE k > n /\ k <= m
    <3>1. PICK p \in 1 .. n : k = n + p
      BY <1>3, <2>2
    <3>2. y[k] = s[k] /\ s[n + p] = CcGet(<<"md", p>>)
      BY <1>3, <1>4, <1>8, <1>11, <1>13, <1>14, <1>16, <2>2
    <3>3. ~(k <= n) /\ k <= 2 * n /\ k - n = p
      BY <1>3, <2>2, <3>1
    <3> QED BY <1>1, <3>1, <3>2, <3>3 DEF MdStep
  <2>3. CASE k = o
    <3>1. y[k] = e
      BY <1>8, <1>11, <1>13, <1>14, <1>16, <2>3
    <3>2. ~(k <= n) /\ ~(k <= 2 * n) /\ k = 2 * n + 1
      BY <1>3, <1>11, <2>3
    <3> QED BY <1>1, <1>2, <1>5, <3>1, <3>2 DEF MdStep
  <2>4. CASE k > o /\ k <= q
    <3>1. PICK p \in 1 .. n : k = o + p
      BY <1>14, <2>4
    <3>2. y[k] = x[k] /\ x[o + p] = CcGet(<<"md", p>>)
      BY <1>10, <1>13, <1>16, <2>4, <3>1
    <3>3. /\ ~(k <= n) /\ ~(k <= 2 * n) /\ k # 2 * n + 1 /\ k <= 3 * n + 1
          /\ k - (2 * n + 1) = p
      BY <1>3, <1>11, <1>14, <2>4, <3>1
    <3> QED BY <1>1, <3>1, <3>2, <3>3 DEF MdStep
  <2>5. CASE k > q
    <3>1. k = q + 1 /\ ~(k <= n) /\ ~(k <= 2 * n) /\ k # 2 * n + 1 /\ ~(k <= 3 * n + 1)
      BY <1>1, <1>3, <1>11, <1>14, <2>5
    <3>2. y[k] = Show
      BY <1>16, <3>1
    <3> QED BY <1>1, <3>1, <3>2 DEF MdStep
  <2>6. k <= n \/ (k > n /\ k <= m) \/ k = o \/ (k > o /\ k <= q) \/ k > q
    BY <1>11
  <2> QED BY <2>1, <2>2, <2>3, <2>4, <2>5, <2>6
<1>19. Len(y) = l
  BY <1>1, <1>3, <1>11, <1>14, <1>16
<1> QED BY <1>16, <1>17, <1>18, <1>19

\* Where the instruction's own part of a script begins, and how long it is.
Offset(c) == IF c.proc = "execute_r" THEN 0 ELSE 3 * Parts + 2
Length(c) == Offset(c) + 3 * Parts + (IF c.proc = "execute_r" THEN 5 ELSE 7)
Rising(c) == IF c.proc = "execute_r" THEN 10 ELSE 2

Executing == {c \in Calls : c.proc \in {"execute_r", "write_a_mem"}}

LEMMA ExecutingCalls ==
  ASSUME NEW c \in Executing
  PROVE  /\ c.ir \in Wide
         /\ c.proc = "execute_r" \/ (c.proc = "write_a_mem" /\ c.md \in Wide)
BY CallKinds DEF Executing

\* s holds the steps of c: l of the load behind the first o, n in all.
ScriptHolds(c, s, l, o, n) ==
  /\ s \in Seq(Steps) /\ Len(s) = n
  /\ c.proc = "write_a_mem" => \A k \in 1 .. o : s[k] = MdStep(c.md, k)
  /\ \A j \in 1 .. l : s[o + j] = LoadStep(c.ir, j)
  /\ s[o + (l + 1)] = Verify(c.ir, Load(c.ir))
  /\ s[o + (l + 2)] = Clk(Rising(c))
  /\ \A k \in o + (l + 3) .. n : s[k] \in {Clk(0), Clk(6)}
  /\ s[n] = Clk(0)

LEMMA ExecutingSteps ==
  ASSUME NEW c \in Executing, NEW l \in Nat, l = 3 * Parts + 2,
         NEW o \in Nat, o = Offset(c), NEW n \in Nat, n = Length(c)
  PROVE  ScriptHolds(c, Script(c), l, o, n)
<1>0. SUFFICES
         /\ Script(c) \in Seq(Steps) /\ Len(Script(c)) = n
         /\ c.proc = "write_a_mem" => \A k \in 1 .. o : Script(c)[k] = MdStep(c.md, k)
         /\ \A j \in 1 .. l : Script(c)[o + j] = LoadStep(c.ir, j)
         /\ Script(c)[o + (l + 1)] = Verify(c.ir, Load(c.ir))
         /\ Script(c)[o + (l + 2)] = Clk(Rising(c))
         /\ \A k \in o + (l + 3) .. n : Script(c)[k] \in {Clk(0), Clk(6)}
         /\ Script(c)[n] = Clk(0)
  BY DEF ScriptHolds
<1>1. CASE c.proc = "execute_r"
  <2>1. PICK s : s = ExecuteR(c.ir)
    OBVIOUS
  <2>2. /\ s \in Seq(Steps) /\ Len(s) = l + 3
        /\ \A j \in 1 .. l : s[j] = LoadStep(c.ir, j)
        /\ s[l + 1] = Verify(c.ir, Load(c.ir))
        /\ s[l + 2] = Clk(10)
        /\ s[l + 3] = Clk(0)
    BY <2>1, ExecutingCalls, ExecuteRSteps
  <2>3. o = 0 /\ n = l + 3 /\ Rising(c) = 10 /\ c.proc # "write_a_mem"
    BY <1>1, SizeAssumption DEF Offset, Length, Rising
  <2>4. Script(c) = s
    BY <1>1, <2>1 DEF Script
  <2>5. \A j \in 1 .. l : o + j = j
    BY <2>3
  <2>6. o + (l + 1) = l + 1 /\ o + (l + 2) = l + 2 /\ o + (l + 3) = l + 3
    BY <2>3
  <2>7. \A k \in o + (l + 3) .. n : k = l + 3
    BY <2>3
  <2> HIDE DEF LoadStep, Verify, Clk, Load
  <2> QED BY <2>2, <2>3, <2>4, <2>5, <2>6, <2>7
<1>2. CASE c.proc = "write_a_mem"
  <2>1. PICK s : s = ExecuteW(c.ir)
    OBVIOUS
  <2>2. /\ s \in Seq(Steps) /\ Len(s) = l + 5
        /\ \A j \in 1 .. l : s[j] = LoadStep(c.ir, j)
        /\ s[l + 1] = Verify(c.ir, Load(c.ir))
        /\ s[l + 2] = Clk(2)
        /\ s[l + 3] = Clk(0)
        /\ s[l + 4] = Clk(6)
        /\ s[l + 5] = Clk(0)
    BY <2>1, ExecutingCalls, ExecuteWSteps
  <2>3. PICK m : m = MdPart(c.md)
    OBVIOUS
  <2>4. m \in Seq(Steps) /\ Len(m) = l /\ \A k \in 1 .. l : m[k] = MdStep(c.md, k)
    BY <1>2, <2>3, ExecutingCalls, MdSteps
  <2>5. Script(c) = Join(m, s)
    BY <1>2, <2>1, <2>3 DEF Script, WriteAMem, MdPart, Join
  <2>6. PICK q \in Nat : q = l + 5
    OBVIOUS
  <2>7. PICK t : t = Join(m, s)
    OBVIOUS
  <2>8. /\ t \in Seq(Steps) /\ Len(t) = l + q
        /\ \A k \in 1 .. l : t[k] = m[k]
        /\ \A k \in 1 .. q : t[l + k] = s[k]
    <3>1. m \in Seq(Steps) /\ Len(m) = l /\ s \in Seq(Steps) /\ Len(s) = q
      BY <2>2, <2>4, <2>6
    <3>2. Consists(Steps, t, m, s, l, q)
      BY <2>7, <3>1, Joined
    <3> QED BY <3>2 DEF Consists
  <2>9. o = l /\ n = l + q /\ Rising(c) = 2
    BY <1>2, <2>6, SizeAssumption DEF Offset, Length, Rising
  <2>10. ASSUME NEW j \in 1 .. l PROVE t[o + j] = LoadStep(c.ir, j)
    <3>1. j \in 1 .. q /\ o + j = l + j
      BY <2>6, <2>9
    <3>2. t[l + j] = s[j] /\ s[j] = LoadStep(c.ir, j)
      BY <2>2, <2>8, <3>1
    <3> QED BY <3>1, <3>2
  <2>11. \A k \in 1 .. o : t[k] = MdStep(c.md, k)
    BY <2>4, <2>8, <2>9
  <2>12. l + 1 \in 1 .. q /\ l + 2 \in 1 .. q /\ l + 3 \in 1 .. q /\ l + 4 \in 1 .. q /\ l + 5 \in 1 .. q
    BY <2>6
  <2>13. t[o + (l + 1)] = Verify(c.ir, Load(c.ir)) /\ t[o + (l + 2)] = Clk(2)
    BY <2>2, <2>8, <2>9, <2>12
  <2>14. t[o + (l + 3)] = Clk(0) /\ t[o + (l + 4)] = Clk(6) /\ t[o + (l + 5)] = Clk(0)
    BY <2>2, <2>8, <2>9, <2>12
  <2>15. ASSUME NEW k \in o + (l + 3) .. n
         PROVE  k = o + (l + 3) \/ k = o + (l + 4) \/ k = o + (l + 5)
    BY <2>6, <2>9
  <2>16. \A k \in o + (l + 3) .. n : t[k] \in {Clk(0), Clk(6)}
    BY <2>14, <2>15
  <2>17. t[n] = Clk(0)
    BY <2>6, <2>9, <2>14
  <2> QED BY <2>5, <2>7, <2>8, <2>9, <2>10, <2>11, <2>13, <2>16, <2>17
<1> QED BY <1>1, <1>2, ExecutingCalls

\* What the k-th step of such a script is, the j-th of the instruction's part.
StepKind(c, k, j, s) ==
  \/ c.proc = "write_a_mem" /\ k \in 1 .. Parts /\ s = CcSet(<<"md", k>>, c.md[k])
  \/ c.proc = "write_a_mem" /\ k \in Parts + 1 .. 2 * Parts /\ s = CcGet(<<"md", k - Parts>>)
  \/ c.proc = "write_a_mem" /\ k = 2 * Parts + 1 /\ s = Verify(c.md, MdLoad(c.md))
  \/ /\ c.proc = "write_a_mem" /\ k \in 2 * Parts + 2 .. 3 * Parts + 1
     /\ s = CcGet(<<"md", k - (2 * Parts + 1)>>)
  \/ c.proc = "write_a_mem" /\ k = 3 * Parts + 2 /\ s = Show
  \/ j \in 1 .. 2 * Parts /\ \E p \in 1 .. Parts : s = CcSet(<<"ir", p>>, c.ir[p])
  \/ j = 2 * Parts + 1 /\ s = Clk(14)
  \/ j = 2 * Parts + 2 /\ s = Clk(0)
  \/ j \in 2 * Parts + 3 .. 3 * Parts + 2 /\ s = CcGet(<<"ir", j - (2 * Parts + 2)>>)
  \/ j = 3 * Parts + 3 /\ s = Verify(c.ir, Load(c.ir))
  \/ j = 3 * Parts + 4 /\ s = Clk(Rising(c))
  \/ j > 3 * Parts + 4 /\ s \in {Clk(0), Clk(6)}

LEMMA Positions ==
  ASSUME NEW c \in Executing, NEW o \in Nat, o = Offset(c), NEW n \in Nat, n = Length(c),
         NEW k \in 1 .. n, NEW j \in Int, j = k - o
  PROVE  StepKind(c, k, j, Script(c)[k])
<1>1. PICK P \in Nat \ {0} : P = Parts
  BY SizeAssumption
<1>2. PICK l \in Nat : l = 3 * Parts + 2
  BY <1>1
<1>3. PICK s : s = Script(c)
  OBVIOUS
<1>4. /\ c.proc = "write_a_mem" => \A i \in 1 .. o : s[i] = MdStep(c.md, i)
      /\ \A i \in 1 .. l : s[o + i] = LoadStep(c.ir, i)
      /\ s[o + (l + 1)] = Verify(c.ir, Load(c.ir))
      /\ s[o + (l + 2)] = Clk(Rising(c))
      /\ \A i \in o + (l + 3) .. n : s[i] \in {Clk(0), Clk(6)}
  <2>1. c \in Executing /\ l = 3 * Parts + 2 /\ o = Offset(c) /\ n = Length(c)
    BY <1>2
  <2>2. ScriptHolds(c, Script(c), l, o, n)
    BY <2>1, ExecutingSteps
  <2>3. ScriptHolds(c, s, l, o, n)
    BY <1>3, <2>2
  <2> QED BY <2>3 DEF ScriptHolds
<1>5. CASE j <= 0
  <2>1. c.proc = "write_a_mem" /\ k \in 1 .. o /\ o = l
    BY <1>2, <1>5, ExecutingCalls DEF Offset
  <2>2. s[k] = MdStep(c.md, k)
    BY <1>4, <2>1
  <2>3. CASE k <= P
    <3>1. k \in 1 .. Parts /\ s[k] = CcSet(<<"md", k>>, c.md[k])
      BY <1>1, <2>2, <2>3 DEF MdStep
    <3> QED BY <1>3, <2>1, <3>1 DEF StepKind
  <2>4. CASE k > P /\ k <= 2 * P
    <3>1. k \in Parts + 1 .. 2 * Parts /\ s[k] = CcGet(<<"md", k - Parts>>)
      BY <1>1, <2>2, <2>4 DEF MdStep
    <3> QED BY <1>3, <2>1, <3>1 DEF StepKind
  <2>5. CASE k = 2 * P + 1
    <3>1. k = 2 * Parts + 1 /\ s[k] = Verify(c.md, MdLoad(c.md))
      BY <1>1, <2>2, <2>5 DEF MdStep
    <3> QED BY <1>3, <2>1, <3>1 DEF StepKind
  <2>6. CASE k > 2 * P + 1 /\ k <= 3 * P + 1
    <3>1. k \in 2 * Parts + 2 .. 3 * Parts + 1 /\ s[k] = CcGet(<<"md", k - (2 * Parts + 1)>>)
      BY <1>1, <2>2, <2>6 DEF MdStep
    <3> QED BY <1>3, <2>1, <3>1 DEF StepKind
  <2>7. CASE k > 3 * P + 1
    <3>1. k = 3 * Parts + 2 /\ s[k] = Show
      BY <1>1, <1>2, <2>1, <2>2, <2>7 DEF MdStep
    <3> QED BY <1>3, <2>1, <3>1 DEF StepKind
  <2>8. \/ k <= P \/ (k > P /\ k <= 2 * P) \/ k = 2 * P + 1
        \/ (k > 2 * P + 1 /\ k <= 3 * P + 1) \/ k > 3 * P + 1
    OBVIOUS
  <2> QED BY <2>3, <2>4, <2>5, <2>6, <2>7, <2>8, Zenon
<1>6. CASE j > 0 /\ j <= l
  <2>1. j \in 1 .. l /\ o + j = k
    BY <1>6
  <2>2. s[k] = LoadStep(c.ir, j)
    BY <1>4, <2>1
  <2>3. CASE j <= P
    <3>1. /\ j \in 1 .. Parts /\ j \in 1 .. 2 * Parts
          /\ s[k] = CcSet(<<"ir", j>>, c.ir[j])
      BY <1>1, <1>6, <2>2, <2>3 DEF LoadStep
    <3> QED BY <1>3, <3>1 DEF StepKind
  <2>4. CASE j > P /\ j <= 2 * P
    <3>1. /\ j - Parts \in 1 .. Parts /\ j \in 1 .. 2 * Parts
          /\ s[k] = CcSet(<<"ir", j - Parts>>, c.ir[j - Parts])
      BY <1>1, <2>2, <2>4 DEF LoadStep
    <3> QED BY <1>3, <3>1 DEF StepKind
  <2>5. CASE j = 2 * P + 1
    <3>1. j = 2 * Parts + 1 /\ s[k] = Clk(14)
      BY <1>1, <2>2, <2>5 DEF LoadStep
    <3> QED BY <1>3, <3>1 DEF StepKind
  <2>6. CASE j = 2 * P + 2
    <3>1. j = 2 * Parts + 2 /\ s[k] = Clk(0)
      BY <1>1, <2>2, <2>6 DEF LoadStep
    <3> QED BY <1>3, <3>1 DEF StepKind
  <2>7. CASE j > 2 * P + 2
    <3>1. /\ j \in 2 * Parts + 3 .. 3 * Parts + 2
          /\ s[k] = CcGet(<<"ir", j - (2 * Parts + 2)>>)
      BY <1>1, <1>2, <1>6, <2>2, <2>7 DEF LoadStep
    <3> QED BY <1>3, <3>1 DEF StepKind
  <2>8. \/ j <= P \/ (j > P /\ j <= 2 * P) \/ j = 2 * P + 1 \/ j = 2 * P + 2
        \/ j > 2 * P + 2
    OBVIOUS
  <2> QED BY <2>3, <2>4, <2>5, <2>6, <2>7, <2>8, Zenon
<1>7. CASE j = l + 1
  <2>1. j = 3 * Parts + 3 /\ k = o + (l + 1)
    BY <1>1, <1>2, <1>7
  <2> QED BY <1>3, <1>4, <2>1 DEF StepKind
<1>8. CASE j = l + 2
  <2>1. j = 3 * Parts + 4 /\ k = o + (l + 2)
    BY <1>1, <1>2, <1>8
  <2> QED BY <1>3, <1>4, <2>1 DEF StepKind
<1>9. CASE j > l + 2
  <2>1. j > 3 * Parts + 4 /\ k \in o + (l + 3) .. n
    BY <1>1, <1>2, <1>9
  <2> QED BY <1>3, <1>4, <2>1 DEF StepKind
<1>10. j <= 0 \/ (j > 0 /\ j <= l) \/ j = l + 1 \/ j = l + 2 \/ j > l + 2
  OBVIOUS
<1> QED BY <1>5, <1>6, <1>7, <1>8, <1>9, <1>10, Zenon

-----------------------------------------------------------------------------
(***************************************************************************)
(* What holds at a step of a script that executes an instruction.          *)
(***************************************************************************)
\* The words read so far are those of a register of the machine.
Reads(i, is) ==
  /\ Len(got) = i
  /\ \A p \in 1 .. i : got[p] = is[p] \/ (got[p] = Zero /\ "split" \in seen)

Writes == call.proc = "write_a_mem"

\* At the k-th step of the script, which is the j-th of the instruction's part:
\* what was read since the last comparison,
ReadRight(k, j) ==
  /\ j \in 1 .. 2 * Parts + 2 => Reads(0, machine.ir)
  /\ j \in 2 * Parts + 3 .. 3 * Parts + 3 => Reads(j - (2 * Parts + 3), machine.ir)
  /\ Writes /\ k \in 1 .. Parts => Reads(0, machine.md)
  /\ Writes /\ k \in Parts + 1 .. 2 * Parts + 1 => Reads(k - (Parts + 1), machine.md)

\* what the comparisons have established,
Verified(k, j) ==
  /\ j \in 2 * Parts + 3 .. 3 * Parts + 4 => machine.clk = 0
  /\ j = 3 * Parts + 4 => Agrees(machine.ir, call.ir)
  /\ Writes /\ k > 2 * Parts + 1 => Agrees(machine.md, call.md)

\* and what was executed.
ExecutedRight(j) ==
  IF j <= 3 * Parts + 4 THEN machine.executed = <<>>
  ELSE /\ Len(machine.executed) = 1
       /\ Agrees(machine.executed[1].ir, call.ir)
       /\ Writes => Agrees(machine.executed[1].md, call.md)

RightAt(k, j) == ReadRight(k, j) /\ Verified(k, j) /\ ExecutedRight(j)

AtStep(k) == script = Rest(Script(call), k) /\ RightAt(k, k - Offset(call))

StepsRight ==
  Executes /\ InStep /\ "clock" \notin seen =>
    \E k \in 1 .. Length(call) + 1 : AtStep(k)

SentRight == sent # 0 => Doing("set") \/ Doing("get")

\* The adapter has the digit that a command to the clock will write.
ClockRight ==
  Doing("set") /\ Head(script).reg = <<"clk", 1>> /\ sent = Digits /\ "clock" \notin seen =>
    nibs[Digits] = Head(script).val[Digits]

LEMMA LengthIsNat ==
  ASSUME NEW c
  PROVE  /\ Offset(c) \in Nat /\ Length(c) \in Nat
         /\ Length(c) >= Offset(c) + 3 * Parts + 5
         /\ c.proc = "write_a_mem" => Offset(c) = 3 * Parts + 2
BY SizeAssumption DEF Offset, Length

LEMMA AgreesStill ==
  ASSUME NEW is, NEW want, Agrees(is, want), seen \subseteq seen'
  PROVE  Agrees(is, want)'
BY DEF Agrees

\* A step that changes neither the script nor the machine nor what was read.
LEMMA StillAtStep ==
  ASSUME NEW k, AtStep(k), script' = script, call' = call, got' = got, machine' = machine,
         seen \subseteq seen'
  PROVE  AtStep(k)'
<1>1. PICK j : j = k - Offset(call)
  OBVIOUS
<1>2. (k - Offset(call))' = j /\ (Script(call))' = Script(call)
  BY <1>1 DEF Offset, Script
<1>3. RightAt(k, j)
  BY <1>1 DEF AtStep
<1>4. ReadRight(k, j)'
  BY <1>3 DEF RightAt, ReadRight, Reads, Writes
<1>5. Verified(k, j)'
  BY <1>3 DEF RightAt, Verified, Agrees, Writes
<1>6. ExecutedRight(j)'
  BY <1>3 DEF RightAt, ExecutedRight, Agrees, Writes
<1> QED BY <1>2, <1>4, <1>5, <1>6 DEF AtStep, RightAt, Rest

\* The step that comes next.
LEMMA NextStep ==
  ASSUME call \in Executing, NEW n \in Nat, n = Length(call), NEW k \in 1 .. n + 1, AtStep(k)
  PROVE  /\ script = <<>> <=> k = n + 1
         /\ k \in 1 .. n => /\ Head(script) = Script(call)[k]
                            /\ Tail(script) = Rest(Script(call), k + 1)
<1>1. PICK s : s = Script(call)
  OBVIOUS
<1>2. s \in Seq(Steps) /\ n = Len(s)
  <2>1. PICK l \in Nat : l = 3 * Parts + 2
    BY SizeAssumption
  <2>2. PICK o \in Nat : o = Offset(call)
    BY LengthIsNat
  <2>3. ScriptHolds(call, Script(call), l, o, n)
    BY <1>1, <2>1, <2>2, ExecutingSteps
  <2> QED BY <1>1, <2>3 DEF ScriptHolds
<1>3. script = Rest(s, k)
  BY <1>1 DEF AtStep
<1>4. k \in 1 .. n => /\ script # <<>> /\ Head(script) = s[k]
                      /\ Tail(script) = Rest(s, k + 1)
  BY <1>2, <1>3, RestStep
<1>5. k = n + 1 => script = <<>>
  BY <1>2, <1>3, RestEnds
<1>6. k \in 1 .. n \/ k = n + 1
  OBVIOUS
<1>7. k \in 1 .. n => k # n + 1
  OBVIOUS
<1> QED BY <1>1, <1>4, <1>5, <1>6, <1>7

\* What writing a register does to the machine.
LEMMA DataWritten ==
  ASSUME NEW m \in Machines, NEW name \in {"ir", "md"}, NEW p \in 1 .. Parts, NEW v \in Word
  PROVE  LET w == WriteRegister(m, <<name, p>>, v)
         IN  /\ w.ir = m.ir /\ w.clk = m.clk /\ w.executed = m.executed
             /\ name = "ir" => w.md = m.md
BY DEF WriteRegister, Machines

LEMMA ClockWritten ==
  ASSUME NEW m \in Machines, NEW v \in Word
  PROVE  LET w == WriteRegister(m, <<"clk", 1>>, v)
             n == v[Digits]
         IN  /\ w.md = m.md /\ w.clk = n
             /\ n = 0 => w.ir = m.ir
             /\ n \in {0, 6, 14} => w.executed = m.executed
             /\ n \in {2, 10} /\ m.clk = 0 =>
                  w.executed = Append(m.executed, [ir |-> m.ir, md |-> m.md])
<1>1. PICK n \in 0 .. 15 : n = v[Digits]
  BY ZeroIsWord DEF Word
<1>2. PICK w : w = WriteRegister(m, <<"clk", 1>>, v)
  OBVIOUS
<1>3. w = Clocked(m, n)
  BY <1>1, <1>2 DEF WriteRegister
<1>4. w.md = m.md /\ w.clk = n
  BY <1>3 DEF Clocked, Machines
<1>5. ASSUME n = 0 PROVE w.ir = m.ir /\ w.executed = m.executed
  <2>1. ~Bit(n, 1) /\ ~Bit(n, 2)
    BY <1>5 DEF Bit
  <2>2. ~ \E b \in {1, 2} : Bit(n, b) /\ ~Bit(m.clk, b)
    BY <2>1
  <2> QED BY <1>3, <2>2 DEF Clocked, Machines
<1>6. ASSUME n \in {6, 14} PROVE w.executed = m.executed
  <2>1. Bit(n, 4)
    BY <1>6 DEF Bit
  <2> QED BY <1>3, <2>1 DEF Clocked, Machines
<1>7. ASSUME n \in {2, 10}, m.clk = 0
      PROVE  w.executed = Append(m.executed, [ir |-> m.ir, md |-> m.md])
  <2>1. Bit(n, 2) /\ ~Bit(n, 4) /\ ~Bit(m.clk, 2)
    BY <1>7 DEF Bit
  <2>2. \E b \in {1, 2} : Bit(n, b) /\ ~Bit(m.clk, b)
    BY <2>1
  <2> QED BY <1>3, <2>1, <2>2 DEF Clocked, Machines
<1> QED BY <1>1, <1>2, <1>4, <1>5, <1>6, <1>7

\* The register writes among the steps of such a script.
SetKind(c, k, j, s) ==
  \/ c.proc = "write_a_mem" /\ k \in 1 .. Parts /\ s.reg = <<"md", k>>
  \/ j \in 1 .. 2 * Parts /\ \E p \in 1 .. Parts : s.reg = <<"ir", p>>
  \/ j = 2 * Parts + 1 /\ s.reg = <<"clk", 1>> /\ s.val[Digits] = 14
  \/ j = 2 * Parts + 2 /\ s.reg = <<"clk", 1>> /\ s.val[Digits] = 0
  \/ j = 3 * Parts + 4 /\ s.reg = <<"clk", 1>> /\ s.val[Digits] \in {2, 10}
  \/ j > 3 * Parts + 4 /\ s.reg = <<"clk", 1>> /\ s.val[Digits] \in {0, 6}

LEMMA SetKinds ==
  ASSUME NEW c \in Executing, NEW o \in Nat, o = Offset(c), NEW n \in Nat, n = Length(c),
         NEW k \in 1 .. n, NEW j \in Int, j = k - o, NEW s, s = Script(c)[k], s.op = "set"
  PROVE  SetKind(c, k, j, s)
<1>1. \A r, v : CcSet(r, v).reg = r
  BY DEF CcSet
<1>2. \A r : CcGet(r).op # "set"
  BY DEF CcGet
<1>3. \A w, a : Verify(w, a).op # "set"
  BY DEF Verify
<1>4. Show.op # "set"
  BY DEF Show
<1>5. ASSUME NEW v \in {0, 2, 6, 10, 14}
      PROVE  Clk(v).reg = <<"clk", 1>> /\ Clk(v).val[Digits] = v
  <2>1. v \in 0 .. 15
    OBVIOUS
  <2> QED BY <2>1, ClkStep
<1>6. Rising(c) \in {2, 10}
  BY DEF Rising
<1>7. CASE c.proc = "write_a_mem" /\ k \in 1 .. Parts /\ s = CcSet(<<"md", k>>, c.md[k])
  BY <1>1, <1>7 DEF SetKind
<1>8. CASE j \in 1 .. 2 * Parts /\ \E p \in 1 .. Parts : s = CcSet(<<"ir", p>>, c.ir[p])
  BY <1>1, <1>8 DEF SetKind
<1>9. CASE j = 2 * Parts + 1 /\ s = Clk(14)
  <2>1. s.reg = <<"clk", 1>> /\ s.val[Digits] = 14
    BY <1>5, <1>9
  <2> QED BY <1>9, <2>1, Zenon DEF SetKind
<1>10. CASE j = 2 * Parts + 2 /\ s = Clk(0)
  <2>1. s.reg = <<"clk", 1>> /\ s.val[Digits] = 0
    BY <1>5, <1>10
  <2> QED BY <1>10, <2>1, Zenon DEF SetKind
<1>11. CASE j = 3 * Parts + 4 /\ s = Clk(Rising(c))
  <2>1. s.reg = <<"clk", 1>> /\ s.val[Digits] \in {2, 10}
    BY <1>5, <1>6, <1>11
  <2> QED BY <1>11, <2>1, Zenon DEF SetKind
<1>12. CASE j > 3 * Parts + 4 /\ s \in {Clk(0), Clk(6)}
  <2>1. s.reg = <<"clk", 1>> /\ s.val[Digits] \in {0, 6}
    BY <1>5, <1>12
  <2> QED BY <1>12, <2>1, Zenon DEF SetKind
<1>13. CASE (\E r : s = CcGet(r)) \/ (\E w, a : s = Verify(w, a)) \/ s = Show
  BY <1>2, <1>3, <1>4, <1>13
<1>14. StepKind(c, k, j, s)
  BY Positions
<1> QED BY <1>7, <1>8, <1>9, <1>10, <1>11, <1>12, <1>13, <1>14, Zenon DEF StepKind

LEMMA RightSet ==
  ASSUME Types, call \in Executing, NEW n \in Nat, n = Length(call), NEW k \in 1 .. n,
         NEW h \in Nat, h = k + 1, AtStep(k), Doing("set"),
         script' = Tail(script), call' = call, got' = got, seen \subseteq seen',
         NEW s, s = Head(script),
         \/ machine' = WriteRegister(machine, s.reg, nibs)
         \/ machine' = machine /\ s.reg # <<"clk", 1>>,
         s.reg = <<"clk", 1>> => nibs[Digits] = s.val[Digits]
  PROVE  AtStep(h)'
<1>1. PICK P \in Nat \ {0} : P = Parts
  BY SizeAssumption
<1>2. PICK o \in Nat : o = Offset(call)
  BY LengthIsNat
<1>3. PICK j \in Int : j = k - o
  OBVIOUS
<1>i. PICK i \in Int : i = j + 1
  OBVIOUS
<1>4. /\ s = Script(call)[k] /\ Tail(script) = Rest(Script(call), h)
      /\ s.op = "set"
  BY NextStep DEF Doing
<1>5. ReadRight(k, j) /\ Verified(k, j) /\ ExecutedRight(j)
  BY <1>2, <1>3 DEF AtStep, RightAt
<1>6. Writes => o = 3 * P + 2
  BY <1>1, <1>2, LengthIsNat DEF Writes
<1>m. machine \in Machines /\ nibs \in Word
  BY DEF Types, MachineTypes
<1>7. ASSUME ReadRight(h, i)', Verified(h, i)', ExecutedRight(i)'
      PROVE  AtStep(h)'
  <2>1. (h - Offset(call))' = i /\ (Script(call))' = Script(call)
    BY <1>2, <1>3, <1>i DEF Offset, Script
  <2> QED BY <1>4, <1>7, <2>1 DEF AtStep, RightAt, Rest
<1>8. Writes' <=> Writes
  BY DEF Writes
<1>9. CASE Writes /\ k \in 1 .. Parts /\ s.reg = <<"md", k>>
  <2>1. machine'.ir = machine.ir /\ machine'.clk = machine.clk
        /\ machine'.executed = machine.executed
    <3>1. CASE machine' = WriteRegister(machine, s.reg, nibs)
      BY <1>9, <1>m, <3>1, DataWritten
    <3> QED BY <3>1
  <2>2. i <= 0 /\ h <= P + 1 /\ j <= 0
    BY <1>1, <1>3, <1>i, <1>6, <1>9
  <2>3. Len(got) = 0
    BY <1>1, <1>5, <1>9 DEF ReadRight, Reads
  <2>4. ReadRight(h, i)'
    BY <1>1, <1>8, <1>9, <2>2, <2>3 DEF ReadRight, Reads
  <2>5. Verified(h, i)'
    BY <1>1, <2>2 DEF Verified
  <2>6. ExecutedRight(i)'
    <3>1. machine.executed = <<>>
      BY <1>1, <1>5, <2>2 DEF ExecutedRight
    <3> QED BY <1>1, <2>1, <2>2, <3>1 DEF ExecutedRight
  <2> QED BY <1>7, <2>4, <2>5, <2>6
\* In the instruction's own part MD is not written.
<1>10. ASSUME j >= 1, machine'.md = machine.md
       PROVE  Writes => h > 2 * P + 1 /\ Agrees(machine.md, call.md)'
  <2>1. Writes => k > 2 * P + 1
    BY <1>3, <1>6, <1>10
  <2>2. Writes => Agrees(machine.md, call.md)
    BY <1>1, <1>5, <2>1 DEF Verified
  <2>3. Writes => Agrees(machine.md, call.md)'
    BY <1>10, <2>2 DEF Agrees
  <2> QED BY <2>1, <2>3
<1>11. CASE j \in 1 .. 2 * Parts /\ \E p \in 1 .. Parts : s.reg = <<"ir", p>>
  <2>1. /\ machine'.ir = machine.ir /\ machine'.clk = machine.clk
        /\ machine'.executed = machine.executed /\ machine'.md = machine.md
    <3>1. CASE machine' = WriteRegister(machine, s.reg, nibs)
      <4>1. PICK p \in 1 .. Parts : s.reg = <<"ir", p>>
        BY <1>11
      <4>2. machine' = WriteRegister(machine, <<"ir", p>>, nibs)
        BY <3>1, <4>1
      <4> QED BY <1>m, <4>2, DataWritten
    <3> QED BY <3>1
  <2>2. i >= 1 /\ i <= 2 * P + 1 /\ j >= 1 /\ j <= 2 * P
    BY <1>1, <1>i, <1>11
  <2>3. Writes => h > 2 * P + 1 /\ Agrees(machine.md, call.md)'
    BY <1>10, <2>1, <2>2
  <2>4. ReadRight(h, i)'
    <3>1. Len(got) = 0
      BY <1>1, <1>5, <2>2 DEF ReadRight, Reads
    <3> QED BY <1>1, <1>8, <2>2, <2>3, <3>1 DEF ReadRight, Reads
  <2>5. Verified(h, i)'
    BY <1>1, <1>8, <2>2, <2>3 DEF Verified
  <2>6. ExecutedRight(i)'
    <3>1. machine.executed = <<>>
      BY <1>1, <1>5, <2>2 DEF ExecutedRight
    <3> QED BY <1>1, <2>1, <2>2, <3>1 DEF ExecutedRight
  <2> QED BY <1>7, <2>4, <2>5, <2>6
<1>12. ASSUME s.reg = <<"clk", 1>>
       PROVE  LET v == s.val[Digits]
              IN  /\ machine'.md = machine.md /\ machine'.clk = v
                  /\ v = 0 => machine'.ir = machine.ir
                  /\ v \in {0, 6, 14} => machine'.executed = machine.executed
                  /\ v \in {2, 10} /\ machine.clk = 0 =>
                       machine'.executed =
                         Append(machine.executed, [ir |-> machine.ir, md |-> machine.md])
  <2>1. machine' = WriteRegister(machine, <<"clk", 1>>, nibs) /\ nibs[Digits] = s.val[Digits]
    BY <1>12
  <2> QED BY <1>m, <2>1, ClockWritten
<1>13. CASE j = 2 * Parts + 1 /\ s.reg = <<"clk", 1>> /\ s.val[Digits] = 14
  <2>1. machine'.executed = machine.executed /\ machine'.md = machine.md
    BY <1>12, <1>13
  <2>2. i = 2 * P + 2 /\ j = 2 * P + 1 /\ j >= 1
    BY <1>1, <1>i, <1>13
  <2>3. Writes => h > 2 * P + 1 /\ Agrees(machine.md, call.md)'
    BY <1>10, <2>1, <2>2
  <2>4. ReadRight(h, i)'
    <3>1. Len(got) = 0
      BY <1>1, <1>5, <2>2 DEF ReadRight, Reads
    <3> QED BY <1>1, <1>8, <2>2, <2>3, <3>1 DEF ReadRight, Reads
  <2>5. Verified(h, i)'
    BY <1>1, <1>8, <2>2, <2>3 DEF Verified
  <2>6. ExecutedRight(i)'
    <3>1. machine.executed = <<>>
      BY <1>1, <1>5, <2>2 DEF ExecutedRight
    <3> QED BY <1>1, <2>1, <2>2, <3>1 DEF ExecutedRight
  <2> QED BY <1>7, <2>4, <2>5, <2>6
<1>14. CASE j = 2 * Parts + 2 /\ s.reg = <<"clk", 1>> /\ s.val[Digits] = 0
  <2>1. /\ machine'.executed = machine.executed /\ machine'.md = machine.md
        /\ machine'.clk = 0
    BY <1>12, <1>14
  <2>2. i = 2 * P + 3 /\ j = 2 * P + 2 /\ j >= 1
    BY <1>1, <1>i, <1>14
  <2>3. Writes => h > 2 * P + 1 /\ Agrees(machine.md, call.md)'
    BY <1>10, <2>1, <2>2
  <2>4. ReadRight(h, i)'
    <3>1. Len(got) = 0
      BY <1>1, <1>5, <2>2 DEF ReadRight, Reads
    <3> QED BY <1>1, <1>8, <2>2, <2>3, <3>1 DEF ReadRight, Reads
  <2>5. Verified(h, i)'
    BY <1>1, <1>8, <2>1, <2>2, <2>3 DEF Verified
  <2>6. ExecutedRight(i)'
    <3>1. machine.executed = <<>>
      BY <1>1, <1>5, <2>2 DEF ExecutedRight
    <3> QED BY <1>1, <2>1, <2>2, <3>1 DEF ExecutedRight
  <2> QED BY <1>7, <2>4, <2>5, <2>6
\* The instruction is executed.
<1>15. CASE j = 3 * Parts + 4 /\ s.reg = <<"clk", 1>> /\ s.val[Digits] \in {2, 10}
  <2>1. i = 3 * P + 5 /\ j = 3 * P + 4 /\ j >= 1
    BY <1>1, <1>i, <1>15
  <2>2. machine.clk = 0 /\ Agrees(machine.ir, call.ir) /\ machine.executed = <<>>
    BY <1>1, <1>5, <2>1 DEF Verified, ExecutedRight
  <2>3. /\ machine'.executed = Append(<<>>, [ir |-> machine.ir, md |-> machine.md])
        /\ machine'.md = machine.md
    BY <1>12, <1>15, <2>2
  <2>4. Writes => h > 2 * P + 1 /\ Agrees(machine.md, call.md)'
    BY <1>10, <2>1, <2>3
  <2>5. ReadRight(h, i)'
    <3>1. ~(i \in 1 .. 2 * Parts + 2) /\ ~(i \in 2 * Parts + 3 .. 3 * Parts + 3)
      BY <1>1, <2>1
    <3>2. ~(Writes' /\ h \in 1 .. Parts) /\ ~(Writes' /\ h \in Parts + 1 .. 2 * Parts + 1)
      <4>1. Writes' => h > 2 * P + 1
        BY <1>8, <2>4
      <4> QED BY <1>1, <4>1
    <3> QED BY <3>1, <3>2, Zenon DEF ReadRight
  <2>6. Verified(h, i)'
    BY <1>1, <1>8, <2>1, <2>4 DEF Verified
  <2>7. ExecutedRight(i)'
    <3>1. /\ Len(machine'.executed) = 1
          /\ machine'.executed[1] = [ir |-> machine.ir, md |-> machine.md]
      BY <2>3
    <3>2. Agrees(machine.executed[1].ir, call.ir)'
      BY <2>2, <3>1 DEF Agrees
    <3>3. Writes => Agrees(machine.executed[1].md, call.md)'
      BY <2>3, <2>4, <3>1 DEF Agrees
    <3> QED BY <1>1, <1>8, <2>1, <3>1, <3>2, <3>3 DEF ExecutedRight
  <2> QED BY <1>7, <2>5, <2>6, <2>7
<1>16. CASE j > 3 * Parts + 4 /\ s.reg = <<"clk", 1>> /\ s.val[Digits] \in {0, 6}
  <2>1. machine'.executed = machine.executed /\ machine'.md = machine.md
    BY <1>12, <1>16
  <2>2. i > 3 * P + 4 /\ j > 3 * P + 4 /\ j >= 1
    BY <1>1, <1>i, <1>16
  <2>3. Writes => h > 2 * P + 1 /\ Agrees(machine.md, call.md)'
    BY <1>10, <2>1, <2>2
  <2>4. ReadRight(h, i)'
    BY <1>1, <1>8, <2>2, <2>3 DEF ReadRight
  <2>5. Verified(h, i)'
    BY <1>1, <1>8, <2>2, <2>3 DEF Verified
  <2>6. ExecutedRight(i)'
    <3>1. /\ Len(machine.executed) = 1
          /\ Agrees(machine.executed[1].ir, call.ir)
          /\ Writes => Agrees(machine.executed[1].md, call.md)
      BY <1>1, <1>5, <2>2 DEF ExecutedRight
    <3> QED BY <1>1, <1>8, <2>1, <2>2, <3>1 DEF ExecutedRight, Agrees
  <2> QED BY <1>7, <2>4, <2>5, <2>6
<1>17. \/ Writes /\ k \in 1 .. Parts /\ s.reg = <<"md", k>>
       \/ j \in 1 .. 2 * Parts /\ \E p \in 1 .. Parts : s.reg = <<"ir", p>>
       \/ j = 2 * Parts + 1 /\ s.reg = <<"clk", 1>> /\ s.val[Digits] = 14
       \/ j = 2 * Parts + 2 /\ s.reg = <<"clk", 1>> /\ s.val[Digits] = 0
       \/ j = 3 * Parts + 4 /\ s.reg = <<"clk", 1>> /\ s.val[Digits] \in {2, 10}
       \/ j > 3 * Parts + 4 /\ s.reg = <<"clk", 1>> /\ s.val[Digits] \in {0, 6}
  <2>1. PICK c : c = call
    OBVIOUS
  <2>2. /\ c \in Executing /\ o = Offset(c) /\ n = Length(c)
        /\ s = Script(c)[k] /\ s.op = "set"
    BY <1>2, <1>4, <2>1
  <2>3. SetKind(c, k, j, s)
    BY <1>3, <2>2, SetKinds
  <2> QED BY <2>1, <2>3, Zenon DEF Writes, SetKind
<1> QED BY <1>9, <1>11, <1>13, <1>14, <1>15, <1>16, <1>17, Zenon

\* The register reads and the comparisons among the steps of such a script.
GetKind(c, k, j, s) ==
  \/ c.proc = "write_a_mem" /\ k \in Parts + 1 .. 2 * Parts /\ s.reg = <<"md", k - Parts>>
  \/ c.proc = "write_a_mem" /\ k \in 2 * Parts + 2 .. 3 * Parts + 1
  \/ j \in 2 * Parts + 3 .. 3 * Parts + 2 /\ s.reg = <<"ir", j - (2 * Parts + 2)>>

CompareKind(c, k, j, s) ==
  \/ c.proc = "write_a_mem" /\ k = 2 * Parts + 1 /\ s = Verify(c.md, MdLoad(c.md))
  \/ c.proc = "write_a_mem" /\ k = 3 * Parts + 2 /\ s = Show
  \/ j = 3 * Parts + 3 /\ s = Verify(c.ir, Load(c.ir))

LEMMA OtherKinds ==
  ASSUME NEW c \in Executing, NEW o \in Nat, o = Offset(c), NEW n \in Nat, n = Length(c),
         NEW k \in 1 .. n, NEW j \in Int, j = k - o, NEW s, s = Script(c)[k]
  PROVE  /\ s.op = "get" => GetKind(c, k, j, s)
         /\ s.op \notin {"set", "get"} => CompareKind(c, k, j, s)
<1>1. \A r, v : CcSet(r, v).op = "set"
  BY DEF CcSet
<1>2. \A r : CcGet(r).op = "get" /\ CcGet(r).reg = r
  BY DEF CcGet
<1>3. \A w, a : Verify(w, a).op = "verify"
  BY DEF Verify
<1>4. Show.op = "show"
  BY DEF Show
<1>5. \A v : Clk(v).op = "set"
  BY <1>1 DEF Clk
<1>6. CASE (\E r, v : s = CcSet(r, v)) \/ (\E v : s = Clk(v))
  BY <1>1, <1>5, <1>6
<1>7. CASE /\ c.proc = "write_a_mem" /\ k \in Parts + 1 .. 2 * Parts
           /\ s = CcGet(<<"md", k - Parts>>)
  BY <1>2, <1>7 DEF GetKind
<1>8. CASE /\ c.proc = "write_a_mem" /\ k \in 2 * Parts + 2 .. 3 * Parts + 1
           /\ s = CcGet(<<"md", k - (2 * Parts + 1)>>)
  BY <1>2, <1>8 DEF GetKind
<1>9. CASE /\ j \in 2 * Parts + 3 .. 3 * Parts + 2
           /\ s = CcGet(<<"ir", j - (2 * Parts + 2)>>)
  BY <1>2, <1>9 DEF GetKind
<1>10. CASE c.proc = "write_a_mem" /\ k = 2 * Parts + 1 /\ s = Verify(c.md, MdLoad(c.md))
  BY <1>3, <1>10 DEF CompareKind
<1>11. CASE c.proc = "write_a_mem" /\ k = 3 * Parts + 2 /\ s = Show
  BY <1>4, <1>11 DEF CompareKind
<1>12. CASE j = 3 * Parts + 3 /\ s = Verify(c.ir, Load(c.ir))
  BY <1>3, <1>12 DEF CompareKind
<1>13. StepKind(c, k, j, s)
  BY Positions
<1> QED BY <1>6, <1>7, <1>8, <1>9, <1>10, <1>11, <1>12, <1>13, Zenon DEF StepKind

\* Repeating a load takes the script back to where the load begins.
LEMMA Reloads ==
  ASSUME NEW c \in Executing, NEW o \in Nat, o = Offset(c), NEW l \in Nat, l = 3 * Parts + 2
  PROVE  /\ c.proc = "write_a_mem" =>
              Join(MdLoad(c.md), Rest(Script(c), 2 * Parts + 1)) = Rest(Script(c), 1)
         /\ Join(Load(c.ir), Rest(Script(c), o + (l + 1))) = Rest(Script(c), o + 1)
<1>1. PICK P \in Nat \ {0} : P = Parts
  BY SizeAssumption
<1>2. PICK n \in Nat : n = Length(c)
  BY LengthIsNat
<1>3. PICK s : s = Script(c)
  OBVIOUS
<1>4. /\ s \in Seq(Steps) /\ n = Len(s)
      /\ c.proc = "write_a_mem" => \A i \in 1 .. o : s[i] = MdStep(c.md, i)
      /\ \A i \in 1 .. l : s[o + i] = LoadStep(c.ir, i)
  <2>1. c \in Executing /\ n = Length(c) /\ o = Offset(c)
    BY <1>2
  <2>2. ScriptHolds(c, Script(c), l, o, n)
    BY <2>1, ExecutingSteps
  <2>3. ScriptHolds(c, s, l, o, n)
    BY <1>3, <2>2
  <2> QED BY <2>3 DEF ScriptHolds
<1>5. n >= o + l + 3
  BY <1>1, <1>2, LengthIsNat
<1>6. ASSUME c.proc = "write_a_mem"
      PROVE  Join(MdLoad(c.md), Rest(s, 2 * Parts + 1)) = Rest(s, 1)
  <2>1. o = 3 * P + 2
    BY <1>1, <1>6, LengthIsNat
  <2>2. PICK a : a = MdLoad(c.md)
    OBVIOUS
  <2>3. /\ a \in Seq(Transfers) /\ Len(a) = P + P
        /\ \A k \in 1 .. P : a[k] = CcSet(<<"md", k>>, c.md[k])
        /\ \A k \in 1 .. P : a[P + k] = CcGet(<<"md", k>>)
    BY <1>1, <1>6, <2>2, ExecutingCalls, MdLoadSteps
  <2>4. ASSUME NEW i \in 1 .. P + P PROVE a[i] = s[i]
    <3>1. i \in 1 .. o
      BY <2>1
    <3>2. s[i] = MdStep(c.md, i)
      BY <1>4, <1>6, <3>1
    <3>3. CASE i <= P
      <4>1. a[i] = CcSet(<<"md", i>>, c.md[i])
        BY <2>3, <3>3
      <4> QED BY <1>1, <3>2, <3>3, <4>1 DEF MdStep
    <3>4. CASE i > P
      <4>1. PICK h \in 1 .. P : i = P + h
        BY <3>4
      <4>2. a[i] = CcGet(<<"md", h>>)
        BY <2>3, <4>1
      <4>3. ~(i <= P) /\ i <= 2 * P /\ i - P = h
        BY <4>1
      <4> QED BY <1>1, <3>2, <4>2, <4>3 DEF MdStep
    <3> QED BY <3>3, <3>4
  <2>5. PICK k \in Nat : k = 2 * P + 1
    OBVIOUS
  <2>6. /\ s \in Seq(Steps) /\ n = Len(s) /\ k \in 1 .. n + 1 /\ 1 \in 1 .. k
        /\ a \in Seq(Steps) /\ Len(a) = k - 1
    BY <1>4, <1>5, <2>1, <2>3, <2>5, TransfersAreSteps
  <2>7. PICK e \in Nat : e = k - 1
    BY <2>5
  <2>8. Stretch(Steps, a, s, 1, e)
    <3>1. e = P + P /\ \A i \in 1 .. e : 1 + i - 1 = i
      BY <2>5, <2>7
    <3>2. a \in Seq(Steps) /\ Len(a) = e
      BY <2>6, <2>7
    <3> QED BY <2>4, <3>1, <3>2 DEF Stretch
  <2>9. Join(a, Rest(s, k)) = Rest(s, 1)
    <3>1. s \in Seq(Steps) /\ n = Len(s) /\ k \in 1 .. n + 1 /\ 1 \in 1 .. k
      BY <2>6
    <3> QED BY <2>7, <2>8, <3>1, RestAgain
  <2>10. k = 2 * Parts + 1
    BY <1>1, <2>5
  <2> QED BY <2>2, <2>9, <2>10
<1>7. Join(Load(c.ir), Rest(s, o + (l + 1))) = Rest(s, o + 1)
  <2>1. PICK a : a = Load(c.ir)
    OBVIOUS
  <2>2. /\ a \in Seq(Transfers) /\ Len(a) = l
        /\ \A k \in 1 .. l : a[k] = LoadStep(c.ir, k)
    BY <2>1, ExecutingCalls, LoadSteps
  <2>3. PICK k \in Nat : k = o + (l + 1)
    OBVIOUS
  <2>4. PICK j \in Nat : j = o + 1
    OBVIOUS
  <2>5. /\ s \in Seq(Steps) /\ n = Len(s) /\ k \in 1 .. n + 1 /\ j \in 1 .. k
        /\ a \in Seq(Steps) /\ Len(a) = k - j
    <3>1. s \in Seq(Steps) /\ n = Len(s) /\ a \in Seq(Steps) /\ Len(a) = l
      BY <1>4, <2>2, TransfersAreSteps
    <3>2. k \in 1 .. n + 1 /\ j \in 1 .. k /\ l = k - j
      BY <1>5, <2>3, <2>4
    <3> QED BY <3>1, <3>2
  <2>6. ASSUME NEW i \in 1 .. k - j PROVE a[i] = s[j + i - 1]
    <3>1. i \in 1 .. l /\ j + i - 1 = o + i
      BY <2>3, <2>4
    <3> QED BY <1>4, <2>2, <3>1
  <2>7. PICK e \in Nat : e = k - j
    BY <2>5
  <2>8. Stretch(Steps, a, s, j, e)
    <3>1. a \in Seq(Steps) /\ Len(a) = e
      BY <2>5, <2>7
    <3> QED BY <2>6, <2>7, <3>1 DEF Stretch
  <2>9. Join(a, Rest(s, k)) = Rest(s, j)
    <3>1. s \in Seq(Steps) /\ n = Len(s) /\ k \in 1 .. n + 1 /\ j \in 1 .. k
      BY <2>5
    <3> QED BY <2>7, <2>8, <3>1, RestAgain
  <2> QED BY <2>1, <2>3, <2>4, <2>9
<1> QED BY <1>3, <1>6, <1>7

LEMMA ReadsOneMore ==
  ASSUME got \in Seq(Word), NEW i \in Nat, NEW is, Reads(i, is), seen \subseteq seen',
         NEW v, got' = Append(got, v), NEW q \in Nat, q = i + 1,
         v = is[q] \/ (v = Zero /\ "split" \in seen')
  PROVE  /\ Len(got') = q
         /\ \A p \in 1 .. q : got'[p] = is[p] \/ (got'[p] = Zero /\ "split" \in seen')
<1>1. Len(got) = i /\ \A p \in 1 .. i : got[p] = is[p] \/ (got[p] = Zero /\ "split" \in seen)
  BY DEF Reads
<1>2. Len(got') = q /\ got'[q] = v /\ \A p \in 1 .. i : got'[p] = got[p]
  BY <1>1
<1>3. ASSUME NEW p \in 1 .. q
      PROVE  got'[p] = is[p] \/ (got'[p] = Zero /\ "split" \in seen')
  <2>1. p \in 1 .. i \/ p = q
    OBVIOUS
  <2> QED BY <1>1, <1>2, <2>1
<1> QED BY <1>2, <1>3

LEMMA RightRead ==
  ASSUME Types, call \in Executing, NEW n \in Nat, n = Length(call), NEW k \in 1 .. n,
         NEW h \in Nat, h = k + 1, AtStep(k), Doing("get"),
         script' = Tail(script), call' = call, machine' = machine, seen \subseteq seen',
         NEW v, got' = Append(got, v), NEW s, s = Head(script), Returned(v, s.reg)
  PROVE  AtStep(h)'
<1>1. PICK P \in Nat \ {0} : P = Parts
  BY SizeAssumption
<1>2. PICK o \in Nat : o = Offset(call)
  BY LengthIsNat
<1>3. PICK j \in Int : j = k - o
  OBVIOUS
<1>i. PICK i \in Int : i = j + 1
  OBVIOUS
<1>4. /\ s = Script(call)[k] /\ Tail(script) = Rest(Script(call), h)
      /\ s.op = "get"
  BY NextStep DEF Doing
<1>5. ReadRight(k, j) /\ Verified(k, j) /\ ExecutedRight(j)
  BY <1>2, <1>3 DEF AtStep, RightAt
<1>6. Writes => o = 3 * P + 2
  BY <1>1, <1>2, LengthIsNat DEF Writes
<1>7. ASSUME ReadRight(h, i)', Verified(h, i)', ExecutedRight(i)'
      PROVE  AtStep(h)'
  <2>1. (h - Offset(call))' = i /\ (Script(call))' = Script(call)
    BY <1>2, <1>3, <1>i DEF Offset, Script
  <2> QED BY <1>4, <1>7, <2>1 DEF AtStep, RightAt, Rest
<1>8. Writes' <=> Writes
  BY DEF Writes
<1>g. got \in Seq(Word)
  BY DEF Types, HostTypes
<1>r. \A q : /\ ReadRegister(machine, <<"md", q>>) = machine.md[q]
             /\ ReadRegister(machine, <<"ir", q>>) = machine.ir[q]
  BY DEF ReadRegister
<1>9. CASE Writes /\ k \in Parts + 1 .. 2 * Parts /\ s.reg = <<"md", k - Parts>>
  <2>1. i <= 0 /\ j <= 0 /\ h <= 2 * P + 1 /\ h > P + 1
    BY <1>1, <1>3, <1>i, <1>6, <1>9
  <2>2. PICK e \in Nat : e = k - (P + 1)
    BY <1>1, <1>9
  <2>3. PICK q \in Nat : q = e + 1
    OBVIOUS
  <2>4. q = k - P /\ q = h - (P + 1)
    BY <2>2, <2>3
  <2>5. Reads(e, machine.md)
    BY <1>1, <1>5, <1>9, <2>2 DEF ReadRight
  <2>6. v = machine.md[q] \/ (v = Zero /\ "split" \in seen')
    BY <1>1, <1>9, <1>r, <2>4 DEF Returned
  <2>7. /\ Len(got') = q
        /\ \A p \in 1 .. q : got'[p] = machine.md[p] \/ (got'[p] = Zero /\ "split" \in seen')
    BY <1>g, <2>3, <2>5, <2>6, ReadsOneMore
  <2>8. Reads(h - (P + 1), machine.md)'
    BY <2>4, <2>7 DEF Reads
  <2>9. ReadRight(h, i)'
    BY <1>1, <2>1, <2>8 DEF ReadRight
  <2>10. Verified(h, i)'
    BY <1>1, <2>1 DEF Verified
  <2>11. ExecutedRight(i)'
    BY <1>1, <1>5, <2>1 DEF ExecutedRight
  <2> QED BY <1>7, <2>9, <2>10, <2>11
<1>10. CASE Writes /\ k \in 2 * Parts + 2 .. 3 * Parts + 1
  <2>1. i <= 0 /\ j <= 0 /\ h > 2 * P + 1 /\ k > 2 * P + 1
    BY <1>1, <1>3, <1>i, <1>6, <1>10
  <2>2. ReadRight(h, i)'
    BY <1>1, <2>1 DEF ReadRight
  <2>3. Verified(h, i)'
    BY <1>1, <1>5, <1>8, <2>1 DEF Verified, Agrees
  <2>4. ExecutedRight(i)'
    BY <1>1, <1>5, <2>1 DEF ExecutedRight
  <2> QED BY <1>7, <2>2, <2>3, <2>4
<1>11. CASE j \in 2 * Parts + 3 .. 3 * Parts + 2 /\ s.reg = <<"ir", j - (2 * Parts + 2)>>
  <2>1. /\ i >= 2 * P + 4 /\ i <= 3 * P + 3 /\ j >= 2 * P + 3 /\ j <= 3 * P + 2
        /\ Writes => h > 2 * P + 1 /\ k > 2 * P + 1
    BY <1>1, <1>3, <1>i, <1>6, <1>11
  <2>2. PICK e \in Nat : e = j - (2 * P + 3)
    BY <2>1
  <2>3. PICK q \in Nat : q = e + 1
    OBVIOUS
  <2>4. q = j - (2 * P + 2) /\ q = i - (2 * P + 3)
    BY <1>i, <2>2, <2>3
  <2>5. Reads(e, machine.ir)
    BY <1>1, <1>5, <2>1, <2>2 DEF ReadRight
  <2>6. v = machine.ir[q] \/ (v = Zero /\ "split" \in seen')
    BY <1>1, <1>11, <1>r, <2>4 DEF Returned
  <2>7. /\ Len(got') = q
        /\ \A p \in 1 .. q : got'[p] = machine.ir[p] \/ (got'[p] = Zero /\ "split" \in seen')
    BY <1>g, <2>3, <2>5, <2>6, ReadsOneMore
  <2>8. Reads(i - (2 * P + 3), machine.ir)'
    BY <2>4, <2>7 DEF Reads
  <2>9. ReadRight(h, i)'
    BY <1>1, <1>8, <2>1, <2>8 DEF ReadRight
  <2>10. Verified(h, i)'
    BY <1>1, <1>5, <1>8, <2>1 DEF Verified, Agrees
  <2>11. ExecutedRight(i)'
    BY <1>1, <1>5, <2>1 DEF ExecutedRight
  <2> QED BY <1>7, <2>9, <2>10, <2>11
<1>12. GetKind(call, k, j, s)
  <2>1. PICK c : c = call
    OBVIOUS
  <2>2. c \in Executing /\ o = Offset(c) /\ n = Length(c) /\ s = Script(c)[k] /\ s.op = "get"
    BY <1>2, <1>4, <2>1
  <2>3. GetKind(c, k, j, s)
    BY <1>3, <2>2, OtherKinds
  <2> QED BY <2>1, <2>3
<1> QED BY <1>9, <1>10, <1>11, <1>12, Zenon DEF GetKind, Writes

\* What was read is what was wanted.
LEMMA ComparedRight ==
  ASSUME NEW is, NEW want \in Wide, Reads(Parts, is), got = want, seen \subseteq seen'
  PROVE  \A p \in 1 .. Parts : is[p] = want[p] \/ (want[p] = Zero /\ "split" \in seen')
BY DEF Reads

LEMMA RightCompare ==
  ASSUME Types, call \in Executing, NEW n \in Nat, n = Length(call), NEW k \in 1 .. n,
         AtStep(k), Compare
  PROVE  \E h \in 1 .. n + 1 : AtStep(h)'
<1>1. PICK P \in Nat \ {0} : P = Parts
  BY SizeAssumption
<1>2. PICK o \in Nat : o = Offset(call)
  BY LengthIsNat
<1>3. PICK j \in Int : j = k - o
  OBVIOUS
<1>s. PICK s : s = Head(script)
  OBVIOUS
<1>c. PICK c : c = call
  OBVIOUS
<1>4. /\ s = Script(c)[k] /\ script = Rest(Script(c), k)
      /\ Tail(script) = Rest(Script(c), k + 1)
      /\ s.op \notin {"set", "get"}
  <2>1. s.op \notin {"set", "get"}
    BY <1>s DEF Compare, Doing
  <2> QED BY <1>s, <1>c, <2>1, NextStep DEF AtStep
<1>5. ReadRight(k, j) /\ Verified(k, j) /\ ExecutedRight(j)
  BY <1>2, <1>3 DEF AtStep, RightAt
<1>6. Writes => o = 3 * P + 2
  BY <1>1, <1>2, LengthIsNat DEF Writes
<1>u. call' = c /\ got' = <<>> /\ machine' = machine /\ seen' = seen
  BY <1>c DEF Compare
<1>7. ASSUME NEW h \in 1 .. n + 1, NEW i \in Int, i = h - o, script' = Rest(Script(c), h),
             ReadRight(h, i)', Verified(h, i)', ExecutedRight(i)'
      PROVE  \E x \in 1 .. n + 1 : AtStep(x)'
  <2>1. (h - Offset(call))' = i /\ (Script(call))' = Script(c)
    BY <1>2, <1>c, <1>u, <1>7 DEF Offset, Script
  <2>2. AtStep(h)'
    BY <1>7, <2>1 DEF AtStep, RightAt, Rest
  <2> QED BY <2>2
<1>8. Writes' <=> Writes
  BY <1>c, <1>u DEF Writes
<1>9. c \in Executing /\ c.ir \in Wide /\ (Writes => c.md \in Wide)
  BY <1>c, ExecutingCalls DEF Writes
<1>10. ASSUME NEW w, NEW a, s = Verify(w, a)
       PROVE  \/ got = w /\ script' = Rest(Script(c), k + 1)
              \/ script' = Join(a, Rest(Script(c), k))
  <2>1. s.op = "verify" /\ s.want = w /\ s.again = a
    BY <1>10 DEF Verify
  <2>2. \/ got = w /\ script' = Tail(script)
        \/ script' = Join(a, script)
    BY <1>s, <2>1 DEF Compare, Doing, Join
  <2> QED BY <1>4, <2>2
<1>k. k + 1 \in 1 .. n + 1 /\ k + 1 \in Int
  OBVIOUS
<1>e. n >= o + 3 * P + 5
  BY <1>1, <1>2, LengthIsNat
<1>zx. PICK x \in Int : x = k + 1
  OBVIOUS
<1>zy. PICK y \in Int : y = j + 1
  OBVIOUS
<1>z. x = k + 1 /\ y = j + 1
  BY <1>zx, <1>zy
\* MD is compared with what was to be written.
<1>11. CASE Writes /\ k = 2 * Parts + 1 /\ s = Verify(c.md, MdLoad(c.md))
  <2>1. j <= 0 /\ y <= 0 /\ x = 2 * P + 2 /\ k = 2 * P + 1
    BY <1>1, <1>3, <1>z, <1>6, <1>11
  <2>2. machine.executed = <<>>
    BY <1>1, <1>5, <2>1 DEF ExecutedRight
  <2>3. CASE got = c.md /\ script' = Rest(Script(c), k + 1)
    <3>1. Reads(Parts, machine.md)
      <4>1. Reads(k - (Parts + 1), machine.md)
        BY <1>1, <1>5, <1>11 DEF ReadRight
      <4>2. k - (Parts + 1) = Parts
        BY <1>1, <1>11
      <4> QED BY <4>1, <4>2
    <3>2. \A p \in 1 .. Parts : machine.md[p] = c.md[p] \/ (c.md[p] = Zero /\ "split" \in seen')
      BY <1>9, <1>11, <1>u, <2>3, <3>1, ComparedRight
    <3>3. Agrees(machine.md, call.md)'
      BY <1>u, <3>2 DEF Agrees
    <3>4. ReadRight(x, y)'
      BY <1>1, <2>1 DEF ReadRight
    <3>5. Verified(x, y)'
      BY <1>1, <2>1, <3>3 DEF Verified
    <3>6. ExecutedRight(y)'
      BY <1>1, <1>u, <2>1, <2>2 DEF ExecutedRight
    <3>7. x \in 1 .. n + 1 /\ y = x - o /\ script' = Rest(Script(c), x)
      BY <1>3, <1>k, <1>z, <2>3
    <3> QED BY <1>7, <3>4, <3>5, <3>6, <3>7
  <2>4. CASE script' = Join(MdLoad(c.md), Rest(Script(c), k))
    <3>1. PICK i \in Int : i = 1 - o
      OBVIOUS
    <3>2. PICK l \in Nat : l = 3 * Parts + 2
      BY <1>1
    <3>3. script' = Rest(Script(c), 1)
      <4>1. c.proc = "write_a_mem" /\ o = Offset(c)
        BY <1>2, <1>c, <1>11 DEF Writes
      <4>2. Join(MdLoad(c.md), Rest(Script(c), 2 * Parts + 1)) = Rest(Script(c), 1)
        BY <1>9, <3>2, <4>1, Reloads
      <4> QED BY <1>11, <2>4, <4>2
    <3>4. i <= 0
      BY <1>6, <1>11, <3>1
    <3>5. ReadRight(1, i)'
      <4>1. Reads(0, machine.md)'
        BY <1>u DEF Reads
      <4> QED BY <1>1, <3>4, <4>1 DEF ReadRight
    <3>6. Verified(1, i)'
      BY <1>1, <3>4 DEF Verified
    <3>7. ExecutedRight(i)'
      BY <1>1, <1>u, <2>2, <3>4 DEF ExecutedRight
    <3>8. 1 \in 1 .. n + 1
      OBVIOUS
    <3> QED BY <1>7, <3>1, <3>3, <3>5, <3>6, <3>7, <3>8
  <2> QED BY <1>10, <1>11, <2>3, <2>4
<1>12. CASE Writes /\ k = 3 * Parts + 2 /\ s = Show
  <2>1. j = 0 /\ y = 1 /\ x > 2 * P + 1 /\ k > 2 * P + 1
    BY <1>1, <1>3, <1>z, <1>6, <1>12
  <2>2. script' = Rest(Script(c), x)
    <3>1. s.op = "show"
      BY <1>12 DEF Show
    <3>2. script' = Tail(script)
      BY <1>s, <3>1 DEF Compare, Doing
    <3> QED BY <1>4, <1>z, <3>2
  <2>3. ReadRight(x, y)'
    <3>1. Reads(0, machine.ir)'
      BY <1>u DEF Reads
    <3> QED BY <1>1, <2>1, <3>1 DEF ReadRight
  <2>4. Verified(x, y)'
    BY <1>1, <1>5, <1>12, <1>c, <1>u, <2>1 DEF Verified, Agrees
  <2>5. ExecutedRight(y)'
    BY <1>1, <1>5, <1>u, <2>1 DEF ExecutedRight
  <2>6. x \in 1 .. n + 1 /\ y = x - o
    BY <1>3, <1>k, <1>z
  <2> QED BY <1>7, <2>2, <2>3, <2>4, <2>5, <2>6
\* The instruction register is compared with the instruction.
<1>13. CASE j = 3 * Parts + 3 /\ s = Verify(c.ir, Load(c.ir))
  <2>1. j = 3 * P + 3 /\ y = 3 * P + 4 /\ (Writes => k > 2 * P + 1 /\ x > 2 * P + 1)
    BY <1>1, <1>3, <1>z, <1>6, <1>13
  <2>2. machine.executed = <<>> /\ machine.clk = 0
    BY <1>1, <1>5, <2>1 DEF ExecutedRight, Verified
  <2>m. Writes => Agrees(machine.md, call.md)'
    BY <1>1, <1>5, <1>c, <1>u, <2>1 DEF Verified, Agrees
  <2>3. CASE got = c.ir /\ script' = Rest(Script(c), k + 1)
    <3>1. Reads(Parts, machine.ir)
      <4>1. Reads(j - (2 * Parts + 3), machine.ir)
        BY <1>1, <1>5, <2>1 DEF ReadRight
      <4>2. j - (2 * Parts + 3) = Parts
        BY <1>1, <2>1
      <4> QED BY <4>1, <4>2
    <3>2. \A p \in 1 .. Parts : machine.ir[p] = c.ir[p] \/ (c.ir[p] = Zero /\ "split" \in seen')
      BY <1>9, <1>u, <2>3, <3>1, ComparedRight
    <3>3. Agrees(machine.ir, call.ir)'
      BY <1>u, <3>2 DEF Agrees
    <3>4. ReadRight(x, y)'
      BY <1>1, <1>8, <2>1 DEF ReadRight
    <3>5. Verified(x, y)'
      BY <1>1, <1>8, <1>u, <2>1, <2>2, <2>m, <3>3 DEF Verified
    <3>6. ExecutedRight(y)'
      BY <1>1, <1>u, <2>1, <2>2 DEF ExecutedRight
    <3>7. x \in 1 .. n + 1 /\ y = x - o /\ script' = Rest(Script(c), x)
      BY <1>3, <1>k, <1>z, <2>3
    <3> QED BY <1>7, <3>4, <3>5, <3>6, <3>7
  <2>4. CASE script' = Join(Load(c.ir), Rest(Script(c), k))
    <3>1. PICK h \in Int : h = o + 1
      OBVIOUS
    <3>2. PICK l \in Nat : l = 3 * Parts + 2
      BY <1>1
    <3>3. script' = Rest(Script(c), h)
      <4>1. c \in Executing /\ o = Offset(c)
        BY <1>2, <1>9, <1>c
      <4>2. Join(Load(c.ir), Rest(Script(c), o + (l + 1))) = Rest(Script(c), o + 1)
        BY <3>2, <4>1, Reloads
      <4>3. k = o + (l + 1)
        BY <1>1, <1>3, <2>1, <3>2
      <4> QED BY <2>4, <3>1, <4>2, <4>3
    <3>4. Writes => h > 2 * P + 1
      BY <1>6, <3>1
    <3>5. ReadRight(h, 1)'
      <4>1. Reads(0, machine.ir)'
        BY <1>u DEF Reads
      <4> QED BY <1>1, <1>8, <3>4, <4>1 DEF ReadRight
    <3>6. Verified(h, 1)'
      BY <1>1, <1>8, <2>m, <3>4 DEF Verified
    <3>7. ExecutedRight(1)'
      BY <1>1, <1>u, <2>2 DEF ExecutedRight
    <3>8. h \in 1 .. n + 1 /\ 1 = h - o /\ 1 \in Int
      BY <1>e, <3>1
    <3> QED BY <1>7, <3>3, <3>5, <3>6, <3>7, <3>8
  <2> QED BY <1>10, <1>13, <2>3, <2>4
<1>14. CompareKind(c, k, j, s)
  <2>1. c \in Executing /\ o = Offset(c) /\ n = Length(c) /\ s = Script(c)[k]
        /\ s.op \notin {"set", "get"}
    BY <1>2, <1>4, <1>9, <1>c
  <2> QED BY <1>3, <2>1, OtherKinds
<1>15. Writes <=> c.proc = "write_a_mem"
  BY <1>c DEF Writes
<1> QED BY <1>11, <1>12, <1>13, <1>14, <1>15, Zenon DEF CompareKind

-----------------------------------------------------------------------------
(***************************************************************************)
(* The steps keep it.                                                      *)
(***************************************************************************)
LEMMA SentKept == Types /\ SentRight /\ [Next]_vars => SentRight'
<1> SUFFICES ASSUME Types, SentRight, [Next]_vars, sent' # 0
             PROVE  (Doing("set") \/ Doing("get"))'
  BY DEF SentRight
<1>1. CASE UNCHANGED vars
  BY <1>1 DEF vars, host, io, SentRight, Doing
<1>2. CASE StartCall
  BY <1>2 DEF StartCall, io, SentRight, Doing
<1>3. CASE SendSet
  BY <1>3 DEF SendSet, Doing
<1>4. CASE SendGet
  BY <1>4 DEF SendGet, host, Doing
<1>5. ASSUME NEW k, ReadChars(k) PROVE script' = script /\ Doing("get")
  BY <1>5 DEF ReadChars, Awaiting
<1>6. CASE ReadAnswer
  <2>1. \E k : ReadChars(k)
    BY <1>6 DEF ReadAnswer
  <2> QED BY <1>5, <2>1 DEF Doing
<1>7. CASE ReadNothing
  BY <1>7 DEF ReadNothing, Awaiting, host, Doing
<1>8. CASE Compare
  BY <1>8 DEF Compare, io, SentRight, Doing
<1> QED BY <1>1, <1>2, <1>3, <1>4, <1>6, <1>7, <1>8 DEF Next, Proceed

LEMMA ClockKept == Types /\ SentRight /\ ClockRight /\ [Next]_vars => ClockRight'
<1> SUFFICES ASSUME Types, SentRight, ClockRight, [Next]_vars, Doing("set")',
                    (Head(script).reg)' = <<"clk", 1>>, sent' = Digits, "clock" \notin seen'
             PROVE  nibs'[Digits] = (Head(script).val[Digits])'
  BY DEF ClockRight
<1>0. Digits # 0 /\ "clock" \notin seen
  BY SeenGrows, SizeAssumption
<1>1. ASSUME script' = script, sent' = sent, nibs' = nibs
      PROVE  nibs'[Digits] = (Head(script).val[Digits])'
  BY <1>0, <1>1 DEF ClockRight, Doing
<1>2. CASE UNCHANGED vars
  BY <1>1, <1>2 DEF vars, host, io
<1>3. CASE StartCall \/ Compare
  <2>1. sent = 0
    BY <1>3 DEF StartCall, Compare, SentRight, Doing
  <2> QED BY <1>0, <1>3, <2>1 DEF StartCall, Compare, io
<1>4. CASE SendSet
  <2>1. PICK s : s = Head(script)
    OBVIOUS
  <2>2. sent # Digits /\ sent' = sent + 1 /\ script' = script /\ s.reg = <<"clk", 1>>
    BY <1>0, <1>4, <2>1 DEF SendSet
  <2>3. sent + 1 = Digits
    BY <2>2
  <2>4. CASE nibs' = [nibs EXCEPT ![sent + 1] = s.val[sent + 1]]
    <3>1. nibs' = [nibs EXCEPT ![Digits] = s.val[Digits]]
      BY <2>3, <2>4
    <3>2. nibs'[Digits] = s.val[Digits]
      BY <3>1, ZeroIsWord DEF Types, MachineTypes, Word
    <3> QED BY <2>1, <2>2, <3>2
  <2>5. CASE Fault({"lost"} \cup (IF s.reg[1] = "clk" THEN {"clock"} ELSE {}))
    BY <1>0, <2>2, <2>5 DEF Fault
  <2> QED BY <1>4, <2>1, <2>2, <2>4, <2>5 DEF SendSet
<1>5. ASSUME Doing("get"), script' = script \/ sent' = 0 PROVE FALSE
  BY <1>0, <1>5 DEF Doing
<1>6. CASE SendGet
  BY <1>5, <1>6 DEF SendGet, host
<1>7. CASE ReadAnswer
  <2>1. PICK k : ReadChars(k)
    BY <1>7 DEF ReadAnswer
  <2> QED BY <1>5, <2>1 DEF ReadChars, Awaiting
<1>8. CASE ReadNothing
  BY <1>5, <1>8 DEF ReadNothing, Awaiting, host
<1> QED BY <1>2, <1>3, <1>4, <1>6, <1>7, <1>8 DEF Next, Proceed

\* A call begins at the first step of its script.
LEMMA StartRight ==
  ASSUME Types, StartCall, Executes'
  PROVE  (\E k \in 1 .. Length(call) + 1 : AtStep(k))'
<1>1. PICK c \in Calls : call' = c /\ script' = Script(c)
  BY DEF StartCall
<1>2. c \in Executing
  BY <1>1 DEF Executes, Executing
<1>3. PICK P \in Nat \ {0} : P = Parts
  BY SizeAssumption
<1>4. PICK o \in Nat : o = Offset(c)
  BY LengthIsNat
<1>5. PICK n \in Nat : n = Length(c)
  BY LengthIsNat
<1>6. PICK j \in Int : j = 1 - o
  OBVIOUS
<1>7. script' = Rest(Script(c), 1)
  <2>1. PICK l \in Nat : l = 3 * Parts + 2
    BY <1>3
  <2>2. Script(c) \in Seq(Steps) /\ n = Len(Script(c))
    <3>1. ScriptHolds(c, Script(c), l, o, n)
      BY <1>2, <1>4, <1>5, <2>1, ExecutingSteps
    <3> QED BY <3>1 DEF ScriptHolds
  <2> QED BY <1>1, <2>2, RestEnds
<1>8. got' = <<>> /\ machine'.executed = <<>>
  BY DEF StartCall, Types, MachineTypes, Machines
<1>9. j <= 1
  BY <1>4, <1>6
<1>10. Reads(0, machine.ir)' /\ Reads(0, machine.md)'
  BY <1>8 DEF Reads
<1>11. ReadRight(1, j)'
  BY <1>3, <1>9, <1>10 DEF ReadRight
<1>12. Verified(1, j)'
  BY <1>3, <1>9 DEF Verified
<1>13. ExecutedRight(j)'
  BY <1>3, <1>8, <1>9 DEF ExecutedRight
<1>14. (1 - Offset(call))' = j /\ (Script(call))' = Script(c) /\ (Length(call))' = n
  BY <1>1, <1>4, <1>5, <1>6 DEF Offset, Script, Length
<1>15. AtStep(1)'
  BY <1>7, <1>11, <1>12, <1>13, <1>14 DEF AtStep, RightAt, Rest
<1>16. 1 \in 1 .. n + 1
  OBVIOUS
<1> QED BY <1>14, <1>15, <1>16

\* What ReadAnswer does to the script.
LEMMA ReadOn ==
  ASSUME Types, ReadAnswer
  PROVE  /\ call' = call /\ machine' = machine /\ Doing("get")
         /\ \/ script' = script /\ got' = got
            \/ script' = Tail(script) /\ got' # got
<1>1. PICK k : ReadChars(k)
  BY DEF ReadAnswer
<1>2. call' = call /\ machine' = machine /\ Doing("get")
  BY <1>1 DEF ReadChars, Awaiting
<1>3. \/ script' = script /\ got' = got
      \/ script' = Tail(script) /\ \E v : got' = Append(got, v)
  BY <1>1 DEF ReadChars
<1>4. got \in Seq(Word)
  BY DEF Types, HostTypes
<1>5. ASSUME NEW v PROVE Append(got, v) # got
  <2>1. Len(Append(got, v)) = Len(got) + 1 /\ Len(got) \in Nat
    BY <1>4
  <2> QED BY <2>1
<1> QED BY <1>2, <1>3, <1>5

\* A step of a call leads to the same step of its script, to the one after it,
\* or, when a comparison fails, back to the beginning of a load.
LEMMA CallRight ==
  ASSUME Types, LineRight, ClockRight, Proceed \/ UNCHANGED vars, InStep', "clock" \notin seen',
         seen \subseteq seen', call \in Executing, NEW n \in Nat, n = Length(call),
         NEW k \in 1 .. n + 1, AtStep(k)
  PROVE  \E h \in 1 .. n + 1 : AtStep(h)'
<1>1. PICK s : s = Head(script)
  OBVIOUS
<1>2. PICK h \in Nat : h = k + 1
  OBVIOUS
<1>3. ASSUME script # <<>> PROVE k \in 1 .. n /\ h \in 1 .. n + 1
  <2>1. k # n + 1
    BY <1>3, NextStep
  <2> QED BY <1>2, <2>1
<1>4. ASSUME script' = script, call' = call, got' = got, machine' = machine
      PROVE  AtStep(k)'
  BY <1>4, StillAtStep
<1>5. CASE UNCHANGED vars
  BY <1>4, <1>5 DEF vars, host
<1>6. CASE SendSet
  <2>1. Doing("set") /\ k \in 1 .. n /\ h \in 1 .. n + 1
    BY <1>3, <1>6 DEF SendSet, Doing
  <2>2. call' = call /\ got' = got
    BY <1>6 DEF SendSet
  <2>3. CASE sent # Digits
    <3>1. script' = script /\ machine' = machine
      BY <1>6, <2>3 DEF SendSet
    <3> QED BY <1>4, <2>2, <3>1
  <2>4. CASE sent = Digits
    <3>1. script' = Tail(script)
      BY <1>6, <2>4 DEF SendSet
    <3>2. \/ machine' = WriteRegister(machine, s.reg, nibs)
          \/ machine' = machine /\ s.reg # <<"clk", 1>>
      <4>1. \/ machine' = WriteRegister(machine, s.reg, nibs)
            \/ /\ machine' = machine
               /\ Fault({"lost"} \cup (IF s.reg[1] = "clk" THEN {"clock"} ELSE {}))
        BY <1>1, <1>6, <2>4 DEF SendSet
      <4>2. ASSUME s.reg = <<"clk", 1>>,
                   Fault({"lost"} \cup (IF s.reg[1] = "clk" THEN {"clock"} ELSE {}))
            PROVE  FALSE
        BY <4>2 DEF Fault
      <4> QED BY <4>1, <4>2
    <3>3. s.reg = <<"clk", 1>> => nibs[Digits] = s.val[Digits]
      BY <1>1, <2>1, <2>4 DEF ClockRight
    <3>4. AtStep(h)'
      BY <1>1, <1>2, <2>1, <2>2, <3>1, <3>2, <3>3, RightSet
    <3> QED BY <2>1, <3>4
  <2> QED BY <2>3, <2>4
<1>7. CASE SendGet \/ ReadNothing
  BY <1>4, <1>7 DEF SendGet, ReadNothing, host
<1>8. CASE ReadAnswer
  <2>1. /\ call' = call /\ machine' = machine /\ Doing("get")
        /\ \/ script' = script /\ got' = got
           \/ script' = Tail(script) /\ got' # got
    BY <1>8, ReadOn
  <2>2. CASE script' = script /\ got' = got
    BY <1>4, <2>1, <2>2
  <2>3. CASE script' = Tail(script) /\ got' # got
    <3>1. PICK v : got' = Append(got, v) /\ Returned(v, s.reg)
      BY <1>1, <1>8, <2>3, LineReadAnswer
    <3>2. k \in 1 .. n /\ h \in 1 .. n + 1
      BY <1>3, <2>1 DEF Doing
    <3>3. AtStep(h)'
      BY <1>1, <1>2, <2>1, <2>3, <3>1, <3>2, RightRead
    <3> QED BY <3>2, <3>3
  <2> QED BY <2>1, <2>2, <2>3
<1>9. CASE Compare
  <2>1. k \in 1 .. n
    BY <1>3, <1>9 DEF Compare, Doing
  <2> QED BY <1>9, <2>1, RightCompare
<1> QED BY <1>5, <1>6, <1>7, <1>8, <1>9 DEF Proceed

LEMMA StepsKept ==
  Types /\ LineRight /\ ClockRight /\ StepsRight /\ [Next]_vars => StepsRight'
<1> SUFFICES ASSUME Types, LineRight, ClockRight, StepsRight, [Next]_vars,
                    Executes', InStep', "clock" \notin seen'
             PROVE  (\E k \in 1 .. Length(call) + 1 : AtStep(k))'
  BY DEF StepsRight
<1>1. seen \subseteq seen' /\ InStep /\ "clock" \notin seen
  BY SeenGrows, InStepBefore
<1>2. CASE StartCall
  BY <1>2, StartRight
<1>3. CASE Proceed \/ UNCHANGED vars
  <2>1. call' = call
    <3>1. ASSUME NEW k, ReadChars(k) PROVE call' = call
      BY <3>1 DEF ReadChars
    <3> QED BY <1>3, <3>1 DEF Proceed, SendSet, SendGet, ReadAnswer, ReadNothing, Compare,
                              vars, host
  <2>2. Executes /\ call \in Executing
    BY <2>1 DEF Executes, Executing, Types, HostTypes
  <2>3. PICK n \in Nat : n = Length(call)
    BY LengthIsNat
  <2>4. PICK k \in 1 .. n + 1 : AtStep(k)
    BY <1>1, <2>2, <2>3 DEF StepsRight
  <2>5. \E h \in 1 .. n + 1 : AtStep(h)'
    BY <1>1, <1>3, <2>2, <2>3, <2>4, CallRight
  <2>6. (Length(call))' = n
    BY <2>1, <2>3 DEF Length, Offset
  <2> QED BY <2>5, <2>6
<1> QED BY <1>2, <1>3 DEF Next

\* Instructions were executed as they were asked for so far.
ExecutionInv == AnswersInv /\ SentRight /\ ClockRight /\ StepsRight

LEMMA ExecutedAsAskedHolds == ExecutionInv => ExecutedAsAsked
<1> SUFFICES ASSUME ExecutionInv, Executes, InStep, "clock" \notin seen
             PROVE  /\ Len(machine.executed) <= 1
                    /\ script = <<>> => Len(machine.executed) = 1
                    /\ \A i \in DOMAIN machine.executed :
                         /\ Agrees(machine.executed[i].ir, call.ir)
                         /\ Writes => Agrees(machine.executed[i].md, call.md)
  BY DEF ExecutedAsAsked, Writes
<1>1. PICK e : e = machine.executed
  OBVIOUS
<1>2. e \in Seq(Executions)
  BY <1>1 DEF ExecutionInv, AnswersInv, Types, MachineTypes, Machines
<1>3. call \in Executing
  BY DEF ExecutionInv, AnswersInv, Types, HostTypes, Executes, Executing
<1>4. PICK n \in Nat : n = Length(call)
  BY LengthIsNat
<1>5. PICK k \in 1 .. n + 1 : AtStep(k)
  BY <1>4 DEF ExecutionInv, StepsRight
<1>6. PICK o \in Nat : o = Offset(call)
  BY LengthIsNat
<1>7. PICK j \in Int : j = k - o
  OBVIOUS
<1>8. ExecutedRight(j)
  BY <1>5, <1>6, <1>7 DEF AtStep, RightAt
<1>9. Len(e) <= 1
  <2>1. e = <<>> \/ Len(e) = 1
    BY <1>1, <1>8 DEF ExecutedRight
  <2>2. PICK l \in Nat : l = Len(e)
    BY <1>2
  <2>3. l = 0 \/ l = 1
    BY <2>1, <2>2
  <2> QED BY <2>2, <2>3
<1>10. ASSUME script = <<>> PROVE Len(e) = 1
  <2>1. k = n + 1
    BY <1>3, <1>4, <1>5, <1>10, NextStep
  <2>2. PICK P \in Nat : P = Parts
    BY SizeAssumption
  <2>3. n >= o + 3 * P + 5
    BY <1>4, <1>6, <2>2, LengthIsNat
  <2>4. ~(j <= 3 * P + 4)
    BY <1>7, <2>1, <2>3
  <2> QED BY <1>1, <1>8, <2>2, <2>4 DEF ExecutedRight
<1>11. ASSUME NEW i \in DOMAIN e
       PROVE  Agrees(e[i].ir, call.ir) /\ (Writes => Agrees(e[i].md, call.md))
  <2>1. e # <<>> /\ i = 1
    BY <1>2, <1>9, <1>11
  <2> QED BY <1>1, <1>8, <2>1 DEF ExecutedRight
<1> QED BY <1>1, <1>9, <1>10, <1>11

LEMMA ExecutionAtStart == Init => ExecutionInv
<1> SUFFICES ASSUME Init PROVE ExecutionInv
  OBVIOUS
<1>1. AnswersInv
  <2>1. LineRight
    BY DEF Init, LineRight, Awaiting, Doing
  <2> QED BY <2>1, TypesAtStart DEF AnswersInv
<1>2. SentRight /\ ClockRight
  BY DEF Init, SentRight, ClockRight, Doing
<1>3. StepsRight
  BY DEF Init, StepsRight, Executes
<1> QED BY <1>1, <1>2, <1>3 DEF ExecutionInv

LEMMA ExecutionKept == ExecutionInv /\ [Next]_vars => ExecutionInv'
BY TypesKept, LineKept, SentKept, ClockKept, StepsKept DEF ExecutionInv, AnswersInv

\* An instruction given to cc_execute is executed exactly once and nothing else
\* is, and with the word in MD that cc_write_a_mem was given, whatever
\* characters the line loses and however often the loads are repeated
\* (cc_execute_r, cc_execute_w and cc_write_md, cc.c).
THEOREM InstructionExecutedOnce == Spec => []ExecutedAsAsked
BY ExecutionAtStart, ExecutionKept, ExecutedAsAskedHolds, PTL DEF Spec

-----------------------------------------------------------------------------
(***************************************************************************)
(* The scripts that test a register.                                       *)
(***************************************************************************)
\* y is three attempts: a block of m steps and a comparison with t, of which the
\* second attempt leaves out the first w.
ThreeAttempts(y, b, w, r, m, t) ==
  /\ y \in Seq(Steps) /\ Len(y) = 2 * m + r + 4
  /\ \A i \in 1 .. m : y[i] = b[i] /\ y[m + r + 2 + i] = b[i]
  /\ \A i \in w + 1 .. m : y[r + 1 + i] = b[i]
  /\ y[m + 1] = Try(t) /\ y[m + r + 2] = Try(t)
  /\ y[2 * m + r + 3] = Try(t) /\ y[2 * m + r + 4] = Fail

LEMMA AttemptItems ==
  ASSUME NEW W \in Seq(Steps), NEW R \in Seq(Steps), NEW w \in Nat, NEW r \in Nat,
         Len(W) = w, Len(R) = r, NEW m \in Nat, m = w + r, NEW want \in Seq(Word),
         NEW y, y = Attempts(W, R, want)
  PROVE  ThreeAttempts(y, Join(W, R), w, r, m, want)
<1>1. PICK t : t = Try(want)
  OBVIOUS
<1>2. t \in Steps /\ Fail \in Steps
  BY <1>1 DEF Try, Tries, Steps
<1>3. PICK b : b = Join(W, R)
  OBVIOUS
<1>4. /\ b \in Seq(Steps) /\ Len(b) = m
      /\ \A i \in 1 .. w : b[i] = W[i]
      /\ \A i \in 1 .. r : b[w + i] = R[i]
  <2>1. Consists(Steps, b, W, R, w, r)
    BY <1>3, Joined
  <2> QED BY <2>1 DEF Consists
<1>t. <<t>> \in Seq(Steps) /\ Len(<<t>>) = 1 /\ <<t>>[1] = t
  BY <1>2
<1>f. <<t, Fail>> \in Seq(Steps) /\ Len(<<t, Fail>>) = 2 /\ <<t, Fail>>[1] = t
      /\ <<t, Fail>>[2] = Fail
  BY <1>2
<1>u. PICK u, e : u = <<t>> /\ e = <<t, Fail>>
  OBVIOUS
<1>vn1. PICK n1 \in Nat : n1 = 1
  OBVIOUS
<1>vn2. PICK n2 \in Nat : n2 = 2
  OBVIOUS
<1>v. n1 = 1 /\ n2 = 2
  BY <1>vn1, <1>vn2
<1>w. /\ u \in Seq(Steps) /\ Len(u) = n1 /\ u[1] = t
      /\ e \in Seq(Steps) /\ Len(e) = n2 /\ e[1] = t /\ e[2] = Fail
  BY <1>t, <1>f, <1>u, <1>v
<1>5. PICK x : x = Join(b, u)
  OBVIOUS
<1>6m1. PICK m1 \in Nat : m1 = m + 1
  OBVIOUS
<1>6m2. PICK m2 \in Nat : m2 = m1 + r
  OBVIOUS
<1>6m3. PICK m3 \in Nat : m3 = m2 + 1
  OBVIOUS
<1>6m4. PICK m4 \in Nat : m4 = m3 + w
  OBVIOUS
<1>6m5. PICK m5 \in Nat : m5 = m4 + r
  OBVIOUS
<1>6. m1 = m + 1 /\ m2 = m1 + r /\ m3 = m2 + 1 /\ m4 = m3 + w /\ m5 = m4 + r
  BY <1>6m1, <1>6m2, <1>6m3, <1>6m4, <1>6m5
<1>7. /\ x \in Seq(Steps) /\ Len(x) = m1
      /\ \A i \in 1 .. m : x[i] = b[i]
      /\ x[m1] = t
  <2>1. b \in Seq(Steps) /\ Len(b) = m
    BY <1>4
  <2>2. Consists(Steps, x, b, u, m, n1)
    BY <1>5, <1>w, <2>1, Joined
  <2> QED BY <1>6, <1>v, <1>w, <2>2 DEF Consists
<1>8. PICK x2 : x2 = Join(x, R)
  OBVIOUS
<1>9. /\ x2 \in Seq(Steps) /\ Len(x2) = m2
      /\ \A i \in 1 .. m1 : x2[i] = x[i]
      /\ \A i \in 1 .. r : x2[m1 + i] = R[i]
  <2>1. x \in Seq(Steps) /\ Len(x) = m1
    BY <1>7
  <2>2. Consists(Steps, x2, x, R, m1, r)
    BY <1>8, <2>1, Joined
  <2> QED BY <1>6, <2>2 DEF Consists
<1>10. PICK x3 : x3 = Join(x2, u)
  OBVIOUS
<1>11. /\ x3 \in Seq(Steps) /\ Len(x3) = m3
       /\ \A i \in 1 .. m2 : x3[i] = x2[i]
       /\ x3[m3] = t
  <2>1. x2 \in Seq(Steps) /\ Len(x2) = m2
    BY <1>9
  <2>2. Consists(Steps, x3, x2, u, m2, n1)
    BY <1>10, <1>w, <2>1, Joined
  <2> QED BY <1>6, <1>v, <1>w, <2>2 DEF Consists
<1>12. PICK x4 : x4 = Join(x3, W)
  OBVIOUS
<1>13. /\ x4 \in Seq(Steps) /\ Len(x4) = m4
       /\ \A i \in 1 .. m3 : x4[i] = x3[i]
       /\ \A i \in 1 .. w : x4[m3 + i] = W[i]
  <2>1. x3 \in Seq(Steps) /\ Len(x3) = m3
    BY <1>11
  <2>2. Consists(Steps, x4, x3, W, m3, w)
    BY <1>12, <2>1, Joined
  <2> QED BY <1>6, <2>2 DEF Consists
<1>14. PICK x5 : x5 = Join(x4, R)
  OBVIOUS
<1>15. /\ x5 \in Seq(Steps) /\ Len(x5) = m5
       /\ \A i \in 1 .. m4 : x5[i] = x4[i]
       /\ \A i \in 1 .. r : x5[m4 + i] = R[i]
  <2>1. x4 \in Seq(Steps) /\ Len(x4) = m4
    BY <1>13
  <2>2. Consists(Steps, x5, x4, R, m4, r)
    BY <1>14, <2>1, Joined
  <2> QED BY <1>6, <2>2 DEF Consists
<1>16. y = Join(x5, e)
  BY <1>1, <1>3, <1>5, <1>8, <1>10, <1>12, <1>14, <1>u DEF Attempts, Join
<1>17. /\ y \in Seq(Steps) /\ Len(y) = m5 + 2
       /\ \A i \in 1 .. m5 : y[i] = x5[i]
       /\ y[m5 + 1] = t /\ y[m5 + 2] = Fail
  <2>1. x5 \in Seq(Steps) /\ Len(x5) = m5
    BY <1>15
  <2>2. Consists(Steps, y, x5, e, m5, n2)
    BY <1>16, <1>w, <2>1, Joined
  <2>3. 1 \in 1 .. n2 /\ 2 \in 1 .. n2
    BY <1>v
  <2> QED BY <1>v, <1>w, <2>2, <2>3 DEF Consists
<1>18. ASSUME NEW i \in 1 .. m1 PROVE y[i] = x[i]
  <2>1. i \in 1 .. m2 /\ i \in 1 .. m3 /\ i \in 1 .. m4 /\ i \in 1 .. m5
    BY <1>6
  <2> QED BY <1>9, <1>11, <1>13, <1>15, <1>17, <2>1
<1>19. ASSUME NEW i \in 1 .. m PROVE y[i] = b[i] /\ y[m3 + i] = b[i]
  <2>1. y[i] = b[i]
    BY <1>6, <1>7, <1>18
  <2>2. CASE i \in 1 .. w
    <3>1. m3 + i \in 1 .. m4 /\ m3 + i \in 1 .. m5
      BY <1>6, <2>2
    <3> QED BY <1>4, <1>13, <1>15, <1>17, <2>1, <2>2, <3>1
  <2>3. CASE ~(i \in 1 .. w)
    <3>1. PICK q \in 1 .. r : i = w + q
      <4>1. i - w \in 1 .. r /\ i = w + (i - w)
        BY <2>3
      <4> QED BY <4>1
    <3>2. m3 + i = m4 + q /\ m4 + q \in 1 .. m5
      BY <1>6, <3>1
    <3> QED BY <1>4, <1>15, <1>17, <2>1, <3>1, <3>2
  <2> QED BY <2>2, <2>3
<1>20. ASSUME NEW i \in w + 1 .. m PROVE y[r + 1 + i] = b[i]
  <2>1. PICK q \in 1 .. r : i = w + q
    <3>1. i - w \in 1 .. r /\ i = w + (i - w)
      OBVIOUS
    <3> QED BY <3>1
  <2>2. r + 1 + i = m1 + q
    BY <1>6, <2>1
  <2>3. m1 + q \in 1 .. m2 /\ m1 + q \in 1 .. m3 /\ m1 + q \in 1 .. m4 /\ m1 + q \in 1 .. m5
    BY <1>6
  <2>4. /\ y[m1 + q] = x5[m1 + q] /\ x5[m1 + q] = x4[m1 + q]
        /\ x4[m1 + q] = x3[m1 + q] /\ x3[m1 + q] = x2[m1 + q]
    BY <1>11, <1>13, <1>15, <1>17, <2>3
  <2>5. x2[m1 + q] = R[q] /\ b[i] = R[q]
    BY <1>4, <1>9, <2>1
  <2> QED BY <2>2, <2>4, <2>5
<1>21. y[m1] = t /\ y[m3] = t
  <2>1. m1 \in 1 .. m1 /\ m3 \in 1 .. m3 /\ m3 \in 1 .. m4 /\ m3 \in 1 .. m5
    BY <1>6
  <2> QED BY <1>7, <1>11, <1>13, <1>15, <1>17, <1>18, <2>1
<1>22. /\ m1 = m + 1 /\ m3 = m + r + 2 /\ m5 + 1 = 2 * m + r + 3 /\ m5 + 2 = 2 * m + r + 4
  BY <1>6
<1> QED BY <1>1, <1>3, <1>17, <1>19, <1>20, <1>21, <1>22 DEF ThreeAttempts

Tests == {c \in Calls : c.proc \in {"test_ir", "test_scratch"}}

\* How many steps write the register, and how many read it back.
WriteLen(c) == IF c.proc = "test_ir" THEN 2 * Parts + 2 ELSE 3
ReadLen(c) == IF c.proc = "test_ir" THEN Parts ELSE 1
Sought(c) == IF c.proc = "test_ir" THEN c.ir ELSE <<c.md[1]>>

\* The i-th step of an attempt.
SetIr(c, i, s) ==
  /\ c.proc = "test_ir" /\ i <= 2 * Parts
  /\ \E p \in 1 .. Parts : (i = p \/ i = Parts + p) /\ s = CcSet(<<"ir", p>>, c.ir[p])
PulseUp(c, i, s) == c.proc = "test_ir" /\ i = 2 * Parts + 1 /\ s = Clk(14)
PulseDown(c, i, s) == c.proc = "test_ir" /\ i = 2 * Parts + 2 /\ s = Clk(0)
GetIr(c, i, s) ==
  c.proc = "test_ir" /\ \E p \in 1 .. Parts : i = 2 * Parts + 2 + p /\ s = CcGet(<<"ir", p>>)
GetScratch(c, i, s) ==
  c.proc = "test_scratch" /\ (i = 1 \/ i = 4) /\ s = CcGet(<<"scratch", 1>>)
ShowScratch(c, i, s) == c.proc = "test_scratch" /\ i = 2 /\ s = Show
SetScratch(c, i, s) ==
  c.proc = "test_scratch" /\ i = 3 /\ s = CcSet(<<"scratch", 1>>, c.md[1])

TestKind(c, i, s) ==
  \/ SetIr(c, i, s) \/ PulseUp(c, i, s) \/ PulseDown(c, i, s) \/ GetIr(c, i, s)
  \/ GetScratch(c, i, s) \/ ShowScratch(c, i, s) \/ SetScratch(c, i, s)

LEMMA LoadIsTest ==
  ASSUME NEW c, c.proc = "test_ir", NEW i \in 1 .. 3 * Parts + 2, NEW s,
         s = LoadStep(c.ir, i)
  PROVE  TestKind(c, i, s)
<1>1. PICK n \in Nat \ {0} : n = Parts
  BY SizeAssumption
<1>2. CASE i <= n
  <2>1. s = CcSet(<<"ir", i>>, c.ir[i]) /\ i \in 1 .. Parts /\ i <= 2 * Parts
    BY <1>1, <1>2 DEF LoadStep
  <2> QED BY <2>1 DEF TestKind, SetIr
<1>3. CASE i > n /\ i <= 2 * n
  <2>1. PICK p \in 1 .. n : p = i - n
    BY <1>3
  <2>2. s = CcSet(<<"ir", p>>, c.ir[p]) /\ i = Parts + p
    BY <1>1, <1>3, <2>1 DEF LoadStep
  <2> QED BY <1>1, <1>3, <2>2 DEF TestKind, SetIr
<1>4. CASE i = 2 * n + 1 \/ i = 2 * n + 2
  <2>1. \/ i = 2 * Parts + 1 /\ s = Clk(14)
        \/ i = 2 * Parts + 2 /\ s = Clk(0)
    BY <1>1, <1>4 DEF LoadStep
  <2> QED BY <2>1 DEF TestKind, PulseUp, PulseDown
<1>5. CASE i > 2 * n + 2
  <2>1. PICK p \in 1 .. n : p = i - (2 * n + 2)
    BY <1>1, <1>5
  <2>2. s = CcGet(<<"ir", p>>) /\ i = 2 * Parts + 2 + p
    BY <1>1, <1>5, <2>1 DEF LoadStep
  <2> QED BY <1>1, <2>2 DEF TestKind, GetIr
<1> QED BY <1>1, <1>2, <1>3, <1>4, <1>5

\* The parts of a test.
LEMMA TestIrParts ==
  ASSUME NEW c, c.proc = "test_ir", c.ir \in Wide, NEW w \in Nat, w = 2 * Parts + 2
  PROVE  \E W \in Seq(Steps), R \in Seq(Steps) :
           /\ Len(W) = w /\ Len(R) = Parts /\ Script(c) = Attempts(W, R, c.ir)
           /\ Join(W, R) = Load(c.ir)
<1>1. PICK n \in Nat \ {0} : n = Parts
  BY SizeAssumption
<1>2. PICK a : a = WriteAll("ir", c.ir)
  OBVIOUS
<1>3. a \in Seq(Steps) /\ Len(a) = n
  BY <1>1, <1>2, WritesAll, TransfersAreSteps
<1>4. PICK R : R = ReadIr
  OBVIOUS
<1>5. R \in Seq(Steps) /\ Len(R) = n
  BY <1>1, <1>4, ReadsAll, TransfersAreSteps DEF ReadIr
<1>6. PICK aa : aa = Join(a, a)
  OBVIOUS
<1>7. PICK q \in Nat : q = n + n
  OBVIOUS
<1>8. aa \in Seq(Steps) /\ Len(aa) = q
  <2>1. Consists(Steps, aa, a, a, n, n)
    BY <1>3, <1>6, Joined
  <2> QED BY <1>7, <2>1 DEF Consists
<1>9. PICK e, f : e = Clk(14) /\ f = Clk(0)
  OBVIOUS
<1>10. e \in Steps /\ f \in Steps
  BY <1>9, ClkStep DEF Transfers, Steps
<1>11. PICK W : W = Join(aa, <<e, f>>)
  OBVIOUS
<1>12. W \in Seq(Steps) /\ Len(W) = w
  <2>1. EndsWithBoth(Steps, W, aa, q, e, f)
    BY <1>8, <1>10, <1>11, JoinedTwo
  <2> QED BY <1>1, <1>7, <2>1 DEF EndsWithBoth
<1>13. W = WriteDiagIr(c.ir) \o NoopDebugClock
  BY <1>2, <1>6, <1>9, <1>11 DEF Join, WriteDiagIr, NoopDebugClock, Pulse
<1>14. Script(c) = Attempts(W, R, c.ir)
  BY <1>4, <1>13 DEF Script, TestIr
<1>15. Join(W, R) = Load(c.ir)
  BY <1>4, <1>13 DEF Join, Load
<1> QED BY <1>1, <1>5, <1>12, <1>14, <1>15

LEMMA TestItems ==
  ASSUME NEW c \in Tests, NEW w \in Nat, w = WriteLen(c), NEW r \in Nat, r = ReadLen(c),
         NEW m \in Nat, m = w + r
  PROVE  \E b : /\ ThreeAttempts(Script(c), b, w, r, m, Sought(c))
               /\ \A i \in 1 .. m : TestKind(c, i, b[i])
<1>1. \/ c.proc = "test_ir" /\ c.ir \in Wide
      \/ c.proc = "test_scratch" /\ c.md \in Wide
  BY CallKinds DEF Tests
<1>2. PICK t : t = Sought(c)
  OBVIOUS
<1>3. PICK y : y = Script(c)
  OBVIOUS
<1>4. CASE c.proc = "test_ir" /\ c.ir \in Wide
  <2>1. w = 2 * Parts + 2 /\ r = Parts /\ t = c.ir /\ m = 3 * Parts + 2
    BY <1>2, <1>4, SizeAssumption DEF WriteLen, ReadLen, Sought
  <2>2. PICK W \in Seq(Steps), R \in Seq(Steps) :
          /\ Len(W) = w /\ Len(R) = r /\ y = Attempts(W, R, t) /\ Join(W, R) = Load(c.ir)
    BY <1>3, <1>4, <2>1, TestIrParts
  <2>3. ASSUME NEW i \in 1 .. m PROVE TestKind(c, i, Join(W, R)[i])
    <3>1. Load(c.ir)[i] = LoadStep(c.ir, i)
      BY <1>4, <2>1, LoadSteps
    <3> QED BY <1>4, <2>1, <2>2, <3>1, LoadIsTest
  <2>4. c.ir \in Seq(Word)
    BY <1>4, SizeAssumption DEF Wide
  <2>5. t \in Seq(Word)
    BY <2>1, <2>4
  <2>6. ThreeAttempts(y, Join(W, R), w, r, m, t)
    BY <2>2, <2>5, AttemptItems
  <2> QED BY <1>2, <1>3, <2>3, <2>6
<1>5. CASE c.proc = "test_scratch" /\ c.md \in Wide
  <2>1. w = 3 /\ r = 1 /\ t = <<c.md[1]>> /\ m = 4
    BY <1>2, <1>5 DEF WriteLen, ReadLen, Sought
  <2>2. PICK g, s : g = CcGet(<<"scratch", 1>>) /\ s = CcSet(<<"scratch", 1>>, c.md[1])
    OBVIOUS
  <2>3. c.md[1] \in Word
    BY <1>5, SizeAssumption DEF Wide
  <2>4. g \in Steps /\ s \in Steps /\ Show \in Steps
    BY <2>2, <2>3 DEF CcGet, CcSet, Gets, Sets, ReadRegs, WriteRegs, Transfers, Steps
  <2>5. PICK W, R : W = <<g, Show, s>> /\ R = <<g>>
    OBVIOUS
  <2>6. /\ W \in Seq(Steps) /\ Len(W) = w /\ W[1] = g /\ W[2] = Show /\ W[3] = s
        /\ R \in Seq(Steps) /\ Len(R) = r /\ t \in Seq(Word)
    BY <2>1, <2>3, <2>4, <2>5
  <2>7. y = Attempts(W, R, t)
    BY <1>3, <1>5, <2>1, <2>2, <2>5 DEF Script, TestScratch
  <2>8. ASSUME NEW i \in 1 .. m PROVE TestKind(c, i, Join(W, R)[i])
    <3>1. EndsWith(Steps, Join(W, R), W, w, g)
      BY <2>4, <2>5, <2>6, JoinedOne
    <3>2. \/ i \in 1 .. 3 /\ Join(W, R)[i] = W[i]
          \/ i = 4 /\ Join(W, R)[i] = g
      BY <2>1, <3>1 DEF EndsWith
    <3>3. \/ i = 1 /\ Join(W, R)[i] = g
          \/ i = 2 /\ Join(W, R)[i] = Show
          \/ i = 3 /\ Join(W, R)[i] = s
          \/ i = 4 /\ Join(W, R)[i] = g
      BY <2>6, <3>2
    <3> QED BY <1>5, <2>2, <3>3 DEF TestKind, GetScratch, ShowScratch, SetScratch
  <2>9. ThreeAttempts(y, Join(W, R), w, r, m, t)
    BY <2>6, <2>7, AttemptItems
  <2> QED BY <1>2, <1>3, <2>8, <2>9
<1> QED BY <1>1, <1>4, <1>5

\* Where the script goes from the i-th step of the t-th attempt.
Start(c, t) == CASE t = 1 -> 0
                 [] t = 2 -> ReadLen(c) + 1
                 [] t = 3 -> WriteLen(c) + 2 * ReadLen(c) + 2
StepsOf(c, t) == (IF t = 2 THEN WriteLen(c) + 1 ELSE 1) .. WriteLen(c) + ReadLen(c) + 1
From(c, t, i) == Rest(Script(c), Start(c, t) + i)

LEMMA TestLens ==
  ASSUME NEW c
  PROVE  /\ WriteLen(c) \in Nat /\ ReadLen(c) \in Nat
         /\ WriteLen(c) >= 3 /\ ReadLen(c) >= 1
BY SizeAssumption DEF WriteLen, ReadLen

LEMMA TestStep ==
  ASSUME NEW c \in Tests, NEW t \in 1 .. 3, NEW i \in StepsOf(c, t),
         NEW m \in Nat, m = WriteLen(c) + ReadLen(c), NEW h \in Nat, h = i + 1,
         NEW x, x = From(c, t, i)
  PROVE  /\ x # <<>>
         /\ i <= m => /\ TestKind(c, i, Head(x)) /\ Tail(x) = From(c, t, h)
                      /\ h \in StepsOf(c, t)
         /\ i > m => /\ i = m + 1 /\ Head(x) = Try(Sought(c))
                     /\ t = 1 => Tail(x) = From(c, 2, WriteLen(c) + 1)
                     /\ t = 2 => Tail(x) = From(c, 3, 1)
                     /\ t = 3 => Tail(x) = <<Fail>>
<1>1w. PICK w \in Nat : w = WriteLen(c)
  BY TestLens
<1>1r. PICK r \in Nat : r = ReadLen(c)
  BY TestLens
<1>1. w = WriteLen(c) /\ r = ReadLen(c)
  BY <1>1w, <1>1r
<1>2. m = w + r /\ w >= 3 /\ r >= 1
  BY <1>1, TestLens
<1>3. PICK b : /\ ThreeAttempts(Script(c), b, w, r, m, Sought(c))
               /\ \A q \in 1 .. m : TestKind(c, q, b[q])
  BY <1>1, <1>2, TestItems
<1>4. PICK y : y = Script(c)
  OBVIOUS
<1>5. PICK s : s = Sought(c)
  OBVIOUS
<1>6. /\ y \in Seq(Steps) /\ Len(y) = 2 * m + r + 4
      /\ \A q \in 1 .. m : y[q] = b[q] /\ y[m + r + 2 + q] = b[q]
      /\ \A q \in w + 1 .. m : y[r + 1 + q] = b[q]
      /\ y[m + 1] = Try(s) /\ y[m + r + 2] = Try(s)
      /\ y[2 * m + r + 3] = Try(s) /\ y[2 * m + r + 4] = Fail
  BY <1>3, <1>4, <1>5 DEF ThreeAttempts
<1>7. PICK n \in Nat : n = 2 * m + r + 4
  OBVIOUS
<1>8. ASSUME NEW k \in 1 .. n
      PROVE  /\ Rest(y, k) # <<>> /\ Head(Rest(y, k)) = y[k]
             /\ Tail(Rest(y, k)) = Rest(y, k + 1)
  BY <1>6, <1>7, RestStep
<1>9. PICK o \in Nat : /\ o = Start(c, t)
                       /\ t = 1 => o = 0
                       /\ t = 2 => o = r + 1
                       /\ t = 3 => o = m + r + 2
  <2>1. Start(c, t) = IF t = 1 THEN 0 ELSE IF t = 2 THEN r + 1 ELSE m + r + 2
    BY <1>1, <1>2 DEF Start
  <2> QED BY <2>1
<1>10. i \in 1 .. m + 1 /\ (t = 2 => i > w)
  BY <1>1, <1>2 DEF StepsOf
<1>11. PICK k \in Nat : k = o + i
  BY <1>10
<1>12. k \in 1 .. n /\ x = Rest(y, k)
  <2>1. k \in 1 .. n
    BY <1>2, <1>7, <1>9, <1>10, <1>11
  <2> QED BY <1>4, <1>9, <1>11, <2>1 DEF From
<1>13. x # <<>> /\ Head(x) = y[k] /\ Tail(x) = Rest(y, k + 1)
  BY <1>8, <1>12
<1>14. ASSUME i <= m
       PROVE  TestKind(c, i, Head(x)) /\ Tail(x) = From(c, t, h) /\ h \in StepsOf(c, t)
  <2>1. i \in 1 .. m /\ (t = 2 => i \in w + 1 .. m)
    BY <1>10, <1>14
  <2>2. y[k] = b[i]
    <3>1. t = 1 \/ t = 2 \/ t = 3
      OBVIOUS
    <3>2. t = 1 => k = i
      BY <1>9, <1>10, <1>11
    <3> QED BY <1>6, <1>9, <1>11, <2>1, <3>1, <3>2
  <2>3. k + 1 = o + h
    BY <1>10, <1>11
  <2>4. h \in StepsOf(c, t)
    BY <1>1, <1>2, <1>10, <1>14 DEF StepsOf
  <2> QED BY <1>3, <1>4, <1>9, <1>13, <2>1, <2>2, <2>3, <2>4 DEF From
<1>15. ASSUME i > m
       PROVE  /\ i = m + 1 /\ Head(x) = Try(s)
              /\ t = 1 => Tail(x) = From(c, 2, WriteLen(c) + 1)
              /\ t = 2 => Tail(x) = From(c, 3, 1)
              /\ t = 3 => Tail(x) = <<Fail>>
  <2>1. i = m + 1
    BY <1>10, <1>15
  <2>2. CASE t = 1
    <3>1. k = m + 1 /\ k + 1 = r + 1 + (w + 1)
      BY <1>1, <1>2, <1>9, <1>11, <2>1, <2>2
    <3>2. Start(c, 2) = r + 1
      BY <1>1 DEF Start
    <3>3. From(c, 2, WriteLen(c) + 1) = Rest(y, r + 1 + (w + 1))
      BY <1>1, <1>4, <3>2 DEF From
    <3>4. Head(x) = Try(s) /\ Tail(x) = From(c, 2, WriteLen(c) + 1)
      BY <1>6, <1>13, <3>1, <3>3
    <3> QED BY <2>1, <2>2, <3>4
  <2>3. CASE t = 2
    <3>1. k = m + r + 2 /\ k + 1 = m + r + 2 + 1
      BY <1>1, <1>2, <1>9, <1>11, <2>1, <2>3
    <3>2. Start(c, 3) = m + r + 2
      BY <1>1, <1>2 DEF Start
    <3>3. From(c, 3, 1) = Rest(y, m + r + 2 + 1)
      BY <1>4, <3>2 DEF From
    <3>4. Head(x) = Try(s) /\ Tail(x) = From(c, 3, 1)
      BY <1>6, <1>13, <3>1, <3>3
    <3> QED BY <2>1, <2>3, <3>4
  <2>4. CASE t = 3
    <3>1. k = 2 * m + r + 3 /\ k + 1 = n
      BY <1>7, <1>9, <1>11, <2>1, <2>4
    <3>2. y[k] = Try(s)
      BY <1>6, <3>1
    <3>3. Rest(y, n) = <<Fail>>
      <4>1. y[n] = Fail /\ n \in 1 .. n
        BY <1>6, <1>7
      <4> QED BY <1>6, <1>7, <4>1, RestLast
    <3>4. Tail(x) = <<Fail>> /\ Head(x) = Try(s)
      BY <1>13, <3>1, <3>2, <3>3
    <3> QED BY <2>1, <2>4, <3>4
  <2> QED BY <2>2, <2>3, <2>4
<1> QED BY <1>5, <1>13, <1>14, <1>15

-----------------------------------------------------------------------------
(***************************************************************************)
(* What holds at a step of a test.                                         *)
(***************************************************************************)
\* The registers that a test is of.
Tested(c) == IF c.proc = "test_ir" THEN machine.ir ELSE <<machine.scratch>>

\* Nothing has gone wrong in this attempt: no fault before the end of the first,
\* none but one since the second began.  (When the clock stays high behind the
\* first writes, that was the fault, and IR is loaded.)
Clean(c, t, i) ==
  \/ t = 1 /\ faults = 0
  \/ t = 1 /\ c.proc = "test_ir" /\ i > WriteLen(c) /\ machine.clk # 0 /\ faults <= 1
  \/ t = 3 /\ faults <= 1

\* At the i-th step of such an attempt the register holds what was written,
Written(c, i) ==
  /\ c.proc = "test_ir" /\ i <= 2 * Parts + 1 =>
       machine.clk = 0 /\ \A p \in 1 .. Parts : p < i => machine.diag[p] = c.ir[p]
  /\ c.proc = "test_ir" /\ i = 2 * Parts + 2 =>
       machine.clk = 14 /\ (sent < Digits => nibs[Digits] = 14)
  /\ c.proc = "test_ir" /\ i >= 2 * Parts + 2 => machine.ir = c.ir
  /\ c.proc = "test_scratch" /\ i >= 4 => machine.scratch = c.md[1]

\* the adapter has what was sent, the line carries an undivided answer,
Carried ==
  /\ Doing("set") => \A d \in Places : d <= sent => nibs[d] = Head(script).val[d]
  /\ Awaiting => buf = <<>> /\ line = Answer(Head(script).reg)

\* and what was read is what is there.
Exact(c, i) ==
  /\ Written(c, i) /\ Carried
  /\ \A q \in 1 .. i - (WriteLen(c) + 1) : got[q] = Tested(c)[q]

\* The clock is low, unless there was a fault in the last pulse.
ClockLow(c, t, i) ==
  /\ faults = 0 /\ (c.proc = "test_ir" => i > WriteLen(c)) => machine.clk = 0
  /\ c.proc = "test_ir" /\ t = 2 /\ faults <= 1 => machine.clk = 0

PulseEnds(c, t, i) ==
  c.proc = "test_ir" /\ t = 1 /\ i = WriteLen(c) /\ faults <= 1 =>
    \/ sent = Digits => nibs[Digits] = 0
    \/ machine.ir = c.ir /\ machine.clk = 14 /\ nibs[Digits] = 14

GotRight(c, i) ==
  /\ i <= WriteLen(c) /\ (c.proc = "test_scratch" => i # 2) => got = <<>>
  /\ i > WriteLen(c) => Reads(i - (WriteLen(c) + 1), Tested(c))

Attempting(c, t, i) ==
  /\ verdict = "none" /\ script = From(c, t, i)
  /\ GotRight(c, i)
  /\ t # 1 => faults >= 1
  /\ ClockLow(c, t, i) /\ PulseEnds(c, t, i)
  /\ Clean(c, t, i) => Exact(c, i)

Passed(c) ==
  /\ verdict = "ok" /\ script = <<>>
  /\ \A p \in 1 .. ReadLen(c) :
       Tested(c)[p] = Sought(c)[p] \/ (Sought(c)[p] = Zero /\ "split" \in seen)
  /\ faults = 0 => machine.clk = 0

Failed ==
  /\ faults >= 2
  /\ \/ verdict = "bad" /\ script = <<>>
     \/ verdict = "none" /\ script = <<Fail>>

TestRight ==
  call \in Tests /\ InStep =>
    Passed(call) \/ Failed \/ \E t \in 1 .. 3 : \E i \in StepsOf(call, t) : Attempting(call, t, i)

\* In the other procedures nothing is compared but to be written again, and
\* without a fault they leave the clock low.
Plain == Transfers \cup Verifies \cup {Show}

NoVerdict ==
  /\ call \notin Calls => script = <<>>
  /\ call \notin Tests => verdict = "none" /\ script \in Seq(Plain)

Quiet == call \notin Tests /\ script = <<>> /\ faults = 0 => machine.clk = 0

Unharmed == faults = 0 => seen = {}

-----------------------------------------------------------------------------
(***************************************************************************)
(* The steps of a test keep it.                                            *)
(***************************************************************************)
\* A step has at most one fault.
LEMMA FaultsGrow ==
  Types /\ [Next]_vars =>
    \/ faults' = faults /\ seen' = seen
    \/ faults' = faults + 1
<1> SUFFICES ASSUME Types, [Next]_vars
             PROVE  (faults' = faults /\ seen' = seen) \/ faults' = faults + 1
  OBVIOUS
<1>f. ASSUME NEW kinds, Fine \/ Fault(kinds)
      PROVE  (faults' = faults /\ seen' = seen) \/ faults' = faults + 1
  BY <1>f DEF Fine, Fault
<1>1. CASE UNCHANGED vars \/ StartCall \/ Compare
  BY <1>1 DEF vars, StartCall, Compare
<1>2. CASE SendSet
  BY <1>2, <1>f DEF SendSet
<1>3. CASE SendGet
  <2>1. Answers(Head(script).reg) \/ Fault({"lost"})
    BY <1>3 DEF SendGet
  <2>2. \/ Fine \/ Fault({"lost"}) \/ Fault({"repeated"})
    BY <2>1 DEF Answers
  <2> QED BY <2>2, <1>f
<1>4. CASE ReadAnswer
  BY <1>4, <1>f DEF ReadAnswer
<1>5. CASE ReadNothing
  BY <1>5, <1>f DEF ReadNothing
<1> QED BY <1>1, <1>2, <1>3, <1>4, <1>5 DEF Next, Proceed

\* What the tests say of a step of theirs that is no comparison.
LEMMA TestKinds ==
  ASSUME NEW c \in Tests, NEW t \in 1 .. 3, NEW i \in StepsOf(c, t), script = From(c, t, i),
         NEW s, s = Head(script), s.op \notin {"try", "fail"},
         NEW m \in Nat, m = WriteLen(c) + ReadLen(c), NEW h \in Nat, h = i + 1
  PROVE  /\ script # <<>> /\ Tail(script) = From(c, t, h) /\ h \in StepsOf(c, t)
         /\ i \in 1 .. m /\ TestKind(c, i, s)
<1>1. i > m => s = Try(Sought(c))
  BY TestStep
<1>2. Try(Sought(c)).op = "try"
  BY DEF Try
<1>3. i <= m
  <2>1. i \in Nat
    BY TestLens DEF StepsOf
  <2> QED BY <1>1, <1>2, <2>1
<1>4. i \in 1 .. m
  BY <1>3, TestLens DEF StepsOf
<1> QED BY <1>3, <1>4, TestStep

\* A step that leaves the script and the machine alone.
LEMMA StillAttempting ==
  ASSUME Types, Types', NEW c, NEW t, NEW i, Attempting(c, t, i),
         script' = script, got' = got, machine' = machine, verdict' = verdict,
         seen \subseteq seen', faults' = faults \/ faults' = faults + 1,
         PulseEnds(c, t, i)',
         faults' = faults /\ Exact(c, i) => Written(c, i)' /\ Carried'
  PROVE  Attempting(c, t, i)'
<1>1. faults \in Nat /\ faults' \in Nat /\ faults <= faults'
  BY DEF Types, FaultTypes
<1>2. GotRight(c, i)'
  BY DEF Attempting, GotRight, Reads, Tested
<1>3. (t # 1 => faults >= 1)'
  BY <1>1 DEF Attempting
<1>4. ClockLow(c, t, i)'
  BY <1>1 DEF Attempting, ClockLow
<1>5. ASSUME Clean(c, t, i)' PROVE Exact(c, i)'
  <2>1. Clean(c, t, i) /\ faults' = faults
    <3>1. CASE t = 1 /\ faults' = 0
      BY <1>1, <3>1 DEF Clean
    <3>2. CASE t = 1 /\ c.proc = "test_ir" /\ i > WriteLen(c) /\ machine.clk # 0 /\ faults' <= 1
      <4>1. faults # 0
        BY <3>2 DEF Attempting, ClockLow
      <4> QED BY <1>1, <3>2, <4>1 DEF Clean
    <3>3. CASE t = 3 /\ faults' <= 1
      <4>1. faults >= 1
        BY <3>3 DEF Attempting
      <4> QED BY <1>1, <3>3, <4>1 DEF Clean
    <3> QED BY <1>5, <3>1, <3>2, <3>3 DEF Clean
  <2>2. Exact(c, i)
    BY <2>1 DEF Attempting
  <2> QED BY <2>1, <2>2 DEF Exact, Tested
<1> QED BY <1>2, <1>3, <1>4, <1>5 DEF Attempting

\* A digit of a register that is written.
LEMMA TestDigit ==
  ASSUME Types, Types', NEW c \in Tests, NEW t \in 1 .. 3, NEW i \in StepsOf(c, t),
         Attempting(c, t, i), SendSet, sent # Digits, seen \subseteq seen',
         faults' = faults \/ faults' = faults + 1
  PROVE  Attempting(c, t, i)'
<1>1. PICK s : s = Head(script)
  OBVIOUS
<1>2. PICK e \in Nat : e = sent + 1
  BY SizeAssumption DEF Types, LineTypes
<1>3. e \in Places /\ e <= Digits
  BY <1>2, SizeAssumption DEF Types, LineTypes, Places
<1>4. /\ script' = script /\ got' = got /\ machine' = machine /\ verdict' = verdict
      /\ sent' = e /\ s.op = "set"
      /\ \/ faults' = faults /\ nibs' = [nibs EXCEPT ![e] = s.val[e]]
         \/ faults' = faults + 1 /\ nibs' = nibs
  BY <1>1, <1>2 DEF SendSet, Doing, Fine, Fault
<1>5. faults \in Nat /\ nibs \in Word /\ Digits \in Places
  BY ZeroIsWord DEF Types, FaultTypes, MachineTypes
<1>6. ASSUME faults' = faults PROVE nibs' = [nibs EXCEPT ![e] = s.val[e]]
  BY <1>4, <1>5, <1>6
\* The last pulse.
<1>7. ASSUME c.proc = "test_ir", i = 2 * Parts + 2 PROVE s.val[Digits] = 0
  <2>1. PICK m \in Nat : m = WriteLen(c) + ReadLen(c)
    BY TestLens
  <2>2. PICK h \in Nat : h = i + 1
    BY <1>7, SizeAssumption
  <2>3. TestKind(c, i, s)
    BY <1>1, <1>4, <2>1, <2>2, TestKinds DEF Attempting
  <2>4. s = Clk(0)
    <3>1. PICK n \in Nat : n = Parts
      BY SizeAssumption
    <3>2. i = 2 * n + 2 /\ ~(i <= 2 * n) /\ i # 2 * n + 1
      BY <1>7, <3>1
    <3>3. ~SetIr(c, i, s) /\ ~PulseUp(c, i, s)
      BY <3>1, <3>2 DEF SetIr, PulseUp
    <3>4. ~GetIr(c, i, s)
      <4>1. \A p \in 1 .. n : i # 2 * n + 2 + p
        BY <3>2
      <4> QED BY <3>1, <4>1 DEF GetIr
    <3>5. ~GetScratch(c, i, s) /\ ~ShowScratch(c, i, s) /\ ~SetScratch(c, i, s)
      BY <1>7 DEF GetScratch, ShowScratch, SetScratch
    <3> QED BY <2>3, <3>3, <3>4, <3>5 DEF TestKind, PulseDown
  <2> QED BY <2>4, ClkStep
<1>8. PulseEnds(c, t, i)'
  <2> SUFFICES ASSUME c.proc = "test_ir", t = 1, i = WriteLen(c), faults' <= 1, e = Digits
               PROVE  \/ nibs'[Digits] = 0
                      \/ machine.ir = c.ir /\ machine.clk = 14 /\ nibs'[Digits] = 14
    BY <1>4 DEF PulseEnds
  <2>1. i = 2 * Parts + 2
    BY DEF WriteLen
  <2>2. CASE faults' = faults
    BY <1>4, <1>5, <1>6, <1>7, <2>1, <2>2 DEF Word
  <2>3. CASE faults' = faults + 1 /\ nibs' = nibs
    <3>1. faults = 0
      BY <1>5, <2>3
    <3>2. Exact(c, i)
      BY <3>1 DEF Attempting, Clean
    <3>3. sent < Digits
      BY <1>2, SizeAssumption DEF Types, LineTypes
    <3>4. i >= 2 * Parts + 2
      BY <2>1, SizeAssumption
    <3> QED BY <2>1, <2>3, <3>2, <3>3, <3>4 DEF Exact, Written
  <2> QED BY <1>4, <2>2, <2>3
<1>9. ASSUME faults' = faults, Exact(c, i) PROVE Written(c, i)' /\ Carried'
  <2>1. Written(c, i)'
    <3>1. sent < Digits
      BY <1>2, <1>3, SizeAssumption DEF Types, LineTypes
    <3>2. e < Digits => nibs'[Digits] = nibs[Digits]
      BY <1>3, <1>5, <1>6, <1>9 DEF Word
    <3> QED BY <1>4, <1>9, <3>1, <3>2 DEF Exact, Written
  <2>2. Carried'
    <3>1. (Head(script))' = s
      BY <1>1, <1>4
    <3>2. ~Awaiting'
      BY <1>4, <3>1 DEF Awaiting, Doing
    <3>3. ASSUME NEW d \in Places, d <= e PROVE nibs'[d] = s.val[d]
      <4>1. d = e \/ d <= sent
        BY <1>2, <3>3 DEF Types, LineTypes, Places
      <4>2. Doing("set")
        BY DEF SendSet
      <4> QED BY <1>1, <1>5, <1>6, <1>9, <4>1, <4>2 DEF Exact, Carried, Word
    <3> QED BY <1>4, <3>1, <3>2, <3>3 DEF Carried
  <2> QED BY <2>1, <2>2
<1> QED BY <1>4, <1>8, <1>9, StillAttempting

\* A register that is read is not the end of a pulse.
LEMMA TestGets ==
  ASSUME NEW c \in Tests, NEW t \in 1 .. 3, NEW i \in StepsOf(c, t), script = From(c, t, i),
         NEW s, s = Head(script), s.op = "get", NEW h \in Nat, h = i + 1
  PROVE  /\ Tail(script) = From(c, t, h) /\ h \in StepsOf(c, t)
         /\ GetIr(c, i, s) \/ GetScratch(c, i, s)
         /\ c.proc = "test_ir" => i > 2 * Parts + 2
<1>1. PICK m \in Nat : m = WriteLen(c) + ReadLen(c)
  BY TestLens
<1>2. Tail(script) = From(c, t, h) /\ h \in StepsOf(c, t) /\ TestKind(c, i, s)
  BY <1>1, TestKinds
<1>3. \A r, v : CcSet(r, v).op # "get"
  BY DEF CcSet
<1>4. Clk(14).op # "get" /\ Clk(0).op # "get" /\ Show.op # "get"
  BY <1>3 DEF Clk, Show
<1>5. GetIr(c, i, s) \/ GetScratch(c, i, s)
  BY <1>2, <1>3, <1>4 DEF TestKind, SetIr, PulseUp, PulseDown, ShowScratch, SetScratch
<1>6. c.proc = "test_ir" => i > 2 * Parts + 2
  <2>1. PICK n \in Nat : n = Parts
    BY SizeAssumption
  <2>2. ASSUME GetIr(c, i, s) PROVE i > 2 * Parts + 2
    <3>1. PICK p \in 1 .. n : i = 2 * n + 2 + p
      BY <2>1, <2>2 DEF GetIr
    <3> QED BY <2>1, <3>1
  <2>3. GetScratch(c, i, s) => c.proc # "test_ir"
    BY DEF GetScratch
  <2> QED BY <1>5, <2>2, <2>3
<1> QED BY <1>2, <1>5, <1>6

\* While a register is read, written registers stay.
LEMMA TestReading ==
  ASSUME Types, Types', NEW c \in Tests, NEW t \in 1 .. 3, NEW i \in StepsOf(c, t),
         Attempting(c, t, i), Doing("get"),
         script' = script, got' = got, machine' = machine, verdict' = verdict,
         seen \subseteq seen', faults' = faults \/ faults' = faults + 1,
         faults' = faults /\ Carried => Carried'
  PROVE  Attempting(c, t, i)'
<1>1. PICK h \in Nat : h = i + 1
  BY TestLens DEF StepsOf
<1>2. c.proc = "test_ir" => i > 2 * Parts + 2
  BY <1>1, TestGets DEF Attempting, Doing
<1>3n. PICK n \in Nat : n = Parts
  BY SizeAssumption
<1>3j. PICK j \in Nat : j = i
  BY TestLens DEF StepsOf
<1>3. n = Parts /\ j = i
  BY <1>3n, <1>3j
<1>4. PulseEnds(c, t, i)'
  BY <1>2, <1>3 DEF PulseEnds, WriteLen
<1>5. Written(c, i) => Written(c, i)'
  BY <1>2, <1>3 DEF Written
<1> QED BY <1>4, <1>5, StillAttempting DEF Exact

\* An undivided answer is taken for what it is.
LEMMA WholeAnswer ==
  ASSUME Types, NEW r \in ReadRegs, buf = <<>>, line = Answer(r), ReadChars(Len(line))
  PROVE  script' = Tail(script) /\ got' = Append(got, ReadRegister(machine, r))
<1>1. PICK a : a = Answer(r)
  OBVIOUS
<1>2. /\ a \in Seq(Chars) /\ Len(a) = Digits
      /\ \A d \in Places : a[d][1] = d /\ a[d][2] = ReadRegister(machine, r)[d]
  BY <1>1, AnswerItems DEF Types
<1>3. PICK q \in Nat : q = Len(a)
  BY <1>2
<1>4. SubSeq(a, 1, q) = a
  BY <1>2, <1>3, SubSeqFull
<1>5. <<>> \o a = a
  BY <1>2, ConcatEmptySeq
<1>6. buf \o SubSeq(line, 1, q) = a
  BY <1>1, <1>4, <1>5
<1>7. script' = Tail(script) /\ got' = Append(got, Decode(SubSeq(a, 1, q)))
  BY <1>1, <1>2, <1>3, <1>6 DEF ReadChars
<1>8. Decode(a) = [d \in Places |-> a[d][2]]
  BY <1>2, <1>3, Decoding
<1>9. ReadRegister(machine, r) \in Word
  BY RegisterRead DEF Types, MachineTypes
<1>10. Decode(a) = ReadRegister(machine, r)
  BY <1>2, <1>8, <1>9 DEF Word
<1> QED BY <1>4, <1>7, <1>10

\* Asking, waiting and reading a part of an answer.
LEMMA TestWaits ==
  ASSUME Types, Types', LineRight, NEW c \in Tests, NEW t \in 1 .. 3, NEW i \in StepsOf(c, t),
         Attempting(c, t, i), InStep', seen \subseteq seen',
         faults' = faults \/ faults' = faults + 1,
         SendGet \/ ReadNothing \/ (ReadAnswer /\ script' = script)
  PROVE  Attempting(c, t, i)'
<1>1. Doing("get") /\ script' = script /\ got' = got /\ machine' = machine /\ verdict' = verdict
  <2>1. CASE SendGet \/ ReadNothing
    BY <2>1 DEF SendGet, ReadNothing, Awaiting, host
  <2>2. CASE ReadAnswer /\ script' = script
    <3>1. PICK k : ReadChars(k)
      BY <2>2 DEF ReadAnswer
    <3>2. verdict' = verdict
      BY <3>1 DEF ReadChars
    <3>3. /\ machine' = machine /\ Doing("get")
          /\ \/ script' = script /\ got' = got
             \/ script' = Tail(script) /\ got' # got
      BY <2>2, ReadOn
    <3>4. script # Tail(script)
      <4>1. script \in Seq(Steps) /\ script # <<>>
        BY <3>3 DEF Types, HostTypes, Doing
      <4>2. Len(Tail(script)) = Len(script) - 1 /\ Len(script) \in Nat
        BY <4>1, HeadTailProperties
      <4> QED BY <4>2
    <3> QED BY <2>2, <3>2, <3>3, <3>4
  <2> QED BY <2>1, <2>2
<1>2. PICK r : r = Head(script).reg
  OBVIOUS
<1>3. r \in ReadRegs
  <2>1. script \in Seq(Steps) /\ script # <<>> /\ Head(script).op = "get"
    BY <1>1 DEF Doing, Types, HostTypes
  <2>2. Head(script) \in Gets
    BY <2>1, HeadAndTail, StepKinds
  <2> QED BY <1>2, <2>2 DEF Gets
<1>4. PICK a : a = Answer(r)
  OBVIOUS
<1>5. a \in Seq(Chars) /\ Len(a) = Digits
  BY <1>3, <1>4, AnswerItems DEF Types
<1>6. faults \in Nat
  BY DEF Types, FaultTypes
<1>7. ASSUME faults' = faults, Carried, Awaiting' PROVE buf' = <<>> /\ line' = a
  <2>f. ASSUME NEW kinds, Fault(kinds) PROVE FALSE
    BY <1>6, <1>7, <2>f DEF Fault
  <2>1. CASE SendGet
    <3>1. buf = <<>> /\ line = <<>>
      BY <2>1, InStepBefore DEF LineRight, SendGet, Awaiting
    <3>2. line' = line \o a /\ buf' = buf
      BY <1>2, <1>4, <2>1, <2>f DEF SendGet, Answers
    <3>3. <<>> \o a = a
      BY <1>5, ConcatEmptySeq
    <3> QED BY <3>1, <3>2, <3>3
  <2>2. CASE ReadNothing
    <3>1. buf = <<>> /\ line = a
      BY <1>2, <1>4, <1>7, <2>2 DEF Carried, ReadNothing
    <3>2. line # <<>>
      <4>1. Len(a) # 0
        BY <1>5, SizeAssumption
      <4> QED BY <3>1, <4>1
    <3>3. loops < MaxLoops
      BY <2>2, <2>f, <3>2 DEF ReadNothing
    <3> QED BY <2>2, <3>1, <3>3 DEF ReadNothing
  <2>3. CASE ReadAnswer /\ script' = script
    <3>1. ReadChars(Len(line))
      BY <2>3, <2>f DEF ReadAnswer
    <3>2. buf = <<>> /\ line = Answer(r)
      BY <1>2, <1>7, <3>1 DEF Carried, ReadChars
    <3>3. got' = Append(got, ReadRegister(machine, r))
      BY <1>3, <3>1, <3>2, WholeAnswer
    <3>4. got \in Seq(Word)
      BY DEF Types, HostTypes
    <3>5. got' # got
      <4>1. Len(got') = Len(got) + 1 /\ Len(got) \in Nat
        BY <3>3, <3>4
      <4> QED BY <4>1
    <3> QED BY <1>1, <3>5
  <2> QED BY <2>1, <2>2, <2>3
<1>8. ASSUME faults' = faults, Carried PROVE Carried'
  <2>1. (Head(script).reg)' = r /\ ~Doing("set")'
    BY <1>1, <1>2 DEF Doing
  <2>2. (Answer(r))' = a
    BY <1>1, <1>4 DEF Answer
  <2> QED BY <1>7, <1>8, <2>1, <2>2 DEF Carried
<1> QED BY <1>1, <1>8, TestReading

\* A clean attempt was clean before.
LEMMA CleanBefore ==
  ASSUME Types, NEW c, NEW t, NEW i, Attempting(c, t, i), NEW h, Clean(c, t, h)',
         faults' = faults \/ faults' = faults + 1,
         c.proc = "test_ir" /\ h > WriteLen(c) => i > WriteLen(c) /\ machine'.clk = machine.clk
  PROVE  Clean(c, t, i) /\ faults' = faults /\ Exact(c, i)
<1>1. faults \in Nat
  BY DEF Types, FaultTypes
<1>2. Clean(c, t, i) /\ faults' = faults
  <2>1. CASE t = 1 /\ faults' = 0
    BY <1>1, <2>1 DEF Clean
  <2>2. CASE t = 1 /\ c.proc = "test_ir" /\ h > WriteLen(c) /\ machine'.clk # 0 /\ faults' <= 1
    <3>1. faults # 0
      BY <2>2 DEF Attempting, ClockLow
    <3> QED BY <1>1, <2>2, <3>1 DEF Clean
  <2>3. CASE t = 3 /\ faults' <= 1
    <3>1. faults >= 1
      BY <2>3 DEF Attempting
    <3> QED BY <1>1, <2>3, <3>1 DEF Clean
  <2> QED BY <2>1, <2>2, <2>3 DEF Clean
<1> QED BY <1>2 DEF Attempting

\* Before a message there is nothing to carry.
LEMMA NothingSent ==
  ASSUME sent' = 0
  PROVE  /\ Carried'
         /\ \A c, t, i : PulseEnds(c, t, i)'
<1>1. ~Awaiting'
  BY DEF Awaiting
<1>2. \A d \in Places : ~(d <= sent')
  BY SizeAssumption DEF Places
<1>3. sent' # Digits
  BY SizeAssumption
<1> QED BY <1>1, <1>2, <1>3 DEF Carried, PulseEnds

\* A register was read.
LEMMA TestGot ==
  ASSUME Types, LineRight, NEW c \in Tests, NEW t \in 1 .. 3, NEW i \in StepsOf(c, t),
         Attempting(c, t, i), NEW h \in Nat, h = i + 1, ReadAnswer, script' = Tail(script),
         got' # got, InStep', seen \subseteq seen', faults' = faults \/ faults' = faults + 1
  PROVE  Attempting(c, t, h)'
<1>1. PICK s : s = Head(script)
  OBVIOUS
<1>2. PICK k : ReadChars(k)
  BY DEF ReadAnswer
<1>3. /\ machine' = machine /\ verdict' = verdict /\ sent' = 0 /\ Awaiting
      /\ script # <<>> /\ s.op = "get"
  BY <1>1, <1>2 DEF ReadChars, Awaiting, Doing
<1>4. /\ script' = From(c, t, h)
      /\ GetIr(c, i, s) \/ GetScratch(c, i, s)
      /\ c.proc = "test_ir" => i > 2 * Parts + 2
  BY <1>1, <1>3, TestGets DEF Attempting
<1>5. PICK v : got' = Append(got, v) /\ Returned(v, s.reg)
  BY <1>1, LineReadAnswer
<1>a. PICK P \in Nat : P = Parts
  BY SizeAssumption
<1>b. PICK w \in Nat : w = WriteLen(c)
  BY TestLens
<1>d. i \in Nat
  BY TestLens DEF StepsOf
<1>6. P = Parts /\ w = WriteLen(c) /\ i \in Nat
  BY <1>a, <1>b, <1>d
<1>7. (c.proc = "test_ir" => w = 2 * P + 2) /\ (c.proc = "test_scratch" => w = 3)
  BY <1>6 DEF WriteLen
<1>8. c.proc = "test_ir" \/ c.proc = "test_scratch"
  BY DEF Tests
<1>g. got \in Seq(Word) /\ faults \in Nat
  BY DEF Types, HostTypes, FaultTypes
<1>9. PICK is : is = Tested(c)
  OBVIOUS
\* It is the next part of the register that is tested.
<1>10. ASSUME i > w, NEW q \in Nat, q = i - w PROVE ReadRegister(machine, s.reg) = is[q]
  <2>1. CASE GetIr(c, i, s)
    <3>1. PICK p \in 1 .. Parts : i = 2 * Parts + 2 + p /\ s.reg = <<"ir", p>>
      BY <2>1 DEF GetIr, CcGet
    <3>2. c.proc = "test_ir"
      BY <2>1 DEF GetIr
    <3>3. q = p
      BY <1>6, <1>7, <1>10, <3>1, <3>2
    <3> QED BY <1>9, <3>1, <3>2, <3>3 DEF ReadRegister, Tested
  <2>2. CASE GetScratch(c, i, s)
    <3>1. c.proc = "test_scratch" /\ (i = 1 \/ i = 4) /\ s.reg = <<"scratch", 1>>
      BY <2>2 DEF GetScratch, CcGet
    <3>2. q = 1
      BY <1>6, <1>7, <1>10, <3>1
    <3>3. is[1] = machine.scratch
      BY <1>9, <3>1 DEF Tested
    <3> QED BY <3>1, <3>2, <3>3 DEF ReadRegister
  <2> QED BY <1>4, <2>1, <2>2
<1>11. i > w \/ (c.proc = "test_scratch" /\ i = 1)
  <2>1. GetScratch(c, i, s) => c.proc = "test_scratch" /\ (i = 1 \/ i = 4)
    BY DEF GetScratch
  <2>2. GetIr(c, i, s) => c.proc = "test_ir"
    BY DEF GetIr
  <2> QED BY <1>4, <1>6, <1>7, <2>1, <2>2
<1>12. (Tested(c))' = is
  BY <1>3, <1>9 DEF Tested
<1>13. GotRight(c, h)'
  <2>1. CASE i > w
    <3>1. PICK e \in Nat : e = i - (w + 1)
      BY <1>6, <2>1
    <3>2. PICK q \in Nat : q = e + 1
      OBVIOUS
    <3>3. q = i - w /\ q = h - (w + 1) /\ ~(h <= w)
      BY <1>6, <2>1, <3>1, <3>2
    <3>4. Reads(e, is)
      BY <1>6, <1>9, <2>1, <3>1 DEF Attempting, GotRight
    <3>5. v = is[q] \/ (v = Zero /\ "split" \in seen')
      BY <1>5, <1>10, <2>1, <3>3 DEF Returned
    <3>6. /\ Len(got') = q
          /\ \A p \in 1 .. q : got'[p] = is[p] \/ (got'[p] = Zero /\ "split" \in seen')
      BY <1>5, <1>g, <3>2, <3>4, <3>5, ReadsOneMore
    <3> QED BY <1>6, <1>12, <3>3, <3>6 DEF GotRight, Reads
  <2>2. CASE c.proc = "test_scratch" /\ i = 1
    <3>1. h = 2 /\ w = 3
      BY <1>7, <2>2
    <3> QED BY <1>6, <2>2, <3>1 DEF GotRight
  <2> QED BY <1>11, <2>1, <2>2
<1>14. ClockLow(c, t, h)'
  <2>1. c.proc = "test_ir" => i > w
    BY <1>4, <1>6, <1>7
  <2> QED BY <1>3, <1>6, <1>g, <2>1 DEF Attempting, ClockLow
<1>15. ASSUME Clean(c, t, h)' PROVE Exact(c, h)'
  <2>1. c.proc = "test_ir" => i > WriteLen(c) /\ machine'.clk = machine.clk
    BY <1>3, <1>4, <1>6, <1>7
  <2>2. faults' = faults /\ Exact(c, i)
    BY <1>15, <2>1, CleanBefore
  <2>3. PICK r : r = s.reg
    OBVIOUS
  <2>4. r \in ReadRegs
    <3>1. script \in Seq(Steps)
      BY DEF Types, HostTypes
    <3>2. s \in Gets
      BY <1>1, <1>3, <3>1, HeadAndTail, StepKinds
    <3> QED BY <2>3, <3>2 DEF Gets
  <2>5. got' = Append(got, ReadRegister(machine, r))
    <3>1. buf = <<>> /\ line = Answer(r)
      BY <1>1, <1>3, <2>2, <2>3 DEF Exact, Carried
    <3>2. ReadChars(Len(line))
      BY <1>g, <2>2 DEF ReadAnswer, Fault
    <3> QED BY <2>4, <3>1, <3>2, WholeAnswer
  <2>6. Written(c, h)'
    <3>1. c.proc = "test_ir" => ~(h <= 2 * P + 1) /\ h # 2 * P + 2 /\ i >= 2 * P + 2
      BY <1>4, <1>6
    <3>2. c.proc = "test_scratch" /\ h >= 4 => i >= 4
      BY <1>6, <1>7, <1>11
    <3> QED BY <1>3, <1>6, <2>2, <3>1, <3>2 DEF Exact, Written
  <2>7. ASSUME NEW q \in 1 .. h - (w + 1) PROVE got'[q] = is[q]
    <3>1. i > w
      BY <1>6, <1>7, <1>11, <2>7
    <3>2. q \in 1 .. i - (w + 1) \/ q = i - w
      BY <1>6, <2>7
    <3>3. Len(got) = i - (w + 1)
      BY <1>6, <3>1 DEF Attempting, GotRight, Reads
    <3>4. CASE q \in 1 .. i - (w + 1)
      <4>1. got[q] = is[q]
        BY <1>6, <1>9, <2>2, <3>4 DEF Exact
      <4>2. got'[q] = got[q]
        BY <1>g, <2>5, <3>3, <3>4
      <4> QED BY <4>1, <4>2
    <3>5. CASE q = i - w
      <4>1. q = Len(got) + 1
        BY <1>6, <3>3, <3>5
      <4>2. got'[q] = ReadRegister(machine, r)
        BY <1>g, <2>5, <4>1
      <4>3. q \in Nat
        OBVIOUS
      <4> QED BY <1>10, <2>3, <3>1, <3>5, <4>2, <4>3
    <3> QED BY <3>2, <3>4, <3>5
  <2> QED BY <1>3, <1>6, <1>12, <2>6, <2>7, NothingSent DEF Exact
<1>16. (t # 1 => faults >= 1)'
  BY <1>g DEF Attempting
<1>17. verdict' = "none" /\ PulseEnds(c, t, h)'
  BY <1>3, NothingSent DEF Attempting
<1> QED BY <1>4, <1>13, <1>14, <1>15, <1>16, <1>17 DEF Attempting

\* What the pulse of a test does to the machine.
LEMMA PulseWritten ==
  ASSUME NEW m \in Machines, NEW v \in Word, v[Digits] = 14,
         NEW x, x = WriteRegister(m, <<"clk", 1>>, v)
  PROVE  /\ x.clk = 14
         /\ m.clk = 0 => x.ir = m.diag
         /\ m.clk = 14 => x.ir = m.ir
<1>1. x = Clocked(m, 14)
  BY DEF WriteRegister
<1>2. Bit(14, 8) /\ Bit(14, 2) /\ ~Bit(14, 1)
  BY DEF Bit
<1>3. x.clk = 14
  BY <1>1 DEF Clocked, Machines
<1>4. ASSUME m.clk = 0 PROVE x.ir = m.diag
  <2>1. \E b \in {1, 2} : Bit(14, b) /\ ~Bit(m.clk, b)
    <3>1. ~Bit(m.clk, 2)
      BY <1>4 DEF Bit
    <3> QED BY <1>2, <3>1
  <2> QED BY <1>1, <1>2, <2>1 DEF Clocked, Machines
<1>5. ASSUME m.clk = 14 PROVE x.ir = m.ir
  <2>1. ~ \E b \in {1, 2} : Bit(14, b) /\ ~Bit(m.clk, b)
    BY <1>5
  <2> QED BY <1>1, <2>1 DEF Clocked, Machines
<1> QED BY <1>3, <1>4, <1>5

LEMMA TestWrites ==
  ASSUME NEW c \in Tests, NEW i \in Nat, NEW s, TestKind(c, i, s), s.op = "set"
  PROVE  /\ SetIr(c, i, s) \/ PulseUp(c, i, s) \/ PulseDown(c, i, s) \/ SetScratch(c, i, s)
         /\ i <= WriteLen(c)
         /\ c.proc = "test_scratch" => i = 3
<1>1. \A r : CcGet(r).op # "set"
  BY DEF CcGet
<1>2. Show.op # "set"
  BY DEF Show
<1>3. SetIr(c, i, s) \/ PulseUp(c, i, s) \/ PulseDown(c, i, s) \/ SetScratch(c, i, s)
  BY <1>1, <1>2 DEF TestKind, GetIr, GetScratch, ShowScratch
<1>4P. PICK P \in Nat : P = Parts
  BY SizeAssumption
<1>4w. PICK w \in Nat : w = WriteLen(c)
  BY TestLens
<1>4. P = Parts /\ w = WriteLen(c)
  BY <1>4P, <1>4w
<1>5. (c.proc = "test_ir" => w = 2 * P + 2) /\ (c.proc = "test_scratch" => w = 3)
  BY <1>4 DEF WriteLen
<1>6. \/ c.proc = "test_ir" /\ (i <= 2 * P \/ i = 2 * P + 1 \/ i = 2 * P + 2)
      \/ c.proc = "test_scratch" /\ i = 3
  BY <1>3, <1>4 DEF SetIr, PulseUp, PulseDown, SetScratch
<1>7. i <= w
  BY <1>5, <1>6
<1> QED BY <1>3, <1>4, <1>6, <1>7

\* A register is written with what was sent.
LEMMA TestWritten ==
  ASSUME Types, NEW c \in Tests, NEW i \in Nat, NEW h \in Nat, h = i + 1, NEW s, s.op = "set",
         TestKind(c, i, s), Written(c, i), s.val \in Word,
         \A d \in Places : nibs[d] = s.val[d],
         machine' = WriteRegister(machine, s.reg, nibs), nibs' = nibs, sent' = 0
  PROVE  Written(c, h)'
<1>1. PICK P \in Nat : P = Parts
  BY SizeAssumption
<1>2. nibs = s.val /\ machine \in Machines /\ nibs \in Word
  <2>1. nibs \in Word /\ machine \in Machines
    BY DEF Types, MachineTypes
  <2>2. nibs = s.val
    BY <2>1 DEF Word
  <2> QED BY <2>1, <2>2
<1>c. c.proc = "test_ir" => c.ir \in Wide
  BY CallKinds DEF Tests
<1>3. CASE SetIr(c, i, s)
  <2>1. PICK p \in 1 .. P : (i = p \/ i = P + p) /\ s.reg = <<"ir", p>> /\ s.val = c.ir[p]
    BY <1>1, <1>3 DEF SetIr, CcSet
  <2>2. c.proc = "test_ir" /\ i <= 2 * P
    BY <1>1, <1>3 DEF SetIr
  <2>3. machine' = [machine EXCEPT !.diag[p] = c.ir[p]]
    BY <1>2, <2>1 DEF WriteRegister
  <2>4. machine'.clk = machine.clk /\ machine'.diag = [machine.diag EXCEPT ![p] = c.ir[p]]
    BY <1>2, <2>3 DEF Machines
  <2>5. machine.diag \in Wide
    BY <1>2 DEF Machines
  <2>6. machine.clk = 0 /\ \A q \in 1 .. P : q < i => machine.diag[q] = c.ir[q]
    BY <1>1, <2>2 DEF Written
  <2>7. ASSUME NEW q \in 1 .. P, q < h PROVE machine'.diag[q] = c.ir[q]
    <3>1. q < i \/ q = p
      BY <2>1, <2>7
    <3> QED BY <1>1, <2>4, <2>5, <2>6, <3>1 DEF Wide
  <2>8. h # 2 * P + 2 /\ ~(h >= 2 * P + 2)
    BY <2>2
  <2> QED BY <1>1, <2>2, <2>4, <2>6, <2>7, <2>8 DEF Written
<1>4. CASE PulseUp(c, i, s)
  <2>1. c.proc = "test_ir" /\ i = 2 * P + 1 /\ s.reg = <<"clk", 1>> /\ s.val[Digits] = 14
    BY <1>1, <1>4, ClkStep DEF PulseUp
  <2>2. machine.clk = 0 /\ \A q \in 1 .. P : machine.diag[q] = c.ir[q]
    <3>1. i <= 2 * P + 1 /\ \A q \in 1 .. P : q < i
      BY <2>1
    <3> QED BY <1>1, <2>1, <3>1 DEF Written
  <2>3. machine.diag = c.ir
    <3>1. PICK d, e : d = machine.diag /\ e = c.ir
      OBVIOUS
    <3>2. d \in Wide /\ e \in Wide /\ \A q \in 1 .. P : d[q] = e[q]
      BY <1>2, <1>c, <2>1, <2>2, <3>1 DEF Machines
    <3>3. d = e
      BY <1>1, <3>2 DEF Wide
    <3> QED BY <3>1, <3>3
  <2>4. machine'.clk = 14 /\ machine'.ir = c.ir
    BY <1>2, <2>1, <2>2, <2>3, PulseWritten
  <2>5. h = 2 * P + 2 /\ ~(h <= 2 * P + 1)
    BY <2>1
  <2>6. nibs'[Digits] = 14
    BY <1>2, <2>1
  <2> QED BY <1>1, <2>1, <2>4, <2>5, <2>6 DEF Written
<1>5. CASE PulseDown(c, i, s)
  <2>1. c.proc = "test_ir" /\ i = 2 * P + 2 /\ s.reg = <<"clk", 1>> /\ s.val[Digits] = 0
    BY <1>1, <1>5, ClkStep DEF PulseDown
  <2>2. machine.ir = c.ir
    BY <1>1, <2>1 DEF Written
  <2>3. machine'.ir = c.ir
    BY <1>2, <2>1, <2>2, ClockWritten
  <2>4. ~(h <= 2 * P + 1) /\ h # 2 * P + 2
    BY <2>1
  <2> QED BY <1>1, <2>1, <2>3, <2>4 DEF Written
<1>6. CASE SetScratch(c, i, s)
  <2>1. c.proc = "test_scratch" /\ i = 3 /\ s.reg = <<"scratch", 1>> /\ s.val = c.md[1]
    BY <1>6 DEF SetScratch, CcSet
  <2>2. machine'.scratch = c.md[1]
    BY <1>2, <2>1 DEF WriteRegister, Machines
  <2> QED BY <2>1, <2>2 DEF Written
<1> QED BY <1>3, <1>4, <1>5, <1>6, TestWrites

\* A register has been written.
LEMMA TestSet ==
  ASSUME Types, Types', NEW c \in Tests, NEW t \in 1 .. 3, NEW i \in StepsOf(c, t),
         Attempting(c, t, i), NEW h \in Nat, h = i + 1, SendSet, sent = Digits,
         seen \subseteq seen', faults' = faults \/ faults' = faults + 1
  PROVE  Attempting(c, t, h)'
<1>1. PICK s : s = Head(script)
  OBVIOUS
<1>2. /\ script' = Tail(script) /\ got' = got /\ verdict' = verdict /\ sent' = 0
      /\ Doing("set") /\ script # <<>> /\ s.op = "set"
      /\ nibs' = nibs
      /\ \/ faults' = faults /\ machine' = WriteRegister(machine, s.reg, nibs)
         \/ faults' = faults + 1 /\ machine' = machine
  BY <1>1 DEF SendSet, Doing, Fine, Fault
<1>3. faults \in Nat /\ i \in Nat /\ machine \in Machines /\ nibs \in Word
  BY TestLens DEF Types, FaultTypes, MachineTypes, StepsOf
<1>4. PICK P \in Nat : P = Parts
  BY SizeAssumption
<1>5. PICK w \in Nat : w = WriteLen(c)
  BY TestLens
<1>6. /\ c.proc = "test_ir" \/ c.proc = "test_scratch"
      /\ c.proc = "test_ir" => w = 2 * P + 2
      /\ c.proc = "test_scratch" => w = 3
  BY <1>4, <1>5 DEF WriteLen, Tests
<1>7. script' = From(c, t, h) /\ h \in StepsOf(c, t) /\ TestKind(c, i, s)
  <2>1. PICK m \in Nat : m = WriteLen(c) + ReadLen(c)
    BY TestLens
  <2> QED BY <1>1, <1>2, <2>1, TestKinds DEF Attempting
<1>8. /\ SetIr(c, i, s) \/ PulseUp(c, i, s) \/ PulseDown(c, i, s) \/ SetScratch(c, i, s)
      /\ i <= w
      /\ c.proc = "test_scratch" => i = 3
  BY <1>2, <1>3, <1>5, <1>7, TestWrites
<1>9. t = 1 \/ t = 3
  BY <1>3, <1>5, <1>8 DEF StepsOf
<1>10. s \in Sets
  BY <1>1, <1>2, HeadAndTail, StepKinds DEF Types, HostTypes
\* The last step of a pulse.
<1>11. ASSUME c.proc = "test_ir", h > w
       PROVE  i = w /\ i = 2 * P + 2 /\ s.reg = <<"clk", 1>> /\ s.val[Digits] = 0
  <2>1. i = w /\ i = 2 * P + 2
    BY <1>3, <1>6, <1>8, <1>11
  <2>2. ~SetIr(c, i, s) /\ ~PulseUp(c, i, s) /\ ~SetScratch(c, i, s)
    BY <1>4, <1>11, <2>1 DEF SetIr, PulseUp, SetScratch
  <2>3. s = Clk(0)
    BY <1>8, <2>2 DEF PulseDown
  <2> QED BY <2>1, <2>3, ClkStep
\* A clean step writes what was sent.
<1>12. ASSUME Clean(c, t, i), faults' = faults
       PROVE  /\ Exact(c, i) /\ machine' = WriteRegister(machine, s.reg, nibs)
              /\ \A d \in Places : nibs[d] = s.val[d]
  <2>1. Exact(c, i)
    BY <1>12 DEF Attempting
  <2>2. machine' = WriteRegister(machine, s.reg, nibs)
    BY <1>2, <1>3, <1>12
  <2>3. \A d \in Places : d <= Digits
    BY SizeAssumption DEF Places
  <2> QED BY <1>1, <1>2, <2>1, <2>2, <2>3 DEF Exact, Carried
<1>13. GotRight(c, h)'
  <2>1. got = <<>>
    BY <1>5, <1>8 DEF Attempting, GotRight
  <2>2. PICK g : g = got
    OBVIOUS
  <2>3. ASSUME h > w PROVE Reads(h - (w + 1), Tested(c))'
    <3>1. h - (w + 1) = 0
      BY <1>3, <1>8, <2>3
    <3>2. Len(got') = 0 /\ \A p \in 1 .. 0 : FALSE
      BY <1>2, <2>1
    <3> QED BY <3>1, <3>2 DEF Reads
  <2> QED BY <1>2, <1>5, <2>1, <2>3 DEF GotRight
<1>14. ClockLow(c, t, h)'
  <2> SUFFICES ASSUME faults' = 0, c.proc = "test_ir" => h > w
               PROVE  machine'.clk = 0
    BY <1>5, <1>9 DEF ClockLow
  <2>1. faults = 0 /\ faults' = faults
    BY <1>2, <1>3
  <2>2. CASE c.proc = "test_ir"
    <3>1. Clean(c, t, i)
      BY <1>9, <2>1 DEF Attempting, Clean
    <3>2. nibs[Digits] = 0
      BY <1>11, <1>12, <2>1, <2>2, <3>1, ZeroIsWord
    <3>3. machine' = WriteRegister(machine, <<"clk", 1>>, nibs)
      BY <1>11, <1>12, <2>1, <2>2, <3>1
    <3> QED BY <1>3, <3>2, <3>3, ClockWritten
  <2>3. CASE c.proc = "test_scratch"
    <3>1. machine.clk = 0
      BY <1>6, <2>1, <2>3 DEF Attempting, ClockLow
    <3>2. s.reg = <<"scratch", 1>>
      BY <1>8, <2>3 DEF SetIr, PulseUp, PulseDown, SetScratch, CcSet
    <3>3. machine' = WriteRegister(machine, s.reg, nibs)
      BY <1>2, <1>3, <2>1
    <3> QED BY <1>3, <3>1, <3>2, <3>3 DEF WriteRegister, Machines
  <2> QED BY <1>6, <2>2, <2>3
<1>15. ASSUME Clean(c, t, h)' PROVE Exact(c, h)'
  <2>1. CASE Clean(c, t, i) /\ faults' = faults
    <3>1. Written(c, h)'
      BY <1>2, <1>3, <1>7, <1>10, <1>12, <2>1, TestWritten DEF Exact, Sets
    <3>2. \A q \in 1 .. h - (w + 1) : FALSE
      BY <1>3, <1>8
    <3> QED BY <1>2, <1>5, <3>1, <3>2, NothingSent DEF Exact
  <2>2. CASE t = 1 /\ c.proc = "test_ir" /\ h > w /\ machine'.clk # 0 /\ faults' <= 1
    <3>1. machine'.ir = c.ir
      <4>1. CASE faults' = faults + 1 /\ machine' = machine
        <5>1. Clean(c, t, i)
          BY <1>3, <2>2, <4>1 DEF Clean
        <5>2. Exact(c, i)
          BY <5>1 DEF Attempting
        <5>3. machine.ir = c.ir
          BY <1>4, <1>11, <2>2, <5>2 DEF Exact, Written
        <5> QED BY <4>1, <5>3
      <4>2. CASE faults' = faults /\ machine' = WriteRegister(machine, s.reg, nibs)
        <5>1. machine' = WriteRegister(machine, <<"clk", 1>>, nibs)
          BY <1>11, <2>2, <4>2
        <5>2. nibs[Digits] # 0
          BY <1>3, <2>2, <5>1, ClockWritten
        <5>3. machine.ir = c.ir /\ machine.clk = 14 /\ nibs[Digits] = 14
          <6>1. PulseEnds(c, t, i) /\ faults <= 1 /\ i = WriteLen(c)
            BY <1>5, <1>11, <2>2, <4>2 DEF Attempting
          <6> QED BY <2>2, <5>2, <6>1 DEF PulseEnds
        <5>4. machine'.ir = machine.ir
          BY <1>3, <5>1, <5>3, PulseWritten
        <5> QED BY <5>3, <5>4
      <4> QED BY <1>2, <4>1, <4>2
    <3>2. h = 2 * P + 3
      BY <1>3, <1>11, <2>2
    <3>3. ~(h <= 2 * P + 1) /\ h # 2 * P + 2
      BY <3>2
    <3>4. Written(c, h)'
      BY <1>4, <2>2, <3>1, <3>3 DEF Written
    <3>5. \A q \in 1 .. h - (w + 1) : FALSE
      BY <1>3, <1>8
    <3> QED BY <1>2, <1>5, <3>4, <3>5, NothingSent DEF Exact
  <2>3. CASE t = 1 /\ faults' = 0
    BY <1>2, <1>3, <2>1, <2>3 DEF Clean
  <2>4. CASE t = 3 /\ faults' <= 1
    <3>1. faults >= 1
      BY <2>4 DEF Attempting
    <3> QED BY <1>2, <1>3, <2>1, <2>4, <3>1 DEF Clean
  <2> QED BY <1>5, <1>15, <2>2, <2>3, <2>4 DEF Clean
<1>16. (t # 1 => faults >= 1)'
  BY <1>2, <1>3 DEF Attempting
<1>17. verdict' = "none" /\ PulseEnds(c, t, h)'
  BY <1>2, NothingSent DEF Attempting
<1> QED BY <1>7, <1>13, <1>14, <1>15, <1>16, <1>17 DEF Attempting

\* What a test looks for, and what it has read when all went well.
LEMMA SoughtWords ==
  ASSUME NEW c \in Tests
  PROVE  Sought(c) \in Seq(Word) /\ Len(Sought(c)) = ReadLen(c)
<1>1. PICK P \in Nat \ {0} : P = Parts
  BY SizeAssumption
<1>2. CASE c.proc = "test_ir" /\ c.ir \in Wide
  <2>1. PICK s : s = c.ir
    OBVIOUS
  <2>2. s \in Seq(Word) /\ Len(s) = P
    BY <1>1, <1>2, <2>1 DEF Wide
  <2> QED BY <1>1, <1>2, <2>1, <2>2 DEF Sought, ReadLen
<1>3. CASE c.proc = "test_scratch" /\ c.md \in Wide
  <2>1. c.md[1] \in Word
    BY <1>1, <1>3 DEF Wide
  <2>2. PICK s : s = <<c.md[1]>>
    OBVIOUS
  <2>3. s \in Seq(Word) /\ Len(s) = 1
    BY <2>1, <2>2
  <2> QED BY <1>3, <2>2, <2>3 DEF Sought, ReadLen
<1> QED BY <1>2, <1>3, CallKinds DEF Tests

LEMMA TestReadsSought ==
  ASSUME Types, NEW c \in Tests, NEW i \in Nat, i = WriteLen(c) + ReadLen(c) + 1,
         Exact(c, i), GotRight(c, i)
  PROVE  got = Sought(c)
<1>1. PICK w \in Nat : w = WriteLen(c)
  BY TestLens
<1>2. PICK r \in Nat : r = ReadLen(c)
  BY TestLens
<1>3. w >= 3 /\ r >= 1
  BY <1>1, <1>2, TestLens
<1>4. i - (w + 1) = r /\ i > w /\ i >= 4
  BY <1>1, <1>2, <1>3
<1>5. PICK s : s = Sought(c)
  OBVIOUS
<1>6. s \in Seq(Word) /\ Len(s) = r
  BY <1>2, <1>5, SoughtWords
<1>7. PICK is : is = Tested(c)
  OBVIOUS
<1>8. Len(got) = r /\ \A q \in 1 .. r : got[q] = is[q]
  BY <1>1, <1>4, <1>7 DEF GotRight, Reads, Exact
<1>9. is = s
  <2>1. CASE c.proc = "test_ir"
    <3>1. w = 2 * Parts + 2
      BY <1>1, <2>1 DEF WriteLen
    <3>2. i >= 2 * Parts + 2
      BY <1>4, <3>1
    <3> QED BY <1>5, <1>7, <2>1, <3>2 DEF Exact, Written, Tested, Sought
  <2>2. CASE c.proc = "test_scratch"
    BY <1>4, <1>5, <1>7, <2>2 DEF Exact, Written, Tested, Sought
  <2> QED BY <2>1, <2>2 DEF Tests
<1>10. got \in Seq(Word)
  BY DEF Types, HostTypes
<1>11. PICK g : g = got
  OBVIOUS
<1>12. g = s
  BY <1>6, <1>8, <1>9, <1>10, <1>11, SeqEqual
<1> QED BY <1>5, <1>11, <1>12

\* The words read are printed.
LEMMA TestShow ==
  ASSUME Types, SentRight, NEW c \in Tests, NEW t \in 1 .. 3, NEW i \in StepsOf(c, t),
         Attempting(c, t, i), NEW h \in Nat, h = i + 1, Compare, Doing("show")
  PROVE  h \in StepsOf(c, t) /\ Attempting(c, t, h)'
<1>1. PICK s : s = Head(script)
  OBVIOUS
<1>2. /\ script' = Tail(script) /\ got' = <<>> /\ verdict' = verdict /\ machine' = machine
      /\ sent' = sent /\ faults' = faults
      /\ script # <<>> /\ s.op = "show"
  BY <1>1 DEF Compare, Doing, io
<1>3. sent' = 0
  BY <1>1, <1>2 DEF SentRight, Doing
<1>4. PICK m \in Nat : m = WriteLen(c) + ReadLen(c)
  BY TestLens
<1>5. script' = From(c, t, h) /\ h \in StepsOf(c, t) /\ TestKind(c, i, s)
  BY <1>1, <1>2, <1>4, TestKinds DEF Attempting
<1>6. c.proc = "test_scratch" /\ i = 2
  <2>1. \A r, v : CcSet(r, v).op # "show" /\ CcGet(r).op # "show"
    BY DEF CcSet, CcGet
  <2>2. Clk(14).op # "show" /\ Clk(0).op # "show"
    BY <2>1 DEF Clk
  <2> QED BY <1>2, <1>5, <2>1, <2>2 DEF TestKind, SetIr, PulseUp, PulseDown, GetIr,
                                        GetScratch, ShowScratch, SetScratch
<1>7. h = 3 /\ WriteLen(c) = 3
  BY <1>6 DEF WriteLen
<1>8. GotRight(c, h)'
  BY <1>2, <1>7 DEF GotRight
<1>9. ClockLow(c, t, h)'
  BY <1>2, <1>6 DEF Attempting, ClockLow
<1>10. ASSUME Clean(c, t, h)' PROVE Exact(c, h)'
  <2>1. Written(c, h)'
    BY <1>6, <1>7 DEF Written
  <2>2. \A q \in 1 .. h - (WriteLen(c) + 1) : FALSE
    BY <1>7
  <2> QED BY <1>3, <2>1, <2>2, NothingSent DEF Exact
<1>11. verdict' = "none" /\ PulseEnds(c, t, h)' /\ (t # 1 => faults >= 1)'
  BY <1>2, <1>3, NothingSent DEF Attempting
<1> QED BY <1>5, <1>8, <1>9, <1>10, <1>11 DEF Attempting

\* A test that finds what it wrote has written it, and passes; one that does not
\* had a fault, and tries again.
LEMMA TestTry ==
  ASSUME Types, SentRight, NEW c \in Tests, NEW t \in 1 .. 3, NEW i \in StepsOf(c, t),
         Attempting(c, t, i), Compare, ~Doing("show")
  PROVE  \/ Passed(c)' \/ Failed'
         \/ Attempting(c, 2, WriteLen(c) + 1)' \/ Attempting(c, 3, 1)'
<1>1. PICK s : s = Head(script)
  OBVIOUS
<1>2. PICK w \in Nat : w = WriteLen(c)
  BY TestLens
<1>3. PICK r \in Nat : r = ReadLen(c)
  BY TestLens
<1>4. PICK m \in Nat : m = w + r
  OBVIOUS
<1>5. m = WriteLen(c) + ReadLen(c) /\ w >= 3 /\ r >= 1 /\ i \in Nat
  BY <1>2, <1>3, <1>4, TestLens DEF StepsOf
<1>6. PICK h \in Nat : h = i + 1
  BY <1>5
<1>7. /\ machine' = machine /\ sent' = sent /\ faults' = faults /\ seen' = seen /\ got' = <<>>
      /\ verdict = "none" /\ script = From(c, t, i)
  BY DEF Compare, io, Attempting
<1>8. i > m
  <2>1. ASSUME i <= m PROVE FALSE
    <3>1. script # <<>> /\ TestKind(c, i, s)
      BY <1>1, <1>5, <1>6, <1>7, <2>1, TestStep
    <3>2. s.op \in {"set", "get", "show"}
      <4>1. \A q, v : CcSet(q, v).op = "set" /\ CcGet(q).op = "get"
        BY DEF CcSet, CcGet
      <4>2. Clk(14).op = "set" /\ Clk(0).op = "set" /\ Show.op = "show"
        BY <4>1 DEF Clk, Show
      <4> QED BY <3>1, <4>1, <4>2 DEF TestKind, SetIr, PulseUp, PulseDown, GetIr,
                                      GetScratch, ShowScratch, SetScratch
    <3> QED BY <1>1, <3>2 DEF Compare, Doing
  <2> QED BY <1>5, <2>1
<1>9. /\ i = m + 1 /\ s = Try(Sought(c))
      /\ t = 1 => Tail(script) = From(c, 2, WriteLen(c) + 1)
      /\ t = 2 => Tail(script) = From(c, 3, 1)
      /\ t = 3 => Tail(script) = <<Fail>>
  BY <1>1, <1>5, <1>6, <1>7, <1>8, TestStep
<1>10. s.op = "try" /\ s.want = Sought(c)
  BY <1>9 DEF Try
<1>11. sent' = 0
  BY <1>1, <1>7, <1>10 DEF SentRight, Doing
<1>12. /\ i - (w + 1) = r /\ i > w
       /\ c.proc = "test_ir" => i >= 2 * Parts + 2
  <2>1. c.proc = "test_ir" => w = 2 * Parts + 2
    BY <1>2 DEF WriteLen
  <2> QED BY <1>4, <1>5, <1>9, <2>1
<1>13. faults \in Nat
  BY DEF Types, FaultTypes
<1>14. CASE got = Sought(c)
  <2>1. script' = <<>> /\ verdict' = "ok"
    BY <1>1, <1>10, <1>14 DEF Compare, Doing
  <2>2. PICK is : is = Tested(c)
    OBVIOUS
  <2>3. (Tested(c))' = is
    BY <1>7, <2>2 DEF Tested
  <2>4. \A p \in 1 .. r : is[p] = Sought(c)[p] \/ (Sought(c)[p] = Zero /\ "split" \in seen')
    BY <1>2, <1>7, <1>12, <1>14, <2>2 DEF Attempting, GotRight, Reads
  <2>5. faults' = 0 => machine'.clk = 0
    BY <1>2, <1>7, <1>12 DEF Attempting, ClockLow
  <2> QED BY <1>3, <2>1, <2>3, <2>4, <2>5 DEF Passed
<1>15. CASE got # Sought(c)
  <2>1. script' = Tail(script) /\ verdict' = "none"
    BY <1>1, <1>7, <1>10, <1>15 DEF Compare, Doing
  <2>2. ~Clean(c, t, i)
    BY <1>5, <1>9, <1>15, TestReadsSought DEF Attempting
  <2>3. CASE t = 1
    <3>1. PICK j \in Nat : j = w + 1
      OBVIOUS
    <3>2. script' = From(c, 2, j)
      BY <1>2, <1>9, <2>1, <2>3, <3>1
    <3>3. faults >= 1
      BY <1>13, <2>2, <2>3 DEF Clean
    <3>4. c.proc = "test_ir" /\ faults <= 1 => machine.clk = 0
      BY <1>2, <1>12, <2>2, <2>3 DEF Clean
    <3>5. GotRight(c, j)'
      <4>1. j - (w + 1) = 0 /\ ~(j <= w)
        BY <3>1
      <4>2. Len(got') = 0 /\ \A p \in 1 .. 0 : FALSE
        BY <1>7
      <4> QED BY <1>2, <4>1, <4>2 DEF GotRight, Reads
    <3>6. ClockLow(c, 2, j)'
      BY <1>7, <1>13, <3>3, <3>4 DEF ClockLow
    <3>7. ~Clean(c, 2, j)'
      BY DEF Clean
    <3>8. Attempting(c, 2, j)'
      BY <1>7, <1>11, <2>1, <3>2, <3>3, <3>5, <3>6, <3>7, NothingSent DEF Attempting
    <3> QED BY <1>2, <3>1, <3>8
  <2>4. CASE t = 2
    <3>1. script' = From(c, 3, 1)
      BY <1>9, <2>1, <2>4
    <3>2. faults >= 1 /\ (c.proc = "test_ir" /\ faults <= 1 => machine.clk = 0)
      BY <2>4 DEF Attempting, ClockLow
    <3>3. GotRight(c, 1)'
      BY <1>2, <1>5, <1>7 DEF GotRight
    <3>4. ClockLow(c, 3, 1)'
      BY <1>7, <1>13, <3>2 DEF ClockLow
    <3>5. ASSUME Clean(c, 3, 1)' PROVE Exact(c, 1)'
      <4>1. faults <= 1
        BY <1>7, <3>5 DEF Clean
      <4>2. PICK P \in Nat \ {0} : P = Parts
        BY SizeAssumption
      <4>3. 1 # 2 * P + 2 /\ ~(1 >= 2 * P + 2) /\ \A p \in 1 .. P : ~(p < 1)
        BY <4>2
      <4>4. Written(c, 1)'
        BY <1>7, <3>2, <4>1, <4>2, <4>3 DEF Written
      <4>5. \A q \in 1 .. 1 - (w + 1) : FALSE
        OBVIOUS
      <4> QED BY <1>2, <1>11, <4>4, <4>5, NothingSent DEF Exact
    <3> QED BY <1>7, <1>11, <2>1, <3>1, <3>2, <3>3, <3>4, <3>5, NothingSent DEF Attempting
  <2>5. CASE t = 3
    <3>1. faults >= 2
      BY <1>13, <2>2, <2>5 DEF Clean
    <3> QED BY <1>7, <1>9, <2>1, <2>5, <3>1 DEF Failed
  <2> QED BY <2>3, <2>4, <2>5
<1> QED BY <1>14, <1>15

\* A step of a test.
LEMMA TestProceeds ==
  ASSUME Types, Types', LineRight, SentRight, InStep', seen \subseteq seen',
         faults' = faults \/ faults' = faults + 1, Proceed \/ UNCHANGED vars,
         NEW c \in Tests, NEW t \in 1 .. 3, NEW i \in StepsOf(c, t), Attempting(c, t, i)
  PROVE  \/ Passed(c)' \/ Failed'
         \/ \E u \in 1 .. 3 : \E j \in StepsOf(c, u) : Attempting(c, u, j)'
<1>1. PICK h \in Nat : h = i + 1
  BY TestLens DEF StepsOf
<1>2. PICK m \in Nat : m = WriteLen(c) + ReadLen(c)
  BY TestLens
<1>3. PICK s : s = Head(script)
  OBVIOUS
<1>4. s.op \notin {"try", "fail"} => h \in StepsOf(c, t)
  BY <1>1, <1>2, <1>3, TestKinds DEF Attempting
<1>5. CASE UNCHANGED vars
  <2>1. /\ script' = script /\ got' = got /\ machine' = machine /\ verdict' = verdict
        /\ sent' = sent /\ nibs' = nibs /\ faults' = faults /\ buf' = buf /\ line' = line
    BY <1>5 DEF vars, host, io
  <2>2. PulseEnds(c, t, i)'
    BY <2>1 DEF Attempting, PulseEnds
  <2>3. Written(c, i) /\ Carried => Written(c, i)' /\ Carried'
    <3>1. Written(c, i) => Written(c, i)'
      BY <2>1 DEF Written
    <3>2. PICK a : a = Answer(Head(script).reg)
      OBVIOUS
    <3>3. (Answer(Head(script).reg))' = a
      BY <2>1, <3>2 DEF Answer
    <3>4. Carried => Carried'
      BY <2>1, <3>2, <3>3 DEF Carried, Awaiting, Doing
    <3> QED BY <3>1, <3>4
  <2> QED BY <2>1, <2>2, <2>3, StillAttempting DEF Exact
<1>6. CASE SendSet
  <2>1. CASE sent # Digits
    BY <1>6, <2>1, TestDigit
  <2>2. CASE sent = Digits
    <3>1. h \in StepsOf(c, t)
      BY <1>3, <1>4, <1>6 DEF SendSet, Doing
    <3>2. Attempting(c, t, h)'
      BY <1>1, <1>6, <2>2, TestSet
    <3> QED BY <3>1, <3>2
  <2> QED BY <2>1, <2>2
<1>7. CASE SendGet \/ ReadNothing
  BY <1>7, TestWaits
<1>8. CASE ReadAnswer
  <2>1. /\ Doing("get")
        /\ \/ script' = script /\ got' = got
           \/ script' = Tail(script) /\ got' # got
    BY <1>8, ReadOn
  <2>2. CASE script' = script
    BY <1>8, <2>2, TestWaits
  <2>3. CASE script' = Tail(script) /\ got' # got
    <3>1. h \in StepsOf(c, t)
      BY <1>3, <1>4, <2>1 DEF Doing
    <3>2. Attempting(c, t, h)'
      BY <1>1, <1>8, <2>3, TestGot
    <3> QED BY <3>1, <3>2
  <2> QED BY <2>1, <2>2, <2>3
<1>9. CASE Compare
  <2>1. CASE Doing("show")
    <3>1. h \in StepsOf(c, t) /\ Attempting(c, t, h)'
      BY <1>1, <1>9, <2>1, TestShow
    <3> QED BY <3>1
  <2>2. CASE ~Doing("show")
    <3>1. \/ Passed(c)' \/ Failed'
          \/ Attempting(c, 2, WriteLen(c) + 1)' \/ Attempting(c, 3, 1)'
      BY <1>9, <2>2, TestTry
    <3>2. PICK w \in Nat : w = WriteLen(c)
      BY TestLens
    <3>3. PICK j \in Nat : j = w + 1
      OBVIOUS
    <3>4. j \in StepsOf(c, 2) /\ 1 \in StepsOf(c, 3) /\ j = WriteLen(c) + 1
      BY <3>2, <3>3, TestLens DEF StepsOf
    <3>5. Attempting(c, 2, WriteLen(c) + 1)' => Attempting(c, 2, j)'
      BY <3>4
    <3> QED BY <3>1, <3>4, <3>5
  <2> QED BY <2>1, <2>2
<1> QED BY <1>5, <1>6, <1>7, <1>8, <1>9 DEF Proceed

\* A test that has a verdict keeps it; one that has failed reports it.
LEMMA TestEnds ==
  ASSUME Types, Types', seen \subseteq seen', faults' = faults \/ faults' = faults + 1,
         Proceed \/ UNCHANGED vars, NEW c, Passed(c) \/ Failed
  PROVE  Passed(c)' \/ Failed'
<1>1. faults \in Nat
  BY DEF Types, FaultTypes
<1>2. Head(<<Fail>>).op = "fail" /\ <<Fail>> # <<>>
  BY DEF Fail
<1>3. \A op : Doing(op) => script # <<>> /\ op = Head(script).op
  BY DEF Doing
<1>r. ReadAnswer => Doing("get")
  BY DEF ReadAnswer, ReadChars, Awaiting
<1>4. CASE Passed(c)
  <2>1. script = <<>>
    BY <1>4 DEF Passed
  <2>2. UNCHANGED vars
    BY <1>r, <1>3, <2>1 DEF Proceed, SendSet, SendGet, ReadNothing, Awaiting, Compare
  <2>3. script' = script /\ machine' = machine /\ verdict' = verdict /\ seen' = seen /\ faults' = faults
    BY <2>2 DEF vars, host
  <2>4. Passed(c)'
    BY <1>4, <2>3 DEF Passed, Tested
  <2> QED BY <2>4
<1>5. CASE Failed
  <2>1. CASE UNCHANGED vars
    BY <1>5, <2>1 DEF vars, host, Failed
  <2>2. CASE Proceed
    <3>1. script = <<Fail>> /\ faults >= 2
      BY <1>5, <1>r, <1>3, <2>2 DEF Failed, Proceed, SendSet, SendGet, ReadNothing, Awaiting, Compare
    <3>2. PICK s : s = script
      OBVIOUS
    <3>3. s # <<>> /\ Head(s).op = "fail"
      BY <1>2, <3>1, <3>2
    <3>4. Compare
      BY <1>r, <1>3, <2>2, <3>2, <3>3 DEF Proceed, SendSet, SendGet, ReadNothing, Awaiting
    <3>5. script' = <<>> /\ verdict' = "bad" /\ faults' = faults
      BY <3>2, <3>3, <3>4 DEF Compare, Doing
    <3> QED BY <3>1, <3>5 DEF Failed
  <2> QED BY <2>1, <2>2
<1> QED BY <1>4, <1>5

\* A test begins with the clock low, unless something has gone wrong before.
LEMMA TestStarts ==
  ASSUME Types, SentRight, TestRight, Quiet, Unharmed, StartCall, NEW c \in Tests, call' = c,
         script' = Script(c)
  PROVE  Attempting(c, 1, 1)'
<1>1. /\ script = <<>> /\ got' = <<>> /\ verdict' = "none" /\ sent' = sent
      /\ machine' = [machine EXCEPT !.executed = <<>>]
      /\ faults' = faults
  BY DEF StartCall, io
<1>2. machine'.clk = machine.clk
  BY <1>1 DEF Types, MachineTypes, Machines
<1>3. sent' = 0
  BY <1>1 DEF SentRight, Doing
<1>4. ASSUME faults = 0 PROVE machine.clk = 0
  <2>1. CASE call \notin Tests
    BY <1>1, <1>4, <2>1 DEF Quiet
  <2>2. CASE call \in Tests
    <3>1. InStep
      BY <1>4 DEF Unharmed, InStep
    <3>2. ASSUME NEW t \in 1 .. 3, NEW i \in StepsOf(call, t), Attempting(call, t, i)
          PROVE  FALSE
      <4>1. PICK m \in Nat : m = WriteLen(call) + ReadLen(call)
        BY TestLens
      <4>2. PICK h \in Nat : h = i + 1
        BY TestLens DEF StepsOf
      <4>3. script # <<>>
        BY <2>2, <3>2, <4>1, <4>2, TestStep DEF Attempting
      <4> QED BY <1>1, <4>3
    <3>3. ~Failed
      BY <1>4 DEF Failed
    <3>4. Passed(call)
      BY <2>2, <3>1, <3>2, <3>3 DEF TestRight
    <3> QED BY <1>4, <3>4 DEF Passed
  <2> QED BY <2>1, <2>2
<1>5. script' = From(c, 1, 1)
  <2>1. Script(c) \in Seq(Steps)
    BY ScriptIsSteps DEF Tests
  <2>2. PICK n \in Nat : n = Len(Script(c))
    BY <2>1
  <2>3. Rest(Script(c), 1) = Script(c)
    BY <2>1, <2>2, RestEnds
  <2>4. Start(c, 1) + 1 = 1
    BY DEF Start
  <2> QED BY <2>3, <2>4 DEF From
<1>6. PICK w \in Nat : w = WriteLen(c) /\ w >= 3
  BY TestLens
<1>7. GotRight(c, 1)'
  BY <1>1, <1>6 DEF GotRight
<1>8. ClockLow(c, 1, 1)'
  BY <1>1, <1>2, <1>4 DEF ClockLow
<1>9. ASSUME Clean(c, 1, 1)' PROVE Exact(c, 1)'
  <2>1. machine'.clk = 0
    BY <1>1, <1>2, <1>4, <1>6, <1>9 DEF Clean
  <2>2. PICK P \in Nat \ {0} : P = Parts
    BY SizeAssumption
  <2>3. 1 # 2 * P + 2 /\ ~(1 >= 2 * P + 2) /\ \A p \in 1 .. P : ~(p < 1)
    BY <2>2
  <2>4. Written(c, 1)'
    BY <2>1, <2>2, <2>3 DEF Written
  <2>5. \A q \in 1 .. 1 - (w + 1) : FALSE
    OBVIOUS
  <2> QED BY <1>3, <1>6, <2>4, <2>5, NothingSent DEF Exact
<1> QED BY <1>1, <1>3, <1>5, <1>7, <1>8, <1>9, NothingSent DEF Attempting

LEMMA TestKept ==
  ASSUME Types, LineRight, SentRight, TestRight, Quiet, Unharmed, [Next]_vars
  PROVE  TestRight'
<1>1. /\ Types' /\ seen \subseteq seen'
      /\ faults' = faults \/ faults' = faults + 1
  BY TypesKept, SeenGrows, FaultsGrow
<1> SUFFICES ASSUME call' \in Tests, InStep'
             PROVE  \/ Passed(call)' \/ Failed'
                    \/ (\E t \in 1 .. 3 : \E i \in StepsOf(call, t) : Attempting(call, t, i))'
  BY DEF TestRight
<1>2. PICK c \in Tests : c = call'
  OBVIOUS
<1>3. SUFFICES \/ Passed(c)' \/ Failed'
               \/ \E t \in 1 .. 3 : \E i \in StepsOf(c, t) : Attempting(c, t, i)'
  <2>1. ASSUME NEW d, d = call' PROVE Passed(d)' <=> Passed(call)'
    BY <2>1
  <2>2. ASSUME NEW t, NEW i PROVE Attempting(c, t, i)' <=> Attempting(call, t, i)'
    BY <1>2
  <2>3. ASSUME NEW t PROVE StepsOf(c, t) = StepsOf(call', t)
    BY <1>2
  <2> QED BY <1>2, <1>3, <2>1, <2>2, <2>3
<1>4. CASE StartCall
  <2>1. script' = Script(c)
    BY <1>2, <1>4 DEF StartCall
  <2>2. Attempting(c, 1, 1)'
    BY <1>2, <1>4, <2>1, TestStarts
  <2>3. 1 \in StepsOf(c, 1)
    BY TestLens DEF StepsOf
  <2> QED BY <2>2, <2>3
<1>5. CASE Proceed \/ UNCHANGED vars
  <2>1. call = c
    <3>1. ASSUME NEW k, ReadChars(k) PROVE call' = call
      BY <3>1 DEF ReadChars
    <3> QED BY <1>2, <1>5, <3>1 DEF Proceed, SendSet, SendGet, ReadAnswer, ReadNothing, Compare,
                                    vars, host
  <2>2. InStep
    BY <1>1, InStepBefore
  <2>3. Passed(c) \/ Failed \/ \E t \in 1 .. 3 : \E i \in StepsOf(c, t) : Attempting(c, t, i)
    BY <2>1, <2>2 DEF TestRight
  <2>4. CASE Passed(c) \/ Failed
    BY <1>1, <1>5, <2>4, TestEnds
  <2>5. CASE \E t \in 1 .. 3 : \E i \in StepsOf(c, t) : Attempting(c, t, i)
    <3>1. PICK t \in 1 .. 3 : \E i \in StepsOf(c, t) : Attempting(c, t, i)
      BY <2>5
    <3>2. PICK i \in StepsOf(c, t) : Attempting(c, t, i)
      BY <3>1
    <3> QED BY <1>1, <1>5, <3>2, TestProceeds
  <2> QED BY <2>3, <2>4, <2>5
<1> QED BY <1>4, <1>5 DEF Next

\* The other scripts.
LEMMA PlainScript ==
  ASSUME NEW c \in Executing
  PROVE  Script(c) \in Seq(Plain) /\ Script(c) # <<>>
<1>1. PICK o \in Nat : o = Offset(c)
  BY LengthIsNat
<1>2. PICK n \in Nat : n = Length(c)
  BY LengthIsNat
<1>3. PICK l \in Nat : l = 3 * Parts + 2
  BY SizeAssumption
<1>4. PICK x : x = Script(c)
  OBVIOUS
<1>5. x \in Seq(Steps) /\ Len(x) = n
  <2>1. ScriptHolds(c, Script(c), l, o, n)
    BY <1>1, <1>2, <1>3, ExecutingSteps
  <2> QED BY <1>4, <2>1 DEF ScriptHolds
<1>6. ASSUME NEW k \in 1 .. n PROVE x[k] \in Plain
  <2>1. PICK j \in Int : j = k - o
    OBVIOUS
  <2>2. PICK s : s = x[k]
    OBVIOUS
  <2>3. s \in Steps
    BY <1>5, <2>2, ElementOfSeq
  <2>4. CASE s.op \in {"set", "get"}
    BY <2>2, <2>3, <2>4, StepKinds DEF Plain, Transfers
  <2>5. CASE s.op \notin {"set", "get"}
    <3>1. CompareKind(c, k, j, s)
      BY <1>1, <1>2, <1>4, <2>1, <2>2, <2>5, OtherKinds
    <3>2. \A w, a : Verify(w, a).op = "verify"
      BY DEF Verify
    <3>3. s.op = "verify" \/ s = Show
      BY <3>1, <3>2 DEF CompareKind
    <3> QED BY <2>2, <2>3, <3>3, StepKinds DEF Plain
  <2> QED BY <2>4, <2>5
<1>7. x \in Seq(Plain)
  <2>1. x = [k \in 1 .. n |-> x[k]]
    BY <1>5
  <2>2. x \in [1 .. n -> Plain]
    BY <1>6, <2>1
  <2> QED BY <2>2, SeqDef
<1>8. x # <<>>
  <2>1. n >= o + l + 3
    BY <1>1, <1>2, <1>3, LengthIsNat, SizeAssumption
  <2>2. n # 0
    BY <2>1
  <2> QED BY <1>5, <2>2
<1> QED BY <1>4, <1>7, <1>8

\* How a step changes the script of a call that is no test.
LEMMA PlainStep ==
  ASSUME Proceed, script \in Seq(Plain)
  PROVE  /\ script # <<>> /\ call' = call /\ verdict' = verdict
         /\ \/ script' = script
            \/ script' = Tail(script)
            \/ \E again \in Seq(Transfers) : script' = again \o script
<1>1. script # <<>>
  BY DEF Proceed, SendSet, SendGet, ReadAnswer, ReadChars, ReadNothing, Awaiting, Compare, Doing
<1>2. PICK s : s = Head(script)
  OBVIOUS
<1>3. s \in Plain
  BY <1>1, <1>2, HeadAndTail
<1>4. s.op \notin {"try", "fail"} /\ (s.op = "verify" => s.again \in Seq(Transfers))
  BY <1>3 DEF Plain, Transfers, Sets, Gets, Verifies, Show
<1>5. CASE SendSet
  BY <1>1, <1>5 DEF SendSet
<1>6. CASE SendGet \/ ReadNothing
  BY <1>1, <1>6 DEF SendGet, ReadNothing, host
<1>7. CASE ReadAnswer
  <2>1. PICK k : ReadChars(k)
    BY <1>7 DEF ReadAnswer
  <2> QED BY <1>1, <2>1 DEF ReadChars
<1>8. CASE Compare
  <2>1. call' = call
    BY <1>8 DEF Compare
  <2>2. CASE s.op = "verify" /\ script' = s.again \o script
    <3>1. verdict' = verdict
      BY <1>2, <1>8, <2>2 DEF Compare, Doing
    <3> QED BY <1>1, <1>4, <2>1, <2>2, <3>1
  <2>3. CASE ~(s.op = "verify" /\ script' = s.again \o script)
    BY <1>1, <1>2, <1>4, <1>8, <2>1, <2>3 DEF Compare, Doing
  <2> QED BY <2>2, <2>3
<1> QED BY <1>5, <1>6, <1>7, <1>8 DEF Proceed

LEMMA NoVerdictKept == Types /\ NoVerdict /\ [Next]_vars => NoVerdict'
<1> SUFFICES ASSUME Types, NoVerdict, [Next]_vars PROVE NoVerdict'
  OBVIOUS
<1>1. CASE UNCHANGED vars
  BY <1>1 DEF vars, host, NoVerdict
<1>2. CASE StartCall
  <2>1. PICK c \in Calls : call' = c /\ script' = Script(c) /\ verdict' = "none"
    BY <1>2 DEF StartCall
  <2>2. c \notin Tests => c \in Executing
    BY CallKinds DEF Tests, Executing
  <2> QED BY <2>1, <2>2, PlainScript DEF NoVerdict
<1>3. CASE Proceed
  <2>1. CASE call \in Tests
    <3>1. call' = call
      <4>1. ASSUME NEW k, ReadChars(k) PROVE call' = call
        BY <4>1 DEF ReadChars
      <4> QED BY <1>3, <4>1 DEF Proceed, SendSet, SendGet, ReadAnswer, ReadNothing, Compare, host
    <3> QED BY <2>1, <3>1 DEF NoVerdict, Tests
  <2>2. CASE call \notin Tests
    <3>1. script \in Seq(Plain) /\ verdict = "none"
      BY <2>2 DEF NoVerdict
    <3>2. /\ script # <<>> /\ call' = call /\ verdict' = verdict
          /\ \/ script' = script
             \/ script' = Tail(script)
             \/ \E again \in Seq(Transfers) : script' = again \o script
      BY <1>3, <3>1, PlainStep
    <3>3. script' \in Seq(Plain)
      <4>1. CASE script' = script \/ script' = Tail(script)
        BY <3>1, <3>2, <4>1, HeadAndTail
      <4>2. CASE \E again \in Seq(Transfers) : script' = again \o script
        <5>1. PICK again \in Seq(Transfers) : script' = again \o script
          BY <4>2
        <5>2. again \in Seq(Plain)
          BY SeqMonotonic DEF Plain
        <5> QED BY <3>1, <5>1, <5>2, ConcatProperties
      <4> QED BY <3>2, <4>1, <4>2
    <3>4. call \in Calls
      BY <3>2 DEF NoVerdict
    <3> QED BY <2>2, <3>1, <3>2, <3>3, <3>4 DEF NoVerdict
  <2> QED BY <2>1, <2>2
<1> QED BY <1>1, <1>2, <1>3 DEF Next

LEMMA UnharmedKept == Types /\ Unharmed /\ [Next]_vars => Unharmed'
<1> SUFFICES ASSUME Types, Unharmed, [Next]_vars, faults' = 0 PROVE seen' = {}
  BY DEF Unharmed
<1>1. faults \in Nat
  BY DEF Types, FaultTypes
<1>2. faults' = faults /\ seen' = seen
  BY <1>1, FaultsGrow
<1> QED BY <1>2 DEF Unharmed

\* An instruction has been executed.
LEMMA QuietKept ==
  Types /\ NoVerdict /\ Unharmed /\ ClockRight /\ StepsRight /\ Quiet /\ [Next]_vars => Quiet'
<1> SUFFICES ASSUME Types, NoVerdict, Unharmed, ClockRight, StepsRight, Quiet, [Next]_vars,
                    call' \notin Tests, script' = <<>>, faults' = 0
             PROVE  machine'.clk = 0
  BY DEF Quiet
<1>0. faults = 0 /\ seen = {}
  <2>1. faults \in Nat
    BY DEF Types, FaultTypes
  <2>2. faults' = faults
    BY <2>1, FaultsGrow
  <2> QED BY <2>2 DEF Unharmed
<1>1. CASE UNCHANGED vars
  BY <1>0, <1>1 DEF vars, host, Quiet
<1>2. CASE StartCall
  <2>1. PICK c \in Calls : call' = c /\ script' = Script(c)
    BY <1>2 DEF StartCall
  <2>2. c \in Executing
    BY <2>1, CallKinds DEF Tests, Executing
  <2> QED BY <2>1, <2>2, PlainScript
<1>3. CASE Proceed
  <2>1. call' = call
    <3>1. ASSUME NEW k, ReadChars(k) PROVE call' = call
      BY <3>1 DEF ReadChars
    <3> QED BY <1>3, <3>1 DEF Proceed, SendSet, SendGet, ReadAnswer, ReadNothing, Compare, host
  <2>2. script \in Seq(Plain)
    BY <2>1 DEF NoVerdict
  <2>3. /\ script # <<>>
        /\ \/ script' = Tail(script)
           \/ \E again \in Seq(Transfers) : script' = again \o script
    BY <1>3, <2>2, PlainStep
  <2>4. ASSUME NEW again \in Seq(Transfers), script' = again \o script PROVE FALSE
    <3>1. Len(again \o script) = Len(again) + Len(script)
      BY <2>2, ConcatProperties
    <3>2a. PICK a \in Nat : a = Len(again)
      BY <2>2
    <3>2b. PICK b \in Nat : b = Len(script)
      BY <2>2
    <3>2. a = Len(again) /\ b = Len(script)
      BY <3>2a, <3>2b
    <3>3. b # 0
      BY <2>2, <2>3, <3>2
    <3>4. PICK x : x = script'
      OBVIOUS
    <3>5. Len(x) = a + b /\ x = <<>>
      BY <2>4, <3>1, <3>2, <3>4
    <3>6. a + b = 0
      BY <3>5
    <3> QED BY <3>3, <3>6
  <2>5. script' = Tail(script)
    BY <2>3, <2>4
  <2>6. call \in Executing
    BY <2>1, <2>3, CallKinds DEF NoVerdict, Tests, Executing
  <2>7. PICK n \in Nat : n = Length(call)
    BY LengthIsNat
  <2>8. PICK k \in 1 .. n + 1 : AtStep(k)
    BY <1>0, <2>6, <2>7 DEF StepsRight, Executes, Executing, InStep
  <2>9. PICK h \in Nat : h = k + 1
    OBVIOUS
  <2>10. PICK s : s = Head(script)
    OBVIOUS
  <2>11. k \in 1 .. n /\ s = Script(call)[k] /\ Tail(script) = Rest(Script(call), h)
    BY <2>3, <2>6, <2>7, <2>8, <2>9, <2>10, NextStep
  <2>12. PICK y : y = Script(call)
    OBVIOUS
  <2>13. y \in Seq(Steps) /\ Len(y) = n /\ y[n] = Clk(0)
    <3>1. PICK l \in Nat : l = 3 * Parts + 2
      BY SizeAssumption
    <3>2. PICK o \in Nat : o = Offset(call)
      BY LengthIsNat
    <3>3. ScriptHolds(call, Script(call), l, o, n)
      BY <2>6, <2>7, <3>1, <3>2, ExecutingSteps
    <3> QED BY <2>12, <3>3 DEF ScriptHolds
  <2>14. k = n
    <3>1. PICK x : x = Rest(y, h)
      OBVIOUS
    <3>2. h \in 1 .. n + 1
      BY <2>9, <2>11
    <3>3. Len(x) = n - h + 1
      BY <2>13, <3>1, <3>2, RestItems
    <3>4. x = <<>>
      BY <2>5, <2>11, <2>12, <3>1
    <3>5. n - h + 1 = 0
      BY <3>3, <3>4
    <3> QED BY <2>9, <3>5
  <2>15. s.op = "set" /\ s.reg = <<"clk", 1>> /\ s.val[Digits] = 0
    BY <2>11, <2>12, <2>13, <2>14, ClkStep
  <2>16. SendSet
    <3>1. ReadAnswer => Doing("get")
      BY DEF ReadAnswer, ReadChars, Awaiting
    <3> QED BY <1>3, <2>10, <2>15, <3>1 DEF Proceed, SendGet, ReadNothing, Awaiting, Compare, Doing
  <2>17. sent = Digits
    <3>1. script' # script
      BY <2>3
    <3> QED BY <2>16, <3>1 DEF SendSet
  <2>18. machine' = WriteRegister(machine, s.reg, nibs)
    BY <1>0, <2>10, <2>16, <2>17 DEF SendSet, Fault
  <2>19. nibs[Digits] = 0
    BY <1>0, <2>3, <2>10, <2>15, <2>17 DEF ClockRight, Doing
  <2>20. machine \in Machines /\ nibs \in Word
    BY DEF Types, MachineTypes
  <2> QED BY <2>15, <2>18, <2>19, <2>20, ClockWritten
<1> QED BY <1>1, <1>2, <1>3 DEF Next

-----------------------------------------------------------------------------
\* The tests have told the truth so far.
VerdictsInv == ExecutionInv /\ TestRight /\ NoVerdict /\ Quiet /\ Unharmed

LEMMA VerdictsSoundHolds == VerdictsInv => VerdictsSound
<1> SUFFICES ASSUME VerdictsInv PROVE VerdictsSound
  OBVIOUS
<1>1. ASSUME verdict # "none", InStep PROVE call \in Tests /\ (Passed(call) \/ Failed)
  <2>1. call \in Tests
    BY <1>1 DEF VerdictsInv, NoVerdict
  <2> QED BY <1>1, <2>1 DEF VerdictsInv, TestRight, Attempting
<1>2. ASSUME verdict = "ok", InStep PROVE Passed(call)
  BY <1>1, <1>2 DEF Failed
<1>3. ASSUME verdict = "bad", InStep PROVE faults >= 2
  BY <1>1, <1>3 DEF Passed, Failed
<1>4. ASSUME verdict = "ok", InStep, call.proc = "test_ir" PROVE Agrees(machine.ir, call.ir)
  BY <1>2, <1>4 DEF Passed, Tested, Sought, ReadLen, Agrees
<1>5. ASSUME verdict = "ok", InStep, call.proc = "test_scratch"
      PROVE  machine.scratch = call.md[1] \/ (call.md[1] = Zero /\ "split" \in seen)
  <2>1. Passed(call)
    BY <1>2, <1>5
  <2>2. 1 \in 1 .. ReadLen(call)
    BY <1>5 DEF ReadLen
  <2>3. PICK is, w : is = Tested(call) /\ w = Sought(call)
    OBVIOUS
  <2>4. is[1] = w[1] \/ (w[1] = Zero /\ "split" \in seen)
    BY <2>1, <2>2, <2>3 DEF Passed
  <2>5. is = <<machine.scratch>> /\ w = <<call.md[1]>>
    BY <1>5, <2>3 DEF Tested, Sought
  <2>6. is[1] = machine.scratch /\ w[1] = call.md[1]
    BY <2>5
  <2> QED BY <2>4, <2>6
<1> QED BY <1>3, <1>4, <1>5 DEF VerdictsSound

\* A single character lost, or a single answer divided, never makes a register
\* test report BAD, and a register that it reports as ok holds what was written
\* to it (_test_scratch, _test_ir, cc.c).
THEOREM TestsTellTheTruth == Spec => []VerdictsSound
<1>1. Init => VerdictsInv
  <2> SUFFICES ASSUME Init PROVE VerdictsInv
    OBVIOUS
  <2>1. ExecutionInv
    BY ExecutionAtStart
  <2>2. call \notin Tests /\ call \notin Calls
    <3>1. call.proc = "none"
      BY DEF Init
    <3> QED BY <3>1, CallKinds DEF Tests
  <2>3. TestRight /\ NoVerdict /\ Quiet /\ Unharmed
    BY <2>2 DEF Init, TestRight, NoVerdict, Quiet, Unharmed
  <2> QED BY <2>1, <2>3 DEF VerdictsInv
<1>2. VerdictsInv /\ [Next]_vars => VerdictsInv'
  BY ExecutionKept, TestKept, NoVerdictKept, QuietKept, UnharmedKept
     DEF VerdictsInv, ExecutionInv, AnswersInv
<1> QED BY <1>1, <1>2, VerdictsSoundHolds, PTL DEF Spec

=============================================================================
