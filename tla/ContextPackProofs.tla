-------------------------- MODULE ContextPackProofs --------------------------
(***************************************************************************)
(* Theorems about ContextPack, for every set of memories, every budget,    *)
(* every length of statement and every way to cut one: what the loop of    *)
(* assemble_context selects is within the budgets and says where it was    *)
(* cut short, and a pack holds only what was current and granted.          *)
(*                                                                         *)
(* Rounds and Sums are recursive functions.  That there are such functions,*)
(* and what they have in common at every index, follows from the           *)
(* well-foundedness of Nat, stated for sets of numbers.                    *)
(***************************************************************************)
EXTENDS ContextPack, MemoryLifecycleProofs, FiniteSetTheorems, TLAPS

-----------------------------------------------------------------------------
(* Numbers.                                                                *)

LEMMA NatOrder == IsWellFoundedOn({ss \in Nat \X Nat : ss[1] < ss[2]}, Nat)
  BY NatLessThanWellFounded DEF OpToRel

\* A set of numbers has a least one.
LEMMA NatMin ==
  ASSUME NEW T \in SUBSET Nat, T # {}
  PROVE  \E x \in T : \A y \in T : x <= y
  <1> DEFINE R == {ss \in Nat \X Nat : ss[1] < ss[2]}
  <1>1. \E x \in T : \A y \in T : <<y, x>> \notin R
    <2>1. IsWellFoundedOn(R, Nat)
      BY NatOrder
    <2> HIDE DEF R
    <2>2. QED
      BY <2>1, WFMin
  <1>2. \A x, y \in Nat : <<y, x>> \notin R => x <= y
    OBVIOUS
  <1> HIDE DEF R
  <1>3. QED
    BY <1>1, <1>2

\* Induction: a set that 0 is in, and with a number the next, holds them all.
LEMMA NatInd ==
  ASSUME NEW S, 0 \in S, \A n \in Nat : n \in S => n + 1 \in S
  PROVE  \A n \in Nat : n \in S
  <1> SUFFICES ASSUME Nat \ S # {} PROVE FALSE
    OBVIOUS
  <1>1. PICK x \in Nat \ S : \A y \in Nat \ S : x <= y
    BY NatMin
  <1>2. QED
    BY <1>1

-----------------------------------------------------------------------------
(* Sums.                                                                   *)

\* There is a function Sums defines.
LEMMA SumsDef ==
  ASSUME NEW counts, Len(counts) \in Nat
  PROVE  Sums(counts) = [i \in 0 .. Len(counts) |->
                            IF i = 0 THEN 0 ELSE Sums(counts)[i - 1] + counts[i]]
  <1> DEFINE Upto(n, g) == g = [i \in 0 .. n |-> IF i = 0 THEN 0 ELSE g[i - 1] + counts[i]]
             S == {n \in Nat : \E g : Upto(n, g)}
  <1>1. 0 \in S
    <2> DEFINE g == [i \in 0 .. 0 |-> 0]
    <2>1. Upto(0, g)
      OBVIOUS
    <2>2. QED
      BY <2>1
  <1>2. ASSUME NEW n \in Nat, n \in S
        PROVE  n + 1 \in S
    <2>1. PICK g : Upto(n, g)
      BY <1>2
    <2> DEFINE h == [i \in 0 .. n + 1 |-> IF i = n + 1 THEN g[n] + counts[n + 1] ELSE g[i]]
    <2>2. \A i \in 0 .. n + 1 : h[i] = IF i = 0 THEN 0 ELSE h[i - 1] + counts[i]
      BY <2>1
    <2>3. Upto(n + 1, h)
      BY <2>2
    <2> HIDE DEF h, Upto
    <2>4. n + 1 \in Nat /\ \E f : Upto(n + 1, f)
      BY <2>3
    <2>5. QED
      BY <2>4
  <1> HIDE DEF S
  <1>3. \A n \in Nat : n \in S
    BY <1>1, <1>2, NatInd
  <1>4. \E g : Upto(Len(counts), g)
    BY <1>3 DEF S
  <1>5. QED
    BY <1>4 DEF Sums

LEMMA SumsValue ==
  ASSUME NEW counts, Len(counts) \in Nat
  PROVE  /\ Sums(counts)[0] = 0
         /\ \A i \in 1 .. Len(counts) :
               Sums(counts)[i] = Sums(counts)[i - 1] + counts[i]
  BY SumsDef

\* Sums of numbers are numbers.
LEMMA SumsType ==
  ASSUME NEW counts \in Seq(Nat)
  PROVE  \A i \in 0 .. Len(counts) : Sums(counts)[i] \in Nat
  <1> DEFINE S == {n \in Nat : n \in 0 .. Len(counts) => Sums(counts)[n] \in Nat}
  <1>1. 0 \in S
    BY SumsValue
  <1>2. ASSUME NEW n \in Nat, n \in S
        PROVE  n + 1 \in S
    <2> SUFFICES ASSUME n + 1 \in 0 .. Len(counts)
                 PROVE  Sums(counts)[n + 1] \in Nat
      OBVIOUS
    <2>1. Sums(counts)[n] \in Nat
      BY <1>2
    <2>2. Sums(counts)[n + 1] = Sums(counts)[n] + counts[n + 1]
      BY SumsValue
    <2>3. QED
      BY <2>1, <2>2
  <1> HIDE DEF S
  <1>3. \A n \in Nat : n \in S
    BY <1>1, <1>2, NatInd
  <1>4. QED
    BY <1>3 DEF S

\* Sums depend only on the numbers summed.
LEMMA SumsAgree ==
  ASSUME NEW a, NEW b, Len(a) \in Nat, Len(b) \in Nat, NEW k \in Nat,
         k <= Len(a), k <= Len(b), \A i \in 1 .. k : a[i] = b[i]
  PROVE  \A i \in 0 .. k : Sums(a)[i] = Sums(b)[i]
  <1> DEFINE S == {n \in Nat : n \in 0 .. k => Sums(a)[n] = Sums(b)[n]}
  <1>1. 0 \in S
    BY SumsValue
  <1>2. ASSUME NEW n \in Nat, n \in S
        PROVE  n + 1 \in S
    <2> SUFFICES ASSUME n + 1 \in 0 .. k
                 PROVE  Sums(a)[n + 1] = Sums(b)[n + 1]
      OBVIOUS
    <2>1. /\ Sums(a)[n + 1] = Sums(a)[n] + a[n + 1]
          /\ Sums(b)[n + 1] = Sums(b)[n] + b[n + 1]
      BY SumsValue
    <2>2. Sums(a)[n] = Sums(b)[n] /\ a[n + 1] = b[n + 1]
      BY <1>2
    <2>3. QED
      BY <2>1, <2>2
  <1> HIDE DEF S
  <1>3. \A n \in Nat : n \in S
    BY <1>1, <1>2, NatInd
  <1>4. QED
    BY <1>3 DEF S

\* The total of a sequence with one more number.
LEMMA TotalAppend ==
  ASSUME NEW a \in Seq(Nat), NEW x \in Nat
  PROVE  Total(Append(a, x)) = Total(a) + x
  <1> DEFINE b == Append(a, x)
  <1>1. /\ b \in Seq(Nat)
        /\ Len(b) = Len(a) + 1
        /\ Len(a) \in Nat
        /\ \A i \in 1 .. Len(a) : a[i] = b[i]
        /\ b[Len(a) + 1] = x
    OBVIOUS
  <1> HIDE DEF b
  <1>2. Sums(a)[Len(a)] = Sums(b)[Len(a)]
    <2>1. /\ Len(a) \in Nat /\ Len(b) \in Nat
          /\ Len(a) <= Len(a) /\ Len(a) <= Len(b)
      BY <1>1
    <2>2. \A i \in 0 .. Len(a) : Sums(a)[i] = Sums(b)[i]
      BY <1>1, <2>1, SumsAgree
    <2>3. QED
      BY <1>1, <2>2
  <1>3. Sums(b)[Len(b)] = Sums(b)[Len(a)] + x
    BY <1>1, SumsValue
  <1>4. QED
    BY <1>2, <1>3 DEF Total, b

LEMMA TotalEmpty == Total(<<>>) = 0
  BY SumsValue DEF Total

-----------------------------------------------------------------------------
(* One round of the loop.                                                  *)

\* An excerpt of n tokens holds no more than n, whatever rstrip takes off.
LEMMA CutBound ==
  ASSUME NEW m \in Memories
  PROVE  \A n \in 1 .. Tokens[m] - 1 : Cut[m][n] \in 0 .. n
  <1> DEFINE S == {n \in Nat : n \in 1 .. Tokens[m] - 1 => Cut[m][n] \in 0 .. n}
  <1>1. Tokens[m] \in Nat
    BY ContextAssumption
  <1>2. 0 \in S
    BY <1>1
  <1>3. ASSUME NEW n \in Nat, n \in S
        PROVE  n + 1 \in S
    <2> SUFFICES ASSUME n + 1 \in 1 .. Tokens[m] - 1
                 PROVE  Cut[m][n + 1] \in 0 .. n + 1
      OBVIOUS
    <2>1. Cut[m][n + 1] \in {n + 1, IF n + 1 = 1 THEN 0 ELSE Cut[m][n + 1 - 1]}
      BY ContextAssumption
    <2>2. n + 1 # 1 => Cut[m][n + 1 - 1] \in 0 .. n
      BY <1>1, <1>3
    <2>3. QED
      BY <2>1, <2>2
  <1> HIDE DEF S
  <1>4. \A n \in Nat : n \in S
    BY <1>2, <1>3, NatInd
  <1>5. QED
    BY <1>1, <1>4 DEF S

LEMMA FitsBound ==
  ASSUME NEW m \in Memories, NEW n \in Nat, n > 0
  PROVE  /\ Fits(m, n) \in 0 .. n
         /\ Tokens[m] <= n => Fits(m, n) = Tokens[m]
  <1>1. Tokens[m] \in Nat
    BY ContextAssumption
  <1>2. Tokens[m] > n => n \in 1 .. Tokens[m] - 1
    BY <1>1
  <1>3. QED
    BY <1>1, <1>2, CutBound DEF Fits

\* What a round takes, and the items a selection holds.
Readings == [memory : Memories, version : Versions]
Items    == [memory : Memories, version : Versions, tokens : Nat]

\* The memories of section s among the first i of a ranking.
NamedBy(ranked, i, s) ==
    {m \in Memories : Section[m] = s /\ \E j \in 1 .. i : ranked[j].memory = m}

\* How section s stands after i rounds.
SectionOK(t, ranked, budget, i, s) ==
    /\ t.used[s] = Total(CountsIn(t.selected, s))
    /\ t.used[s] <= budget[s]
    /\ t.truncated[s] <=> Sums(LengthsIn(ranked, s))[i] > budget[s]
    /\ ~t.truncated[s] =>
          /\ t.used[s] = Sums(LengthsIn(ranked, s))[i]
          /\ Named(t.selected, s) = NamedBy(ranked, i, s)
    /\ budget[s] = 0 => Named(t.selected, s) = {}

TakenType(t) ==
    /\ t.selected \in Seq(Items)
    /\ t.used \in [Sections -> Nat]
    /\ t.truncated \in [Sections -> BOOLEAN]

\* The memories a selection holds.
Held(t) == {t.selected[k].memory : k \in DOMAIN t.selected}

\* What the loop has taken after i rounds comes from the ranking, and of the
\* ranking what it has not taken it has excluded.
TakenOK(t, ranked, budget, i) ==
    /\ TakenType(t)
    /\ \A k \in DOMAIN t.selected :
          \E j \in 1 .. i :
             /\ t.selected[k].memory = ranked[j].memory
             /\ t.selected[k].version = ranked[j].version
    /\ \A j \in 1 .. i : ranked[j].memory \in Held(t) \cup t.excluded
    /\ \A s \in Sections : SectionOK(t, ranked, budget, i, s)

\* One more item adds its tokens to its section and to no other.
LEMMA CountsAppend ==
  ASSUME NEW sel \in Seq(Items), NEW item \in Items, NEW s
  PROVE  /\ CountsIn(sel, s) \in Seq(Nat)
         /\ Total(CountsIn(Append(sel, item), s)) =
               Total(CountsIn(sel, s))
                 + (IF Section[item.memory] = s THEN item.tokens ELSE 0)
  <1> DEFINE x == IF Section[item.memory] = s THEN item.tokens ELSE 0
  <1>1. CountsIn(sel, s) \in Seq(Nat)
    <2>1. \A i \in DOMAIN sel : sel[i] \in Items
      OBVIOUS
    <2>2. \A i \in DOMAIN sel : sel[i].tokens \in Nat
      BY <2>1 DEF Items
    <2>3. QED
      BY <2>2 DEF CountsIn
  <1>2. x \in Nat
    BY DEF Items
  <1>3. CountsIn(Append(sel, item), s) = Append(CountsIn(sel, s), x)
    <2> DEFINE a == CountsIn(Append(sel, item), s)
               b == Append(CountsIn(sel, s), x)
    <2>1. /\ DOMAIN a = 1 .. Len(sel) + 1
          /\ \A i \in 1 .. Len(sel) + 1 :
                a[i] = IF Section[Append(sel, item)[i].memory] = s
                       THEN Append(sel, item)[i].tokens ELSE 0
      BY DEF CountsIn
    <2>2. Len(CountsIn(sel, s)) = Len(sel)
      BY DEF CountsIn
    <2>3. /\ DOMAIN b = 1 .. Len(sel) + 1
          /\ b[Len(sel) + 1] = x
          /\ \A i \in 1 .. Len(sel) : b[i] = CountsIn(sel, s)[i]
      BY <1>1, <1>2, <2>2
    <2>4. \A i \in 1 .. Len(sel) : a[i] = b[i]
      BY <2>1, <2>3 DEF CountsIn
    <2>5. a[Len(sel) + 1] = x
      BY <2>1
    <2>6. a \in Seq(Nat) /\ b \in Seq(Nat)
      <3>1. a = [i \in 1 .. Len(sel) + 1 |-> a[i]]
        BY DEF CountsIn
      <3>2. \A i \in 1 .. Len(sel) + 1 : a[i] \in Nat
        BY <1>1, <1>2, <2>3, <2>4, <2>5
      <3>3. QED
        BY <1>1, <1>2, <3>1, <3>2
    <2> HIDE DEF a, b
    <2>7. \A i \in 1 .. Len(sel) + 1 : a[i] = b[i]
      BY <2>3, <2>4, <2>5
    <2>8. a = b
      <3>1. /\ a = [i \in 1 .. Len(sel) + 1 |-> a[i]]
            /\ b = [i \in 1 .. Len(sel) + 1 |-> b[i]]
        BY <2>1, <2>3, <2>6
      <3>2. QED
        BY <2>7, <3>1, Zenon
    <2>9. QED
      BY <2>8 DEF a, b
  <1> HIDE DEF x
  <1>4. QED
    BY <1>1, <1>2, <1>3, TotalAppend DEF x

-----------------------------------------------------------------------------
(* What a round does.                                                      *)

\* A round on reading r takes n tokens and leaves u of what t was.
RoundTakes(t, r, budget, u, n) ==
    LET m == r.memory
        s == Section[m]
        remaining == budget[s] - t.used[s]
    IN  /\ n \in 0 .. remaining
        /\ n = 0 => u.selected = t.selected
        /\ n # 0 => u.selected = Append(t.selected,
                      [memory |-> m, version |-> r.version, tokens |-> n])
        /\ u.excluded = IF n = 0 THEN t.excluded \cup {m} ELSE t.excluded
        /\ u.used = [t.used EXCEPT ![s] = @ + n]
        /\ u.truncated = [t.truncated EXCEPT ![s] = @ \/ Tokens[m] > remaining]
        /\ Tokens[m] <= remaining => n = Tokens[m]

LEMMA TakesParts ==
  ASSUME NEW t, TakenType(t), NEW r \in Readings,
         NEW budget \in [Sections -> Nat],
         t.used[Section[r.memory]] <= budget[Section[r.memory]]
  PROVE  \E n : RoundTakes(t, r, budget, Takes(t, r, budget), n)
  <1> DEFINE m == r.memory
             s0 == Section[m]
             remaining == budget[s0] - t.used[s0]
             n == IF remaining <= 0 THEN 0 ELSE Fits(m, remaining)
             u == Takes(t, r, budget)
  <1>1. /\ m \in Memories /\ s0 \in Sections
        /\ Tokens[m] \in Nat /\ Tokens[m] > 0
    BY ContextAssumption DEF Readings
  <1>2. remaining \in Nat
    BY <1>1 DEF TakenType
  <1>3. n \in 0 .. remaining /\ (Tokens[m] <= remaining => n = Tokens[m])
    <2>1. CASE remaining = 0
      BY <1>1, <2>1
    <2>2. CASE remaining > 0
      <3> HIDE DEF remaining, m
      <3>1. Fits(m, remaining) \in 0 .. remaining
        BY <1>1, <1>2, <2>2, FitsBound
      <3>2. Tokens[m] <= remaining => Fits(m, remaining) = Tokens[m]
        BY <1>1, <1>2, <2>2, FitsBound
      <3>3. QED
        BY <1>2, <2>2, <3>1, <3>2
    <2>3. QED
      BY <1>2, <2>1, <2>2
  <1>4. u = [selected |-> IF n = 0 THEN t.selected
                          ELSE Append(t.selected,
                                 [memory |-> m, version |-> r.version, tokens |-> n]),
             excluded |-> IF n = 0 THEN t.excluded \cup {m} ELSE t.excluded,
             used |-> [t.used EXCEPT ![s0] = @ + n],
             truncated |-> [t.truncated EXCEPT ![s0] = @ \/ Tokens[m] > remaining]]
    BY DEF Takes
  <1>5. /\ n = 0 => u.selected = t.selected
        /\ n # 0 => u.selected = Append(t.selected,
                             [memory |-> m, version |-> r.version, tokens |-> n])
        /\ u.excluded = IF n = 0 THEN t.excluded \cup {m} ELSE t.excluded
        /\ u.used = [t.used EXCEPT ![s0] = @ + n]
        /\ u.truncated = [t.truncated EXCEPT ![s0] = @ \/ Tokens[m] > remaining]
    <2> HIDE DEF n, remaining, u, s0, m
    <2>1. QED
      BY <1>4
  <1> HIDE DEF n, u
  <1>6. RoundTakes(t, r, budget, u, n)
    BY <1>3, <1>5 DEF RoundTakes
  <1>7. QED
    BY <1>6 DEF u

\* A round keeps what is true of those before it.
LEMMA TakesOK ==
  ASSUME NEW ranked \in Seq(Readings), NEW budget \in [Sections -> Nat],
         NEW i \in Nat, i + 1 <= Len(ranked),
         NEW t, TakenOK(t, ranked, budget, i)
  PROVE  TakenOK(Takes(t, ranked[i + 1], budget), ranked, budget, i + 1)
  <1> DEFINE r == ranked[i + 1]
             m == r.memory
             s0 == Section[m]
             u == Takes(t, r, budget)
  <1>1. /\ r \in Readings /\ m \in Memories /\ s0 \in Sections
        /\ r.version \in Versions
        /\ Tokens[m] \in Nat /\ Tokens[m] > 0
    <2>1. r \in Readings
      OBVIOUS
    <2> HIDE DEF r
    <2>2. QED
      BY <2>1, ContextAssumption DEF Readings
  <1>2. TakenType(t) /\ t.used[s0] <= budget[s0]
    BY <1>1 DEF TakenOK, SectionOK
  <1>3. PICK n : RoundTakes(t, r, budget, u, n)
    <2> HIDE DEF r
    <2>1. QED
      BY <1>1, <1>2, TakesParts DEF u
  <1> HIDE DEF r, u
  <1>4. /\ n \in 0 .. budget[s0] - t.used[s0]
        /\ n = 0 => u.selected = t.selected
        /\ n # 0 => u.selected = Append(t.selected,
                       [memory |-> m, version |-> r.version, tokens |-> n])
        /\ u.excluded = IF n = 0 THEN t.excluded \cup {m} ELSE t.excluded
        /\ u.used = [t.used EXCEPT ![s0] = @ + n]
        /\ u.truncated = [t.truncated EXCEPT ![s0] =
                            @ \/ Tokens[m] > budget[s0] - t.used[s0]]
        /\ Tokens[m] <= budget[s0] - t.used[s0] => n = Tokens[m]
    BY <1>3 DEF RoundTakes
  <1> DEFINE item == [memory |-> m, version |-> r.version, tokens |-> n]
  <1>5. n \in Nat /\ t.used[s0] \in Nat /\ budget[s0] \in Nat
    <2>1. t.used[s0] \in Nat /\ budget[s0] \in Nat
      BY <1>1, <1>2 DEF TakenType
    <2>2. QED
      BY <2>1, <1>4
  <1>6. item \in Items
    BY <1>1, <1>5 DEF Items
  <1>7. t.selected \in Seq(Items)
    BY <1>2 DEF TakenType
  <1>8. TakenType(u)
    <2>1. u.selected \in Seq(Items)
      <3> HIDE DEF item
      <3>1. Append(t.selected, item) \in Seq(Items)
        BY <1>6, <1>7
      <3>2. CASE n = 0
        BY <1>4, <1>7, <3>2
      <3>3. CASE n # 0
        <4>1. u.selected = Append(t.selected, item)
          BY <1>4, <3>3 DEF item
        <4>2. QED
          BY <3>1, <4>1
      <3>4. QED
        BY <3>2, <3>3
    <2>2. u.used \in [Sections -> Nat]
      <3>1. /\ t.used \in [Sections -> Nat]
            /\ u.used = [t.used EXCEPT ![s0] = @ + n]
            /\ s0 \in Sections
        BY <1>1, <1>2, <1>4 DEF TakenType
      <3>2. t.used[s0] + n \in Nat
        BY <1>5
      <3> HIDE DEF s0
      <3>3. QED
        BY <3>1, <3>2
    <2>3. u.truncated \in [Sections -> BOOLEAN]
      <3>1. /\ t.truncated \in [Sections -> BOOLEAN]
            /\ u.truncated = [t.truncated EXCEPT ![s0] =
                                @ \/ Tokens[m] > budget[s0] - t.used[s0]]
            /\ s0 \in Sections
        BY <1>1, <1>2, <1>4 DEF TakenType
      <3> HIDE DEF s0, m
      <3>2. QED
        BY <3>1
    <2>4. QED
      BY <2>1, <2>2, <2>3 DEF TakenType
  <1>9. ASSUME NEW k \in DOMAIN u.selected
        PROVE  \E j \in 1 .. i + 1 :
                  /\ u.selected[k].memory = ranked[j].memory
                  /\ u.selected[k].version = ranked[j].version
    <2>1. CASE k \in DOMAIN t.selected /\ u.selected[k] = t.selected[k]
      BY <2>1 DEF TakenOK
    <2>2. CASE u.selected[k] = item
      <3>1. i + 1 \in 1 .. i + 1
        OBVIOUS
      <3>2. QED
        BY <2>2, <3>1 DEF r
    <2>3. \/ k \in DOMAIN t.selected /\ u.selected[k] = t.selected[k]
          \/ u.selected[k] = item
      <3>1. CASE n = 0
        BY <1>4, <3>1
      <3>2. CASE n # 0
        <4> HIDE DEF item
        <4>1. u.selected = Append(t.selected, item)
          BY <1>4, <3>2 DEF item
        <4>2. QED
          BY <1>7, <4>1
      <3>3. QED
        BY <3>1, <3>2
    <2>4. QED
      BY <2>1, <2>2, <2>3
  <1>10. Held(u) = Held(t) \cup (IF n # 0 THEN {m} ELSE {})
    <2>1. CASE n = 0
      BY <1>4, <2>1 DEF Held
    <2>2. CASE n # 0
      <3>1. u.selected = Append(t.selected, item) /\ item.memory = m
        BY <1>4, <2>2
      <3> HIDE DEF item, m, s0
      <3>2. /\ DOMAIN u.selected = 1 .. Len(t.selected) + 1
            /\ \A k \in 1 .. Len(t.selected) : u.selected[k] = t.selected[k]
            /\ u.selected[Len(t.selected) + 1] = item
            /\ DOMAIN t.selected = 1 .. Len(t.selected)
            /\ Len(t.selected) \in Nat
        BY <1>6, <1>7, <3>1
      <3>3. Len(t.selected) + 1 \in DOMAIN u.selected
        BY <3>2
      <3>4. \A k \in DOMAIN u.selected :
               k \in DOMAIN t.selected \/ k = Len(t.selected) + 1
        BY <3>2
      <3>5. \A k \in DOMAIN t.selected : k \in DOMAIN u.selected
        BY <3>2
      <3>6. \A k \in DOMAIN t.selected : u.selected[k] = t.selected[k]
        BY <3>2
      <3>7. u.selected[Len(t.selected) + 1].memory = m
        BY <3>1, <3>2
      <3>8. Held(u) = Held(t) \cup {m}
        BY <3>3, <3>4, <3>5, <3>6, <3>7, Zenon DEF Held
      <3>9. QED
        BY <2>2, <3>8
    <2>3. QED
      BY <2>1, <2>2
  <1>11. ASSUME NEW j \in 1 .. i + 1
         PROVE  ranked[j].memory \in Held(u) \cup u.excluded
    <2>1. CASE j = i + 1
      BY <1>4, <1>10, <2>1 DEF r
    <2>2. CASE j \in 1 .. i
      <3>1. ranked[j].memory \in Held(t) \cup t.excluded
        BY <2>2 DEF TakenOK
      <3>2. Held(t) \subseteq Held(u) /\ t.excluded \subseteq u.excluded
        BY <1>4, <1>10
      <3>3. QED
        BY <3>1, <3>2
    <2>3. QED
      BY <2>1, <2>2
  <1>12. ASSUME NEW s \in Sections
         PROVE  SectionOK(u, ranked, budget, i + 1, s)
    <2> DEFINE L == LengthsIn(ranked, s)
    <2>1. SectionOK(t, ranked, budget, i, s)
      BY DEF TakenOK
    <2>2. /\ Sums(L)[i] \in Nat
          /\ Sums(L)[i + 1] = Sums(L)[i] + (IF s0 = s THEN Tokens[m] ELSE 0)
      <3>1. \A j \in 1 .. Len(ranked) :
               ranked[j].memory \in Memories /\ Tokens[ranked[j].memory] \in Nat
        <4>1. \A j \in 1 .. Len(ranked) : ranked[j] \in Readings
          OBVIOUS
        <4>2. QED
          BY <4>1, ContextAssumption DEF Readings
      <3>2. L \in Seq(Nat) /\ Len(L) = Len(ranked)
        BY <3>1 DEF LengthsIn
      <3>3. L[i + 1] = IF s0 = s THEN Tokens[m] ELSE 0
        BY DEF LengthsIn, r
      <3> HIDE DEF L, m, s0
      <3>4. i \in 0 .. Len(L) /\ i + 1 \in 1 .. Len(L)
        BY <3>2
      <3>5. Sums(L)[i + 1] = Sums(L)[i] + L[i + 1]
        BY <3>2, <3>4, SumsValue
      <3>6. QED
        BY <3>2, <3>3, <3>4, <3>5, SumsType
    <2>3. Total(CountsIn(u.selected, s)) =
            Total(CountsIn(t.selected, s)) + (IF s0 = s THEN n ELSE 0)
      <3>1. /\ CountsIn(t.selected, s) \in Seq(Nat)
            /\ Total(CountsIn(Append(t.selected, item), s)) =
                 Total(CountsIn(t.selected, s))
                   + (IF Section[item.memory] = s THEN item.tokens ELSE 0)
        <4> HIDE DEF item
        <4>1. QED
          BY <1>6, <1>7, CountsAppend
      <3>2. Total(CountsIn(t.selected, s)) \in Nat
        BY <2>1, <1>2 DEF SectionOK, TakenType
      <3>3. CASE n = 0
        BY <1>4, <3>2, <3>3
      <3>4. CASE n # 0
        BY <1>4, <3>1, <3>4
      <3>5. QED
        BY <3>3, <3>4
    <2>4. Named(u.selected, s) =
            Named(t.selected, s) \cup (IF s0 = s /\ n # 0 THEN {m} ELSE {})
      BY <1>1, <1>10 DEF Named, Held
    <2>5. NamedBy(ranked, i + 1, s) =
            NamedBy(ranked, i, s) \cup (IF s0 = s THEN {m} ELSE {})
      <3>1. 1 .. i + 1 = (1 .. i) \cup {i + 1}
        OBVIOUS
      <3>2. QED
        BY <1>1, <3>1 DEF NamedBy, r
    <2>6. CASE s # s0
      <3>1. u.used[s] = t.used[s] /\ u.truncated[s] = t.truncated[s]
        BY <1>2, <1>4, <2>6 DEF TakenType
      <3>2. Total(CountsIn(u.selected, s)) = t.used[s]
        BY <1>2, <2>1, <2>3, <2>6 DEF SectionOK, TakenType
      <3>3. Sums(L)[i + 1] = Sums(L)[i]
        BY <2>2, <2>6
      <3>4. /\ Named(u.selected, s) = Named(t.selected, s)
            /\ NamedBy(ranked, i + 1, s) = NamedBy(ranked, i, s)
        BY <2>4, <2>5, <2>6
      <3> HIDE DEF L
      <3>5. QED
        BY <2>1, <3>1, <3>2, <3>3, <3>4 DEF SectionOK, L
    <2>7. CASE s = s0
      <3>1. /\ u.used[s] = t.used[s] + n
            /\ u.truncated[s] <=>
                 (t.truncated[s] \/ Tokens[m] > budget[s] - t.used[s])
        BY <1>1, <1>2, <1>4, <2>7 DEF TakenType
      <3>2. Total(CountsIn(u.selected, s)) = t.used[s] + n
        BY <2>1, <2>3, <2>7 DEF SectionOK
      <3>3. Sums(L)[i + 1] = Sums(L)[i] + Tokens[m]
        BY <2>2, <2>7
      <3>4. /\ t.used[s] <= budget[s]
            /\ t.truncated[s] <=> Sums(L)[i] > budget[s]
            /\ ~t.truncated[s] => t.used[s] = Sums(L)[i]
            /\ ~t.truncated[s] => Named(t.selected, s) = NamedBy(ranked, i, s)
            /\ budget[s] = 0 => Named(t.selected, s) = {}
        BY <2>1 DEF SectionOK
      <3>5. /\ t.used[s] \in Nat /\ budget[s] \in Nat
            /\ n \in 0 .. budget[s] - t.used[s]
            /\ Tokens[m] <= budget[s] - t.used[s] => n = Tokens[m]
        BY <1>4, <1>5, <2>7
      <3> HIDE DEF L
      <3>6. u.used[s] <= budget[s]
        BY <3>1, <3>5
      <3>7. u.truncated[s] <=> Sums(L)[i + 1] > budget[s]
        BY <1>1, <2>2, <3>1, <3>3, <3>4, <3>5
      <3>8. ~u.truncated[s] => n = Tokens[m] /\ ~t.truncated[s]
        BY <1>1, <3>1, <3>5
      <3>9. ~u.truncated[s] => u.used[s] = Sums(L)[i + 1]
        BY <3>1, <3>3, <3>4, <3>8
      <3>10. ~u.truncated[s] => Named(u.selected, s) = NamedBy(ranked, i + 1, s)
        BY <1>1, <2>4, <2>5, <2>7, <3>4, <3>8
      <3>11. budget[s] = 0 => n = 0
        BY <3>5
      <3>12. budget[s] = 0 => Named(u.selected, s) = {}
        BY <2>4, <3>4, <3>11
      <3>13. QED
        BY <3>1, <3>2, <3>6, <3>7, <3>9, <3>10, <3>12 DEF SectionOK, L
    <2>8. QED
      BY <2>6, <2>7
  <1>13. QED
    BY <1>8, <1>9, <1>11, <1>12 DEF TakenOK, u, r

-----------------------------------------------------------------------------
(* The whole loop.                                                         *)

LEMMA NothingOK ==
  ASSUME NEW ranked \in Seq(Readings), NEW budget \in [Sections -> Nat]
  PROVE  TakenOK(NothingTaken, ranked, budget, 0)
  <1>1. /\ NothingTaken.selected = <<>>
        /\ NothingTaken.used = [s \in Sections |-> 0]
        /\ NothingTaken.truncated = [s \in Sections |-> FALSE]
    BY DEF NothingTaken
  <1>2. TakenType(NothingTaken)
    BY <1>1 DEF TakenType
  <1>3. ASSUME NEW s \in Sections
        PROVE  SectionOK(NothingTaken, ranked, budget, 0, s)
    <2>1. CountsIn(<<>>, s) = <<>>
      BY DEF CountsIn
    <2>2. Sums(LengthsIn(ranked, s))[0] = 0
      <3>1. Len(LengthsIn(ranked, s)) \in Nat
        BY DEF LengthsIn
      <3>2. QED
        BY <3>1, SumsValue
    <2>3. Named(<<>>, s) = {} /\ NamedBy(ranked, 0, s) = {}
      BY DEF Named, NamedBy
    <2>4. budget[s] \in Nat
      OBVIOUS
    <2>5. /\ NothingTaken.used[s] = 0
          /\ ~NothingTaken.truncated[s]
      BY <1>1
    <2>6. /\ NothingTaken.used[s] <= budget[s]
          /\ ~(Sums(LengthsIn(ranked, s))[0] > budget[s])
      BY <2>2, <2>4, <2>5
    <2>7. QED
      BY <1>1, <2>1, <2>2, <2>3, <2>5, <2>6, TotalEmpty, Zenon DEF SectionOK
  <1>4. QED
    BY <1>1, <1>2, <1>3 DEF TakenOK

\* There is a function Rounds defines.
LEMMA RoundsDef ==
  ASSUME NEW ranked, Len(ranked) \in Nat, NEW budget
  PROVE  Rounds(ranked, budget) =
           [i \in 0 .. Len(ranked) |->
              IF i = 0 THEN NothingTaken
              ELSE Takes(Rounds(ranked, budget)[i - 1], ranked[i], budget)]
  <1> DEFINE Upto(n, g) ==
               g = [i \in 0 .. n |-> IF i = 0 THEN NothingTaken
                                     ELSE Takes(g[i - 1], ranked[i], budget)]
             S == {n \in Nat : \E g : Upto(n, g)}
  <1>1. 0 \in S
    <2> DEFINE g == [i \in 0 .. 0 |-> NothingTaken]
    <2>1. Upto(0, g)
      OBVIOUS
    <2>2. QED
      BY <2>1
  <1>2. ASSUME NEW n \in Nat, n \in S
        PROVE  n + 1 \in S
    <2>1. PICK g : Upto(n, g)
      BY <1>2
    <2> DEFINE h == [i \in 0 .. n + 1 |->
                       IF i = n + 1 THEN Takes(g[n], ranked[n + 1], budget) ELSE g[i]]
    <2>2. \A i \in 0 .. n + 1 :
             h[i] = IF i = 0 THEN NothingTaken ELSE Takes(h[i - 1], ranked[i], budget)
      BY <2>1
    <2>3. Upto(n + 1, h)
      BY <2>2
    <2> HIDE DEF h, Upto
    <2>4. n + 1 \in Nat /\ \E f : Upto(n + 1, f)
      BY <2>3
    <2>5. QED
      BY <2>4
  <1> HIDE DEF S
  <1>3. \A n \in Nat : n \in S
    BY <1>1, <1>2, NatInd
  <1>4. \E g : Upto(Len(ranked), g)
    BY <1>3 DEF S
  <1>5. QED
    BY <1>4 DEF Rounds

\* What the loop is about, at its end.
LEMMA SelectionOK ==
  ASSUME NEW ranked \in Seq(Readings), NEW budget \in [Sections -> Nat]
  PROVE  TakenOK(Selection(ranked, budget), ranked, budget, Len(ranked))
  <1> DEFINE R == Rounds(ranked, budget)
             S == {n \in Nat : n <= Len(ranked) => TakenOK(R[n], ranked, budget, n)}
  <1>1. Len(ranked) \in Nat
    OBVIOUS
  <1>2. R = [i \in 0 .. Len(ranked) |->
              IF i = 0 THEN NothingTaken
              ELSE Takes(R[i - 1], ranked[i], budget)]
    BY <1>1, RoundsDef
  <1> HIDE DEF R
  <1>3. 0 \in S
    <2>1. R[0] = NothingTaken
      BY <1>1, <1>2
    <2>2. QED
      BY <2>1, NothingOK
  <1>4. ASSUME NEW n \in Nat, n \in S
        PROVE  n + 1 \in S
    <2> SUFFICES ASSUME n + 1 <= Len(ranked)
                 PROVE  TakenOK(R[n + 1], ranked, budget, n + 1)
      OBVIOUS
    <2>1. TakenOK(R[n], ranked, budget, n)
      BY <1>1, <1>4
    <2>2. R[n + 1] = Takes(R[n], ranked[n + 1], budget)
      BY <1>1, <1>2
    <2>3. TakenOK(Takes(R[n], ranked[n + 1], budget), ranked, budget, n + 1)
      BY <2>1, TakesOK
    <2>4. QED
      BY <2>2, <2>3
  <1> HIDE DEF S
  <1>5. \A n \in Nat : n \in S
    BY <1>3, <1>4, NatInd
  <1>6. TakenOK(R[Len(ranked)], ranked, budget, Len(ranked))
    BY <1>1, <1>5 DEF S
  <1>7. QED
    BY <1>6 DEF R, Selection

-----------------------------------------------------------------------------
(* The inductive invariant.                                                *)

\* A reading is of a record accepted and not due at its time, which whoever
\* has changed it since has given a later version and made stale, replaced or
\* revalidated.
WasRead(r, at) ==
    /\ memory[r.memory].version >= r.version
    /\ memory[r.memory].state \in WasAccepted
    /\ memory[r.memory].version = r.version =>
          memory[r.memory].state = "accepted" /\ memory[r.memory].due > at

Calls ==
    [phase : {"sweep", "record"}, run : Nat, asked : SUBSET Memories,
     budget : Budgets, ranked : Seq(Readings), at : Times]

\* A call has read only what its run's envelope grants.
AssemblyOK ==
    assembly # NULL =>
        /\ assembly \in Calls
        /\ assembly.run \in 1 .. newest
        /\ assembly.asked \subseteq Granted[assembly.run]
        /\ \A i \in DOMAIN assembly.ranked :
              /\ assembly.ranked[i].memory \in assembly.asked
              /\ WasRead(assembly.ranked[i], assembly.at)

\* What a snapshot shows of a reading.
Shows(snapshot, r, at) ==
    LET row == snapshot[r.memory]
    IN  /\ row.version >= r.version
        /\ row.state \in WasAccepted
        /\ row.version = r.version => row.state = "accepted" /\ row.due > at

\* A pack is what the loop makes of such readings.  It never changes, and says
\* nothing of what the records become.
PackOK(p) ==
    LET taken == Selection(p.ranked, Allowance(p.budget))
    IN  /\ p.budget \in Budgets
        /\ p.ranked \in Seq(Readings)
        /\ p.selected = taken.selected
        /\ p.excluded = taken.excluded
        /\ p.used = Restrict(taken.used, DOMAIN p.budget)
        /\ p.truncated = Restrict(taken.truncated, DOMAIN p.budget)
        /\ \A i \in DOMAIN p.ranked :
              /\ p.ranked[i].memory \in Granted[p.run]
              /\ p.ranked[i].version \in Nat
              /\ p.snapshot[p.ranked[i].memory].version \in Nat
              /\ Shows(p.snapshot, p.ranked[i], p.at)

\* Records are made one at a time, so that there are finitely many of them
\* and what is retrieved can be ranked.
ContextInv ==
    /\ MemoryInv
    /\ IsFiniteSet(Existing)
    /\ now \in Times
    /\ newest \in 0 .. Len(Granted)
    /\ AssemblyOK
    /\ \A p \in packs : PackOK(p)

LEMMA ContextInitInv == ContextInit => ContextInv
  <1> SUFFICES ASSUME ContextInit PROVE ContextInv
    OBVIOUS
  <1>1. MemoryInv
    BY InitInv DEF ContextInit
  <1>2. Existing = {}
    BY DEF ContextInit, Init, Existing, NoMemory
  <1>3. IsFiniteSet(Existing)
    BY <1>2, FS_EmptySet
  <1>4. now \in Times /\ newest \in 0 .. Len(Granted)
    BY MemoryAssumption, ContextAssumption DEF ContextInit, Times
  <1>5. QED
    BY <1>1, <1>3, <1>4 DEF ContextInit, ContextInv, AssemblyOK

-----------------------------------------------------------------------------
(* The steps.                                                              *)

\* A step of a caller is one of MemoryLifecycle, or leaves the records alone.
LEMMA ContextStep ==
  ASSUME ContextInv, [ContextNext]_<<vars, contextVars>>
  PROVE  [Next]_vars
  <1>1. ASSUME NEW asked \in SUBSET Memories, NEW budget \in Budgets,
               AssembleStart(asked, budget)
        PROVE  [Next]_vars
    <2>1. UNCHANGED vars \/ SweepStale(Assembler, now)
      BY <1>1 DEF AssembleStart
    <2>2. now \in Times /\ Assembler \in Processes
      BY ContextAssumption DEF ContextInv
    <2>3. QED
      BY <2>1, <2>2 DEF Next, Begin
  <1>2. CASE Others
    BY <1>2 DEF Others, Next
  <1>3. CASE AssembleEnds
    BY <1>3, ContextAssumption DEF AssembleEnds, Next
  <1>4. CASE Retrieve \/ RecordPack \/ NewRun \/ Tick
    BY <1>4 DEF Retrieve, RecordPack, NewRun, Tick
  <1>5. CASE UNCHANGED <<vars, contextVars>>
    BY <1>5
  <1>6. QED
    BY <1>1, <1>2, <1>3, <1>4, <1>5 DEF ContextNext

\* Only a candidate's creation makes a record, and it makes one.
LEMMA ExistingGrows ==
  ASSUME MemoryInv, [Next]_vars
  PROVE  \E m : Existing' \subseteq Existing \cup {m}
  <1>1. memory \in [Memories -> MemoryRows] /\ RecordsInv
    BY DEF MemoryInv, RecordsInv, TablesTyped
  <1>2. ASSUME NEW m \in Memories, NEW c \in Candidates,
               NEW sup \in SUBSET Memories, CreateCandidate(m, c, sup)
        PROVE  Existing' \subseteq Existing \cup {m}
    <2>1. \A n \in Memories : n # m => memory'[n] = memory[n]
      BY <1>1, <1>2 DEF CreateCandidate
    <2>2. QED
      BY <2>1 DEF Existing
  <1>3. ASSUME \A n \in Memories : memory'[n] = memory[n] \/ memory[n].state # "none"
        PROVE  Existing' \subseteq Existing
    BY <1>3 DEF Existing
  <1>4. ASSUME NEW m \in Memories, memory[m].state # "none",
               \A n \in Memories : n # m => memory'[n] = memory[n]
        PROVE  Existing' \subseteq Existing
    BY <1>3, <1>4
  <1>5. ASSUME NEW m \in Memories, Review(m)
        PROVE  Existing' \subseteq Existing
    <2>1. ASSUME NEW d \in {"rejected", "quarantined"}, Decline(m, d)
          PROVE  Existing' \subseteq Existing
      BY <1>1, <1>4, <2>1 DEF Decline
    <2>2. ASSUME NEW k \in Memories, Quarantine(m, k)
          PROVE  Existing' \subseteq Existing
      BY <1>1, <1>4, <2>2 DEF Quarantine
    <2>3. CASE Accept(m)
      <3>1. \A n \in Memories : memory'[n] = memory[n] \/ memory[n].state # "none"
        BY <2>3 DEF Accept, Accepted
      <3>2. QED
        BY <1>3, <3>1
    <2>4. QED
      BY <1>5, <2>1, <2>2, <2>3 DEF Review
  <1>6. ASSUME NEW m \in Memories, memory[m].state = "accepted", Stale(m)
        PROVE  Existing' \subseteq Existing
    BY <1>1, <1>4, <1>6 DEF Stale
  <1>7. ASSUME NEW m \in Memories, Maintain(m)
        PROVE  Existing' \subseteq Existing
    <2>1. CASE MarkStale(m)
      BY <1>6, <2>1 DEF MarkStale
    <2>2. ASSUME NEW o \in Origins, NEW due \in Times, Revalidate(m, o, due)
          PROVE  Existing' \subseteq Existing
      BY <1>1, <1>4, <2>2 DEF Revalidate, Revalidatable
    <2>3. QED
      BY <1>7, <2>1, <2>2 DEF Maintain
  <1>8. ASSUME NEW p \in Processes, Continue(p), memory' # memory
        PROVE  Existing' \subseteq Existing
    <2>1. PICK m \in Memories : SweepOne(p, m) \/ SignalOne(p, m)
      BY <1>8 DEF Continue, SignalReplayed
    <2>2. QED
      BY <1>6, <2>1 DEF SweepOne, SignalOne, AsRead
  <1>9. CASE UNCHANGED memory
    BY <1>3, <1>9
  <1>10. QED
    BY <1>2, <1>5, <1>7, <1>8, <1>9
    DEF Next, Command, Begin, SweepStale, MarkSourceChanged, StartLoop,
        RebuildIndex, Fails, SweepRaises, SignalRaises, Crash, vars

LEMMA ExistingFinite ==
  ASSUME MemoryInv, [Next]_vars, IsFiniteSet(Existing)
  PROVE  IsFiniteSet(Existing')
  <1>1. PICK m : Existing' \subseteq Existing \cup {m}
    BY ExistingGrows
  <1>2. IsFiniteSet(Existing \cup {m})
    BY FS_AddElement
  <1>3. QED
    BY <1>1, <1>2, FS_Subset

\* What was read stays so: a record that has changed has a later version.
LEMMA ReadKept ==
  ASSUME MemoryInv, [Next]_vars, NEW r \in Readings, NEW at, WasRead(r, at)
  PROVE  /\ memory'[r.memory].version >= r.version
         /\ memory'[r.memory].state \in WasAccepted
         /\ memory'[r.memory].version = r.version =>
              memory'[r.memory].state = "accepted" /\ memory'[r.memory].due > at
  <1>1. /\ r.memory \in Memories
        /\ r.version \in Nat
        /\ memory[r.memory].version \in Nat
    BY RowParts
    DEF Readings, Versions, MemoryInv, RecordsInv, TablesTyped
  <1>2. MovesOn(r.memory)
    BY <1>1, StepMoves DEF MemoryInv
  <1>3. \/ memory'[r.memory] = memory[r.memory]
        \/ /\ memory'[r.memory].version = memory[r.memory].version + 1
           /\ memory'[r.memory].state \in WasAccepted
    BY <1>2 DEF MovesOn, Moves, WasRead, WasAccepted
  <1>4. QED
    BY <1>1, <1>3 DEF WasRead

\* A call that the step leaves alone.
LEMMA AssemblyKept ==
  ASSUME ContextInv, [Next]_vars, UNCHANGED assembly, newest' \in Nat,
         newest' >= newest
  PROVE  AssemblyOK'
  <1> SUFFICES ASSUME assembly # NULL PROVE AssemblyOK'
    BY DEF AssemblyOK
  <1>1. /\ AssemblyOK /\ newest \in Nat
    BY DEF ContextInv
  <1>2. ASSUME NEW i \in DOMAIN assembly.ranked
        PROVE  /\ memory'[assembly.ranked[i].memory].version >= assembly.ranked[i].version
               /\ memory'[assembly.ranked[i].memory].state \in WasAccepted
               /\ memory'[assembly.ranked[i].memory].version = assembly.ranked[i].version =>
                    /\ memory'[assembly.ranked[i].memory].state = "accepted"
                    /\ memory'[assembly.ranked[i].memory].due > assembly.at
    <2>1. assembly.ranked[i] \in Readings /\ WasRead(assembly.ranked[i], assembly.at)
      BY <1>1 DEF AssemblyOK, Calls
    <2>2. MemoryInv
      BY DEF ContextInv
    <2>3. QED
      BY <2>1, <2>2, ReadKept
  <1>3. QED
    BY <1>1, <1>2 DEF AssemblyOK, WasRead

LEMMA StartContextInv ==
  ASSUME ContextInv, NEW asked \in SUBSET Memories, NEW budget \in Budgets,
         AssembleStart(asked, budget)
  PROVE  AssemblyOK'
  <1>1. newest \in Nat /\ newest # 0 /\ asked \subseteq Granted[newest]
    BY DEF AssembleStart, ContextInv
  <1>2. /\ assembly' = [phase |-> "sweep", run |-> newest, asked |-> asked,
                        budget |-> budget, ranked |-> <<>>, at |-> now]
        /\ newest' = newest
    BY DEF AssembleStart
  <1>3. assembly' \in Calls
    <2>1. now \in Times /\ <<>> \in Seq(Readings)
      BY DEF ContextInv
    <2>2. QED
      BY <1>1, <1>2, <2>1 DEF Calls
  <1>4. QED
    BY <1>1, <1>2, <1>3 DEF AssemblyOK

\* The ranking of a retrieval is a sequence of current readings.
LEMMA RetrieveInv ==
  ASSUME ContextInv, Retrieve
  PROVE  AssemblyOK'
  <1> DEFINE S == Retrievable(assembly.asked)
  <1>1. /\ assembly # NULL
        /\ UNCHANGED <<memory, newest>>
        /\ AssemblyOK
    BY DEF Retrieve, ContextInv, vars
  <1>2. PICK order \in SetToSeqs(S) :
          assembly' = [assembly EXCEPT !.phase = "record", !.at = now,
                         !.ranked = [i \in DOMAIN order |-> Reading(order[i])]]
    BY DEF Retrieve
  <1> DEFINE ranked == [i \in DOMAIN order |-> Reading(order[i])]
  <1>3. Cardinality(S) \in Nat
    <2>1. S \in SUBSET Existing
      BY DEF Retrievable, Accepted, Existing
    <2>2. IsFiniteSet(Existing)
      BY DEF ContextInv
    <2> HIDE DEF S
    <2>3. IsFiniteSet(S)
      BY <2>1, <2>2, FS_Subset
    <2>4. QED
      BY <2>3, FS_CardinalityType
  <1>4. order \in [1 .. Cardinality(S) -> S]
    BY DEF SetToSeqs
  <1>5. \A m \in S : /\ Reading(m) \in Readings
                    /\ Reading(m).memory = m
                    /\ m \in assembly.asked
                    /\ WasRead(Reading(m), now)
    <2> SUFFICES ASSUME NEW m \in S
                 PROVE  /\ Reading(m) \in Readings
                        /\ Reading(m).memory = m
                        /\ m \in assembly.asked
                        /\ WasRead(Reading(m), now)
      OBVIOUS
    <2>1. /\ m \in Memories /\ m \in assembly.asked
          /\ memory[m].state = "accepted" /\ memory[m].due > now
      BY DEF Retrievable, Accepted
    <2>2. memory[m].version \in Versions /\ memory[m].version \in Nat
      BY <2>1, RowParts
      DEF Versions, ContextInv, MemoryInv, RecordsInv, TablesTyped
    <2>3. QED
      BY <2>1, <2>2 DEF Reading, Readings, WasRead, WasAccepted
  <1> HIDE DEF S
  <1>6. /\ ranked \in Seq(Readings)
        /\ \A i \in DOMAIN ranked :
              /\ ranked[i].memory \in assembly.asked
              /\ WasRead(ranked[i], now)
    <2>1. DOMAIN order = 1 .. Cardinality(S) /\ \A i \in DOMAIN order : order[i] \in S
      BY <1>4
    <2>2. \A i \in 1 .. Cardinality(S) : Reading(order[i]) \in Readings
      BY <1>5, <2>1
    <2>3. ranked \in Seq(Readings)
      BY <1>3, <2>1, <2>2
    <2>4. QED
      BY <1>5, <2>1, <2>3
  <1>7. /\ assembly' \in Calls
        /\ assembly'.run = assembly.run
        /\ assembly'.asked = assembly.asked
        /\ assembly'.ranked = ranked
        /\ assembly'.at = now
    <2>1. assembly \in Calls /\ now \in Times
      BY <1>1 DEF AssemblyOK, ContextInv
    <2> HIDE DEF ranked
    <2>2. assembly' = [assembly EXCEPT !.phase = "record", !.at = now, !.ranked = ranked]
      BY <1>2 DEF ranked
    <2>3. QED
      BY <1>6, <2>1, <2>2 DEF Calls
  <1>8. QED
    BY <1>1, <1>6, <1>7 DEF AssemblyOK, WasRead

\* The recorded pack is the loop's answer on what the call read.
LEMMA RecordInv ==
  ASSUME ContextInv, RecordPack
  PROVE  \A p \in packs' : PackOK(p)
  <1> DEFINE taken == Selection(assembly.ranked, Allowance(assembly.budget))
             named == DOMAIN assembly.budget
             new == [run |-> RunOf, budget |-> assembly.budget,
                     ranked |-> assembly.ranked, at |-> assembly.at,
                     selected |-> taken.selected, excluded |-> taken.excluded,
                     used |-> Restrict(taken.used, named),
                     truncated |-> Restrict(taken.truncated, named),
                     snapshot |-> Projection]
  <1>1. packs' = packs \cup {new} /\ assembly # NULL
    BY DEF RecordPack
  <1>2. /\ assembly \in Calls
        /\ assembly.run \in 1 .. newest
        /\ assembly.asked \subseteq Granted[assembly.run]
        /\ \A i \in DOMAIN assembly.ranked :
              /\ assembly.ranked[i].memory \in assembly.asked
              /\ WasRead(assembly.ranked[i], assembly.at)
    BY <1>1 DEF ContextInv, AssemblyOK
  <1>3. assembly.budget \in Budgets /\ assembly.ranked \in Seq(Readings)
    BY <1>2 DEF Calls
  <1>4. ASSUME NEW i \in DOMAIN assembly.ranked
        PROVE  /\ assembly.ranked[i].version \in Nat
               /\ Projection[assembly.ranked[i].memory].version \in Nat
               /\ Shows(Projection, assembly.ranked[i], assembly.at)
    <2>1. PICK r \in Readings : r = assembly.ranked[i]
      BY <1>3
    <2>2. r.memory \in Memories /\ r.version \in Nat
      BY DEF Readings, Versions
    <2>3. memory[r.memory].version \in Nat
      BY <2>2, RowParts
      DEF Versions, ContextInv, MemoryInv, RecordsInv, TablesTyped
    <2>4. WasRead(r, assembly.at)
      BY <1>2, <2>1
    <2>5. Projection[r.memory] =
            [state |-> memory[r.memory].state, version |-> memory[r.memory].version,
             due |-> memory[r.memory].due]
      BY <2>2 DEF Projection
    <2>6. QED
      BY <2>1, <2>2, <2>3, <2>4, <2>5 DEF WasRead, Shows
  <1>5. PackOK(new)
    <2>1. /\ new.run = assembly.run
          /\ new.budget = assembly.budget
          /\ new.ranked = assembly.ranked
          /\ new.at = assembly.at
          /\ new.selected = taken.selected
          /\ new.excluded = taken.excluded
          /\ new.used = Restrict(taken.used, DOMAIN assembly.budget)
          /\ new.truncated = Restrict(taken.truncated, DOMAIN assembly.budget)
          /\ new.snapshot = Projection
      BY DEF RunOf
    <2>2. \A i \in DOMAIN assembly.ranked :
             assembly.ranked[i].memory \in Granted[assembly.run]
      BY <1>2
    <2> HIDE DEF new
    <2>3. QED
      BY <1>3, <1>4, <2>1, <2>2 DEF PackOK
  <1> HIDE DEF new
  <1>6. QED
    BY <1>1, <1>5 DEF ContextInv

LEMMA ContextStepInv ==
  ASSUME ContextInv, [ContextNext]_<<vars, contextVars>>
  PROVE  ContextInv'
  <1>1. [Next]_vars
    BY ContextStep
  <1>2. MemoryInv' /\ IsFiniteSet(Existing)'
    <2>1. MemoryInv /\ IsFiniteSet(Existing)
      BY DEF ContextInv
    <2>2. QED
      BY <1>1, <2>1, StepInv, ExistingFinite
  <1>3. now' \in Times
    <2>1. Tick \/ UNCHANGED now
      BY DEF ContextNext, Others, AssembleStart, Retrieve, RecordPack, AssembleEnds,
             NewRun, contextVars
    <2>2. now \in Times
      BY DEF ContextInv
    <2>3. QED
      BY <2>1, <2>2, MemoryAssumption DEF Tick, Times
  <1>4. newest' \in 0 .. Len(Granted) /\ newest' >= newest
    <2>1. NewRun \/ UNCHANGED newest
      BY DEF ContextNext, Others, AssembleStart, Retrieve, RecordPack, AssembleEnds,
             Tick, contextVars
    <2>2. newest \in 0 .. Len(Granted) /\ Len(Granted) \in Nat
      BY ContextAssumption DEF ContextInv
    <2>3. QED
      BY <2>1, <2>2 DEF NewRun
  <1>5. AssemblyOK'
    <2>1. ASSUME NEW asked \in SUBSET Memories, NEW budget \in Budgets,
                 AssembleStart(asked, budget)
          PROVE  AssemblyOK'
      BY <2>1, StartContextInv
    <2>2. CASE Retrieve
      BY <2>2, RetrieveInv
    <2>3. CASE RecordPack \/ AssembleEnds
      BY <2>3 DEF RecordPack, AssembleEnds, AssemblyOK
    <2>4. CASE UNCHANGED assembly
      BY <1>1, <1>4, <2>4, AssemblyKept
    <2>5. QED
      BY <2>1, <2>2, <2>3, <2>4 DEF ContextNext, Others, NewRun, Tick, contextVars
  <1>6. \A p \in packs' : PackOK(p)
    <2>1. CASE RecordPack
      BY <2>1, RecordInv
    <2>2. CASE UNCHANGED packs
      BY <2>2 DEF ContextInv
    <2>3. QED
      BY <2>1, <2>2
      DEF ContextNext, Others, AssembleStart, Retrieve, AssembleEnds, NewRun, Tick,
          contextVars
  <1>7. QED
    BY <1>2, <1>3, <1>4, <1>5, <1>6 DEF ContextInv

LEMMA ContextInvHolds == ContextSpec => []ContextInv
  BY ContextInitInv, ContextStepInv, PTL DEF ContextSpec

-----------------------------------------------------------------------------

\* Whoever assembles packs, the records live as MemoryLifecycle says: all that
\* is proved of Spec holds beside any number of callers.
THEOREM CallersKeepRecords == ContextSpec => Spec
  <1>1. ContextInit => Init
    BY DEF ContextInit
  <1>2. ContextInv /\ [ContextNext]_<<vars, contextVars>> => [Next]_vars
    BY ContextStep
  <1>3. QED
    BY <1>1, <1>2, ContextInvHolds, PTL DEF ContextSpec, Spec

\* What the loop selected for a pack.
LEMMA PackTaken ==
  ASSUME ContextInv, NEW p \in packs
  PROVE  \E t :
           /\ p.ranked \in Seq(Readings)
           /\ DOMAIN p.budget \subseteq Sections
           /\ TakenOK(t, p.ranked, Allowance(p.budget), Len(p.ranked))
           /\ p.selected = t.selected
           /\ p.excluded = t.excluded
           /\ \A s \in DOMAIN p.budget :
                 /\ p.used[s] = t.used[s]
                 /\ p.truncated[s] = t.truncated[s]
                 /\ Allowance(p.budget)[s] = p.budget[s]
  <1> DEFINE t == Selection(p.ranked, Allowance(p.budget))
  <1>1. PackOK(p)
    BY DEF ContextInv
  <1>2. /\ p.ranked \in Seq(Readings)
        /\ p.selected = t.selected /\ p.excluded = t.excluded
        /\ p.used = Restrict(t.used, DOMAIN p.budget)
        /\ p.truncated = Restrict(t.truncated, DOMAIN p.budget)
        /\ DOMAIN p.budget \subseteq Sections
        /\ p.budget \in [DOMAIN p.budget -> Nat]
    BY <1>1, ContextAssumption DEF PackOK
  <1>3. Allowance(p.budget) \in [Sections -> Nat]
    BY <1>2 DEF Allowance
  <1>4. TakenOK(t, p.ranked, Allowance(p.budget), Len(p.ranked))
    BY <1>2, <1>3, SelectionOK
  <1>5. \A s \in DOMAIN p.budget : Allowance(p.budget)[s] = p.budget[s]
    BY <1>2 DEF Allowance
  <1> HIDE DEF t
  <1>6. \A s \in DOMAIN p.budget :
           p.used[s] = t.used[s] /\ p.truncated[s] = t.truncated[s]
    BY <1>2 DEF Restrict
  <1>7. QED
    BY <1>2, <1>4, <1>5, <1>6

\* Sections stay within their budgets and count what they hold, however a
\* statement is cut and however the memories rank; one the caller does not
\* name holds nothing.
THEOREM BudgetsKept == ContextSpec => []PacksWithinBudget
  <1>1. ASSUME ContextInv, NEW p \in packs, NEW s \in Sections
        PROVE  /\ TokensOf(p, s) <= Allowance(p.budget)[s]
               /\ s \in DOMAIN p.budget => TokensOf(p, s) = p.used[s]
    BY <1>1, PackTaken DEF TakenOK, SectionOK, TokensOf
  <1>2. ContextInv => PacksWithinBudget
    BY <1>1 DEF PacksWithinBudget
  <1>3. QED
    BY <1>2, ContextInvHolds, PTL

\* Whichever sections a caller gives budgets, what was retrieved is in the pack
\* or in its list of what was excluded; a section with a budget says whether it
\* is truncated, and one without has its memories in that list only.
THEOREM TruncationSaid == ContextSpec => []TruncationIsSaid
  <1>1. ASSUME ContextInv, NEW p \in packs, NEW s \in Sections
        PROVE  /\ s \in DOMAIN p.budget =>
                    /\ p.truncated[s] <=> Demand(p, s) > p.budget[s]
                    /\ ~p.truncated[s] => /\ Named(p.selected, s) = Named(p.ranked, s)
                                          /\ TokensOf(p, s) = Demand(p, s)
               /\ s \notin DOMAIN p.budget =>
                    /\ Named(p.selected, s) = {}
                    /\ Named(p.ranked, s) \subseteq p.excluded
               /\ Named(p.ranked, s) \subseteq Named(p.selected, s) \cup p.excluded
    <2>1. PICK t :
            /\ p.ranked \in Seq(Readings)
            /\ TakenOK(t, p.ranked, Allowance(p.budget), Len(p.ranked))
            /\ p.selected = t.selected
            /\ p.excluded = t.excluded
            /\ \A k \in DOMAIN p.budget :
                  /\ p.truncated[k] = t.truncated[k]
                  /\ Allowance(p.budget)[k] = p.budget[k]
      BY <1>1, PackTaken
    <2>2. SectionOK(t, p.ranked, Allowance(p.budget), Len(p.ranked), s)
      BY <2>1 DEF TakenOK
    <2>3. Demand(p, s) = Sums(LengthsIn(p.ranked, s))[Len(p.ranked)]
      <3>1. Len(LengthsIn(p.ranked, s)) = Len(p.ranked)
        BY <2>1 DEF LengthsIn
      <3>2. QED
        BY <3>1 DEF Demand, Total
    <2>4. DOMAIN p.ranked = 1 .. Len(p.ranked)
      BY <2>1
    <2>5. NamedBy(p.ranked, Len(p.ranked), s) = Named(p.ranked, s)
      BY <2>4 DEF NamedBy, Named
    <2>6. Named(p.ranked, s) \subseteq Named(p.selected, s) \cup p.excluded
      <3>1. \A j \in DOMAIN p.ranked : p.ranked[j].memory \in Held(t) \cup t.excluded
        BY <2>1, <2>4 DEF TakenOK
      <3>2. QED
        BY <2>1, <3>1 DEF Named, Held
    <2>7. s \notin DOMAIN p.budget => Named(p.selected, s) = {}
      <3>1. s \notin DOMAIN p.budget => Allowance(p.budget)[s] = 0
        BY DEF Allowance
      <3>2. QED
        BY <2>1, <2>2, <3>1 DEF SectionOK
    <2>8. QED
      BY <2>1, <2>2, <2>3, <2>5, <2>6, <2>7 DEF SectionOK, TokensOf
  <1>2. ASSUME ContextInv, NEW p \in packs
        PROVE  DOMAIN p.budget \subseteq Sections
    BY <1>2, PackTaken
  <1>3. ContextInv => TruncationIsSaid
    BY <1>1, <1>2 DEF TruncationIsSaid
  <1>4. QED
    BY <1>3, ContextInvHolds, PTL

\* What a pack holds was accepted and not due when it was read, in whatever
\* order sweeps, reviews, clock and call come; and where a record has gone
\* stale or been replaced by the time the pack is recorded, the snapshot of
\* the records in it shows a later version.
THEOREM SelectionCurrent == ContextSpec => []SelectedWereCurrent
  <1>1. ASSUME ContextInv, NEW p \in packs, NEW k \in DOMAIN p.selected
        PROVE  LET item == p.selected[k]
                   row  == p.snapshot[item.memory]
               IN  \/ /\ row.version = item.version
                      /\ row.state = "accepted"
                      /\ row.due > p.at
                   \/ row.version > item.version /\ row.state \in WasAccepted
    <2>1. PICK j \in 1 .. Len(p.ranked) :
            /\ p.selected[k].memory = p.ranked[j].memory
            /\ p.selected[k].version = p.ranked[j].version
      BY <1>1, PackTaken DEF TakenOK
    <2>2. j \in DOMAIN p.ranked
      BY <1>1, PackTaken
    <2>3. /\ p.ranked[j].version \in Nat
          /\ p.snapshot[p.ranked[j].memory].version \in Nat
          /\ Shows(p.snapshot, p.ranked[j], p.at)
      BY <1>1, <2>2 DEF ContextInv, PackOK
    <2>4. QED
      BY <2>1, <2>3 DEF Shows
  <1>2. ContextInv => SelectedWereCurrent
    BY <1>1 DEF SelectedWereCurrent
  <1>3. QED
    BY <1>2, ContextInvHolds, PTL

\* A pack holds only what its run's envelope grants, whatever runs the task
\* gets while the pack is made.
THEOREM GrantKept == ContextSpec => []PacksWithinGrant
  <1>1. ASSUME ContextInv, NEW p \in packs, NEW k \in DOMAIN p.selected
        PROVE  p.selected[k].memory \in Granted[p.run]
    <2>1. PICK j \in DOMAIN p.ranked : p.selected[k].memory = p.ranked[j].memory
      <3>1. PICK j \in 1 .. Len(p.ranked) : p.selected[k].memory = p.ranked[j].memory
        BY <1>1, PackTaken DEF TakenOK
      <3>2. j \in DOMAIN p.ranked
        BY <1>1, PackTaken
      <3>3. QED
        BY <3>1, <3>2
    <2>2. QED
      BY <1>1, <2>1 DEF ContextInv, PackOK
  <1>2. ContextInv => PacksWithinGrant
    BY <1>1 DEF PacksWithinGrant
  <1>3. QED
    BY <1>2, ContextInvHolds, PTL

=============================================================================
