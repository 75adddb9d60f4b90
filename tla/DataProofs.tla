----------------------------- MODULE DataProofs -----------------------------
(***************************************************************************)
(* Proofs about what the program keeps and what it writes: the two stores  *)
(* give the same answers, the results and the corrections fit the endpoint *)
(* and say what was cut, and a summary carries the conversation on.        *)
(***************************************************************************)
EXTENDS Stores, Documents, FiniteSetTheorems, WellFoundedInduction, TLAPS

(* Lists, and lists of sizes *)

\* A nonempty set of naturals has a least member.
LEMMA LeastNumber ==
  ASSUME NEW S \in SUBSET Nat, S # {}
  PROVE  \E x \in S : \A y \in S : x <= y
<1> DEFINE Smaller == {pair \in Nat \X Nat : pair[1] < pair[2]}
<1>1. IsWellFoundedOn(Smaller, Nat)
  BY NatLessThanWellFounded DEF OpToRel
<1>2. PICK x \in S : \A y \in S : <<y, x>> \notin Smaller
  <2> HIDE DEF Smaller
  <2> QED BY <1>1, WFMin
<1>3. ASSUME NEW y \in S, y < x PROVE FALSE
  <2>1. <<y, x>> \in Smaller
    BY <1>3
  <2> QED BY <2>1, <1>2
<1> QED BY <1>3


\* Induction on the prefixes of a list: a set of lengths that holds 0 and goes on up to the whole.
LEMMA EveryPrefix ==
  ASSUME NEW n \in Nat, NEW S, 0 \in S, \A i \in 0..n : i \in S /\ i < n => i + 1 \in S
  PROVE  0..n \subseteq S
<1> DEFINE missed == {i \in 0..n : i \notin S}
<1>1. CASE missed = {}
  BY <1>1
<1>2. CASE missed # {}
  <2>1. missed \in SUBSET Nat
    OBVIOUS
  <2>2. PICK i \in missed : \A j \in missed : i <= j
    <3> HIDE DEF missed
    <3> QED BY <1>2, <2>1, LeastNumber
  <2>3. i \in 0..n /\ i # 0 /\ i - 1 \in 0..n /\ i - 1 < n
    BY <2>2
  <2>4. i - 1 \in S
    BY <2>2, <2>3
  <2>5. (i - 1) + 1 = i
    BY <2>3
  <2> QED BY <2>2, <2>3, <2>4, <2>5
<1> QED BY <1>1, <1>2

LEMMA IsList ==
  ASSUME NEW S, NEW n \in Nat, NEW list \in [1..n -> S]
  PROVE  list \in Seq(S) /\ Len(list) = n
OBVIOUS

\* The sums of the prefixes of a list.
PartialSums(sizes, n, f) ==
  /\ f \in [0..n -> Nat] /\ f[0] = 0
  /\ \A i \in 1..n : f[i] = f[i - 1] + sizes[i]

LEMMA PartialSumsExist ==
  ASSUME NEW sizes \in Seq(Nat)
  PROVE  \E f : PartialSums(sizes, Len(sizes), f)
<1> DEFINE S == {n \in 0..Len(sizes) : \E f : PartialSums(sizes, n, f)}
<1>1. 0 \in S
  <2>1. PartialSums(sizes, 0, [i \in 0..0 |-> 0])
    BY DEF PartialSums
  <2> QED BY <2>1
<1>2. ASSUME NEW n \in 0..Len(sizes), n \in S, n < Len(sizes) PROVE n + 1 \in S
  <2>1. PICK f : PartialSums(sizes, n, f)
    BY <1>2
  <2> DEFINE g == [i \in 0..n + 1 |-> IF i <= n THEN f[i] ELSE f[n] + sizes[n + 1]]
  <2>2. n + 1 \in 1..Len(sizes) /\ sizes[n + 1] \in Nat /\ n \in 0..n
    BY <1>2
  <2>3. g \in [0..n + 1 -> Nat] /\ g[0] = 0
    BY <2>1, <2>2 DEF PartialSums
  <2>4. ASSUME NEW i \in 1..n + 1 PROVE g[i] = g[i - 1] + sizes[i]
    <3>1. i - 1 \in 0..n
      OBVIOUS
    <3>2. CASE i \in 1..n
      BY <3>1, <3>2, <2>1 DEF PartialSums
    <3>3. CASE i = n + 1
      BY <3>1, <3>3, <2>2
    <3> QED BY <3>2, <3>3
  <2>5. PartialSums(sizes, n + 1, g)
    <3> HIDE DEF g
    <3> QED BY <2>3, <2>4 DEF PartialSums
  <2> QED BY <2>2, <2>5
<1>3. Len(sizes) \in Nat /\ Len(sizes) \in 0..Len(sizes)
  OBVIOUS
<1>4. 0..Len(sizes) \subseteq S
  <2> HIDE DEF S
  <2> QED BY <1>1, <1>2, <1>3, EveryPrefix
<1>5. Len(sizes) \in S
  <2> HIDE DEF S
  <2> QED BY <1>3, <1>4
<1> QED BY <1>5

\* The sum of a list is the last of the sums of its prefixes.
LEMMA AddedIs ==
  ASSUME NEW sizes \in Seq(Nat), NEW f, PartialSums(sizes, Len(sizes), f)
  PROVE  Added(sizes) = f[Len(sizes)]
<1> DEFINE n == Len(sizes)
           Step(sum) == [i \in 0..n |-> IF i = 0 THEN 0 ELSE sum[i - 1] + sizes[i]]
           sum == CHOOSE sum : sum = Step(sum)
<1>1. n \in Nat
  OBVIOUS
<1>2. f = Step(f)
  BY DEF PartialSums
<1>3. sum = Step(sum)
  <2> HIDE DEF Step
  <2> QED BY <1>2
<1>4. Added(sizes) = sum[n]
  BY DEF Added
<1> HIDE DEF sum, n
<1> DEFINE S == {i \in 0..n : sum[i] = f[i]}
<1>5. 0 \in S
  BY <1>1, <1>3 DEF PartialSums
<1>6. ASSUME NEW i \in 0..n, i \in S, i < n PROVE i + 1 \in S
  <2>1. i + 1 \in 1..n /\ (i + 1) - 1 = i
    BY <1>1, <1>6
  <2>2. sum[i + 1] = sum[i] + sizes[i + 1]
    BY <1>3, <2>1
  <2>3. f[i + 1] = f[i] + sizes[i + 1]
    BY <2>1 DEF PartialSums, n
  <2> QED BY <1>6, <2>1, <2>2, <2>3
<1>7. 0..n \subseteq S
  <2> HIDE DEF S
  <2> QED BY <1>1, <1>5, <1>6, EveryPrefix
<1> QED BY <1>1, <1>4, <1>7 DEF n

LEMMA AddedType ==
  ASSUME NEW sizes \in Seq(Nat)
  PROVE  Added(sizes) \in Nat
<1>1. PICK f : PartialSums(sizes, Len(sizes), f)
  BY PartialSumsExist
<1>2. Len(sizes) \in 0..Len(sizes)
  OBVIOUS
<1> QED BY <1>1, <1>2, AddedIs DEF PartialSums

LEMMA AddedEmpty == Added(<<>>) = 0
<1>1. PartialSums(<<>>, 0, [i \in 0..0 |-> 0])
  BY DEF PartialSums
<1>2. <<>> \in Seq(Nat) /\ Len(<<>>) = 0
  OBVIOUS
<1> QED BY <1>1, <1>2, AddedIs

\* A list with one more size.
LEMMA AddedAppend ==
  ASSUME NEW sizes \in Seq(Nat), NEW size \in Nat
  PROVE  Added(Append(sizes, size)) = Added(sizes) + size
<1> DEFINE n == Len(sizes)
           longer == Append(sizes, size)
<1>1. /\ n \in Nat /\ longer \in Seq(Nat) /\ Len(longer) = n + 1
      /\ \A i \in 1..n : longer[i] = sizes[i]
      /\ longer[n + 1] = size
  OBVIOUS
<1>2. PICK f : PartialSums(longer, n + 1, f)
  <2> HIDE DEF longer
  <2> QED BY <1>1, PartialSumsExist
<1> DEFINE g == [i \in 0..n |-> f[i]]
<1> HIDE DEF longer
<1>3. PartialSums(sizes, n, g)
  <2>1. g \in [0..n -> Nat] /\ g[0] = 0
    BY <1>1, <1>2 DEF PartialSums
  <2>2. ASSUME NEW i \in 1..n PROVE g[i] = g[i - 1] + sizes[i]
    BY <1>1, <1>2 DEF PartialSums
  <2> HIDE DEF g
  <2> QED BY <2>1, <2>2 DEF PartialSums
<1>4. Added(sizes) = f[n]
  BY <1>1, <1>3, AddedIs
<1>5. Added(longer) = f[n + 1]
  BY <1>1, <1>2, AddedIs
<1>6. f[n + 1] = f[n] + size
  <2>1. \A i \in 1..n + 1 : f[i] = f[i - 1] + longer[i]
    BY <1>2 DEF PartialSums
  <2> HIDE DEF n
  <2>2. n + 1 \in 1..n + 1 /\ (n + 1) - 1 = n
    BY <1>1
  <2> QED BY <1>1, <2>1, <2>2
<1>7. Added(longer) = Added(sizes) + size
  <2> HIDE DEF n
  <2> QED BY <1>4, <1>5, <1>6
<1> QED BY <1>7 DEF longer

\* A list of one size.
LEMMA AddedOne ==
  ASSUME NEW size \in Nat
  PROVE  Added(<<size>>) = size
<1>1. <<size>> = Append(<<>>, size) /\ <<>> \in Seq(Nat)
  OBVIOUS
<1>2. Added(Append(<<>>, size)) = Added(<<>>) + size
  BY <1>1, AddedAppend
<1>3. Added(<<size>>) = Added(<<>>) + size
  BY <1>1, <1>2
<1> QED BY <1>3, AddedEmpty

\* What is kept of each prefix of a list.
Picks(list, wanted, n, g) ==
  /\ g = [i \in 0..n |-> g[i]] /\ g[0] = <<>>
  /\ \A i \in 1..n : g[i] = IF list[i] \in wanted THEN Append(g[i - 1], list[i]) ELSE g[i - 1]

LEMMA PicksExist ==
  ASSUME NEW S, NEW list \in Seq(S), NEW wanted
  PROVE  \E g : Picks(list, wanted, Len(list), g)
<1> DEFINE L == {n \in 0..Len(list) : \E g : Picks(list, wanted, n, g)}
<1>1. 0 \in L
  <2>1. Picks(list, wanted, 0, [i \in 0..0 |-> <<>>])
    BY DEF Picks
  <2> QED BY <2>1
<1>2. ASSUME NEW n \in 0..Len(list), n \in L, n < Len(list) PROVE n + 1 \in L
  <2>1. PICK g : Picks(list, wanted, n, g)
    BY <1>2
  <2> DEFINE last == IF list[n + 1] \in wanted THEN Append(g[n], list[n + 1]) ELSE g[n]
             h == [i \in 0..n + 1 |-> IF i <= n THEN g[i] ELSE last]
  <2>2. n + 1 \in 0..Len(list)
    BY <1>2
  <2>3. h = [i \in 0..n + 1 |-> h[i]] /\ h[0] = <<>>
    BY <2>1 DEF Picks
  <2>4. ASSUME NEW i \in 1..n + 1
        PROVE  h[i] = IF list[i] \in wanted THEN Append(h[i - 1], list[i]) ELSE h[i - 1]
    <3>1. i - 1 \in 0..n /\ h[i - 1] = g[i - 1]
      OBVIOUS
    <3>2. CASE i \in 1..n
      <4>1. h[i] = g[i]
        BY <3>2
      <4> QED BY <3>1, <3>2, <4>1, <2>1 DEF Picks
    <3>3. CASE i = n + 1
      <4>1. h[i] = last /\ h[i - 1] = g[n]
        BY <3>1, <3>3
      <4> QED BY <3>3, <4>1
    <3> QED BY <3>2, <3>3
  <2>5. Picks(list, wanted, n + 1, h)
    <3> HIDE DEF h
    <3> QED BY <2>3, <2>4 DEF Picks
  <2> QED BY <2>2, <2>5
<1>3. Len(list) \in Nat /\ Len(list) \in 0..Len(list)
  OBVIOUS
<1>4. 0..Len(list) \subseteq L
  <2> HIDE DEF L
  <2> QED BY <1>1, <1>2, <1>3, EveryPrefix
<1>5. Len(list) \in L
  <2> HIDE DEF L
  <2> QED BY <1>3, <1>4
<1> QED BY <1>5

\* What is selected of a list is what is kept of its longest prefix.
LEMMA SelectedIs ==
  ASSUME NEW S, NEW list \in Seq(S), NEW wanted, NEW g, Picks(list, wanted, Len(list), g)
  PROVE  Selected(list, wanted) = g[Len(list)]
<1> DEFINE n == Len(list)
           Step(picked) == [i \in 0..n |->
                              IF i = 0 THEN <<>>
                              ELSE IF list[i] \in wanted THEN Append(picked[i - 1], list[i])
                                   ELSE picked[i - 1]]
           picked == CHOOSE picked : picked = Step(picked)
<1>1. n \in Nat
  OBVIOUS
<1>2. g = Step(g)
  <2>1. ASSUME NEW i \in 0..n PROVE g[i] = Step(g)[i]
    <3>1. CASE i = 0
      BY <3>1 DEF Picks
    <3>2. CASE i # 0
      <4>1. i \in 1..n /\ i > 0
        BY <3>2
      <4>2. g[i] = IF list[i] \in wanted THEN Append(g[i - 1], list[i]) ELSE g[i - 1]
        BY <4>1 DEF Picks
      <4> QED BY <4>1, <4>2
    <3> QED BY <3>1, <3>2
  <2>2. g = [i \in 0..n |-> g[i]]
    BY DEF Picks
  <2>3. Step(g) = [i \in 0..n |-> Step(g)[i]]
    OBVIOUS
  <2> HIDE DEF Step
  <2> QED BY <2>1, <2>2, <2>3
<1>3. picked = Step(picked)
  <2> HIDE DEF Step
  <2> QED BY <1>2
<1>4. Selected(list, wanted) = picked[n]
  BY DEF Selected
<1> HIDE DEF picked, n
<1> DEFINE L == {i \in 0..n : picked[i] = g[i]}
<1>5. 0 \in L
  BY <1>1, <1>3 DEF Picks
<1>6. ASSUME NEW i \in 0..n, i \in L, i < n PROVE i + 1 \in L
  <2>1. i + 1 \in 1..n /\ i + 1 > 0 /\ (i + 1) - 1 = i
    BY <1>1, <1>6
  <2>2. picked[i + 1] = IF list[i + 1] \in wanted THEN Append(picked[i], list[i + 1]) ELSE picked[i]
    <3>1. i + 1 \in 0..n /\ i + 1 # 0
      BY <1>1, <2>1
    <3>2. \A j \in 0..n : j # 0 => Step(picked)[j] = IF list[j] \in wanted
                                                    THEN Append(picked[j - 1], list[j])
                                                    ELSE picked[j - 1]
      OBVIOUS
    <3>3. Step(picked)[i + 1] = IF list[i + 1] \in wanted THEN Append(picked[(i + 1) - 1], list[i + 1])
                                ELSE picked[(i + 1) - 1]
      <4> HIDE DEF Step
      <4> QED BY <3>1, <3>2
    <3> HIDE DEF Step
    <3> QED BY <1>3, <2>1, <3>3
  <2>3. g[i + 1] = IF list[i + 1] \in wanted THEN Append(g[i], list[i + 1]) ELSE g[i]
    BY <2>1 DEF Picks, n
  <2> QED BY <1>6, <2>1, <2>2, <2>3
<1>7. 0..n \subseteq L
  <2> HIDE DEF L
  <2> QED BY <1>1, <1>5, <1>6, EveryPrefix
<1> QED BY <1>1, <1>4, <1>7 DEF n

\* What is kept of a prefix: its members that are wanted and no other.
PicksWanted(list, wanted, n, kept) ==
  /\ kept \in Seq(wanted)
  /\ \A k \in DOMAIN kept : \E i \in 1..n : kept[k] = list[i]
  /\ \A i \in 1..n : list[i] \in wanted => \E k \in DOMAIN kept : kept[k] = list[i]

LEMMA PicksAreWanted ==
  ASSUME NEW S, NEW list \in Seq(S), NEW wanted, NEW g, Picks(list, wanted, Len(list), g)
  PROVE  \A n \in 0..Len(list) : PicksWanted(list, wanted, n, g[n])
<1>2. Len(list) \in Nat /\ Len(list) \in 0..Len(list)
  OBVIOUS
<1> DEFINE L == {n \in 0..Len(list) : PicksWanted(list, wanted, n, g[n])}
<1>3. 0 \in L
  <2>1. g[0] = <<>> /\ <<>> \in Seq(wanted) /\ DOMAIN <<>> = {} /\ 1..0 = {}
    BY DEF Picks
  <2>2. PicksWanted(list, wanted, 0, g[0])
    BY <2>1 DEF PicksWanted
  <2> QED BY <1>2, <2>2
<1>4. ASSUME NEW n \in 0..Len(list), n \in L, n < Len(list) PROVE n + 1 \in L
  <2> DEFINE x == list[n + 1]
             kept == g[n]
  <2>1. /\ n + 1 \in 1..Len(list) /\ n \in Nat /\ (n + 1) - 1 = n
        /\ \A i \in 1..n + 1 : i \in 1..n \/ i = n + 1
        /\ \A i \in 1..n : i \in 1..n + 1
        /\ n + 1 \in 1..n + 1
    BY <1>2, <1>4
  <2>2. /\ kept \in Seq(wanted)
        /\ \A k \in DOMAIN kept : \E i \in 1..n : kept[k] = list[i]
        /\ \A i \in 1..n : list[i] \in wanted => \E k \in DOMAIN kept : kept[k] = list[i]
    BY <1>4 DEF PicksWanted
  <2>3. g[n + 1] = IF x \in wanted THEN Append(kept, x) ELSE kept
    BY <2>1 DEF Picks
  <2>6. n + 1 \in 0..Len(list)
    BY <2>1
  <2>4. CASE x \in wanted
    <3> DEFINE more == Append(kept, x)
    <3>1. /\ more \in Seq(wanted) /\ Len(kept) \in Nat /\ DOMAIN kept = 1..Len(kept)
          /\ DOMAIN more = 1..Len(kept) + 1
          /\ \A k \in 1..Len(kept) : more[k] = kept[k]
          /\ more[Len(kept) + 1] = x
      BY <2>2, <2>4
    <3> HIDE DEF more, kept
    <3>2. \A k \in DOMAIN more : \E i \in 1..n + 1 : more[k] = list[i]
      <4> SUFFICES ASSUME NEW k \in DOMAIN more PROVE \E i \in 1..n + 1 : more[k] = list[i]
        OBVIOUS
      <4>1. CASE k \in 1..Len(kept)
        BY <4>1, <2>1, <2>2, <3>1
      <4>2. CASE k = Len(kept) + 1
        BY <4>2, <2>1, <3>1
      <4> QED BY <3>1, <4>1, <4>2
    <3>3. \A i \in 1..n + 1 : list[i] \in wanted => \E k \in DOMAIN more : more[k] = list[i]
      <4> SUFFICES ASSUME NEW i \in 1..n + 1, list[i] \in wanted
                   PROVE  \E k \in DOMAIN more : more[k] = list[i]
        OBVIOUS
      <4>1. CASE i \in 1..n
        <5>1. PICK k \in DOMAIN kept : kept[k] = list[i]
          BY <4>1, <2>2
        <5>2. k \in DOMAIN more /\ more[k] = list[i]
          BY <5>1, <3>1
        <5> QED BY <5>2
      <4>2. CASE i = n + 1
        <5>1. Len(kept) + 1 \in DOMAIN more
          BY <3>1
        <5> QED BY <4>2, <5>1, <3>1
      <4> QED BY <2>1, <4>1, <4>2
    <3>4. g[n + 1] = more
      BY <2>3, <2>4 DEF more
    <3>5. PicksWanted(list, wanted, n + 1, more)
      BY <3>1, <3>2, <3>3 DEF PicksWanted
    <3> QED BY <2>6, <3>4, <3>5
  <2>5. CASE x \notin wanted
    <3>1. g[n + 1] = kept
      BY <2>3, <2>5
    <3> HIDE DEF kept
    <3>2. \A k \in DOMAIN kept : \E i \in 1..n + 1 : kept[k] = list[i]
      BY <2>1, <2>2
    <3>3. \A i \in 1..n + 1 : list[i] \in wanted => i \in 1..n
      BY <2>1, <2>5
    <3>4. PicksWanted(list, wanted, n + 1, kept)
      BY <2>2, <3>2, <3>3 DEF PicksWanted
    <3> QED BY <2>6, <3>1, <3>4
  <2> QED BY <2>4, <2>5
<1>5. 0..Len(list) \subseteq L
  <2> HIDE DEF L
  <2> QED BY <1>2, <1>3, <1>4, EveryPrefix
<1> QED BY <1>5

LEMMA SelectedWanted ==
  ASSUME NEW S, NEW list \in Seq(S), NEW wanted
  PROVE  PicksWanted(list, wanted, Len(list), Selected(list, wanted))
<1>1. PICK g : Picks(list, wanted, Len(list), g)
  BY PicksExist
<1>2. Len(list) \in 0..Len(list)
  OBVIOUS
<1> QED BY <1>1, <1>2, PicksAreWanted, SelectedIs

\* What is selected of an ascending list is ascending.
Ascending(list) == \A i, j \in DOMAIN list : i < j => list[i] < list[j]

LEMMA SelectedAscending ==
  ASSUME NEW list \in Seq(Nat), NEW wanted, Ascending(list)
  PROVE  Ascending(Selected(list, wanted))
<1>1. PICK g : Picks(list, wanted, Len(list), g)
  BY PicksExist
<1>2. Len(list) \in Nat /\ Len(list) \in 0..Len(list) /\ DOMAIN list = 1..Len(list)
  OBVIOUS
<1>3. \A n \in 0..Len(list) : PicksWanted(list, wanted, n, g[n])
  BY <1>1, PicksAreWanted
<1> DEFINE L == {n \in 0..Len(list) : Ascending(g[n])}
<1>4. 0 \in L
  <2>1. g[0] = <<>> /\ DOMAIN <<>> = {}
    BY <1>1 DEF Picks
  <2> QED BY <1>2, <2>1 DEF Ascending
<1>5. ASSUME NEW n \in 0..Len(list), n \in L, n < Len(list) PROVE n + 1 \in L
  <2> DEFINE x == list[n + 1]
             kept == g[n]
  <2>1. n + 1 \in 1..Len(list) /\ n + 1 \in 0..Len(list) /\ n \in Nat /\ (n + 1) - 1 = n
    BY <1>2, <1>5
  <2>2. g[n + 1] = IF x \in wanted THEN Append(kept, x) ELSE kept
    BY <1>1, <2>1 DEF Picks
  <2>3. CASE x \in wanted
    <3> DEFINE more == Append(kept, x)
    <3>1. kept \in Seq(wanted) /\ \A k \in DOMAIN kept : \E i \in 1..n : kept[k] = list[i]
      BY <1>3 DEF PicksWanted
    <3> HIDE DEF kept
    <3>2. /\ Len(kept) \in Nat /\ DOMAIN kept = 1..Len(kept)
          /\ DOMAIN more = 1..Len(kept) + 1
          /\ \A k \in 1..Len(kept) : more[k] = kept[k]
          /\ more[Len(kept) + 1] = x
      BY <2>3, <3>1
    <3>3. \A k \in DOMAIN kept : kept[k] < x
      <4> SUFFICES ASSUME NEW k \in DOMAIN kept PROVE kept[k] < x
        OBVIOUS
      <4>1. PICK i \in 1..n : kept[k] = list[i]
        BY <3>1
      <4>2. i \in DOMAIN list /\ n + 1 \in DOMAIN list /\ i < n + 1
        BY <1>2, <2>1
      <4> QED BY <4>1, <4>2 DEF Ascending
    <3>4. \A i, j \in DOMAIN kept : i < j => kept[i] < kept[j]
      BY <1>5 DEF Ascending, kept
    <3> HIDE DEF more, x
    <3>5. Ascending(more)
      <4> SUFFICES ASSUME NEW i \in DOMAIN more, NEW j \in DOMAIN more, i < j PROVE more[i] < more[j]
        BY DEF Ascending
      <4>1. i \in 1..Len(kept) /\ more[i] = kept[i]
        BY <3>2
      <4>2. CASE j = Len(kept) + 1
        BY <3>2, <3>3, <4>1, <4>2
      <4>3. CASE j \in 1..Len(kept)
        BY <3>2, <3>4, <4>1, <4>3
      <4> QED BY <3>2, <4>2, <4>3
    <3> QED BY <2>1, <2>2, <2>3, <3>5 DEF more
  <2>4. CASE x \notin wanted
    BY <1>5, <2>1, <2>2, <2>4
  <2> QED BY <2>3, <2>4
<1>6. 0..Len(list) \subseteq L
  <2> HIDE DEF L
  <2> QED BY <1>2, <1>4, <1>5, EveryPrefix
<1> QED BY <1>1, <1>2, <1>6, SelectedIs

\* What is selected of a list weighs what the list weighs without the rest.
IsWeight(w, S) == w \in [S -> Nat]
WeightsOf(kept, w) == [k \in DOMAIN kept |-> w[kept[k]]]
WeightsLeft(list, wanted, w) ==
  [i \in DOMAIN list |-> IF list[i] \in wanted THEN w[list[i]] ELSE 0]

LEMMA SelectedAdded ==
  ASSUME NEW S, NEW list \in Seq(S), NEW wanted, NEW w, IsWeight(w, S)
  PROVE  Added(WeightsOf(Selected(list, wanted), w)) = Added(WeightsLeft(list, wanted, w))
<1> DEFINE Weights(kept) == [k \in DOMAIN kept |-> w[kept[k]]]
           Left(n) == [i \in 1..n |-> IF list[i] \in wanted THEN w[list[i]] ELSE 0]
<1>1. PICK g : Picks(list, wanted, Len(list), g)
  BY PicksExist
<1>2. Len(list) \in Nat /\ Len(list) \in 0..Len(list) /\ DOMAIN list = 1..Len(list)
      /\ (\A i \in 1..Len(list) : list[i] \in S) /\ w \in [S -> Nat]
  BY DEF IsWeight
<1> DEFINE L == {n \in 0..Len(list) : g[n] \in Seq(S) /\ Added(Weights(g[n])) = Added(Left(n))}
<1>3. 0 \in L
  <2>1. g[0] = <<>>
    BY <1>1 DEF Picks
  <2>2. Weights(<<>>) = <<>> /\ Left(0) = <<>> /\ <<>> \in Seq(S)
    OBVIOUS
  <2> HIDE DEF Weights, Left
  <2>3. g[0] \in Seq(S) /\ Added(Weights(g[0])) = Added(Left(0))
    BY <2>1, <2>2
  <2> QED BY <1>2, <2>3
<1>4. ASSUME NEW n \in 0..Len(list), n \in L, n < Len(list) PROVE n + 1 \in L
  <2> DEFINE x == list[n + 1]
             kept == g[n]
             size == IF x \in wanted THEN w[x] ELSE 0
  <2>1. n + 1 \in 1..Len(list) /\ n + 1 \in 0..Len(list) /\ n \in Nat /\ (n + 1) - 1 = n /\ x \in S
    BY <1>2, <1>4
  <2>2. g[n + 1] = IF x \in wanted THEN Append(kept, x) ELSE kept
    BY <1>1, <2>1 DEF Picks
  <2>3. kept \in Seq(S) /\ Added(Weights(kept)) = Added(Left(n))
    BY <1>4
  <2> HIDE DEF kept
  <2>4. size \in Nat /\ w[x] \in Nat
    BY <1>2, <2>1
  <2>5. Left(n) \in Seq(Nat) /\ Left(n + 1) = Append(Left(n), size)
    <3>1. \A i \in 1..n : list[i] \in S
      BY <1>2, <2>1
    <3>2. Left(n) \in [1..n -> Nat]
      BY <1>2, <3>1
    <3>3. Left(n) \in Seq(Nat) /\ Len(Left(n)) = n
      BY <2>1, <3>2
    <3>4. Left(n + 1) = [i \in 1..n + 1 |-> IF i = n + 1 THEN size ELSE Left(n)[i]]
      BY <2>1
    <3> HIDE DEF Left, size
    <3> QED BY <2>1, <2>4, <3>3, <3>4
  <2>6. Weights(kept) \in Seq(Nat)
    <3>1. DOMAIN kept = 1..Len(kept) /\ Len(kept) \in Nat /\ \A k \in 1..Len(kept) : kept[k] \in S
      BY <2>3
    <3>2. Weights(kept) \in [1..Len(kept) -> Nat]
      BY <1>2, <3>1
    <3> HIDE DEF Weights
    <3> QED BY <3>1, <3>2, IsList
  <2>7. Added(Left(n + 1)) = Added(Left(n)) + size
    <3> HIDE DEF Left, size
    <3> QED BY <2>4, <2>5, AddedAppend
  <2>8. CASE x \in wanted
    <3>1. Append(kept, x) \in Seq(S)
      BY <2>1, <2>3
    <3>2. Weights(Append(kept, x)) = Append(Weights(kept), w[x])
      BY <2>1, <2>3
    <3>3. Added(Append(Weights(kept), w[x])) = Added(Weights(kept)) + w[x]
      <4> HIDE DEF Weights, x
      <4> QED BY <2>4, <2>6, AddedAppend
    <3>4. size = w[x]
      BY <2>8
    <3> HIDE DEF Weights, Left, size, x
    <3> QED BY <2>1, <2>2, <2>3, <2>7, <2>8, <3>1, <3>2, <3>3, <3>4
  <2>9. CASE x \notin wanted
    <3>1. size = 0 /\ Added(Left(n)) \in Nat
      BY <2>5, <2>9, AddedType
    <3> HIDE DEF Weights, Left, size, x
    <3> QED BY <2>1, <2>2, <2>3, <2>7, <2>9, <3>1
  <2> QED BY <2>8, <2>9
<1>5. 0..Len(list) \subseteq L
  <2> HIDE DEF L
  <2> QED BY <1>2, <1>3, <1>4, EveryPrefix
<1>6. Added(Weights(g[Len(list)])) = Added(Left(Len(list)))
  BY <1>2, <1>5
<1>7. Selected(list, wanted) = g[Len(list)]
  BY <1>1, SelectedIs
<1>8. Left(Len(list)) = WeightsLeft(list, wanted, w)
  BY <1>2 DEF WeightsLeft
<1>9. Added(Weights(Selected(list, wanted))) = Added(Left(Len(list)))
  <2> HIDE DEF Weights, Left
  <2> QED BY <1>6, <1>7
<1>10. Weights(Selected(list, wanted)) = WeightsOf(Selected(list, wanted), w)
  BY DEF WeightsOf
<1> HIDE DEF Weights, Left
<1> QED BY <1>8, <1>9, <1>10

----------------------------------------------------------------------------
(* The two stores *)

\* What a row of a table is, and an event of the trail.
Rows(keys, values) == [key : keys, value : values]
AuditEvents == [sequence : 1..MaxEvents, event : Events]

MemStates ==
  [order : [Keys -> Nat], counter : Nat,
   tasks : UNION {[saved -> TaskValues] : saved \in SUBSET TaskKeys},
   audit : Seq(AuditEvents)]

SqlStates ==
  [plans : Seq(Rows(PlanKeys, PlanKeys)), tasks : Seq(Rows(TaskKeys, TaskValues)),
   audit : SUBSET AuditEvents]

MarkStates == [name : Nat, image : SqlStates]

\* The rows of a table are the keys that were touched, in the order of their first insertion.
Ordered(table, keys, order) ==
  /\ \A i \in DOMAIN table : order[table[i].key] # 0
  /\ \A k \in keys : order[k] # 0 => \E i \in DOMAIN table : table[i].key = k
  /\ \A i, j \in DOMAIN table : i < j => order[table[i].key] < order[table[j].key]

\* The events of a trail: consecutive sequences, no identifier twice.
Gapless(audit) ==
  \A i \in DOMAIN audit :
    /\ audit[i].sequence = audit[1].sequence + i - 1
    /\ \A j \in DOMAIN audit : audit[i].event = audit[j].event => i = j

\* The dictionaries and the tables hold the same records, in the same order.
Agree(m, s) ==
  /\ m \in MemStates /\ s \in SqlStates
  /\ \A k \in Keys : m.order[k] <= m.counter
  /\ Ordered(s.plans, PlanKeys, m.order)
  /\ Ordered(s.tasks, TaskKeys, m.order)
  /\ DOMAIN m.tasks = {t \in TaskKeys : m.order[t] # 0}
  /\ \A i \in DOMAIN s.tasks : m.tasks[s.tasks[i].key] = s.tasks[i].value
  /\ s.audit = {m.audit[i] : i \in DOMAIN m.audit}
  /\ Gapless(m.audit)

\* The inductive invariant: the stores agree now, and so do the copies each would go back to, at
\* every open block; the disk holds what the outermost one would go back to.
StoresAgree ==
  /\ depth \in Nat
  /\ snapshots \in Seq(MemStates) /\ Len(snapshots) = depth
  /\ marks \in Seq(MarkStates) /\ Len(marks) = depth
  /\ Agree(mem, sql)
  /\ \A i \in 1..depth : marks[i].name = i - 1 /\ Agree(snapshots[i], marks[i].image)
  /\ file = IF depth = 0 THEN sql ELSE marks[1].image

----------------------------------------------------------------------------
(* Upserts *)

\* A key of an ordered table is in one row.
LEMMA OneRow ==
  ASSUME NEW K, NEW V, NEW table \in Seq(Rows(K, V)), NEW order \in [Keys -> Nat],
         K \subseteq Keys, Ordered(table, K, order), NEW i \in DOMAIN table, NEW j \in DOMAIN table,
         table[i].key = table[j].key
  PROVE  i = j
<1>1. i \in 1..Len(table) /\ j \in 1..Len(table)
  OBVIOUS
<1>2. table[i] \in Rows(K, V)
  BY <1>1
<1>3. table[i].key \in K
  BY <1>2 DEF Rows
<1>4. ~(i < j) /\ ~(j < i)
  <2>1. order[table[i].key] \in Nat
    BY <1>3
  <2> QED BY <2>1 DEF Ordered
<1> QED BY <1>1, <1>4

\* An upsert leaves an ordered table: a key that has a row keeps its place, a new one goes last.
LEMMA UpsertKeepsOrder ==
  ASSUME NEW K, NEW V, NEW table \in Seq(Rows(K, V)), NEW order \in [Keys -> Nat],
         NEW counter \in Nat, K \subseteq Keys, Ordered(table, K, order),
         \A k \in Keys : order[k] <= counter, NEW row \in Rows(K, V), NEW later,
         later = IF order[row.key] # 0 THEN order ELSE [order EXCEPT ![row.key] = counter + 1]
  PROVE  /\ Upserted(table, row) \in Seq(Rows(K, V))
         /\ Ordered(Upserted(table, row), K, later)
<1>1. row.key \in K
  BY DEF Rows
<1>2. CASE order[row.key] # 0
  <2>1. RowOf(table, row.key) # {}
    BY <1>1, <1>2 DEF Ordered, RowOf
  <2> DEFINE new == [i \in DOMAIN table |-> IF table[i].key = row.key THEN row ELSE table[i]]
  <2>2. Upserted(table, row) = new
    BY <2>1 DEF Upserted
  <2>3. new \in Seq(Rows(K, V)) /\ DOMAIN new = DOMAIN table
    OBVIOUS
  <2>4. \A i \in DOMAIN table : new[i].key = table[i].key
    OBVIOUS
  <2> HIDE DEF new
  <2>5. Ordered(new, K, order)
    BY <2>3, <2>4 DEF Ordered
  <2> QED BY <1>2, <2>2, <2>3, <2>5
<1>3. CASE order[row.key] = 0
  <2>1. RowOf(table, row.key) = {}
    BY <1>3 DEF Ordered, RowOf
  <2> DEFINE new == Append(table, row)
  <2>2. Upserted(table, row) = new
    BY <2>1 DEF Upserted
  <2>3. /\ new \in Seq(Rows(K, V)) /\ Len(new) = Len(table) + 1
        /\ \A i \in 1..Len(table) : new[i] = table[i]
        /\ new[Len(table) + 1] = row
    OBVIOUS
  <2>4. \A i \in 1..Len(table) : table[i].key \in K /\ table[i].key # row.key
    <3> SUFFICES ASSUME NEW i \in 1..Len(table) PROVE table[i].key \in K /\ table[i].key # row.key
      OBVIOUS
    <3>1. table[i] \in Rows(K, V) /\ i \in DOMAIN table
      OBVIOUS
    <3> QED BY <2>1, <3>1 DEF RowOf, Rows
  <2>5. /\ later \in [Keys -> Nat] /\ later[row.key] = counter + 1
        /\ \A k \in Keys \ {row.key} : later[k] = order[k]
    BY <1>1, <1>3
  <2>6. DOMAIN new = 1..Len(table) + 1 /\ DOMAIN table = 1..Len(table) /\ Len(table) \in Nat
    BY <2>3
  <2> HIDE DEF new
  <2>7. \A i \in DOMAIN new : later[new[i].key] # 0
    BY <2>3, <2>4, <2>5, <2>6 DEF Ordered
  <2>8. \A k \in K : later[k] # 0 => \E i \in DOMAIN new : new[i].key = k
    <3> SUFFICES ASSUME NEW k \in K, later[k] # 0 PROVE \E i \in DOMAIN new : new[i].key = k
      OBVIOUS
    <3>1. CASE k = row.key
      BY <3>1, <2>3, <2>6
    <3>2. CASE k # row.key
      <4>1. PICK i \in DOMAIN table : table[i].key = k
        BY <3>2, <2>5 DEF Ordered
      <4> QED BY <4>1, <2>3, <2>6
    <3> QED BY <3>1, <3>2
  <2>9. \A i, j \in DOMAIN new : i < j => later[new[i].key] < later[new[j].key]
    <3> SUFFICES ASSUME NEW i \in DOMAIN new, NEW j \in DOMAIN new, i < j
                 PROVE  later[new[i].key] < later[new[j].key]
      OBVIOUS
    <3>1. i \in 1..Len(table) /\ later[new[i].key] = order[table[i].key] /\ table[i].key \in Keys
      BY <2>3, <2>4, <2>5, <2>6
    <3>2. CASE j = Len(table) + 1
      <4>1. order[table[i].key] \in Nat /\ order[table[i].key] <= counter
        BY <3>1
      <4>2. later[new[j].key] = counter + 1
        BY <3>2, <2>3, <2>5
      <4> QED BY <3>1, <4>1, <4>2
    <3>3. CASE j \in 1..Len(table)
      <4>1. later[new[j].key] = order[table[j].key]
        BY <3>3, <2>3, <2>4, <2>5
      <4> QED BY <3>1, <3>3, <4>1, <2>6 DEF Ordered
    <3> QED BY <3>2, <3>3, <2>6
  <2> QED BY <1>3, <2>2, <2>3, <2>7, <2>8, <2>9 DEF Ordered
<1> QED BY <1>2, <1>3, <1>1

----------------------------------------------------------------------------
(* Each operation, on both stores *)

\* Two empty stores agree.
LEMMA EmptyAgree == Agree(EmptyMem, EmptySql)
<1>1. [k \in Keys |-> 0] \in [Keys -> Nat]
  OBVIOUS
<1>2. <<>> \in UNION {[saved -> TaskValues] : saved \in SUBSET TaskKeys}
  <2>1. <<>> \in [{} -> TaskValues]
    OBVIOUS
  <2> QED BY <2>1
<1>3. EmptyMem \in MemStates /\ EmptySql \in SqlStates
  BY <1>1, <1>2 DEF EmptyMem, EmptySql, MemStates, SqlStates
<1>4. /\ EmptySql.plans = <<>> /\ EmptySql.tasks = <<>> /\ EmptySql.audit = {}
      /\ EmptyMem.tasks = <<>> /\ EmptyMem.audit = <<>> /\ EmptyMem.counter = 0
      /\ \A k \in Keys : EmptyMem.order[k] = 0
  BY DEF EmptyMem, EmptySql
<1>5. PlanKeys \subseteq Keys /\ TaskKeys \subseteq Keys
  BY DEF Keys
<1>6. DOMAIN <<>> = {}
  OBVIOUS
<1>7. Ordered(<<>>, PlanKeys, EmptyMem.order) /\ Ordered(<<>>, TaskKeys, EmptyMem.order)
  BY <1>4, <1>5, <1>6 DEF Ordered
<1>8. DOMAIN EmptyMem.tasks = {t \in TaskKeys : EmptyMem.order[t] # 0}
  BY <1>4, <1>5, <1>6
<1>9. Gapless(<<>>)
  BY <1>6 DEF Gapless
<1> QED BY <1>3, <1>4, <1>6, <1>7, <1>8, <1>9 DEF Agree

\* What _touch does to the ranks.
LEMMA TouchedState ==
  ASSUME NEW m \in MemStates, NEW k \in Keys
  PROVE  LET ranked == Touched(m, k)
         IN  /\ ranked \in MemStates
             /\ ranked.order = IF m.order[k] # 0 THEN m.order
                               ELSE [m.order EXCEPT ![k] = m.counter + 1]
             /\ ranked.counter = IF m.order[k] # 0 THEN m.counter ELSE m.counter + 1
             /\ ranked.tasks = m.tasks /\ ranked.audit = m.audit
<1>1. /\ m.order \in [Keys -> Nat] /\ m.counter \in Nat /\ m.counter + 1 \in Nat
      /\ m = [order |-> m.order, counter |-> m.counter, tasks |-> m.tasks, audit |-> m.audit]
  BY DEF MemStates
<1>2. [m.order EXCEPT ![k] = m.counter + 1] \in [Keys -> Nat]
  BY <1>1
<1>3. CASE m.order[k] # 0
  BY <1>3 DEF Touched
<1>4. CASE m.order[k] = 0
  <2>1. Touched(m, k) = [m EXCEPT !.order[k] = m.counter + 1, !.counter = m.counter + 1]
    BY <1>4 DEF Touched
  <2>2. Touched(m, k) = [order |-> [m.order EXCEPT ![k] = m.counter + 1],
                         counter |-> m.counter + 1, tasks |-> m.tasks, audit |-> m.audit]
    BY <2>1, <1>1 DEF MemStates
  <2> QED BY <2>2, <1>1, <1>2, <1>4 DEF MemStates
<1> QED BY <1>3, <1>4

\* A plan saved in both.
LEMMA SavePlanAgrees ==
  ASSUME NEW m, NEW s, Agree(m, s), NEW p \in PlanKeys
  PROVE  Agree(Touched(m, p), [s EXCEPT !.plans = Upserted(@, [key |-> p, value |-> p])])
<1> DEFINE row == [key |-> p, value |-> p]
           m1 == Touched(m, p)
           s1 == [s EXCEPT !.plans = Upserted(@, row)]
<1>1. /\ m \in MemStates /\ s \in SqlStates /\ p \in Keys /\ p \notin TaskKeys
      /\ row \in Rows(PlanKeys, PlanKeys) /\ row.key = p /\ PlanKeys \subseteq Keys
      /\ TaskKeys \subseteq Keys
  BY StoreAssumption DEF Agree, Keys, Rows
<1>2. /\ m.order \in [Keys -> Nat] /\ m.counter \in Nat
      /\ s.plans \in Seq(Rows(PlanKeys, PlanKeys)) /\ s.tasks \in Seq(Rows(TaskKeys, TaskValues))
  BY <1>1 DEF MemStates, SqlStates
<1> DEFINE later == IF m.order[p] # 0 THEN m.order ELSE [m.order EXCEPT ![p] = m.counter + 1]
<1>3. /\ m1 \in MemStates /\ m1.order = later /\ m1.tasks = m.tasks /\ m1.audit = m.audit
      /\ m1.counter = IF m.order[p] # 0 THEN m.counter ELSE m.counter + 1
  BY <1>1, TouchedState
<1>4. Upserted(s.plans, row) \in Seq(Rows(PlanKeys, PlanKeys)) /\ Ordered(Upserted(s.plans, row), PlanKeys, later)
  <2>1. Ordered(s.plans, PlanKeys, m.order) /\ \A k \in Keys : m.order[k] <= m.counter
    BY DEF Agree
  <2>2. later = IF m.order[row.key] # 0 THEN m.order ELSE [m.order EXCEPT ![row.key] = m.counter + 1]
    BY <1>1
  <2> HIDE DEF row, later
  <2> QED BY <1>1, <1>2, <2>1, <2>2, UpsertKeepsOrder
<1>5. /\ s1 \in SqlStates /\ s1.plans = Upserted(s.plans, row)
      /\ s1.tasks = s.tasks /\ s1.audit = s.audit
  BY <1>1, <1>4 DEF SqlStates
<1>6. /\ \A k \in Keys : later[k] \in Nat /\ later[k] <= m1.counter
      /\ \A t \in TaskKeys : later[t] = m.order[t]
  BY <1>1, <1>2, <1>3 DEF Agree
<1>7. Ordered(s.tasks, TaskKeys, later)
  <2>1. \A i \in DOMAIN s.tasks : s.tasks[i].key \in TaskKeys
    <3> SUFFICES ASSUME NEW i \in DOMAIN s.tasks PROVE s.tasks[i].key \in TaskKeys
      OBVIOUS
    <3>1. s.tasks[i] \in Rows(TaskKeys, TaskValues)
      BY <1>2
    <3> QED BY <3>1 DEF Rows
  <2>2. Ordered(s.tasks, TaskKeys, m.order)
    BY DEF Agree
  <2> HIDE DEF later
  <2> QED BY <2>1, <2>2, <1>6 DEF Ordered
<1>8. DOMAIN m.tasks = {t \in TaskKeys : later[t] # 0}
  <2> HIDE DEF later
  <2> QED BY <1>6 DEF Agree
<1> HIDE DEF m1, s1, later
<1>9. Agree(m1, s1)
  BY <1>3, <1>4, <1>5, <1>6, <1>7, <1>8 DEF Agree
<1> QED BY <1>9 DEF m1, s1

\* A task saved in both.
LEMMA SaveTaskAgrees ==
  ASSUME NEW m, NEW s, Agree(m, s), NEW t \in TaskKeys, NEW value \in TaskValues
  PROVE  Agree(MemTask(m, t, value),
               [s EXCEPT !.tasks = Upserted(@, [key |-> t, value |-> value])])
<1> DEFINE row == [key |-> t, value |-> value]
           m1 == MemTask(m, t, value)
           s1 == [s EXCEPT !.tasks = Upserted(@, row)]
           records == [x \in DOMAIN m.tasks \cup {t} |-> IF x = t THEN value ELSE m.tasks[x]]
<1>1. /\ m \in MemStates /\ s \in SqlStates /\ t \in Keys /\ t \notin PlanKeys
      /\ row \in Rows(TaskKeys, TaskValues) /\ row.key = t /\ PlanKeys \subseteq Keys
      /\ TaskKeys \subseteq Keys
  BY StoreAssumption DEF Agree, Keys, Rows
<1>2. /\ m.order \in [Keys -> Nat] /\ m.counter \in Nat
      /\ s.plans \in Seq(Rows(PlanKeys, PlanKeys)) /\ s.tasks \in Seq(Rows(TaskKeys, TaskValues))
  BY <1>1 DEF MemStates, SqlStates
<1> DEFINE later == IF m.order[t] # 0 THEN m.order ELSE [m.order EXCEPT ![t] = m.counter + 1]
<1>3. /\ Touched(m, t) \in MemStates /\ Touched(m, t).order = later /\ Touched(m, t).tasks = m.tasks
      /\ Touched(m, t).audit = m.audit
      /\ Touched(m, t).counter = IF m.order[t] # 0 THEN m.counter ELSE m.counter + 1
  BY <1>1, TouchedState
<1>4. records \in UNION {[saved -> TaskValues] : saved \in SUBSET TaskKeys}
  <2>1. PICK saved \in SUBSET TaskKeys : m.tasks \in [saved -> TaskValues]
    BY <1>1 DEF MemStates
  <2>2. records \in [saved \cup {t} -> TaskValues]
    BY <2>1
  <2> QED BY <2>2
<1>5. /\ m1 \in MemStates /\ m1.order = later /\ m1.tasks = records /\ m1.audit = m.audit
      /\ m1.counter = Touched(m, t).counter
  <2>1. m1 = [Touched(m, t) EXCEPT !.tasks = records]
    BY <1>3 DEF MemTask
  <2> HIDE DEF m1, later, records
  <2> QED BY <2>1, <1>3, <1>4 DEF MemStates
<1>6. Upserted(s.tasks, row) \in Seq(Rows(TaskKeys, TaskValues)) /\ Ordered(Upserted(s.tasks, row), TaskKeys, later)
  <2>1. Ordered(s.tasks, TaskKeys, m.order) /\ \A k \in Keys : m.order[k] <= m.counter
    BY DEF Agree
  <2>2. later = IF m.order[row.key] # 0 THEN m.order ELSE [m.order EXCEPT ![row.key] = m.counter + 1]
    BY <1>1
  <2> HIDE DEF row, later
  <2> QED BY <1>1, <1>2, <2>1, <2>2, UpsertKeepsOrder
<1>7. /\ s1 \in SqlStates /\ s1.tasks = Upserted(s.tasks, row)
      /\ s1.plans = s.plans /\ s1.audit = s.audit
  BY <1>1, <1>6 DEF SqlStates
<1>8. /\ \A k \in Keys : later[k] \in Nat /\ later[k] <= m1.counter
      /\ \A k \in Keys \ {t} : later[k] = m.order[k]
      /\ later[t] # 0
  BY <1>1, <1>2, <1>3, <1>5 DEF Agree
<1>9. Ordered(s.plans, PlanKeys, later)
  <2>1. \A i \in DOMAIN s.plans : s.plans[i].key \in PlanKeys
    <3> SUFFICES ASSUME NEW i \in DOMAIN s.plans PROVE s.plans[i].key \in PlanKeys
      OBVIOUS
    <3>1. s.plans[i] \in Rows(PlanKeys, PlanKeys)
      BY <1>2
    <3> QED BY <3>1 DEF Rows
  <2>2. Ordered(s.plans, PlanKeys, m.order)
    BY DEF Agree
  <2>3. \A k \in PlanKeys : later[k] = m.order[k]
    BY <1>1, <1>8
  <2> HIDE DEF later
  <2> QED BY <2>1, <2>2, <2>3 DEF Ordered
<1>10. DOMAIN records = {k \in TaskKeys : later[k] # 0}
  <2>1. DOMAIN m.tasks = {k \in TaskKeys : m.order[k] # 0} /\ DOMAIN records = DOMAIN m.tasks \cup {t}
    BY DEF Agree
  <2> HIDE DEF later, records
  <2> QED BY <2>1, <1>1, <1>8
<1>11. \A i \in DOMAIN s1.tasks : records[s1.tasks[i].key] = s1.tasks[i].value
  <2>1. /\ \A i \in DOMAIN s.tasks : s.tasks[i].key \in DOMAIN m.tasks
        /\ \A i \in DOMAIN s.tasks : m.tasks[s.tasks[i].key] = s.tasks[i].value
    <3> SUFFICES ASSUME NEW i \in DOMAIN s.tasks
                 PROVE  s.tasks[i].key \in DOMAIN m.tasks /\ m.tasks[s.tasks[i].key] = s.tasks[i].value
      OBVIOUS
    <3>1. s.tasks[i] \in Rows(TaskKeys, TaskValues)
      BY <1>2
    <3>2. s.tasks[i].key \in TaskKeys
      BY <3>1 DEF Rows
    <3> QED BY <3>2 DEF Agree, Ordered
  <2>2. records[t] = value /\ \A x \in DOMAIN m.tasks \ {t} : records[x] = m.tasks[x]
    OBVIOUS
  <2>3. row.key = t /\ row.value = value
    OBVIOUS
  <2>4. CASE RowOf(s.tasks, t) = {}
    <3>1. s1.tasks = Append(s.tasks, row)
      BY <1>7, <2>3, <2>4 DEF Upserted
    <3>2. \A i \in DOMAIN s.tasks : s.tasks[i].key # t
      BY <2>4 DEF RowOf
    <3> HIDE DEF s1, records, row
    <3>3. /\ DOMAIN s1.tasks = 1..Len(s.tasks) + 1 /\ DOMAIN s.tasks = 1..Len(s.tasks)
          /\ \A i \in 1..Len(s.tasks) : s1.tasks[i] = s.tasks[i]
          /\ s1.tasks[Len(s.tasks) + 1] = row
      BY <1>1, <1>2, <3>1
    <3> QED BY <2>1, <2>2, <2>3, <3>2, <3>3
  <2>5. CASE RowOf(s.tasks, t) # {}
    <3>1. s1.tasks = [i \in DOMAIN s.tasks |-> IF s.tasks[i].key = t THEN row ELSE s.tasks[i]]
      BY <1>7, <2>3, <2>5 DEF Upserted
    <3> HIDE DEF s1, records, row
    <3> QED BY <2>1, <2>2, <2>3, <3>1
  <2> QED BY <2>4, <2>5
<1> HIDE DEF m1, s1, later, records, row
<1>12. Agree(m1, s1)
  BY <1>5, <1>6, <1>7, <1>8, <1>9, <1>10, <1>11 DEF Agree
<1> QED BY <1>12 DEF m1, s1, row

\* Both stores refuse the same audit events, each on its own grounds.
LEMMA AppendsAlike ==
  ASSUME NEW m, NEW s, Agree(m, s), NEW n \in Int, NEW e
  PROVE  MemAppends(m, n, e) <=> SqlAppends(s, n, e)
<1> DEFINE chain == m.audit
<1>1. /\ chain \in Seq(AuditEvents) /\ s.audit = {chain[i] : i \in DOMAIN chain}
      /\ Gapless(chain)
  BY DEF Agree, MemStates
<1>2. /\ DOMAIN chain = 1..Len(chain) /\ Len(chain) \in Nat
      /\ \A i \in 1..Len(chain) : chain[i] \in AuditEvents
  BY <1>1
<1> HIDE DEF chain
<1>3. (\A i \in DOMAIN chain : chain[i].sequence # n /\ chain[i].event # e)
        <=> \A x \in s.audit : x.sequence # n /\ x.event # e
  BY <1>1
<1>4. CASE chain = <<>>
  <2>1. s.audit = {}
    BY <1>1, <1>4
  <2> QED BY <1>3, <1>4, <2>1 DEF MemAppends, SqlAppends, chain
<1>5. CASE chain # <<>>
  <2> DEFINE top == Last(chain).sequence
  <2>1. Len(chain) \in 1..Len(chain)
    BY <1>1, <1>2, <1>5
  <2>2. /\ Last(chain) = chain[Len(chain)] /\ Last(chain) \in s.audit
        /\ \A i \in 1..Len(chain) : chain[i].sequence \in Nat
    BY <1>1, <1>2, <2>1 DEF Last, AuditEvents
  <2>3. \A i \in 1..Len(chain) : chain[i].sequence <= top
    <3>1. \A i \in 1..Len(chain) : chain[i].sequence = chain[1].sequence + i - 1
      BY <1>1, <1>2 DEF Gapless
    <3>2. 1 \in 1..Len(chain) /\ chain[1].sequence \in Nat
      BY <1>2, <2>1, <2>2
    <3>3. top = chain[1].sequence + Len(chain) - 1
      BY <2>1, <2>2, <3>1
    <3> HIDE DEF top
    <3> QED BY <1>2, <3>1, <3>2, <3>3
  <2>4. top \in AuditSequences(s) /\ \A x \in AuditSequences(s) : x \in Nat /\ x <= top
    BY <1>1, <1>2, <2>2, <2>3 DEF AuditSequences
  <2>5. (\E x \in AuditSequences(s) : (\A y \in AuditSequences(s) : y <= x) /\ n = x + 1)
          <=> n = top + 1
    <3> HIDE DEF top
    <3>1. ASSUME NEW x \in AuditSequences(s), \A y \in AuditSequences(s) : y <= x PROVE x = top
      BY <2>4, <3>1
    <3> QED BY <2>4, <3>1
  <2>6. s.audit # {}
    BY <2>2
  <2> QED BY <1>3, <1>5, <2>5, <2>6 DEF MemAppends, SqlAppends, chain
<1> QED BY <1>4, <1>5

\* An audit event kept by both.
LEMMA AppendAgrees ==
  ASSUME NEW m, NEW s, Agree(m, s), NEW n \in 1..MaxEvents, NEW e \in Events, MemAppends(m, n, e)
  PROVE  LET event == [sequence |-> n, event |-> e]
         IN  Agree([m EXCEPT !.audit = Append(@, event)], [s EXCEPT !.audit = @ \cup {event}])
<1> DEFINE event == [sequence |-> n, event |-> e]
           chain == m.audit
           longer == Append(chain, event)
           m1 == [m EXCEPT !.audit = longer]
           s1 == [s EXCEPT !.audit = s.audit \cup {event}]
<1>1. /\ m \in MemStates /\ s \in SqlStates /\ event \in AuditEvents /\ event.event = e
      /\ event.sequence = n /\ chain \in Seq(AuditEvents) /\ n \in Nat
  BY StoreAssumption DEF Agree, MemStates, AuditEvents
<1>2. /\ longer \in Seq(AuditEvents) /\ Len(longer) = Len(chain) + 1 /\ Len(chain) \in Nat
      /\ \A i \in 1..Len(chain) : longer[i] = chain[i]
      /\ longer[Len(chain) + 1] = event
      /\ DOMAIN longer = 1..Len(chain) + 1 /\ DOMAIN chain = 1..Len(chain)
      /\ \A i \in 1..Len(chain) : chain[i] \in AuditEvents
  BY <1>1
<1>3. /\ \A i \in 1..Len(chain) : chain[i].sequence # n /\ chain[i].event # e
      /\ Len(chain) # 0 => n = chain[Len(chain)].sequence + 1
  BY <1>2 DEF MemAppends, Last
<1>4. Gapless(chain) /\ \A i \in 1..Len(chain) : chain[i].sequence \in Nat
  BY <1>2 DEF Agree, AuditEvents
<1> HIDE DEF longer, event, chain
<1>5. \A i \in DOMAIN longer : longer[i].sequence = longer[1].sequence + i - 1
  <2>1. CASE Len(chain) = 0
    BY <2>1, <1>1, <1>2
  <2>2. CASE Len(chain) # 0
    <3>1. longer[1] = chain[1] /\ chain[1].sequence \in Nat
      BY <2>2, <1>2, <1>4
    <3>2. \A i \in 1..Len(chain) : longer[i].sequence = longer[1].sequence + i - 1
      BY <3>1, <1>2, <1>4 DEF Gapless
    <3>3. longer[Len(chain) + 1].sequence = longer[1].sequence + (Len(chain) + 1) - 1
      <4>1. Len(chain) \in 1..Len(chain) /\ longer[Len(chain)] = chain[Len(chain)]
        BY <2>2, <1>2
      <4>2. chain[Len(chain)].sequence = longer[1].sequence + Len(chain) - 1
        BY <3>2, <4>1
      <4>3. longer[Len(chain) + 1].sequence = chain[Len(chain)].sequence + 1
        BY <2>2, <1>1, <1>2, <1>3
      <4> QED BY <1>2, <3>1, <4>2, <4>3
    <3> QED BY <1>2, <3>2, <3>3
  <2> QED BY <2>1, <2>2
<1>6. \A i, j \in DOMAIN longer : longer[i].event = longer[j].event => i = j
  BY <1>1, <1>2, <1>3, <1>4 DEF Gapless
<1>7. Gapless(longer)
  BY <1>5, <1>6 DEF Gapless
<1>8. s.audit \cup {event} = {longer[i] : i \in DOMAIN longer}
  <2>1. s.audit = {chain[i] : i \in DOMAIN chain}
    BY DEF Agree, chain
  <2>2. DOMAIN longer = DOMAIN chain \cup {Len(chain) + 1}
    BY <1>2
  <2> QED BY <1>2, <2>1, <2>2
<1>9. /\ m1 \in MemStates /\ m1.order = m.order /\ m1.counter = m.counter /\ m1.tasks = m.tasks
      /\ m1.audit = longer
  BY <1>1, <1>2 DEF MemStates
<1>10. /\ s1 \in SqlStates /\ s1.plans = s.plans /\ s1.tasks = s.tasks
       /\ s1.audit = s.audit \cup {event}
  BY <1>1 DEF SqlStates
<1> HIDE DEF m1, s1
<1>11. Agree(m1, s1)
  BY <1>7, <1>8, <1>9, <1>10 DEF Agree
<1> QED BY <1>11 DEF m1, s1, longer, chain, event

----------------------------------------------------------------------------
(* The steps *)

\* The savepoint of a level is the one that many blocks deep.
LEMMA MarkedLevel ==
  ASSUME StoresAgree, depth > 0
  PROVE  Marked(SavepointName(depth - 1)) = depth
<1>1. depth \in Nat /\ Len(marks) = depth /\ DOMAIN marks = 1..depth
  BY DEF StoresAgree
<1>2. {i \in DOMAIN marks : marks[i].name = depth - 1} = {depth}
  BY <1>1 DEF StoresAgree
<1>3. Max({depth}) = depth
  BY <1>1 DEF Max
<1> QED BY <1>2, <1>3 DEF Marked, SavepointName

\* Outside or inside a block, a write that keeps the stores in agreement keeps the invariant.
LEMMA StatementStep ==
  ASSUME StoresAgree, NEW s, Statement(s), Agree(mem', s)
  PROVE  StoresAgree'
<1>1. /\ sql' = s /\ snapshots' = snapshots /\ depth' = depth /\ marks' = marks
      /\ file' = IF depth = 0 THEN s ELSE file
  BY DEF Statement
<1> QED BY <1>1 DEF StoresAgree

\* Every step keeps the two stores in agreement at every level.
LEMMA StoresAgreeStep == StoresAgree /\ [StoreNext]_storeVars => StoresAgree'
<1> SUFFICES ASSUME StoresAgree, [StoreNext]_storeVars PROVE StoresAgree'
  OBVIOUS
<1>1. /\ depth \in Nat /\ snapshots \in Seq(MemStates) /\ Len(snapshots) = depth
      /\ marks \in Seq(MarkStates) /\ Len(marks) = depth
      /\ Agree(mem, sql)
      /\ \A i \in 1..depth : marks[i].name = i - 1 /\ Agree(snapshots[i], marks[i].image)
      /\ file = IF depth = 0 THEN sql ELSE marks[1].image
  BY DEF StoresAgree
<1>2. mem \in MemStates /\ sql \in SqlStates
  BY <1>1 DEF Agree
<1>3. ASSUME NEW p \in PlanKeys, SavePlan(p) PROVE StoresAgree'
  BY <1>1, <1>3, SavePlanAgrees, StatementStep DEF SavePlan
<1>4. ASSUME NEW t \in TaskKeys, SaveTask(t) PROVE StoresAgree'
  BY <1>1, <1>4, SaveTaskAgrees, StatementStep DEF SaveTask
<1>5. ASSUME NEW n \in 1..MaxEvents, NEW e \in Events, AppendAudit(n, e) PROVE StoresAgree'
  <2>1. MemAppends(mem, n, e) <=> SqlAppends(sql, n, e)
    <3>1. Agree(mem, sql) /\ n \in Int
      BY <1>1, StoreAssumption
    <3> QED BY <3>1, AppendsAlike
  <2>2. CASE MemAppends(mem, n, e)
    BY <1>1, <1>5, <2>1, <2>2, AppendAgrees, StatementStep DEF AppendAudit
  <2>3. CASE ~MemAppends(mem, n, e)
    BY <1>1, <1>5, <2>1, <2>3, StatementStep DEF AppendAudit
  <2> QED BY <2>2, <2>3
<1>6. CASE Reset
  BY <1>6, EmptyAgree, StatementStep DEF Reset
<1>7. CASE Begin
  <2>1. /\ depth' = depth + 1 /\ snapshots' = Append(snapshots, mem)
        /\ marks' = Append(marks, [name |-> depth, image |-> sql])
        /\ mem' = mem /\ sql' = sql /\ file' = file
    BY <1>7 DEF Begin, SavepointName
  <2> DEFINE mark == [name |-> depth, image |-> sql]
  <2>2. mark \in MarkStates
    BY <1>1, <1>2 DEF MarkStates
  <2>3. /\ snapshots' \in Seq(MemStates) /\ Len(snapshots') = depth'
        /\ \A i \in 1..depth : snapshots'[i] = snapshots[i]
        /\ snapshots'[depth + 1] = mem
    BY <1>1, <1>2, <2>1
  <2>4. /\ marks' \in Seq(MarkStates) /\ Len(marks') = depth'
        /\ \A i \in 1..depth : marks'[i] = marks[i]
        /\ marks'[depth + 1] = mark
    <3> HIDE DEF mark
    <3> QED BY <1>1, <2>1, <2>2 DEF mark
  <2>5. \A i \in 1..depth' : marks'[i].name = i - 1 /\ Agree(snapshots'[i], marks'[i].image)
    BY <1>1, <2>1, <2>3, <2>4
  <2>6. file' = IF depth' = 0 THEN sql' ELSE marks'[1].image
    BY <1>1, <2>1, <2>4
  <2> QED BY <1>1, <2>1, <2>3, <2>4, <2>5, <2>6 DEF StoresAgree
<1>8. ASSUME depth > 0, depth' = depth - 1, snapshots' = Front(snapshots),
             marks' = SubSeq(marks, 1, depth - 1),
             Agree(mem', sql'), file' = IF depth = 1 THEN sql' ELSE file
      PROVE  StoresAgree'
  <2>1. /\ snapshots' \in Seq(MemStates) /\ Len(snapshots') = depth'
        /\ \A i \in 1..depth - 1 : snapshots'[i] = snapshots[i]
    BY <1>1, <1>8 DEF Front
  <2>2. /\ marks' \in Seq(MarkStates) /\ Len(marks') = depth'
        /\ \A i \in 1..depth - 1 : marks'[i] = marks[i]
    BY <1>1, <1>8
  <2>3. file' = IF depth' = 0 THEN sql' ELSE marks'[1].image
    BY <1>1, <1>8, <2>2
  <2>4. \A i \in 1..depth' : marks'[i].name = i - 1 /\ Agree(snapshots'[i], marks'[i].image)
    <3> SUFFICES ASSUME NEW i \in 1..depth'
                 PROVE  marks'[i].name = i - 1 /\ Agree(snapshots'[i], marks'[i].image)
      OBVIOUS
    <3>1. i \in 1..depth /\ i \in 1..depth - 1
      BY <1>1, <1>8
    <3>2. marks'[i] = marks[i] /\ snapshots'[i] = snapshots[i]
      BY <2>1, <2>2, <3>1
    <3>3. marks[i].name = i - 1 /\ Agree(snapshots[i], marks[i].image)
      BY <1>1, <3>1
    <3> QED BY <3>2, <3>3
  <2>5. depth' \in Nat
    BY <1>1, <1>8
  <2> QED BY <1>8, <2>1, <2>2, <2>3, <2>4, <2>5 DEF StoresAgree
<1>9. CASE End
  BY <1>1, <1>8, <1>9, MarkedLevel DEF End
<1>10. CASE Raise
  <2>1. /\ depth > 0 /\ mem' = snapshots[depth] /\ sql' = marks[depth].image
        /\ snapshots' = Front(snapshots) /\ depth' = depth - 1
        /\ marks' = SubSeq(marks, 1, depth - 1) /\ file' = file
    BY <1>1, <1>10, MarkedLevel DEF Raise, Last
  <2>2. Agree(mem', sql') /\ file' = IF depth = 1 THEN sql' ELSE file
    BY <1>1, <2>1
  <2> QED BY <1>8, <2>1, <2>2
<1>11. CASE Crash
  <2>1. /\ depth' = 0 /\ snapshots' = <<>> /\ marks' = <<>> /\ sql' = file /\ file' = file
        /\ mem' = IF depth = 0 THEN mem ELSE snapshots[1]
    BY <1>1, <1>11 DEF Crash
  <2>2. Agree(mem', sql')
    BY <1>1, <2>1
  <2> QED BY <2>1, <2>2 DEF StoresAgree
<1>12. CASE UNCHANGED storeVars
  BY <1>12 DEF storeVars, StoresAgree
<1> QED
  BY <1>3, <1>4, <1>5, <1>6, <1>7, <1>9, <1>10, <1>11, <1>12 DEF StoreNext

----------------------------------------------------------------------------
(* What a reader is answered *)

\* A sequence has every member of a set, in the order of their ranks, which orders them all.
SortedBy(S, n, seq, rank, before) ==
  /\ n \in Nat /\ seq \in [1..n -> S] /\ rank \in [S -> Nat]
  /\ \A x \in S : \E i \in 1..n : seq[i] = x
  /\ \A i, j \in 1..n : i < j => rank[seq[i]] < rank[seq[j]]
  /\ before = {e \in S \X S : rank[e[1]] < rank[e[2]]}

\* Such a sequence is the sort of the set.
LEMMA ListingIs ==
  ASSUME NEW S, NEW n, NEW seq, NEW rank, NEW before, SortedBy(S, n, seq, rank, before)
  PROVE  Listing(S, before) = seq
<1>0. /\ n \in Nat /\ seq \in [1..n -> S] /\ rank \in [S -> Nat]
      /\ \A x \in S : \E i \in 1..n : seq[i] = x
      /\ \A i, j \in 1..n : i < j => rank[seq[i]] < rank[seq[j]]
      /\ before = {e \in S \X S : rank[e[1]] < rank[e[2]]}
  BY DEF SortedBy
<1> DEFINE Sorts(list) == \A i, j \in DOMAIN list : i < j => <<list[i], list[j]>> \in before
<1>1. \A i, j \in 1..n : seq[i] = seq[j] => i = j
  <2> SUFFICES ASSUME NEW i \in 1..n, NEW j \in 1..n, seq[i] = seq[j] PROVE i = j
    OBVIOUS
  <2>1. ~(i < j) /\ ~(j < i) /\ rank[seq[i]] \in Nat
    BY <1>0
  <2> QED BY <1>0, <2>1
<1>2. Cardinality(S) = n /\ IsFiniteSet(S)
  <2>1. seq \in Bijection(1..n, S)
    BY <1>0, <1>1 DEF Bijection, Injection, Surjection, IsInjective
  <2>2. ExistsBijection(1..n, S)
    BY <1>0, <2>1 DEF ExistsBijection
  <2> QED BY <1>0, <2>2, FS_CountingElements, FS_NatBijection
<1>3. Sorts(seq)
  <2>1. \A i, j \in 1..n : i < j => <<seq[i], seq[j]>> \in S \X S
    BY <1>0
  <2> QED BY <1>0, <2>1
<1> DEFINE list == CHOOSE l \in [1..n -> S] : Sorts(l)
<1>4. list \in [1..n -> S] /\ Sorts(list)
  <2> HIDE DEF Sorts
  <2> QED BY <1>0, <1>3
<1>5. Listing(S, before) = list
  BY <1>0, <1>2 DEF Listing
<1> HIDE DEF list
<1>6. \A i, j \in 1..n : i < j => rank[list[i]] < rank[list[j]]
  BY <1>0, <1>4
<1> HIDE DEF Sorts
<1>7. \A i, j \in 1..n : list[i] = list[j] => i = j
  <2> SUFFICES ASSUME NEW i \in 1..n, NEW j \in 1..n, list[i] = list[j] PROVE i = j
    BY <1>0
  <2>1. list[i] \in S
    BY <1>0, <1>4
  <2>2. rank[list[i]] \in Nat
    BY <1>0, <2>1
  <2>3. ~(i < j) /\ ~(j < i)
    BY <1>0, <1>6, <2>2
  <2> QED BY <1>0, <2>3
<1>8. \A x \in S : \E i \in 1..n : list[i] = x
  <2> SUFFICES ASSUME NEW x \in S, \A i \in 1..n : list[i] # x PROVE FALSE
    BY <1>0
  <2>1. list \in [1..n -> S \ {x}]
    BY <1>0, <1>4
  <2>2. IsFiniteSet(S \ {x}) /\ Cardinality(S \ {x}) = n - 1
    BY <1>0, <1>2, FS_RemoveElement
  <2>3. IsFiniteSet(1..n) /\ Cardinality(1..n) = n
    BY <1>0, FS_Interval
  <2>4. Cardinality(S \ {x}) < Cardinality(1..n)
    BY <1>0, <2>2, <2>3
  <2>5. \E i, j \in 1..n : i # j /\ list[i] = list[j]
    <3> DEFINE D == 1..n
               T == S \ {x}
    <3>1. list \in [D -> T] /\ IsFiniteSet(D) /\ IsFiniteSet(T) /\ Cardinality(T) < Cardinality(D)
      BY <1>0, <2>1, <2>2, <2>3, <2>4
    <3> HIDE DEF D, T
    <3>2. \E i, j \in D : i # j /\ list[i] = list[j]
      BY <1>0, <3>1, FS_PigeonHole
    <3> QED BY <1>0, <3>2 DEF D
  <2> QED BY <1>0, <2>5, <1>7
<1>9. ASSUME list # seq PROVE FALSE
  <2> DEFINE wrong == {i \in 1..n : list[i] # seq[i]}
  <2>1. wrong # {} /\ wrong \subseteq Nat
    <3>1. \E i \in 1..n : list[i] # seq[i]
      BY <1>0, <1>4, <1>9
    <3>2. wrong \subseteq 1..n /\ wrong # {}
      BY <1>0, <3>1
    <3> HIDE DEF wrong
    <3> QED BY <1>0, <3>2
  <2>2. PICK i \in wrong : \A j \in wrong : i <= j
    <3> HIDE DEF wrong
    <3> QED BY <1>0, <2>1, LeastNumber
  <2>3. i \in 1..n /\ list[i] # seq[i] /\ \A j \in 1..n : j < i => list[j] = seq[j]
    BY <1>0, <2>2
  <2>4. PICK k \in 1..n : seq[k] = list[i]
    BY <1>0, <1>4, <2>3
  <2>5. PICK l \in 1..n : list[l] = seq[i]
    BY <1>0, <1>8, <2>3
  <2>6. k > i
    <3>1. k # i /\ ~(k < i)
      BY <1>0, <2>3, <2>4, <1>7
    <3> QED BY <1>0, <3>1, <2>3
  <2>7. l > i
    <3>1. l # i /\ ~(l < i)
      BY <1>0, <2>3, <2>5, <1>1
    <3> QED BY <1>0, <3>1, <2>3
  <2>8. rank[seq[i]] < rank[list[i]] /\ rank[list[i]] < rank[seq[i]]
    BY <1>0, <1>6, <2>3, <2>4, <2>5, <2>6, <2>7
  <2>9. rank[seq[i]] \in Nat /\ rank[list[i]] \in Nat
    BY <1>0, <1>4, <2>3
  <2> QED BY <1>0, <2>8, <2>9
<1> QED BY <1>0, <1>5, <1>9

\* The rowids of an ordered table are in the order of the ranks; a key without row has neither.
LEMMA RowIds ==
  ASSUME NEW K, NEW V, NEW table \in Seq(Rows(K, V)), NEW order \in [Keys -> Nat],
         K \subseteq Keys, Ordered(table, K, order)
  PROVE  /\ \A i \in DOMAIN table : RowId(table, table[i].key) = i
         /\ \A k \in K : RowId(table, k) \in Nat /\ (RowId(table, k) = 0 <=> order[k] = 0)
         /\ \A k, l \in K : RowId(table, k) < RowId(table, l) <=> order[k] < order[l]
         /\ \A k, l \in K : RowId(table, k) = RowId(table, l) <=> order[k] = order[l]
<1>1. DOMAIN table = 1..Len(table) /\ Len(table) \in Nat
  OBVIOUS
<1>2. ASSUME NEW i \in DOMAIN table PROVE RowId(table, table[i].key) = i
  <2>1. RowOf(table, table[i].key) = {i}
    BY OneRow DEF RowOf
  <2> QED BY <2>1 DEF RowId
<1>3. ASSUME NEW i \in DOMAIN table PROVE table[i].key \in K
  <2>1. table[i] \in Rows(K, V)
    BY <1>1
  <2> QED BY <2>1 DEF Rows
<1>4. ASSUME NEW k \in K, order[k] = 0 PROVE RowId(table, k) = 0
  BY <1>4 DEF RowId, RowOf, Ordered
<1>5. ASSUME NEW k \in K, order[k] # 0
      PROVE  \E i \in DOMAIN table : table[i].key = k /\ RowId(table, k) = i
  BY <1>2, <1>5 DEF Ordered
<1>6. ASSUME NEW k \in K PROVE RowId(table, k) \in Nat /\ (RowId(table, k) = 0 <=> order[k] = 0)
  BY <1>1, <1>4, <1>5
<1>7. ASSUME NEW k \in K, NEW l \in K
      PROVE  /\ RowId(table, k) < RowId(table, l) <=> order[k] < order[l]
             /\ RowId(table, k) = RowId(table, l) <=> order[k] = order[l]
  <2>1. order[k] \in Nat /\ order[l] \in Nat
    OBVIOUS
  <2>2. CASE order[k] = 0 \/ order[l] = 0
    BY <2>1, <2>2, <1>6
  <2>3. CASE order[k] # 0 /\ order[l] # 0
    <3>1. PICK i \in DOMAIN table : table[i].key = k /\ RowId(table, k) = i
      BY <2>3, <1>5
    <3>2. PICK j \in DOMAIN table : table[j].key = l /\ RowId(table, l) = j
      BY <2>3, <1>5
    <3>3. (i < j => order[k] < order[l]) /\ (j < i => order[l] < order[k]) /\ (i = j => k = l)
      BY <3>1, <3>2 DEF Ordered
    <3> QED BY <1>1, <2>1, <3>1, <3>2, <3>3
  <2> QED BY <2>2, <2>3
<1> QED BY <1>2, <1>6, <1>7

\* The task rows of two stores that agree.
LEMMA TaskRows ==
  ASSUME NEW m, NEW s, Agree(m, s)
  PROVE  /\ DOMAIN m.tasks = {s.tasks[i].key : i \in DOMAIN s.tasks}
         /\ DOMAIN m.tasks \subseteq TaskKeys
         /\ \A i \in DOMAIN s.tasks : /\ s.tasks[i].key \in DOMAIN m.tasks
                                      /\ m.tasks[s.tasks[i].key] = s.tasks[i].value
         /\ \A t \in DOMAIN m.tasks : \E i \in DOMAIN s.tasks :
              s.tasks[i].key = t /\ RowId(s.tasks, t) = i /\ s.tasks[i].value = m.tasks[t]
         /\ \A t \in DOMAIN m.tasks : m.tasks[t] \in TaskValues
<1>1. /\ s.tasks \in Seq(Rows(TaskKeys, TaskValues)) /\ m.order \in [Keys -> Nat]
      /\ TaskKeys \subseteq Keys /\ Ordered(s.tasks, TaskKeys, m.order)
      /\ DOMAIN m.tasks = {t \in TaskKeys : m.order[t] # 0}
      /\ \A i \in DOMAIN s.tasks : m.tasks[s.tasks[i].key] = s.tasks[i].value
  BY DEF Agree, MemStates, SqlStates, Keys
<1>2. ASSUME NEW i \in DOMAIN s.tasks PROVE s.tasks[i].key \in DOMAIN m.tasks
  <2>1. s.tasks[i] \in Rows(TaskKeys, TaskValues)
    BY <1>1
  <2>2. s.tasks[i].key \in TaskKeys
    BY <2>1 DEF Rows
  <2> QED BY <1>1, <2>2 DEF Ordered
<1>3. ASSUME NEW t \in DOMAIN m.tasks
      PROVE  \E i \in DOMAIN s.tasks :
               s.tasks[i].key = t /\ RowId(s.tasks, t) = i /\ s.tasks[i].value = m.tasks[t]
  <2>1. PICK i \in DOMAIN s.tasks : s.tasks[i].key = t
    BY <1>1 DEF Ordered
  <2>2. RowId(s.tasks, t) = i
    BY <1>1, <2>1, RowIds
  <2> QED BY <1>1, <2>1, <2>2
<1>4. ASSUME NEW t \in DOMAIN m.tasks PROVE m.tasks[t] \in TaskValues
  <2>1. PICK saved \in SUBSET TaskKeys : m.tasks \in [saved -> TaskValues]
    BY DEF Agree, MemStates
  <2> QED BY <2>1
<1> QED BY <1>1, <1>2, <1>3, <1>4

\* Any selection of tasks is sorted alike by the ranks and by the rowids.
LEMMA SortsAgree ==
  ASSUME NEW m, NEW s, Agree(m, s), NEW rows \in SUBSET DOMAIN m.tasks
  PROVE  MemSorted(m, rows) = SqlSorted(s, rows)
<1>1. /\ m.order \in [Keys -> Nat] /\ PlanKeys \subseteq Keys /\ TaskKeys \subseteq Keys
      /\ s.plans \in Seq(Rows(PlanKeys, PlanKeys)) /\ s.tasks \in Seq(Rows(TaskKeys, TaskValues))
      /\ Ordered(s.plans, PlanKeys, m.order) /\ Ordered(s.tasks, TaskKeys, m.order)
  BY DEF Agree, MemStates, SqlStates, Keys
<1>2. /\ \A k, l \in PlanKeys : /\ RowId(s.plans, k) < RowId(s.plans, l) <=> m.order[k] < m.order[l]
                                /\ RowId(s.plans, k) = RowId(s.plans, l) <=> m.order[k] = m.order[l]
      /\ \A k, l \in TaskKeys : RowId(s.tasks, k) < RowId(s.tasks, l) <=> m.order[k] < m.order[l]
  BY <1>1, RowIds
<1>3. ASSUME NEW t \in DOMAIN m.tasks
      PROVE  /\ SqlRank(s, t)[1] = RowId(s.plans, m.tasks[t].plan)
             /\ SqlRank(s, t)[2] = m.tasks[t].index
             /\ SqlRank(s, t)[3] = RowId(s.tasks, t)
             /\ MemRank(m, t)[1] = m.order[m.tasks[t].plan]
             /\ MemRank(m, t)[2] = m.tasks[t].index
             /\ MemRank(m, t)[3] = m.order[t]
             /\ m.tasks[t].plan \in PlanKeys /\ t \in TaskKeys
  <2>1. PICK i \in DOMAIN s.tasks :
          s.tasks[i].key = t /\ RowId(s.tasks, t) = i /\ s.tasks[i].value = m.tasks[t]
    BY TaskRows
  <2>2. m.tasks[t] \in TaskValues /\ t \in TaskKeys
    BY TaskRows
  <2>3. s.tasks[RowId(s.tasks, t)].value = m.tasks[t]
    BY <2>1
  <2> QED BY <2>2, <2>3 DEF SqlRank, MemRank, TaskValues
<1>4. ASSUME NEW t \in DOMAIN m.tasks, NEW u \in DOMAIN m.tasks
      PROVE  SortsBefore(MemRank(m, t), MemRank(m, u)) <=> SortsBefore(SqlRank(s, t), SqlRank(s, u))
  BY <1>2, <1>3 DEF SortsBefore
<1>5. {e \in rows \X rows : SortsBefore(MemRank(m, e[1]), MemRank(m, e[2]))}
        = {e \in rows \X rows : SortsBefore(SqlRank(s, e[1]), SqlRank(s, e[2]))}
  BY <1>4
<1> QED BY <1>5 DEF MemSorted, SqlSorted

\* A listing of no record is empty.
LEMMA EmptyListing == Listing({}, {}) = <<>>
<1>1. Cardinality({}) = 0
  BY FS_EmptySet
<1> DEFINE Sorts(list) == \A i, j \in DOMAIN list : i < j => <<list[i], list[j]>> \in {}
<1>2. \A list \in [1..0 -> {}] : list = <<>>
  OBVIOUS
<1>3. <<>> \in [1..0 -> {}] /\ Sorts(<<>>)
  OBVIOUS
<1> HIDE DEF Sorts
<1>4. (CHOOSE list \in [1..0 -> {}] : Sorts(list)) = <<>>
  BY <1>2, <1>3
<1> QED BY <1>1, <1>4 DEF Listing, Sorts

\* list_plans, in the order of the first insertions.
LEMMA PlansAgree ==
  ASSUME NEW m, NEW s, Agree(m, s)
  PROVE  MemPlans(m) = SqlPlans(s)
<1> DEFINE kept == {p \in PlanKeys : m.order[p] # 0}
           seq == [i \in DOMAIN s.plans |-> s.plans[i].key]
           rank == [p \in kept |-> m.order[p]]
           n == Len(s.plans)
           before == {e \in kept \X kept : m.order[e[1]] < m.order[e[2]]}
<1>1. /\ m.order \in [Keys -> Nat] /\ PlanKeys \subseteq Keys
      /\ s.plans \in Seq(Rows(PlanKeys, PlanKeys)) /\ Ordered(s.plans, PlanKeys, m.order)
  BY DEF Agree, MemStates, SqlStates, Keys
<1>2. n \in Nat /\ DOMAIN s.plans = 1..n
  BY <1>1
<1>3. ASSUME NEW i \in 1..n PROVE s.plans[i].key \in kept
  <2>1. s.plans[i] \in Rows(PlanKeys, PlanKeys)
    BY <1>1
  <2>2. s.plans[i].key \in PlanKeys
    BY <2>1 DEF Rows
  <2> QED BY <1>1, <1>2, <2>2 DEF Ordered
<1>4. seq \in [1..n -> kept] /\ rank \in [kept -> Nat]
  BY <1>1, <1>2, <1>3
<1>5. \A x \in kept : \E i \in 1..n : seq[i] = x
  BY <1>1, <1>2 DEF Ordered
<1>6. \A i, j \in 1..n : i < j => rank[seq[i]] < rank[seq[j]]
  BY <1>1, <1>2, <1>3 DEF Ordered
<1>7. before = {e \in kept \X kept : rank[e[1]] < rank[e[2]]}
  <2>1. \A e \in kept \X kept : rank[e[1]] = m.order[e[1]] /\ rank[e[2]] = m.order[e[2]]
    OBVIOUS
  <2> HIDE DEF rank, kept
  <2> QED BY <2>1
<1>8. MemPlans(m) = Listing(kept, before)
  BY DEF MemPlans
<1>9. SqlPlans(s) = seq
  BY DEF SqlPlans
<1> HIDE DEF kept, seq, rank, n, before
<1>10. Listing(kept, before) = seq
  <2>1. SortedBy(kept, n, seq, rank, before)
    BY <1>2, <1>4, <1>5, <1>6, <1>7 DEF SortedBy
  <2> QED BY <2>1, ListingIs
<1> QED BY <1>8, <1>9, <1>10

\* get_blob_for_task: the first record of an owner.
LEMMA FirstsAgree ==
  ASSUME NEW m, NEW s, Agree(m, s), NEW p \in PlanKeys
  PROVE  MemFirst(m, p) = SqlFirst(s, p)
<1> DEFINE owned == {t \in DOMAIN m.tasks : m.tasks[t].plan = p}
           rows == {i \in DOMAIN s.tasks : s.tasks[i].value.plan = p}
<1>1. /\ s.tasks \in Seq(Rows(TaskKeys, TaskValues)) /\ m.order \in [Keys -> Nat]
      /\ TaskKeys \subseteq Keys /\ Ordered(s.tasks, TaskKeys, m.order)
  BY DEF Agree, MemStates, SqlStates, Keys
<1>2. DOMAIN s.tasks \subseteq Nat
  BY <1>1
<1>3. ASSUME NEW i \in rows PROVE s.tasks[i].key \in owned
  BY TaskRows
<1>4. ASSUME NEW t \in owned PROVE \E i \in rows : s.tasks[i].key = t
  BY TaskRows
<1>5. ASSUME NEW i \in rows, NEW j \in rows
      PROVE  i <= j <=> m.order[s.tasks[i].key] <= m.order[s.tasks[j].key]
  <2>1. s.tasks[i].key \in Keys /\ s.tasks[j].key \in Keys
    BY <1>1, TaskRows
  <2>2. m.order[s.tasks[i].key] \in Nat /\ m.order[s.tasks[j].key] \in Nat
    BY <1>1, <2>1
  <2>3. /\ i < j => m.order[s.tasks[i].key] < m.order[s.tasks[j].key]
        /\ j < i => m.order[s.tasks[j].key] < m.order[s.tasks[i].key]
    BY <1>1 DEF Ordered
  <2> QED BY <1>2, <2>2, <2>3
<1>6. MemFirst(m, p) = {t \in owned : \A u \in owned : m.order[t] <= m.order[u]}
  BY DEF MemFirst
<1>7. SqlFirst(s, p) = {s.tasks[i].key : i \in {j \in rows : \A k \in rows : j <= k}}
  BY DEF SqlFirst
<1> HIDE DEF owned, rows
<1>8. ASSUME NEW t \in owned, \A u \in owned : m.order[t] <= m.order[u]
      PROVE  \E i \in rows : s.tasks[i].key = t /\ \A k \in rows : i <= k
  BY <1>3, <1>4, <1>5, <1>8
<1>9. ASSUME NEW i \in rows, \A k \in rows : i <= k
      PROVE  s.tasks[i].key \in owned /\ \A u \in owned : m.order[s.tasks[i].key] <= m.order[u]
  BY <1>3, <1>4, <1>5, <1>9
<1> QED BY <1>6, <1>7, <1>8, <1>9

\* list_tasks with a filter.
LEMMA FiltersAgree ==
  ASSUME NEW m, NEW s, Agree(m, s), NEW p \in PlanKeys, NEW wanted \in SUBSET Indexes
  PROVE  MemWhere(m, p, wanted) = SqlWhere(s, p, wanted)
<1> DEFINE kept == {t \in DOMAIN m.tasks : m.tasks[t].plan = p /\ m.tasks[t].index \in wanted}
           rows == {i \in DOMAIN s.tasks : s.tasks[i].value.plan = p /\ s.tasks[i].value.index \in wanted}
<1>1. kept = {s.tasks[i].key : i \in rows}
  <2>1. \A i \in rows : s.tasks[i].key \in kept
    BY TaskRows
  <2>2. \A t \in kept : \E i \in rows : s.tasks[i].key = t
    BY TaskRows
  <2> QED BY <2>1, <2>2
<1>2. MemWhere(m, p, wanted) = MemSorted(m, kept)
  BY DEF MemWhere
<1>3. SqlWhere(s, p, wanted) = IF wanted = {} THEN <<>> ELSE SqlSorted(s, {s.tasks[i].key : i \in rows})
  BY DEF SqlWhere
<1>4. CASE wanted = {}
  <2>1. kept = {}
    BY <1>4
  <2>2. MemSorted(m, {}) = Listing({}, {})
    BY DEF MemSorted
  <2> QED BY <1>2, <1>3, <1>4, <2>1, <2>2, EmptyListing
<1>5. CASE wanted # {}
  <2>1. kept \in SUBSET DOMAIN m.tasks
    OBVIOUS
  <2> HIDE DEF kept, rows
  <2> QED BY <1>1, <1>2, <1>3, <1>5, <2>1, SortsAgree
<1> QED BY <1>4, <1>5

\* list_audit_events: the chain of the one is in the order of the sequences of the other.
LEMMA PagesAgree ==
  ASSUME NEW m, NEW s, Agree(m, s), NEW after \in Int, NEW limit \in Int
  PROVE  MemAuditPage(m, after, limit) = SqlAuditPage(s, after, limit)
<1> DEFINE chain == m.audit
           places == {i \in DOMAIN chain : chain[i].sequence > after}
           wanted == {e \in s.audit : e.sequence > after}
           inChain == {<<chain[f[1]], chain[f[2]]>> : f \in {e \in places \X places : e[1] < e[2]}}
           bySequence == {f \in wanted \X wanted : f[1].sequence < f[2].sequence}
<1>1. /\ chain \in Seq(AuditEvents) /\ s.audit = {chain[i] : i \in DOMAIN chain} /\ Gapless(chain)
  BY DEF Agree, MemStates
<1>2. /\ DOMAIN chain = 1..Len(chain) /\ \A i \in DOMAIN chain : chain[i] \in AuditEvents
  BY <1>1
<1> HIDE DEF chain
<1>3. \A i \in DOMAIN chain : chain[i].sequence \in Nat
  BY <1>2 DEF AuditEvents
<1>4. wanted = {chain[i] : i \in places}
  BY <1>1
<1>5. \A i, j \in places : i < j <=> chain[i].sequence < chain[j].sequence
  BY <1>1, <1>2, <1>3 DEF Gapless
<1>6. inChain \subseteq bySequence
  <2> SUFFICES ASSUME NEW i \in places, NEW j \in places, i < j
               PROVE  <<chain[i], chain[j]>> \in bySequence
    OBVIOUS
  <2> QED BY <1>4, <1>5
<1>7. bySequence \subseteq inChain
  <2> SUFFICES ASSUME NEW x \in wanted, NEW y \in wanted, x.sequence < y.sequence
               PROVE  <<x, y>> \in inChain
    OBVIOUS
  <2>1. PICK i \in places : x = chain[i]
    BY <1>4
  <2>2. PICK j \in places : y = chain[j]
    BY <1>4
  <2>3. i < j
    BY <1>5, <2>1, <2>2
  <2>4. <<i, j>> \in {e \in places \X places : e[1] < e[2]}
    BY <2>3
  <2> QED BY <2>1, <2>2, <2>4
<1>8. MemAuditPage(m, after, limit)
        = LET rows == Listing({chain[i] : i \in places}, inChain)
          IN  SubSeq(rows, 1, Min({limit, Len(rows)}))
  BY DEF MemAuditPage, chain
<1>9. SqlAuditPage(s, after, limit)
        = LET rows == Listing(wanted, bySequence) IN SubSeq(rows, 1, Min({limit, Len(rows)}))
  BY DEF SqlAuditPage
<1>10. inChain = bySequence
  BY <1>6, <1>7
<1> HIDE DEF inChain, bySequence, wanted, places
<1> QED BY <1>4, <1>8, <1>9, <1>10

----------------------------------------------------------------------------
(* The theorems of the stores *)

\* Whatever the writes, the blocks, the exceptions and the crashes, the dictionaries and the tables
\* hold the same records in the same order (memory.py, sqlite_store.py).
THEOREM StoresStayAlike == StoreSpec => []StoresAgree
<1>1. StoreInit => StoresAgree
  <2> SUFFICES ASSUME StoreInit PROVE StoresAgree
    OBVIOUS
  <2>1. snapshots = <<>> /\ marks = <<>> /\ depth = 0 /\ mem = EmptyMem /\ sql = EmptySql /\ file = EmptySql
    BY DEF StoreInit
  <2> QED BY <2>1, EmptyAgree DEF StoresAgree
<1> QED BY <1>1, StoresAgreeStep, PTL DEF StoreSpec

\* Every listing of the tables answers what the dictionaries answer, in the same order: for any
\* number of keys, events, writes and nested blocks, what the tests establish on one store holds
\* on the other.
THEOREM AnswersAreTheSame == StoreSpec => []SameAnswers
<1>1. StoresAgree => SameAnswers
  <2> SUFFICES ASSUME StoresAgree PROVE SameAnswers
    OBVIOUS
  <2>1. Agree(mem, sql)
    BY DEF StoresAgree
  <2>2. MemPlans(mem) = SqlPlans(sql)
    BY <2>1, PlansAgree
  <2>3. MemTasks(mem) = SqlTasks(sql)
    BY <2>1, TaskRows, SortsAgree DEF MemTasks, SqlTasks
  <2>4. \A i \in DOMAIN sql.tasks : mem.tasks[sql.tasks[i].key] = sql.tasks[i].value
    BY <2>1 DEF Agree
  <2>5. ToSet(mem.audit) = sql.audit
    BY <2>1 DEF Agree, ToSet
  <2>6. \A p \in PlanKeys : MemFirst(mem, p) = SqlFirst(sql, p)
    BY <2>1, FirstsAgree
  <2>7. \A p \in PlanKeys, wanted \in SUBSET Indexes :
          MemWhere(mem, p, wanted) = SqlWhere(sql, p, wanted)
    BY <2>1, FiltersAgree
  <2>8. \A n \in 1..MaxEvents, e \in Events : MemAppends(mem, n, e) <=> SqlAppends(sql, n, e)
    BY <2>1, AppendsAlike
  <2>9. \A n, limit \in 0..MaxEvents : MemAuditPage(mem, n, limit) = SqlAuditPage(sql, n, limit)
    BY <2>1, PagesAgree
  <2> QED BY <2>2, <2>3, <2>4, <2>5, <2>6, <2>7, <2>8, <2>9 DEF SameAnswers
<1> QED BY <1>1, StoresStayAlike, PTL

\* The audit trail has no gap and no event twice, whatever is undone (append_audit_event): a block
\* that is rolled back gives its sequences back.
THEOREM TrailKeepsNoGap == StoreSpec => []TrailHasNoGap
<1>1. StoresAgree => TrailHasNoGap
  BY DEF StoresAgree, Agree, Gapless, TrailHasNoGap
<1> QED BY <1>1, StoresStayAlike, PTL

----------------------------------------------------------------------------
(* The correction request *)

Refusals ==
  [expected : ExpectedSets, attempted : Attempts, excerpt : Excerpts, details : Details,
   rejected : RejectedIds]

\* The errors of a refusal weigh what its details weigh.
LEMMA ErrorsType ==
  ASSUME NEW details \in Details
  PROVE  Errors(details) \in Seq(Nat) /\ Added(Errors(details)) = Added(details.entries)
<1>1. details.entries \in Seq(Nat)
  BY CorrectionAssumption
<1>2. Added(details.entries) \in Nat
  BY <1>1, AddedType
<1>3. <<Added(details.entries)>> \in Seq(Nat) /\ Added(<<Added(details.entries)>>) = Added(details.entries)
  BY <1>2, AddedOne
<1> QED BY <1>1, <1>3 DEF Errors

LEMMA ReminderType ==
  ASSUME NEW expected
  PROVE  Reminder(expected) \in Nat
<1> DEFINE shapes == [i \in DOMAIN Preference |->
                        IF Preference[i] \in expected THEN Shape(Preference[i]) ELSE 0]
<1>1. Preference \in Seq(STRING) /\ DigestBytes \in [ToSet(Preference) -> Nat] /\ HintBytes \in Nat
  BY CorrectionAssumption
<1>2. \A i \in DOMAIN Preference : DigestBytes[Preference[i]] \in Nat
  BY <1>1 DEF ToSet
<1>3. DOMAIN Preference = 1..Len(Preference) /\ Len(Preference) \in Nat
  BY <1>1
<1>4. shapes \in [1..Len(Preference) -> Nat]
  BY <1>2, <1>3 DEF Shape
<1>5. shapes \in Seq(Nat)
  <2> HIDE DEF shapes
  <2> QED BY <1>3, <1>4
<1>6. Added(shapes) \in Nat
  BY <1>5, AddedType
<1> QED BY <1>1, <1>6 DEF Reminder

\* The example is of an expected type, the attempted one when it is; there is none only when
\* nothing is expected.
LEMMA ExampleExpected ==
  ASSUME NEW r \in Refusals
  PROVE  /\ ExampleBytes(Example(r.expected, r.attempted)) \in Nat
         /\ r.expected = {} => Example(r.expected, r.attempted) = "none"
         /\ r.expected # {} => /\ Example(r.expected, r.attempted) \in r.expected
                               /\ Example(r.expected, r.attempted) # "none"
         /\ r.attempted \in r.expected => Example(r.expected, r.attempted) = r.attempted
<1> DEFINE expected == r.expected
           kept == InOrder(expected)
<1>1. expected \subseteq ToSet(Preference)
  BY CorrectionAssumption DEF Refusals
<1>2. "none" \notin ToSet(Preference) /\ ContentBytes \in [ToSet(Preference) -> Nat]
      /\ Preference \in Seq(STRING)
  BY CorrectionAssumption
<1>3. ASSUME expected # {} PROVE Head(kept) \in expected
  <2>1. PICK type \in expected : type \in ToSet(Preference)
    BY <1>1, <1>3
  <2>2. PICK i \in DOMAIN Preference : Preference[i] \in expected
    BY <2>1 DEF ToSet
  <2>3. PicksWanted(Preference, expected, Len(Preference), kept)
    BY <1>2, SelectedWanted DEF InOrder
  <2> HIDE DEF kept, expected
  <2>4. DOMAIN Preference = 1..Len(Preference)
    BY <1>2
  <2>5. kept \in Seq(expected) /\ DOMAIN kept # {}
    BY <2>2, <2>3, <2>4 DEF PicksWanted
  <2> QED BY <2>5
<1>4. expected # {} => Example(expected, r.attempted) \in expected
  BY <1>3 DEF Example
<1>5. expected = {} => Example(expected, r.attempted) = "none"
  BY DEF Example
<1>6. r.attempted \in expected => Example(expected, r.attempted) = r.attempted
  BY DEF Example
<1> HIDE DEF expected
<1>7. ExampleBytes(Example(expected, r.attempted)) \in Nat
  BY <1>1, <1>2, <1>4, <1>5 DEF ExampleBytes
<1> QED BY <1>1, <1>2, <1>4, <1>5, <1>6, <1>7 DEF expected

\* What is left of each part of a request after k shrink steps.
ErrorsAfter(r, k) ==
  IF k < 3 THEN Errors(r.details) ELSE IF k = 3 THEN FirstOf(Errors(r.details)) ELSE <<>>
ReminderAfter(r, k) ==
  IF k < 5 THEN Reminder(r.expected)
  ELSE IF k < 7 THEN Shorter(Reminder(r.expected), ShortReminder) ELSE 0
ExampleAfter(r, k) == IF k < 6 THEN Example(r.expected, r.attempted) ELSE "none"
ExcerptAfter(r, k) ==
  IF k = 0 THEN r.excerpt ELSE IF k = 1 THEN Shorter(r.excerpt, ShortExcerpt) ELSE 0

FieldsAfter(r, k) ==
  [errors |-> ErrorsAfter(r, k), reminder |-> ReminderAfter(r, k),
   example |-> ExampleAfter(r, k), excerpt |-> ExcerptAfter(r, k)]

BytesAfter(r, k) ==
  Fixed + r.rejected + Added(ErrorsAfter(r, k)) + ReminderAfter(r, k) + ExcerptAfter(r, k)
  + ExampleBytes(ExampleAfter(r, k))

\* The request is the whole one less the steps applied, and each was applied to a request over
\* the cap.
CorrectionInv ==
  correcting # "idle" =>
    /\ refusal \in Refusals /\ shrunk \in 0..7 /\ fields = FieldsAfter(refusal, shrunk)
    /\ \A k \in 0..shrunk - 1 : BytesAfter(refusal, k) > MaxCorrection
    /\ correcting = "built" => BytesAfter(refusal, shrunk) <= MaxCorrection \/ shrunk = 7

LEMMA SizeIsBytes ==
  ASSUME NEW k, fields = FieldsAfter(refusal, k)
  PROVE  CorrectionSize(fields) = BytesAfter(refusal, k)
BY DEF FieldsAfter, BytesAfter, CorrectionSize

\* One shrink step more.
LEMMA ShrinkAfter ==
  ASSUME NEW r, NEW k \in 0..6
  PROVE  /\ Len(ShrinkSteps(FieldsAfter(r, k))) = 7
         /\ ShrinkSteps(FieldsAfter(r, k))[k + 1] = FieldsAfter(r, k + 1)
<1> DEFINE f == FieldsAfter(r, k)
<1>1. CASE k = 0
  BY <1>1 DEF ShrinkSteps, FieldsAfter, ErrorsAfter, ReminderAfter, ExampleAfter, ExcerptAfter
<1>2. CASE k = 1
  BY <1>2 DEF ShrinkSteps, FieldsAfter, ErrorsAfter, ReminderAfter, ExampleAfter, ExcerptAfter
<1>3. CASE k = 2
  BY <1>3 DEF ShrinkSteps, FieldsAfter, ErrorsAfter, ReminderAfter, ExampleAfter, ExcerptAfter
<1>4. CASE k = 3
  BY <1>4 DEF ShrinkSteps, FieldsAfter, ErrorsAfter, ReminderAfter, ExampleAfter, ExcerptAfter
<1>5. CASE k = 4
  BY <1>5 DEF ShrinkSteps, FieldsAfter, ErrorsAfter, ReminderAfter, ExampleAfter, ExcerptAfter
<1>6. CASE k = 5
  BY <1>6 DEF ShrinkSteps, FieldsAfter, ErrorsAfter, ReminderAfter, ExampleAfter, ExcerptAfter
<1>7. CASE k = 6
  BY <1>7 DEF ShrinkSteps, FieldsAfter, ErrorsAfter, ReminderAfter, ExampleAfter, ExcerptAfter
<1> QED BY <1>1, <1>2, <1>3, <1>4, <1>5, <1>6, <1>7

LEMMA CorrectionStarts == DocInit => CorrectionInv
<1> SUFFICES ASSUME DocInit, correcting # "idle" PROVE CorrectionInv
  BY DEF CorrectionInv
<1>1. CorrectionInit
  BY DEF DocInit, CorrectionIdle
<1>2. refusal \in Refusals /\ shrunk = 0 /\ correcting = "shrink"
  BY <1>1 DEF CorrectionInit, Refusals
<1>3. fields = FieldsAfter(refusal, 0)
  BY <1>1 DEF CorrectionInit, Composed, FieldsAfter, ErrorsAfter, ReminderAfter, ExampleAfter,
    ExcerptAfter
<1> QED BY <1>2, <1>3 DEF CorrectionInv

LEMMA CorrectionStep == CorrectionInv /\ [DocNext]_docVars => CorrectionInv'
<1> SUFFICES ASSUME CorrectionInv, [DocNext]_docVars PROVE CorrectionInv'
  OBVIOUS
<1>1. CASE UNCHANGED correctionVars
  BY <1>1 DEF CorrectionInv, correctionVars, FieldsAfter, BytesAfter, ErrorsAfter, ReminderAfter,
    ExampleAfter, ExcerptAfter
<1>2. CASE Shrink
  <2>1. /\ correcting = "shrink" /\ correcting' = correcting /\ refusal' = refusal
        /\ CorrectionSize(fields) > MaxCorrection /\ shrunk' = shrunk + 1
        /\ shrunk < Len(ShrinkSteps(fields)) /\ fields' = ShrinkSteps(fields)[shrunk + 1]
    BY <1>2 DEF Shrink
  <2>2. /\ refusal \in Refusals /\ shrunk \in 0..7 /\ fields = FieldsAfter(refusal, shrunk)
        /\ \A k \in 0..shrunk - 1 : BytesAfter(refusal, k) > MaxCorrection
    BY <2>1 DEF CorrectionInv
  <2>3. shrunk \in 0..6
    <3>1. Len(ShrinkSteps(fields)) = 7
      BY DEF ShrinkSteps
    <3> QED BY <2>1, <2>2, <3>1
  <2>4. fields' = FieldsAfter(refusal, shrunk + 1)
    BY <2>1, <2>2, <2>3, ShrinkAfter
  <2>5. BytesAfter(refusal, shrunk) > MaxCorrection
    BY <2>1, <2>2, SizeIsBytes
  <2>6. \A k \in 0..shrunk' - 1 : BytesAfter(refusal, k) > MaxCorrection
    BY <2>1, <2>2, <2>3, <2>5
  <2>7. /\ fields' = FieldsAfter(refusal', shrunk')
        /\ \A k \in 0..shrunk' - 1 : BytesAfter(refusal', k) > MaxCorrection
    BY <2>1, <2>4, <2>6
  <2>8. CorrectionInv' = (correcting' # "idle" =>
          /\ refusal' \in Refusals /\ shrunk' \in 0..7 /\ fields' = FieldsAfter(refusal', shrunk')
          /\ \A k \in 0..shrunk' - 1 : BytesAfter(refusal', k) > MaxCorrection
          /\ correcting' = "built" => BytesAfter(refusal', shrunk') <= MaxCorrection \/ shrunk' = 7)
    BY DEF CorrectionInv, Refusals, FieldsAfter, BytesAfter, ErrorsAfter, ReminderAfter,
      ExampleAfter, ExcerptAfter
  <2>9. refusal' \in Refusals /\ shrunk' \in 0..7 /\ correcting' = "shrink"
    BY <2>1, <2>2, <2>3
  <2> QED BY <2>7, <2>8, <2>9
<1>3. CASE Built
  <2>1. /\ correcting = "shrink" /\ correcting' = "built" /\ refusal' = refusal
        /\ shrunk' = shrunk /\ fields' = fields
        /\ CorrectionSize(fields) <= MaxCorrection \/ shrunk = Len(ShrinkSteps(fields))
    BY <1>3 DEF Built
  <2>2. Len(ShrinkSteps(fields)) = 7
    BY DEF ShrinkSteps
  <2>3. CorrectionSize(fields) = BytesAfter(refusal, shrunk)
    BY <2>1, SizeIsBytes DEF CorrectionInv
  <2> QED BY <2>1, <2>2, <2>3 DEF CorrectionInv, FieldsAfter, BytesAfter, ErrorsAfter,
        ReminderAfter, ExampleAfter, ExcerptAfter
<1> QED BY <1>1, <1>2, <1>3 DEF DocNext, docVars, CorrectionNext

\* ADR-023: a built request is under the cap unless the id it quotes is too large by itself, and has
\* given up no more than it had to.
LEMMA BuiltFits == CorrectionInv => CorrectionFits
<1> SUFFICES ASSUME CorrectionInv, correcting = "built" PROVE CorrectionFits
  BY DEF CorrectionFits
<1> DEFINE r == refusal
           k == shrunk
           least == Fixed + r.rejected
           errors == Errors(r.details)
           reminder == Reminder(r.expected)
           short == Shorter(reminder, ShortReminder)
           example == Example(r.expected, r.attempted)
           shape == ExampleBytes(example)
<1>1. /\ r \in Refusals /\ k \in 0..7 /\ fields = FieldsAfter(r, k)
      /\ \A j \in 0..k - 1 : BytesAfter(r, j) > MaxCorrection
      /\ BytesAfter(r, k) <= MaxCorrection \/ k = 7
  BY DEF CorrectionInv
<1>2. /\ fields.errors = ErrorsAfter(r, k) /\ fields.reminder = ReminderAfter(r, k)
      /\ fields.example = ExampleAfter(r, k)
      /\ CorrectionSize(fields) = BytesAfter(r, k)
  BY <1>1, SizeIsBytes DEF FieldsAfter
<1>3. /\ {Fixed, MaxCorrection, ShortReminder, r.rejected, r.excerpt} \subseteq Nat
      /\ r.details \in Details
  BY <1>1, CorrectionAssumption DEF Refusals
<1>4. errors \in Seq(Nat) /\ Added(errors) = Added(r.details.entries) /\ Added(errors) \in Nat
  BY <1>3, ErrorsType, AddedType
<1>5. reminder \in Nat /\ short \in Nat /\ short <= reminder
  BY <1>3, ReminderType DEF Shorter
<1>6. /\ shape \in Nat
      /\ r.expected = {} => example = "none"
      /\ r.expected # {} => example \in r.expected /\ example # "none"
      /\ r.attempted \in r.expected => example = r.attempted
  BY <1>1, ExampleExpected
<1>7. Added(<<>>) = 0 /\ ExampleBytes("none") = 0
  BY AddedEmpty DEF ExampleBytes
<1>8. errors # <<>> => FirstOf(errors) = <<errors[1]>> /\ errors[1] \in Nat
                       /\ Added(FirstOf(errors)) = errors[1]
  <2>1. errors # <<>> => FirstOf(errors) = <<errors[1]>> /\ errors[1] \in Nat
    <3> HIDE DEF errors
    <3> QED BY <1>4 DEF FirstOf
  <2> HIDE DEF errors
  <2> QED BY <2>1, AddedOne
<1>9. /\ BytesAfter(r, 2) = least + Added(errors) + reminder + shape
      /\ BytesAfter(r, 3) = least + Added(FirstOf(errors)) + reminder + shape
      /\ BytesAfter(r, 5) = least + short + shape
      /\ BytesAfter(r, 6) = least + short
      /\ BytesAfter(r, 7) = least
  <2> DEFINE first == FirstOf(errors)
  <2>1. Added(first) \in Nat
    BY <1>4, <1>7, <1>8 DEF FirstOf
  <2>2. BytesAfter(r, 2) = Fixed + r.rejected + Added(errors) + reminder + 0 + shape
    BY DEF BytesAfter, ErrorsAfter, ReminderAfter, ExampleAfter, ExcerptAfter
  <2>3. BytesAfter(r, 3) = Fixed + r.rejected + Added(first) + reminder + 0 + shape
    BY DEF BytesAfter, ErrorsAfter, ReminderAfter, ExampleAfter, ExcerptAfter
  <2>4. BytesAfter(r, 5) = Fixed + r.rejected + Added(<<>>) + short + 0 + shape
    BY DEF BytesAfter, ErrorsAfter, ReminderAfter, ExampleAfter, ExcerptAfter
  <2>5. BytesAfter(r, 6) = Fixed + r.rejected + Added(<<>>) + short + 0 + ExampleBytes("none")
    BY DEF BytesAfter, ErrorsAfter, ReminderAfter, ExampleAfter, ExcerptAfter
  <2>6. BytesAfter(r, 7) = Fixed + r.rejected + Added(<<>>) + 0 + 0 + ExampleBytes("none")
    BY DEF BytesAfter, ErrorsAfter, ReminderAfter, ExampleAfter, ExcerptAfter
  <2>7. Fixed \in Nat /\ r.rejected \in Nat
    BY <1>3
  <2> HIDE DEF errors, reminder, short, shape, first
  <2>8. BytesAfter(r, 2) = least + Added(errors) + reminder + shape
    BY <1>4, <1>5, <1>6, <2>2, <2>7
  <2>9. BytesAfter(r, 3) = least + Added(first) + reminder + shape
    BY <1>5, <1>6, <2>1, <2>3, <2>7
  <2>10. BytesAfter(r, 5) = least + short + shape
    BY <1>5, <1>6, <1>7, <2>4, <2>7
  <2>11. BytesAfter(r, 6) = least + short /\ BytesAfter(r, 7) = least
    BY <1>5, <1>7, <2>5, <2>6, <2>7
  <2> QED BY <2>8, <2>9, <2>10, <2>11 DEF first
<1>10. \A j \in 0..6 : j < k => BytesAfter(r, j) > MaxCorrection
  BY <1>1
<1>11. least <= MaxCorrection => CorrectionSize(fields) <= MaxCorrection
  BY <1>1, <1>2, <1>9
<1>12. Len(fields.errors) < Len(errors) =>
         least + reminder + shape + Added(r.details.entries) > MaxCorrection
  <2>1. Len(fields.errors) < Len(errors) => k >= 3
    <3>1. Len(errors) \in Nat
      <4> HIDE DEF errors
      <4> QED BY <1>4
    <3> QED BY <1>1, <1>2, <3>1 DEF ErrorsAfter
  <2>2. k >= 3 => BytesAfter(r, 2) > MaxCorrection
    BY <1>1, <1>10
  <2> HIDE DEF errors, reminder, shape
  <2>3. Fixed \in Nat /\ r.rejected \in Nat
    BY <1>3
  <2>4. Added(r.details.entries) = Added(errors) /\ Added(errors) \in Nat
    BY <1>4
  <2>5. BytesAfter(r, 2) = least + Added(errors) + reminder + shape
    BY <1>9
  <2>6. least + Added(errors) + reminder + shape = least + reminder + shape + Added(r.details.entries)
    BY <1>5, <1>6, <2>3, <2>4
  <2> HIDE DEF k, least
  <2> QED BY <2>1, <2>2, <2>5, <2>6
<1>13. fields.errors = <<>> /\ errors # <<>> => least + reminder + shape + errors[1] > MaxCorrection
  <2>1. fields.errors = <<>> /\ errors # <<>> => k >= 4
    <3>1. errors # <<>> => FirstOf(errors) # <<>>
      <4>1. \A e : <<e>> # <<>>
        OBVIOUS
      <4> HIDE DEF errors
      <4> QED BY <1>8, <4>1
    <3> QED BY <1>1, <1>2, <3>1 DEF ErrorsAfter
  <2>2. k >= 4 => BytesAfter(r, 3) > MaxCorrection
    BY <1>1, <1>10
  <2>3. Fixed \in Nat /\ r.rejected \in Nat
    BY <1>3
  <2>4. errors # <<>> => errors[1] \in Nat /\ Added(FirstOf(errors)) = errors[1]
    BY <1>8
  <2>5. BytesAfter(r, 3) = least + Added(FirstOf(errors)) + reminder + shape
    BY <1>9
  <2> HIDE DEF errors, reminder, shape
  <2>6. errors # <<>> =>
          least + Added(FirstOf(errors)) + reminder + shape = least + reminder + shape + errors[1]
    BY <1>5, <1>6, <2>3, <2>4
  <2> HIDE DEF k, least
  <2> QED BY <2>1, <2>2, <2>5, <2>6
<1>14. fields.reminder < short => least + short > MaxCorrection
  <2>1. fields.reminder < short => k = 7
    <3> HIDE DEF reminder
    <3>1. k < 5 => ReminderAfter(r, k) = reminder
      BY DEF ReminderAfter, reminder
    <3>2. k >= 5 /\ k < 7 => ReminderAfter(r, k) = short
      BY <1>1 DEF ReminderAfter, reminder
    <3> HIDE DEF short
    <3> QED BY <1>1, <1>2, <1>5, <3>1, <3>2
  <2>2. k = 7 => BytesAfter(r, 6) > MaxCorrection
    BY <1>10
  <2> QED BY <1>9, <2>1, <2>2
<1>15. fields.example # "none" =>
         /\ fields.example \in r.expected
         /\ r.attempted \in r.expected => fields.example = r.attempted
  <2>1. fields.example # "none" => fields.example = example
    BY <1>2 DEF ExampleAfter
  <2> HIDE DEF example
  <2> QED BY <1>6, <2>1
<1>16. fields.example = "none" /\ r.expected # {} => least + short + shape > MaxCorrection
  <2>1. fields.example = "none" /\ r.expected # {} => k >= 6
    <3>1. k < 6 => fields.example = example
      BY <1>2 DEF ExampleAfter
    <3> HIDE DEF example
    <3> QED BY <1>1, <1>6, <3>1
  <2>2. k >= 6 => BytesAfter(r, 5) > MaxCorrection
    BY <1>1, <1>10
  <2> QED BY <1>9, <2>1, <2>2
<1> HIDE DEF k
<1> QED BY <1>11, <1>12, <1>13, <1>14, <1>15, <1>16 DEF CorrectionFits

\* The correction request gives up no more than it must to fit payload.max_message_bytes
\* (build_protocol_correction_request), whatever was refused and whatever the sizes.
THEOREM CorrectionsFit == DocSpec => []CorrectionFits
<1>1. DocSpec => []CorrectionInv
  BY CorrectionStarts, CorrectionStep, PTL DEF DocSpec
<1> QED BY <1>1, BuiltFits, PTL

----------------------------------------------------------------------------
(* The summary of a rotation *)

\* A nonempty set of places in a list has a last member.
LEMMA LastNumber ==
  ASSUME NEW n \in Nat, NEW S \in SUBSET (1..n), S # {}
  PROVE  \E x \in S : \A y \in S : y <= x
<1> DEFINE T == {n - x : x \in S}
<1>1. T \in SUBSET Nat /\ T # {}
  <2>1. \A x \in S : n - x \in Nat
    OBVIOUS
  <2>2. PICK x \in S : TRUE
    OBVIOUS
  <2>3. n - x \in T
    OBVIOUS
  <2> QED BY <2>1, <2>3
<1>2. PICK m \in T : \A k \in T : m <= k
  <2> HIDE DEF T
  <2> QED BY <1>1, LeastNumber
<1>3. PICK x \in S : m = n - x
  BY <1>2
<1>4. \A y \in S : n - y \in T
  OBVIOUS
<1>5. \A y \in S : y \in 1..n
  OBVIOUS
<1> HIDE DEF T
<1> QED BY <1>2, <1>3, <1>4, <1>5

\* The plans of the session, those still open, and those the child must have.
Session(list) == [i \in DOMAIN list |-> i]
OpenPlans == {i \in DOMAIN plans : plans[i].open}
MustKeep == OpenPlans \cup LastEnded(Session(plans))
Lost == {t \in OutputTasks : outputs[t].truncated /\ outputs[t].from > 0 /\ outputs[t].size > 0}

\* What is left of the summary after k reductions, and its bytes.
LedgerAfter(k) == IF k < 2 THEN Session(plans) ELSE Selected(Session(plans), MustKeep)
DraftOf(base, ledger, commands, withPending) ==
  [base |-> base, ledger |-> ledger, commands |-> commands, pending |-> Lost,
   withPending |-> withPending]
DraftAfter(base, k) ==
  DraftOf(base, LedgerAfter(k), IF k = 0 THEN TRUE ELSE FALSE, IF k < 3 THEN TRUE ELSE FALSE)
LedgerBytes(ledger, k) ==
  Added([i \in DOMAIN ledger |-> PlanBytes + IF k = 0 THEN plans[ledger[i]].cmds ELSE 0])
SummaryAfter(base, k) ==
  base + LedgerBytes(LedgerAfter(k), k) + (IF k < 3 THEN PendingBytes * Cardinality(Lost) ELSE 0)

\* The summary is the whole one less the reductions applied, and each was applied to a summary
\* over the budget.
SummaryInv ==
  composing # "idle" =>
    /\ plans \in Seq(Plans) /\ draft.base \in Nat /\ reduction \in 0..3
    /\ draft = DraftAfter(draft.base, reduction)
    /\ \A k \in 0..reduction - 1 : SummaryAfter(draft.base, k) > SummaryBudget
    /\ composing = "composed" => SummaryAfter(draft.base, reduction) <= SummaryBudget
    /\ composing = "refused" => reduction = 3 /\ SummaryAfter(draft.base, 3) > SummaryBudget

LEMMA SessionType ==
  ASSUME plans \in Seq(Plans)
  PROVE  /\ Session(plans) \in Seq(DOMAIN plans) /\ Session(plans) \in Seq(Nat)
         /\ DOMAIN Session(plans) = DOMAIN plans /\ ToSet(Session(plans)) = DOMAIN plans
         /\ Ascending(Session(plans))
         /\ DOMAIN plans = 1..Len(plans) /\ Len(plans) \in Nat
         /\ \A i \in DOMAIN plans : plans[i].open \in BOOLEAN /\ plans[i].cmds \in Nat
<1>1. DOMAIN plans = 1..Len(plans) /\ Len(plans) \in Nat
  OBVIOUS
<1>2. DOMAIN Session(plans) = DOMAIN plans /\ \A i \in DOMAIN plans : Session(plans)[i] = i
  BY DEF Session
<1>3. Session(plans) \in [1..Len(plans) -> DOMAIN plans] /\ Session(plans) \in [1..Len(plans) -> Nat]
  BY <1>1 DEF Session
<1>4. Session(plans) \in Seq(DOMAIN plans) /\ Session(plans) \in Seq(Nat)
  BY <1>1, <1>3, IsList
<1>5. ToSet(Session(plans)) = DOMAIN plans
  BY <1>2 DEF ToSet
<1>6. Ascending(Session(plans))
  BY <1>1, <1>2 DEF Ascending
<1>7. ASSUME NEW i \in DOMAIN plans PROVE plans[i].open \in BOOLEAN /\ plans[i].cmds \in Nat
  <2>1. plans[i] \in [open : BOOLEAN, cmds : Nat]
    BY <1>1, SummaryAssumption
  <2> QED BY <2>1
<1> QED BY <1>1, <1>2, <1>4, <1>5, <1>6, <1>7

LEMMA SizeIsAfter ==
  ASSUME NEW base, NEW k \in 0..3, draft = DraftAfter(base, k)
  PROVE  SummarySize(draft) = SummaryAfter(base, k) /\ draft.base = base
<1>1. /\ draft.base = base /\ draft.ledger = LedgerAfter(k) /\ draft.commands = (IF k = 0 THEN TRUE ELSE FALSE)
      /\ draft.pending = Lost /\ draft.withPending = (IF k < 3 THEN TRUE ELSE FALSE)
  BY DEF DraftAfter, DraftOf
<1>2. (IF draft.withPending THEN PendingBytes * Cardinality(draft.pending) ELSE 0) =
        IF k < 3 THEN PendingBytes * Cardinality(Lost) ELSE 0
  BY <1>1
<1>3. [i \in DOMAIN draft.ledger |->
         PlanBytes + IF draft.commands THEN plans[draft.ledger[i]].cmds ELSE 0] =
      [i \in DOMAIN LedgerAfter(k) |->
         PlanBytes + IF k = 0 THEN plans[LedgerAfter(k)[i]].cmds ELSE 0]
  BY <1>1
<1> QED BY <1>1, <1>2, <1>3 DEF SummaryAfter, LedgerBytes, SummarySize

LEMMA DraftFields ==
  ASSUME NEW base, NEW k \in 0..3, draft = DraftAfter(base, k)
  PROVE  /\ draft.ledger = LedgerAfter(k) /\ draft.pending = Lost
         /\ ~draft.commands => k > 0
         /\ ~draft.withPending => k = 3
<1>1. draft.ledger = LedgerAfter(k) /\ draft.pending = Lost
  BY DEF DraftAfter, DraftOf
<1>2. ~draft.commands => k > 0
  BY DEF DraftAfter, DraftOf
<1>3. ~draft.withPending => k = 3
  BY DEF DraftAfter, DraftOf
<1> QED BY <1>1, <1>2, <1>3

LEMMA CommandsChanged ==
  ASSUME NEW base, NEW ledger, NEW c, NEW p, NEW b
  PROVE  [DraftOf(base, ledger, c, p) EXCEPT !.commands = b] = DraftOf(base, ledger, b, p)
BY DEF DraftOf

LEMMA PendingChanged ==
  ASSUME NEW base, NEW ledger, NEW c, NEW p, NEW b
  PROVE  [DraftOf(base, ledger, c, p) EXCEPT !.withPending = b] = DraftOf(base, ledger, c, b)
BY DEF DraftOf

LEMMA LedgerChanged ==
  ASSUME NEW base, NEW ledger, NEW c, NEW p, NEW b
  PROVE  [DraftOf(base, ledger, c, p) EXCEPT !.ledger = b] = DraftOf(base, b, c, p)
BY DEF DraftOf

\* One reduction more.
LEMMA ReduceAfter ==
  ASSUME NEW base, NEW k \in 0..2, plans \in Seq(Plans)
  PROVE  Reduced(DraftAfter(base, k), k + 1) = DraftAfter(base, k + 1)
<1> DEFINE yes == TRUE
           no == FALSE
           whole == Session(plans)
           kept == Selected(whole, MustKeep)
           first == DraftOf(base, whole, yes, yes)
           second == DraftOf(base, whole, no, yes)
           third == DraftOf(base, kept, no, yes)
           fourth == DraftOf(base, kept, no, no)
<1>1. /\ DraftAfter(base, 0) = first /\ DraftAfter(base, 1) = second
      /\ DraftAfter(base, 2) = third /\ DraftAfter(base, 3) = fourth
  BY DEF DraftAfter, LedgerAfter
<1>2. {i \in ToSet(whole) : plans[i].open} \cup LastEnded(whole) = MustKeep
  BY SessionType DEF MustKeep, OpenPlans
<1>6. ASSUME NEW d
      PROVE  /\ Reduced(d, 1) = [d EXCEPT !.commands = no]
             /\ Reduced(d, 2) = [d EXCEPT !.ledger =
                   Selected(@, {i \in ToSet(@) : plans[i].open} \cup LastEnded(@))]
             /\ Reduced(d, 3) = [d EXCEPT !.withPending = no]
  BY DEF Reduced
<1> HIDE DEF yes, no
<1>3. [first EXCEPT !.commands = no] = second
  <2> HIDE DEF whole
  <2> QED BY CommandsChanged
<1>4. [second EXCEPT !.ledger =
         Selected(@, {i \in ToSet(@) : plans[i].open} \cup LastEnded(@))] = third
  <2> DEFINE Step(l) == Selected(l, {i \in ToSet(l) : plans[i].open} \cup LastEnded(l))
  <2>1. Step(whole) = kept
    BY <1>2
  <2> HIDE DEF whole, kept
  <2>2. second.ledger = whole
    BY DEF DraftOf
  <2>3. [second EXCEPT !.ledger = kept] = third
    BY LedgerChanged
  <2> HIDE DEF second, third
  <2>4. Step(second.ledger) = kept
    BY <2>1, <2>2
  <2>5. [second EXCEPT !.ledger = Step(second.ledger)] = third
    <3> HIDE DEF Step
    <3> QED BY <2>3, <2>4
  <2> QED BY <2>5
<1>5. [third EXCEPT !.withPending = no] = fourth
  <2> HIDE DEF kept
  <2> QED BY PendingChanged
<1> HIDE DEF first, second, third, fourth
<1>7. Reduced(first, 1) = second /\ Reduced(second, 2) = third /\ Reduced(third, 3) = fourth
  BY <1>3, <1>4, <1>5, <1>6
<1>8. CASE k = 0
  BY <1>1, <1>7, <1>8
<1>9. CASE k = 1
  BY <1>1, <1>7, <1>9
<1>10. CASE k = 2
  BY <1>1, <1>7, <1>10
<1> QED BY <1>8, <1>9, <1>10

\* The bytes of what must be kept, counted along the ledger or along the plans.
BytesOf(kept, k) ==
  Added([i \in DOMAIN plans |-> IF i \notin kept THEN 0
                                ELSE PlanBytes + IF k = 0 THEN plans[i].cmds ELSE 0])

LEMMA WholeBytes ==
  ASSUME NEW k
  PROVE  LedgerBytes(Session(plans), k) = BytesOf(DOMAIN plans, k)
BY DEF LedgerBytes, BytesOf, Session

LEMMA KeptBytes ==
  ASSUME plans \in Seq(Plans), NEW k \in 1..3
  PROVE  /\ LedgerBytes(LedgerAfter(2), k) = BytesOf(MustKeep, k)
         /\ BytesOf(MustKeep, k) \in Nat
<1> DEFINE whole == Session(plans)
           kept == Selected(whole, MustKeep)
           w == [i \in DOMAIN plans |-> PlanBytes]
           sizes == [i \in DOMAIN plans |-> IF i \notin MustKeep THEN 0 ELSE PlanBytes]
<1>1. /\ whole \in Seq(DOMAIN plans) /\ DOMAIN whole = DOMAIN plans
      /\ DOMAIN plans = 1..Len(plans) /\ Len(plans) \in Nat /\ PlanBytes \in Nat
  BY SessionType, SummaryAssumption
<1>2. \A i \in DOMAIN plans : whole[i] = i
  BY DEF Session
<1>3. IsWeight(w, DOMAIN plans)
  BY <1>1 DEF IsWeight
<1>4. Added(WeightsOf(kept, w)) = Added(WeightsLeft(whole, MustKeep, w))
  <2> HIDE DEF whole, w, MustKeep
  <2>1. Added(WeightsOf(Selected(whole, MustKeep), w)) = Added(WeightsLeft(whole, MustKeep, w))
    BY <1>1, <1>3, SelectedAdded
  <2> QED BY <2>1
<1>5. WeightsOf(kept, w) = [i \in DOMAIN kept |-> PlanBytes]
  <2>1. PicksWanted(whole, MustKeep, Len(whole), kept)
    <3> HIDE DEF whole
    <3> QED BY <1>1, SelectedWanted
  <2>2. \A j \in DOMAIN kept : kept[j] \in DOMAIN plans
    <3>1. \A i \in 1..Len(whole) : whole[i] \in DOMAIN plans
      <4> HIDE DEF whole
      <4> QED BY <1>1
    <3> HIDE DEF whole, kept
    <3> QED BY <2>1, <3>1 DEF PicksWanted
  <2> HIDE DEF kept
  <2> QED BY <2>2 DEF WeightsOf
<1>6. WeightsLeft(whole, MustKeep, w) = sizes
  <2> HIDE DEF whole
  <2> QED BY <1>1, <1>2 DEF WeightsLeft
<1>7. sizes \in Seq(Nat)
  <2>1. sizes \in [1..Len(plans) -> Nat]
    BY <1>1
  <2> HIDE DEF sizes
  <2> QED BY <1>1, <2>1, IsList
<1>8. BytesOf(MustKeep, k) = Added(sizes)
  <2>1. PlanBytes + 0 = PlanBytes
    BY <1>1
  <2> QED BY <2>1 DEF BytesOf
<1>9. LedgerBytes(kept, k) = Added([i \in DOMAIN kept |-> PlanBytes])
  <2>1. PlanBytes + 0 = PlanBytes
    BY <1>1
  <2> HIDE DEF kept
  <2> QED BY <2>1 DEF LedgerBytes
<1>10. LedgerAfter(2) = kept
  BY DEF LedgerAfter
<1>11. Added(sizes) \in Nat
  <2> HIDE DEF sizes
  <2> QED BY <1>7, AddedType
<1> HIDE DEF sizes, kept, w, whole
<1> QED BY <1>4, <1>5, <1>6, <1>8, <1>9, <1>10, <1>11

LEMMA LastSizeType ==
  ASSUME plans \in Seq(Plans), NEW base \in Nat
  PROVE  /\ SummaryAfter(base, 3) = base + BytesOf(MustKeep, 3)
         /\ SummaryAfter(base, 3) \in Nat
<1>1. LedgerAfter(3) = LedgerAfter(2)
  BY DEF LedgerAfter
<1>2. SummaryAfter(base, 3) = base + LedgerBytes(LedgerAfter(3), 3) + 0
  BY DEF SummaryAfter
<1> QED BY <1>1, <1>2, KeptBytes

LEMMA SummaryStarts == DocInit => SummaryInv
<1> SUFFICES ASSUME DocInit, composing # "idle" PROVE SummaryInv
  BY DEF SummaryInv
<1>1. SummaryInit
  BY DEF DocInit, SummaryIdle
<1>2. plans \in Seq(Plans)
  <2>1. PICK n \in 0..MaxPlans : plans \in [1..n -> Plans]
    BY <1>1 DEF SummaryInit
  <2>2. n \in Nat
    BY SummaryAssumption
  <2> QED BY <2>1, <2>2, IsList
<1>3. PICK base \in Goals : draft = Assembled(plans, outputs, base)
  BY <1>1 DEF SummaryInit
<1>4. Pending(outputs) = Lost
  BY DEF Pending, Lost
<1>5. draft = DraftAfter(base, 0) /\ draft.base = base
  BY <1>3, <1>4 DEF Assembled, DraftAfter, DraftOf, LedgerAfter, Session
<1>6. base \in Nat /\ reduction = 0 /\ composing = "reduce"
  BY <1>1, SummaryAssumption DEF SummaryInit
<1> QED BY <1>2, <1>5, <1>6 DEF SummaryInv

LEMMA SummaryStep == SummaryInv /\ [DocNext]_docVars => SummaryInv'
<1> SUFFICES ASSUME SummaryInv, [DocNext]_docVars PROVE SummaryInv'
  OBVIOUS
<1>1. CASE UNCHANGED summaryVars
  <2>1. UNCHANGED <<plans, outputs, draft, reduction, composing>>
    BY <1>1 DEF summaryVars
  <2>2. /\ MustKeep' = MustKeep /\ Lost' = Lost
        /\ \A k : LedgerAfter(k)' = LedgerAfter(k)
    BY <2>1 DEF MustKeep, OpenPlans, LastEnded, Lost, LedgerAfter, Session
  <2>3. \A base, k : DraftAfter(base, k)' = DraftAfter(base, k)
    BY <2>2 DEF DraftAfter, DraftOf
  <2>4. \A base, k : SummaryAfter(base, k)' = SummaryAfter(base, k)
    BY <2>1, <2>2 DEF SummaryAfter, LedgerBytes
  <2> QED BY <2>1, <2>3, <2>4 DEF SummaryInv
<1>2. CASE /\ composing = "reduce" /\ UNCHANGED <<plans, outputs>> /\ draft.base' = draft.base
           /\ reduction' \in 0..3 /\ draft' = DraftAfter(draft.base, reduction')
           /\ (\A k \in 0..reduction' - 1 : SummaryAfter(draft.base, k) > SummaryBudget)
           /\ (composing' = "composed" => SummaryAfter(draft.base, reduction') <= SummaryBudget)
           /\ (composing' = "refused" => reduction' = 3 /\ SummaryAfter(draft.base, 3) > SummaryBudget)
  <2>1. plans \in Seq(Plans) /\ draft.base \in Nat
    BY <1>2 DEF SummaryInv
  <2>2. /\ MustKeep' = MustKeep /\ Lost' = Lost
        /\ \A k : LedgerAfter(k)' = LedgerAfter(k)
    BY <1>2 DEF MustKeep, OpenPlans, LastEnded, Lost, LedgerAfter, Session
  <2>3. \A base, k : DraftAfter(base, k)' = DraftAfter(base, k)
    BY <2>2 DEF DraftAfter, DraftOf
  <2>4. \A base, k : SummaryAfter(base, k)' = SummaryAfter(base, k)
    BY <1>2, <2>2 DEF SummaryAfter, LedgerBytes
  <2> QED BY <1>2, <2>1, <2>3, <2>4 DEF SummaryInv
<1>3. CASE Reduce
  <2>1. /\ composing = "reduce" /\ composing' = composing /\ UNCHANGED <<plans, outputs>>
        /\ SummarySize(draft) > SummaryBudget /\ reduction < 3 /\ reduction' = reduction + 1
        /\ draft' = Reduced(draft, reduction + 1)
    BY <1>3 DEF Reduce
  <2>2. /\ plans \in Seq(Plans) /\ reduction \in 0..2 /\ draft = DraftAfter(draft.base, reduction)
        /\ \A k \in 0..reduction - 1 : SummaryAfter(draft.base, k) > SummaryBudget
    BY <2>1 DEF SummaryInv
  <2>3. draft' = DraftAfter(draft.base, reduction + 1)
    BY <2>1, <2>2, ReduceAfter
  <2>4. draft.base' = draft.base
    <3>1. DraftAfter(draft.base, reduction + 1).base = draft.base
      BY DEF DraftAfter, DraftOf
    <3> QED BY <2>3, <3>1
  <2>5. SummaryAfter(draft.base, reduction) > SummaryBudget
    BY <2>1, <2>2, SizeIsAfter
  <2>6. \A k \in 0..reduction' - 1 : SummaryAfter(draft.base, k) > SummaryBudget
    BY <2>1, <2>2, <2>5
  <2> QED BY <1>2, <2>1, <2>2, <2>3, <2>4, <2>6
<1>4. CASE Compose
  <2>1. /\ composing = "reduce" /\ UNCHANGED <<plans, outputs, draft, reduction>>
        /\ SummarySize(draft) <= SummaryBudget \/ reduction = 3
        /\ composing' = IF SummarySize(draft) <= SummaryBudget THEN "composed" ELSE "refused"
    BY <1>4 DEF Compose
  <2>2. /\ reduction \in 0..3 /\ draft = DraftAfter(draft.base, reduction)
        /\ \A k \in 0..reduction - 1 : SummaryAfter(draft.base, k) > SummaryBudget
        /\ plans \in Seq(Plans) /\ draft.base \in Nat
    BY <2>1 DEF SummaryInv
  <2>3. SummarySize(draft) = SummaryAfter(draft.base, reduction)
    BY <2>2, SizeIsAfter
  <2>4. SummaryAfter(draft.base, 3) \in Nat /\ SummaryBudget \in Nat
    BY <2>2, LastSizeType, SummaryAssumption
  <2>5. composing' = "composed" => SummaryAfter(draft.base, reduction) <= SummaryBudget
    BY <2>1, <2>3
  <2>6. composing' = "refused" => reduction = 3 /\ SummaryAfter(draft.base, 3) > SummaryBudget
    BY <2>1, <2>3, <2>4
  <2>7. draft.base' = draft.base /\ reduction' = reduction /\ draft' = DraftAfter(draft.base, reduction)
    BY <2>1, <2>2
  <2> QED BY <1>2, <2>1, <2>2, <2>5, <2>6, <2>7
<1> QED BY <1>1, <1>3, <1>4 DEF DocNext, docVars, SummaryNext

\* What must be kept: the open plans and the newest of the others.
LEMMA NeededPlans ==
  ASSUME plans \in Seq(Plans)
  PROVE  /\ MustKeep = OpenPlans \cup (IF OpenPlans = DOMAIN plans THEN {}
                                     ELSE {Max(DOMAIN plans \ OpenPlans)})
         /\ MustKeep \subseteq DOMAIN plans
<1> DEFINE all == DOMAIN plans
           ended == all \ OpenPlans
           last == LastEnded(Session(plans))
<1>1. all = 1..Len(plans) /\ Len(plans) \in Nat /\ ToSet(Session(plans)) = all
  BY SessionType
<1>2. last = {i \in ended : \A j \in ended : j <= i}
  BY <1>1 DEF LastEnded, OpenPlans
<1>3. OpenPlans \subseteq all /\ ended \in SUBSET (1..Len(plans))
  BY <1>1 DEF OpenPlans
<1>4. CASE OpenPlans = all
  <2>1. last = {}
    BY <1>2, <1>4
  <2> QED BY <1>3, <1>4, <2>1 DEF MustKeep
<1>5. CASE OpenPlans # all
  <2>1. ended # {}
    BY <1>3, <1>5
  <2> HIDE DEF ended
  <2>2. PICK x \in ended : \A y \in ended : y <= x
    BY <1>1, <1>3, <2>1, LastNumber
  <2>3. \A i \in ended : i \in Nat
    BY <1>1, <1>3
  <2>4. last = {x}
    <3> HIDE DEF last
    <3> QED BY <1>2, <2>2, <2>3
  <2>5. Max(ended) = x
    <3>1. \A z \in ended : (\A y \in ended : z >= y) => z = x
      BY <2>2, <2>3
    <3>2. \A y \in ended : x >= y
      BY <2>2, <2>3
    <3> QED BY <2>2, <3>1, <3>2 DEF Max
  <2>6. MustKeep = OpenPlans \cup {Max(ended)}
    <3> HIDE DEF last
    <3>1. MustKeep = OpenPlans \cup last
      BY DEF MustKeep, last
    <3> QED BY <2>4, <2>5, <3>1
  <2>7. x \in all
    BY <1>1, <1>3, <2>2
  <2> HIDE DEF all, last
  <2>8. MustKeep = OpenPlans \cup {Max(all \ OpenPlans)}
    BY <2>6 DEF ended
  <2> QED BY <1>3, <1>5, <2>5, <2>6, <2>7, <2>8 DEF all
<1> QED BY <1>4, <1>5

\* What the ledger holds after the reductions.
LEMMA LedgerIs ==
  ASSUME plans \in Seq(Plans), NEW k \in 0..3
  PROVE  /\ Ascending(LedgerAfter(k)) /\ MustKeep \subseteq ToSet(LedgerAfter(k))
         /\ k < 2 => ToSet(LedgerAfter(k)) = DOMAIN plans
<1> DEFINE whole == Session(plans)
           kept == Selected(whole, MustKeep)
<1>1. /\ whole \in Seq(Nat) /\ whole \in Seq(DOMAIN plans) /\ ToSet(whole) = DOMAIN plans
      /\ Ascending(whole) /\ DOMAIN whole = DOMAIN plans
  BY SessionType
<1>2. MustKeep \subseteq DOMAIN plans
  BY NeededPlans
<1>3. Ascending(kept)
  <2> HIDE DEF whole
  <2> QED BY <1>1, SelectedAscending
<1>4. MustKeep \subseteq ToSet(kept)
  <2> SUFFICES ASSUME NEW i \in MustKeep PROVE i \in ToSet(kept)
    OBVIOUS
  <2>1. PicksWanted(whole, MustKeep, Len(whole), kept)
    <3> HIDE DEF whole
    <3> QED BY <1>1, SelectedWanted
  <2>2. i \in 1..Len(whole) /\ whole[i] = i
    <3>1. i \in DOMAIN plans
      BY <1>2
    <3>2. whole[i] = i
      BY <3>1 DEF Session
    <3> HIDE DEF whole
    <3> QED BY <1>1, <3>1, <3>2
  <2> HIDE DEF whole, kept
  <2>3. PICK j \in DOMAIN kept : kept[j] = i
    BY <2>1, <2>2 DEF PicksWanted
  <2> QED BY <2>3 DEF ToSet
<1>5. k < 2 => LedgerAfter(k) = whole
  BY DEF LedgerAfter
<1>6. k >= 2 => LedgerAfter(k) = kept
  BY DEF LedgerAfter
<1> HIDE DEF whole, kept
<1> QED BY <1>1, <1>2, <1>3, <1>4, <1>5, <1>6

\* The child learns all it must carry on with, and nothing is given up that would have fitted.
LEMMA SummaryCarries == SummaryInv => SummaryCarriesOn
<1> SUFFICES ASSUME SummaryInv, composing \in {"composed", "refused"} PROVE SummaryCarriesOn
  BY DEF SummaryCarriesOn
<1> DEFINE base == draft.base
           k == reduction
           Bytes(kept, withCommands) ==
             base + Added([i \in DOMAIN plans |->
                             IF i \notin kept THEN 0
                             ELSE PlanBytes + IF withCommands THEN plans[i].cmds ELSE 0])
           announced == PendingBytes * Cardinality(Lost)
           all == DOMAIN plans
           needed == OpenPlans \cup (IF OpenPlans = all THEN {} ELSE {Max(all \ OpenPlans)})
           held == ToSet(draft.ledger)
           whole == Bytes(all, TRUE) + announced
           lean == Bytes(all, FALSE) + announced
           least == Bytes(needed, FALSE)
<1>1. /\ plans \in Seq(Plans) /\ base \in Nat /\ k \in 0..3 /\ draft = DraftAfter(base, k)
      /\ \A j \in 0..k - 1 : SummaryAfter(base, j) > SummaryBudget
      /\ composing = "composed" => SummaryAfter(base, k) <= SummaryBudget
      /\ composing = "refused" => k = 3 /\ SummaryAfter(base, 3) > SummaryBudget
  BY DEF SummaryInv
<1>2. /\ draft.ledger = LedgerAfter(k) /\ draft.pending = Lost
      /\ ~draft.commands => k > 0
      /\ ~draft.withPending => k = 3
  BY <1>1, DraftFields
<1>3. SummarySize(draft) = SummaryAfter(base, k)
  BY <1>1, SizeIsAfter
<1>4. MustKeep = needed
  BY <1>1, NeededPlans
<1>5. /\ Ascending(draft.ledger) /\ MustKeep \subseteq held
      /\ k < 2 => held = all
  BY <1>1, <1>2, LedgerIs
<1>6. \A j \in 0..3 : j < k => SummaryAfter(base, j) > SummaryBudget
  BY <1>1
<1>7. SummaryAfter(base, 0) = Bytes(all, TRUE) + announced
  <2>1. LedgerAfter(0) = Session(plans)
    BY DEF LedgerAfter
  <2>2. BytesOf(all, 0) = Added([i \in DOMAIN plans |->
                             IF i \notin all THEN 0
                             ELSE PlanBytes + IF TRUE THEN plans[i].cmds ELSE 0])
    BY DEF BytesOf
  <2> QED BY <2>1, <2>2, WholeBytes DEF SummaryAfter
<1>8. SummaryAfter(base, 1) = Bytes(all, FALSE) + announced
  <2>1. LedgerAfter(1) = Session(plans)
    BY DEF LedgerAfter
  <2>2. BytesOf(all, 1) = Added([i \in DOMAIN plans |->
                             IF i \notin all THEN 0
                             ELSE PlanBytes + IF FALSE THEN plans[i].cmds ELSE 0])
    BY DEF BytesOf
  <2> QED BY <2>1, <2>2, WholeBytes DEF SummaryAfter
<1>9. \A j \in 1..3 : base + BytesOf(MustKeep, j) = Bytes(needed, FALSE)
  <2>1. \A j \in 1..3 : BytesOf(MustKeep, j) = Added([i \in DOMAIN plans |->
                             IF i \notin MustKeep THEN 0
                             ELSE PlanBytes + IF FALSE THEN plans[i].cmds ELSE 0])
    BY DEF BytesOf
  <2> HIDE DEF needed
  <2> QED BY <1>4, <2>1
<1>10. SummaryAfter(base, 2) = least + announced
  <2>1. SummaryAfter(base, 2) = base + BytesOf(MustKeep, 2) + announced
    BY <1>1, KeptBytes DEF SummaryAfter
  <2>2. base + BytesOf(MustKeep, 2) = least
    BY <1>9
  <2> HIDE DEF least, base, announced
  <2> QED BY <2>1, <2>2
<1>11. SummaryAfter(base, 3) = least
  <2>1. SummaryAfter(base, 3) = base + BytesOf(MustKeep, 3)
    BY <1>1, LastSizeType
  <2>2. base + BytesOf(MustKeep, 3) = least
    BY <1>9
  <2> HIDE DEF least, base
  <2> QED BY <2>1, <2>2
<1>12. held # all => k >= 2
  <2> HIDE DEF held, all
  <2> QED BY <1>1, <1>5
<1>13. needed \subseteq held
  <2> HIDE DEF needed, held
  <2> QED BY <1>4, <1>5
<1>14. \A i, j \in DOMAIN draft.ledger : i < j => draft.ledger[i] < draft.ledger[j]
  BY <1>5 DEF Ascending
<1>15. composing = "composed" => SummarySize(draft) <= SummaryBudget
  BY <1>1, <1>3
<1>16. SummaryAfter(base, 0) = whole /\ SummaryAfter(base, 1) = lean
  BY <1>7, <1>8
<1> HIDE DEF whole, lean, least, announced, all, needed, held
<1>17. ~draft.commands => whole > SummaryBudget
  BY <1>1, <1>2, <1>6, <1>16
<1>18. held # all => lean > SummaryBudget
  BY <1>1, <1>6, <1>12, <1>16
<1>19. ~draft.withPending => least + announced > SummaryBudget
  BY <1>1, <1>2, <1>6, <1>10
<1>20. composing = "refused" => least > SummaryBudget
  BY <1>1, <1>11
<1> USE DEF whole, lean, least, announced, all, needed, held
<1>21. draft.pending = Lost
  BY <1>2
<1> QED BY <1>13, <1>14, <1>15, <1>17, <1>18, <1>19, <1>20, <1>21 DEF SummaryCarriesOn, Lost, OpenPlans

\* The summary of a rotation (ContextReducer.build) names every plan the child must carry on with
\* and every stored byte it was not given, and gives up or refuses only what cannot fit, for any
\* plans, outputs and budget.
THEOREM SummariesCarryOn == DocSpec => []SummaryCarriesOn
<1>1. DocSpec => []SummaryInv
  BY SummaryStarts, SummaryStep, PTL DEF DocSpec
<1> QED BY <1>1, SummaryCarries, PTL

----------------------------------------------------------------------------
(* The outputs of the commands *)

\* A task whose output is the longest, the first of them.
LEMMA GreatestOf ==
  ASSUME NEW S \in SUBSET Nat, IsFiniteSet(S), S # {}, NEW f \in [S -> Nat]
  PROVE  \E x \in S : \A y \in S : f[x] > f[y] \/ (f[x] = f[y] /\ x <= y)
<1> DEFINE n == Cardinality(S)
<1>1. n \in Nat /\ ExistsBijection(1..n, S)
  BY FS_CardinalityType
<1> HIDE DEF n
<1>2. PICK g \in Bijection(1..n, S) : TRUE
  BY <1>1 DEF ExistsBijection
<1>12. g \in [1..n -> S] /\ \A x \in S : \E i \in 1..n : g[i] = x
  BY <1>2 DEF Bijection, Surjection
<1> DEFINE L == {i \in 0..n : i = 0 \/ \E k \in 1..i : \A j \in 1..i : f[g[j]] <= f[g[k]]}
<1>14. \A j \in 1..n : g[j] \in S /\ f[g[j]] \in Nat
  BY <1>12
<1>3. 0 \in L
  BY <1>1
<1>4. ASSUME NEW i \in 0..n, i \in L, i < n PROVE i + 1 \in L
  <2>1. /\ i + 1 \in 1..n /\ i + 1 \in 0..n
        /\ \A j \in 1..i + 1 : j \in 1..i \/ j = i + 1
        /\ \A j \in 1..i : j \in 1..n
    BY <1>1, <1>4
  <2>4. \A j \in 1..n : f[g[j]] \in Nat
    BY <1>14
  <2>2. CASE i = 0
    BY <2>1, <2>2, <2>4
  <2>3. CASE i # 0
    <3>1. PICK k \in 1..i : \A j \in 1..i : f[g[j]] <= f[g[k]]
      BY <1>4, <2>3
    <3>2. f[g[k]] \in Nat /\ f[g[i + 1]] \in Nat
      BY <2>1, <2>4
    <3>3. CASE f[g[i + 1]] <= f[g[k]]
      <4>1. \A j \in 1..i + 1 : f[g[j]] <= f[g[k]]
        BY <2>1, <2>4, <3>1, <3>3
      <4> QED BY <2>1, <4>1
    <3>4. CASE f[g[k]] <= f[g[i + 1]]
      <4>1. \A j \in 1..i + 1 : f[g[j]] <= f[g[i + 1]]
        BY <2>1, <2>4, <3>1, <3>2, <3>4
      <4> QED BY <2>1, <4>1
    <3> QED BY <3>2, <3>3, <3>4
  <2> QED BY <2>2, <2>3
<1>5. n \in L
  <2>1. 0..n \subseteq L
    <3> HIDE DEF L
    <3> QED BY <1>1, <1>3, <1>4, EveryPrefix
  <2>2. n \in 0..n
    BY <1>1
  <2> QED BY <2>1, <2>2
<1>6. n # 0
  <2>1. PICK x \in S : TRUE
    OBVIOUS
  <2>2. PICK i \in 1..n : g[i] = x
    BY <1>12
  <2> QED BY <1>1, <2>2
<1>7. PICK k \in 1..n : \A j \in 1..n : f[g[j]] <= f[g[k]]
  BY <1>5, <1>6
<1> DEFINE T == {x \in S : f[x] = f[g[k]]}
<1>8. T \in SUBSET Nat /\ T # {}
  BY <1>12
<1>9. PICK x \in T : \A y \in T : x <= y
  <2> HIDE DEF T
  <2> QED BY <1>8, LeastNumber
<1>10. \A y \in S : f[y] <= f[x]
  BY <1>12, <1>7, <1>9
<1>11. \A y \in S : f[y] = f[x] => x <= y
  BY <1>9
<1>13. x \in S /\ \A y \in S : f[y] \in Nat
  BY <1>9
<1> QED BY <1>10, <1>11, <1>13

\* The characters of a text, a replacement character included, and what is left of a text.
Texts == Seq(1..5)

LEMMA Widths ==
  ASSUME NEW t \in Texts
  PROVE  [i \in DOMAIN t |-> Width(t[i])] \in Seq(Nat) /\ Len([i \in DOMAIN t |-> Width(t[i])]) = Len(t)
<1>1. Len(t) \in Nat /\ DOMAIN t = 1..Len(t) /\ \A i \in 1..Len(t) : t[i] \in 1..5
  BY DEF Texts
<1>2. \A i \in 1..Len(t) : Width(t[i]) \in Nat
  BY <1>1 DEF Width, REPLACEMENT
<1> QED BY <1>1, <1>2, IsList

\* The bytes of the beginnings of a text tell those of its endings.
Bytes(t, f) ==
  /\ f \in [0..Len(t) -> Nat] /\ f[0] = 0
  /\ \A i \in 1..Len(t) : f[i] = f[i - 1] + Width(t[i])
  /\ \A i, j \in 0..Len(t) : i <= j => f[i] + (j - i) <= f[j]
  /\ \A n \in 0..Len(t) : Size(Ending(t, n)) = f[Len(t)] - f[Len(t) - n]
  /\ Size(t) = f[Len(t)]

LEMMA EndingIs ==
  ASSUME NEW t \in Texts, NEW n \in 0..Len(t)
  PROVE  /\ Ending(t, n) \in Texts /\ Len(Ending(t, n)) = n /\ Len(t) \in Nat
         /\ \A i \in 1..n : Ending(t, n)[i] = t[Len(t) - n + i]
BY DEF Texts, Ending

LEMMA BytesExist ==
  ASSUME NEW t \in Texts
  PROVE  \E f : Bytes(t, f)
<1> DEFINE widths(u) == [i \in DOMAIN u |-> Width(u[i])]
<1>1. Len(t) \in Nat /\ widths(t) \in Seq(Nat) /\ Len(widths(t)) = Len(t) /\ DOMAIN t = 1..Len(t)
  BY Widths DEF Texts
<1>2. PICK f : PartialSums(widths(t), Len(t), f)
  <2> HIDE DEF widths
  <2> QED BY <1>1, PartialSumsExist
<1>3. /\ f \in [0..Len(t) -> Nat] /\ f[0] = 0
      /\ \A i \in 1..Len(t) : f[i] = f[i - 1] + Width(t[i])
  BY <1>1, <1>2 DEF PartialSums
<1>4. Size(t) = f[Len(t)]
  <2>1. Added(widths(t)) = f[Len(widths(t))]
    <3> HIDE DEF widths
    <3> QED BY <1>1, <1>2, AddedIs
  <2> QED BY <1>1, <2>1 DEF Size
<1>5. ASSUME NEW i \in 0..Len(t), NEW j \in 0..Len(t), i <= j PROVE f[i] + (j - i) <= f[j]
  <2> DEFINE S == {d \in 0..(j - i) : f[i] + d <= f[i + d]}
  <2>1. 0 \in S
    BY <1>3, <1>5
  <2>2. ASSUME NEW d \in 0..(j - i), d \in S, d < j - i PROVE d + 1 \in S
    <3>1. i + d + 1 \in 1..Len(t) /\ (i + d + 1) - 1 = i + d /\ i + d \in 0..Len(t)
          /\ i \in 0..Len(t) /\ i + d + 1 \in 0..Len(t) /\ d + 1 \in 0..(j - i)
      BY <1>1, <1>5, <2>2
    <3>2. f[i + d + 1] = f[i + d] + Width(t[i + d + 1])
      BY <1>3, <3>1
    <3>3. Width(t[i + d + 1]) \in Nat \ {0}
      BY <3>1, <1>1 DEF Texts, Width, REPLACEMENT
    <3>4. f[i] \in Nat /\ f[i + d] \in Nat /\ f[i] + d <= f[i + d] /\ f[i + d + 1] \in Nat
      BY <1>3, <2>2, <3>1
    <3>5. f[i] + (d + 1) <= f[i + (d + 1)]
      BY <3>1, <3>2, <3>3, <3>4
    <3> QED BY <3>1, <3>5
  <2>3. j - i \in Nat
    BY <1>5
  <2>4. 0..(j - i) \subseteq S
    <3> HIDE DEF S
    <3> QED BY <2>1, <2>2, <2>3, EveryPrefix
  <2>5. (j - i) \in S /\ i + (j - i) = j
    BY <2>3, <2>4
  <2> QED BY <2>5
<1>6. ASSUME NEW n \in 0..Len(t) PROVE Size(Ending(t, n)) = f[Len(t)] - f[Len(t) - n]
  <2> DEFINE e == Ending(t, n)
             from == Len(t) - n
             g == [i \in 0..n |-> f[from + i] - f[from]]
  <2>1. e \in Texts /\ Len(e) = n /\ \A i \in 1..n : e[i] = t[from + i]
    BY EndingIs
  <2>2. from \in 0..Len(t) /\ from + n = Len(t) /\ n \in Nat
    BY <1>1, <1>6
  <2> HIDE DEF e, from
  <2>3. widths(e) \in Seq(Nat) /\ Len(widths(e)) = n /\ \A i \in 1..n : widths(e)[i] = Width(t[from + i])
    <3>1. widths(e) \in Seq(Nat) /\ Len(widths(e)) = n
      BY <2>1, Widths
    <3>2. DOMAIN e = 1..n
      BY <2>1 DEF Texts
    <3> QED BY <2>1, <3>1, <3>2
  <2>4. PartialSums(widths(e), n, g)
    <3>1. \A i \in 0..n : from + i \in 0..Len(t) /\ f[from + i] \in Nat /\ f[from] \in Nat /\ f[from] <= f[from + i]
      <4> SUFFICES ASSUME NEW i \in 0..n
                   PROVE  /\ from + i \in 0..Len(t) /\ f[from + i] \in Nat /\ f[from] \in Nat
                          /\ f[from] <= f[from + i]
        OBVIOUS
      <4>1. from + i \in 0..Len(t) /\ from <= from + i /\ (from + i) - from = i /\ i \in Nat
        BY <1>1, <2>2
      <4>2. f[from] + ((from + i) - from) <= f[from + i]
        BY <1>5, <2>2, <4>1
      <4>3. f[from] \in Nat /\ f[from + i] \in Nat
        BY <1>3, <2>2, <4>1
      <4> QED BY <4>1, <4>2, <4>3
    <3>2. g \in [0..n -> Nat]
      <4>1. \A i \in 0..n : f[from + i] - f[from] \in Nat
        BY <3>1
      <4> QED BY <4>1
    <3>3. g[0] = 0
      <4>1. 0 \in 0..n /\ from + 0 = from /\ f[from] \in Nat
        BY <2>2, <3>1
      <4> QED BY <4>1
    <3>4. ASSUME NEW i \in 1..n PROVE g[i] = g[i - 1] + widths(e)[i]
      <4>1. i \in 0..n /\ i - 1 \in 0..n /\ from + i \in 1..Len(t) /\ (from + i) - 1 = from + (i - 1)
        BY <1>1, <2>2, <3>4
      <4>2. f[from + i] = f[from + (i - 1)] + Width(t[from + i])
        BY <1>3, <4>1
      <4>3. Width(t[from + i]) \in Nat
        BY <4>1, <1>1 DEF Texts, Width, REPLACEMENT
      <4> HIDE DEF widths
      <4> QED BY <2>3, <3>1, <4>1, <4>2, <4>3
    <3> HIDE DEF g, widths
    <3> QED BY <3>2, <3>3, <3>4 DEF PartialSums
  <2>5. Added(widths(e)) = g[n]
    <3> HIDE DEF g, widths
    <3> QED BY <2>2, <2>3, <2>4, AddedIs
  <2>6. Size(e) = Added(widths(e)) /\ g[n] = f[from + n] - f[from]
    BY <2>2 DEF Size
  <2> QED BY <2>2, <2>5, <2>6 DEF e, from
<1> QED BY <1>3, <1>4, <1>5, <1>6 DEF Bytes

\* A longer ending has more bytes, one character more than the ending before it; the whole text
\* is its own last ending.
LEMMA EndingsGrow ==
  ASSUME NEW t \in Texts
  PROVE  /\ \A n \in 0..Len(t) : Size(Ending(t, n)) \in Nat /\ Size(Ending(t, n)) <= Size(t)
         /\ \A m, n \in 0..Len(t) : m < n => Size(Ending(t, m)) < Size(Ending(t, n))
         /\ \A n \in 0..Len(t) - 1 :
              Size(Ending(t, n + 1)) = Size(Ending(t, n)) + Width(t[Len(t) - n])
         /\ Size(t) \in Nat /\ Size(Ending(t, 0)) = 0 /\ Size(Ending(t, Len(t))) = Size(t)
         /\ Ending(t, Len(t)) = t /\ Len(t) \in Nat
<1>1. PICK f : Bytes(t, f)
  BY BytesExist
<1>2. Len(t) \in Nat /\ \A i \in 1..Len(t) : Width(t[i]) \in Nat
  BY DEF Texts, Width, REPLACEMENT
<1>3. /\ f \in [0..Len(t) -> Nat] /\ f[0] = 0
      /\ \A i, j \in 0..Len(t) : i <= j => f[i] + (j - i) <= f[j]
      /\ \A n \in 0..Len(t) : Size(Ending(t, n)) = f[Len(t)] - f[Len(t) - n]
      /\ Size(t) = f[Len(t)]
  BY <1>1 DEF Bytes
<1>4. ASSUME NEW n \in 0..Len(t)
      PROVE  /\ Len(t) - n \in 0..Len(t) /\ f[Len(t) - n] \in Nat /\ f[Len(t)] \in Nat
             /\ f[Len(t) - n] <= f[Len(t)]
  <2>1. Len(t) - n \in 0..Len(t) /\ Len(t) \in 0..Len(t) /\ Len(t) - n <= Len(t) /\ n \in Nat
    BY <1>2
  <2>2. f[Len(t) - n] \in Nat /\ f[Len(t)] \in Nat /\ f[Len(t) - n] + (Len(t) - (Len(t) - n)) <= f[Len(t)]
    BY <1>3, <2>1
  <2> QED BY <1>2, <2>1, <2>2
<1>5. \A n \in 0..Len(t) : Size(Ending(t, n)) \in Nat /\ Size(Ending(t, n)) <= Size(t)
  <2> SUFFICES ASSUME NEW n \in 0..Len(t)
               PROVE  Size(Ending(t, n)) \in Nat /\ Size(Ending(t, n)) <= Size(t)
    OBVIOUS
  <2>1. Size(Ending(t, n)) = f[Len(t)] - f[Len(t) - n] /\ Size(t) = f[Len(t)]
    BY <1>3
  <2>2. f[Len(t) - n] \in Nat /\ f[Len(t)] \in Nat /\ f[Len(t) - n] <= f[Len(t)]
    BY <1>4
  <2> QED BY <2>1, <2>2
<1>6. ASSUME NEW m \in 0..Len(t), NEW n \in 0..Len(t), m < n
      PROVE  Size(Ending(t, m)) < Size(Ending(t, n))
  <2>1. Len(t) - n <= Len(t) - m /\ n - m \in Nat \ {0} /\ (Len(t) - m) - (Len(t) - n) = n - m
    BY <1>2, <1>6
  <2>2. Len(t) - n \in 0..Len(t) /\ Len(t) - m \in 0..Len(t)
    BY <1>4
  <2>3. f[Len(t) - n] + (n - m) <= f[Len(t) - m]
    <3>1. f[Len(t) - n] + ((Len(t) - m) - (Len(t) - n)) <= f[Len(t) - m]
      BY <1>3, <2>1, <2>2
    <3> QED BY <2>1, <3>1
  <2>4. f[Len(t) - n] \in Nat /\ f[Len(t) - m] \in Nat /\ f[Len(t)] \in Nat
    BY <1>4
  <2>5. Size(Ending(t, m)) = f[Len(t)] - f[Len(t) - m] /\ Size(Ending(t, n)) = f[Len(t)] - f[Len(t) - n]
    BY <1>3
  <2> QED BY <2>1, <2>3, <2>4, <2>5
<1>7. ASSUME NEW n \in 0..Len(t) - 1
      PROVE  Size(Ending(t, n + 1)) = Size(Ending(t, n)) + Width(t[Len(t) - n])
  <2>1. /\ n \in 0..Len(t) /\ n + 1 \in 0..Len(t) /\ Len(t) - n \in 1..Len(t)
        /\ (Len(t) - n) - 1 = Len(t) - (n + 1)
    BY <1>2, <1>7
  <2>2. f[Len(t) - n] = f[Len(t) - (n + 1)] + Width(t[Len(t) - n])
    <3>1. f[Len(t) - n] = f[(Len(t) - n) - 1] + Width(t[Len(t) - n])
      BY <1>1, <2>1 DEF Bytes
    <3> QED BY <2>1, <3>1
  <2>3. /\ f[Len(t) - n] \in Nat /\ f[Len(t) - (n + 1)] \in Nat /\ f[Len(t)] \in Nat
        /\ Width(t[Len(t) - n]) \in Nat
    BY <1>2, <1>4, <2>1
  <2>4. /\ Size(Ending(t, n + 1)) = f[Len(t)] - f[Len(t) - (n + 1)]
        /\ Size(Ending(t, n)) = f[Len(t)] - f[Len(t) - n]
    BY <1>3, <2>1
  <2> QED BY <2>2, <2>3, <2>4
<1>8. Size(t) \in Nat /\ Size(Ending(t, 0)) = 0 /\ Size(Ending(t, Len(t))) = Size(t)
  <2>1. 0 \in 0..Len(t) /\ Len(t) \in 0..Len(t) /\ Len(t) - 0 = Len(t) /\ Len(t) - Len(t) = 0
    BY <1>2
  <2>2. f[Len(t)] \in Nat
    BY <1>4, <2>1
  <2>3. Size(Ending(t, 0)) = f[Len(t)] - f[Len(t)] /\ Size(Ending(t, Len(t))) = f[Len(t)] - f[0]
    BY <1>3, <2>1
  <2> QED BY <1>3, <2>2, <2>3
<1>9. Ending(t, Len(t)) = t
  BY DEF Texts, Ending
<1> QED BY <1>2, <1>5, <1>6, <1>7, <1>8, <1>9

\* The longest ending within k bytes, and what is decoded of them.
LEMMA LongestEnding ==
  ASSUME NEW t \in Texts, NEW k \in 0..Size(t)
  PROVE  \E n \in 0..Len(t) : Size(Ending(t, n)) <= k /\ (n < Len(t) => Size(Ending(t, n + 1)) > k)
<1>1. /\ \A n \in 0..Len(t) : Size(Ending(t, n)) \in Nat
      /\ Size(Ending(t, 0)) = 0 /\ Len(t) \in Nat
  BY EndingsGrow
<1> DEFINE S == {n + 1 : n \in {m \in 0..Len(t) : Size(Ending(t, m)) <= k}}
<1>2. S \in SUBSET (1..Len(t) + 1) /\ Len(t) + 1 \in Nat
  BY <1>1
<1>3. S # {}
  <2>1. 0 \in 0..Len(t) /\ Size(Ending(t, 0)) <= k
    BY <1>1
  <2> QED BY <2>1
<1>4. PICK x \in S : \A y \in S : y <= x
  <2> HIDE DEF S
  <2> QED BY <1>2, <1>3, LastNumber
<1>5. PICK n \in 0..Len(t) : x = n + 1 /\ Size(Ending(t, n)) <= k
  BY <1>4
<1>6. ASSUME n < Len(t) PROVE Size(Ending(t, n + 1)) > k
  <2>1. n + 1 \in 0..Len(t)
    BY <1>1, <1>6
  <2>2. Size(Ending(t, n + 1)) <= k => (n + 1) + 1 \in S
    BY <2>1
  <2>3. ~((n + 1) + 1 <= x)
    BY <1>5, <2>1
  <2>4. ~(Size(Ending(t, n + 1)) <= k)
    BY <1>4, <2>2, <2>3
  <2> QED BY <1>1, <2>1, <2>4
<1> QED BY <1>5, <1>6

LEMMA DecodedIs ==
  ASSUME NEW t \in Texts, NEW k \in 0..Size(t), NEW n \in 0..Len(t),
         Size(Ending(t, n)) <= k, n < Len(t) => Size(Ending(t, n + 1)) > k
  PROVE  Decoded(t, k) = Unreadable(k - Size(Ending(t, n))) \o Ending(t, n)
<1>1. /\ \A m \in 0..Len(t) : Size(Ending(t, m)) \in Nat
      /\ \A l, m \in 0..Len(t) : l < m => Size(Ending(t, l)) < Size(Ending(t, m))
      /\ Len(t) \in Nat
  BY EndingsGrow
<1> DEFINE Fits(m) == Size(Ending(t, m)) <= k /\ (m < Len(t) => Size(Ending(t, m + 1)) > k)
<1>2. ASSUME NEW m \in 0..Len(t), Fits(m) PROVE m = n
  <2>1. ASSUME NEW a \in 0..Len(t), NEW b \in 0..Len(t), a < b, Fits(a), Fits(b) PROVE FALSE
    <3>1. a + 1 \in 0..Len(t) /\ a < Len(t)
      BY <1>1, <2>1
    <3>2. Size(Ending(t, a + 1)) > k /\ Size(Ending(t, b)) <= k
      BY <2>1, <3>1
    <3>3. a + 1 = b \/ a + 1 < b
      BY <2>1, <3>1
    <3>4. Size(Ending(t, a + 1)) <= Size(Ending(t, b))
      BY <1>1, <2>1, <3>1, <3>3
    <3> QED BY <1>1, <2>1, <3>1, <3>2, <3>4
  <2>2. Fits(n)
    OBVIOUS
  <2>3. ~(m < n) /\ ~(n < m)
    <3> HIDE DEF Fits
    <3> QED BY <1>2, <2>1, <2>2
  <2> QED BY <1>1, <2>3
<1>3. (CHOOSE m \in 0..Len(t) : Fits(m)) = n
  <2>1. Fits(n)
    OBVIOUS
  <2> HIDE DEF Fits
  <2> QED BY <1>2, <2>1
<1> QED BY <1>3 DEF Decoded

\* What is shown of a stream b: its last n characters, with up to three U+FFFD for what is left of
\* the character before them; kept is what the range declares.
Shown(b, t, kept, n, lost) ==
  /\ t = Unreadable(lost) \o Ending(b, n)
  /\ lost = 0 => kept = Size(Ending(b, n))
  /\ lost > 0 => /\ n < Len(b) /\ lost < Width(b[Len(b) - n])
                 /\ Size(Ending(b, n)) < kept /\ kept <= Size(Ending(b, n + 1))

LEMMA StreamIsText ==
  ASSUME NEW b \in Seq(1..4)
  PROVE  b \in Texts /\ \A i \in 1..Len(b) : b[i] \in 1..4 /\ Width(b[i]) = b[i] /\ b[i] # REPLACEMENT
BY DEF Texts, Width, REPLACEMENT

\* Some U+FFFD before a text.
LEMMA UnreadableBefore ==
  ASSUME NEW s \in Texts, NEW m \in Nat
  PROVE  /\ Unreadable(m) \in Texts /\ Len(Unreadable(m)) = m
         /\ Unreadable(m) \o s \in Texts /\ Len(Unreadable(m) \o s) = m + Len(s)
         /\ \A i \in 1..m : (Unreadable(m) \o s)[i] = REPLACEMENT
         /\ \A i \in 1..Len(s) : (Unreadable(m) \o s)[m + i] = s[i]
         /\ Len(s) \in Nat
<1>1. Unreadable(m) \in Texts /\ Len(Unreadable(m)) = m /\ \A i \in 1..m : Unreadable(m)[i] = REPLACEMENT
  BY DEF Texts, Unreadable, REPLACEMENT
<1> QED BY <1>1 DEF Texts

\* Two texts of one length with the same characters are one.
LEMMA SameText ==
  ASSUME NEW s \in Texts, NEW t \in Texts, Len(s) = Len(t), \A i \in 1..Len(s) : s[i] = t[i]
  PROVE  s = t
BY DEF Texts

LEMMA EndingsOfUnreadable ==
  ASSUME NEW s \in Texts, NEW m \in Nat, NEW t, t = Unreadable(m) \o s
  PROVE  /\ \A n \in 0..Len(s) : Ending(t, n) = Ending(s, n)
         /\ \A j \in 0..m : Ending(t, Len(s) + j) = Unreadable(j) \o s
         /\ \A j \in 0..m : Size(Ending(t, Len(s) + j)) = 3 * j + Size(s)
         /\ Size(t) = 3 * m + Size(s)
<1>1. /\ t \in Texts /\ Len(t) = m + Len(s) /\ Len(s) \in Nat
      /\ \A i \in 1..m : t[i] = REPLACEMENT
      /\ \A i \in 1..Len(s) : t[m + i] = s[i]
  BY UnreadableBefore
<1>2. ASSUME NEW n \in 0..Len(s) PROVE Ending(t, n) = Ending(s, n)
  <2>1. n \in 0..Len(t)
    BY <1>1
  <2>2. /\ Ending(t, n) \in Texts /\ Len(Ending(t, n)) = n
        /\ \A i \in 1..n : Ending(t, n)[i] = t[Len(t) - n + i]
        /\ Ending(s, n) \in Texts /\ Len(Ending(s, n)) = n
        /\ \A i \in 1..n : Ending(s, n)[i] = s[Len(s) - n + i]
    BY <1>1, <2>1, EndingIs
  <2>3. ASSUME NEW i \in 1..n PROVE Ending(t, n)[i] = Ending(s, n)[i]
    <3>1. Len(s) - n + i \in 1..Len(s) /\ m + (Len(s) - n + i) = Len(t) - n + i
      BY <1>1
    <3>2. t[m + (Len(s) - n + i)] = s[Len(s) - n + i]
      BY <1>1, <3>1
    <3> QED BY <2>2, <3>1, <3>2
  <2> QED BY <2>2, <2>3, SameText
<1>3. ASSUME NEW j \in 0..m PROVE Ending(t, Len(s) + j) = Unreadable(j) \o s
  <2>1. Len(s) + j \in 0..Len(t) /\ j \in Nat
    BY <1>1
  <2>2. /\ Ending(t, Len(s) + j) \in Texts /\ Len(Ending(t, Len(s) + j)) = Len(s) + j
        /\ \A i \in 1..Len(s) + j : Ending(t, Len(s) + j)[i] = t[Len(t) - (Len(s) + j) + i]
    BY <1>1, <2>1, EndingIs
  <2>3. /\ Unreadable(j) \o s \in Texts /\ Len(Unreadable(j) \o s) = j + Len(s)
        /\ \A i \in 1..j : (Unreadable(j) \o s)[i] = REPLACEMENT
        /\ \A i \in 1..Len(s) : (Unreadable(j) \o s)[j + i] = s[i]
    BY <2>1, UnreadableBefore
  <2>4. ASSUME NEW i \in 1..Len(s) + j PROVE Ending(t, Len(s) + j)[i] = (Unreadable(j) \o s)[i]
    <3>1. Len(t) - (Len(s) + j) + i = m - j + i
      BY <1>1
    <3>2. CASE i <= j
      <4>1. m - j + i \in 1..m /\ i \in 1..j
        BY <3>2
      <4> QED BY <1>1, <2>2, <2>3, <3>1, <4>1
    <3>3. CASE i > j
      <4>1. i - j \in 1..Len(s) /\ m + (i - j) = m - j + i /\ j + (i - j) = i
        BY <1>1, <3>3
      <4>2. t[m + (i - j)] = s[i - j] /\ (Unreadable(j) \o s)[j + (i - j)] = s[i - j]
        BY <1>1, <2>3, <4>1
      <4> QED BY <2>2, <3>1, <4>1, <4>2
    <3>4. i <= j \/ i > j
      BY <1>1, <2>1
    <3> QED BY <3>2, <3>3, <3>4
  <2>5. Len(s) + j = j + Len(s)
    BY <1>1
  <2> QED BY <2>2, <2>3, <2>4, <2>5, SameText
<1>4. \A j \in 0..m : Size(Ending(t, Len(s) + j)) = 3 * j + Size(s)
  <2> DEFINE S == {j \in 0..m : Size(Ending(t, Len(s) + j)) = 3 * j + Size(s)}
  <2>1. /\ \A n \in 0..Len(t) - 1 :
             Size(Ending(t, n + 1)) = Size(Ending(t, n)) + Width(t[Len(t) - n])
        /\ Size(s) \in Nat /\ Size(Ending(s, Len(s))) = Size(s)
        /\ \A n \in 0..Len(t) : Size(Ending(t, n)) \in Nat
    BY <1>1, EndingsGrow
  <2>2. 0 \in S
    <3>1. Len(s) \in 0..Len(s) /\ Len(s) + 0 = Len(s)
      BY <1>1
    <3>2. Ending(t, Len(s) + 0) = Ending(s, Len(s))
      BY <1>2, <3>1
    <3>3. Size(Ending(t, Len(s) + 0)) = 3 * 0 + Size(s) /\ 0 \in 0..m
      BY <2>1, <3>2
    <3> QED BY <3>3
  <2>3. ASSUME NEW j \in 0..m, j \in S, j < m PROVE j + 1 \in S
    <3>1. /\ Len(s) + j \in 0..Len(t) - 1 /\ (Len(s) + j) + 1 = Len(s) + (j + 1)
          /\ Len(t) - (Len(s) + j) = m - j /\ m - j \in 1..m /\ j + 1 \in 0..m
      BY <1>1, <2>3
    <3>2. Width(t[m - j]) = 3
      BY <1>1, <3>1 DEF Width
    <3>3. Size(Ending(t, Len(s) + (j + 1))) = Size(Ending(t, Len(s) + j)) + 3
      <4>1. Size(Ending(t, (Len(s) + j) + 1)) = Size(Ending(t, Len(s) + j)) + Width(t[Len(t) - (Len(s) + j)])
        BY <2>1, <3>1
      <4> QED BY <3>1, <3>2, <4>1
    <3>4. Size(Ending(t, Len(s) + (j + 1))) = 3 * (j + 1) + Size(s)
      BY <2>1, <2>3, <3>3
    <3> QED BY <3>1, <3>4
  <2>4. 0..m \subseteq S
    <3> HIDE DEF S
    <3> QED BY <2>2, <2>3, EveryPrefix
  <2> QED BY <2>4
<1>5. Size(t) = 3 * m + Size(s)
  <2>1. m \in 0..m /\ Len(s) + m = Len(t)
    BY <1>1
  <2>2. Size(Ending(t, Len(t))) = Size(t)
    BY <1>1, EndingsGrow
  <2> QED BY <1>4, <2>1, <2>2
<1> QED BY <1>2, <1>3, <1>4, <1>5

\* Nothing is missing exactly when every character is shown.
LEMMA ShownWhole ==
  ASSUME NEW b \in Seq(1..4), NEW t, NEW kept \in Int, NEW n \in 0..Len(b), NEW lost \in 0..3,
         Shown(b, t, kept, n, lost)
  PROVE  /\ t = b <=> n = Len(b)
         /\ t \in Texts /\ kept \in 0..Size(b) /\ Size(b) \in Nat
         /\ n = Len(b) => lost = 0
<1>1. /\ b \in Texts /\ \A i \in 1..Len(b) : b[i] # REPLACEMENT
  BY StreamIsText
<1>2. /\ \A m \in 0..Len(b) : Size(Ending(b, m)) \in Nat /\ Size(Ending(b, m)) <= Size(b)
      /\ Size(b) \in Nat /\ Ending(b, Len(b)) = b /\ Len(b) \in Nat
  BY <1>1, EndingsGrow
<1> DEFINE e == Ending(b, n)
<1>3. e \in Texts /\ Len(e) = n
  BY <1>1, EndingIs
<1>10. t = Unreadable(lost) \o e /\ lost \in Nat
  BY DEF Shown
<1> HIDE DEF e
<1>4. /\ t \in Texts /\ Len(t) = lost + n /\ \A i \in 1..lost : t[i] = REPLACEMENT
      /\ \A i \in 1..n : t[lost + i] = e[i]
  BY <1>3, <1>10, UnreadableBefore
<1>5. n = Len(b) => lost = 0
  BY <1>2 DEF Shown
<1>6. lost = 0 => t = e
  <2> SUFFICES ASSUME lost = 0 PROVE t = e
    OBVIOUS
  <2>1. \A i \in 1..n : lost + i = i
    OBVIOUS
  <2>2. Len(t) = n /\ \A i \in 1..n : t[i] = e[i]
    BY <1>4, <2>1
  <2> QED BY <1>3, <1>4, <2>2, SameText
<1>7. n = Len(b) => t = b
  BY <1>2, <1>5, <1>6 DEF e
<1>8. t = b => n = Len(b)
  <2> SUFFICES ASSUME t = b, n # Len(b) PROVE FALSE
    OBVIOUS
  <2>1. lost > 0 => 1 \in 1..lost /\ 1 \in 1..Len(b)
    BY <1>2, <1>4
  <2>2. lost = 0
    BY <1>1, <1>4, <2>1
  <2> QED BY <1>4, <2>2
<1>9. kept \in 0..Size(b)
  <2>1. n \in 0..Len(b) /\ (n < Len(b) => n + 1 \in 0..Len(b))
    BY <1>2
  <2> QED BY <1>2, <2>1 DEF Shown
<1> QED BY <1>2, <1>4, <1>5, <1>7, <1>8, <1>9

\* What is decoded of the last bytes of a stream.
LEMMA BuiltShown ==
  ASSUME NEW b \in Seq(1..4), NEW k \in 0..Size(b)
  PROVE  \E n \in 0..Len(b), lost \in 0..3 :
           Shown(b, Decoded(b, k), k, n, lost) /\ (n = Len(b) <=> k = Size(b))
<1>1. b \in Texts /\ \A i \in 1..Len(b) : b[i] \in 1..4 /\ Width(b[i]) = b[i]
  BY StreamIsText
<1>2. /\ \A m \in 0..Len(b) : Size(Ending(b, m)) \in Nat
      /\ \A m, n \in 0..Len(b) : m < n => Size(Ending(b, m)) < Size(Ending(b, n))
      /\ \A m \in 0..Len(b) - 1 : Size(Ending(b, m + 1)) = Size(Ending(b, m)) + Width(b[Len(b) - m])
      /\ Size(b) \in Nat /\ Size(Ending(b, Len(b))) = Size(b) /\ Len(b) \in Nat
  BY <1>1, EndingsGrow
<1>3. PICK n \in 0..Len(b) : Size(Ending(b, n)) <= k /\ (n < Len(b) => Size(Ending(b, n + 1)) > k)
  BY <1>1, LongestEnding
<1> DEFINE lost == k - Size(Ending(b, n))
<1>4. Decoded(b, k) = Unreadable(lost) \o Ending(b, n)
  BY <1>1, <1>3, DecodedIs
<1>5. k \in Nat /\ Size(Ending(b, n)) \in Nat /\ k <= Size(b)
  BY <1>2
<1>6. n = Len(b) => k = Size(b) /\ lost = 0
  BY <1>2, <1>3, <1>5
<1>7. n < Len(b) => /\ k < Size(Ending(b, n)) + Width(b[Len(b) - n]) /\ Width(b[Len(b) - n]) \in 1..4
                    /\ Size(Ending(b, n + 1)) = Size(Ending(b, n)) + Width(b[Len(b) - n])
  <2> SUFFICES ASSUME n < Len(b)
               PROVE  /\ k < Size(Ending(b, n)) + Width(b[Len(b) - n]) /\ Width(b[Len(b) - n]) \in 1..4
                      /\ Size(Ending(b, n + 1)) = Size(Ending(b, n)) + Width(b[Len(b) - n])
    OBVIOUS
  <2>1. n \in 0..Len(b) - 1 /\ Len(b) - n \in 1..Len(b)
    BY <1>2
  <2>2. Width(b[Len(b) - n]) \in 1..4
    BY <1>1, <2>1
  <2>3. Size(Ending(b, n + 1)) = Size(Ending(b, n)) + Width(b[Len(b) - n])
    BY <1>2, <2>1
  <2> QED BY <1>3, <1>5, <2>2, <2>3
<1>8. n = Len(b) \/ n < Len(b)
  BY <1>2
<1>9. lost \in 0..3
  BY <1>3, <1>5, <1>6, <1>7, <1>8
<1>10. k = Size(b) => n = Len(b)
  <2>1. n < Len(b) => Size(Ending(b, n + 1)) <= Size(b)
    <3>1. n < Len(b) => n + 1 \in 0..Len(b)
      BY <1>2
    <3> QED BY <1>1, <3>1, EndingsGrow
  <2> QED BY <1>2, <1>3, <1>5, <1>7, <1>8, <2>1
<1>11. Shown(b, Decoded(b, k), k, n, lost)
  <2>1. lost = 0 => k = Size(Ending(b, n))
    BY <1>5
  <2>2. lost > 0 => n < Len(b)
    BY <1>6, <1>8
  <2>3. lost > 0 => lost < Width(b[Len(b) - n]) /\ Size(Ending(b, n)) < k /\ k <= Size(Ending(b, n + 1))
    BY <1>5, <1>7, <2>2
  <2> HIDE DEF lost
  <2> QED BY <1>4, <2>1, <2>2, <2>3 DEF Shown
<1> HIDE DEF lost
<1> QED BY <1>6, <1>9, <1>10, <1>11

LEMMA EndingOfEnding ==
  ASSUME NEW b \in Texts, NEW n \in 0..Len(b), NEW m \in 0..n
  PROVE  Ending(Ending(b, n), m) = Ending(b, m)
<1> DEFINE e == Ending(b, n)
<1>1. e \in Texts /\ Len(e) = n /\ Len(b) \in Nat /\ \A i \in 1..n : e[i] = b[Len(b) - n + i]
  BY EndingIs
<1> HIDE DEF e
<1>2. m \in 0..Len(e) /\ m \in 0..Len(b)
  BY <1>1
<1>3. /\ Ending(e, m) \in Texts /\ Len(Ending(e, m)) = m
      /\ \A i \in 1..m : Ending(e, m)[i] = e[n - m + i]
  BY <1>1, <1>2, EndingIs
<1>4. /\ Ending(b, m) \in Texts /\ Len(Ending(b, m)) = m
      /\ \A i \in 1..m : Ending(b, m)[i] = b[Len(b) - m + i]
  BY <1>2, EndingIs
<1>5. ASSUME NEW i \in 1..m PROVE Ending(e, m)[i] = Ending(b, m)[i]
  <2>1. n - m + i \in 1..n /\ Len(b) - n + (n - m + i) = Len(b) - m + i
    BY <1>1
  <2> QED BY <1>1, <1>3, <1>4, <2>1
<1> QED BY <1>3, <1>4, <1>5, SameText DEF e

\* Half of the bytes of what is shown, taken again from the end.
LEMMA HalvedShown ==
  ASSUME NEW b \in Seq(1..4), NEW t, NEW kept \in Int, NEW n \in 0..Len(b), NEW lost \in 0..3,
         Shown(b, t, kept, n, lost), t # <<>>
  PROVE  \E m \in 0..n, left \in 0..3 :
           Shown(b, Decoded(t, Half(Size(t))), Half(Size(t)), m, left) /\ m < Len(b)
<1> DEFINE e == Ending(b, n)
           k == Half(Size(t))
<1>1. b \in Texts /\ \A i \in 1..Len(b) : Width(b[i]) \in 1..4
  BY StreamIsText
<1>2. /\ \A m \in 0..Len(b) : Size(Ending(b, m)) \in Nat
      /\ \A m \in 0..Len(b) - 1 : Size(Ending(b, m + 1)) = Size(Ending(b, m)) + Width(b[Len(b) - m])
      /\ Len(b) \in Nat
  BY <1>1, EndingsGrow
<1>3. e \in Texts /\ Len(e) = n /\ Size(e) \in Nat
  BY <1>1, <1>2, EndingIs
<1>4. t = Unreadable(lost) \o e /\ lost \in Nat
  BY DEF Shown
<1>5. /\ lost > 0 => n < Len(b) /\ lost < Width(b[Len(b) - n])
      /\ n = Len(b) => lost = 0
  BY <1>2 DEF Shown
<1> HIDE DEF e
<1>6. t \in Texts /\ Len(t) = lost + n
  BY <1>3, <1>4, UnreadableBefore
<1>7. /\ \A m \in 0..n : Ending(t, m) = Ending(e, m)
      /\ \A j \in 0..lost : /\ Ending(t, n + j) = Unreadable(j) \o e
                           /\ Size(Ending(t, n + j)) = 3 * j + Size(e)
      /\ Size(t) = 3 * lost + Size(e)
  <2>1. \A m \in 0..Len(e) : Ending(t, m) = Ending(e, m)
    BY <1>3, <1>4, EndingsOfUnreadable
  <2>2. ASSUME NEW j \in 0..lost
        PROVE  Ending(t, Len(e) + j) = Unreadable(j) \o e /\ Size(Ending(t, Len(e) + j)) = 3 * j + Size(e)
    <3>1. Ending(t, Len(e) + j) = Unreadable(j) \o e
      BY <1>3, <1>4, EndingsOfUnreadable
    <3>2. Size(Ending(t, Len(e) + j)) = 3 * j + Size(e)
      <4> DEFINE u == Unreadable(j) \o e
      <4>1. u = Unreadable(j) \o e /\ j \in Nat
        BY <1>4
      <4> HIDE DEF u
      <4>2. Size(u) = 3 * j + Size(e)
        BY <1>3, <4>1, EndingsOfUnreadable
      <4> QED BY <3>1, <4>1, <4>2
    <3> QED BY <3>1, <3>2
  <2>3. Size(t) = 3 * lost + Size(e)
    BY <1>3, <1>4, EndingsOfUnreadable
  <2> QED BY <1>3, <2>1, <2>2, <2>3
<1>8. \A m \in 0..n : Ending(e, m) = Ending(b, m)
  BY <1>1, EndingOfEnding DEF e
<1>9. /\ \A m \in 0..Len(t) : Size(Ending(t, m)) \in Nat
      /\ \A l, m \in 0..Len(t) : l < m => Size(Ending(t, l)) < Size(Ending(t, m))
      /\ Size(t) \in Nat /\ Size(Ending(t, 0)) = 0 /\ Size(Ending(t, Len(t))) = Size(t)
  BY <1>6, EndingsGrow
<1>10. Size(t) # 0
  <2>1. Len(t) # 0 /\ Len(t) \in Nat
    BY <1>6 DEF Texts
  <2>2. 0 \in 0..Len(t) /\ Len(t) \in 0..Len(t) /\ 0 < Len(t)
    BY <2>1
  <2> QED BY <1>9, <2>2
<1>11. k \in Nat /\ 2 * k <= Size(t) /\ Size(t) <= 2 * k + 1 /\ k < Size(t) /\ k \in 0..Size(t)
  BY <1>9, <1>10 DEF Half
<1> HIDE DEF k
<1>12. CASE k <= Size(e)
  <2>1. k \in 0..Size(e)
    BY <1>11, <1>12
  <2>2. PICK m \in 0..n : Size(Ending(e, m)) <= k /\ (m < n => Size(Ending(e, m + 1)) > k)
    BY <1>3, <2>1, LongestEnding
  <2>3. /\ m \in 0..Len(t) /\ m \in 0..Len(b) /\ m \in Nat /\ n \in Nat
        /\ (m < n => m + 1 \in 0..n) /\ (m < Len(t) => m + 1 \in 0..Len(t))
    BY <1>2, <1>6
  <2>4. m = n => k = Size(e) /\ Size(Ending(b, m)) = k
    <3>1. n \in 0..n /\ Ending(e, n) = e
      BY <1>3, <2>3, EndingsGrow
    <3> QED BY <1>3, <1>8, <1>11, <1>12, <2>2, <3>1
  <2>5. m < Len(t) => Size(Ending(t, m + 1)) > k
    <3>1. CASE m < n
      BY <1>7, <2>2, <2>3, <3>1
    <3>2. CASE m = n /\ m < Len(t)
      <4>1. Size(Ending(t, m)) < Size(Ending(t, m + 1))
        BY <1>9, <2>3, <3>2
      <4>2. Size(Ending(t, m)) = k
        BY <1>7, <1>8, <2>4, <3>2
      <4> QED BY <1>9, <1>11, <2>3, <3>2, <4>1, <4>2
    <3> QED BY <2>3, <3>1, <3>2
  <2>6. Ending(t, m) = Ending(b, m)
    BY <1>7, <1>8
  <2> DEFINE left == k - Size(Ending(b, m))
  <2>7. Size(Ending(t, m)) <= k
    BY <1>7, <2>2
  <2>8. Decoded(t, k) = Unreadable(left) \o Ending(b, m)
    <3>1. Decoded(t, k) = Unreadable(k - Size(Ending(t, m))) \o Ending(t, m)
      BY <1>6, <1>11, <2>3, <2>5, <2>7, DecodedIs
    <3> QED BY <2>6, <3>1
  <2>9. m < Len(b)
    <3> SUFFICES ASSUME m = Len(b) PROVE FALSE
      BY <1>2, <2>3
    <3>1. n = Len(b) /\ m = n
      BY <1>2, <2>3
    <3>2. Size(t) = Size(e)
      BY <1>3, <1>5, <1>7, <3>1
    <3> QED BY <1>3, <1>11, <2>4, <3>1, <3>2
  <2>10. Size(Ending(b, m)) \in Nat /\ Size(Ending(b, m)) <= k
    BY <1>2, <2>3, <2>6, <2>7
  <2>11. m < n => /\ k < Size(Ending(b, m + 1))
                  /\ Size(Ending(b, m + 1)) = Size(Ending(b, m)) + Width(b[Len(b) - m])
                  /\ Width(b[Len(b) - m]) \in 1..4
    <3> SUFFICES ASSUME m < n
                 PROVE  /\ k < Size(Ending(b, m + 1))
                        /\ Size(Ending(b, m + 1)) = Size(Ending(b, m)) + Width(b[Len(b) - m])
                        /\ Width(b[Len(b) - m]) \in 1..4
      OBVIOUS
    <3>1. m \in 0..Len(b) - 1 /\ Len(b) - m \in 1..Len(b)
      BY <1>2, <2>3, <2>9
    <3>2. Size(Ending(e, m + 1)) > k /\ Ending(e, m + 1) = Ending(b, m + 1)
      BY <1>8, <2>2, <2>3
    <3>3. Size(Ending(b, m + 1)) \in Nat
      BY <1>2, <2>3, <2>9
    <3> QED BY <1>1, <1>2, <1>11, <3>1, <3>2, <3>3
  <2>12. m = n \/ m < n
    BY <2>3
  <2>13. left \in 0..3
    BY <1>11, <2>4, <2>10, <2>11, <2>12
  <2>14. left > 0 => m < n
    BY <1>11, <2>4, <2>10, <2>12
  <2>15. left = 0 => k = Size(Ending(b, m))
    BY <1>11, <2>10
  <2>16. left > 0 => left < Width(b[Len(b) - m]) /\ Size(Ending(b, m)) < k /\ k <= Size(Ending(b, m + 1))
    BY <1>11, <2>10, <2>11, <2>14
  <2> HIDE DEF left
  <2>17. Shown(b, Decoded(t, k), k, m, left)
    BY <2>8, <2>9, <2>15, <2>16 DEF Shown
  <2> QED BY <2>9, <2>13, <2>17 DEF k
<1>13. CASE k > Size(e)
  <2> DEFINE x == k - Size(e)
             j == x \div 3
             left == x - 3 * j + j
             w == Width(b[Len(b) - n])
  <2>1. lost # 0
    BY <1>3, <1>7, <1>11, <1>13
  <2>2. n < Len(b) /\ lost < w
    BY <1>4, <1>5, <2>1
  <2>3. n \in 0..Len(b) - 1 /\ Len(b) - n \in 1..Len(b) /\ n \in Nat
    BY <1>2, <2>2
  <2>4. w \in 1..4 /\ Size(Ending(b, n + 1)) = Size(e) + w
    BY <1>1, <1>2, <2>3 DEF e
  <2>5. x \in Nat \ {0} /\ 2 * x <= 3 * lost /\ k = Size(e) + x
    <3> DEFINE z == Size(e)
               y == Size(t)
    <3>1. z \in Nat /\ k \in Nat /\ k > z /\ 2 * k <= y /\ y = 3 * lost + z /\ lost \in Int
      BY <1>3, <1>4, <1>7, <1>11, <1>13
    <3>2. x = k - z
      OBVIOUS
    <3> HIDE DEF x, y, z
    <3>3. x \in Nat \ {0} /\ 2 * x <= 3 * lost /\ k = z + x
      BY <3>1, <3>2
    <3> QED BY <3>3 DEF z
  <2> HIDE DEF x, w
  <2>6. lost \in 1..3 /\ (lost = 1 => x = 1) /\ (lost = 2 => x \in 1..3) /\ (lost = 3 => x \in 1..4)
    BY <2>1, <2>5
  <2>7. j \in 0..lost /\ 3 * j <= x /\ x < 3 * (j + 1) /\ left \in 1..lost /\ x <= w /\ x - 3 * j \in Nat
    <3>1. x = 1 \/ x = 2 \/ x = 3 \/ x = 4
      BY <2>6
    <3>2. lost = 1 \/ lost = 2 \/ lost = 3
      BY <2>6
    <3>3. w \in Int /\ lost < w
      BY <2>2, <2>4
    <3>4. /\ 1 \div 3 = 0 /\ 2 \div 3 = 0 /\ 3 \div 3 = 1 /\ 4 \div 3 = 1
      OBVIOUS
    <3>5. \/ x = 1 /\ j = 0 /\ left = 1
          \/ x = 2 /\ j = 0 /\ left = 2
          \/ x = 3 /\ j = 1 /\ left = 1
          \/ x = 4 /\ j = 1 /\ left = 2
      BY <3>1, <3>4
    <3> HIDE DEF j, left
    <3>6. \/ lost = 1 /\ x = 1
          \/ lost = 2 /\ x \in 1..3
          \/ lost = 3
      BY <2>6, <3>2
    <3>7. j \in 0..lost /\ left \in 1..lost
      BY <3>5, <3>6
    <3>8. 3 * j <= x /\ x < 3 * (j + 1) /\ x - 3 * j \in Nat
      BY <3>5
    <3>9. x <= w
      BY <3>1, <3>3, <3>6
    <3> QED BY <3>7, <3>8, <3>9
  <2>8. (x - 3 * j) + j = left
    OBVIOUS
  <2> HIDE DEF j, left
  <2>9. n + j \in 0..Len(t) /\ (n + j < Len(t) => j + 1 \in 0..lost /\ (n + j) + 1 = n + (j + 1)) /\ j \in Nat
    BY <1>4, <1>6, <2>3, <2>7
  <2>10. Size(Ending(t, n + j)) = 3 * j + Size(e) /\ Ending(t, n + j) = Unreadable(j) \o e
    BY <1>7, <2>7
  <2>11. Size(Ending(t, n + j)) <= k
    BY <1>3, <2>5, <2>7, <2>10
  <2>12. n + j < Len(t) => Size(Ending(t, (n + j) + 1)) > k
    <3> SUFFICES ASSUME n + j < Len(t) PROVE Size(Ending(t, (n + j) + 1)) > k
      OBVIOUS
    <3>1. Size(Ending(t, n + (j + 1))) = 3 * (j + 1) + Size(e)
      BY <1>7, <2>9
    <3>2. Size(Ending(t, n + (j + 1))) > k
      <4> DEFINE z == Size(e)
                 y == Size(Ending(t, n + (j + 1)))
      <4>1. z \in Nat /\ x \in Nat /\ k = z + x /\ x < 3 * (j + 1) /\ y = 3 * (j + 1) + z /\ j \in Nat
        BY <1>3, <2>5, <2>7, <2>9, <3>1
      <4> HIDE DEF y, z
      <4>2. y > k
        BY <4>1
      <4> QED BY <4>2 DEF y
    <3> QED BY <2>9, <3>2
  <2>13. Decoded(t, k) = Unreadable(k - Size(Ending(t, n + j))) \o Ending(t, n + j)
    BY <1>6, <1>11, <2>9, <2>11, <2>12, DecodedIs
  <2>14. k - Size(Ending(t, n + j)) = x - 3 * j
    BY <1>3, <2>5, <2>9, <2>10
  <2>15. Decoded(t, k) = Unreadable(x - 3 * j) \o (Unreadable(j) \o e)
    BY <2>10, <2>13, <2>14
  <2>16. Unreadable(x - 3 * j) \o (Unreadable(j) \o e) = Unreadable(left) \o e
    <3> DEFINE p == x - 3 * j
               u == Unreadable(p) \o (Unreadable(j) \o e)
               v == Unreadable(left) \o e
    <3>1. p \in Nat /\ left \in Nat /\ p + j = left /\ j \in Nat /\ Len(e) \in Nat
      BY <1>3, <2>3, <2>7, <2>8, <2>9
    <3>2. /\ Unreadable(j) \o e \in Texts /\ Len(Unreadable(j) \o e) = j + Len(e)
          /\ \A i \in 1..j : (Unreadable(j) \o e)[i] = REPLACEMENT
          /\ \A i \in 1..Len(e) : (Unreadable(j) \o e)[j + i] = e[i]
      BY <1>3, <3>1, UnreadableBefore
    <3>3. /\ u \in Texts /\ Len(u) = p + (j + Len(e))
          /\ \A i \in 1..p : u[i] = REPLACEMENT
          /\ \A i \in 1..(j + Len(e)) : u[p + i] = (Unreadable(j) \o e)[i]
      <4> DEFINE q == Unreadable(j) \o e
      <4>1. q \in Texts /\ Len(q) = j + Len(e)
        BY <3>2
      <4> HIDE DEF q
      <4>2. /\ Unreadable(p) \o q \in Texts /\ Len(Unreadable(p) \o q) = p + Len(q)
            /\ \A i \in 1..p : (Unreadable(p) \o q)[i] = REPLACEMENT
            /\ \A i \in 1..Len(q) : (Unreadable(p) \o q)[p + i] = q[i]
        BY <3>1, <4>1, UnreadableBefore
      <4> QED BY <4>1, <4>2 DEF q
    <3>4. /\ v \in Texts /\ Len(v) = left + Len(e)
          /\ \A i \in 1..left : v[i] = REPLACEMENT
          /\ \A i \in 1..Len(e) : v[left + i] = e[i]
      BY <1>3, <3>1, UnreadableBefore
    <3> HIDE DEF p, u, v
    <3>5. ASSUME NEW i \in 1..Len(u) PROVE u[i] = v[i]
      <4>1. CASE i <= p
        <5>1. i \in 1..p /\ i \in 1..left
          BY <3>1, <3>3, <4>1
        <5> QED BY <3>3, <3>4, <5>1
      <4>2. CASE i > p /\ i <= left
        <5>1. i - p \in 1..j /\ i - p \in 1..(j + Len(e)) /\ p + (i - p) = i /\ i \in 1..left
          BY <3>1, <3>3, <4>2
        <5>2. u[p + (i - p)] = (Unreadable(j) \o e)[i - p]
          BY <3>3, <5>1
        <5> QED BY <3>2, <3>4, <5>1, <5>2
      <4>3. CASE i > left
        <5>1. /\ i - left \in 1..Len(e) /\ i - p \in 1..(j + Len(e)) /\ p + (i - p) = i
              /\ left + (i - left) = i /\ j + (i - left) = i - p
          BY <3>1, <3>3, <4>3
        <5>2. u[p + (i - p)] = (Unreadable(j) \o e)[i - p]
          BY <3>3, <5>1
        <5>3. (Unreadable(j) \o e)[j + (i - left)] = e[i - left] /\ v[left + (i - left)] = e[i - left]
          BY <3>2, <3>4, <5>1
        <5> QED BY <5>1, <5>2, <5>3
      <4> QED BY <3>1, <3>3, <4>1, <4>2, <4>3
    <3>6. Len(u) = Len(v)
      BY <3>1, <3>3, <3>4
    <3>7. u = v
      BY <3>3, <3>4, <3>5, <3>6, SameText
    <3> QED BY <3>7 DEF u, v, p
  <2>17. left < w /\ Size(e) < k /\ k <= Size(Ending(b, n + 1)) /\ left \in 0..3 /\ left > 0
    <3>1. left \in Int /\ lost \in 0..3 /\ left <= lost /\ left > 0 /\ lost < w
      BY <2>2, <2>7
    <3>2. left < w /\ left \in 0..3 /\ left > 0
      BY <2>4, <3>1
    <3>3. Size(e) < k /\ k <= Size(e) + w
      BY <1>3, <2>4, <2>5, <2>7
    <3> QED BY <2>4, <3>2, <3>3
  <2>18. Shown(b, Decoded(t, k), k, n, left)
    <3>1. Decoded(t, k) = Unreadable(left) \o Ending(b, n)
      BY <2>15, <2>16 DEF e
    <3>2. /\ left # 0 /\ n < Len(b) /\ left < Width(b[Len(b) - n])
          /\ Size(Ending(b, n)) < k /\ k <= Size(Ending(b, n + 1))
      BY <2>2, <2>17 DEF e, w
    <3> QED BY <3>1, <3>2 DEF Shown
  <2>19. n \in 0..n
    BY <2>3
  <2> QED BY <2>2, <2>17, <2>18, <2>19 DEF k
<1> QED BY <1>3, <1>11, <1>12, <1>13

LEMMA StreamSize ==
  ASSUME NEW b \in Seq(1..4)
  PROVE  Size(b) \in Nat
<1>1. b \in Texts
  BY StreamIsText
<1> QED BY <1>1, EndingsGrow

\* What a budget keeps of a stream is at most the stream.
LEMMA KeptBounds ==
  ASSUME NEW out \in Nat, NEW err \in Nat, NEW b \in Nat
  PROVE  /\ Kept(out, err, b).stdout \in 0..out /\ Kept(out, err, b)["stdout"] \in 0..out
         /\ Kept(out, err, b).stderr \in 0..err /\ Kept(out, err, b)["stderr"] \in 0..err
<1> DEFINE half == b \div 2
           spare == b - Least(err, half) - Least(out, half)
           stderr == Least(err, half) + Least(spare, err - Least(err, half))
           left == spare - (stderr - Least(err, half))
           stdout == Least(out, half) + Least(left, out - Least(out, half))
<1>1. half \in Nat /\ half + half <= b
  OBVIOUS
<1>2. Kept(out, err, b).stdout = stdout /\ Kept(out, err, b).stderr = stderr
  BY DEF Kept
<1> HIDE DEF half
<1>3. stdout \in 0..out /\ stderr \in 0..err
  BY <1>1 DEF Least
<1> QED BY <1>2, <1>3

\* The outputs and what becomes of them have their types; a task that ran has both streams.
PayloadType ==
  /\ DOMAIN blob \subseteq Cells
  /\ \A c \in DOMAIN blob : blob[c] \in Seq(1..4)
  /\ \A t \in Tasks : \A s \in Streams : Ran(t) <=> <<t, s>> \in DOMAIN blob
  /\ budget \in [Tasks -> Nat]
  /\ text \in [Cells -> Texts]
  /\ range \in [Cells -> Nat \X Nat]
  /\ cut \in [Tasks -> BOOLEAN]
  /\ next \in [Cells -> Nat]
  /\ got \in [Cells -> SUBSET Nat]

\* The text of a stream is its end, and its range tells where that starts.
TextsExact ==
  \A c \in Cells :
    IF c \in DOMAIN blob
    THEN /\ range[c][2] = Total(c)
         /\ \E n \in 0..Len(blob[c]), lost \in 0..3 :
              Shown(blob[c], text[c], Total(c) - range[c][1], n, lost)
    ELSE text[c] = <<>>

\* truncated: a stream of the task is not what it was.
CutsTold ==
  \A t \in Tasks : Ran(t) => (cut[t] <=> \E s \in Streams : text[<<t, s>>] # blob[<<t, s>>])

\* stderr is what the budget left of it as long as there is some stdout.
InTurn ==
  (\E t \in Tasks : text[<<t, "stdout">>] # <<>>) =>
    \A t \in Tasks : text[<<t, "stderr">>] = CmdResult(<<t, "stderr">>).text

\* What was read is what precedes the next offset.
ChunksExact ==
  \A c \in DOMAIN blob : next[c] <= Total(c) /\ got[c] = 0..next[c] - 1

\* What is sent fits with its envelope, or there was nothing left to cut.
FitsOrEmpty == MessageSize <= MaxMessage - Envelope \/ \A c \in Cells : text[c] = <<>>

\* The inductive invariant of the outputs, from the end of the commands to the last chunk.
PayloadInv ==
  stage # "idle" =>
    /\ PayloadType /\ ChunksExact
    /\ stage # "run" => TextsExact /\ CutsTold /\ InTurn
    /\ CutIfNeeded
    /\ stage = "sent" => FitsOrEmpty

LEMMA CellParts ==
  /\ \A c \in Cells : c = <<c[1], c[2]>> /\ c[1] \in Tasks /\ c[2] \in Streams
  /\ \A t \in Tasks : \A s \in Streams : <<t, s>> \in Cells
BY DEF Cells

LEMMA PayloadStarts == DocInit => PayloadInv
<1> SUFFICES ASSUME DocInit, stage # "idle" PROVE PayloadInv
  BY DEF PayloadInv
<1>1. PayloadInit
  BY DEF DocInit, PayloadIdle
<1>2. /\ stage = "run" /\ text = [c \in Cells |-> <<>>] /\ range = [c \in Cells |-> <<0, 0>>]
      /\ cut = [t \in Tasks |-> FALSE] /\ next = [c \in Cells |-> 0] /\ got = [c \in Cells |-> {}]
  BY <1>1 DEF PayloadInit
<1>3. PICK ran \in SUBSET Tasks : blob \in [ran \X Streams -> Outputs]
  BY <1>1 DEF PayloadInit
<1>4. DOMAIN blob = ran \X Streams /\ \A c \in DOMAIN blob : blob[c] \in Seq(1..4)
  BY <1>3, PayloadAssumption
<1>5. DOMAIN blob \subseteq Cells
  BY <1>4 DEF Cells
<1>6. \A t \in Tasks : \A s \in Streams : Ran(t) <=> <<t, s>> \in DOMAIN blob
  BY <1>4 DEF Ran, Streams
<1>7. budget \in [Tasks -> Nat]
  <2>1. PICK plan \in Declared, own \in [Tasks -> Declared] :
          budget = [t \in Tasks |-> EffectiveBudget(own[t], plan)]
    BY <1>1 DEF PayloadInit
  <2>2. Declared \subseteq Nat /\ DefaultMax \in Nat /\ HardMax \in Nat
    BY PayloadAssumption
  <2>3. \A t \in Tasks : EffectiveBudget(own[t], plan) \in Nat
    BY <2>2 DEF EffectiveBudget, Least
  <2> QED BY <2>1, <2>3
<1>8. text \in [Cells -> Texts] /\ range \in [Cells -> Nat \X Nat] /\ cut \in [Tasks -> BOOLEAN]
      /\ next \in [Cells -> Nat] /\ got \in [Cells -> SUBSET Nat]
  <2>1. <<>> \in Texts
    BY DEF Texts
  <2> QED BY <1>2, <2>1
<1>9. ChunksExact
  <2>1. \A c \in DOMAIN blob : Total(c) \in Nat
    BY <1>4, StreamSize DEF Total
  <2>2. \A c \in DOMAIN blob : next[c] = 0 /\ got[c] = {}
    BY <1>2, <1>5
  <2>3. 0..0 - 1 = {}
    OBVIOUS
  <2>4. ASSUME NEW c \in DOMAIN blob PROVE next[c] <= Total(c) /\ got[c] = 0..next[c] - 1
    <3>1. next[c] = 0 /\ got[c] = {} /\ Total(c) \in Nat
      BY <2>1, <2>2
    <3>2. 0..next[c] - 1 = {}
      BY <2>3, <3>1
    <3> QED BY <3>1, <3>2
  <2> QED BY <2>4 DEF ChunksExact
<1> QED BY <1>2, <1>4, <1>5, <1>6, <1>7, <1>8, <1>9 DEF PayloadInv, PayloadType, CutIfNeeded

LEMMA KeptOfBounds ==
  ASSUME PayloadType, NEW t \in Tasks, Ran(t), NEW s \in Streams
  PROVE  KeptOf(t)[s] \in 0..Total(<<t, s>>)
<1>1. \A u \in Streams : blob[<<t, u>>] \in Seq(1..4)
  BY DEF PayloadType
<1>2. \A u \in Streams : Total(<<t, u>>) \in Nat
  BY <1>1, StreamSize DEF Total
<1>3. budget[t] \in Nat
  BY DEF PayloadType
<1>4. /\ KeptOf(t)["stdout"] \in 0..Total(<<t, "stdout">>)
      /\ KeptOf(t)["stderr"] \in 0..Total(<<t, "stderr">>)
  BY <1>2, <1>3, KeptBounds DEF KeptOf, Streams
<1> QED BY <1>4 DEF Streams

\* Building the results keeps the end of each stream.
LEMMA BuildStep ==
  ASSUME PayloadType, ChunksExact, Build
  PROVE  PayloadInv'
<1>1. /\ stage' = "fit" /\ UNCHANGED <<blob, budget, metadata, turn, next, got>>
      /\ text' = [c \in Cells |-> CmdResult(c).text] /\ range' = [c \in Cells |-> CmdResult(c).range]
      /\ cut' = [t \in Tasks |-> Ran(t) /\ \E s \in Streams : KeptOf(t)[s] < Total(<<t, s>>)]
  BY DEF Build
<1>2. ASSUME NEW c \in Cells, c \in DOMAIN blob
      PROVE  /\ text'[c] \in Texts /\ KeptOf(c[1])[c[2]] \in 0..Total(c) /\ Total(c) \in Nat
             /\ range'[c] = <<Total(c) - KeptOf(c[1])[c[2]], Total(c)>>
             /\ \E n \in 0..Len(blob[c]), lost \in 0..3 :
                  Shown(blob[c], text'[c], KeptOf(c[1])[c[2]], n, lost)
             /\ text'[c] # blob[c] <=> KeptOf(c[1])[c[2]] < Total(c)
  <2>1. c = <<c[1], c[2]>> /\ c[1] \in Tasks /\ c[2] \in Streams
    BY CellParts
  <2>2. Ran(c[1])
    BY <1>2, <2>1 DEF PayloadType
  <2> DEFINE k == KeptOf(c[1])[c[2]]
             b == blob[c]
  <2>3. k \in 0..Total(c)
    BY <2>1, <2>2, KeptOfBounds
  <2>4. b \in Seq(1..4)
    BY <1>2 DEF PayloadType
  <2>5. Total(c) = Size(b) /\ Size(b) \in Nat
    BY <2>4, StreamSize DEF Total
  <2>6. text'[c] = Decoded(b, k)
    BY <1>1, <2>2 DEF CmdResult
  <2>7. range'[c] = <<Total(c) - k, Total(c)>>
    BY <1>1, <2>2 DEF CmdResult
  <2> HIDE DEF k, b
  <2>8. PICK n \in 0..Len(b), lost \in 0..3 :
          Shown(b, Decoded(b, k), k, n, lost) /\ (n = Len(b) <=> k = Size(b))
    BY <2>3, <2>4, <2>5, BuiltShown
  <2>9. Decoded(b, k) \in Texts /\ (Decoded(b, k) = b <=> n = Len(b))
    <3>1. k \in Int
      BY <2>3, <2>5
    <3> QED BY <2>4, <2>8, <3>1, ShownWhole
  <2>10. Decoded(b, k) # b <=> k < Total(c)
    BY <2>3, <2>5, <2>8, <2>9
  <2> QED BY <2>3, <2>5, <2>6, <2>7, <2>8, <2>9, <2>10 DEF k, b
<1>3. ASSUME NEW c \in Cells, c \notin DOMAIN blob
      PROVE  text'[c] = <<>> /\ range'[c] = <<0, 0>>
  <2>1. c = <<c[1], c[2]>> /\ c[1] \in Tasks /\ c[2] \in Streams
    BY CellParts
  <2>2. ~Ran(c[1])
    BY <1>3, <2>1 DEF PayloadType
  <2> QED BY <1>1, <2>2 DEF CmdResult
<1>4. text' \in [Cells -> Texts]
  <2>1. ASSUME NEW c \in Cells PROVE text'[c] \in Texts
    <3>1. CASE c \in DOMAIN blob
      BY <1>2, <3>1
    <3>2. CASE c \notin DOMAIN blob
      <4>1. <<>> \in Texts
        BY DEF Texts
      <4> QED BY <1>3, <3>2, <4>1
    <3> QED BY <3>1, <3>2
  <2> QED BY <1>1, <2>1
<1>5. range' \in [Cells -> Nat \X Nat]
  <2>1. ASSUME NEW c \in Cells PROVE range'[c] \in Nat \X Nat
    <3>1. CASE c \in DOMAIN blob
      <4> DEFINE size == Total(c)
                 kept == KeptOf(c[1])[c[2]]
      <4>1. range'[c] = <<size - kept, size>> /\ size \in Nat /\ kept \in 0..size
        BY <1>2, <3>1
      <4> HIDE DEF size, kept
      <4>2. <<size - kept, size>> \in Nat \X Nat
        BY <4>1
      <4> QED BY <4>1, <4>2
    <3>2. CASE c \notin DOMAIN blob
      <4>1. <<0, 0>> \in Nat \X Nat
        OBVIOUS
      <4> QED BY <1>3, <3>2, <4>1
    <3> QED BY <3>1, <3>2
  <2> QED BY <1>1, <2>1
<1>6. cut' \in [Tasks -> BOOLEAN]
  BY <1>1
<1>7. PayloadType'
  BY <1>1, <1>4, <1>5, <1>6 DEF PayloadType, Ran
<1>8. TextsExact'
  <2> SUFFICES ASSUME NEW c \in Cells
               PROVE  IF c \in DOMAIN blob
                      THEN /\ range'[c][2] = Total(c)
                           /\ \E n \in 0..Len(blob[c]), lost \in 0..3 :
                                Shown(blob[c], text'[c], Total(c) - range'[c][1], n, lost)
                      ELSE text'[c] = <<>>
    BY <1>1 DEF TextsExact, Total
  <2>1. CASE c \in DOMAIN blob
    <3> DEFINE kept == KeptOf(c[1])[c[2]]
    <3>1. range'[c] = <<Total(c) - kept, Total(c)>> /\ kept \in 0..Total(c) /\ Total(c) \in Nat
      BY <1>2, <2>1
    <3> HIDE DEF kept
    <3>2. Total(c) - range'[c][1] = kept /\ range'[c][2] = Total(c)
      BY <3>1
    <3> QED BY <1>2, <2>1, <3>2 DEF kept
  <2>2. CASE c \notin DOMAIN blob
    BY <1>3, <2>2
  <2> QED BY <2>1, <2>2
<1>9. CutsTold'
  <2> SUFFICES ASSUME NEW t \in Tasks, Ran(t)
               PROVE  cut'[t] <=> \E s \in Streams : text'[<<t, s>>] # blob[<<t, s>>]
    BY <1>1 DEF CutsTold, Ran
  <2>1. cut'[t] <=> \E s \in Streams : KeptOf(t)[s] < Total(<<t, s>>)
    BY <1>1
  <2>2. \A s \in Streams : text'[<<t, s>>] # blob[<<t, s>>] <=> KeptOf(t)[s] < Total(<<t, s>>)
    <3> SUFFICES ASSUME NEW s \in Streams
                 PROVE  text'[<<t, s>>] # blob[<<t, s>>] <=> KeptOf(t)[s] < Total(<<t, s>>)
      OBVIOUS
    <3>1. <<t, s>> \in Cells /\ <<t, s>> \in DOMAIN blob
      BY CellParts DEF PayloadType
    <3> QED BY <1>2, <3>1
  <2> QED BY <2>1, <2>2
<1>10. \A c \in Cells : text'[c] = CmdResult(c)'.text
  BY <1>1 DEF CmdResult, KeptOf, Total, Ran
<1>11. InTurn'
  BY <1>10, CellParts DEF InTurn, Streams
<1>12. CutIfNeeded'
  BY <1>10 DEF CutIfNeeded
<1>13. ChunksExact'
  BY <1>1 DEF ChunksExact, Total
<1> QED BY <1>1, <1>7, <1>8, <1>9, <1>11, <1>12, <1>13 DEF PayloadInv

\* A turn of fit_message has a stream to halve unless every stream is empty; it takes from stderr
\* only when every stdout is empty.
OfStream(s) == {t \in Tasks : text[<<t, s>>] # <<>>}
LongestOf(s) ==
  {<<t, s>> : t \in {t \in OfStream(s) : \A u \in OfStream(s) :
                        \/ Size(text[<<t, s>>]) > Size(text[<<u, s>>])
                        \/ Size(text[<<t, s>>]) = Size(text[<<u, s>>]) /\ t <= u}}

LEMMA LongestIs ==
  Longest = IF OfStream("stdout") # {} THEN LongestOf("stdout") ELSE LongestOf("stderr")
BY DEF Longest, LongestOf, OfStream

LEMMA LongestCell ==
  ASSUME NEW c \in Longest
  PROVE  /\ c \in Cells /\ text[c] # <<>>
         /\ c[2] = "stderr" => \A t \in Tasks : text[<<t, "stdout">>] = <<>>
<1>1. ASSUME NEW s \in Streams, c \in LongestOf(s)
      PROVE  c \in Cells /\ text[c] # <<>> /\ c[2] = s
  <2>1. PICK t \in OfStream(s) : c = <<t, s>>
    BY <1>1 DEF LongestOf
  <2>2. t \in Tasks /\ text[<<t, s>>] # <<>>
    BY <2>1 DEF OfStream
  <2>3. c \in Cells
    BY <2>1, <2>2, CellParts
  <2> QED BY <2>1, <2>2, <2>3
<1>2. "stdout" \in Streams /\ "stderr" \in Streams
  BY DEF Streams
<1>3. CASE OfStream("stdout") # {}
  <2>1. c \in LongestOf("stdout")
    BY <1>3, LongestIs
  <2> QED BY <1>1, <1>2, <2>1
<1>4. CASE OfStream("stdout") = {}
  <2>1. c \in LongestOf("stderr")
    BY <1>4, LongestIs
  <2>2. \A t \in Tasks : text[<<t, "stdout">>] = <<>>
    BY <1>4 DEF OfStream
  <2> QED BY <1>1, <1>2, <2>1, <2>2
<1> QED BY <1>3, <1>4

LEMMA LongestExists ==
  ASSUME PayloadType, Longest = {}
  PROVE  \A c \in Cells : text[c] = <<>>
<1>1. ASSUME NEW s \in Streams, OfStream(s) # {} PROVE LongestOf(s) # {}
  <2> DEFINE S == OfStream(s)
             size == [t \in S |-> Size(text[<<t, s>>])]
  <2>1. S \in SUBSET Nat /\ IsFiniteSet(S)
    <3>1. IsFiniteSet(Tasks) /\ Tasks \subseteq Nat /\ S \in SUBSET Tasks
      BY PayloadAssumption DEF OfStream
    <3> HIDE DEF S
    <3> QED BY <3>1, FS_Subset
  <2>2. size \in [S -> Nat]
    <3>1. ASSUME NEW t \in S PROVE Size(text[<<t, s>>]) \in Nat
      <4>1. <<t, s>> \in Cells
        BY CellParts DEF OfStream
      <4>2. text[<<t, s>>] \in Texts
        BY <4>1 DEF PayloadType
      <4> QED BY <4>2, EndingsGrow
    <3> HIDE DEF S
    <3> QED BY <3>1
  <2>3. PICK t \in S : \A u \in S : size[t] > size[u] \/ (size[t] = size[u] /\ t <= u)
    <3> HIDE DEF S, size
    <3> QED BY <1>1, <2>1, <2>2, GreatestOf DEF S
  <2>4. \A u \in S : \/ Size(text[<<t, s>>]) > Size(text[<<u, s>>])
                     \/ Size(text[<<t, s>>]) = Size(text[<<u, s>>]) /\ t <= u
    BY <2>3
  <2> HIDE DEF size
  <2>5. <<t, s>> \in LongestOf(s)
    BY <2>3, <2>4 DEF LongestOf
  <2> QED BY <2>5
<1>2. "stdout" \in Streams /\ "stderr" \in Streams
  BY DEF Streams
<1>3. OfStream("stdout") = {} /\ OfStream("stderr") = {}
  BY <1>1, <1>2, LongestIs
<1> SUFFICES ASSUME NEW c \in Cells PROVE text[c] = <<>>
  OBVIOUS
<1>4. c = <<c[1], c[2]>> /\ c[1] \in Tasks /\ c[2] \in {"stdout", "stderr"}
  BY CellParts DEF Streams
<1>5. c[1] \notin OfStream(c[2])
  BY <1>3, <1>4
<1> QED BY <1>4, <1>5 DEF OfStream

\* What a message weighs depends on its texts and on what the results hold besides them.
LEMMA WeighsTheSame ==
  ASSUME UNCHANGED <<blob, budget, metadata, text, range>>,
         stage' \notin {"idle", "run"} => stage \notin {"idle", "run"}
  PROVE  MessageSize' = MessageSize /\ (CutIfNeeded => CutIfNeeded')
<1>1. Lengths' = Lengths /\ \A sizes : MessageBytes(sizes)' = MessageBytes(sizes)
  BY DEF Lengths, MessageBytes
<1>2. MessageSize' = MessageSize
  BY DEF MessageSize, MessageBytes, Lengths
<1>3. \A sizes : TooLong(sizes)' <=> TooLong(sizes)
  BY <1>1 DEF TooLong
<1>4. \A c \in Cells : CmdResult(c)' = CmdResult(c)
  BY DEF CmdResult, KeptOf, Total, Ran
<1>5. [c \in Cells |-> Size(CmdResult(c)'.text)] = [c \in Cells |-> Size(CmdResult(c).text)]
  BY <1>4
<1>6. CutIfNeeded => CutIfNeeded'
  BY <1>1, <1>3, <1>4, <1>5 DEF CutIfNeeded
<1> QED BY <1>2, <1>6

\* Halving keeps the end of the stream it halves and leaves stderr alone while there is stdout.
LEMMA HalveStep ==
  ASSUME PayloadType, TextsExact, CutsTold, InTurn, ChunksExact, CutIfNeeded, Halve
  PROVE  PayloadInv'
<1>1. /\ stage \in {"fit", "refit"} /\ UNCHANGED <<blob, budget, metadata, stage, next, got>>
      /\ MessageSize > Limit
  BY DEF Halve
<1>2. PICK c \in Longest :
        /\ text' = [text EXCEPT ![c] = Decoded(text[c], Half(Size(text[c])))]
        /\ range' = [range EXCEPT ![c] = Halved(c, Half(Size(text[c])))]
        /\ cut' = [cut EXCEPT ![c[1]] = TRUE]
  BY DEF Halve
<1> DEFINE keep == Half(Size(text[c]))
           b == blob[c]
           new == Decoded(text[c], keep)
<1>3. c \in Cells /\ text[c] # <<>> /\ text[c] \in Texts
  BY LongestCell DEF PayloadType
<1>4. c \in DOMAIN blob /\ b \in Seq(1..4) /\ Total(c) = Size(b) /\ Size(b) \in Nat /\ range[c][2] = Size(b)
  <2>1. c \in DOMAIN blob /\ range[c][2] = Total(c)
    BY <1>3 DEF TextsExact
  <2> QED BY <2>1, StreamSize DEF PayloadType, Total
<1>5. PICK n \in 0..Len(b), lost \in 0..3 : Shown(b, text[c], Total(c) - range[c][1], n, lost)
  BY <1>3, <1>4 DEF TextsExact
<1>6. Total(c) - range[c][1] \in Int
  <2>1. range[c] \in Nat \X Nat
    BY <1>3 DEF PayloadType
  <2> QED BY <1>4, <2>1
<1> HIDE DEF b
<1>7. PICK m \in 0..n, left \in 0..3 : Shown(b, new, keep, m, left) /\ m < Len(b)
  <2> DEFINE kept == Total(c) - range[c][1]
  <2>1. kept \in Int /\ Shown(b, text[c], kept, n, lost)
    BY <1>5, <1>6
  <2> HIDE DEF kept
  <2> QED BY <1>3, <1>4, <2>1, HalvedShown
<1>8. Size(text[c]) \in Nat /\ keep \in Nat /\ \E odd \in {0, 1} : Size(text[c]) = 2 * keep + odd
  <2>1. Size(text[c]) \in Nat
    BY <1>3, EndingsGrow
  <2>2. \A i \in Nat : Half(i) \in Nat /\ (i = 2 * Half(i) + 0 \/ i = 2 * Half(i) + 1)
    BY DEF Half
  <2> QED BY <2>1, <2>2
<1>9. m \in 0..Len(b) /\ m # Len(b)
  <2>1. Len(b) \in Nat
    BY <1>4
  <2> QED BY <1>7, <2>1
<1> HIDE DEF keep, new
<1>10. new \in Texts /\ new # b /\ keep \in 0..Size(b)
  <2>1. keep \in Int
    BY <1>8
  <2> QED BY <1>4, <1>7, <1>9, <2>1, ShownWhole
<1>11. /\ text' = [text EXCEPT ![c] = new]
       /\ range' = [range EXCEPT ![c] = <<Size(b) - keep, Size(b)>>]
  BY <1>2, <1>4 DEF Halved, keep, new
<1>12. c = <<c[1], c[2]>> /\ c[1] \in Tasks /\ c[2] \in Streams
  BY <1>3, CellParts
<1>13. text \in [Cells -> Texts] /\ range \in [Cells -> Nat \X Nat] /\ cut \in [Tasks -> BOOLEAN]
  BY DEF PayloadType
<1>14. /\ text'[c] = new /\ \A d \in Cells : d # c => text'[d] = text[d]
       /\ range'[c] = <<Size(b) - keep, Size(b)>>
       /\ \A d \in Cells : d # c => range'[d] = range[d]
  BY <1>3, <1>11, <1>13
<1>15. text' \in [Cells -> Texts]
  BY <1>10, <1>11, <1>13
<1>16. range' \in [Cells -> Nat \X Nat]
  <2> DEFINE pair == <<Size(b) - keep, Size(b)>>
  <2>1. pair \in Nat \X Nat
    BY <1>4, <1>10
  <2> HIDE DEF pair
  <2> QED BY <1>11, <1>13, <2>1 DEF pair
<1>17. cut' \in [Tasks -> BOOLEAN]
  BY <1>2, <1>13
<1>18. PayloadType'
  BY <1>1, <1>15, <1>16, <1>17 DEF PayloadType, Ran
<1>19. TextsExact'
  <2> SUFFICES ASSUME NEW d \in Cells
               PROVE  IF d \in DOMAIN blob
                      THEN /\ range'[d][2] = Total(d)
                           /\ \E i \in 0..Len(blob[d]), x \in 0..3 :
                                Shown(blob[d], text'[d], Total(d) - range'[d][1], i, x)
                      ELSE text'[d] = <<>>
    BY <1>1 DEF TextsExact, Total
  <2>1. CASE d = c
    <3>1. range'[c][2] = Total(c) /\ Total(c) - range'[c][1] = keep
      BY <1>4, <1>8, <1>14
    <3>2. Shown(blob[c], text'[c], Total(c) - range'[c][1], m, left)
      BY <1>7, <1>14, <3>1 DEF b
    <3>3. m \in 0..Len(blob[c])
      BY <1>9 DEF b
    <3> QED BY <1>4, <2>1, <3>1, <3>2, <3>3
  <2>2. CASE d # c
    BY <1>14, <2>2 DEF TextsExact
  <2> QED BY <2>1, <2>2
<1>20. CutsTold'
  <2> SUFFICES ASSUME NEW t \in Tasks, Ran(t)
               PROVE  cut'[t] <=> \E s \in Streams : text'[<<t, s>>] # blob[<<t, s>>]
    BY <1>1 DEF CutsTold, Ran
  <2>1. CASE t = c[1]
    <3>1. cut'[t]
      BY <1>2, <1>13, <2>1
    <3>2. text'[c] # blob[c]
      BY <1>10, <1>14 DEF b
    <3>3. <<t, c[2]>> = c
      BY <1>12, <2>1
    <3> QED BY <1>12, <3>1, <3>2, <3>3
  <2>2. CASE t # c[1]
    <3>1. cut'[t] <=> cut[t]
      BY <1>2, <1>13, <2>2
    <3>2. \A s \in Streams : text'[<<t, s>>] = text[<<t, s>>]
      BY <1>12, <1>14, <2>2, CellParts
    <3>3. cut[t] <=> \E s \in Streams : text[<<t, s>>] # blob[<<t, s>>]
      BY DEF CutsTold
    <3> QED BY <3>1, <3>2, <3>3
  <2> QED BY <2>1, <2>2
<1>21. \A d \in Cells : CmdResult(d)' = CmdResult(d)
  BY <1>1 DEF CmdResult, KeptOf, Total, Ran
<1>22. InTurn'
  <2> SUFFICES ASSUME NEW u \in Tasks, text'[<<u, "stdout">>] # <<>>, NEW t \in Tasks
               PROVE  text'[<<t, "stderr">>] = CmdResult(<<t, "stderr">>).text
    BY <1>21, CellParts DEF InTurn, Streams
  <2>1. "stdout" \in Streams /\ "stderr" \in Streams /\ "stdout" # "stderr"
    BY DEF Streams
  <2>2. <<u, "stdout">> \in Cells /\ <<t, "stderr">> \in Cells
    BY <2>1, CellParts
  <2>3. text[<<u, "stdout">>] # <<>>
    <3>1. CASE <<u, "stdout">> = c
      BY <1>3, <3>1
    <3>2. CASE <<u, "stdout">> # c
      BY <1>14, <2>2, <3>2
    <3> QED BY <3>1, <3>2
  <2>4. c[2] # "stderr"
    BY <2>3, LongestCell
  <2>5. <<t, "stderr">> # c
    BY <1>12, <2>4
  <2>6. text'[<<t, "stderr">>] = text[<<t, "stderr">>]
    BY <1>14, <2>2, <2>5
  <2> QED BY <2>3, <2>6 DEF InTurn
<1>23. CutIfNeeded'
  <2> DEFINE built == [d \in Cells |-> Size(CmdResult(d).text)]
  <2>1. \A sizes : TooLong(sizes)' <=> TooLong(sizes)
    BY <1>1 DEF TooLong, MessageBytes
  <2>2. TooLong(Lengths)
    BY <1>1 DEF Limit, MessageSize, TooLong
  <2>3. TooLong(built)
    <3>1. CASE \E d \in Cells : text[d] # CmdResult(d).text
      BY <1>1, <3>1 DEF CutIfNeeded
    <3>2. CASE \A d \in Cells : text[d] = CmdResult(d).text
      <4>1. built = Lengths
        BY <3>2 DEF Lengths
      <4> HIDE DEF built
      <4> QED BY <2>2, <4>1
    <3> QED BY <3>1, <3>2
  <2>4. PICK odd \in {0, 1} : Size(text[c]) = 2 * keep + odd
    BY <1>8
  <2>5. 2 * (range'[c][2] - range'[c][1]) + odd = Size(text[c])
    <3>1. range'[c][2] - range'[c][1] = keep
      BY <1>4, <1>8, <1>14
    <3> QED BY <2>4, <3>1
  <2>6. [Lengths' EXCEPT ![c] = Size(text[c])] = Lengths
    <3> DEFINE l == [d \in Cells |-> Size(text[d])]
               r == [d \in Cells |-> Size(text'[d])]
               x == Size(text[c])
    <3>1. \A d \in Cells : d # c => r[d] = l[d]
      BY <1>14
    <3>2. l[c] = x /\ r = [d \in Cells |-> r[d]] /\ l = [d \in Cells |-> l[d]]
      BY <1>3
    <3>3. Lengths = l /\ Lengths' = r
      BY DEF Lengths
    <3> HIDE DEF l, r, x
    <3>4. [r EXCEPT ![c] = x] = l
      BY <3>1, <3>2
    <3> QED BY <3>3, <3>4 DEF x
  <2>7. TooLong([Lengths' EXCEPT ![c] = 2 * (range'[c][2] - range'[c][1]) + odd])
    BY <2>2, <2>5, <2>6
  <2>8. TooLong([d \in Cells |-> Size(CmdResult(d)'.text)])
    <3>1. [d \in Cells |-> Size(CmdResult(d)'.text)] = built
      BY <1>21
    <3> HIDE DEF built
    <3> QED BY <2>3, <3>1
  <2> HIDE DEF built
  <2> QED BY <1>3, <2>1, <2>7, <2>8 DEF CutIfNeeded
<1>24. ChunksExact'
  BY <1>1 DEF ChunksExact, Total
<1>25. stage' \in {"fit", "refit"}
  BY <1>1
<1> QED BY <1>18, <1>19, <1>20, <1>22, <1>23, <1>24, <1>25 DEF PayloadInv

\* Nothing more is taken once the message fits or there is nothing left.
LEMMA FittedStep ==
  ASSUME PayloadType, TextsExact, CutsTold, InTurn, ChunksExact, CutIfNeeded, Fitted
  PROVE  PayloadInv'
<1>1. /\ stage \in {"fit", "refit"} /\ UNCHANGED <<blob, budget, metadata, text, range, cut, next, got>>
      /\ MessageSize <= Limit \/ Longest = {}
      /\ stage' = IF stage = "fit" THEN "refit" ELSE "sent"
  BY DEF Fitted
<1>2. PayloadType' /\ TextsExact' /\ CutsTold' /\ InTurn' /\ ChunksExact'
  <2>1. PayloadType'
    BY <1>1 DEF PayloadType, Ran
  <2>2. TextsExact'
    BY <1>1 DEF TextsExact, Total
  <2>3. CutsTold' /\ ChunksExact'
    BY <1>1 DEF CutsTold, ChunksExact, Ran, Total
  <2>4. InTurn'
    BY <1>1 DEF InTurn, CmdResult, Ran, KeptOf, Total
  <2> QED BY <2>1, <2>2, <2>3, <2>4
<1>3. stage' = "sent" => FitsOrEmpty
  <2> SUFFICES ASSUME stage = "refit" PROVE FitsOrEmpty
    BY <1>1
  <2>1. Limit = MaxMessage - Envelope
    BY DEF Limit
  <2>2. Longest = {} => \A c \in Cells : text[c] = <<>>
    BY LongestExists
  <2> QED BY <1>1, <2>1, <2>2 DEF FitsOrEmpty
<1>4. FitsOrEmpty' <=> FitsOrEmpty
  <2>1. MessageSize' = MessageSize
    BY <1>1, WeighsTheSame
  <2> QED BY <1>1, <2>1 DEF FitsOrEmpty
<1>5. CutIfNeeded'
  BY <1>1, WeighsTheSame
<1> QED BY <1>1, <1>2, <1>3, <1>4, <1>5 DEF PayloadInv

\* A chunk goes on where the last one ended.
LEMMA ChunkStep ==
  ASSUME PayloadType, TextsExact, CutsTold, InTurn, ChunksExact, CutIfNeeded, FitsOrEmpty,
         NEW c \in Cells, Chunk(c)
  PROVE  PayloadInv'
<1>1. /\ c \in DOMAIN blob /\ next[c] < Total(c) /\ stage = "sent"
      /\ UNCHANGED <<blob, budget, metadata, stage, text, range, cut>>
  BY DEF Chunk
<1>2. PICK max \in 1..HardMax + 1 :
        /\ next' = [next EXCEPT ![c] = Served(c, next[c], max).end]
        /\ got' = [got EXCEPT ![c] = @ \cup Served(c, next[c], max).data]
  BY DEF Chunk
<1> DEFINE end == Least(next[c] + Least(max, HardMax), Total(c))
<1>3. Served(c, next[c], max).end = end /\ Served(c, next[c], max).data = next[c]..end - 1
  BY DEF Served
<1>4. Total(c) \in Nat /\ next[c] \in Nat /\ HardMax \in Nat \ {0}
  <2>1. blob[c] \in Seq(1..4) /\ next[c] \in Nat
    BY <1>1 DEF PayloadType
  <2> QED BY <2>1, StreamSize, PayloadAssumption DEF Total
<1>5. end \in Nat /\ next[c] < end /\ end <= Total(c)
  BY <1>1, <1>4 DEF Least
<1> HIDE DEF end
<1>6. got[c] = 0..next[c] - 1
  BY <1>1 DEF ChunksExact
<1>7. got[c] \cup (next[c]..end - 1) = 0..end - 1
  BY <1>4, <1>5, <1>6
<1>8. next \in [Cells -> Nat] /\ got \in [Cells -> SUBSET Nat]
  BY DEF PayloadType
<1>9. /\ next' = [next EXCEPT ![c] = end] /\ got' = [got EXCEPT ![c] = 0..end - 1]
  BY <1>2, <1>3, <1>7, <1>8
<1>10. next' \in [Cells -> Nat]
  BY <1>5, <1>8, <1>9
<1>11. got' \in [Cells -> SUBSET Nat]
  <2>1. 0..end - 1 \in SUBSET Nat
    BY <1>5
  <2> QED BY <1>8, <1>9, <2>1
<1>12. PayloadType'
  BY <1>1, <1>10, <1>11 DEF PayloadType, Ran
<1>13. ChunksExact'
  <2> SUFFICES ASSUME NEW d \in DOMAIN blob
               PROVE  next'[d] <= Total(d) /\ got'[d] = 0..next'[d] - 1
    BY <1>1 DEF ChunksExact, Total
  <2>1. d \in Cells
    BY DEF PayloadType
  <2>2. CASE d = c
    <3>1. next'[c] = end /\ got'[c] = 0..end - 1
      BY <1>8, <1>9
    <3> QED BY <1>5, <2>2, <3>1
  <2>3. CASE d # c
    <3>1. next'[d] = next[d] /\ got'[d] = got[d]
      BY <1>8, <1>9, <2>1, <2>3
    <3> QED BY <3>1 DEF ChunksExact
  <2> QED BY <2>2, <2>3
<1>14. TextsExact' /\ CutsTold' /\ InTurn'
  BY <1>1 DEF TextsExact, CutsTold, InTurn, CmdResult, Ran, KeptOf, Total
<1>15. FitsOrEmpty' /\ CutIfNeeded'
  BY <1>1, WeighsTheSame DEF FitsOrEmpty
<1> QED BY <1>12, <1>13, <1>14, <1>15 DEF PayloadInv

LEMMA PayloadStep == PayloadInv /\ [DocNext]_docVars => PayloadInv'
<1> SUFFICES ASSUME PayloadInv, [DocNext]_docVars PROVE PayloadInv'
  OBVIOUS
<1>1. CASE UNCHANGED payloadVars
  <2>1. UNCHANGED <<blob, budget, metadata, stage, text, range, cut, next, got>>
    BY <1>1 DEF payloadVars
  <2>2. (PayloadType => PayloadType') /\ (TextsExact => TextsExact')
    BY <2>1 DEF PayloadType, TextsExact, Ran, Total
  <2>3. (CutsTold => CutsTold') /\ (InTurn => InTurn') /\ (ChunksExact => ChunksExact')
    BY <2>1 DEF CutsTold, InTurn, ChunksExact, CmdResult, Ran, KeptOf, Total
  <2>4. (FitsOrEmpty => FitsOrEmpty') /\ (CutIfNeeded => CutIfNeeded')
    BY <2>1, WeighsTheSame DEF FitsOrEmpty
  <2> QED BY <2>1, <2>2, <2>3, <2>4 DEF PayloadInv
<1>2. CASE Build
  <2>1. stage = "run"
    BY <1>2 DEF Build
  <2> QED BY <1>2, <2>1, BuildStep DEF PayloadInv
<1>3. CASE Halve
  <2>1. stage \in {"fit", "refit"}
    BY <1>3 DEF Halve
  <2> QED BY <1>3, <2>1, HalveStep DEF PayloadInv
<1>4. CASE Fitted
  <2>1. stage \in {"fit", "refit"}
    BY <1>4 DEF Fitted
  <2> QED BY <1>4, <2>1, FittedStep DEF PayloadInv
<1>5. ASSUME NEW c \in Cells, Chunk(c) PROVE PayloadInv'
  <2>1. stage = "sent"
    BY <1>5 DEF Chunk
  <2> QED BY <1>5, <2>1, ChunkStep DEF PayloadInv
<1> QED BY <1>1, <1>2, <1>3, <1>4, <1>5 DEF DocNext, docVars, PayloadNext

\* What the model is told of its outputs is exact, and nothing was cut that could stay.
LEMMA ExactIsTruthful == PayloadInv => ResultIsTruthful
<1> SUFFICES ASSUME PayloadInv PROVE RangeIsExact /\ CutInOrder /\ CutIfNeeded
  BY DEF ResultIsTruthful
<1>1. stage # "idle" =>
        /\ PayloadType /\ (stage # "run" => TextsExact /\ CutsTold /\ InTurn)
        /\ CutIfNeeded /\ (stage = "sent" => FitsOrEmpty)
  BY DEF PayloadInv
<1>2. RangeIsExact
  <2> SUFFICES ASSUME stage \notin {"idle", "run"}, NEW c \in DOMAIN blob
               PROVE  /\ range[c][2] = Total(c)
                      /\ \E n \in 0..Len(blob[c]), lost \in 0..3 :
                           /\ text[c] = Unreadable(lost) \o Ending(blob[c], n)
                           /\ IF lost = 0 THEN range[c][1] = Total(c) - Size(Ending(blob[c], n))
                              ELSE /\ n < Len(blob[c])
                                   /\ range[c][1] < Total(c) - Size(Ending(blob[c], n))
                                   /\ range[c][1] >= Total(c) - Size(Ending(blob[c], n + 1))
                      /\ cut[c[1]] <=> \E s \in Streams : text[<<c[1], s>>] # blob[<<c[1], s>>]
    BY DEF RangeIsExact
  <2>1. PayloadType /\ TextsExact /\ CutsTold
    BY <1>1
  <2>2. c \in Cells /\ c = <<c[1], c[2]>> /\ c[1] \in Tasks /\ c[2] \in Streams
    BY <2>1, CellParts DEF PayloadType
  <2>3. Ran(c[1])
    BY <2>1, <2>2, CellParts DEF PayloadType
  <2> DEFINE b == blob[c]
             from == range[c][1]
  <2>4. b \in Texts /\ Total(c) = Size(b) /\ Size(b) \in Nat /\ from \in Nat /\ Len(b) \in Nat
    <3>1. b \in Seq(1..4) /\ range[c] \in Nat \X Nat
      BY <2>1, <2>2 DEF PayloadType
    <3> QED BY <3>1, StreamIsText, StreamSize DEF Total
  <2>5. range[c][2] = Total(c)
    BY <2>1, <2>2 DEF TextsExact
  <2>6. PICK n \in 0..Len(b), lost \in 0..3 : Shown(b, text[c], Total(c) - from, n, lost)
    BY <2>1, <2>2 DEF TextsExact
  <2>7. \A m \in 0..Len(b) : Size(Ending(b, m)) \in Nat
    BY <2>4, EndingsGrow
  <2> HIDE DEF b, from
  <2>8. /\ text[c] = Unreadable(lost) \o Ending(b, n)
        /\ IF lost = 0 THEN from = Total(c) - Size(Ending(b, n))
           ELSE /\ n < Len(b)
                /\ from < Total(c) - Size(Ending(b, n))
                /\ from >= Total(c) - Size(Ending(b, n + 1))
    <3>1. /\ text[c] = Unreadable(lost) \o Ending(b, n)
          /\ lost = 0 => Total(c) - from = Size(Ending(b, n))
          /\ lost # 0 => /\ n < Len(b) /\ Size(Ending(b, n)) < Total(c) - from
                         /\ Total(c) - from <= Size(Ending(b, n + 1))
      BY <2>6 DEF Shown
    <3>2. Size(Ending(b, n)) \in Nat /\ (n < Len(b) => Size(Ending(b, n + 1)) \in Nat)
      <4>1. n < Len(b) => n + 1 \in 0..Len(b)
        BY <2>4
      <4> QED BY <2>7, <4>1
    <3> QED BY <2>4, <3>1, <3>2
  <2>9. cut[c[1]] <=> \E s \in Streams : text[<<c[1], s>>] # blob[<<c[1], s>>]
    BY <2>1, <2>2, <2>3 DEF CutsTold
  <2> QED BY <2>5, <2>8, <2>9 DEF b, from
<1>3. CutInOrder
  <2>1. stage = "sent" => MessageSize <= MaxMessage - Envelope \/ \A c \in Cells : text[c] = <<>>
    BY <1>1 DEF FitsOrEmpty
  <2>2. ASSUME stage = "sent", NEW c \in Cells, c[2] = "stdout", text[c] # <<>>, NEW t \in Tasks
        PROVE  text[<<t, "stderr">>] = CmdResult(<<t, "stderr">>).text
    <3>1. c = <<c[1], "stdout">> /\ c[1] \in Tasks
      BY <2>2, CellParts
    <3>2. InTurn
      BY <1>1, <2>2
    <3> QED BY <2>2, <3>1, <3>2 DEF InTurn
  <2> QED BY <2>1, <2>2 DEF CutInOrder
<1>4. CutIfNeeded
  BY <1>1 DEF CutIfNeeded
<1> QED BY <1>2, <1>3, <1>4

\* The chunks and the text together hold every byte.
LEMMA ChunksLoseNothing == PayloadInv => NothingLost
<1> SUFFICES ASSUME PayloadInv, stage = "sent", NEW c \in DOMAIN blob, next[c] >= range[c][1]
             PROVE  got[c] \cup (range[c][1]..Total(c) - 1) = 0..Total(c) - 1
  BY DEF NothingLost
<1>1. PayloadType /\ ChunksExact /\ TextsExact
  BY DEF PayloadInv
<1>2. c \in Cells /\ next[c] \in Nat /\ range[c] \in Nat \X Nat /\ Total(c) \in Nat
  BY <1>1, StreamSize DEF PayloadType, Total
<1>3. range[c][1] <= Total(c)
  <2> DEFINE kept == Total(c) - range[c][1]
  <2>1. kept \in Int /\ blob[c] \in Seq(1..4) /\ Total(c) = Size(blob[c])
    BY <1>1, <1>2 DEF PayloadType, Total
  <2>2. PICK n \in 0..Len(blob[c]), lost \in 0..3 : Shown(blob[c], text[c], kept, n, lost)
    BY <1>1, <1>2 DEF TextsExact
  <2> HIDE DEF kept
  <2>3. kept \in 0..Size(blob[c])
    BY <2>1, <2>2, ShownWhole
  <2> QED BY <1>2, <2>1, <2>3 DEF kept
<1>4. next[c] <= Total(c) /\ got[c] = 0..next[c] - 1
  BY <1>1 DEF ChunksExact
<1>5. range[c][1] \in Nat
  BY <1>2
<1> QED BY <1>2, <1>3, <1>4, <1>5

\* What a result tells of its outputs (PayloadGuard.apply, ResultCollector.fit_message) is exact
\* and no cut of fit_message was idle, for any number of tasks, any budgets and caps and any outputs
\* in UTF-8, the cuts inside a character included.
THEOREM ResultsAreTruthful == DocSpec => []ResultIsTruthful
<1> QED BY PayloadStarts, PayloadStep, ExactIsTruthful, PTL DEF DocSpec

\* A model that reads back what precedes the text, chunk after chunk (serve_chunk), misses no
\* byte, for any outputs in UTF-8 and any sizes of the chunks.
THEOREM NothingIsLost == DocSpec => []NothingLost
<1> QED BY PayloadStarts, PayloadStep, ChunksLoseNothing, PTL DEF DocSpec

\* The outputs of a task that ran and its budget never change.
BudgetInv ==
  /\ \A t \in Tasks : Ran(t) => \A s \in Streams : blob[<<t, s>>] \in Seq(1..4)
  /\ budget \in [Tasks -> Nat]

LEMMA BudgetStarts == DocInit => BudgetInv
<1> SUFFICES ASSUME DocInit PROVE BudgetInv
  OBVIOUS
<1>1. CASE PayloadInit
  <2>1. PICK ran \in SUBSET Tasks : blob \in [ran \X Streams -> Outputs]
    BY <1>1 DEF PayloadInit
  <2>2. PICK plan \in Declared, own \in [Tasks -> Declared] :
          budget = [t \in Tasks |-> EffectiveBudget(own[t], plan)]
    BY <1>1 DEF PayloadInit
  <2>3. Declared \subseteq Nat /\ DefaultMax \in Nat /\ HardMax \in Nat
    BY PayloadAssumption
  <2>4. \A t \in Tasks : EffectiveBudget(own[t], plan) \in Nat
    BY <2>3 DEF EffectiveBudget, Least
  <2>5. ASSUME NEW t \in Tasks, Ran(t), NEW s \in Streams PROVE blob[<<t, s>>] \in Seq(1..4)
    <3>1. <<t, s>> \in DOMAIN blob
      BY <2>1, <2>5 DEF Ran, Streams
    <3>2. blob[<<t, s>>] \in Outputs
      BY <2>1, <3>1
    <3> QED BY <3>2, PayloadAssumption
  <2> QED BY <2>2, <2>4, <2>5 DEF BudgetInv
<1>2. CASE PayloadIdle
  <2>1. blob = <<>> /\ budget = [t \in Tasks |-> 0]
    BY <1>2 DEF PayloadIdle
  <2>2. DOMAIN blob = {}
    BY <2>1
  <2> QED BY <2>1, <2>2 DEF BudgetInv, Ran
<1> QED BY <1>1, <1>2 DEF DocInit

LEMMA BudgetStep == BudgetInv /\ [DocNext]_docVars => BudgetInv'
<1> SUFFICES ASSUME BudgetInv, [DocNext]_docVars PROVE BudgetInv'
  OBVIOUS
<1>1. UNCHANGED <<blob, budget>>
  BY DEF DocNext, docVars, payloadVars, PayloadNext, Build, Halve, Fitted, Chunk
<1> QED BY <1>1 DEF BudgetInv, Ran

\* What a budget keeps of two streams.
LEMMA KeptShared ==
  ASSUME NEW out \in Nat, NEW err \in Nat, NEW b \in Nat
  PROVE  /\ Kept(out, err, b)["stdout"] + Kept(out, err, b)["stderr"] = Least(b, out + err)
         /\ Kept(out, err, b)["stdout"] \in Least(out, b \div 2)..out
         /\ Kept(out, err, b)["stderr"] \in Least(err, b \div 2)..err
<1> DEFINE half == b \div 2
           spare == b - Least(err, half) - Least(out, half)
           stderr == Least(err, half) + Least(spare, err - Least(err, half))
           left == spare - (stderr - Least(err, half))
           stdout == Least(out, half) + Least(left, out - Least(out, half))
<1>1. half \in Nat /\ half + half <= b
  OBVIOUS
<1>2. Kept(out, err, b)["stdout"] = stdout /\ Kept(out, err, b)["stderr"] = stderr
  BY DEF Kept
<1> HIDE DEF half
<1>3. stdout \in Least(out, half)..out /\ stderr \in Least(err, half)..err
  BY <1>1 DEF Least
<1>4. stdout + stderr = Least(b, out + err)
  BY <1>1 DEF Least
<1> QED BY <1>2, <1>3, <1>4 DEF half

\* ADR-029: the budget of a task (PayloadGuard.apply) is neither exceeded nor wasted and no stream
\* takes the half of the other, for any budget and any outputs.
THEOREM BudgetsAreShared == DocSpec => []BudgetShared
<1>1. BudgetInv => BudgetShared
  <2> SUFFICES ASSUME BudgetInv, NEW t \in Tasks, Ran(t)
               PROVE  LET size == [s \in Streams |-> Total(<<t, s>>)]
                          kept == Kept(size["stdout"], size["stderr"], budget[t])
                      IN  /\ kept["stdout"] + kept["stderr"] =
                                Least(budget[t], size["stdout"] + size["stderr"])
                          /\ \A s \in Streams : kept[s] \in Least(size[s], budget[t] \div 2)..size[s]
    BY DEF BudgetShared
  <2> DEFINE size == [s \in Streams |-> Total(<<t, s>>)]
             kept == Kept(size["stdout"], size["stderr"], budget[t])
  <2>1. \A s \in Streams : Total(<<t, s>>) \in Nat
    <3> SUFFICES ASSUME NEW s \in Streams PROVE Total(<<t, s>>) \in Nat
      OBVIOUS
    <3>1. blob[<<t, s>>] \in Seq(1..4)
      BY DEF BudgetInv
    <3> QED BY <3>1, StreamSize DEF Total
  <2>2. size["stdout"] \in Nat /\ size["stderr"] \in Nat /\ budget[t] \in Nat
    BY <2>1 DEF Streams, BudgetInv
  <2> HIDE DEF size
  <2>3. /\ kept["stdout"] + kept["stderr"] = Least(budget[t], size["stdout"] + size["stderr"])
        /\ kept["stdout"] \in Least(size["stdout"], budget[t] \div 2)..size["stdout"]
        /\ kept["stderr"] \in Least(size["stderr"], budget[t] \div 2)..size["stderr"]
    BY <2>2, KeptShared
  <2> HIDE DEF kept
  <2>4. \A s \in Streams : kept[s] \in Least(size[s], budget[t] \div 2)..size[s]
    BY <2>3 DEF Streams
  <2> QED BY <2>3, <2>4 DEF kept, size
<1> QED BY <1>1, BudgetStarts, BudgetStep, PTL DEF DocSpec
=============================================================================
