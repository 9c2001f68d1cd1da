---------------------------- MODULE PolicyProofs ----------------------------
(***************************************************************************)
(* Proofs about Policy, for every number of rule sets, every set of        *)
(* devices, ports, parents and rule bodies, and every initial content of   *)
(* the rule files: IDs stay unique; if writing does not fail, Policy       *)
(* implements DurablePolicy; and if RuleFile is configured too, an         *)
(* acknowledged permanent decision holds.                                  *)
(***************************************************************************)
EXTENDS PolicyRefinement, TLAPS

-----------------------------------------------------------------------------
(* Numbers and sequences *)

\* What depends on induction: sets of numbers have a least element, and the rules
\* before a place in the rule files can be counted.  It is proved at the end.
Counting ==
  /\ \A S \in SUBSET Nat : S # {} => Least(S) \in S /\ \A m \in S : Least(S) <= m
  /\ \A f \in [Sets -> Seq(Body)] :
       /\ Cardinality(Places(f)) \in Nat
       /\ \A i \in Sets : \A k \in DOMAIN f[i] :
            /\ Cardinality(Before(f, i, k)) \in Nat
            /\ Cardinality(Before(f, i, k)) < Cardinality(Places(f))
            /\ \A j \in Sets : \A m \in DOMAIN f[j] :
                 (i < j \/ (i = j /\ k < m))
                   => Cardinality(Before(f, i, k)) < Cardinality(Before(f, j, m))

\* Least picks the smallest element of a nonempty set of naturals.
LEMMA LeastProperty ==
  ASSUME Counting, NEW S, S \subseteq Nat, S # {}
  PROVE  Least(S) \in S /\ \A m \in S : Least(S) <= m
BY Zenon DEF Counting

\* A sequence is a function on its positions.
LEMMA SeqShape ==
  ASSUME NEW S, NEW s \in Seq(S)
  PROVE  /\ Len(s) \in Nat /\ DOMAIN s = 1 .. Len(s)
         /\ s \in [1 .. Len(s) -> S] /\ \A i \in 1 .. Len(s) : s[i] \in S
BY SMT, Z3

\* Sequences with the same elements are equal.
LEMMA SeqsEqual ==
  ASSUME NEW S, NEW s \in Seq(S), NEW t \in Seq(S), Len(s) = Len(t),
         \A i \in 1 .. Len(s) : s[i] = t[i]
  PROVE  s = t
BY SMT, Z3

\* Appending an element adds it at the end.
LEMMA Appended ==
  ASSUME NEW S, NEW s \in Seq(S), NEW e \in S
  PROVE  /\ Append(s, e) \in Seq(S) /\ Len(Append(s, e)) = Len(s) + 1
         /\ Append(s, e)[Len(s) + 1] = e /\ \A i \in 1 .. Len(s) : Append(s, e)[i] = s[i]
BY SMT, Z3

\* Replacing an element keeps the length.
LEMMA Excepted ==
  ASSUME NEW S, NEW s \in Seq(S), NEW i \in 1 .. Len(s), NEW e \in S
  PROVE  [s EXCEPT ![i] = e] \in Seq(S) /\ Len([s EXCEPT ![i] = e]) = Len(s)
BY SMT, Z3

\* The elements of a concatenation.
LEMMA Concatenated ==
  ASSUME NEW S, NEW a \in Seq(S), NEW b \in Seq(S)
  PROVE  /\ a \o b \in Seq(S) /\ Len(a \o b) = Len(a) + Len(b)
         /\ \A i \in 1 .. Len(a) + Len(b) :
              (a \o b)[i] = IF i <= Len(a) THEN a[i] ELSE b[i - Len(a)]
BY SMT, Z3

\* The elements of a part of a sequence.
LEMMA Sliced ==
  ASSUME NEW S, NEW s \in Seq(S), NEW m \in 1 .. Len(s) + 1, NEW n \in 0 .. Len(s)
  PROVE  /\ SubSeq(s, m, n) \in Seq(S)
         /\ Len(SubSeq(s, m, n)) = IF m <= n THEN n - m + 1 ELSE 0
         /\ \A i \in 1 .. n - m + 1 : SubSeq(s, m, n)[i] = s[m + i - 1]
BY SMT, Z3

\* A function on an initial segment of the naturals is a sequence.
LEMMA FunctionIsSeq ==
  ASSUME NEW S, NEW n \in Nat, NEW f \in [1 .. n -> S]
  PROVE  f \in Seq(S)
BY SMT, Z3

\* Inserting into a sequence gives a sequence.
LEMMA InsertAfterSeq ==
  ASSUME NEW S, NEW s \in Seq(S), NEW k \in 0 .. Len(s), NEW r \in S
  PROVE  InsertAfter(s, k, r) \in Seq(S)
<1>1. InsertAfter(s, k, r) \in [1 .. Len(s) + 1 -> S]
  BY SeqShape, SMT, Z3 DEF InsertAfter
<1>2. Len(s) + 1 \in Nat
  BY SeqShape
<1>3. QED
  BY <1>1, <1>2, FunctionIsSeq, Zenon

\* Removing from a sequence gives a sequence.
LEMMA WithoutSeq ==
  ASSUME NEW S, NEW s \in Seq(S), NEW k \in 1 .. Len(s)
  PROVE  Without(s, k) \in Seq(S)
<1>1. Without(s, k) \in [1 .. Len(s) - 1 -> S]
  BY SeqShape, SMT, Z3 DEF Without
<1>2. Len(s) - 1 \in Nat
  BY SeqShape, SMT, Z3
<1>3. QED
  BY <1>1, <1>2, FunctionIsSeq, Zenon

\* Appending is inserting after the last element.
LEMMA AppendIsInsertAfter ==
  ASSUME NEW S, NEW s \in Seq(S), NEW r \in S
  PROVE  Append(s, r) = InsertAfter(s, Len(s), r)
<1>1. Len(s) \in Nat /\ Len(s) \in 0 .. Len(s)
  BY SeqShape, SMT, Z3
<1>2. /\ InsertAfter(s, Len(s), r) \in Seq(S)
      /\ DOMAIN InsertAfter(s, Len(s), r) = 1 .. Len(s) + 1
      /\ \A j \in 1 .. Len(s) + 1 : InsertAfter(s, Len(s), r)[j] =
           IF j <= Len(s) THEN s[j] ELSE IF j = Len(s) + 1 THEN r ELSE s[j - 1]
  <2>1. InsertAfter(s, Len(s), r) \in Seq(S)
    BY <1>1, InsertAfterSeq, Zenon
  <2> QED
    BY <2>1, Zenon DEF InsertAfter
<1>3. Len(InsertAfter(s, Len(s), r)) = Len(s) + 1
  BY <1>1, <1>2, SeqShape, SMT, Z3
<1>4. /\ Append(s, r) \in Seq(S)
      /\ Len(Append(s, r)) = Len(s) + 1
      /\ \A j \in 1 .. Len(s) : Append(s, r)[j] = s[j]
      /\ Append(s, r)[Len(s) + 1] = r
  BY Appended, SMT, Z3
<1>5. ASSUME NEW j \in 1 .. Len(s) + 1
      PROVE  Append(s, r)[j] = InsertAfter(s, Len(s), r)[j]
  <2>1. CASE j = Len(s) + 1
    BY <1>1, <1>2, <1>4, <2>1, SMT, Z3
  <2>2. CASE j # Len(s) + 1
    <3>1. j \in 1 .. Len(s) /\ j <= Len(s)
      BY <1>1, <2>2, SMT, Z3
    <3> QED
      BY <1>2, <1>4, <3>1, Zenon
  <2> QED
    BY <2>1, <2>2, Zenon
<1>6. QED
  BY <1>2, <1>3, <1>4, <1>5, SeqsEqual, Zenon

-----------------------------------------------------------------------------
(* Rule IDs *)

Books == [Sets -> Seq(Rule)]

IdsBelow(rs, n) == \A i \in Sets : \A k \in DOMAIN rs[i] : rs[i][k].id < n

IdsDistinct(rs) ==
  \A i, j \in Sets : \A k \in DOMAIN rs[i], m \in DOMAIN rs[j] :
    rs[i][k].id = rs[j][m].id => i = j /\ k = m

\* Inserting a rule with the next ID anywhere keeps the IDs distinct and below
\* the next one.
LEMMA InsertKeepsIds ==
  ASSUME NEW rs \in Books, NEW n \in 1 .. LastID - 2, IdsBelow(rs, n),
         IdsDistinct(rs), NEW i \in Sets, NEW k \in 0 .. Len(rs[i]),
         NEW body \in Body
  PROVE  LET new == [rs EXCEPT ![i] = InsertAfter(@, k, [id |-> n, body |-> body])]
         IN  new \in Books /\ IdsBelow(new, n + 1) /\ IdsDistinct(new)
<1> DEFINE r == [id |-> n, body |-> body]
           t == InsertAfter(rs[i], k, r)
           new == [rs EXCEPT ![i] = t]
<1>1. r \in Rule /\ r.id = n
  BY Zenon DEF Rule
<1>2. rs[i] \in Seq(Rule) /\ Len(rs[i]) \in Nat /\ DOMAIN rs[i] = 1 .. Len(rs[i])
  BY SeqShape, Zenon DEF Books
<1>3. /\ t \in Seq(Rule)
      /\ DOMAIN t = 1 .. Len(rs[i]) + 1
      /\ \A j \in 1 .. Len(rs[i]) + 1 :
           t[j] = IF j <= k THEN rs[i][j] ELSE IF j = k + 1 THEN r ELSE rs[i][j - 1]
  <2>1. t \in Seq(Rule)
    <3> HIDE DEF r
    <3> QED
      BY <1>1, <1>2, InsertAfterSeq, Zenon
  <2>2. t = [j \in 1 .. Len(rs[i]) + 1 |->
               IF j <= k THEN rs[i][j] ELSE IF j = k + 1 THEN r ELSE rs[i][j - 1]]
    BY Zenon DEF InsertAfter
  <2> HIDE DEF r, t
  <2> QED
    BY <2>1, <2>2, Zenon
<1> HIDE DEF r, t
<1>4. new \in Books /\ new[i] = t /\ \A j \in Sets : j # i => new[j] = rs[j]
  <2>1. t \in Seq(Rule)
    BY <1>3, Zenon
  <2> QED
    BY <2>1, Zenon DEF Books
<1>5. ASSUME NEW j \in Sets, NEW m \in DOMAIN rs[j] PROVE rs[j][m].id \in Nat
  <2>1. rs[j] \in Seq(Rule) /\ m \in 1 .. Len(rs[j])
    BY SeqShape, Zenon DEF Books
  <2>2. rs[j][m] \in Rule
    BY <2>1, SeqShape, Zenon
  <2> QED
    BY <2>2, ConstantsAssumption, SMT, Z3 DEF Rule
<1> DEFINE From(j) == IF j <= k THEN j ELSE j - 1
<1>6. \A j \in DOMAIN t : \/ j = k + 1 /\ t[j].id = n
                          \/ j # k + 1 /\ From(j) \in DOMAIN rs[i]
                             /\ t[j] = rs[i][From(j)]
  <2>1. SUFFICES ASSUME NEW j \in 1 .. Len(rs[i]) + 1
        PROVE \/ j = k + 1 /\ t[j].id = n
              \/ j # k + 1 /\ From(j) \in DOMAIN rs[i] /\ t[j] = rs[i][From(j)]
    BY <1>3, Zenon
  <2>2. CASE j = k + 1
    BY <1>1, <1>2, <1>3, <2>2, SMT, Z3
  <2>3. CASE j <= k
    BY <1>2, <1>3, <2>3, SMT, Z3
  <2>4. CASE j > k + 1
    BY <1>2, <1>3, <2>4, SMT, Z3
  <2> QED
    BY <1>2, <2>2, <2>3, <2>4, SMT, Z3
<1>7. \A j, m \in DOMAIN t : j # k + 1 /\ m # k + 1 /\ From(j) = From(m) => j = m
  BY <1>2, <1>3, SMT, Z3
<1> HIDE DEF From
<1>8. IdsBelow(new, n + 1)
  BY <1>4, <1>5, <1>6, SMT, Z3 DEF IdsBelow
<1>9. ASSUME NEW a \in Sets, NEW b \in Sets, NEW j \in DOMAIN new[a],
             NEW m \in DOMAIN new[b], new[a][j].id = new[b][m].id
      PROVE  a = b /\ j = m
  <2>1. CASE a = i /\ b = i
    BY <1>4, <1>5, <1>6, <1>7, <1>9, <2>1, SMT, Z3 DEF IdsBelow, IdsDistinct
  <2>2. CASE a = i /\ b # i
    <3>1. m \in DOMAIN rs[b] /\ t[j].id = rs[b][m].id /\ rs[b][m].id < n /\ j \in DOMAIN t
      BY <1>4, <1>9, <2>2, Zenon DEF IdsBelow
    <3>2. j # k + 1 /\ From(j) \in DOMAIN rs[i] /\ t[j] = rs[i][From(j)]
      BY <1>5, <1>6, <3>1, SMT, Z3
    <3> QED
      BY <2>2, <3>1, <3>2, SMT, Z3 DEF IdsDistinct
  <2>3. CASE a # i /\ b = i
    <3>1. j \in DOMAIN rs[a] /\ t[m].id = rs[a][j].id /\ rs[a][j].id < n /\ m \in DOMAIN t
      BY <1>4, <1>9, <2>3, Zenon DEF IdsBelow
    <3>2. m # k + 1 /\ From(m) \in DOMAIN rs[i] /\ t[m] = rs[i][From(m)]
      BY <1>5, <1>6, <3>1, SMT, Z3
    <3> QED
      BY <2>3, <3>1, <3>2, SMT, Z3 DEF IdsDistinct
  <2>4. CASE a # i /\ b # i
    BY <1>4, <1>9, <2>4, SMT, Z3 DEF IdsDistinct
  <2> QED
    BY <2>1, <2>2, <2>3, <2>4, Zenon
<1>10. IdsDistinct(new)
  BY <1>9, Zenon DEF IdsDistinct
<1> QED
  BY <1>4, <1>8, <1>10, Zenon DEF t, r

\* Removing a rule keeps the IDs distinct and below the next one.
LEMMA RemoveKeepsIds ==
  ASSUME NEW rs \in Books, NEW n \in Nat, IdsBelow(rs, n), IdsDistinct(rs),
         NEW i \in Sets, NEW k \in DOMAIN rs[i]
  PROVE  LET new == [rs EXCEPT ![i] = Without(@, k)]
         IN  new \in Books /\ IdsBelow(new, n) /\ IdsDistinct(new)
<1> DEFINE t == Without(rs[i], k)
           new == [rs EXCEPT ![i] = t]
<1>2. rs[i] \in Seq(Rule) /\ Len(rs[i]) \in Nat /\ DOMAIN rs[i] = 1 .. Len(rs[i])
  BY SeqShape, Zenon DEF Books
<1>3. /\ t \in Seq(Rule)
      /\ DOMAIN t = 1 .. Len(rs[i]) - 1
      /\ \A j \in 1 .. Len(rs[i]) - 1 : t[j] = IF j < k THEN rs[i][j] ELSE rs[i][j + 1]
  <2>1. t \in Seq(Rule)
    BY <1>2, WithoutSeq, Zenon
  <2> QED
    BY <2>1, Zenon DEF Without
<1> HIDE DEF t
<1>4. new \in Books /\ new[i] = t /\ \A j \in Sets : j # i => new[j] = rs[j]
  BY <1>3, Zenon DEF Books
<1> DEFINE From(j) == IF j < k THEN j ELSE j + 1
<1>5. \A j \in DOMAIN t : From(j) \in DOMAIN rs[i] /\ t[j] = rs[i][From(j)]
  BY <1>2, <1>3, SMT, Z3, SMTT(20), Z3T(20)
<1>6. \A j, m \in DOMAIN t : From(j) = From(m) => j = m
  BY <1>2, <1>3, SMT, Z3
<1> HIDE DEF From
<1>7. IdsBelow(new, n)
  BY <1>4, <1>5, SMT, Z3 DEF IdsBelow
<1>8. IdsDistinct(new)
  BY <1>4, <1>5, <1>6, SMT, Z3 DEF IdsDistinct
<1> QED
  BY <1>4, <1>7, <1>8, Zenon DEF t

\* Giving a rule another body keeps the IDs.
LEMMA ReplaceKeepsIds ==
  ASSUME NEW rs \in Books, NEW n \in Nat, IdsBelow(rs, n), IdsDistinct(rs),
         NEW i \in Sets, NEW k \in DOMAIN rs[i], NEW body \in Body
  PROVE  LET new == [rs EXCEPT ![i][k].body = body]
         IN  new \in Books /\ IdsBelow(new, n) /\ IdsDistinct(new)
<1> DEFINE r == [rs[i][k] EXCEPT !.body = body]
           t == [rs[i] EXCEPT ![k] = r]
           new == [rs EXCEPT ![i] = t]
<1>1. rs[i] \in Seq(Rule) /\ k \in 1 .. Len(rs[i]) /\ DOMAIN rs[i] = 1 .. Len(rs[i])
  BY SeqShape, Zenon DEF Books
<1>2. rs[i][k] \in Rule
  BY <1>1, SeqShape, Zenon
<1>3. r \in Rule /\ r.id = rs[i][k].id
  BY <1>2, Zenon DEF Rule
<1> HIDE DEF r
<1>4. t \in Seq(Rule)
  BY <1>1, <1>3, Excepted, Zenon
<1>5. DOMAIN t = DOMAIN rs[i] /\ \A m \in DOMAIN rs[i] : t[m].id = rs[i][m].id
  BY <1>1, <1>3, Zenon
<1> HIDE DEF t
<1>6. new \in Books /\ new[i] = t /\ \A j \in Sets : j # i => new[j] = rs[j]
  BY <1>4, Zenon DEF Books
<1>7. \A j \in Sets : DOMAIN new[j] = DOMAIN rs[j]
                        /\ \A m \in DOMAIN rs[j] : new[j][m].id = rs[j][m].id
  BY <1>5, <1>6, Zenon
<1>8. IdsBelow(new, n) /\ IdsDistinct(new)
  <2> HIDE DEF new
  <2> QED
    BY <1>7, SMT, Z3 DEF IdsBelow, IdsDistinct
<1>9. new = [rs EXCEPT ![i][k].body = body]
  BY Zenon DEF t, r
<1> QED
  BY <1>6, <1>8, <1>9, Zenon

\* The number of rules before a place identifies the place and is smaller than
\* the number of all rules.
LEMMA BeforeCounts ==
  ASSUME Counting, NEW f \in [Sets -> Seq(Body)], NEW i \in Sets, NEW k \in DOMAIN f[i]
  PROVE  /\ Cardinality(Before(f, i, k)) \in Nat
         /\ Cardinality(Places(f)) \in Nat
         /\ Cardinality(Before(f, i, k)) < Cardinality(Places(f))
         /\ \A j \in Sets : \A m \in DOMAIN f[j] :
              (i < j \/ (i = j /\ k < m))
                => Cardinality(Before(f, i, k)) < Cardinality(Before(f, j, m))
BY Zenon DEF Counting

\* Loading gives every rule an ID of its own, below the next one to be assigned.
LEMMA LoadGivesIds ==
  ASSUME Counting, files \in [Sets -> Seq(Body)], LoadSucceeds
  PROVE  /\ Cardinality(Places(files)) + 1 \in 1 .. LastID - 1
         /\ LoadedRules \in Books
         /\ IdsBelow(LoadedRules, Cardinality(Places(files)) + 1)
         /\ IdsDistinct(LoadedRules)
<1> DEFINE N == Cardinality(Places(files))
           Id(i, k) == Cardinality(Before(files, i, k)) + 1
<1>1. N \in Nat /\ N + 1 \in 1 .. LastID - 1
  BY ConstantsAssumption, SMT, Z3 DEF Counting, LoadSucceeds
<1>2. \A i \in Sets : \A k \in DOMAIN files[i] :
        /\ Id(i, k) \in 1 .. LastID - 2
        /\ Id(i, k) < N + 1
        /\ \A j \in Sets : \A m \in DOMAIN files[j] :
             i < j \/ (i = j /\ k < m) => Id(i, k) < Id(j, m)
  BY <1>1, BeforeCounts, ConstantsAssumption, SMT, Z3, SMTT(20), Z3T(20) DEF LoadSucceeds
<1> HIDE DEF N, Id
<1>3. LoadedRules = [i \in Sets |-> [k \in DOMAIN files[i] |->
                       [id |-> Id(i, k), body |-> files[i][k]]]]
  BY Zenon DEF LoadedRules, Id
<1>4. \A i \in Sets : /\ DOMAIN LoadedRules[i] = DOMAIN files[i]
                       /\ \A k \in DOMAIN files[i] : LoadedRules[i][k].id = Id(i, k)
  BY <1>3, Zenon
<1>5. ASSUME NEW i \in Sets PROVE LoadedRules[i] \in Seq(Rule)
  <2>1. DOMAIN files[i] = 1 .. Len(files[i]) /\ Len(files[i]) \in Nat
    BY SeqShape, Zenon
  <2>2. \A k \in DOMAIN files[i] : files[i][k] \in Body
    BY <2>1, SeqShape, Zenon
  <2>3. LoadedRules[i] = [k \in 1 .. Len(files[i]) |->
                            [id |-> Id(i, k), body |-> files[i][k]]]
    BY <1>3, <2>1, Zenon
  <2>4. LoadedRules[i] \in [1 .. Len(files[i]) -> Rule]
    BY <1>2, <2>1, <2>2, <2>3, SMT, Z3 DEF Rule
  <2> QED
    BY <2>1, <2>4, FunctionIsSeq, Zenon
<1>6. LoadedRules \in Books
  BY <1>3, <1>5, Zenon DEF Books
<1>7. IdsBelow(LoadedRules, N + 1)
  BY <1>2, <1>4, Zenon DEF IdsBelow
<1>8. IdsDistinct(LoadedRules)
  <2>1. SUFFICES ASSUME NEW i \in Sets, NEW j \in Sets, NEW k \in DOMAIN files[i],
                        NEW m \in DOMAIN files[j], Id(i, k) = Id(j, m)
                 PROVE  i = j /\ k = m
    BY <1>4, <1>6, SMT, Z3 DEF IdsDistinct
  <2>2. i \in Int /\ j \in Int /\ k \in Int /\ m \in Int
    BY SeqShape, SMT, Z3 DEF Sets
  <2>3. ~(i < j \/ (i = j /\ k < m))
    BY <1>2, <2>1, SMT, Z3
  <2>4. ~(j < i \/ (j = i /\ m < k))
    BY <1>2, <2>1, SMT, Z3
  <2> QED
    BY <2>2, <2>3, <2>4, SMT, Z3
<1> QED
  BY <1>1, <1>6, <1>7, <1>8, Zenon DEF N

-----------------------------------------------------------------------------
(* The inductive invariant for the IDs *)

IdInv == Counting /\ TypeOK /\ IdsBelow(rulesets, idNext) /\ IdsDistinct(rulesets)

\* A rule found by its ID is in one of the rule sets.
LEMMA FoundById ==
  ASSUME Counting, TypeOK, NEW id, SetsWith(id) # {}
  PROVE  LET i == Least(SetsWith(id))
         IN  i \in Sets /\ Least(PositionsOf(rulesets[i], id)) \in DOMAIN rulesets[i]
<1> DEFINE i == Least(SetsWith(id))
<1>1. SetsWith(id) \subseteq Nat
  BY SMT, Z3 DEF SetsWith, Sets
<1>2. i \in SetsWith(id)
  BY <1>1, LeastProperty, Zenon
<1> HIDE DEF i
<1>3. i \in Sets /\ PositionsOf(rulesets[i], id) # {}
  BY <1>2, Zenon DEF SetsWith
<1>4. DOMAIN rulesets[i] = 1 .. Len(rulesets[i])
  BY <1>3, SeqShape, Zenon DEF TypeOK
<1>5. PositionsOf(rulesets[i], id) \subseteq Nat
  BY <1>4, SMT, Z3 DEF PositionsOf
<1>6. Least(PositionsOf(rulesets[i], id)) \in PositionsOf(rulesets[i], id)
  BY <1>3, <1>5, LeastProperty, Zenon
<1>7. Least(PositionsOf(rulesets[i], id)) \in DOMAIN rulesets[i]
  BY <1>6, Zenon DEF PositionsOf
<1> QED
  BY <1>3, <1>7, Zenon DEF i

\* A rule that has a place is inserted at a position of a rule set.
LEMMA PlaceExists ==
  ASSUME Counting, TypeOK, NEW parent, HasPlace(parent)
  PROVE  /\ PlaceSet(parent) \in Sets
         /\ PlaceAfter(parent) \in 0 .. Len(rulesets[PlaceSet(parent)])
<1>1. CASE parent = LastID
  <2>1. NumSets \in Sets
    BY ConstantsAssumption, SMT, Z3 DEF Sets
  <2>2. Len(rulesets[NumSets]) \in Nat
    BY <2>1, SeqShape, Zenon DEF TypeOK
  <2> QED
    BY <1>1, <2>1, <2>2, SMT, Z3 DEF PlaceSet, PlaceAfter
<1>2. CASE parent # LastID
  <2>1. SetsWith(parent) # {}
    BY <1>2, Zenon DEF HasPlace
  <2>2. PlaceSet(parent) = Least(SetsWith(parent))
    BY <1>2, Zenon DEF PlaceSet
  <2>3. /\ PlaceSet(parent) \in Sets
        /\ Least(PositionsOf(rulesets[PlaceSet(parent)], parent))
             \in DOMAIN rulesets[PlaceSet(parent)]
    BY <2>1, <2>2, FoundById, Zenon
  <2>4. PlaceAfter(parent) = Least(PositionsOf(rulesets[PlaceSet(parent)], parent))
    BY <1>2, Zenon DEF PlaceAfter
  <2>5. /\ Len(rulesets[PlaceSet(parent)]) \in Nat
        /\ DOMAIN rulesets[PlaceSet(parent)] = 1 .. Len(rulesets[PlaceSet(parent)])
    BY <2>3, SeqShape, Zenon DEF TypeOK
  <2> QED
    BY <2>3, <2>4, <2>5, SMT, Z3
<1> QED
  BY <1>1, <1>2, Zenon

\* The rule made for a device is a rule body.
LEMMA DeviceBodyType ==
  ASSUME NEW a \in Attached, NEW target \in Targets
  PROVE  DeviceBody(a, target) \in Body
BY ConstantsAssumption, Zenon DEF DeviceBody, Body, Attached

\* Skipping an ID keeps the invariant.
LEMMA SkipKeepsIds ==
  ASSUME IdInv
  PROVE  IdsBelow(rulesets, idNext + 1)
<1>1. ASSUME NEW i \in Sets, NEW k \in DOMAIN rulesets[i]
      PROVE  rulesets[i][k].id \in Int
  <2>1. rulesets[i] \in Seq(Rule) /\ k \in 1 .. Len(rulesets[i])
    BY SeqShape, Zenon DEF IdInv, TypeOK
  <2>2. rulesets[i][k] \in Rule
    BY <2>1, SeqShape, Zenon
  <2> QED
    BY <2>2, SMT, Z3 DEF Rule
<1> QED
  BY <1>1, SMT, Z3 DEF IdInv, TypeOK, IdsBelow

\* AppendRule keeps the IDs distinct and below the next one.
LEMMA AppendRuleIds ==
  ASSUME IdInv, NEW body \in Bodies, NEW parent, NEW permanent \in BOOLEAN,
         AppendRule(body, parent, permanent)
  PROVE  /\ rulesets' \in Books /\ idNext' \in 1 .. LastID - 1
         /\ IdsBelow(rulesets', idNext') /\ IdsDistinct(rulesets')
<1> USE DEF IdInv
<1>1. rulesets \in Books /\ idNext \in 1 .. LastID - 1
  BY Zenon DEF TypeOK, Books
<1>2. CASE UNCHANGED rulesets /\ idNext' = idNext
  BY <1>1, <1>2, Zenon
<1>3. CASE UNCHANGED rulesets /\ idNext' = idNext + 1 /\ IdAvailable
  <2>1. IdsBelow(rulesets, idNext + 1)
    BY SkipKeepsIds, Zenon
  <2> QED
    BY <1>1, <1>3, <2>1, ConstantsAssumption, SMT, Z3 DEF IdAvailable
<1>4. CASE /\ HasPlace(parent) /\ IdAvailable
           /\ rulesets' = [rulesets EXCEPT ![PlaceSet(parent)] =
                InsertAfter(@, PlaceAfter(parent), [id |-> idNext, body |-> body])]
           /\ idNext' = idNext + 1
  <2>1. idNext \in 1 .. LastID - 2 /\ idNext' \in 1 .. LastID - 1
    BY <1>1, <1>4, ConstantsAssumption, SMT, Z3 DEF IdAvailable
  <2>2. body \in Body
    BY ConstantsAssumption, Zenon
  <2>3. PlaceSet(parent) \in Sets
        /\ PlaceAfter(parent) \in 0 .. Len(rulesets[PlaceSet(parent)])
    BY <1>4, PlaceExists, Zenon
  <2> QED
    BY <1>1, <1>4, <2>1, <2>2, <2>3, InsertKeepsIds, Zenon
<1> QED
  BY <1>2, <1>3, <1>4, Zenon DEF AppendRule, Fail

\* RemoveRule keeps the IDs distinct and below the next one.
LEMMA RemoveRuleIds ==
  ASSUME IdInv, NEW id, RemoveRule(id)
  PROVE  /\ rulesets' \in Books /\ idNext' \in 1 .. LastID - 1
         /\ IdsBelow(rulesets', idNext') /\ IdsDistinct(rulesets')
<1> USE DEF IdInv
<1>1. rulesets \in Books /\ idNext \in 1 .. LastID - 1 /\ idNext' = idNext
  BY Zenon DEF TypeOK, Books, RemoveRule
<1>2. CASE UNCHANGED rulesets
  BY <1>1, <1>2, Zenon
<1>3. CASE /\ SetsWith(id) # {}
           /\ rulesets' = [rulesets EXCEPT ![Least(SetsWith(id))] =
                             Without(@, Least(PositionsOf(@, id)))]
  <2> DEFINE i == Least(SetsWith(id))
             k == Least(PositionsOf(rulesets[i], id))
  <2>1. i \in Sets /\ k \in DOMAIN rulesets[i]
    BY <1>3, FoundById, Zenon
  <2>2. rulesets' = [rulesets EXCEPT ![i] = Without(@, k)]
    BY <1>3, Zenon
  <2> HIDE DEF i, k
  <2>3. idNext \in Nat
    BY <1>1, SMT, Z3
  <2> QED
    BY <1>1, <2>1, <2>2, <2>3, RemoveKeepsIds, Zenon
<1> QED
  BY <1>2, <1>3, Zenon DEF RemoveRule, Fail

\* The rule that an upsert finds is in one of the rule sets, and the rule sets
\* before it have none for the device.
LEMMA FoundForUpsert ==
  ASSUME Counting, TypeOK, NEW d, SetsHit(d) # {}
  PROVE  LET i == Least(SetsHit(d))
             k == Least(UpsertHits(i, d))
         IN  /\ i \in Sets /\ k \in DOMAIN rulesets[i] /\ k \in UpsertHits(i, d)
             /\ \A j \in Sets : j < i => UpsertHits(j, d) = {}
<1> DEFINE i == Least(SetsHit(d))
<1>1. SetsHit(d) \subseteq Nat
  BY SMT, Z3 DEF SetsHit, Sets
<1>2. i \in SetsHit(d) /\ \A j \in SetsHit(d) : i <= j
  BY <1>1, LeastProperty, Zenon
<1> HIDE DEF i
<1>3. i \in Sets /\ UpsertHits(i, d) # {}
  BY <1>2, Zenon DEF SetsHit
<1>4. DOMAIN rulesets[i] = 1 .. Len(rulesets[i])
  BY <1>3, SeqShape, Zenon DEF TypeOK
<1>5. UpsertHits(i, d) \subseteq Nat
  BY <1>4, SMT, Z3 DEF UpsertHits
<1>6. Least(UpsertHits(i, d)) \in UpsertHits(i, d)
  BY <1>3, <1>5, LeastProperty, Zenon
<1>7. Least(UpsertHits(i, d)) \in DOMAIN rulesets[i]
  BY <1>6, Zenon DEF UpsertHits
<1>8. ASSUME NEW j \in Sets, j < i PROVE UpsertHits(j, d) = {}
  <2>1. j \notin SetsHit(d)
    BY <1>2, <1>3, <1>8, SMT, Z3 DEF Sets
  <2> QED
    BY <2>1, Zenon DEF SetsHit
<1> QED
  BY <1>3, <1>6, <1>7, <1>8, Zenon DEF i

\* UpsertDeviceRule keeps the IDs distinct and below the next one.
LEMMA UpsertDeviceRuleIds ==
  ASSUME IdInv, NEW a \in Attached, NEW target \in Targets,
         UpsertDeviceRule(a, target)
  PROVE  /\ rulesets' \in Books /\ idNext' \in 1 .. LastID - 1
         /\ IdsBelow(rulesets', idNext') /\ IdsDistinct(rulesets')
<1> USE DEF IdInv
<1> DEFINE body == DeviceBody(a, target)
           hit == SetsHit(a.dev)
           i == Least(hit)
           k == Least(UpsertHits(i, a.dev))
<1>1. rulesets \in Books /\ idNext \in 1 .. LastID - 1 /\ body \in Body
  BY DeviceBodyType, Zenon DEF TypeOK, Books
<1>2. CASE UNCHANGED <<rulesets, idNext>>
  BY <1>1, <1>2, Zenon
<1>3. CASE hit # {} /\ UNCHANGED idNext
           /\ rulesets' = [rulesets EXCEPT ![i][k].body = body]
  <2>1. i \in Sets /\ k \in DOMAIN rulesets[i] /\ idNext \in Nat
    BY <1>1, <1>3, FoundForUpsert, SMT, Z3
  <2> HIDE DEF i, k, body
  <2> QED
    BY <1>1, <1>3, <2>1, ReplaceKeepsIds, Zenon
<1>4. CASE /\ IdAvailable /\ idNext' = idNext + 1
           /\ rulesets' = [rulesets EXCEPT ![NumSets] =
                             Append(@, [id |-> idNext, body |-> body])]
  <2>1. idNext \in 1 .. LastID - 2 /\ idNext' \in 1 .. LastID - 1
    BY <1>1, <1>4, ConstantsAssumption, SMT, Z3 DEF IdAvailable
  <2>2. NumSets \in Sets /\ rulesets[NumSets] \in Seq(Rule)
    BY <1>1, ConstantsAssumption, SMT, Z3 DEF Sets, Books
  <2>3. Len(rulesets[NumSets]) \in 0 .. Len(rulesets[NumSets])
    BY <2>2, SeqShape, SMT, Z3
  <2>4. [id |-> idNext, body |-> body] \in Rule
    BY <1>1, <2>1, Zenon DEF Rule
  <2> HIDE DEF body
  <2>5. Append(rulesets[NumSets], [id |-> idNext, body |-> body]) =
          InsertAfter(rulesets[NumSets], Len(rulesets[NumSets]),
                      [id |-> idNext, body |-> body])
    BY <2>2, <2>4, AppendIsInsertAfter, Zenon
  <2>6. rulesets' = [rulesets EXCEPT ![NumSets] =
          InsertAfter(@, Len(rulesets[NumSets]), [id |-> idNext, body |-> body])]
    BY <1>4, <2>5, Zenon
  <2> DEFINE p == Len(rulesets[NumSets])
  <2>7. p \in 0 .. Len(rulesets[NumSets])
        /\ rulesets' = [rulesets EXCEPT ![NumSets] =
             InsertAfter(@, p, [id |-> idNext, body |-> body])]
    BY <2>3, <2>6, Zenon
  <2> HIDE DEF p
  <2>8. /\ rulesets' \in Books
        /\ IdsBelow(rulesets', idNext + 1) /\ IdsDistinct(rulesets')
    BY <1>1, <2>1, <2>2, <2>7, InsertKeepsIds, Zenon
  <2> QED
    BY <1>4, <2>1, <2>8, Zenon
<1> QED
  BY <1>2, <1>3, <1>4, Zenon DEF UpsertDeviceRule, Fail

\* A step is of one of these kinds; the ones listed last leave rules and IDs.
Quiet == \/ \E target \in ImplicitTargets : SetImplicitPolicyTarget(target)
         \/ SaveOpen \/ SaveOpenFails \/ SaveLine \/ SaveClose
         \/ ConditionsChange \/ UNCHANGED vars

\* Every step keeps the IDs distinct and below the next one.
LEMMA NextKeepsIds ==
  ASSUME IdInv, [Next]_vars
  PROVE  /\ rulesets' \in Books /\ idNext' \in 1 .. LastID - 1
         /\ IdsBelow(rulesets', idNext') /\ IdsDistinct(rulesets')
<1>1. ASSUME NEW body \in Bodies, NEW parent \in 0 .. LastID,
             NEW permanent \in BOOLEAN, AppendRule(body, parent, permanent)
      PROVE  /\ rulesets' \in Books /\ idNext' \in 1 .. LastID - 1
             /\ IdsBelow(rulesets', idNext') /\ IdsDistinct(rulesets')
  BY <1>1, AppendRuleIds, Zenon
<1>2. ASSUME NEW id \in 0 .. LastID, RemoveRule(id)
      PROVE  /\ rulesets' \in Books /\ idNext' \in 1 .. LastID - 1
             /\ IdsBelow(rulesets', idNext') /\ IdsDistinct(rulesets')
  BY <1>2, RemoveRuleIds, Zenon
<1>3. ASSUME NEW d \in Decisions, UpsertDeviceRule(d[1], d[2])
      PROVE  /\ rulesets' \in Books /\ idNext' \in 1 .. LastID - 1
             /\ IdsBelow(rulesets', idNext') /\ IdsDistinct(rulesets')
  <2>1. d[1] \in Attached /\ d[2] \in Targets
    BY ConstantsAssumption, Zenon
  <2> QED
    BY <1>3, <2>1, UpsertDeviceRuleIds, Zenon
<1>4. CASE Restart
  <2>1. Counting /\ files \in [Sets -> Seq(Body)]
    BY Zenon DEF IdInv, TypeOK
  <2> QED
    BY <1>4, <2>1, LoadGivesIds, Zenon DEF Restart
<1>5. CASE AssignDeviceID
  <2>1. IdsBelow(rulesets, idNext + 1)
    BY SkipKeepsIds, Zenon
  <2> QED
    BY <1>5, <2>1, ConstantsAssumption, SMT, Z3 DEF AssignDeviceID, IdInv, TypeOK, Books, IdAvailable
<1>6. CASE Quiet
  <2>1. UNCHANGED <<rulesets, idNext>>
    BY <1>6, Zenon DEF Quiet, SetImplicitPolicyTarget, SaveOpen, SaveOpenFails, SaveLine,
                SaveClose, ConditionsChange, vars
  <2> QED
    BY <2>1, Zenon DEF IdInv, TypeOK, Books
<1> QED
  BY <1>1, <1>2, <1>3, <1>4, <1>5, <1>6, Zenon DEF Next, Quiet

\* Replies keep their type when their status changes.
LEMMA ReplyTypes ==
  /\ NoReply \in Replies
  /\ \A r \in Replies, st \in {"ok", "error", "saving"} :
       [r EXCEPT !.st = st] \in Replies
<1>1. NoReply \in Replies
  BY Zenon DEF NoReply, Replies, RootID
<1>2. ASSUME NEW r \in Replies, NEW st \in {"ok", "error", "saving"}
      PROVE  [r EXCEPT !.st = st] \in Replies
  BY Zenon DEF Replies
<1> QED
  BY <1>1, <1>2, Zenon

\* A request other than a permanent decision has a reply of its type.
LEMMA RequestReplyType ==
  ASSUME NEW op \in {"none", "append", "remove"}, NEW id \in Nat
  PROVE  [op |-> op, st |-> "ok", id |-> id] \in Replies
BY Zenon DEF Replies

\* What a step does to the other variables is of their types.
LEMMA NextKeepsTypes ==
  ASSUME IdInv, [Next]_vars
  PROVE  /\ implicit' \in Targets /\ condNow' \in BOOLEAN
         /\ files' \in [Sets -> Seq(Body)] /\ saveSet' \in 0 .. NumSets
         /\ saveOpen' \in BOOLEAN /\ reply' \in Replies
<1> DEFINE T == /\ implicit' \in Targets /\ condNow' \in BOOLEAN
                /\ files' \in [Sets -> Seq(Body)] /\ saveSet' \in 0 .. NumSets
                /\ saveOpen' \in BOOLEAN /\ reply' \in Replies
<1> USE DEF IdInv, TypeOK
<1> USE ConstantsAssumption
<1>0. idNext \in Nat /\ 0 \in 0 .. NumSets /\ 1 \in 0 .. NumSets
  BY SMT, Z3
<1>1. ASSUME NEW body \in Bodies, NEW parent \in 0 .. LastID,
             NEW permanent \in BOOLEAN, AppendRule(body, parent, permanent)
      PROVE  T
  BY <1>0, <1>1, Zenon DEF AppendRule, BeginSave, Fail, Env, Replies
<1>2. ASSUME NEW id \in 0 .. LastID, RemoveRule(id)
      PROVE  T
  <2> DEFINE r == [op |-> "remove", st |-> "ok", id |-> id]
  <2>0. id \in Nat
    BY SMT, Z3
  <2>1. r \in Replies
    BY <2>0, RequestReplyType, Zenon
  <2> HIDE DEF r
  <2>2. BeginSave(r, RuleFile \/ RuleFolder) \/ Fail(r)
    BY <1>2, Zenon DEF RemoveRule, r
  <2>3. /\ reply' \in Replies
        /\ saveSet' \in 0 .. NumSets /\ saveOpen' \in BOOLEAN
    BY <1>0, <2>1, <2>2, ReplyTypes, Zenon DEF BeginSave, Fail
  <2> QED
    BY <1>2, <2>3, Zenon DEF RemoveRule, Env
<1>3. ASSUME NEW d \in Decisions, UpsertDeviceRule(d[1], d[2])
      PROVE  T
  <2>1. d[1] \in Attached /\ d[2] \in Targets /\ DefaultID \in Nat
    BY SMT, Z3 DEF DefaultID
  <2> DEFINE i == Least(SetsHit(d[1].dev))
             k == Least(UpsertHits(i, d[1].dev))
  <2>2. CASE reply'.st # "error" /\ SetsHit(d[1].dev) # {}
    <3>1. i \in Sets /\ k \in 1 .. Len(rulesets[i])
      BY <2>2, FoundForUpsert, SeqShape, SMT, Z3
    <3>2. rulesets[i][k] \in Rule
      BY <3>1, SeqShape, ZenonT(30)
    <3>3. rulesets[i][k].id \in Nat
      BY <3>2, SMT, Z3 DEF Rule
    <3> QED
      BY <1>0, <1>3, <2>1, <2>2, <3>3, ZenonT(30) DEF UpsertDeviceRule, BeginSave, Fail, Env, Replies
  <2>3. CASE ~(reply'.st # "error" /\ SetsHit(d[1].dev) # {})
    BY <1>0, <1>3, <2>1, <2>3, ZenonT(30) DEF UpsertDeviceRule, BeginSave, Fail, Env, Replies
  <2> QED
    BY <2>2, <2>3, Zenon
<1>4. ASSUME NEW target \in ImplicitTargets, SetImplicitPolicyTarget(target)
      PROVE  T
  BY <1>4, Zenon DEF SetImplicitPolicyTarget, NoReply, Replies, RootID
<1>5. CASE SaveOpen
  <2>1. <<>> \in Seq(Body)
    BY SMT, Z3
  <2> QED
    BY <1>5, <2>1, Zenon DEF SaveOpen
<1>6. CASE SaveOpenFails
  BY <1>0, <1>6, Zenon DEF SaveOpenFails, Replies
<1>7. CASE SaveLine
  <2> DEFINE e == rulesets[saveSet][Written + 1].body
             t == Append(files[saveSet], e)
  <2>1. saveSet \in Sets /\ Written \in Nat /\ Written + 1 \in 1 .. Len(rulesets[saveSet])
    BY <1>7, SeqShape, SMT, Z3, SMTT(20), Z3T(20) DEF SaveLine, Sets, Written
  <2>2. rulesets[saveSet][Written + 1] \in Rule
    BY <2>1, SeqShape, Zenon
  <2>3. e \in Body
    BY <2>2, Zenon DEF Rule
  <2> HIDE DEF e
  <2>4. t \in Seq(Body)
    BY <2>1, <2>3, Appended, Zenon
  <2>5. files' = [files EXCEPT ![saveSet] = t]
    BY <1>7, Zenon DEF SaveLine, e
  <2> HIDE DEF t
  <2> QED
    BY <1>7, <2>1, <2>4, <2>5, ZenonT(30) DEF SaveLine
<1>8. CASE SaveClose
  <2>1. reply' \in Replies
    BY <1>8, ReplyTypes, Zenon DEF SaveClose
  <2>2. saveSet' \in 0 .. NumSets
    BY <1>0, <1>8, SMT, Z3 DEF SaveClose
  <2> QED
    BY <1>8, <2>1, <2>2, Zenon DEF SaveClose
<1>9. CASE Restart
  BY <1>0, <1>9, Zenon DEF Restart, NoReply, Replies, RootID, Targets
<1>10. CASE AssignDeviceID \/ ConditionsChange \/ UNCHANGED vars
  BY <1>10, Zenon DEF AssignDeviceID, ConditionsChange, vars
<1> QED
  BY <1>1, <1>2, <1>3, <1>4, <1>5, <1>6, <1>7, <1>8, <1>9, <1>10, Zenon DEF Next

\* The policy starts with distinct IDs.
LEMMA InitIds ==
  ASSUME Counting, Init
  PROVE  IdInv
<1>1. Init
  BY Zenon
<1>2. files \in [Sets -> Seq(Body)]
  BY <1>1, ConstantsAssumption, Zenon DEF Init
<1>3. /\ rulesets \in Books /\ idNext \in 1 .. LastID - 1
      /\ IdsBelow(rulesets, idNext) /\ IdsDistinct(rulesets)
  BY <1>1, <1>2, LoadGivesIds, Zenon DEF Init
<1>4. TypeOK
  <2>1. reply \in Replies
    BY <1>1, ReplyTypes, Zenon DEF Init
  <2>2. implicit \in Targets /\ saveSet \in 0 .. NumSets
    BY <1>1, ConstantsAssumption, SMT, Z3 DEF Init, Targets
  <2> QED
    BY <1>1, <1>2, <1>3, <2>1, <2>2, Zenon DEF Init, TypeOK, Books
<1> QED
  BY <1>3, <1>4, Zenon DEF IdInv

-----------------------------------------------------------------------------
(* The save *)

\* The file of a rule set holds its rules.
Stored(i) ==
  /\ DOMAIN files[i] = DOMAIN rulesets[i]
  /\ \A k \in DOMAIN rulesets[i] : files[i][k] = rulesets[i][k].body

\* What a save has written so far.
SaveInv ==
  /\ saveSet # 0 <=> reply.st = "saving"
  /\ \A j \in Sets : j < saveSet => Stored(j)
  /\ saveSet # 0 /\ saveOpen =>
       /\ Written <= Len(rulesets[saveSet])
       /\ \A k \in 1 .. Written : files[saveSet][k] = rulesets[saveSet][k].body

\* Nothing is known of the files when no save has begun to write.
LEMMA NothingWritten ==
  ASSUME saveSet' \in {0, 1}, saveOpen' = FALSE \/ saveSet' = 0,
         saveSet' # 0 <=> reply'.st = "saving"
  PROVE  SaveInv'
<1>1. \A j \in Sets : ~(j < saveSet')
  BY SMT, Z3 DEF Sets
<1> QED
  BY <1>1, Zenon DEF SaveInv

\* A request that changed the policy is answered at once or after a save.
LEMMA SaveOrAnswer ==
  ASSUME NEW r, "st" \in DOMAIN r, NEW wanted, BeginSave(r, wanted)
  PROVE  /\ saveSet' \in {0, 1} /\ saveOpen' = FALSE
         /\ reply'.st \in {"ok", "saving"}
         /\ saveSet' # 0 <=> reply'.st = "saving"
<1>1. CASE wanted
  BY <1>1, SMT, Z3 DEF BeginSave
<1>2. CASE ~wanted
  BY <1>2, Zenon DEF BeginSave
<1> QED
  BY <1>1, <1>2, Zenon

\* Opening the next rule file, or writing the next line, keeps the written part
\* equal to the rules.
LEMMA WriteKeepsSave ==
  ASSUME IdInv, SaveInv, SaveOpen \/ SaveLine
  PROVE  SaveInv'
<1> DEFINE n == saveSet
           s == rulesets[n]
           f == files[n]
<1>1. /\ n # 0 /\ n \in Sets /\ reply.st = "saving"
      /\ UNCHANGED <<rulesets, saveSet, reply>> /\ saveOpen' = TRUE
  BY SMT, Z3 DEF SaveOpen, SaveLine, SaveInv, IdInv, TypeOK, Sets
<1>2. s \in Seq(Rule) /\ f \in Seq(Body)
  BY <1>1, Zenon DEF IdInv, TypeOK
<1>3. \A j \in Sets : j # n => files'[j] = files[j]
  BY <1>1, Zenon DEF SaveOpen, SaveLine, IdInv, TypeOK
<1>4. \A j \in Sets : j < n => Stored(j)'
  BY <1>1, <1>3, SMT, Z3 DEF SaveInv, Stored, Sets
<1>5. Written' <= Len(s) /\ \A k \in 1 .. Written' : files'[n][k] = s[k].body
  <2>1. CASE SaveOpen
    <3>1. files'[n] = <<>>
      BY <1>1, <2>1, Zenon DEF SaveOpen, IdInv, TypeOK
    <3>2. Written' = 0
      BY <1>1, <3>1, Zenon DEF Written
    <3>3. Len(s) \in Nat
      BY <1>2, SeqShape, Zenon
    <3> QED
      BY <3>2, <3>3, SMT, Z3
  <2>2. CASE SaveLine
    <3> DEFINE b == s[Len(f) + 1].body
    <3>1. files'[n] = Append(f, b) /\ Len(f) < Len(s)
      BY <1>1, <2>2, Zenon DEF SaveLine, Written, IdInv, TypeOK
    <3>2. Len(s) \in Nat /\ Len(f) \in Nat
      BY <1>2, SeqShape, Zenon
    <3>3. b \in Body
      <4>1. s[Len(f) + 1] \in Rule
        BY <1>2, <3>1, <3>2, SeqShape, SMT, Z3, SMTT(20), Z3T(20)
      <4> QED
        BY <4>1, Zenon DEF Rule
    <3>4. \A k \in 1 .. Len(f) : f[k] = s[k].body
      BY <1>1, <2>2, Zenon DEF SaveLine, SaveInv, Written
    <3> HIDE DEF b, f, s
    <3>5. /\ Len(Append(f, b)) = Len(f) + 1 /\ Append(f, b)[Len(f) + 1] = b
          /\ \A k \in 1 .. Len(f) : Append(f, b)[k] = f[k]
      BY <1>2, <3>3, Appended, SMT, Z3
    <3>6. Written' = Len(f) + 1
      BY <1>1, <3>1, <3>5, Zenon DEF Written
    <3>7. ASSUME NEW k \in 1 .. Written' PROVE files'[n][k] = s[k].body
      <4>1. CASE k \in 1 .. Len(f)
        BY <3>1, <3>4, <3>5, <4>1, Zenon
      <4>2. CASE k = Len(f) + 1
        BY <3>1, <3>5, <4>2, Zenon DEF b
      <4> QED
        BY <3>2, <3>6, <4>1, <4>2, SMT, Z3, SMTT(20), Z3T(20)
    <3> QED
      BY <3>1, <3>2, <3>6, <3>7, SMT, Z3
  <2> QED
    BY <2>1, <2>2, Zenon
<1> QED
  BY <1>1, <1>4, <1>5, Zenon DEF SaveInv

\* Without write errors, a file is closed when it holds all the rules, and the
\* answer is given when every file has been closed.
LEMMA CloseKeepsSave ==
  ASSUME WriteErrors = FALSE, IdInv, SaveInv, SaveClose
  PROVE  SaveInv' /\ (saveSet' = 0 => \A i \in Sets : Stored(i)')
<1> DEFINE n == saveSet
<1>1. /\ n # 0 /\ n \in Sets /\ reply.st = "saving" /\ saveOpen
      /\ UNCHANGED <<rulesets, files>> /\ saveOpen' = FALSE
      /\ Len(files[n]) = Len(rulesets[n])
  BY SMT, Z3 DEF SaveClose, SaveInv, IdInv, TypeOK, Sets, Written
<1>2. Stored(n)
  <2>1. rulesets[n] \in Seq(Rule) /\ files[n] \in Seq(Body)
    BY <1>1, Zenon DEF IdInv, TypeOK
  <2>2. /\ DOMAIN rulesets[n] = 1 .. Len(rulesets[n])
        /\ DOMAIN files[n] = 1 .. Len(files[n])
    BY <2>1, SeqShape, Zenon
  <2> QED
    BY <1>1, <2>2, Zenon DEF SaveInv, Stored, Written
<1>3. \A j \in Sets : j <= n => Stored(j)'
  BY <1>1, <1>2, SMT, Z3 DEF SaveInv, Stored, Sets
<1>4. CASE n = NumSets
  <2>1. \A j \in Sets : Stored(j)'
    BY <1>3, <1>4, ConstantsAssumption, SMT, Z3 DEF Sets
  <2>2. saveSet' = 0 /\ reply'.st = "ok"
    BY <1>4, Zenon DEF SaveClose, IdInv, TypeOK, Replies
  <2> QED
    BY <1>1, <2>1, <2>2, Zenon DEF SaveInv
<1>5. CASE n # NumSets
  <2>1. saveSet' = n + 1 /\ reply' = reply
    BY <1>5, Zenon DEF SaveClose
  <2>2. \A j \in Sets : j < saveSet' => Stored(j)'
    BY <1>1, <1>3, <2>1, SMT, Z3 DEF Sets
  <2> QED
    BY <1>1, <2>1, <2>2, SMT, Z3 DEF SaveInv, Sets
<1> QED
  BY <1>4, <1>5, Zenon

\* Every step keeps the invariant of the save.
LEMMA NextKeepsSave ==
  ASSUME WriteErrors = FALSE, IdInv, SaveInv, [Next]_vars
  PROVE  SaveInv'
<1>1. ASSUME NEW r, "st" \in DOMAIN r, saveSet = 0, Fail(r)
      PROVE  SaveInv'
  BY <1>1, NothingWritten, Zenon DEF Fail
<1>2. ASSUME NEW r, "st" \in DOMAIN r, NEW wanted, BeginSave(r, wanted)
      PROVE  SaveInv'
  BY <1>2, SaveOrAnswer, NothingWritten, Zenon
<1>3. ASSUME NEW body \in Bodies, NEW parent \in 0 .. LastID,
             NEW permanent \in BOOLEAN, AppendRule(body, parent, permanent)
      PROVE  SaveInv'
  BY <1>1, <1>2, <1>3, Zenon DEF AppendRule, Idle
<1>4. ASSUME NEW id \in 0 .. LastID, RemoveRule(id)
      PROVE  SaveInv'
  BY <1>1, <1>2, <1>4, Zenon DEF RemoveRule, Idle
<1>5. ASSUME NEW d \in Decisions, UpsertDeviceRule(d[1], d[2])
      PROVE  SaveInv'
  BY <1>1, <1>2, <1>5, Zenon DEF UpsertDeviceRule, Idle
<1>6. ASSUME NEW target \in ImplicitTargets, SetImplicitPolicyTarget(target)
      PROVE  SaveInv'
  BY <1>6, NothingWritten, Zenon DEF SetImplicitPolicyTarget, Idle, NoReply
<1>7. CASE SaveOpen \/ SaveLine
  BY <1>7, WriteKeepsSave, Zenon
<1>8. CASE SaveOpenFails
  BY <1>8, NothingWritten, Zenon DEF SaveOpenFails, IdInv, TypeOK, Replies
<1>9. CASE SaveClose
  BY <1>9, CloseKeepsSave, Zenon
<1>10. CASE Restart
  <2>1. saveSet' = 0 /\ reply'.st # "saving"
    BY <1>10, Zenon DEF Restart, Idle, NoReply, SaveInv
  <2> QED
    BY <2>1, NothingWritten, Zenon
<1>11. CASE AssignDeviceID \/ ConditionsChange \/ UNCHANGED vars
  BY <1>11, SMT, Z3 DEF AssignDeviceID, ConditionsChange, vars, SaveInv, Stored, Written
<1> QED
  BY <1>3, <1>4, <1>5, <1>6, <1>7, <1>8, <1>9, <1>10, <1>11, Zenon DEF Next

-----------------------------------------------------------------------------
(* Bodies of rules *)

\* Leaving out an element, by its two definitions.
LEMMA DroppedIsWithout ==
  ASSUME NEW S, NEW s \in Seq(S), NEW n \in 1 .. Len(s)
  PROVE  Durable!Dropped(s, n) = Without(s, n)
<1> DEFINE a == SubSeq(s, 1, n - 1)
           b == SubSeq(s, n + 1, Len(s))
<1>1. Len(s) \in Nat /\ n \in Nat
  BY SeqShape, SMT, Z3
<1>2. /\ a \in Seq(S) /\ Len(a) = n - 1
      /\ \A i \in 1 .. n - 1 : a[i] = s[i]
  BY <1>1, Sliced, SMT, Z3
<1>3. /\ b \in Seq(S) /\ Len(b) = Len(s) - n
      /\ \A i \in 1 .. Len(s) - n : b[i] = s[n + i]
  <2>1. /\ b \in Seq(S)
        /\ Len(b) = IF n + 1 <= Len(s) THEN Len(s) - (n + 1) + 1 ELSE 0
        /\ \A i \in 1 .. Len(s) - (n + 1) + 1 : b[i] = s[(n + 1) + i - 1]
    BY <1>1, Sliced, SMT, Z3, SMTT(20), Z3T(20)
  <2> QED
    BY <1>1, <2>1, SMT, Z3
<1> HIDE DEF a, b
<1>4. /\ a \o b \in Seq(S) /\ Len(a \o b) = Len(s) - 1
      /\ \A i \in 1 .. Len(s) - 1 :
           (a \o b)[i] = IF i <= n - 1 THEN a[i] ELSE b[i - (n - 1)]
  <2>1. /\ a \o b \in Seq(S) /\ Len(a \o b) = Len(a) + Len(b)
        /\ \A i \in 1 .. Len(a) + Len(b) :
             (a \o b)[i] = IF i <= Len(a) THEN a[i] ELSE b[i - Len(a)]
    BY <1>2, <1>3, Concatenated, Zenon
  <2>2. Len(a) + Len(b) = Len(s) - 1
    BY <1>1, <1>2, <1>3, SMT, Z3
  <2> QED
    BY <1>2, <2>1, <2>2, Zenon
<1>5. Without(s, n) \in Seq(S) /\ Len(Without(s, n)) = Len(s) - 1
  <2>1. Without(s, n) \in Seq(S)
    BY WithoutSeq, Zenon
  <2>2. DOMAIN Without(s, n) = 1 .. Len(s) - 1
    BY Zenon DEF Without
  <2> QED
    BY <1>1, <2>1, <2>2, SeqShape, SMT, Z3
<1>6. ASSUME NEW i \in 1 .. Len(s) - 1
      PROVE  (a \o b)[i] = Without(s, n)[i]
  <2>1. Without(s, n)[i] = IF i < n THEN s[i] ELSE s[i + 1]
    BY Zenon DEF Without
  <2>2. CASE i < n
    <3>1. i <= n - 1 /\ i \in 1 .. n - 1
      BY <1>1, <2>2, SMT, Z3
    <3> QED
      BY <1>2, <1>4, <2>1, <2>2, <3>1, Zenon
  <2>3. CASE ~(i < n)
    <3>1. i - (n - 1) \in 1 .. Len(s) - n
      BY <1>1, <2>3, SMT, Z3
    <3>2. (a \o b)[i] = b[i - (n - 1)]
      <4>1. ~(i <= n - 1)
        BY <1>1, <2>3, SMT, Z3
      <4> QED
        BY <1>4, <4>1, Zenon
    <3>3. b[i - (n - 1)] = s[n + (i - (n - 1))] /\ n + (i - (n - 1)) = i + 1
      BY <1>1, <1>3, <3>1, SMT, Z3
    <3> QED
      BY <2>1, <2>3, <3>2, <3>3, Zenon
  <2> QED
    BY <2>2, <2>3, Zenon
<1>7. a \o b = Without(s, n)
  BY <1>4, <1>5, <1>6, SeqsEqual, Zenon
<1> QED
  BY <1>7, Zenon DEF a, b, Durable!Dropped

\* A sequence that agrees with another as far as it goes is a prefix of it.
LEMMA AgreesIsPrefix ==
  ASSUME NEW S, NEW s \in Seq(S), NEW f \in Seq(S), Len(f) <= Len(s),
         \A k \in 1 .. Len(f) : f[k] = s[k]
  PROVE  f = Durable!Prefix(s, Len(f))
<1> DEFINE p == SubSeq(s, 1, Len(f))
<1>1. Len(s) \in Nat /\ Len(f) \in Nat
  BY SeqShape, Zenon
<1>2. /\ p \in Seq(S) /\ Len(p) = Len(f)
      /\ \A i \in 1 .. Len(f) : p[i] = s[i]
  <2>1. /\ p \in Seq(S) /\ Len(p) = IF 1 <= Len(f) THEN Len(f) - 1 + 1 ELSE 0
        /\ \A i \in 1 .. Len(f) - 1 + 1 : p[i] = s[1 + i - 1]
    BY <1>1, Sliced, SMT, Z3
  <2> QED
    BY <1>1, <2>1, SMT, Z3, SMTT(20), Z3T(20)
<1> HIDE DEF p
<1>3. f = p
  BY <1>1, <1>2, SeqsEqual, Zenon
<1> QED
  BY <1>3, Zenon DEF p, Durable!Prefix

\* The bodies of rules are as many as the rules.
LEMMA BodiesType ==
  ASSUME NEW s \in Seq(Rule)
  PROVE  /\ BodiesOf(s) \in Seq(Body) /\ Len(BodiesOf(s)) = Len(s) /\ Len(s) \in Nat
         /\ DOMAIN BodiesOf(s) = 1 .. Len(s) /\ DOMAIN s = 1 .. Len(s)
         /\ \A k \in 1 .. Len(s) : BodiesOf(s)[k] = s[k].body
<1>1. Len(s) \in Nat /\ DOMAIN s = 1 .. Len(s)
  BY SeqShape, Zenon
<1>2. \A k \in 1 .. Len(s) : s[k] \in Rule
  BY SeqShape, Zenon
<1>3. BodiesOf(s) \in [1 .. Len(s) -> Body]
  BY <1>1, <1>2, Zenon DEF BodiesOf, Rule
<1>4. BodiesOf(s) \in Seq(Body)
  BY <1>1, <1>3, FunctionIsSeq, Zenon
<1>5. DOMAIN BodiesOf(s) = 1 .. Len(s)
  BY <1>3, Zenon
<1>6. Len(BodiesOf(s)) = Len(s)
  BY <1>1, <1>4, <1>5, SeqShape, SMT, Z3, SMTT(20), Z3T(20)
<1> QED
  BY <1>1, <1>4, <1>5, <1>6, Zenon DEF BodiesOf

\* Inserting a rule inserts its body.
LEMMA InsertedBody ==
  ASSUME NEW s \in Seq(Rule), NEW k \in 0 .. Len(s), NEW r \in Rule
  PROVE  Durable!Inserted(BodiesOf(s), BodiesOf(InsertAfter(s, k, r)))
<1> DEFINE i == InsertAfter(s, k, r)
           t == BodiesOf(i)
<1>1. /\ i \in Seq(Rule) /\ Len(s) \in Nat /\ k \in Nat
      /\ DOMAIN i = 1 .. Len(s) + 1
      /\ \A j \in 1 .. Len(s) + 1 :
           i[j] = IF j <= k THEN s[j] ELSE IF j = k + 1 THEN r ELSE s[j - 1]
  <2>1. i \in Seq(Rule) /\ Len(s) \in Nat
    BY InsertAfterSeq, SeqShape, Zenon
  <2> QED
    BY <2>1, SMT, Z3 DEF InsertAfter
<1> HIDE DEF i
<1>2. Len(i) = Len(s) + 1
  BY <1>1, SeqShape, SMT, Z3
<1>3. /\ t \in Seq(Body) /\ Len(t) = Len(s) + 1
      /\ \A j \in 1 .. Len(s) + 1 : t[j] = i[j].body
  BY <1>1, <1>2, BodiesType, Zenon
<1> HIDE DEF t
<1>4. k + 1 \in 1 .. Len(t) /\ t[k + 1] \in Body
  BY <1>1, <1>3, SMT, Z3, SMTT(20), Z3T(20) DEF Rule
<1> DEFINE w == Without(t, k + 1)
<1>5. /\ w \in Seq(Body) /\ DOMAIN w = 1 .. Len(s)
      /\ \A j \in 1 .. Len(s) : w[j] = IF j < k + 1 THEN t[j] ELSE t[j + 1]
  <2>1. w \in Seq(Body)
    BY <1>3, <1>4, WithoutSeq, Zenon
  <2> QED
    BY <1>1, <1>3, <2>1, SMT, Z3 DEF Without
<1>6. Len(w) = Len(s)
  BY <1>1, <1>5, SeqShape, SMT, Z3, SMTT(20), Z3T(20)
<1> HIDE DEF w
<1>7. ASSUME NEW j \in 1 .. Len(s) PROVE w[j] = BodiesOf(s)[j]
  <2>1. BodiesOf(s)[j] = s[j].body
    BY BodiesType, Zenon
  <2>2. CASE j < k + 1
    <3>1. w[j] = t[j] /\ t[j] = i[j].body /\ i[j] = s[j]
      BY <1>1, <1>3, <1>5, <2>2, SMT, Z3, SMTT(20), Z3T(20)
    <3> QED
      BY <2>1, <3>1, Zenon
  <2>3. CASE j >= k + 1
    <3>1. j + 1 \in 1 .. Len(s) + 1 /\ ~(j + 1 <= k) /\ j + 1 # k + 1 /\ (j + 1) - 1 = j
      BY <1>1, <2>3, SMT, Z3, SMTT(20), Z3T(20)
    <3>2. w[j] = t[j + 1] /\ t[j + 1] = i[j + 1].body /\ i[j + 1] = s[j]
      BY <1>1, <1>3, <1>5, <2>3, <3>1, SMT, Z3, SMTT(20), Z3T(20)
    <3> QED
      BY <2>1, <3>2, Zenon
  <2> QED
    BY <1>1, <2>2, <2>3, SMT, Z3, SMTT(20), Z3T(20)
<1>8. w = BodiesOf(s)
  <2>1. BodiesOf(s) \in Seq(Body) /\ Len(BodiesOf(s)) = Len(s)
    BY BodiesType, Zenon
  <2> QED
    BY <1>5, <1>6, <1>7, <2>1, SeqsEqual, Zenon
<1>9. BodiesOf(s) = Durable!Dropped(t, k + 1)
  BY <1>3, <1>4, <1>8, DroppedIsWithout, Zenon DEF w
<1> QED
  BY <1>4, <1>9, Zenon DEF Durable!Inserted, t, i

\* Removing a rule removes its body.
LEMMA RemovedBody ==
  ASSUME NEW s \in Seq(Rule), NEW k \in 1 .. Len(s)
  PROVE  Durable!Removed(BodiesOf(s), BodiesOf(Without(s, k)))
<1> DEFINE w == Without(s, k)
           b == BodiesOf(s)
<1>1. /\ w \in Seq(Rule) /\ Len(s) \in Nat /\ DOMAIN w = 1 .. Len(s) - 1
      /\ \A j \in 1 .. Len(s) - 1 : w[j] = IF j < k THEN s[j] ELSE s[j + 1]
  <2>1. w \in Seq(Rule) /\ Len(s) \in Nat
    BY WithoutSeq, SeqShape, Zenon
  <2> QED
    BY <2>1, Zenon DEF Without
<1> HIDE DEF w
<1>2. Len(s) - 1 \in Nat /\ Len(w) = Len(s) - 1
  BY <1>1, SeqShape, SMT, Z3
<1>3. /\ b \in Seq(Body) /\ Len(b) = Len(s)
      /\ \A j \in 1 .. Len(s) : b[j] = s[j].body
  BY BodiesType, Zenon
<1>4. /\ BodiesOf(w) \in Seq(Body) /\ Len(BodiesOf(w)) = Len(s) - 1
      /\ \A j \in 1 .. Len(s) - 1 : BodiesOf(w)[j] = w[j].body
  BY <1>1, <1>2, BodiesType, Zenon
<1> HIDE DEF b
<1>5. /\ Without(b, k) \in Seq(Body) /\ DOMAIN Without(b, k) = 1 .. Len(s) - 1
      /\ \A j \in 1 .. Len(s) - 1 : Without(b, k)[j] = IF j < k THEN b[j] ELSE b[j + 1]
  <2>1. Without(b, k) \in Seq(Body)
    BY <1>3, WithoutSeq, Zenon
  <2> QED
    BY <1>3, <2>1, Zenon DEF Without
<1>6. Len(Without(b, k)) = Len(s) - 1
  BY <1>2, <1>5, SeqShape, SMT, Z3, SMTT(20), Z3T(20)
<1>7. ASSUME NEW j \in 1 .. Len(s) - 1 PROVE BodiesOf(w)[j] = Without(b, k)[j]
  <2>1. j \in 1 .. Len(s) /\ j + 1 \in 1 .. Len(s)
    BY <1>1, SMT, Z3
  <2> QED
    BY <1>1, <1>3, <1>4, <1>5, <2>1, ZenonT(30)
<1>8. BodiesOf(w) = Without(b, k)
  BY <1>2, <1>4, <1>5, <1>6, <1>7, SeqsEqual, Zenon
<1>9. BodiesOf(w) = Durable!Dropped(b, k)
  BY <1>3, <1>8, DroppedIsWithout, Zenon
<1> QED
  BY <1>3, <1>9, Zenon DEF Durable!Removed, w, b

\* Giving a rule another body replaces its body.
LEMMA ReplacedBody ==
  ASSUME NEW s \in Seq(Rule), NEW k \in 1 .. Len(s), NEW body \in Body
  PROVE  Durable!Replaced(BodiesOf(s), BodiesOf([s EXCEPT ![k].body = body]))
<1> DEFINE t == [s EXCEPT ![k].body = body]
<1>1. /\ DOMAIN s = 1 .. Len(s) /\ Len(s) \in Nat
      /\ \A j \in 1 .. Len(s) : s[j] \in Rule
  BY SeqShape, Zenon
<1>2. t = [s EXCEPT ![k] = [s[k] EXCEPT !.body = body]]
  BY Zenon
<1>3. [s[k] EXCEPT !.body = body] \in Rule /\ [s[k] EXCEPT !.body = body].body = body
  BY <1>1, Zenon DEF Rule
<1>4. t \in Seq(Rule)
  BY <1>2, <1>3, Excepted, Zenon
<1>5. DOMAIN t = 1 .. Len(s) /\ \A j \in 1 .. Len(s) : t[j] = IF j = k THEN [s[k] EXCEPT !.body = body] ELSE s[j]
  BY <1>1, <1>2, Zenon
<1> HIDE DEF t
<1>6. Len(t) = Len(s)
  BY <1>1, <1>4, <1>5, SeqShape, SMT, Z3, SMTT(20), Z3T(20)
<1>7. /\ DOMAIN BodiesOf(t) = 1 .. Len(s) /\ Len(BodiesOf(t)) = Len(s)
      /\ \A j \in 1 .. Len(s) : BodiesOf(t)[j] = t[j].body
  BY <1>4, <1>6, BodiesType, Zenon
<1>8. /\ DOMAIN BodiesOf(s) = 1 .. Len(s) /\ Len(BodiesOf(s)) = Len(s)
      /\ \A j \in 1 .. Len(s) : BodiesOf(s)[j] = s[j].body
  BY BodiesType, Zenon
<1>9. BodiesOf(t)[k] = body /\ \A j \in 1 .. Len(s) : j # k => BodiesOf(t)[j] = BodiesOf(s)[j]
  BY <1>3, <1>5, <1>7, <1>8, Zenon
<1>10. BodiesOf(t) = [BodiesOf(s) EXCEPT ![k] = BodiesOf(t)[k]]
  <2>1. BodiesOf(t) = [j \in 1 .. Len(s) |-> t[j].body]
    BY <1>4, <1>6, BodiesType, Zenon DEF BodiesOf
  <2>2. BodiesOf(s) = [j \in 1 .. Len(s) |-> s[j].body]
    BY BodiesType, Zenon DEF BodiesOf
  <2> QED
    BY <1>7, <1>8, <1>9, <2>1, <2>2, Zenon
<1> QED
  BY <1>1, <1>7, <1>8, <1>9, <1>10, Zenon DEF Durable!Replaced, t

-----------------------------------------------------------------------------
(* The refinement *)

\* A request that changes the rules of one rule set changes their bodies.
LEMMA ChangeRefined ==
  ASSUME IdInv, SaveInv, saveSet = 0, NEW i \in Sets, NEW t,
         rulesets' = [rulesets EXCEPT ![i] = t], reply'.st \in {"ok", "saving"},
         UNCHANGED files,
         \/ Durable!Inserted(BodiesOf(rulesets[i]), BodiesOf(t))
         \/ Durable!Removed(BodiesOf(rulesets[i]), BodiesOf(t))
         \/ Durable!Replaced(BodiesOf(rulesets[i]), BodiesOf(t))
  PROVE  Durable!Next
<1> DEFINE b == [j \in Sets |-> BodiesOf(rulesets[j])]
           c == [j \in Sets |-> BodiesOf(rulesets'[j])]
<1>1. rulesets \in [Sets -> Seq(Rule)]
  BY Zenon DEF IdInv, TypeOK
<1>2. b[i] = BodiesOf(rulesets[i]) /\ c[i] = BodiesOf(t)
  BY <1>1, Zenon
<1>3. c = [b EXCEPT ![i] = c[i]]
  BY <1>1, Zenon
<1>4. reply.st # "saving"
  BY Zenon DEF SaveInv
<1>5. Durable!Change(i)
  BY <1>2, <1>3, <1>4, Zenon DEF Durable!Change
<1> QED
  BY <1>5, Zenon DEF Durable!Next

\* Daemon::appendRule inserts a rule or is refused.
LEMMA AppendRefined ==
  ASSUME IdInv, SaveInv, NEW body \in Bodies, NEW parent, NEW permanent \in BOOLEAN,
         AppendRule(body, parent, permanent)
  PROVE  Durable!Next
<1> DEFINE r == [op |-> "append", st |-> "ok", id |-> idNext]
           new == [id |-> idNext, body |-> body]
           i == PlaceSet(parent)
           t == InsertAfter(rulesets[i], PlaceAfter(parent), new)
<1>1. saveSet = 0 /\ UNCHANGED files /\ reply.st # "saving"
  BY Zenon DEF AppendRule, Idle, Env, SaveInv
<1>2. CASE Fail(r)
  BY <1>1, <1>2, Zenon DEF Fail, Durable!Next, Durable!Answer
<1>3. CASE /\ HasPlace(parent) /\ IdAvailable
           /\ rulesets' = [rulesets EXCEPT ![i] = InsertAfter(@, PlaceAfter(parent), new)]
           /\ BeginSave(r, permanent /\ (RuleFile \/ RuleFolder))
  <2>1. i \in Sets /\ PlaceAfter(parent) \in 0 .. Len(rulesets[i])
    BY <1>3, PlaceExists, Zenon DEF IdInv
  <2>2. new \in Rule
    BY <1>3, ConstantsAssumption, SMT, Z3 DEF IdInv, TypeOK, IdAvailable, Rule
  <2>3. rulesets[i] \in Seq(Rule)
    BY <2>1, Zenon DEF IdInv, TypeOK
  <2>4. reply'.st \in {"ok", "saving"}
    BY <1>3, SaveOrAnswer, Zenon
  <2>5. rulesets' = [rulesets EXCEPT ![i] = t]
    BY <1>3, Zenon
  <2> HIDE DEF i, new
  <2>6. Durable!Inserted(BodiesOf(rulesets[i]), BodiesOf(t))
    BY <2>1, <2>2, <2>3, InsertedBody, Zenon
  <2> HIDE DEF t
  <2> QED
    BY <1>1, <2>1, <2>4, <2>5, <2>6, ChangeRefined, Zenon
<1> QED
  BY <1>2, <1>3, Zenon DEF AppendRule

\* Daemon::removeRule removes a rule or is refused.
LEMMA RemoveRefined ==
  ASSUME IdInv, SaveInv, NEW id, RemoveRule(id)
  PROVE  Durable!Next
<1> DEFINE r == [op |-> "remove", st |-> "ok", id |-> id]
           i == Least(SetsWith(id))
           k == Least(PositionsOf(rulesets[i], id))
           t == Without(rulesets[i], k)
<1>1. saveSet = 0 /\ UNCHANGED files /\ reply.st # "saving"
  BY Zenon DEF RemoveRule, Idle, Env, SaveInv
<1>2. CASE Fail(r)
  BY <1>1, <1>2, Zenon DEF Fail, Durable!Next, Durable!Answer
<1>3. CASE /\ SetsWith(id) # {}
           /\ rulesets' = [rulesets EXCEPT ![i] = Without(@, Least(PositionsOf(@, id)))]
           /\ BeginSave(r, RuleFile \/ RuleFolder)
  <2>1. i \in Sets /\ k \in DOMAIN rulesets[i]
    BY <1>3, FoundById, Zenon DEF IdInv
  <2>2. rulesets[i] \in Seq(Rule) /\ k \in 1 .. Len(rulesets[i])
    BY <2>1, SeqShape, Zenon DEF IdInv, TypeOK
  <2>3. reply'.st \in {"ok", "saving"}
    BY <1>3, SaveOrAnswer, Zenon
  <2>4. rulesets' = [rulesets EXCEPT ![i] = t]
    BY <1>3, Zenon
  <2> HIDE DEF i, k
  <2>5. Durable!Removed(BodiesOf(rulesets[i]), BodiesOf(t))
    BY <2>2, RemovedBody, Zenon
  <2> HIDE DEF t
  <2> QED
    BY <1>1, <2>1, <2>3, <2>4, <2>5, ChangeRefined, Zenon
<1> QED
  BY <1>2, <1>3, Zenon DEF RemoveRule

\* A permanent decision replaces or inserts a rule or is refused.
LEMMA UpsertRefined ==
  ASSUME IdInv, SaveInv, NEW a \in Attached, NEW target \in Targets,
         UpsertDeviceRule(a, target)
  PROVE  Durable!Next
<1> DEFINE body == DeviceBody(a, target)
           hit == SetsHit(a.dev)
           i == Least(hit)
           k == Least(UpsertHits(i, a.dev))
           r(id) == [op |-> "upsert", st |-> "ok", id |-> id, att |-> a, target |-> target]
<1>1. saveSet = 0 /\ UNCHANGED files /\ reply.st # "saving"
  BY Zenon DEF UpsertDeviceRule, Idle, Env, SaveInv
<1>2. body \in Body
  BY DeviceBodyType, Zenon
<1>3. CASE Fail(r(DefaultID))
  BY <1>1, <1>3, Zenon DEF Fail, Durable!Next, Durable!Answer
<1>4. CASE /\ hit # {}
           /\ rulesets' = [rulesets EXCEPT ![i][k].body = body]
           /\ BeginSave(r(rulesets[i][k].id), RuleFile)
  <2> DEFINE t == [rulesets[i] EXCEPT ![k].body = body]
  <2>1. i \in Sets /\ k \in DOMAIN rulesets[i]
    BY <1>4, FoundForUpsert, Zenon DEF IdInv
  <2>2. rulesets[i] \in Seq(Rule) /\ k \in 1 .. Len(rulesets[i])
    BY <2>1, SeqShape, Zenon DEF IdInv, TypeOK
  <2>3. reply'.st \in {"ok", "saving"}
    BY <1>4, SaveOrAnswer, Zenon
  <2>4. rulesets' = [rulesets EXCEPT ![i] = t]
    BY <1>4, Zenon
  <2> HIDE DEF i, k, body
  <2>5. Durable!Replaced(BodiesOf(rulesets[i]), BodiesOf(t))
    BY <1>2, <2>2, ReplacedBody, Zenon
  <2> HIDE DEF t
  <2> QED
    BY <1>1, <2>1, <2>3, <2>4, <2>5, ChangeRefined, Zenon
<1>5. CASE /\ IdAvailable
           /\ rulesets' = [rulesets EXCEPT ![NumSets] =
                             Append(@, [id |-> idNext, body |-> body])]
           /\ BeginSave(r(idNext), RuleFile)
  <2> DEFINE new == [id |-> idNext, body |-> body]
             s == rulesets[NumSets]
             t == InsertAfter(s, Len(s), new)
  <2>1. NumSets \in Sets /\ s \in Seq(Rule) /\ Len(s) \in 0 .. Len(s)
    BY ConstantsAssumption, SeqShape, SMT, Z3, SMTT(20), Z3T(20) DEF Sets, IdInv, TypeOK
  <2>2. new \in Rule
    BY <1>2, <1>5, ConstantsAssumption, SMT, Z3 DEF IdInv, TypeOK, IdAvailable, Rule
  <2>3. reply'.st \in {"ok", "saving"}
    BY <1>5, SaveOrAnswer, Zenon
  <2>4. rulesets' = [rulesets EXCEPT ![NumSets] = Append(@, new)]
    BY <1>5, Zenon
  <2> HIDE DEF new, body
  <2>5. rulesets' = [rulesets EXCEPT ![NumSets] = t]
    BY <2>1, <2>2, <2>4, AppendIsInsertAfter, Zenon
  <2>6. Durable!Inserted(BodiesOf(s), BodiesOf(t))
    BY <2>1, <2>2, InsertedBody, Zenon
  <2> HIDE DEF t
  <2> QED
    BY <1>1, <2>1, <2>3, <2>5, <2>6, ChangeRefined, Zenon
<1> QED
  BY <1>3, <1>4, <1>5, Zenon DEF UpsertDeviceRule

\* Opening a rule file or writing a line leaves the first rules of the set.
LEMMA WriteRefined ==
  ASSUME IdInv, SaveInv, SaveOpen \/ SaveLine
  PROVE  Durable!Next
<1> DEFINE n == saveSet
           b == [j \in Sets |-> BodiesOf(rulesets[j])]
<1>1. /\ n # 0 /\ n \in Sets /\ reply.st = "saving"
      /\ UNCHANGED <<rulesets, saveSet, reply>> /\ saveOpen' = TRUE
  BY DEF SaveOpen, SaveLine, SaveInv, IdInv, TypeOK, Sets
<1>2. /\ SaveInv' /\ files' \in [Sets -> Seq(Body)]
      /\ rulesets[n] \in Seq(Rule)
  <2>1. [Next]_vars
    BY Zenon DEF Next
  <2> QED
    BY <1>1, <2>1, WriteKeepsSave, NextKeepsTypes, Zenon DEF IdInv, TypeOK
<1>3. files'[n] \in Seq(Body) /\ files' = [files EXCEPT ![n] = files'[n]]
  BY <1>1, <1>2, Zenon DEF SaveOpen, SaveLine, IdInv, TypeOK
<1>4. /\ Len(files'[n]) \in Nat /\ Len(files'[n]) <= Len(rulesets[n])
      /\ \A k \in 1 .. Len(files'[n]) : files'[n][k] = rulesets[n][k].body
  BY <1>1, <1>2, <1>3, SeqShape, Zenon DEF SaveInv, Written
<1>5. /\ BodiesOf(rulesets[n]) \in Seq(Body)
      /\ Len(BodiesOf(rulesets[n])) = Len(rulesets[n]) /\ Len(rulesets[n]) \in Nat
      /\ \A k \in 1 .. Len(rulesets[n]) : BodiesOf(rulesets[n])[k] = rulesets[n][k].body
  BY <1>2, BodiesType, Zenon
<1>6. files'[n] = Durable!Prefix(BodiesOf(rulesets[n]), Len(files'[n]))
  <2>1. \A k \in 1 .. Len(files'[n]) : files'[n][k] = BodiesOf(rulesets[n])[k]
    BY <1>4, <1>5, SMT, Z3, SMTT(20), Z3T(20)
  <2> QED
    BY <1>3, <1>4, <1>5, <2>1, AgreesIsPrefix, Zenon
<1>7. b[n] = BodiesOf(rulesets[n]) /\ Len(files'[n]) \in 0 .. Len(b[n])
  BY <1>1, <1>4, <1>5, SMT, Z3
<1>8. Durable!Store(n)
  BY <1>1, <1>3, <1>6, <1>7, Zenon DEF Durable!Store
<1> QED
  BY <1>1, <1>8, Zenon DEF Durable!Next

\* When every rule file holds its rules, the disk holds the policy.
LEMMA StoredIsKept ==
  ASSUME rulesets \in [Sets -> Seq(Rule)], files \in [Sets -> Seq(Body)],
         \A i \in Sets : Stored(i)
  PROVE  files = [i \in Sets |-> BodiesOf(rulesets[i])]
<1>1. ASSUME NEW i \in Sets PROVE files[i] = BodiesOf(rulesets[i])
  <2>1. /\ BodiesOf(rulesets[i]) \in Seq(Body)
        /\ Len(BodiesOf(rulesets[i])) = Len(rulesets[i]) /\ Len(rulesets[i]) \in Nat
        /\ DOMAIN rulesets[i] = 1 .. Len(rulesets[i])
        /\ \A k \in 1 .. Len(rulesets[i]) : BodiesOf(rulesets[i])[k] = rulesets[i][k].body
    BY BodiesType, Zenon
  <2>2. Len(files[i]) = Len(rulesets[i])
    BY <2>1, SeqShape, SMT, Z3 DEF Stored
  <2>3. \A k \in 1 .. Len(files[i]) : files[i][k] = BodiesOf(rulesets[i])[k]
    BY <2>1, <2>2, Zenon DEF Stored
  <2> QED
    BY <2>1, <2>2, <2>3, SeqsEqual, ZenonT(30)
<1> QED
  BY <1>1, Zenon

\* Closing the last file acknowledges the request.
LEMMA CloseRefined ==
  ASSUME WriteErrors = FALSE, IdInv, SaveInv, SaveClose
  PROVE  Durable!Next \/ UNCHANGED <<rulesets, files, reply>>
<1>1. UNCHANGED <<rulesets, files>> /\ saveSet # 0 /\ reply.st = "saving"
  BY Zenon DEF SaveClose, SaveInv
<1>2. CASE saveSet = NumSets
  <2>1. saveSet' = 0 /\ reply'.st = "ok"
    BY <1>2, Zenon DEF SaveClose, IdInv, TypeOK, Replies
  <2>2. \A i \in Sets : Stored(i)
    BY <1>1, <2>1, CloseKeepsSave, Zenon DEF Stored
  <2>3. files = [i \in Sets |-> BodiesOf(rulesets[i])]
    BY <2>2, StoredIsKept, Zenon DEF IdInv, TypeOK
  <2>4. Durable!Acknowledge
    BY <1>1, <2>1, <2>3, Zenon DEF Durable!Acknowledge
  <2> QED
    BY <2>4, Zenon DEF Durable!Next
<1>3. CASE saveSet # NumSets
  BY <1>1, <1>3, Zenon DEF SaveClose
<1> QED
  BY <1>2, <1>3, Zenon

\* What is loaded has the bodies that were on disk.
LEMMA LoadedBodies ==
  ASSUME files \in [Sets -> Seq(Body)]
  PROVE  files = [i \in Sets |-> BodiesOf(LoadedRules[i])]
<1>1. ASSUME NEW i \in Sets PROVE files[i] = BodiesOf(LoadedRules[i])
  <2>1. DOMAIN LoadedRules[i] = DOMAIN files[i]
        /\ \A k \in DOMAIN files[i] : LoadedRules[i][k].body = files[i][k]
    BY Zenon DEF LoadedRules
  <2>2. files[i] = [k \in DOMAIN files[i] |-> files[i][k]]
    BY SeqShape, Zenon
  <2> QED
    BY <2>1, <2>2, Zenon DEF BodiesOf
<1> QED
  BY <1>1, Zenon

\* Every step of the policy is a step of the durable list or changes nothing of it.
LEMMA StepRefined ==
  ASSUME WriteErrors = FALSE, IdInv, SaveInv, [Next]_vars
  PROVE  Durable!Next \/ UNCHANGED <<rulesets, files, reply>>
<1>1. ASSUME NEW body \in Bodies, NEW parent \in 0 .. LastID,
             NEW permanent \in BOOLEAN, AppendRule(body, parent, permanent)
      PROVE  Durable!Next
  BY <1>1, AppendRefined, Zenon
<1>2. ASSUME NEW id \in 0 .. LastID, RemoveRule(id)
      PROVE  Durable!Next
  BY <1>2, RemoveRefined, Zenon
<1>3. ASSUME NEW d \in Decisions, UpsertDeviceRule(d[1], d[2])
      PROVE  Durable!Next
  <2>1. d[1] \in Attached /\ d[2] \in Targets
    BY ConstantsAssumption, Zenon
  <2> QED
    BY <1>3, <2>1, UpsertRefined, Zenon
<1>4. ASSUME NEW target \in ImplicitTargets, SetImplicitPolicyTarget(target)
      PROVE  Durable!Next
  <2>1. UNCHANGED <<rulesets, files>> /\ reply'.st = "ok" /\ reply.st # "saving"
    BY <1>4, Zenon DEF SetImplicitPolicyTarget, Idle, NoReply, SaveInv
  <2> QED
    BY <2>1, Zenon DEF Durable!Next, Durable!Answer
<1>5. CASE SaveOpen \/ SaveLine
  BY <1>5, WriteRefined, Zenon
<1>6. CASE SaveOpenFails
  <2>1. /\ UNCHANGED <<rulesets, files>>
        /\ reply'.st = "error" /\ reply.st = "saving"
    BY <1>6, Zenon DEF SaveOpenFails, SaveInv, IdInv, TypeOK, Replies
  <2> QED
    BY <2>1, Zenon DEF Durable!Next, Durable!GiveUp
<1>7. CASE SaveClose
  BY <1>7, CloseRefined, Zenon
<1>8. CASE Restart
  <2>1. /\ rulesets' = LoadedRules /\ UNCHANGED files /\ reply'.st # "saving"
    BY <1>8, Zenon DEF Restart, Idle, NoReply, SaveInv
  <2>2. files = [i \in Sets |-> BodiesOf(LoadedRules[i])]
    BY LoadedBodies, Zenon DEF IdInv, TypeOK
  <2> QED
    BY <2>1, <2>2, Zenon DEF Durable!Next, Durable!Crash
<1>9. CASE AssignDeviceID \/ ConditionsChange \/ UNCHANGED vars
  BY <1>9, Zenon DEF AssignDeviceID, ConditionsChange, vars
<1> QED
  BY <1>1, <1>2, <1>3, <1>4, <1>5, <1>6, <1>7, <1>8, <1>9, Zenon DEF Next

-----------------------------------------------------------------------------
(* Decisions *)

\* A rule made for the device decides about it: no rule before it, in its own
\* rule set or an earlier one, can apply to the device wherever it is attached.
Decides(rs, a, target) ==
  \E i \in Sets : \E k \in DOMAIN rs[i] :
    /\ rs[i][k].body = DeviceBody(a, target)
    /\ \A m \in DOMAIN rs[i] : m # k => a.dev \notin rs[i][m].body.devs
    /\ \A j \in Sets : j < i => \A m \in DOMAIN rs[j] : a.dev \notin rs[j][m].body.devs

\* If a rule made for the device decides, the evaluation returns its target.
LEMMA DecidesGivesTarget ==
  ASSUME Counting, NEW rs \in Books, NEW a \in Attached, NEW target \in Targets,
         Decides(rs, a, target)
  PROVE  PolicyFirst(rs, a).target = target
<1>1. PICK i \in Sets : \E k \in DOMAIN rs[i] :
        /\ rs[i][k].body = DeviceBody(a, target)
        /\ \A m \in DOMAIN rs[i] : m # k => a.dev \notin rs[i][m].body.devs
        /\ \A j \in Sets : j < i => \A m \in DOMAIN rs[j] : a.dev \notin rs[j][m].body.devs
  BY Zenon DEF Decides
<1>2. PICK k \in DOMAIN rs[i] :
        /\ rs[i][k].body = DeviceBody(a, target)
        /\ \A m \in DOMAIN rs[i] : m # k => a.dev \notin rs[i][m].body.devs
        /\ \A j \in Sets : j < i => \A m \in DOMAIN rs[j] : a.dev \notin rs[j][m].body.devs
  BY <1>1, Zenon
<1>3. AppliesTo(DeviceBody(a, target), a) /\ DeviceBody(a, target).target = target
  BY Zenon DEF AppliesTo, DeviceBody, Attached
<1>4. {m \in DOMAIN rs[i] : AppliesTo(rs[i][m].body, a)} = {k}
  BY <1>2, <1>3, Zenon DEF AppliesTo
<1>5. Least({k}) = k
  <2>1. k \in Int
    BY SeqShape, SMT, Z3 DEF Books
  <2> QED
    BY <2>1, SMT, Z3, SMTT(20), Z3T(20) DEF Least
<1>6. RuleSetFirst(rs[i], a) = [id |-> rs[i][k].id, target |-> target]
  BY <1>2, <1>3, <1>4, <1>5, Zenon DEF RuleSetFirst
<1>7. rs[i][k].id # ImplicitID
  <2>1. rs[i] \in Seq(Rule) /\ k \in 1 .. Len(rs[i])
    BY SeqShape, Zenon DEF Books
  <2>2. rs[i][k] \in Rule
    BY <2>1, SeqShape, Zenon
  <2> QED
    BY <2>2, ConstantsAssumption, SMT, Z3 DEF Rule, ImplicitID
<1>8. ASSUME NEW j \in Sets, j < i PROVE RuleSetFirst(rs[j], a).id = ImplicitID
  <2>1. {m \in DOMAIN rs[j] : AppliesTo(rs[j][m].body, a)} = {}
    BY <1>2, <1>8, Zenon DEF AppliesTo
  <2> QED
    BY <2>1, Zenon DEF RuleSetFirst
<1> DEFINE hits == {j \in Sets : RuleSetFirst(rs[j], a).id # ImplicitID}
<1>9. i \in hits /\ \A j \in hits : i <= j
  BY <1>6, <1>7, <1>8, SMT, Z3, SMTT(20), Z3T(20) DEF Sets
<1>10. hits \subseteq Nat
  BY SMT, Z3 DEF Sets
<1>11. PolicyFirst(rs, a) = RuleSetFirst(rs[IF hits = {} THEN 1 ELSE Least(hits)], a)
  BY Zenon DEF PolicyFirst
<1> HIDE DEF hits
<1>12. Least(hits) = i
  <2>1. Least(hits) \in hits /\ Least(hits) <= i
    BY <1>9, <1>10, LeastProperty, Zenon
  <2> DEFINE l == Least(hits)
  <2>2. l \in Nat /\ i \in Nat /\ l <= i /\ i <= l
    BY <1>9, <1>10, <2>1, Zenon
  <2> HIDE DEF l
  <2>3. l = i
    BY <2>2, SMT, Z3
  <2> QED
    BY <2>3, Zenon DEF l
<1> QED
  BY <1>6, <1>9, <1>11, <1>12, SMT, Z3, SMTT(20), Z3T(20)

\* Loading stored rules gives rules with the same bodies.
LEMMA LoadKeepsDecision ==
  ASSUME NEW a, NEW target, rulesets \in Books, Decides(rulesets, a, target),
         files \in [Sets -> Seq(Body)], \A i \in Sets : Stored(i)
  PROVE  Decides(LoadedRules, a, target)
<1>1. \A i \in Sets : /\ DOMAIN LoadedRules[i] = DOMAIN rulesets[i]
                      /\ \A k \in DOMAIN rulesets[i] :
                           LoadedRules[i][k].body = rulesets[i][k].body
  BY Zenon DEF LoadedRules, Stored
<1> DEFINE loaded == LoadedRules
<1> HIDE DEF loaded
<1>2. PICK i \in Sets : \E k \in DOMAIN rulesets[i] :
        /\ rulesets[i][k].body = DeviceBody(a, target)
        /\ \A m \in DOMAIN rulesets[i] : m # k => a.dev \notin rulesets[i][m].body.devs
        /\ \A j \in Sets : j < i =>
             \A m \in DOMAIN rulesets[j] : a.dev \notin rulesets[j][m].body.devs
  BY Zenon DEF Decides
<1>3. PICK k \in DOMAIN rulesets[i] :
        /\ rulesets[i][k].body = DeviceBody(a, target)
        /\ \A m \in DOMAIN rulesets[i] : m # k => a.dev \notin rulesets[i][m].body.devs
        /\ \A j \in Sets : j < i =>
             \A m \in DOMAIN rulesets[j] : a.dev \notin rulesets[j][m].body.devs
  BY <1>2, Zenon
<1>4. /\ k \in DOMAIN loaded[i] /\ loaded[i][k].body = DeviceBody(a, target)
      /\ \A m \in DOMAIN loaded[i] : m # k => a.dev \notin loaded[i][m].body.devs
  BY <1>1, <1>3, Zenon DEF loaded
<1>5. \A j \in Sets : j < i =>
        \A m \in DOMAIN loaded[j] : a.dev \notin loaded[j][m].body.devs
  BY <1>1, <1>3, SMT, Z3, SMTT(20), Z3T(20) DEF loaded
<1>6. Decides(loaded, a, target)
  BY <1>4, <1>5, Zenon DEF Decides
<1> QED
  BY <1>6, Zenon DEF loaded

\* Updating the only rule for the device, in the first rule set that has one,
\* makes it decide.
LEMMA UpdateDecides ==
  ASSUME rulesets \in Books, NEW a \in Attached, NEW target \in Targets,
         NEW i \in Sets, NEW k \in DOMAIN rulesets[i],
         UpsertHits(i, a.dev) = {k},
         \A j \in Sets : j < i => UpsertHits(j, a.dev) = {},
         rulesets' = [rulesets EXCEPT ![i][k].body = DeviceBody(a, target)]
  PROVE  Decides(rulesets', a, target)
<1>1. /\ \A j \in Sets : j # i => rulesets'[j] = rulesets[j]
      /\ rulesets'[i] = [rulesets[i] EXCEPT ![k].body = DeviceBody(a, target)]
  BY Zenon DEF Books
<1>2. rulesets[i] \in Seq(Rule) /\ k \in 1 .. Len(rulesets[i])
  BY SeqShape, SMT, Z3 DEF Books
<1>3. rulesets[i][k] \in Rule
  BY <1>2, SeqShape, Zenon
<1>4. /\ DOMAIN rulesets'[i] = DOMAIN rulesets[i]
      /\ rulesets'[i][k].body = DeviceBody(a, target)
      /\ \A m \in DOMAIN rulesets[i] : m # k => rulesets'[i][m] = rulesets[i][m]
  BY <1>1, <1>3, SMT, Z3, SMTT(20), Z3T(20) DEF Rule
<1>5. \A m \in DOMAIN rulesets'[i] : m # k => a.dev \notin rulesets'[i][m].body.devs
  BY <1>4, Zenon DEF UpsertHits
<1>6. \A j \in Sets : j < i =>
        \A m \in DOMAIN rulesets'[j] : a.dev \notin rulesets'[j][m].body.devs
  BY <1>1, Zenon DEF UpsertHits, Sets
<1> QED
  BY <1>4, <1>5, <1>6, SMT, Z3, SMTT(20), Z3T(20) DEF Decides

\* A rule appended for a device that no rule is for decides.
LEMMA AppendDecides ==
  ASSUME rulesets \in Books, NEW a \in Attached, NEW target \in Targets, NEW id,
         SetsHit(a.dev) = {}, id \in 1 .. LastID - 2,
         rulesets' = [rulesets EXCEPT ![NumSets] =
                        Append(@, [id |-> id, body |-> DeviceBody(a, target)])]
  PROVE  Decides(rulesets', a, target)
<1> DEFINE r == [id |-> id, body |-> DeviceBody(a, target)]
           s == rulesets[NumSets]
<1>1. NumSets \in Sets /\ s \in Seq(Rule) /\ r \in Rule
  <2>1. DeviceBody(a, target) \in Body
    BY DeviceBodyType, Zenon
  <2>2. NumSets \in Sets
    BY ConstantsAssumption, SMT, Z3 DEF Sets
  <2> QED
    BY <2>1, <2>2, Zenon DEF Books, Rule
<1>2. \A j \in Sets : \A m \in DOMAIN rulesets[j] : a.dev \notin rulesets[j][m].body.devs
  BY Zenon DEF SetsHit, UpsertHits
<1>3. rulesets'[NumSets] = Append(s, r)
      /\ \A j \in Sets : j # NumSets => rulesets'[j] = rulesets[j]
  BY <1>1, Zenon DEF Books
<1>4. r.body = DeviceBody(a, target)
  BY Zenon
<1> HIDE DEF r, s
<1>5. /\ Append(s, r) \in Seq(Rule) /\ Len(Append(s, r)) = Len(s) + 1
      /\ \A m \in 1 .. Len(s) : Append(s, r)[m] = s[m]
      /\ Append(s, r)[Len(s) + 1] = r
  BY <1>1, Appended, SMT, Z3, SMTT(20), Z3T(20)
<1>6. Len(s) \in Nat /\ DOMAIN s = 1 .. Len(s)
      /\ DOMAIN Append(s, r) = 1 .. Len(s) + 1
  BY <1>1, <1>5, SeqShape, Zenon
<1>7. Len(s) + 1 \in DOMAIN rulesets'[NumSets]
      /\ rulesets'[NumSets][Len(s) + 1].body = DeviceBody(a, target)
  BY <1>3, <1>4, <1>5, <1>6, SMT, Z3, SMTT(20), Z3T(20)
<1>8. ASSUME NEW m \in DOMAIN rulesets'[NumSets], m # Len(s) + 1
      PROVE  a.dev \notin rulesets'[NumSets][m].body.devs
  <2>1. m \in 1 .. Len(s)
    BY <1>3, <1>6, <1>8, SMT, Z3
  <2> QED
    BY <1>1, <1>2, <1>3, <1>5, <1>6, <2>1, ZenonT(30) DEF s
<1>9. \A j \in Sets : j < NumSets =>
        \A m \in DOMAIN rulesets'[j] : a.dev \notin rulesets'[j][m].body.devs
  BY <1>2, <1>3, ConstantsAssumption, SMT, Z3, SMTT(20), Z3T(20) DEF Sets
<1> QED
  BY <1>1, <1>7, <1>8, <1>9, ZenonT(30) DEF Decides

\* What a decision has led to.
DecisionInv ==
  /\ reply.op = "upsert" /\ reply.st # "error" => Decides(rulesets, reply.att, reply.target)
  /\ reply.op = "upsert" /\ reply.st = "ok" => \A i \in Sets : Stored(i)

\* A permanent decision makes the rule of its device decide, and starts a save.
LEMMA UpsertKeepsDecision ==
  ASSUME RuleFile = TRUE, IdInv, NEW a \in Attached, NEW target \in Targets,
         UpsertDeviceRule(a, target)
  PROVE  DecisionInv'
<1> DEFINE hit == SetsHit(a.dev)
           i == Least(hit)
           k == Least(UpsertHits(i, a.dev))
<1>2. ASSUME NEW r, r.st = "ok", r.op = "upsert", r.att = a, r.target = target,
             DOMAIN r = {"op", "st", "id", "att", "target"},
             r = [op |-> r.op, st |-> r.st, id |-> r.id, att |-> r.att, target |-> r.target],
             BeginSave(r, RuleFile), Decides(rulesets', a, target)
      PROVE  DecisionInv'
  <2>1. saveSet' = 1 /\ saveOpen' = FALSE /\ reply' = [r EXCEPT !.st = "saving"]
    BY <1>2, Zenon DEF BeginSave
  <2>2. reply'.st = "saving" /\ reply'.op = "upsert" /\ reply'.att = a /\ reply'.target = target
    BY <1>2, <2>1, Zenon
  <2> QED
    BY <1>2, <2>2, Zenon DEF DecisionInv
<1>3. CASE /\ hit # {} /\ UpsertHits(i, a.dev) = {k}
           /\ rulesets' = [rulesets EXCEPT ![i][k].body = DeviceBody(a, target)]
           /\ BeginSave([op |-> "upsert", st |-> "ok", id |-> rulesets[i][k].id,
                         att |-> a, target |-> target], RuleFile)
  <2>1. /\ i \in Sets /\ k \in DOMAIN rulesets[i]
        /\ \A j \in Sets : j < i => UpsertHits(j, a.dev) = {}
    BY <1>3, FoundForUpsert, Zenon DEF IdInv
  <2>2. rulesets \in Books
    BY Zenon DEF IdInv, TypeOK, Books
  <2> DEFINE p == i
             q == k
  <2>3. /\ p \in Sets /\ q \in DOMAIN rulesets[p] /\ UpsertHits(p, a.dev) = {q}
        /\ \A j \in Sets : j < p => UpsertHits(j, a.dev) = {}
        /\ rulesets' = [rulesets EXCEPT ![p][q].body = DeviceBody(a, target)]
    BY <1>3, <2>1, Zenon
  <2> HIDE DEF p, q
  <2>4. Decides(rulesets', a, target)
    BY <2>2, <2>3, UpdateDecides, Zenon
  <2> QED
    BY <1>2, <1>3, <2>4, Zenon
<1>4. CASE /\ hit = {} /\ IdAvailable
           /\ rulesets' = [rulesets EXCEPT ![NumSets] =
                 Append(@, [id |-> idNext, body |-> DeviceBody(a, target)])]
           /\ BeginSave([op |-> "upsert", st |-> "ok", id |-> idNext,
                         att |-> a, target |-> target], RuleFile)
  <2>1. rulesets \in Books /\ idNext \in 1 .. LastID - 2
    BY <1>4, ConstantsAssumption, SMT, Z3, SMTT(20), Z3T(20) DEF IdInv, TypeOK, Books, IdAvailable
  <2>2. Decides(rulesets', a, target)
    BY <1>4, <2>1, AppendDecides, Zenon
  <2> QED
    BY <1>2, <1>4, <2>2, Zenon
<1>5. CASE Fail([op |-> "upsert", st |-> "ok", id |-> DefaultID,
                 att |-> a, target |-> target])
  BY <1>5, Zenon DEF Fail, DecisionInv
<1> QED
  BY <1>3, <1>4, <1>5, Zenon DEF UpsertDeviceRule

\* Every step keeps the invariant.
LEMMA NextKeepsDecision ==
  ASSUME RuleFile = TRUE, WriteErrors = FALSE, IdInv, SaveInv, DecisionInv, [Next]_vars
  PROVE  DecisionInv'
<1>1. ASSUME NEW body \in Bodies, NEW parent \in 0 .. LastID,
             NEW permanent \in BOOLEAN, AppendRule(body, parent, permanent)
      PROVE  DecisionInv'
  BY <1>1, Zenon DEF AppendRule, BeginSave, Fail, DecisionInv
<1>2. ASSUME NEW id \in 0 .. LastID, RemoveRule(id)
      PROVE  DecisionInv'
  BY <1>2, Zenon DEF RemoveRule, BeginSave, Fail, DecisionInv
<1>3. ASSUME NEW d \in Decisions, UpsertDeviceRule(d[1], d[2])
      PROVE  DecisionInv'
  <2>1. d[1] \in Attached /\ d[2] \in Targets
    BY ConstantsAssumption, Zenon
  <2> QED
    BY <1>3, <2>1, UpsertKeepsDecision, Zenon
<1>4. ASSUME NEW target \in ImplicitTargets, SetImplicitPolicyTarget(target)
      PROVE  DecisionInv'
  BY <1>4, Zenon DEF SetImplicitPolicyTarget, NoReply, DecisionInv
<1>5. CASE SaveOpen \/ SaveLine
  <2>1. UNCHANGED <<rulesets, reply>> /\ reply.st = "saving"
    BY <1>5, Zenon DEF SaveOpen, SaveLine, SaveInv
  <2>2. Decides(rulesets, reply.att, reply.target) => Decides(rulesets, reply.att, reply.target)'
    BY <2>1, ZenonT(30) DEF Decides
  <2> QED
    BY <2>1, <2>2, Zenon DEF DecisionInv
<1>6. CASE SaveOpenFails
  BY <1>6, Zenon DEF SaveOpenFails, IdInv, TypeOK, Replies, DecisionInv
<1>7. CASE SaveClose
  <2>1. UNCHANGED <<rulesets, files>> /\ saveSet # 0 /\ reply.st = "saving"
    BY <1>7, Zenon DEF SaveClose, SaveInv
  <2>2. CASE saveSet = NumSets
    <3>1. /\ saveSet' = 0 /\ reply'.st = "ok" /\ reply'.op = reply.op
          /\ reply.op = "upsert" => reply'.att = reply.att /\ reply'.target = reply.target
      BY <1>7, <2>2, Zenon DEF SaveClose, IdInv, TypeOK, Replies
    <3>2. \A i \in Sets : Stored(i)'
      BY <1>7, <3>1, CloseKeepsSave, Zenon
    <3>3. /\ rulesets' = rulesets
          /\ reply.op = "upsert" => Decides(rulesets, reply.att, reply.target)
      BY <2>1, Zenon DEF DecisionInv
    <3>4. reply.op = "upsert" => Decides(rulesets', reply'.att, reply'.target)
      BY <3>1, <3>3, Zenon
    <3>5. reply'.op = "upsert" => Decides(rulesets, reply.att, reply.target)'
      BY <3>1, <3>4, Zenon DEF Decides
    <3> QED
      BY <3>2, <3>5, Zenon DEF DecisionInv
  <2>3. CASE saveSet # NumSets
    BY <1>7, <2>1, <2>3, Zenon DEF SaveClose, DecisionInv, Decides
  <2> QED
    BY <2>2, <2>3, Zenon
<1>8. CASE Restart
  <2>1. CASE reply.op = "upsert" /\ reply.st = "ok"
    <3>1. reply' = reply /\ rulesets' = LoadedRules /\ files' = files
      BY <1>8, <2>1, Zenon DEF Restart, Idle, SaveInv
    <3>2. Decides(LoadedRules, reply.att, reply.target)
      BY <2>1, LoadKeepsDecision, Zenon DEF DecisionInv, IdInv, TypeOK, Books
    <3>3. \A i \in Sets : Stored(i)'
      BY <3>1, Zenon DEF Stored, LoadedRules
    <3> QED
      BY <2>1, <3>1, <3>2, <3>3, Zenon DEF DecisionInv
  <2>2. CASE ~(reply.op = "upsert" /\ reply.st = "ok")
    <3>1. ~(reply'.op = "upsert" /\ reply'.st # "error")
      BY <1>8, <2>2, Zenon DEF Restart, Idle, NoReply, SaveInv, IdInv, TypeOK, Replies
    <3> QED
      BY <3>1, Zenon DEF DecisionInv
  <2> QED
    BY <2>1, <2>2, Zenon
<1>9. CASE AssignDeviceID \/ ConditionsChange \/ UNCHANGED vars
  <2>1. UNCHANGED <<rulesets, files, reply>>
    BY <1>9, Zenon DEF AssignDeviceID, ConditionsChange, vars
  <2>2. \A i \in Sets : Stored(i) => Stored(i)'
    BY <2>1, Zenon DEF Stored
  <2>3. Decides(rulesets, reply.att, reply.target) => Decides(rulesets, reply.att, reply.target)'
    BY <2>1, ZenonT(30) DEF Decides
  <2> QED
    BY <2>1, <2>2, <2>3, Zenon DEF DecisionInv
<1> QED
  BY <1>1, <1>2, <1>3, <1>4, <1>5, <1>6, <1>7, <1>8, <1>9, Zenon DEF Next

-----------------------------------------------------------------------------
(* Counting *)

\* Facts about finite sets and induction
INSTANCE FiniteSetTheorems
INSTANCE WellFoundedInduction

\* Least picks the smallest element of a nonempty set of naturals.
LEMMA LeastExists ==
  ASSUME NEW S, S \subseteq Nat, S # {}
  PROVE  Least(S) \in S /\ \A m \in S : Least(S) <= m
<1> DEFINE T == {1 .. n : n \in S}
<1>1. T \subseteq FiniteSubsetsOf(Nat) /\ T # {}
  <2>1. ASSUME NEW n \in S PROVE 1 .. n \in FiniteSubsetsOf(Nat)
    <3>1. 1 \in Int /\ n \in Int
      BY SMT, Z3, SMTT(20), Z3T(20)
    <3>2. IsFiniteSet(1 .. n)
      BY <3>1, FS_Interval, Zenon
    <3> QED
      BY <3>2, SMT, Z3, SMTT(20), Z3T(20) DEF FiniteSubsetsOf
  <2> QED
    BY <2>1, Zenon
<1>2. \E t \in T : \A u \in T : ~(<<u, t>> \in StrictSubsetOrdering(Nat))
  <2> HIDE DEF T
  <2> QED
    BY <1>1, FS_StrictSubsetOrderingWellFounded, WFMin, Zenon
<1>3. PICK k \in S : \A m \in S : ~(<<1 .. m, 1 .. k>> \in StrictSubsetOrdering(Nat))
  BY <1>2, Zenon
<1>4. ASSUME NEW m \in S, m < k PROVE FALSE
  <2>1. 1 .. m \subseteq 1 .. k /\ k \in 1 .. k /\ k \notin 1 .. m
    BY <1>4, SMT, Z3, SMTT(20), Z3T(20)
  <2>2. 1 .. m # 1 .. k
    BY <2>1, Zenon
  <2>3. <<1 .. m, 1 .. k>> \in (SUBSET Nat) \X (SUBSET Nat)
    BY SMT, Z3, SMTT(20), Z3T(20)
  <2>4. <<1 .. m, 1 .. k>> \in StrictSubsetOrdering(Nat)
    BY <2>1, <2>2, <2>3, ZenonT(30) DEF StrictSubsetOrdering
  <2> QED
    BY <1>3, <2>4, ZenonT(30)
<1>5. \A m \in S : k <= m
  BY <1>4, SMT, Z3, SMTT(20), Z3T(20)
<1>6. QED
  BY <1>5, Zenon DEF Least

\* The places of rules in the rule files are finitely many.
LEMMA PlacesFinite ==
  ASSUME NEW f \in [Sets -> Seq(Body)]
  PROVE  IsFiniteSet(Places(f))
<1> DEFINE g == [i \in Sets |-> {i} \X DOMAIN f[i]]
           C == {g[i] : i \in Sets}
<1>1. IsFiniteSet(Sets)
  BY FS_Interval, ConstantsAssumption, SMT, Z3, SMTT(20), Z3T(20) DEF Sets
<1>2. IsFiniteSet(C)
  <2>1. g \in Surjection(Sets, C)
    BY Zenon DEF Surjection
  <2> QED
    BY <1>1, <2>1, FS_Surjection, Zenon
<1>3. ASSUME NEW i \in Sets PROVE IsFiniteSet(g[i])
  <2>1. DOMAIN f[i] = 1 .. Len(f[i]) /\ Len(f[i]) \in Int /\ 1 \in Int
    BY SeqShape, SMT, Z3, SMTT(20), Z3T(20)
  <2>2. IsFiniteSet(DOMAIN f[i])
    BY <2>1, FS_Interval, ZenonT(30)
  <2>3. IsFiniteSet({i})
    BY FS_Singleton, Zenon
  <2>4. IsFiniteSet({i} \X DOMAIN f[i])
    BY <2>2, <2>3, FS_Product, ZenonT(30)
  <2> QED
    BY <2>4, ZenonT(30)
<1>4. \A T \in C : IsFiniteSet(T)
  BY <1>3, Zenon
<1>5. IsFiniteSet(UNION C)
  <2> HIDE DEF C
  <2> QED
    BY <1>2, <1>4, FS_UNION, Zenon
<1>6. Places(f) = UNION C
  BY Zenon DEF Places
<1> QED
  BY <1>5, <1>6, Zenon

\* The number of rules before a place identifies the place and is smaller than
\* the number of all rules.
LEMMA PlacesCounted ==
  ASSUME NEW f \in [Sets -> Seq(Body)], NEW i \in Sets, NEW k \in DOMAIN f[i]
  PROVE  /\ Cardinality(Before(f, i, k)) \in Nat
         /\ Cardinality(Places(f)) \in Nat
         /\ Cardinality(Before(f, i, k)) < Cardinality(Places(f))
         /\ \A j \in Sets : \A m \in DOMAIN f[j] :
              (i < j \/ (i = j /\ k < m))
                => Cardinality(Before(f, i, k)) < Cardinality(Before(f, j, m))
<1>1. IsFiniteSet(Places(f))
  BY PlacesFinite, Zenon
<1>2. <<i, k>> \in Places(f) /\ <<i, k>> \notin Before(f, i, k)
  <2>1. i \in Int /\ k \in Int
    BY SeqShape, SMT, Z3, SMTT(20), Z3T(20) DEF Sets
  <2> QED
    BY <2>1, SMT, Z3, SMTT(20), Z3T(20) DEF Places, Before
<1>3. \A j, m : Before(f, j, m) \subseteq Places(f)
  BY Zenon DEF Before
<1>4. \A j, m : IsFiniteSet(Before(f, j, m))
  BY <1>1, <1>3, FS_Subset, Zenon
<1>5. /\ Cardinality(Places(f)) \in Nat
      /\ \A j, m : Cardinality(Before(f, j, m)) \in Nat
  BY <1>1, <1>4, FS_CardinalityType, Zenon
<1>6. /\ Cardinality(Before(f, i, k)) <= Cardinality(Places(f))
      /\ Cardinality(Before(f, i, k)) # Cardinality(Places(f))
  BY <1>1, <1>2, <1>3, FS_Subset, ZenonT(30)
<1>7. ASSUME NEW j \in Sets, NEW m \in DOMAIN f[j], i < j \/ (i = j /\ k < m)
      PROVE  Cardinality(Before(f, i, k)) < Cardinality(Before(f, j, m))
  <2>1. i \in Int /\ j \in Int /\ k \in Int /\ m \in Int
    BY SeqShape, SMT, Z3, SMTT(20), Z3T(20) DEF Sets
  <2>2. <<i, k>> \in Before(f, j, m)
    BY <1>2, <1>7, <2>1, ZenonT(30) DEF Before
  <2>3. ASSUME NEW p \in Before(f, i, k) PROVE p \in Before(f, j, m)
    <3>1. p \in Places(f) /\ (p[1] < i \/ (p[1] = i /\ p[2] < k))
      BY <2>3, Zenon DEF Before
    <3>2. p[1] \in Int /\ p[2] \in Int
      <4>1. PICK h \in Sets : p \in {h} \X DOMAIN f[h]
        BY <3>1, Zenon DEF Places
      <4>2. DOMAIN f[h] = 1 .. Len(f[h])
        BY SeqShape, Zenon
      <4> QED
        BY <4>1, <4>2, SMT, Z3, SMTT(20), Z3T(20) DEF Sets
    <3> QED
      BY <1>7, <2>1, <3>1, <3>2, SMT, Z3, SMTT(20), Z3T(20) DEF Before
  <2>4. /\ Cardinality(Before(f, i, k)) <= Cardinality(Before(f, j, m))
        /\ Cardinality(Before(f, i, k)) # Cardinality(Before(f, j, m))
    <3>1. Before(f, i, k) \in SUBSET Before(f, j, m)
      BY <2>3, Zenon
    <3>2. Before(f, i, k) # Before(f, j, m)
      BY <1>2, <2>2, Zenon
    <3> QED
      BY <1>4, <3>1, <3>2, FS_Subset, Zenon
  <2> QED
    BY <1>5, <2>4, SMT, Z3, SMTT(20), Z3T(20)
<1> QED
  BY <1>5, <1>6, <1>7, SMT, Z3, SMTT(20), Z3T(20)

\* The facts that the lemmas above assume.
LEMMA CountingHolds == Counting
<1>1. ASSUME NEW f \in [Sets -> Seq(Body)] PROVE Cardinality(Places(f)) \in Nat
  BY PlacesFinite, FS_CardinalityType, Zenon
<1> QED
  BY <1>1, LeastExists, PlacesCounted, Zenon DEF Counting

-----------------------------------------------------------------------------
(* The theorems *)

\* IdInv is an invariant.
THEOREM IdInvariant == Spec => []IdInv
<1>1. Init => IdInv
  BY InitIds, CountingHolds, Zenon
<1>2. IdInv /\ [Next]_vars => IdInv'
  <2>1. SUFFICES ASSUME IdInv, [Next]_vars PROVE IdInv'
    BY Zenon
  <2>2. /\ rulesets' \in Books /\ idNext' \in 1 .. LastID - 1
        /\ IdsBelow(rulesets', idNext') /\ IdsDistinct(rulesets')
    BY <2>1, NextKeepsIds, Zenon
  <2>3. /\ implicit' \in Targets /\ condNow' \in BOOLEAN
        /\ files' \in [Sets -> Seq(Body)] /\ saveSet' \in 0 .. NumSets
        /\ saveOpen' \in BOOLEAN /\ reply' \in Replies
    BY <2>1, NextKeepsTypes, Zenon
  <2> QED
    BY <2>2, <2>3, CountingHolds, Zenon DEF IdInv, TypeOK, Books, IdsBelow, IdsDistinct
<1> QED
  BY <1>1, <1>2, PTL DEF Spec

\* The variables of the policy keep their types, and every rule ID stays below
\* the reserved ones, for every LastID.
THEOREM TypeCorrect == Spec => []TypeOK
<1>1. IdInv => TypeOK
  BY ZenonT(30) DEF IdInv
<1> QED
  BY <1>1, IdInvariant, PTL

\* No two rules of the policy ever have the same ID: RuleSet::assignID and the
\* order in which Daemon::loadRules constructs and loads the rule sets suffice,
\* whatever clients append, update or remove and whenever the daemon restarts.
THEOREM RuleIdsStayUnique == Spec => []RuleIdsUnique
<1>1. IdInv => RuleIdsUnique
  BY Zenon DEF IdInv, IdsDistinct, RuleIdsUnique
<1> QED
  BY <1>1, IdInvariant, PTL

\* What a save has passed is on disk, and of the file that it is writing the
\* first rules, if writing does not fail (Policy::save, FileRuleSet::save).
THEOREM SaveInvariant ==
  ASSUME WriteErrors = FALSE
  PROVE  Spec => []SaveInv
<1>1. Init => SaveInv
  <2>1. SUFFICES ASSUME Init PROVE SaveInv
    BY Zenon
  <2>2. \A j \in Sets : ~(j < saveSet)
    BY <2>1, SMT, Z3, SMTT(20), Z3T(20) DEF Init, Sets
  <2> QED
    BY <2>1, <2>2, Zenon DEF Init, NoReply, SaveInv
<1>2. IdInv /\ SaveInv /\ [Next]_vars => SaveInv'
  BY NextKeepsSave, Zenon
<1> QED
  BY <1>1, <1>2, IdInvariant, PTL DEF Spec

\* The policy and its rule files are a durable list of rules, for any number of
\* rule sets and rules and whenever the daemon dies, provided that writing to an
\* open rule file does not fail (FileRuleSet::save does not notice if it does).
THEOREM PolicyImplementsDurable ==
  ASSUME WriteErrors = FALSE
  PROVE  Spec => PolicyIsDurable
<1>1. Init => Durable!Init
  <2>1. SUFFICES ASSUME Init PROVE Durable!Init
    OBVIOUS
  <2>2. files \in [Sets -> Seq(Body)] /\ rulesets = LoadedRules /\ reply.st = "ok"
    BY <2>1, ConstantsAssumption, Zenon DEF Init, NoReply
  <2>3. files = [i \in Sets |-> BodiesOf(rulesets[i])]
    BY <2>2, LoadedBodies, Zenon
  <2> QED
    BY <2>2, <2>3, Zenon DEF Durable!Init
<1>2. IdInv /\ SaveInv /\ [Next]_vars => [Durable!Next]_Durable!vars
  <2>1. SUFFICES ASSUME IdInv, SaveInv, [Next]_vars
                 PROVE  Durable!Next \/ UNCHANGED Durable!vars
    BY Zenon
  <2>2. UNCHANGED <<rulesets, files, reply>> => UNCHANGED Durable!vars
    BY Zenon DEF Durable!vars
  <2> QED
    BY <2>1, <2>2, StepRefined, Zenon
<1> QED
  BY <1>1, <1>2, IdInvariant, SaveInvariant, PTL DEF Spec, PolicyIsDurable, Durable!Spec

\* An acknowledged permanent decision is what the policy says of the device,
\* with any number of devices, rules and rule sets, whatever else clients do and
\* whenever the daemon dies and is restarted, provided that RuleFile is
\* configured (Daemon::upsertRule saves only then) and that writing to an open
\* file does not fail (FileRuleSet::save does not notice).
THEOREM DecisionsHold ==
  ASSUME RuleFile = TRUE, WriteErrors = FALSE
  PROVE  Spec => []DecisionHolds
<1>1. Init => DecisionInv
  BY SMT, Z3, SMTT(20), Z3T(20) DEF Init, NoReply, DecisionInv
<1>2. IdInv /\ SaveInv /\ DecisionInv /\ [Next]_vars => DecisionInv'
  BY NextKeepsDecision, Zenon
<1>3. IdInv /\ DecisionInv => DecisionHolds
  <2>1. SUFFICES ASSUME IdInv, DecisionInv, reply.op = "upsert", reply.st = "ok"
                 PROVE  PolicyFirst(rulesets, reply.att).target = reply.target
    BY Zenon DEF DecisionHolds
  <2> DEFINE a == reply.att
             t == reply.target
  <2>2. a \in Attached /\ t \in Targets /\ rulesets \in Books
    BY <2>1, Zenon DEF IdInv, TypeOK, Replies, Books
  <2>3. Decides(rulesets, a, t)
    BY <2>1, Zenon DEF DecisionInv
  <2> HIDE DEF a, t
  <2>4. PolicyFirst(rulesets, a).target = t
    BY <2>2, <2>3, DecidesGivesTarget, CountingHolds, Zenon
  <2> QED
    BY <2>4, Zenon DEF a, t
<1> QED
  BY <1>1, <1>2, <1>3, IdInvariant, SaveInvariant, PTL DEF Spec
=============================================================================
