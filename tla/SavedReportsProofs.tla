------------------------- MODULE SavedReportsProofs -------------------------
(***************************************************************************)
(* Proof that the tables, joined along their keys, say exactly what the    *)
(* saved reports say, for every set of commands and reports, and that the  *)
(* report command shows it.                                                *)
(*                                                                         *)
(* SaveReport executes a list of statements whose rows refer to each other *)
(* through Go variables.  Read with a fact in place of each id, the list   *)
(* says the facts of its report; each step of a transaction moves one of   *)
(* them from what the list has still to say to what the rows say.  The     *)
(* queries of the report command follow the ids of the rows as the facts   *)
(* follow from each other, so they can be told from the facts; the one on  *)
(* keys also counts them, for which each key needs a row of its own.       *)
(***************************************************************************)
EXTENDS DatabaseProofs

(* What a sequence of statements says: the facts its rows state, given the *)
(* facts that the Go variables it uses stand for.                          *)

Names == Variables \cup {""}

\* The fact that the row of statement s states, where the Go variable v stands
\* for the fact E[v], and what the variables stand for after it.
FactOf(s, E) == Fact(s.table, s.value, [v \in s.uses |-> E[v]])
Update(E, s) == [v \in Names |-> IF v = s.sets THEN FactOf(s, E) ELSE E[v]]

\* From the environment E the statements q say the facts A and end in E2.
Says(q, E, A, E2) ==
    /\ \E S : q \in Seq(S)
    /\ \E e : /\ e[1] = E /\ e[Len(q) + 1] = E2
              /\ \A k \in 1..Len(q) : e[k + 1] = Update(e[k], q[k])
              /\ A = {FactOf(q[k], e[k]) : k \in 1..Len(q)}

LEMMA SaysIntro ==
    ASSUME NEW S, NEW q \in Seq(S), NEW e, \A k \in 1..Len(q) : e[k + 1] = Update(e[k], q[k])
    PROVE  Says(q, e[1], {FactOf(q[k], e[k]) : k \in 1..Len(q)}, e[Len(q) + 1])
BY Zenon DEF Says

LEMMA SaysNothing ==
    /\ \A E : Says(<<>>, E, {}, E)
    /\ \A E, A, E2 : Says(<<>>, E, A, E2) => A = {}
<1>1. <<>> \in Seq({}) /\ Len(<<>>) = 0 /\ 1..0 = {}
  OBVIOUS
<1>2. ASSUME NEW E PROVE Says(<<>>, E, {}, E)
  <2>1. PICK e : e = [k \in 1..1 |-> E]
    OBVIOUS
  <2>2. e[1] = E /\ e[Len(<<>>) + 1] = E
    BY <2>1, <1>1
  <2>3. {FactOf(<<>>[k], e[k]) : k \in 1..Len(<<>>)} = {}
    BY <1>1
  <2> QED
    BY <1>1, <2>2, <2>3 DEF Says
<1>3. ASSUME NEW E, NEW A, NEW E2, Says(<<>>, E, A, E2) PROVE A = {}
  BY <1>1, <1>3 DEF Says
<1> QED
  BY <1>2, <1>3

LEMMA SaysOne == \A s, E : Says(<<s>>, E, {FactOf(s, E)}, Update(E, s))
<1> TAKE s, E
<1>1. <<s>> \in Seq({s}) /\ Len(<<s>>) = 1 /\ <<s>>[1] = s /\ 1..1 = {1}
  OBVIOUS
<1>2. PICK e : e = [k \in 1..2 |-> IF k = 1 THEN E ELSE Update(E, s)]
  OBVIOUS
<1>3. e[1] = E /\ e[2] = Update(E, s)
  BY <1>2
<1>4. e[Len(<<s>>) + 1] = Update(E, s) /\ \A k \in 1..Len(<<s>>) : e[k + 1] = Update(e[k], <<s>>[k])
  BY <1>1, <1>3
<1>5. {FactOf(s, E)} = {FactOf(<<s>>[k], e[k]) : k \in 1..Len(<<s>>)}
  BY <1>1, <1>3
<1>6. Says(<<s>>, e[1], {FactOf(<<s>>[k], e[k]) : k \in 1..Len(<<s>>)}, e[Len(<<s>>) + 1])
  BY <1>1, <1>4, SaysIntro
<1> QED
  BY <1>3, <1>4, <1>5, <1>6, Zenon

\* One list of statements after another.
LEMMA SaysThen ==
    ASSUME NEW p, NEW q, NEW E, NEW A, NEW E1, NEW B, NEW E2, Says(p, E, A, E1), Says(q, E1, B, E2)
    PROVE  Says(p \o q, E, A \cup B, E2)
<1>1. PICK S : p \in Seq(S)
  BY DEF Says
<1>2. PICK T : q \in Seq(T)
  BY DEF Says
<1>3. PICK U : U = S \cup T
  OBVIOUS
<1>4. p \in Seq(U) /\ q \in Seq(U)
  BY <1>1, <1>2, <1>3, SeqMonotonic
<1>5. PICK r : r = p \o q
  OBVIOUS
<1>6. PICK m \in Nat, n \in Nat : m = Len(p) /\ n = Len(q)
  BY <1>4, LenProperties
<1>7. /\ r \in Seq(U) /\ Len(r) = m + n
      /\ \A i \in 1..(m + n) : r[i] = IF i <= m THEN p[i] ELSE q[i - m]
  BY <1>4, <1>5, <1>6, ConcatProperties
<1>8. PICK d : /\ d[1] = E /\ d[m + 1] = E1
               /\ \A k \in 1..m : d[k + 1] = Update(d[k], p[k])
               /\ A = {FactOf(p[k], d[k]) : k \in 1..m}
  BY <1>6 DEF Says
<1>9. PICK f : /\ f[1] = E1 /\ f[n + 1] = E2
               /\ \A k \in 1..n : f[k + 1] = Update(f[k], q[k])
               /\ B = {FactOf(q[k], f[k]) : k \in 1..n}
  BY <1>6 DEF Says
<1>10. PICK e : e = [k \in 1..(m + n + 1) |-> IF k <= m THEN d[k] ELSE f[k - m]]
  OBVIOUS
<1>11. \A k \in 1..(m + 1) : e[k] = d[k]
  <2> TAKE k \in 1..(m + 1)
  <2>1. CASE k <= m
    BY <1>6, <1>10, <2>1
  <2>2. CASE k = m + 1
    <3>1. k \in 1..(m + n + 1) /\ ~(k <= m) /\ k - m = 1
      BY <1>6, <2>2
    <3> QED
      BY <1>8, <1>9, <1>10, <2>2, <3>1
  <2> QED
    BY <1>6, <2>1, <2>2
<1>12. \A k \in 1..(n + 1) : e[k + m] = f[k]
  <2> TAKE k \in 1..(n + 1)
  <2>1. k + m \in 1..(m + n + 1) /\ ~(k + m <= m) /\ (k + m) - m = k
    BY <1>6
  <2> QED
    BY <1>10, <2>1
<1>13. \A k \in 1..m : r[k] = p[k] /\ k \in 1..(m + 1) /\ k + 1 \in 1..(m + 1)
  BY <1>6, <1>7
<1>14. \A k \in 1..n : r[k + m] = q[k] /\ k \in 1..(n + 1) /\ k + 1 \in 1..(n + 1) /\ (k + 1) + m = (k + m) + 1
  <2> TAKE k \in 1..n
  <2>1. k + m \in 1..(m + n) /\ ~(k + m <= m) /\ (k + m) - m = k
    BY <1>6
  <2> QED
    BY <1>6, <1>7, <2>1
<1>15. \A i \in 1..(m + n) : i \in 1..m \/ \E j \in 1..n : i = j + m
  <2> TAKE i \in 1..(m + n)
  <2>1. CASE i <= m
    BY <2>1, <1>6
  <2>2. CASE i > m
    <3>1. i - m \in 1..n /\ i = (i - m) + m
      BY <2>2, <1>6
    <3> QED
      BY <3>1
  <2> QED
    BY <2>1, <2>2, <1>6
<1>16. ASSUME NEW k \in 1..m PROVE e[k + 1] = Update(e[k], r[k]) /\ FactOf(r[k], e[k]) = FactOf(p[k], d[k])
  <2>1. e[k] = d[k] /\ e[k + 1] = d[k + 1] /\ r[k] = p[k]
    BY <1>11, <1>13
  <2> QED
    BY <2>1, <1>8
<1>17. ASSUME NEW k \in 1..n
       PROVE  e[(k + m) + 1] = Update(e[k + m], r[k + m]) /\ FactOf(r[k + m], e[k + m]) = FactOf(q[k], f[k])
  <2>1. e[k + m] = f[k] /\ e[(k + m) + 1] = f[k + 1] /\ r[k + m] = q[k]
    BY <1>12, <1>14
  <2> QED
    BY <2>1, <1>9
<1>18. e[1] = E /\ e[Len(r) + 1] = E2
  <2>1. 1 \in 1..(m + 1) /\ n + 1 \in 1..(n + 1) /\ Len(r) + 1 = (n + 1) + m
    BY <1>6, <1>7
  <2> QED
    BY <1>8, <1>9, <1>11, <1>12, <2>1
<1>19. \A k \in 1..Len(r) : e[k + 1] = Update(e[k], r[k])
  BY <1>7, <1>15, <1>16, <1>17
<1>20. \A k \in 1..m : k \in 1..(m + n)
  BY <1>6
<1>21. \A k \in 1..n : k + m \in 1..(m + n)
  BY <1>6
<1>22. A \cup B = {FactOf(r[k], e[k]) : k \in 1..(m + n)}
  <2>1. ASSUME NEW a \in A \cup B PROVE \E k \in 1..(m + n) : a = FactOf(r[k], e[k])
    <3>1. CASE a \in A
      <4>1. PICK k \in 1..m : a = FactOf(p[k], d[k])
        BY <1>8, <3>1
      <4> QED
        BY <4>1, <1>16, <1>20
    <3>2. CASE a \in B
      <4>1. PICK k \in 1..n : a = FactOf(q[k], f[k])
        BY <1>9, <3>2
      <4> QED
        BY <4>1, <1>17, <1>21
    <3> QED
      BY <3>1, <3>2
  <2>2. ASSUME NEW i \in 1..(m + n) PROVE FactOf(r[i], e[i]) \in A \cup B
    <3>1. CASE i \in 1..m
      BY <1>8, <1>16, <3>1
    <3>2. ASSUME NEW k \in 1..n, i = k + m PROVE FactOf(r[i], e[i]) \in A \cup B
      BY <1>9, <1>17, <3>2
    <3> QED
      BY <1>15, <3>1, <3>2
  <2> QED
    BY <2>1, <2>2
<1>23. Says(r, E, A \cup B, E2)
  <2>1. Says(r, e[1], {FactOf(r[k], e[k]) : k \in 1..Len(r)}, e[Len(r) + 1])
    BY <1>7, <1>19, SaysIntro
  <2> QED
    BY <2>1, <1>7, <1>18, <1>22
<1> QED
  BY <1>5, <1>23

\* The first statement, and the rest.
LEMMA SaysHead ==
    ASSUME NEW q, q # <<>>, NEW E, NEW A, NEW E2, Says(q, E, A, E2)
    PROVE  \E B : Says(Tail(q), Update(E, Head(q)), B, E2) /\ A = {FactOf(Head(q), E)} \cup B
<1>1. PICK S : q \in Seq(S)
  BY DEF Says
<1>2. PICK n \in Nat : n = Len(q) /\ n # 0
  BY <1>1, LenProperties, EmptySeq
<1>3. PICK t : t = Tail(q)
  OBVIOUS
<1>4. /\ Head(q) = q[1] /\ t \in Seq(S) /\ Len(t) = n - 1
      /\ \A i \in 1..(n - 1) : t[i] = q[i + 1]
  BY <1>1, <1>2, <1>3, HeadTailProperties
<1>5. PICK e : /\ e[1] = E /\ e[n + 1] = E2
               /\ \A k \in 1..n : e[k + 1] = Update(e[k], q[k])
               /\ A = {FactOf(q[k], e[k]) : k \in 1..n}
  BY <1>2 DEF Says
<1>6. PICK d : d = [k \in 1..n |-> e[k + 1]]
  OBVIOUS
<1>7. PICK B : B = {FactOf(t[k], d[k]) : k \in 1..(n - 1)}
  OBVIOUS
<1>8. \A k \in 1..(n - 1) : /\ k \in 1..n /\ k + 1 \in 1..n
                            /\ d[k] = e[k + 1] /\ d[k + 1] = e[(k + 1) + 1] /\ t[k] = q[k + 1]
  <2> TAKE k \in 1..(n - 1)
  <2>1. k \in 1..n /\ k + 1 \in 1..n
    BY <1>2
  <2> QED
    BY <2>1, <1>4, <1>6
<1>9. \A k \in 1..(n - 1) : d[k + 1] = Update(d[k], t[k])
  BY <1>5, <1>8
<1>10. d[1] = Update(E, Head(q)) /\ d[(n - 1) + 1] = E2
  <2>1. 1 \in 1..n /\ n \in 1..n /\ (n - 1) + 1 = n
    BY <1>2
  <2>2. d[1] = e[1 + 1] /\ d[n] = e[n + 1]
    BY <2>1, <1>6
  <2> QED
    BY <2>1, <2>2, <1>4, <1>5
<1>11. Says(t, Update(E, Head(q)), B, E2)
  <2>1. \A k \in 1..Len(t) : d[k + 1] = Update(d[k], t[k])
    BY <1>4, <1>9
  <2>2. Says(t, d[1], {FactOf(t[k], d[k]) : k \in 1..Len(t)}, d[Len(t) + 1])
    BY <1>4, <2>1, SaysIntro
  <2> QED
    BY <2>2, <1>4, <1>7, <1>10
<1>12. A = {FactOf(Head(q), E)} \cup B
  <2>1. ASSUME NEW a \in A PROVE a \in {FactOf(Head(q), E)} \cup B
    <3>1. PICK k \in 1..n : a = FactOf(q[k], e[k])
      BY <1>5
    <3>2. CASE k = 1
      BY <1>4, <1>5, <3>1, <3>2
    <3>3. CASE k # 1
      <4>1. k - 1 \in 1..(n - 1) /\ (k - 1) + 1 = k
        BY <1>2, <3>3
      <4>2. d[k - 1] = e[k] /\ t[k - 1] = q[k]
        BY <1>8, <4>1
      <4> QED
        BY <1>7, <3>1, <4>1, <4>2
    <3> QED
      BY <3>2, <3>3
  <2>2. FactOf(Head(q), E) \in A
    <3>1. 1 \in 1..n
      BY <1>2
    <3> QED
      BY <3>1, <1>4, <1>5
  <2>3. B \subseteq A
    BY <1>5, <1>7, <1>8
  <2> QED
    BY <2>1, <2>2, <2>3
<1> QED
  BY <1>3, <1>11, <1>12

-----------------------------------------------------------------------------
\* Only some variables matter to a statement: E says what these stand for, and
\* With(E, x, f) that the variable x stands for f too.
Agree(E0, E) == \A v \in DOMAIN E : E0[v] = E[v]
With(E, x, f) == [v \in DOMAIN E \cup {x} |-> IF v = x THEN f ELSE E[v]]

\* From any environment that agrees with E, the statements q say the facts A
\* and end in one that agrees with F.
Tells(q, E, A, F) ==
    \A E0 : Agree(E0, E) => \E E2 : Says(q, E0, A, E2) /\ Agree(E2, F)

LEMMA TellsNothing == \A E : Tells(<<>>, E, {}, E)
BY SaysNothing DEF Tells

LEMMA TellsOne ==
    ASSUME NEW s, NEW E, s.uses \subseteq DOMAIN E, DOMAIN E \subseteq Names,
           s.sets \in Names \ DOMAIN E
    PROVE  Tells(<<s>>, E, {FactOf(s, E)}, With(E, s.sets, FactOf(s, E)))
<1> SUFFICES ASSUME NEW E0, Agree(E0, E)
             PROVE  \E E2 : Says(<<s>>, E0, {FactOf(s, E)}, E2) /\ Agree(E2, With(E, s.sets, FactOf(s, E)))
  BY DEF Tells
<1>1. FactOf(s, E0) = FactOf(s, E)
  <2>1. \A v \in s.uses : E0[v] = E[v]
    BY DEF Agree
  <2>2. [v \in s.uses |-> E0[v]] = [v \in s.uses |-> E[v]]
    BY <2>1
  <2> QED
    BY <2>2 DEF FactOf
<1>2. Says(<<s>>, E0, {FactOf(s, E)}, Update(E0, s))
  BY <1>1, SaysOne
<1>3. PICK f : f = FactOf(s, E)
  OBVIOUS
<1>4. Update(E0, s) = [v \in Names |-> IF v = s.sets THEN f ELSE E0[v]]
  BY <1>1, <1>3, Zenon DEF Update
<1>5. Agree(Update(E0, s), With(E, s.sets, f))
  <2>1. DOMAIN With(E, s.sets, f) = DOMAIN E \cup {s.sets}
    BY DEF With
  <2>2. ASSUME NEW v \in DOMAIN E \cup {s.sets} PROVE Update(E0, s)[v] = With(E, s.sets, f)[v]
    <3>1. v \in Names
      OBVIOUS
    <3>2. CASE v = s.sets
      BY <1>4, <3>1, <3>2 DEF With
    <3>3. CASE v # s.sets
      BY <1>4, <3>1, <3>3 DEF With, Agree
    <3> QED
      BY <3>2, <3>3
  <2> QED
    BY <2>1, <2>2 DEF Agree
<1> QED
  BY <1>2, <1>3, <1>5

LEMMA TellsThen ==
    ASSUME NEW p, NEW q, NEW E, NEW F, NEW G, NEW A, NEW B, Tells(p, E, A, F), Tells(q, F, B, G)
    PROVE  Tells(p \o q, E, A \cup B, G)
<1> SUFFICES ASSUME NEW E0, Agree(E0, E)
             PROVE  \E E2 : Says(p \o q, E0, A \cup B, E2) /\ Agree(E2, G)
  BY DEF Tells
<1>1. PICK E1 : Says(p, E0, A, E1) /\ Agree(E1, F)
  BY DEF Tells
<1>2. PICK E2 : Says(q, E1, B, E2) /\ Agree(E2, G)
  BY <1>1 DEF Tells
<1>3. Says(p \o q, E0, A \cup B, E2)
  BY <1>1, <1>2, SaysThen
<1> QED
  BY <1>2, <1>3

\* What was set in between is forgotten.
LEMMA TellsLess ==
    ASSUME NEW q, NEW E, NEW F, NEW A, NEW x, x \notin DOMAIN F, NEW f, Tells(q, E, A, With(F, x, f))
    PROVE  Tells(q, E, A, F)
<1>1. ASSUME NEW E2, Agree(E2, With(F, x, f)) PROVE Agree(E2, F)
  <2>1. \A v \in DOMAIN F : v \in DOMAIN With(F, x, f) /\ With(F, x, f)[v] = F[v]
    BY DEF With
  <2> QED
    BY <1>1, <2>1 DEF Agree
<1> QED
  BY <1>1 DEF Tells

\* A loop over a slice: the statements of each element leave the variables set
\* before the loop as they are.
LEMMA TellsEach ==
    ASSUME NEW E, NEW seq, Slice(seq), NEW F, F = [i \in DOMAIN seq |-> F[i]], NEW A,
           \A i \in DOMAIN seq : Tells(F[i], E, A[seq[i]], E),
           NEW U, U = UNION {A[x] : x \in ToSet(seq)}
    PROVE  Tells(FlattenSeq(F), E, U, E)
<1>1. PICK n \in Nat : n = Len(seq) /\ DOMAIN seq = 1..n
  BY LenProperties DEF Slice
<1>2. Len(F) = n
  BY <1>1
<1>3. ToSet(seq) = {seq[i] : i \in 1..n}
  BY <1>1 DEF ToSet
<1>4. CASE n = 0
  <2>1. F = <<>> /\ ToSet(seq) = {}
    BY <1>1, <1>3, <1>4
  <2>2. FlattenSeq(F) = F
    BY <1>2, <1>4 DEF FlattenSeq
  <2>3. U = {}
    BY <2>1
  <2>4. Tells(<<>>, E, {}, E)
    BY TellsNothing
  <2> QED
    BY <2>1, <2>2, <2>3, <2>4, Zenon
<1>5. CASE n # 0
  <2>1. PICK f : Flat(F, f, n) /\ FlattenSeq(F) = f[n]
    BY <1>1, <1>2, <1>5, Flattened
  <2>2. \A i \in 1..n : f[i] = IF i = 1 THEN F[i] ELSE f[i - 1] \o F[i]
    BY <2>1 DEF Flat
  <2>3. PICK C : C = [i \in Nat |-> UNION {A[seq[j]] : j \in 1..i}]
    OBVIOUS
  <2> DEFINE T == {i \in Nat : i \in 1..n /\ ~Tells(f[i], E, C[i], E)}
  <2>4. T = {}
    <3> SUFFICES ASSUME T # {} PROVE FALSE
      OBVIOUS
    <3>1. PICK i \in T : \A j \in T : i <= j
      BY LeastNumber
    <3>2. i \in 1..n /\ ~Tells(f[i], E, C[i], E)
      BY <3>1
    <3>3. Tells(F[i], E, A[seq[i]], E)
      BY <1>1, <3>2
    <3>4. i # 1
      <4> SUFFICES ASSUME i = 1 PROVE FALSE
        OBVIOUS
      <4>1. C[1] = UNION {A[seq[j]] : j \in 1..1}
        BY <2>3
      <4>2. C[1] = A[seq[1]]
        BY <4>1
      <4>3. f[1] = F[1]
        BY <2>2, <3>2
      <4> QED
        BY <3>2, <3>3, <4>2, <4>3
    <3>5. i - 1 \in Nat /\ i - 1 \in 1..n /\ i - 1 \notin T
      BY <3>1, <3>2, <3>4
    <3>6. Tells(f[i - 1], E, C[i - 1], E)
      BY <3>5
    <3>7. C[i] = C[i - 1] \cup A[seq[i]]
      <4>1. 1..i = 1..(i - 1) \cup {i}
        BY <3>2
      <4>2. C[i] = UNION {A[seq[j]] : j \in 1..i} /\ C[i - 1] = UNION {A[seq[j]] : j \in 1..(i - 1)}
        BY <2>3, <3>5
      <4> QED
        BY <4>1, <4>2
    <3>8. Tells(f[i - 1] \o F[i], E, C[i - 1] \cup A[seq[i]], E)
      BY <3>3, <3>6, TellsThen
    <3> QED
      BY <2>2, <3>2, <3>4, <3>7, <3>8
  <2>5. Tells(f[n], E, C[n], E)
    BY <1>1, <1>5, <2>4
  <2>6. C[n] = U
    <3>1. C[n] = UNION {A[seq[j]] : j \in 1..n}
      BY <2>3
    <3> QED
      BY <3>1, <1>3
  <2> QED
    BY <2>1, <2>5, <2>6
<1> QED
  BY <1>4, <1>5

-----------------------------------------------------------------------------
(* The statements of a report say its facts, from the ciphers of a suite   *)
(* up to the hosts of the report.                                          *)

\* The database keeps the values of the facts A as they are.
Kept(A) == \A f \in A : Stored(f.table, f.value) = f.value

LEMMA FactFields == \A t, v, o : Fact(t, v, o).table = t /\ Fact(t, v, o).value = v /\ Fact(t, v, o).of = o
BY DEF Fact

\* The foreign keys of the tables, spelled out.
LEMMA KeysOf ==
    /\ \A E : [v \in {} |-> E[v]] = [v \in {} |-> 0]
    /\ \A E : [v \in {"depID"} |-> E[v]] = [depID |-> E["depID"]]
    /\ \A E : [v \in {"hostID"} |-> E[v]] = [hostID |-> E["hostID"]]
    /\ \A E : [v \in {"processID"} |-> E[v]] = [processID |-> E["processID"]]
    /\ \A E : [v \in {"portID"} |-> E[v]] = [portID |-> E["portID"]]
    /\ \A E : [v \in {"fileID", "contentID"} |-> E[v]] = [fileID |-> E["fileID"], contentID |-> E["contentID"]]
    /\ \A E : [v \in {"fileID", "pathID", "contentID"} |-> E[v]] =
              [fileID |-> E["fileID"], contentID |-> E["contentID"], pathID |-> E["pathID"]]
    /\ \A E : [v \in {"certID", "suiteID", "cipherID"} |-> E[v]] =
              [certID |-> E["certID"], suiteID |-> E["suiteID"], cipherID |-> E["cipherID"]]
<1>1. \A E : [v \in {} |-> E[v]] = [v \in {} |-> 0]
  OBVIOUS
<1>2. \A E : [v \in {"depID"} |-> E[v]] = [depID |-> E["depID"]]
  OBVIOUS
<1>3. \A E : [v \in {"hostID"} |-> E[v]] = [hostID |-> E["hostID"]]
  OBVIOUS
<1>4. \A E : [v \in {"processID"} |-> E[v]] = [processID |-> E["processID"]]
  OBVIOUS
<1>5. \A E : [v \in {"portID"} |-> E[v]] = [portID |-> E["portID"]]
  OBVIOUS
<1>6. \A E : [v \in {"fileID", "contentID"} |-> E[v]] = [fileID |-> E["fileID"], contentID |-> E["contentID"]]
  OBVIOUS
<1>7. \A E : [v \in {"fileID", "pathID", "contentID"} |-> E[v]] =
              [fileID |-> E["fileID"], contentID |-> E["contentID"], pathID |-> E["pathID"]]
  OBVIOUS
<1>8. \A E : [v \in {"certID", "suiteID", "cipherID"} |-> E[v]] =
              [certID |-> E["certID"], suiteID |-> E["suiteID"], cipherID |-> E["cipherID"]]
  OBVIOUS
<1> QED
  BY <1>1, <1>2, <1>3, <1>4, <1>5, <1>6, <1>7, <1>8

\* An insert, and a lookup, say one fact, and set one variable to it.
LEMMA TellsStatement ==
    ASSUME NEW E, DOMAIN E \subseteq Names, NEW t, NEW v, NEW u, u \subseteq DOMAIN E,
           NEW x, x \in Names \ DOMAIN E, NEW o, o = [n \in u |-> E[n]],
           NEW A, Fact(t, v, o) \in A, Kept(A)
    PROVE  /\ Tells(insert(t, v, u, x), E, {Fact(t, v, o)}, With(E, x, Fact(t, v, o)))
           /\ Tells(getIndexOrInsert(t, v, u, x), E, {Fact(t, v, o)}, With(E, x, Fact(t, v, o)))
<1>1. Stored(t, v) = v
  BY FactFields DEF Kept
<1>2. ASSUME NEW b PROVE Tells(statement(t, v, u, x, b), E, {Fact(t, v, o)}, With(E, x, Fact(t, v, o)))
  <2>1. PICK s : s = [table |-> t, value |-> Stored(t, v), uses |-> u, sets |-> x, lookup |-> b]
    OBVIOUS
  <2>2. s.table = t /\ s.value = v /\ s.uses = u /\ s.sets = x
    BY <1>1, <2>1
  <2>3. FactOf(s, E) = Fact(t, v, o)
    BY <2>2 DEF FactOf
  <2>4. Tells(<<s>>, E, {FactOf(s, E)}, With(E, s.sets, FactOf(s, E)))
    BY <2>2, TellsOne, Zenon
  <2>5. statement(t, v, u, x, b) = <<s>>
    BY <2>1, Zenon DEF statement
  <2> QED
    BY <2>2, <2>3, <2>4, <2>5, Zenon
<1> QED
  BY <1>2, Zenon DEF insert, getIndexOrInsert

\* What the pieces of a report say, each of the row it hangs on.
CipherFacts(cert, u, x) ==
    {Plain("tls_ciphers", x),
     Fact("certificate_to_ciphersuite", "",
          [certID |-> cert, suiteID |-> Plain("tls_suites", u), cipherID |-> Plain("tls_ciphers", x)])}

SuiteFacts(cert, c) ==
    IF c.ciphers = <<>> THEN {}
    ELSE {Plain("tls_suites", c.suite)} \cup UNION {CipherFacts(cert, c.suite, x) : x \in ToSet(c.ciphers)}

LEMMA KeptPart == \A A, B : A \subseteq B /\ Kept(B) => Kept(A)
BY DEF Kept

LEMMA NamesAre == Names = {"depID", "hostID", "processID", "portID", "certID", "suiteID", "cipherID",
                           "fileID", "contentID", "pathID", ""}
BY VariableTables DEF Names

LEMMA TellsCiphers ==
    ASSUME NEW E, DOMAIN E = {"depID", "hostID", "processID", "portID", "certID"},
           NEW c, Slice(c.ciphers), Kept(SuiteFacts(E["certID"], c))
    PROVE  Tells(Ciphers(c), E, SuiteFacts(E["certID"], c), E)
<1>1. CASE c.ciphers = <<>>
  BY <1>1, TellsNothing DEF Ciphers, SuiteFacts
<1>2. CASE c.ciphers # <<>>
  <2> DEFINE first == getIndexOrInsert("tls_suites", c.suite, {}, "suiteID")
             look(x) == getIndexOrInsert("tls_ciphers", x, {}, "cipherID")
             pair == insert("certificate_to_ciphersuite", "", {"certID", "suiteID", "cipherID"}, "")
             F == [i \in DOMAIN c.ciphers |-> look(c.ciphers[i]) \o pair]
  <2>1. PICK cert, suite : cert = E["certID"] /\ suite = Plain("tls_suites", c.suite)
    OBVIOUS
  <2>2. PICK A : A = [x \in ToSet(c.ciphers) |-> CipherFacts(cert, c.suite, x)]
    OBVIOUS
  <2>3. PICK B : B = SuiteFacts(cert, c)
    OBVIOUS
  <2>4. B = {suite} \cup UNION {A[x] : x \in ToSet(c.ciphers)} /\ Kept(B)
    BY <1>2, <2>1, <2>2, <2>3 DEF SuiteFacts
  <2>5. PICK E2 : E2 = With(E, "suiteID", suite)
    OBVIOUS
  <2>6. /\ DOMAIN E2 = {"depID", "hostID", "processID", "portID", "certID", "suiteID"}
        /\ E2["certID"] = cert /\ E2["suiteID"] = suite
    <3>1. "certID" \in DOMAIN E /\ "certID" # "suiteID"
      OBVIOUS
    <3>2. DOMAIN E2 = DOMAIN E \cup {"suiteID"} /\ E2["certID"] = E["certID"] /\ E2["suiteID"] = suite
      BY <2>5, <3>1 DEF With
    <3> QED
      BY <2>1, <3>2
  <2>7. Tells(first, E, {suite}, E2)
    <3>1. /\ suite = Fact("tls_suites", c.suite, [v \in {} |-> 0]) /\ suite \in B
          /\ [v \in {} |-> 0] = [v \in {} |-> E[v]]
      BY <2>1, <2>4 DEF Plain
    <3>2. DOMAIN E \subseteq Names /\ "suiteID" \in Names \ DOMAIN E
      BY NamesAre
    <3> QED
      BY <3>1, <3>2, <2>4, <2>5, TellsStatement, Zenon
  <2>8. ASSUME NEW x \in ToSet(c.ciphers) PROVE Tells(look(x) \o pair, E2, A[x], E2)
    <3>1. PICK f, g : /\ f = Plain("tls_ciphers", x)
                      /\ g = Fact("certificate_to_ciphersuite", "",
                                  [certID |-> cert, suiteID |-> suite, cipherID |-> f])
      OBVIOUS
    <3>2. A[x] = {f, g} /\ {f, g} \subseteq B
      BY <2>1, <2>2, <2>4, <3>1 DEF CipherFacts
    <3>3. PICK E3 : E3 = With(E2, "cipherID", f)
      OBVIOUS
    <3>4. /\ DOMAIN E3 = {"depID", "hostID", "processID", "portID", "certID", "suiteID", "cipherID"}
          /\ E3["certID"] = cert /\ E3["suiteID"] = suite /\ E3["cipherID"] = f
      <4>1. {"certID", "suiteID"} \subseteq DOMAIN E2 /\ "certID" # "cipherID" /\ "suiteID" # "cipherID"
        BY <2>6
      <4>2. /\ DOMAIN E3 = DOMAIN E2 \cup {"cipherID"} /\ E3["cipherID"] = f
            /\ \A v \in DOMAIN E2 : v # "cipherID" => E3[v] = E2[v]
        BY <3>3 DEF With
      <4> QED
        BY <2>6, <4>1, <4>2
    <3>5. Tells(look(x), E2, {f}, E3)
      <4>1. f = Fact("tls_ciphers", x, [v \in {} |-> 0]) /\ [v \in {} |-> 0] = [v \in {} |-> E2[v]]
        BY <3>1 DEF Plain
      <4>2. DOMAIN E2 \subseteq Names /\ "cipherID" \in Names \ DOMAIN E2 /\ {} \subseteq DOMAIN E2
        BY <2>6, NamesAre
      <4> QED
        BY <4>1, <4>2, <2>4, <3>2, <3>3, TellsStatement, Zenon
    <3>6. Tells(pair, E3, {g}, With(E3, "", g))
      <4>1. [certID |-> cert, suiteID |-> suite, cipherID |-> f] =
            [v \in {"certID", "suiteID", "cipherID"} |-> E3[v]]
        BY <3>4, KeysOf
      <4>2. /\ DOMAIN E3 \subseteq Names /\ "" \in Names \ DOMAIN E3
            /\ {"certID", "suiteID", "cipherID"} \subseteq DOMAIN E3
        BY <3>4, NamesAre
      <4> QED
        BY <4>1, <4>2, <2>4, <3>1, <3>2, TellsStatement, Zenon
    <3>7. Tells(pair, E3, {g}, E2)
      <4> HIDE DEF pair
      <4>1. Tells(pair, E3, {g}, E3)
        BY <3>4, <3>6, TellsLess
      <4> QED
        BY <4>1, <2>6, <3>3, TellsLess
    <3>8. Tells(look(x) \o pair, E2, {f} \cup {g}, E2)
      <4> HIDE DEF look, pair
      <4> QED
        BY <3>5, <3>7, TellsThen
    <3> QED
      <4>1. {f} \cup {g} = A[x]
        BY <3>2
      <4> HIDE DEF look, pair
      <4> QED
        BY <3>8, <4>1
  <2>9. Tells(FlattenSeq(F), E2, UNION {A[x] : x \in ToSet(c.ciphers)}, E2)
    <3> HIDE DEF look, pair, first
    <3>1. \A i \in DOMAIN c.ciphers : c.ciphers[i] \in ToSet(c.ciphers)
      BY DEF ToSet
    <3>2. F = [i \in DOMAIN c.ciphers |-> F[i]] /\ \A i \in DOMAIN c.ciphers : Tells(F[i], E2, A[c.ciphers[i]], E2)
      BY <2>8, <3>1
    <3> HIDE DEF F
    <3> QED
      BY <3>2, TellsEach
  <2>10. Tells(FlattenSeq(F), E2, UNION {A[x] : x \in ToSet(c.ciphers)}, E)
    <3> HIDE DEF F
    <3> QED
      BY <2>5, <2>9, TellsLess
  <2>11. Tells(first \o FlattenSeq(F), E, B, E)
    <3> HIDE DEF F, first
    <3> QED
      BY <2>4, <2>7, <2>10, TellsThen
  <2>12. Ciphers(c) = first \o FlattenSeq(F)
    BY <1>2 DEF Ciphers, ForEach
  <2> QED
    <3> HIDE DEF F, first
    <3> QED
      BY <2>1, <2>3, <2>11, <2>12
<1> QED
  BY <1>1, <1>2

\* What TLSFacts says of a pair of suite and cipher; together the pairs say what
\* the suites say, one after the other.
PairFacts(cert, p) ==
    {Plain("tls_suites", p[1].suite), Plain("tls_ciphers", p[2]),
     Fact("certificate_to_ciphersuite", "",
          [certID |-> cert, suiteID |-> Plain("tls_suites", p[1].suite),
           cipherID |-> Plain("tls_ciphers", p[2])])}

LEMMA SuitesSay ==
    ASSUME NEW cert, NEW S, \A c \in S : Slice(c.ciphers)
    PROVE  UNION {SuiteFacts(cert, c) : c \in S} =
           UNION {PairFacts(cert, p) : p \in UNION {{c} \X ToSet(c.ciphers) : c \in S}}
<1> DEFINE pairs == UNION {{c} \X ToSet(c.ciphers) : c \in S}
<1>1. ASSUME NEW c, NEW x
      PROVE  PairFacts(cert, <<c, x>>) = {Plain("tls_suites", c.suite)} \cup CipherFacts(cert, c.suite, x)
  BY DEF PairFacts, CipherFacts
<1>2. ASSUME NEW c \in S, NEW f \in SuiteFacts(cert, c)
      PROVE  \E p \in pairs : f \in PairFacts(cert, p)
  <2>1. /\ c.ciphers # <<>>
        /\ f = Plain("tls_suites", c.suite) \/ \E x \in ToSet(c.ciphers) : f \in CipherFacts(cert, c.suite, x)
    BY <1>2 DEF SuiteFacts
  <2>2. PICK x \in ToSet(c.ciphers) : f = Plain("tls_suites", c.suite) \/ f \in CipherFacts(cert, c.suite, x)
    <3>1. PICK n \in Nat : n = Len(c.ciphers) /\ DOMAIN c.ciphers = 1..n
      BY LenProperties DEF Slice
    <3>2. n # 0
      BY <2>1, <3>1, EmptySeq DEF Slice
    <3>3. 1 \in DOMAIN c.ciphers
      BY <3>1, <3>2
    <3>4. c.ciphers[1] \in ToSet(c.ciphers)
      BY <3>3 DEF ToSet
    <3> QED
      BY <2>1, <3>4
  <2>3. <<c, x>> \in pairs
    <3>1. <<c, x>> \in {c} \X ToSet(c.ciphers)
      OBVIOUS
    <3> QED
      BY <3>1, Zenon
  <2>4. f \in PairFacts(cert, <<c, x>>)
    BY <1>1, <2>2
  <2> QED
    BY <2>3, <2>4
<1>3. ASSUME NEW p \in pairs, NEW f \in PairFacts(cert, p)
      PROVE  \E c \in S : f \in SuiteFacts(cert, c)
  <2>1. PICK c \in S : p \in {c} \X ToSet(c.ciphers)
    BY Zenon
  <2>2. PICK x \in ToSet(c.ciphers) : p = <<c, x>>
    BY <2>1
  <2>3. c.ciphers # <<>>
    BY <2>2 DEF ToSet
  <2>4. f \in {Plain("tls_suites", c.suite)} \cup CipherFacts(cert, c.suite, x)
    BY <1>1, <1>3, <2>2
  <2>5. f \in SuiteFacts(cert, c)
    BY <2>3, <2>4 DEF SuiteFacts
  <2> QED
    BY <2>5
<1> HIDE DEF pairs
<1>4. UNION {SuiteFacts(cert, c) : c \in S} = UNION {PairFacts(cert, p) : p \in pairs}
  BY <1>2, <1>3
<1> QED
  BY <1>4 DEF pairs

\* The two halves of TLSFacts.
ErrorFacts(port, t) == {Fact("tls_scan_errors", e, [portID |-> port]) : e \in {t.error} \ {""}}
CertFact(port, t) == Fact("tls_certificates", t.cert, [portID |-> port])
CertFacts(port, t) ==
    IF t.cert = "" THEN {}
    ELSE {CertFact(port, t)} \cup UNION {SuiteFacts(CertFact(port, t), c) : c \in ToSet(t.suites)}

LEMMA TLSSays ==
    ASSUME NEW port, NEW t, \A u \in ToSet(t.suites) : Slice(u.ciphers)
    PROVE  TLSFacts(port, t) = ErrorFacts(port, t) \cup CertFacts(port, t)
<1>1. PICK cert : cert = CertFact(port, t)
  OBVIOUS
<1>2. PICK P : P = UNION {{c} \X ToSet(c.ciphers) : c \in ToSet(t.suites)}
  OBVIOUS
<1>3. TLSFacts(port, t) =
         ErrorFacts(port, t) \cup
         (IF t.cert = "" THEN {} ELSE {cert} \cup UNION {PairFacts(cert, p) : p \in P})
  BY <1>1, <1>2, Zenon DEF TLSFacts, ErrorFacts, CertFact, PairFacts
<1>4. UNION {SuiteFacts(cert, c) : c \in ToSet(t.suites)} = UNION {PairFacts(cert, p) : p \in P}
  BY <1>2, SuitesSay
<1> QED
  BY <1>1, <1>3, <1>4, Zenon DEF CertFacts

LEMMA TellsTLS ==
    ASSUME NEW E, DOMAIN E = {"depID", "hostID", "processID", "portID"},
           NEW t, Slice(t.suites), \A u \in ToSet(t.suites) : Slice(u.ciphers),
           Kept(TLSFacts(E["portID"], t))
    PROVE  Tells(TLS(t), E, TLSFacts(E["portID"], t), E)
<1> DEFINE error == insert("tls_scan_errors", t.error, {"portID"}, "")
           cert == insert("tls_certificates", t.cert, {"portID"}, "certID")
           F == [i \in DOMAIN t.suites |-> Ciphers(t.suites[i])]
<1>1. PICK port, X, Y : port = E["portID"] /\ X = ErrorFacts(port, t) /\ Y = CertFacts(port, t)
  OBVIOUS
<1>2. TLSFacts(port, t) = X \cup Y
  BY <1>1, TLSSays
<1>3. Kept(X) /\ Kept(Y)
  BY <1>1, <1>2, KeptPart, Zenon
<1>4. [portID |-> port] = [v \in {"portID"} |-> E[v]]
  BY <1>1
<1>5. DOMAIN E \subseteq Names /\ {"portID"} \subseteq DOMAIN E /\ "" \in Names \ DOMAIN E /\ "certID" \in Names \ DOMAIN E
  BY NamesAre
<1>6. PICK p, q : /\ p = IF t.error = "" THEN <<>> ELSE error
                  /\ q = IF t.cert = "" THEN <<>> ELSE cert \o FlattenSeq(F)
  OBVIOUS
<1>7. Tells(p, E, X, E)
  <2>1. CASE t.error = ""
    <3>1. X = {}
      BY <1>1, <2>1 DEF ErrorFacts
    <3> QED
      BY <1>6, <2>1, <3>1, TellsNothing
  <2>2. CASE t.error # ""
    <3>1. PICK f : f = Fact("tls_scan_errors", t.error, [portID |-> port])
      OBVIOUS
    <3>2. X = {f} /\ f \in X
      BY <1>1, <2>2, <3>1 DEF ErrorFacts
    <3>3. Tells(error, E, {f}, With(E, "", f))
      BY <1>3, <1>4, <1>5, <3>1, <3>2, TellsStatement, Zenon
    <3>4. Tells(error, E, {f}, E)
      <4> HIDE DEF error
      <4> QED
        BY <1>5, <3>3, TellsLess
    <3> QED
      <4> HIDE DEF error
      <4> QED
        BY <1>6, <2>2, <3>2, <3>4
  <2> QED
    BY <2>1, <2>2
<1>8. Tells(q, E, Y, E)
  <2>1. CASE t.cert = ""
    BY <1>1, <1>6, <2>1, TellsNothing DEF CertFacts
  <2>2. CASE t.cert # ""
    <3>1. PICK f : f = CertFact(port, t)
      OBVIOUS
    <3>2. PICK A : A = [c \in ToSet(t.suites) |-> SuiteFacts(f, c)]
      OBVIOUS
    <3>3. Y = {f} \cup UNION {A[c] : c \in ToSet(t.suites)}
      BY <1>1, <2>2, <3>1, <3>2 DEF CertFacts
    <3>4. PICK E2 : E2 = With(E, "certID", f)
      OBVIOUS
    <3>5. DOMAIN E2 = {"depID", "hostID", "processID", "portID", "certID"} /\ E2["certID"] = f
      BY <3>4 DEF With
    <3>6. Tells(cert, E, {f}, E2)
      <4>1. f \in Y /\ f = Fact("tls_certificates", t.cert, [portID |-> port])
        BY <3>1, <3>3 DEF CertFact
      <4> QED
        BY <1>3, <1>4, <1>5, <3>4, <4>1, TellsStatement, Zenon
    <3>7. ASSUME NEW c \in ToSet(t.suites) PROVE Tells(Ciphers(c), E2, A[c], E2)
      <4>1. A[c] = SuiteFacts(E2["certID"], c) /\ A[c] \subseteq Y
        BY <3>2, <3>3, <3>5
      <4>2. Kept(SuiteFacts(E2["certID"], c))
        BY <4>1, <1>3, KeptPart
      <4> QED
        BY <3>5, <4>1, <4>2, TellsCiphers
    <3>8. Tells(FlattenSeq(F), E2, UNION {A[c] : c \in ToSet(t.suites)}, E2)
      <4>1. \A i \in DOMAIN t.suites : t.suites[i] \in ToSet(t.suites)
        BY DEF ToSet
      <4>2. F = [i \in DOMAIN t.suites |-> F[i]] /\ \A i \in DOMAIN t.suites : Tells(F[i], E2, A[t.suites[i]], E2)
        BY <3>7, <4>1
      <4> HIDE DEF F
      <4> QED
        BY <4>2, TellsEach
    <3> HIDE DEF F, cert
    <3>9. Tells(FlattenSeq(F), E2, UNION {A[c] : c \in ToSet(t.suites)}, E)
      BY <1>5, <3>4, <3>8, TellsLess
    <3>10. Tells(cert \o FlattenSeq(F), E, Y, E)
      BY <3>3, <3>6, <3>9, TellsThen
    <3> QED
      BY <1>6, <2>2, <3>10
  <2> QED
    BY <2>1, <2>2
<1>9. TLS(t) = p \o q
  BY <1>6 DEF TLS, ForEach
<1>10. Tells(p \o q, E, X \cup Y, E)
  BY <1>7, <1>8, TellsThen
<1> QED
  BY <1>1, <1>2, <1>9, <1>10, Zenon

LEMMA TellsPort ==
    ASSUME NEW r, NEW h, NEW s, NEW E, DOMAIN E = {"depID", "hostID", "processID"},
           E["processID"] = ServiceFact(r, h, s), NEW p,
           p.tls # NoTLS => /\ Slice(p.tls.suites)
                            /\ \A u \in ToSet(p.tls.suites) : Slice(u.ciphers),
           NEW A, A = {PortFact(r, h, s, p)} \cup
                      (IF p.tls = NoTLS THEN {} ELSE TLSFacts(PortFact(r, h, s, p), p.tls)),
           Kept(A)
    PROVE  Tells(Port(p), E, A, E)
<1> DEFINE port == insert("ports", p.number, {"processID"}, "portID")
<1>1. PICK f : f = PortFact(r, h, s, p)
  OBVIOUS
<1>2. PICK E2 : E2 = With(E, "portID", f)
  OBVIOUS
<1>3. DOMAIN E2 = {"depID", "hostID", "processID", "portID"} /\ E2["portID"] = f
  BY <1>2 DEF With
<1>4. Tells(port, E, {f}, E2)
  <2>1. f = Fact("ports", p.number, [processID |-> E["processID"]]) /\ f \in A
    BY <1>1 DEF PortFact
  <2>2. [processID |-> E["processID"]] = [v \in {"processID"} |-> E[v]]
    BY KeysOf
  <2>3. DOMAIN E \subseteq Names /\ "portID" \in Names \ DOMAIN E /\ {"processID"} \subseteq DOMAIN E
    BY NamesAre
  <2> QED
    BY <1>2, <2>1, <2>2, <2>3, TellsStatement, Zenon
<1>5. PICK q, B : /\ q = IF p.tls = NoTLS THEN <<>> ELSE TLS(p.tls)
                  /\ B = IF p.tls = NoTLS THEN {} ELSE TLSFacts(f, p.tls)
  OBVIOUS
<1>6. A = {f} \cup B /\ Kept(B)
  <2>1. A = {f} \cup B
    BY <1>1, <1>5, Zenon
  <2> QED
    BY <2>1, KeptPart
<1>7. Tells(q, E2, B, E2)
  <2>1. CASE p.tls = NoTLS
    BY <1>5, <2>1, TellsNothing
  <2>2. CASE p.tls # NoTLS
    <3>1. q = TLS(p.tls) /\ B = TLSFacts(E2["portID"], p.tls)
      BY <1>3, <1>5, <2>2
    <3>2. Slice(p.tls.suites) /\ \A u \in ToSet(p.tls.suites) : Slice(u.ciphers)
      BY <2>2, Zenon
    <3>3. Tells(TLS(p.tls), E2, TLSFacts(E2["portID"], p.tls), E2)
      BY <1>3, <1>6, <3>1, <3>2, TellsTLS
    <3> QED
      BY <3>1, <3>3
  <2> QED
    BY <2>1, <2>2
<1>8. Port(p) = port \o q
  BY <1>5 DEF Port
<1> HIDE DEF port
<1>9. Tells(q, E2, B, E)
  <2>1. "portID" \notin DOMAIN E
    OBVIOUS
  <2> QED
    BY <1>2, <1>7, <2>1, TellsLess
<1>10. Tells(port \o q, E, {f} \cup B, E)
  BY <1>4, <1>9, TellsThen
<1> QED
  BY <1>6, <1>8, <1>10

LEMMA TellsService ==
    ASSUME NEW r, NEW h, NEW E, DOMAIN E = {"depID", "hostID"}, E["hostID"] = HostFact(r, h),
           NEW s, Slice(s.ports),
           \A p \in {p \in ToSet(s.ports) : p.tls # NoTLS} :
              Slice(p.tls.suites) /\ \A u \in ToSet(p.tls.suites) : Slice(u.ciphers),
           NEW A, A = ServiceFacts(r, h, s), Kept(A)
    PROVE  Tells(Service(s), E, A, E)
<1> DEFINE process == insert("processes", s.name, {"hostID"}, "processID")
           env == insert("env_vars", s.env, {"processID"}, "")
           F == [i \in DOMAIN s.ports |-> Port(s.ports[i])]
<1>1. PICK f, g, B : /\ f = ServiceFact(r, h, s)
                     /\ g = Fact("env_vars", s.env, [processID |-> f])
                     /\ B = [p \in ToSet(s.ports) |->
                               {PortFact(r, h, s, p)} \cup
                               (IF p.tls = NoTLS THEN {} ELSE TLSFacts(PortFact(r, h, s, p), p.tls))]
  OBVIOUS
<1>2. PICK U : U = UNION {B[p] : p \in ToSet(s.ports)}
  OBVIOUS
<1>3. A = {f, g} \cup U
  BY <1>1, <1>2 DEF ServiceFacts
<1>4. PICK E2 : E2 = With(E, "processID", f)
  OBVIOUS
<1>5. DOMAIN E2 = {"depID", "hostID", "processID"} /\ E2["processID"] = f
  BY <1>4 DEF With
<1>6. Tells(process, E, {f}, E2)
  <2>1. f = Fact("processes", s.name, [hostID |-> E["hostID"]]) /\ f \in A
    BY <1>1, <1>3 DEF ServiceFact
  <2>2. [hostID |-> E["hostID"]] = [v \in {"hostID"} |-> E[v]]
    BY KeysOf
  <2>3. DOMAIN E \subseteq Names /\ "processID" \in Names \ DOMAIN E /\ {"hostID"} \subseteq DOMAIN E
    BY NamesAre
  <2> QED
    BY <1>4, <2>1, <2>2, <2>3, TellsStatement, Zenon
<1>7. ASSUME NEW p \in ToSet(s.ports) PROVE Tells(Port(p), E2, B[p], E2)
  <2>1. B[p] = {PortFact(r, h, s, p)} \cup
               (IF p.tls = NoTLS THEN {} ELSE TLSFacts(PortFact(r, h, s, p), p.tls))
    BY <1>1
  <2>2. B[p] \subseteq A
    BY <1>2, <1>3
  <2>3. p.tls # NoTLS => /\ Slice(p.tls.suites)
                         /\ \A u \in ToSet(p.tls.suites) : Slice(u.ciphers)
    OBVIOUS
  <2>4. PICK C : C = B[p]
    OBVIOUS
  <2>5. Kept(C)
    BY <2>2, <2>4, KeptPart
  <2>6. Tells(Port(p), E2, C, E2)
    BY <1>1, <1>5, <2>1, <2>3, <2>4, <2>5, TellsPort
  <2> QED
    BY <2>4, <2>6
<1>8. Tells(FlattenSeq(F), E2, U, E2)
  <2>1. \A i \in DOMAIN s.ports : s.ports[i] \in ToSet(s.ports)
    BY DEF ToSet
  <2>2. F = [i \in DOMAIN s.ports |-> F[i]] /\ \A i \in DOMAIN s.ports : Tells(F[i], E2, B[s.ports[i]], E2)
    BY <1>7, <2>1
  <2> HIDE DEF F
  <2> QED
    BY <1>2, <2>2, TellsEach
<1>9. Tells(env, E2, {g}, E)
  <2>1. [processID |-> f] = [v \in {"processID"} |-> E2[v]]
    BY <1>5, KeysOf
  <2>2. DOMAIN E2 \subseteq Names /\ "" \in Names \ DOMAIN E2 /\ {"processID"} \subseteq DOMAIN E2
    BY <1>5, NamesAre
  <2>3. g \in A
    BY <1>3
  <2>4. Tells(env, E2, {g}, With(E2, "", g))
    BY <1>1, <2>1, <2>2, <2>3, TellsStatement, Zenon
  <2> HIDE DEF env
  <2>5. Tells(env, E2, {g}, E2)
    BY <2>2, <2>4, TellsLess
  <2>6. "processID" \notin DOMAIN E
    OBVIOUS
  <2> QED
    BY <1>4, <2>5, <2>6, TellsLess
<1>10. Service(s) = process \o FlattenSeq(F) \o env
  BY DEF Service, ForEach
<1> HIDE DEF process, F, env
<1>11. Tells(process \o FlattenSeq(F), E, {f} \cup U, E2)
  BY <1>6, <1>8, TellsThen
<1>12. Tells(process \o FlattenSeq(F) \o env, E, {f} \cup U \cup {g}, E)
  BY <1>9, <1>11, TellsThen
<1>13. {f} \cup U \cup {g} = A
  BY <1>3
<1> QED
  BY <1>10, <1>12, <1>13

\* What a match says of the file ff.
MatchFacts(ff, m) ==
    LET content == [fileID |-> ff, contentID |-> Plain("regexes", m.content)]
        both == [fileID |-> ff, contentID |-> Plain("regexes", m.content),
                 pathID |-> Plain("regexes", m.path)]
    IN  {Plain("regexes", x) : x \in {m.content} \cup ({m.path} \ {NoPath})} \cup
        {Fact("file_to_regex", "", IF m.path = NoPath THEN content ELSE both)}

LEMMA TellsMatch ==
    ASSUME NEW E, DOMAIN E = {"depID", "hostID", "fileID"}, NEW m,
           NEW A, A = MatchFacts(E["fileID"], m), Kept(A)
    PROVE  Tells(Match(m), E, A, E)
<1> DEFINE content == getIndexOrInsert("regexes", m.content, {}, "contentID")
           path == getIndexOrInsert("regexes", m.path, {}, "pathID")
           one == insert("file_to_regex", "", {"fileID", "contentID"}, "")
           both == insert("file_to_regex", "", {"fileID", "pathID", "contentID"}, "")
<1>1. PICK ff, c, p : ff = E["fileID"] /\ c = Plain("regexes", m.content) /\ p = Plain("regexes", m.path)
  OBVIOUS
<1>2. PICK E2 : E2 = With(E, "contentID", c)
  OBVIOUS
<1>3. DOMAIN E2 = {"depID", "hostID", "fileID", "contentID"} /\ E2["fileID"] = ff /\ E2["contentID"] = c
  <2>1. "fileID" \in DOMAIN E /\ "fileID" # "contentID"
    OBVIOUS
  <2>2. DOMAIN E2 = DOMAIN E \cup {"contentID"} /\ E2["fileID"] = E["fileID"] /\ E2["contentID"] = c
    BY <1>2, <2>1 DEF With
  <2> QED
    BY <1>1, <2>2
<1>4. c \in A
  BY <1>1 DEF MatchFacts
<1>5. Tells(content, E, {c}, E2)
  <2>1. c = Fact("regexes", m.content, [v \in {} |-> 0]) /\ [v \in {} |-> 0] = [v \in {} |-> E[v]]
    BY <1>1 DEF Plain
  <2>2. DOMAIN E \subseteq Names /\ "contentID" \in Names \ DOMAIN E /\ {} \subseteq DOMAIN E
    BY NamesAre
  <2> QED
    BY <1>2, <1>4, <2>1, <2>2, TellsStatement, Zenon
<1>6. "contentID" \notin DOMAIN E /\ "pathID" \notin DOMAIN E2 /\ "" \notin DOMAIN E2
  BY <1>3
<1>7. CASE m.path = NoPath
  <2>1. PICK g : g = Fact("file_to_regex", "", [fileID |-> ff, contentID |-> c])
    OBVIOUS
  <2>2. A = {c} \cup {g}
    BY <1>1, <1>7, <2>1 DEF MatchFacts
  <2>3. Tells(one, E2, {g}, With(E2, "", g))
    <3>1. [fileID |-> ff, contentID |-> c] = [v \in {"fileID", "contentID"} |-> E2[v]]
      BY <1>3, KeysOf
    <3>2. DOMAIN E2 \subseteq Names /\ "" \in Names \ DOMAIN E2 /\ {"fileID", "contentID"} \subseteq DOMAIN E2
      BY <1>3, NamesAre
    <3>3. g \in A
      BY <2>2
    <3> QED
      BY <2>1, <3>1, <3>2, <3>3, TellsStatement, Zenon
  <2>4. Match(m) = content \o one
    BY <1>7 DEF Match
  <2> HIDE DEF content, one
  <2>5. Tells(one, E2, {g}, E)
    BY <1>2, <1>6, <2>3, TellsLess
  <2>6. Tells(content \o one, E, {c} \cup {g}, E)
    BY <1>5, <2>5, TellsThen
  <2> QED
    BY <2>2, <2>4, <2>6
<1>8. CASE m.path # NoPath
  <2>1. PICK g : g = Fact("file_to_regex", "", [fileID |-> ff, contentID |-> c, pathID |-> p])
    OBVIOUS
  <2>2. A = {c} \cup ({p} \cup {g})
    BY <1>1, <1>8, <2>1 DEF MatchFacts
  <2>3. PICK E3 : E3 = With(E2, "pathID", p)
    OBVIOUS
  <2>4. /\ DOMAIN E3 = {"depID", "hostID", "fileID", "contentID", "pathID"}
        /\ E3["fileID"] = ff /\ E3["contentID"] = c /\ E3["pathID"] = p
    <3>1. {"fileID", "contentID"} \subseteq DOMAIN E2 /\ "fileID" # "pathID" /\ "contentID" # "pathID"
      BY <1>3
    <3>2. /\ DOMAIN E3 = DOMAIN E2 \cup {"pathID"} /\ E3["pathID"] = p
          /\ \A v \in DOMAIN E2 : v # "pathID" => E3[v] = E2[v]
      BY <2>3 DEF With
    <3> QED
      BY <1>3, <3>1, <3>2
  <2>5. Tells(path, E2, {p}, E3)
    <3>1. p = Fact("regexes", m.path, [v \in {} |-> 0]) /\ [v \in {} |-> 0] = [v \in {} |-> E2[v]]
      BY <1>1 DEF Plain
    <3>2. DOMAIN E2 \subseteq Names /\ "pathID" \in Names \ DOMAIN E2 /\ {} \subseteq DOMAIN E2
      BY <1>3, NamesAre
    <3>3. p \in A
      BY <2>2
    <3> QED
      BY <2>3, <3>1, <3>2, <3>3, TellsStatement, Zenon
  <2>6. Tells(both, E3, {g}, With(E3, "", g))
    <3>1. [fileID |-> ff, contentID |-> c, pathID |-> p] = [v \in {"fileID", "pathID", "contentID"} |-> E3[v]]
      BY <2>4, KeysOf
    <3>2. /\ DOMAIN E3 \subseteq Names /\ "" \in Names \ DOMAIN E3
          /\ {"fileID", "pathID", "contentID"} \subseteq DOMAIN E3
      BY <2>4, NamesAre
    <3>3. g \in A
      BY <2>2
    <3> QED
      BY <2>1, <3>1, <3>2, <3>3, TellsStatement, Zenon
  <2>7. Match(m) = content \o (path \o both)
    BY <1>8 DEF Match
  <2> HIDE DEF content, path, both
  <2>8. Tells(both, E3, {g}, E2)
    <3>1. "" \notin DOMAIN E3
      BY <2>4
    <3>2. Tells(both, E3, {g}, E3)
      BY <2>6, <3>1, TellsLess
    <3> QED
      BY <1>6, <2>3, <3>2, TellsLess
  <2>9. Tells(path \o both, E2, {p} \cup {g}, E2)
    BY <2>5, <2>8, TellsThen
  <2>10. Tells(path \o both, E2, {p} \cup {g}, E)
    BY <1>2, <1>6, <2>9, TellsLess
  <2>11. Tells(content \o (path \o both), E, {c} \cup ({p} \cup {g}), E)
    BY <1>5, <2>10, TellsThen
  <2> QED
    BY <2>2, <2>7, <2>11
<1> QED
  BY <1>7, <1>8

LEMMA TellsFile ==
    ASSUME NEW E, DOMAIN E = {"depID", "hostID"}, NEW f, Slice(f.matches),
           NEW A, A = RegexFacts(E["hostID"], f), Kept(A)
    PROVE  Tells(File(f), E, A, E)
<1> DEFINE path == insert("files", f.path, {"hostID"}, "fileID")
           F == [i \in DOMAIN f.matches |-> Match(f.matches[i])]
<1>1. PICK ff, B : /\ ff = Fact("files", f.path, [hostID |-> E["hostID"]])
                   /\ B = [m \in ToSet(f.matches) |-> MatchFacts(ff, m)]
  OBVIOUS
<1>2. PICK U : U = UNION {B[m] : m \in ToSet(f.matches)}
  OBVIOUS
<1>3. A = {ff} \cup U
  <2>1. U = UNION {MatchFacts(ff, m) : m \in ToSet(f.matches)}
    BY <1>1, <1>2
  <2> QED
    BY <1>1, <2>1, Zenon DEF RegexFacts, MatchFacts
<1>4. PICK E2 : E2 = With(E, "fileID", ff)
  OBVIOUS
<1>5. DOMAIN E2 = {"depID", "hostID", "fileID"} /\ E2["fileID"] = ff
  BY <1>4 DEF With
<1>6. Tells(path, E, {ff}, E2)
  <2>1. [hostID |-> E["hostID"]] = [v \in {"hostID"} |-> E[v]]
    BY KeysOf
  <2>2. DOMAIN E \subseteq Names /\ "fileID" \in Names \ DOMAIN E /\ {"hostID"} \subseteq DOMAIN E
    BY NamesAre
  <2>3. ff \in A
    BY <1>3
  <2> QED
    BY <1>1, <1>4, <2>1, <2>2, <2>3, TellsStatement, Zenon
<1>7. ASSUME NEW m \in ToSet(f.matches) PROVE Tells(Match(m), E2, B[m], E2)
  <2>1. PICK C : C = B[m]
    OBVIOUS
  <2>2. C = MatchFacts(E2["fileID"], m) /\ C \subseteq A
    BY <1>1, <1>2, <1>3, <1>5, <2>1
  <2>3. Kept(C)
    BY <2>2, KeptPart
  <2>4. Tells(Match(m), E2, C, E2)
    BY <1>5, <2>2, <2>3, TellsMatch
  <2> QED
    BY <2>1, <2>4
<1>8. Tells(FlattenSeq(F), E2, U, E2)
  <2>1. \A i \in DOMAIN f.matches : f.matches[i] \in ToSet(f.matches)
    BY DEF ToSet
  <2>2. F = [i \in DOMAIN f.matches |-> F[i]] /\ \A i \in DOMAIN f.matches : Tells(F[i], E2, B[f.matches[i]], E2)
    BY <1>7, <2>1
  <2>3. Slice(f.matches)
    OBVIOUS
  <2> HIDE DEF F
  <2>4. PICK S, G : S = f.matches /\ G = F
    OBVIOUS
  <2>5. /\ Slice(S) /\ G = [i \in DOMAIN S |-> G[i]] /\ U = UNION {B[x] : x \in ToSet(S)}
        /\ \A i \in DOMAIN S : Tells(G[i], E2, B[S[i]], E2)
    BY <1>2, <2>2, <2>3, <2>4
  <2>6. Tells(FlattenSeq(G), E2, U, E2)
    BY <2>5, TellsEach
  <2> QED
    BY <2>4, <2>6
<1>9. File(f) = path \o FlattenSeq(F)
  BY DEF File, ForEach
<1> HIDE DEF path, F
<1>10. Tells(FlattenSeq(F), E2, U, E)
  <2>1. "fileID" \notin DOMAIN E
    OBVIOUS
  <2> QED
    BY <1>4, <1>8, <2>1, TellsLess
<1>11. Tells(path \o FlattenSeq(F), E, {ff} \cup U, E)
  BY <1>6, <1>10, TellsThen
<1> QED
  BY <1>3, <1>9, <1>11

LEMMA TellsHost ==
    ASSUME NEW r, NEW E, DOMAIN E = {"depID"}, E["depID"] = Plain("deployments", r.deployment),
           NEW h, HostShape(h), NEW A, A = HostFacts(r, h), Kept(A)
    PROVE  Tells(Host(h), E, A, E)
<1> DEFINE host == getIndexOrInsert("hosts", h.host, {"depID"}, "hostID")
           key(k) == insert("ssh_keys", k, {"hostID"}, "")
           S == [i \in DOMAIN h.services |-> Service(h.services[i])]
           F == [i \in DOMAIN h.files |-> File(h.files[i])]
           K == [i \in DOMAIN h.keys |-> key(h.keys[i])]
<1>1. PICK f : f = HostFact(r, h)
  OBVIOUS
<1>0. Slice(h.services) /\ Slice(h.files) /\ Slice(h.keys)
  BY DEF HostShape
<1>2. PICK BS, BF, BK : /\ BS = [s \in ToSet(h.services) |-> ServiceFacts(r, h, s)]
                        /\ BF = [g \in ToSet(h.files) |-> RegexFacts(f, g)]
                        /\ BK = [k \in ToSet(h.keys) |-> {Fact("ssh_keys", k, [hostID |-> f])}]
  OBVIOUS
<1>3. PICK US, UF, UK : /\ US = UNION {BS[s] : s \in ToSet(h.services)}
                        /\ UF = UNION {BF[g] : g \in ToSet(h.files)}
                        /\ UK = UNION {BK[k] : k \in ToSet(h.keys)}
  OBVIOUS
<1>4. A = {f} \cup US \cup UF \cup UK
  <2>1. PICK VS, VF, VK : /\ VS = UNION {ServiceFacts(r, h, s) : s \in ToSet(h.services)}
                          /\ VF = UNION {RegexFacts(f, g) : g \in ToSet(h.files)}
                          /\ VK = {Fact("ssh_keys", k, [hostID |-> f]) : k \in ToSet(h.keys)}
    OBVIOUS
  <2>2. US = VS /\ UF = VF /\ UK = VK
    BY <1>2, <1>3, <2>1
  <2>3. A = {f} \cup VK \cup VS \cup VF
    BY <1>1, <2>1, Zenon DEF HostFacts
  <2> QED
    BY <2>2, <2>3
<1>5. PICK E2 : E2 = With(E, "hostID", f)
  OBVIOUS
<1>6. DOMAIN E2 = {"depID", "hostID"} /\ E2["hostID"] = f
  BY <1>5 DEF With
<1>7. Tells(host, E, {f}, E2)
  <2>1. f = Fact("hosts", h.host, [depID |-> E["depID"]]) /\ f \in A
    BY <1>1, <1>4 DEF HostFact
  <2>2. [depID |-> E["depID"]] = [v \in {"depID"} |-> E[v]]
    BY KeysOf
  <2>3. DOMAIN E \subseteq Names /\ "hostID" \in Names \ DOMAIN E /\ {"depID"} \subseteq DOMAIN E
    BY NamesAre
  <2> QED
    BY <1>5, <2>1, <2>2, <2>3, TellsStatement, Zenon
<1>8. ASSUME NEW s \in ToSet(h.services) PROVE Tells(Service(s), E2, BS[s], E2)
  <2>1. PICK C : C = BS[s]
    OBVIOUS
  <2>2. C = ServiceFacts(r, h, s) /\ C \subseteq A
    BY <1>2, <1>3, <1>4, <2>1
  <2>3. Kept(C)
    BY <2>2, KeptPart
  <2>4. /\ Slice(s.ports)
        /\ \A p \in {p \in ToSet(s.ports) : p.tls # NoTLS} :
              Slice(p.tls.suites) /\ \A u \in ToSet(p.tls.suites) : Slice(u.ciphers)
    BY Zenon DEF HostShape
  <2>5. Tells(Service(s), E2, C, E2)
    BY <1>1, <1>6, <2>2, <2>3, <2>4, TellsService
  <2> QED
    BY <2>1, <2>5
<1>9. ASSUME NEW g \in ToSet(h.files) PROVE Tells(File(g), E2, BF[g], E2)
  <2>1. PICK C : C = BF[g]
    OBVIOUS
  <2>2. C = RegexFacts(E2["hostID"], g) /\ C \subseteq A
    BY <1>2, <1>3, <1>4, <1>6, <2>1
  <2>3. Kept(C) /\ Slice(g.matches)
    BY <2>2, KeptPart DEF HostShape
  <2>4. Tells(File(g), E2, C, E2)
    BY <1>6, <2>2, <2>3, TellsFile
  <2> QED
    BY <2>1, <2>4
<1>10. ASSUME NEW k \in ToSet(h.keys) PROVE Tells(key(k), E2, BK[k], E2)
  <2>1. PICK g : g = Fact("ssh_keys", k, [hostID |-> f])
    OBVIOUS
  <2>2. BK[k] = {g} /\ g \in A
    BY <1>2, <1>3, <1>4, <2>1
  <2>3. [hostID |-> f] = [v \in {"hostID"} |-> E2[v]]
    BY <1>6, KeysOf
  <2>4. DOMAIN E2 \subseteq Names /\ "" \in Names \ DOMAIN E2 /\ {"hostID"} \subseteq DOMAIN E2
    BY <1>6, NamesAre
  <2>5. Tells(key(k), E2, {g}, With(E2, "", g))
    BY <2>1, <2>2, <2>3, <2>4, TellsStatement, Zenon
  <2> HIDE DEF key
  <2>6. Tells(key(k), E2, {g}, E2)
    BY <2>4, <2>5, TellsLess
  <2> QED
    BY <2>2, <2>6
<1>11. Tells(FlattenSeq(S), E2, US, E2)
  <2>1. \A i \in DOMAIN h.services : h.services[i] \in ToSet(h.services)
    BY DEF ToSet
  <2>2. S = [i \in DOMAIN h.services |-> S[i]] /\ \A i \in DOMAIN h.services : Tells(S[i], E2, BS[h.services[i]], E2)
    BY <1>8, <2>1
  <2> HIDE DEF S
  <2> QED
    BY <1>0, <1>3, <2>2, TellsEach
<1>12. Tells(FlattenSeq(F), E2, UF, E2)
  <2>1. \A i \in DOMAIN h.files : h.files[i] \in ToSet(h.files)
    BY DEF ToSet
  <2>2. F = [i \in DOMAIN h.files |-> F[i]] /\ \A i \in DOMAIN h.files : Tells(F[i], E2, BF[h.files[i]], E2)
    BY <1>9, <2>1
  <2> HIDE DEF F
  <2> QED
    BY <1>0, <1>3, <2>2, TellsEach
<1>13. Tells(FlattenSeq(K), E2, UK, E2)
  <2> HIDE DEF key
  <2>1. \A i \in DOMAIN h.keys : h.keys[i] \in ToSet(h.keys)
    BY DEF ToSet
  <2>2. K = [i \in DOMAIN h.keys |-> K[i]] /\ \A i \in DOMAIN h.keys : Tells(K[i], E2, BK[h.keys[i]], E2)
    BY <1>10, <2>1
  <2> HIDE DEF K
  <2> QED
    BY <1>0, <1>3, <2>2, TellsEach
<1>14. Host(h) = host \o FlattenSeq(S) \o FlattenSeq(F) \o FlattenSeq(K)
  BY DEF Host, ForEach
<1> HIDE DEF host, S, F, K
<1>15. Tells(host \o FlattenSeq(S), E, {f} \cup US, E2)
  BY <1>7, <1>11, TellsThen
<1>16. Tells(host \o FlattenSeq(S) \o FlattenSeq(F), E, {f} \cup US \cup UF, E2)
  BY <1>12, <1>15, TellsThen
<1>17. Tells(host \o FlattenSeq(S) \o FlattenSeq(F) \o FlattenSeq(K), E, {f} \cup US \cup UF \cup UK, E2)
  BY <1>13, <1>16, TellsThen
<1>18. "hostID" \notin DOMAIN E
  OBVIOUS
<1>19. Tells(Host(h), E, A, E2)
  BY <1>4, <1>14, <1>17, Zenon
<1> QED
  BY <1>5, <1>18, <1>19, TellsLess

\* SaveReport, statement after statement, says what the report says.
LEMMA TellsStatements ==
    ASSUME NEW r \in Report, Kept(Facts(r))
    PROVE  \A E0 : \E E2 : Says(Statements(r), E0, Facts(r), E2)
<1> DEFINE dep == getIndexOrInsert("deployments", r.deployment, {}, "depID")
           release(x) == insert("releases", x, {"depID"}, "")
           H == [i \in DOMAIN r.hosts |-> Host(r.hosts[i])]
           R == [i \in DOMAIN r.releases |-> release(r.releases[i])]
<1>1. Slice(r.hosts) /\ Slice(r.releases) /\ \A h \in ToSet(r.hosts) : HostShape(h)
  BY BatchAssumption DEF IsReport, HostShape
<1>2. PICK A, f, E : A = Facts(r) /\ f = Plain("deployments", r.deployment) /\ E = [v \in {} |-> 0]
  OBVIOUS
<1>3. PICK BH, BR : /\ BH = [h \in ToSet(r.hosts) |-> HostFacts(r, h)]
                    /\ BR = [x \in ToSet(r.releases) |-> {Fact("releases", x, [depID |-> f])}]
  OBVIOUS
<1>4. PICK UH, UR : /\ UH = UNION {BH[h] : h \in ToSet(r.hosts)}
                    /\ UR = UNION {BR[x] : x \in ToSet(r.releases)}
  OBVIOUS
<1>5. A = {f} \cup UH \cup UR
  <2>1. UH = UNION {HostFacts(r, h) : h \in ToSet(r.hosts)}
    BY <1>3, <1>4
  <2>2. UR = {Fact("releases", x, [depID |-> f]) : x \in ToSet(r.releases)}
    BY <1>3, <1>4
  <2>3. A = {f} \cup {Fact("releases", x, [depID |-> f]) : x \in ToSet(r.releases)} \cup
            UNION {HostFacts(r, h) : h \in ToSet(r.hosts)}
    BY <1>2, Zenon DEF Facts
  <2> QED
    BY <2>1, <2>2, <2>3
<1>6. PICK E1 : E1 = With(E, "depID", f)
  OBVIOUS
<1>7. DOMAIN E1 = {"depID"} /\ E1["depID"] = f
  BY <1>2, <1>6 DEF With
<1>8. Kept(A)
  BY <1>2
<1>9. Tells(dep, E, {f}, E1)
  <2>1. f = Fact("deployments", r.deployment, [v \in {} |-> 0]) /\ f \in A
    BY <1>2, <1>5 DEF Plain
  <2>2. [v \in {} |-> 0] = [v \in {} |-> E[v]]
    OBVIOUS
  <2>3. DOMAIN E \subseteq Names /\ "depID" \in Names \ DOMAIN E /\ {} \subseteq DOMAIN E
    BY <1>2, NamesAre
  <2> QED
    BY <1>6, <1>8, <2>1, <2>2, <2>3, TellsStatement, Zenon
<1>10. ASSUME NEW h \in ToSet(r.hosts) PROVE Tells(Host(h), E1, BH[h], E1)
  <2>1. PICK C : C = BH[h]
    OBVIOUS
  <2>2. C = HostFacts(r, h) /\ C \subseteq A
    BY <1>3, <1>4, <1>5, <2>1
  <2>3. Kept(C) /\ HostShape(h)
    BY <1>1, <1>8, <2>2, KeptPart
  <2>4. Tells(Host(h), E1, C, E1)
    BY <1>2, <1>7, <2>2, <2>3, TellsHost
  <2> QED
    BY <2>1, <2>4
<1>11. ASSUME NEW x \in ToSet(r.releases) PROVE Tells(release(x), E1, BR[x], E1)
  <2>1. PICK g : g = Fact("releases", x, [depID |-> f])
    OBVIOUS
  <2>2. BR[x] = {g} /\ g \in A
    BY <1>3, <1>4, <1>5, <2>1
  <2>3. [depID |-> f] = [v \in {"depID"} |-> E1[v]]
    BY <1>7, KeysOf
  <2>4. DOMAIN E1 \subseteq Names /\ "" \in Names \ DOMAIN E1 /\ {"depID"} \subseteq DOMAIN E1
    BY <1>7, NamesAre
  <2>5. Tells(release(x), E1, {g}, With(E1, "", g))
    BY <1>8, <2>1, <2>2, <2>3, <2>4, TellsStatement, Zenon
  <2> HIDE DEF release
  <2>6. Tells(release(x), E1, {g}, E1)
    BY <2>4, <2>5, TellsLess
  <2> QED
    BY <2>2, <2>6
<1>12. Tells(FlattenSeq(H), E1, UH, E1)
  <2>1. \A i \in DOMAIN r.hosts : r.hosts[i] \in ToSet(r.hosts)
    BY DEF ToSet
  <2>2. H = [i \in DOMAIN r.hosts |-> H[i]] /\ \A i \in DOMAIN r.hosts : Tells(H[i], E1, BH[r.hosts[i]], E1)
    BY <1>10, <2>1
  <2> HIDE DEF H
  <2> QED
    BY <1>1, <1>4, <2>2, TellsEach
<1>13. Tells(FlattenSeq(R), E1, UR, E1)
  <2> HIDE DEF release
  <2>1. \A i \in DOMAIN r.releases : r.releases[i] \in ToSet(r.releases)
    BY DEF ToSet
  <2>2. R = [i \in DOMAIN r.releases |-> R[i]] /\ \A i \in DOMAIN r.releases : Tells(R[i], E1, BR[r.releases[i]], E1)
    BY <1>11, <2>1
  <2> HIDE DEF R
  <2> QED
    BY <1>1, <1>4, <2>2, TellsEach
<1>14. Statements(r) = dep \o FlattenSeq(H) \o FlattenSeq(R)
  BY DEF Statements, ForEach
<1> HIDE DEF dep, H, R
<1>15. Tells(dep \o FlattenSeq(H), E, {f} \cup UH, E1)
  BY <1>9, <1>12, TellsThen
<1>16. Tells(dep \o FlattenSeq(H) \o FlattenSeq(R), E, {f} \cup UH \cup UR, E1)
  BY <1>13, <1>15, TellsThen
<1>17. Tells(Statements(r), E, A, E1)
  BY <1>5, <1>14, <1>16, Zenon
<1>18. \A E0 : Agree(E0, E)
  BY <1>2 DEF Agree
<1> QED
  BY <1>2, <1>17, <1>18 DEF Tells

-----------------------------------------------------------------------------
(* What the rows say, joined along their keys: there is one such reading,  *)
(* and it grows by one fact with a new row.                                *)

\* J is what each of the rows R says, its keys replaced by what the rows they
\* refer to say.
Join(R, J) ==
    J = [x \in R |-> Fact(x.table, x.value, [v \in DOMAIN x.of |-> J[Referred(R, x, v)]])]

Joinable(R) == \E J : Join(R, J) /\ \A K : Join(R, K) => K = J

\* Where only one function satisfies the recursion, it is the one Joined takes.
LEMMA JoinedIs ==
    ASSUME NEW R, Joinable(R), NEW J, Join(R, J)
    PROVE  Joined(R) = {J[x] : x \in R}
<1> DEFINE row[x \in R] == Fact(x.table, x.value, [v \in DOMAIN x.of |-> row[Referred(R, x, v)]])
<1>1. Join(R, row)
  BY Zenon DEF Join
<1>2. Joined(R) = {row[x] : x \in R}
  BY DEF Joined
<1> HIDE DEF row
<1>3. row = J
  BY <1>1 DEF Joinable
<1> QED
  BY <1>2, <1>3

LEMMA JoinedNothing == Joinable({}) /\ Joined({}) = {}
<1>1. PICK J : J = [x \in {} |-> 0]
  OBVIOUS
<1>2. \A K : Join({}, K) <=> K = J
  BY <1>1 DEF Join
<1>3. Joinable({}) /\ Join({}, J)
  BY <1>2 DEF Joinable
<1>4. Joined({}) = {J[x] : x \in {}}
  BY <1>3, JoinedIs
<1> QED
  BY <1>3, <1>4

\* Among rows with ids of their own the row referred to is the one with the id.
LEMMA ReferredIs ==
    ASSUME NEW R, Store(R), NEW x, NEW v, NEW y \in R, y.table = TableOf[v], y.id = x.of[v]
    PROVE  Referred(R, x, v) = y
<1>1. \A z \in R : z.table = TableOf[v] /\ z.id = x.of[v] => z = y
  BY DEF Store
<1> QED
  BY <1>1 DEF Referred

LEMMA JoinFields ==
    ASSUME NEW R, NEW J, Join(R, J), NEW x \in R
    PROVE  /\ J[x] = Fact(x.table, x.value, [v \in DOMAIN x.of |-> J[Referred(R, x, v)]])
           /\ J[x].table = x.table /\ J[x].value = x.value
<1>1. J[x] = Fact(x.table, x.value, [v \in DOMAIN x.of |-> J[Referred(R, x, v)]])
  BY Zenon DEF Join
<1> QED
  BY <1>1 DEF Fact

\* Q is R with a new row, which says f with the facts o in place of its keys.
Grows(R, J, row, Q, o, f) ==
    /\ Store(R) /\ Join(R, J) /\ Joinable(R)
    /\ row \notin R /\ Q = R \cup {row} /\ Store(Q)
    /\ \A v \in DOMAIN row.of : HasRow(R, v, row.of[v])
    /\ o = [v \in DOMAIN row.of |-> J[Referred(R, row, v)]]
    /\ f = Fact(row.table, row.value, o)

\* A new row says what it says, and the others what they said.
LEMMA JoinGrows ==
    ASSUME NEW R, NEW J, NEW row, NEW Q, NEW o, NEW f, Grows(R, J, row, Q, o, f)
    PROVE  /\ Joinable(Q) /\ Joined(Q) = Joined(R) \cup {f}
           /\ \E K : Join(Q, K) /\ K[row] = f /\ \A x \in R : K[x] = J[x]
<1>1. /\ Store(R) /\ Join(R, J) /\ Joinable(R) /\ row \notin R /\ Q = R \cup {row} /\ Store(Q)
      /\ \A v \in DOMAIN row.of : HasRow(R, v, row.of[v])
  BY DEF Grows
<1>2. /\ o = [v \in DOMAIN row.of |-> J[Referred(R, row, v)]]
      /\ f = Fact(row.table, row.value, o)
  BY DEF Grows
<1>3. Q = R \cup {row}
  BY <1>1
<1>4. ASSUME NEW x \in Q, NEW v \in DOMAIN x.of
      PROVE  Referred(R, x, v) \in R /\ Referred(Q, x, v) = Referred(R, x, v)
  <2>1. HasRow(R, v, x.of[v])
    BY <1>1, <1>3 DEF Store
  <2>2. PICK y \in R : y.table = TableOf[v] /\ y.id = x.of[v]
    BY <2>1 DEF HasRow
  <2>3. Referred(R, x, v) = y
    BY <1>1, <2>2, ReferredIs
  <2>4. Store(Q) /\ y \in Q
    BY <1>1, <1>3, <2>2
  <2>5. Referred(Q, x, v) = y
    BY <2>2, <2>4, ReferredIs
  <2> QED
    BY <2>3, <2>5
<1>5. PICK K : K = [x \in Q |-> IF x = row THEN f ELSE J[x]]
  OBVIOUS
<1>6. K[row] = f /\ \A x \in R : K[x] = J[x]
  BY <1>1, <1>3, <1>5
<1>7. ASSUME NEW x \in Q
      PROVE  [v \in DOMAIN x.of |-> K[Referred(Q, x, v)]] = [v \in DOMAIN x.of |-> J[Referred(R, x, v)]]
  <2>1. \A v \in DOMAIN x.of : K[Referred(Q, x, v)] = J[Referred(R, x, v)]
    BY <1>4, <1>6
  <2> QED
    BY <2>1
<1>8. ASSUME NEW x \in Q
      PROVE  K[x] = Fact(x.table, x.value, [v \in DOMAIN x.of |-> K[Referred(Q, x, v)]])
  <2>1. K[x] = Fact(x.table, x.value, [v \in DOMAIN x.of |-> J[Referred(R, x, v)]])
    <3>1. CASE x = row
      <4>1. o = [v \in DOMAIN row.of |-> J[Referred(R, row, v)]]
        BY <1>2
      <4> QED
        BY <1>6, <1>2, <3>1, <4>1
    <3>2. CASE x # row
      BY <1>1, <1>3, <1>6, <3>2, JoinFields
    <3> QED
      BY <3>1, <3>2
  <2> QED
    BY <1>7, <2>1
<1>9. Join(Q, K)
  <2>1. K = [x \in Q |-> K[x]]
    BY <1>5
  <2> QED
    BY <1>8, <2>1 DEF Join
<1>10. ASSUME NEW L, Join(Q, L) PROVE L = K
  <2>1. PICK M : M = [x \in R |-> L[x]]
    OBVIOUS
  <2>2. \A x \in R : M[x] = L[x]
    BY <2>1
  <2>3. ASSUME NEW x \in Q
        PROVE  [v \in DOMAIN x.of |-> L[Referred(Q, x, v)]] = [v \in DOMAIN x.of |-> M[Referred(R, x, v)]]
    <3>1. \A v \in DOMAIN x.of : L[Referred(Q, x, v)] = M[Referred(R, x, v)]
      BY <1>4, <2>2
    <3> QED
      BY <3>1
  <2>4. ASSUME NEW x \in Q
        PROVE  L[x] = Fact(x.table, x.value, [v \in DOMAIN x.of |-> M[Referred(R, x, v)]])
    <3>1. L[x] = Fact(x.table, x.value, [v \in DOMAIN x.of |-> L[Referred(Q, x, v)]])
      BY <1>10, Zenon DEF Join
    <3> QED
      BY <3>1, <2>3
  <2>5. Join(R, M)
    <3>1. \A x \in R : M[x] = Fact(x.table, x.value, [v \in DOMAIN x.of |-> M[Referred(R, x, v)]])
      BY <1>3, <2>2, <2>4
    <3>2. M = [x \in R |-> M[x]]
      BY <2>1
    <3> QED
      BY <3>1, <3>2 DEF Join
  <2>6. M = J
    BY <1>1, <2>5 DEF Joinable
  <2>7. \A x \in Q : L[x] = K[x]
    <3> TAKE x \in Q
    <3>1. CASE x = row
      <4>1. o = [v \in DOMAIN row.of |-> M[Referred(R, row, v)]]
        BY <1>2, <2>6
      <4> QED
        BY <1>6, <1>2, <2>4, <3>1, <4>1
    <3>2. CASE x # row
      BY <1>3, <1>6, <2>2, <2>6, <3>2
    <3> QED
      BY <3>1, <3>2
  <2>8. L = [x \in Q |-> L[x]]
    BY <1>10 DEF Join
  <2>9. K = [x \in Q |-> K[x]]
    BY <1>5
  <2> QED
    BY <2>7, <2>8, <2>9
<1>11. Joinable(Q)
  BY <1>9, <1>10 DEF Joinable
<1>12. Joined(Q) = {K[x] : x \in Q} /\ Joined(R) = {J[x] : x \in R}
  BY <1>1, <1>9, <1>11, JoinedIs
<1>13. Joined(Q) = Joined(R) \cup {f}
  BY <1>3, <1>6, <1>12
<1> QED
  BY <1>3, <1>6, <1>9, <1>11, <1>13

-----------------------------------------------------------------------------
(* A statement takes from what a transaction has still to say and adds it  *)
(* to what its rows say, or finds it there.                                *)

\* What the reports S say.
Said(S) == UNION {Facts(r) : r \in S}

\* What the reports S look up is told by its table and its value.
OneFact(S) ==
    \A f, g \in Said(S) : f.table = g.table /\ f.value = g.value /\ f.table \in LookedUp => f = g

\* The environment E holds what the rows say that the Go variables refer to.
Holds(R, J, go, E) ==
    \A v \in Variables : go[v] # 0 =>
       \A y \in R : y.table = TableOf[v] /\ y.id = go[v] => J[y] = E[v]

\* What the transaction t has still to say, together with what its rows say by
\* now, is the facts B.
Telling(t, B) ==
    /\ Joinable(t.rows)
    /\ \E J, E, A, E2 : /\ Join(t.rows, J) /\ Holds(t.rows, J, t.go, E)
                        /\ Says(t.left, E, A, E2)
                        /\ Joined(t.rows) \cup A = B

\* A row is inserted.
LEMMA InsertTells ==
    ASSUME NEW t, TxRuns(t), DOMAIN t = {"report", "left", "rows", "go"}, t.left # <<>>,
           NEW s, s = Head(t.left),
           \A x \in t.rows : x.table = s.table /\ x.value = s.value => s.table \notin LookedUp,
           NEW B, Telling(t, B)
    PROVE  Telling(AfterInsert(t, s), B)
<1>1. PICK i : i = Cardinality(InTable(t.rows, s.table)) + 1
  OBVIOUS
<1>2. PICK row : row = [table |-> s.table, id |-> i, value |-> s.value, of |-> [v \in s.uses |-> t.go[v]]]
  OBVIOUS
<1>3. /\ row.table = s.table /\ row.id = i /\ row.value = s.value
      /\ DOMAIN row.of = s.uses /\ \A v \in s.uses : row.of[v] = t.go[v]
  BY <1>2
<1>4. PICK u : u = AfterInsert(t, s)
  OBVIOUS
<1>5. u = [t EXCEPT !.left = Tail(@), !.go[s.sets] = i, !.rows = @ \cup {row}]
  BY <1>1, <1>2, <1>4 DEF AfterInsert
<1>6. u.left = Tail(t.left) /\ u.go = [t.go EXCEPT ![s.sets] = i] /\ u.rows = t.rows \cup {row}
  BY <1>5
<1>7. TxRuns(u)
  BY <1>4, InsertRuns
<1>8. PICK R, Q : R = t.rows /\ Q = u.rows
  OBVIOUS
<1>9. Store(R) /\ Store(Q) /\ Q = R \cup {row} /\ Joinable(R)
  BY <1>6, <1>7, <1>8 DEF TxRuns, Telling
<1>10. row \notin R
  <2>1. \A x \in R : x.table = s.table => x.id \in 1..Cardinality(InTable(R, s.table))
    BY <1>9 DEF Store
  <2>2. IsFiniteSet(InTable(R, s.table))
    BY <1>9, FS_Subset DEF Store, InTable
  <2>3. Cardinality(InTable(R, s.table)) \in Nat
    BY <2>2, FS_CardinalityType
  <2> QED
    BY <1>1, <1>3, <1>8, <2>1, <2>3
<1>11. PICK J, E, A, E2 : /\ Join(R, J) /\ Holds(R, J, t.go, E)
                          /\ Says(t.left, E, A, E2) /\ Joined(R) \cup A = B
  BY <1>8 DEF Telling
<1>12. /\ StatementOK(s) /\ s.uses \subseteq Known(t.go)
  BY RunsHead DEF TxRuns
<1>13. \A v \in s.uses : v \in Variables /\ t.go[v] # 0 /\ HasRow(R, v, t.go[v])
  BY <1>8, <1>12 DEF StatementOK, TxRuns, Known
<1>14. PICK f : f = FactOf(s, E)
  OBVIOUS
<1>15. PICK o : o = [v \in s.uses |-> E[v]]
  OBVIOUS
<1>16. f = Fact(row.table, row.value, o) /\ DOMAIN o = DOMAIN row.of /\ o = [v \in DOMAIN row.of |-> o[v]]
  BY <1>3, <1>14, <1>15 DEF FactOf
<1>17. \A v \in DOMAIN row.of : o[v] = J[Referred(R, row, v)]
  <2> SUFFICES ASSUME NEW v \in s.uses PROVE J[Referred(R, row, v)] = E[v]
    BY <1>3, <1>15
  <2>1. PICK y \in R : y.table = TableOf[v] /\ y.id = t.go[v]
    BY <1>13 DEF HasRow
  <2>2. Referred(R, row, v) = y
    BY <1>3, <1>9, <2>1, ReferredIs
  <2> QED
    BY <1>11, <1>13, <2>1, <2>2 DEF Holds
<1>18. /\ Joinable(Q) /\ Joined(Q) = Joined(R) \cup {f}
       /\ \E K : Join(Q, K) /\ K[row] = f /\ \A x \in R : K[x] = J[x]
  <2>1. \A v \in DOMAIN row.of : HasRow(R, v, row.of[v])
    BY <1>3, <1>13
  <2>2. Store(R) /\ Join(R, J) /\ Joinable(R) /\ row \notin R /\ Q = R \cup {row} /\ Store(Q)
    BY <1>9, <1>10, <1>11
  <2>3. o = [v \in DOMAIN row.of |-> J[Referred(R, row, v)]] /\ f = Fact(row.table, row.value, o)
    BY <1>16, <1>17
  <2>4. Grows(R, J, row, Q, o, f)
    BY <2>1, <2>2, <2>3, Zenon DEF Grows
  <2> QED
    BY <2>4, JoinGrows
<1>19. PICK K : Join(Q, K) /\ K[row] = f /\ \A x \in R : K[x] = J[x]
  BY <1>18
<1>20. PICK C : Says(Tail(t.left), Update(E, s), C, E2) /\ A = {f} \cup C
  BY <1>11, <1>14, SaysHead
<1>21. Holds(Q, K, u.go, Update(E, s))
  <2> SUFFICES ASSUME NEW v \in Variables, u.go[v] # 0, NEW y \in Q, y.table = TableOf[v], y.id = u.go[v]
               PROVE  K[y] = Update(E, s)[v]
    BY DEF Holds
  <2>1. Update(E, s)[v] = IF v = s.sets THEN f ELSE E[v]
    BY <1>14 DEF Update, Names
  <2>2. t.go = [x \in Variables \cup {""} |-> t.go[x]]
    BY DEF TxRuns
  <2>3. CASE v = s.sets
    <3>1. u.go[v] = i /\ s.table = TableOf[v]
      BY <1>6, <1>12, <2>2, <2>3 DEF StatementOK
    <3>2. y = row
      BY <1>3, <1>9, <3>1 DEF Store
    <3> QED
      BY <1>19, <2>1, <2>3, <3>2
  <2>4. CASE v # s.sets
    <3>1. u.go[v] = t.go[v]
      BY <1>6, <2>2, <2>4
    <3>2. PICK z \in R : z.table = TableOf[v] /\ z.id = t.go[v]
      BY <1>8, <3>1 DEF TxRuns, HasRow
    <3>3. y = z
      BY <1>9, <3>1, <3>2 DEF Store
    <3>4. J[y] = E[v]
      BY <1>11, <3>1, <3>2, <3>3 DEF Holds
    <3> QED
      BY <1>19, <2>1, <2>4, <3>2, <3>3, <3>4
  <2> QED
    BY <2>3, <2>4
<1>22. Joined(Q) \cup C = B
  BY <1>11, <1>18, <1>20
<1>23. Says(u.left, Update(E, s), C, E2)
  BY <1>6, <1>20
<1>24. Telling(u, B)
  BY <1>8, <1>18, <1>19, <1>21, <1>22, <1>23 DEF Telling
<1> QED
  BY <1>4, <1>24

\* A row is found: what is there is what would have been inserted.
LEMMA FoundTells ==
    ASSUME NEW t, TxRuns(t), DOMAIN t = {"report", "left", "rows", "go"}, t.left # <<>>,
           NEW s, s = Head(t.left), NEW y \in t.rows, y.table = s.table, y.value = s.value, s.lookup,
           NEW S, OneFact(S), NEW B, B \subseteq Said(S), Telling(t, B)
    PROVE  Telling([t EXCEPT !.left = Tail(@), !.go[s.sets] = y.id], B)
<1>1. PICK i : i = y.id
  OBVIOUS
<1>2. PICK u : u = [t EXCEPT !.left = Tail(@), !.go[s.sets] = i]
  OBVIOUS
<1>3. u.left = Tail(t.left) /\ u.go = [t.go EXCEPT ![s.sets] = i] /\ u.rows = t.rows
  BY <1>2
<1>4. PICK R : R = t.rows
  OBVIOUS
<1>5. Store(R) /\ Joinable(R)
  BY <1>4 DEF TxRuns, Telling
<1>6. PICK J, E, A, E2 : /\ Join(R, J) /\ Holds(R, J, t.go, E)
                         /\ Says(t.left, E, A, E2) /\ Joined(R) \cup A = B
  BY <1>4 DEF Telling
<1>7. StatementOK(s)
  BY RunsHead DEF TxRuns
<1>8. PICK f : f = FactOf(s, E)
  OBVIOUS
<1>9. PICK C : Says(Tail(t.left), Update(E, s), C, E2) /\ A = {f} \cup C
  BY <1>6, <1>8, SaysHead
<1>10. J[y] \in Joined(R)
  BY <1>4, <1>5, <1>6, JoinedIs
<1>11. J[y] = f
  <2>1. J[y].table = y.table /\ J[y].value = y.value
    BY <1>4, <1>6, JoinFields
  <2>2. f.table = s.table /\ f.value = s.value
    BY <1>8 DEF FactOf, Fact
  <2>3. J[y] \in Said(S) /\ f \in Said(S)
    BY <1>6, <1>9, <1>10
  <2>4. s.table \in LookedUp
    BY <1>7 DEF StatementOK
  <2> QED
    BY <2>1, <2>2, <2>3, <2>4, Zenon DEF OneFact
<1>12. Holds(R, J, u.go, Update(E, s))
  <2> SUFFICES ASSUME NEW v \in Variables, u.go[v] # 0, NEW z \in R, z.table = TableOf[v], z.id = u.go[v]
               PROVE  J[z] = Update(E, s)[v]
    BY DEF Holds
  <2>1. Update(E, s)[v] = IF v = s.sets THEN f ELSE E[v]
    BY <1>8 DEF Update, Names
  <2>2. t.go = [x \in Variables \cup {""} |-> t.go[x]]
    BY DEF TxRuns
  <2>3. CASE v = s.sets
    <3>1. u.go[v] = i /\ s.table = TableOf[v]
      BY <1>3, <1>7, <2>2, <2>3 DEF StatementOK
    <3>2. z = y
      BY <1>1, <1>4, <1>5, <3>1 DEF Store
    <3> QED
      BY <1>11, <2>1, <2>3, <3>2
  <2>4. CASE v # s.sets
    <3>1. u.go[v] = t.go[v]
      BY <1>3, <2>2, <2>4
    <3>2. J[z] = E[v]
      BY <1>6, <3>1 DEF Holds
    <3> QED
      BY <2>1, <2>4, <3>2
  <2> QED
    BY <2>3, <2>4
<1>13. Joined(R) \cup C = B
  BY <1>6, <1>9, <1>10, <1>11
<1>14. Says(u.left, Update(E, s), C, E2)
  BY <1>3, <1>9
<1>15. Telling(u, B)
  BY <1>3, <1>4, <1>5, <1>6, <1>12, <1>13, <1>14 DEF Telling
<1> QED
  BY <1>1, <1>2, <1>15

LEMMA ExecTells ==
    ASSUME NEW t, TxRuns(t), DOMAIN t = {"report", "left", "rows", "go"}, t.left # <<>>,
           NEW s, s = Head(t.left),
           NEW S, OneFact(S), NEW B, B \subseteq Said(S), Telling(t, B)
    PROVE  Telling(IF s.lookup THEN AfterLookup(t, s) ELSE AfterInsert(t, s), B)
<1> DEFINE found == {x \in InTable(t.rows, s.table) : x.value = s.value}
<1>1. s.lookup <=> s.table \in LookedUp
  BY RunsHead DEF TxRuns, StatementOK
<1>2. CASE ~s.lookup
  <2>1. Telling(AfterInsert(t, s), B)
    BY <1>1, <1>2, InsertTells
  <2> QED
    BY <1>2, <2>1
<1>3. CASE s.lookup /\ found = {}
  <2>1. \A x \in t.rows : ~(x.table = s.table /\ x.value = s.value)
    BY <1>3 DEF InTable
  <2>2. Telling(AfterInsert(t, s), B)
    BY <2>1, InsertTells
  <2>3. AfterLookup(t, s) = AfterInsert(t, s)
    BY <1>3 DEF AfterLookup
  <2> QED
    BY <1>3, <2>2, <2>3
<1>4. CASE s.lookup /\ found # {}
  <2>1. PICK i : i = CHOOSE j \in Ids(found) : TRUE
    OBVIOUS
  <2>2. \E i0 \in Ids(found) : TRUE
    BY <1>4 DEF Ids
  <2>3. i \in Ids(found)
    BY <2>1, <2>2
  <2>4. PICK y \in found : y.id = i
    BY <2>3 DEF Ids
  <2>5. y \in t.rows /\ y.table = s.table /\ y.value = s.value
    BY DEF InTable
  <2>6. AfterLookup(t, s) = [t EXCEPT !.left = Tail(@), !.go[s.sets] = i]
    BY <1>4, <2>1 DEF AfterLookup
  <2>7. Telling([t EXCEPT !.left = Tail(@), !.go[s.sets] = y.id], B)
    BY <1>4, <2>5, FoundTells
  <2>8. Telling(AfterLookup(t, s), B)
    BY <2>4, <2>6, <2>7
  <2> QED
    BY <1>4, <2>8
<1> QED
  BY <1>2, <1>3, <1>4

-----------------------------------------------------------------------------
(* What is looked up by its table and its value is one fact.               *)

\* SaveReport looks a host up by its name and its address, whatever deployment
\* it was saved for: so no such host is in two deployments of one command.
OneDeployment ==
    \A c \in Command : \A r, s \in Batch[c] : \A h \in ToSet(r.hosts), k \in ToSet(s.hosts) :
       h.host = k.host => r.deployment = s.deployment

\* What is looked up is a string, or a host of the report r.
Shared(r, f) ==
    f.table \in LookedUp =>
       \/ f.table # "hosts" /\ f = Plain(f.table, f.value)
       \/ \E h \in ToSet(r.hosts) : f = HostFact(r, h)

LEMMA StringsShared ==
    /\ \A r, v, t : t # "hosts" => Shared(r, Plain(t, v))
    /\ \A r, v, o, t : t \notin LookedUp => Shared(r, Fact(t, v, o))
<1>1. ASSUME NEW r, NEW v, NEW t, t # "hosts" PROVE Shared(r, Plain(t, v))
  <2>1. PICK f : f = Plain(t, v)
    OBVIOUS
  <2>2. f.table = t /\ f.value = v
    BY <2>1, FactFields DEF Plain
  <2> QED
    BY <1>1, <2>1, <2>2 DEF Shared
<1>2. ASSUME NEW r, NEW v, NEW o, NEW t, t \notin LookedUp PROVE Shared(r, Fact(t, v, o))
  BY <1>2, FactFields DEF Shared
<1> QED
  BY <1>1, <1>2

LEMMA NotLookedUp ==
    /\ "processes" \notin LookedUp /\ "ports" \notin LookedUp /\ "tls_certificates" \notin LookedUp
    /\ "tls_scan_errors" \notin LookedUp /\ "certificate_to_ciphersuite" \notin LookedUp
    /\ "env_vars" \notin LookedUp /\ "files" \notin LookedUp /\ "ssh_keys" \notin LookedUp
    /\ "releases" \notin LookedUp /\ "file_to_regex" \notin LookedUp
    /\ "deployments" # "hosts" /\ "tls_suites" # "hosts" /\ "tls_ciphers" # "hosts" /\ "regexes" # "hosts"
BY DEF LookedUp

LEMMA FactsShared == \A r : \A f \in Facts(r) : Shared(r, f)
<1> SUFFICES ASSUME NEW r, NEW f \in Facts(r) PROVE Shared(r, f)
  OBVIOUS
<1>1. CASE f = Plain("deployments", r.deployment)
  BY <1>1, StringsShared, NotLookedUp
<1>2. ASSUME NEW x, NEW o, f = Fact("releases", x, o) PROVE Shared(r, f)
  BY <1>2, StringsShared, NotLookedUp
<1>3. ASSUME NEW h \in ToSet(r.hosts), f \in HostFacts(r, h) PROVE Shared(r, f)
  <2>1. CASE f = HostFact(r, h)
    BY <2>1 DEF Shared
  <2>2. ASSUME NEW k, NEW o, f = Fact("ssh_keys", k, o) PROVE Shared(r, f)
    BY <2>2, StringsShared, NotLookedUp
  <2>3. ASSUME NEW s, f \in ServiceFacts(r, h, s) PROVE Shared(r, f)
    <3>1. CASE f = ServiceFact(r, h, s)
      BY <3>1, StringsShared, NotLookedUp DEF ServiceFact
    <3>2. ASSUME NEW o, f = Fact("env_vars", s.env, o) PROVE Shared(r, f)
      BY <3>2, StringsShared, NotLookedUp
    <3>3. ASSUME NEW p, f = PortFact(r, h, s, p) PROVE Shared(r, f)
      BY <3>3, StringsShared, NotLookedUp DEF PortFact
    <3>4. ASSUME NEW port, NEW t, f \in TLSFacts(port, t) PROVE Shared(r, f)
      <4>1. f \in TLSFacts(port, t) =>
              \/ \E e, o : f = Fact("tls_scan_errors", e, o)
              \/ \E o : f = Fact("tls_certificates", t.cert, o)
              \/ \E v : f = Plain("tls_suites", v) \/ f = Plain("tls_ciphers", v)
              \/ \E o : f = Fact("certificate_to_ciphersuite", "", o)
        BY DEF TLSFacts
      <4> QED
        BY <3>4, <4>1, StringsShared, NotLookedUp
    <3>5. \/ f = ServiceFact(r, h, s)
          \/ \E o : f = Fact("env_vars", s.env, o)
          \/ \E p : f = PortFact(r, h, s, p) \/ f \in TLSFacts(PortFact(r, h, s, p), p.tls)
      BY <2>3 DEF ServiceFacts
    <3> QED
      BY <3>1, <3>2, <3>3, <3>4, <3>5
  <2>4. ASSUME NEW host, NEW g, f \in RegexFacts(host, g) PROVE Shared(r, f)
    <3>1. \/ \E o : f = Fact("files", g.path, o)
          \/ \E v : f = Plain("regexes", v)
          \/ \E o : f = Fact("file_to_regex", "", o)
      BY <2>4 DEF RegexFacts
    <3> QED
      BY <3>1, StringsShared, NotLookedUp
  <2>5. \/ f = HostFact(r, h)
        \/ \E k, o : f = Fact("ssh_keys", k, o)
        \/ \E s : f \in ServiceFacts(r, h, s)
        \/ \E g : f \in RegexFacts(HostFact(r, h), g)
    BY <1>3 DEF HostFacts
  <2> QED
    BY <2>1, <2>2, <2>3, <2>4, <2>5
<1>4. \/ f = Plain("deployments", r.deployment)
      \/ \E x, o : f = Fact("releases", x, o)
      \/ \E h \in ToSet(r.hosts) : f \in HostFacts(r, h)
  BY DEF Facts
<1> QED
  BY <1>1, <1>2, <1>3, <1>4

LEMMA FactsTold == ASSUME OneDeployment, NEW c \in Command PROVE OneFact(Batch[c])
<1> SUFFICES ASSUME NEW f \in Said(Batch[c]), NEW g \in Said(Batch[c]),
                    f.table = g.table, f.value = g.value, f.table \in LookedUp
             PROVE  f = g
  BY DEF OneFact
<1>1. PICK r \in Batch[c] : f \in Facts(r)
  BY DEF Said
<1>2. PICK s \in Batch[c] : g \in Facts(s)
  BY DEF Said
<1>3. Shared(r, f) /\ Shared(s, g)
  BY <1>1, <1>2, FactsShared
<1>4. \A q, h : HostFact(q, h).table = "hosts" /\ HostFact(q, h).value = h.host
  BY FactFields DEF HostFact
<1>5. CASE f.table # "hosts"
  BY <1>3, <1>4, <1>5, Zenon DEF Shared
<1>6. CASE f.table = "hosts"
  <2>1. PICK h \in ToSet(r.hosts) : f = HostFact(r, h)
    BY <1>3, <1>6 DEF Shared
  <2>2. PICK k \in ToSet(s.hosts) : g = HostFact(s, k)
    BY <1>3, <1>6 DEF Shared
  <2>3. h.host = k.host
    BY <1>4, <2>1, <2>2
  <2>4. r.deployment = s.deployment
    BY <2>3 DEF OneDeployment
  <2> QED
    BY <2>1, <2>2, <2>3, <2>4 DEF HostFact
<1> QED
  BY <1>5, <1>6

-----------------------------------------------------------------------------
(* Every step keeps the database whole.                                    *)

\* The database keeps every string as it is: none looks like a number.
StoredAsIs == \A r \in Report : Kept(Facts(r))

\* The committed rows say what the saved reports say, and an open transaction
\* is about to have added what its own report says.  All of them are reports of
\* the one command that created the file.
Whole ==
    /\ Joinable(rows) /\ Joined(rows) = Said(saved)
    /\ \A c \in Command : cmd[c].ddl = 17 => saved \subseteq Batch[c]
    /\ \A c \in Command : cmd[c].pc = "save" =>
          Telling(tx[c], Said(saved) \cup Facts(tx[c].report))

LEMMA SaidSoFar ==
    /\ Said({}) = {}
    /\ \A S, r : Said(S \cup {r}) = Said(S) \cup Facts(r)
    /\ \A S, T : S \subseteq T => Said(S) \subseteq Said(T)
    /\ \A S : \A r \in S : Facts(r) \subseteq Said(S)
    /\ \A S : Said(S) = {} => S = {}
<1>1. \A r : Plain("deployments", r.deployment) \in Facts(r)
  BY DEF Facts
<1> QED
  BY <1>1 DEF Said

LEMMA WholeInit == Init => Whole
<1> SUFFICES ASSUME Init PROVE Whole
  OBVIOUS
<1>1. rows = {} /\ saved = {} /\ \A c \in Command : cmd[c].pc # "save"
  BY DEF Init
<1> QED
  BY <1>1, JoinedNothing, SaidSoFar DEF Whole

\* A step that leaves the file and what is saved alone, and changes the
\* transaction of at most one command.
LEMMA OthersWhole ==
    ASSUME Whole, NEW c \in Command, UNCHANGED <<rows, saved>>,
           \A d \in Command \ {c} : cmd'[d].pc = cmd[d].pc /\ cmd'[d].ddl = cmd[d].ddl /\ tx'[d] = tx[d],
           cmd'[c].ddl = cmd[c].ddl \/ saved = {},
           cmd'[c].pc = "save" => Telling(tx'[c], Said(saved) \cup Facts(tx'[c].report))
    PROVE  Whole'
<1>1. /\ Joinable(rows') /\ Joined(rows') = Said(saved')
      /\ \A d \in Command : cmd'[d].ddl = 17 => saved' \subseteq Batch[d]
  BY DEF Whole
<1>2. ASSUME NEW d \in Command, cmd'[d].pc = "save"
      PROVE  Telling(tx'[d], Said(saved') \cup Facts(tx'[d].report))
  <2>1. CASE d = c
    BY <1>2, <2>1
  <2>2. CASE d # c
    <3>1. cmd[d].pc = "save" /\ tx'[d] = tx[d] /\ saved' = saved
      BY <1>2, <2>2
    <3>2. Telling(tx[d], Said(saved) \cup Facts(tx[d].report))
      BY <3>1 DEF Whole
    <3> QED
      BY <3>1, <3>2
  <2> QED
    BY <2>1, <2>2
<1> QED
  BY <1>1, <1>2 DEF Whole

\* Nothing has been said when a transaction begins, and no Go variable is set.
LEMMA BeginTells ==
    ASSUME Whole, StoredAsIs, NEW r \in Report, NEW t, t.left = Statements(r), t.rows = rows,
           \A v \in Variables : t.go[v] = 0
    PROVE  Telling(t, Said(saved) \cup Facts(r))
<1>1. PICK R : R = rows
  OBVIOUS
<1>2. Joinable(R) /\ Joined(R) = Said(saved) /\ t.rows = R
  BY <1>1 DEF Whole
<1>3. PICK J : Join(R, J)
  BY <1>2 DEF Joinable
<1>4. PICK E : E = [v \in Names |-> 0]
  OBVIOUS
<1>5. PICK E2 : Says(Statements(r), E, Facts(r), E2)
  BY TellsStatements DEF StoredAsIs
<1>6. Holds(R, J, t.go, E)
  BY DEF Holds
<1> QED
  BY <1>2, <1>3, <1>5, <1>6 DEF Telling

LEMMA BeginWhole ==
    ASSUME Inv, Whole, StoredAsIs, NEW c \in Command, NEW r \in Report, Begin(c, r) PROVE Whole'
<1>1. PICK G : G = [v \in DOMAIN TableOf \cup {""} |-> 0]
  OBVIOUS
<1>2. PICK T : T = Statements(r)
  OBVIOUS
<1>3. PICK t : t = [report |-> r, left |-> T, rows |-> rows, go |-> G]
  OBVIOUS
<1>4. tx' = [tx EXCEPT ![c] = t] /\ Goto(c, "save") /\ UNCHANGED <<rows, saved>>
  BY <1>1, <1>2, <1>3, Zenon DEF Begin
<1>5. tx'[c] = t /\ \A d \in Command \ {c} : tx'[d] = tx[d]
  BY <1>4 DEF Inv, CommandOK
<1>6. /\ \A d \in Command \ {c} : cmd'[d].pc = cmd[d].pc
      /\ \A d \in Command : cmd'[d].ddl = cmd[d].ddl
  BY <1>4, OneCommandGoes DEF Pcs
<1>7. \A v \in Variables : G[v] = 0
  BY <1>1 DEF Variables
<1>8. t.report = r /\ t.left = T /\ t.rows = rows /\ t.go = G
  BY <1>3
<1>9. Telling(t, Said(saved) \cup Facts(r))
  BY <1>2, <1>7, <1>8, BeginTells
<1> QED
  BY <1>4, <1>5, <1>6, <1>8, <1>9, OthersWhole

LEMMA ExecWhole ==
    ASSUME Inv, Data, Whole, OneDeployment, NEW c \in Command, Exec(c) PROVE Whole'
<1>1. PICK t : t = tx[c]
  OBVIOUS
<1>2. PICK s : s = Head(t.left)
  OBVIOUS
<1>3. /\ cmd[c].pc = "save" /\ t.left # <<>> /\ UNCHANGED <<rows, saved, cmd>>
      /\ tx' = [tx EXCEPT ![c] = IF s.lookup THEN AfterLookup(t, s) ELSE AfterInsert(t, s)]
  BY <1>1, <1>2, Zenon DEF Exec
<1>4. TxRuns(t) /\ DOMAIN t = {"report", "left", "rows", "go"}
  BY <1>1, <1>3 DEF Data, Inv, TxSound
<1>5. t.report \in Batch[c] /\ saved \subseteq Batch[c]
  BY <1>1, <1>3 DEF Inv, TxSound, Progress, Whole
<1>6. PICK B : B = Said(saved) \cup Facts(t.report)
  OBVIOUS
<1>7. B \subseteq Said(Batch[c])
  BY <1>6, <1>5, SaidSoFar
<1>8. Telling(t, B)
  BY <1>1, <1>3, <1>6 DEF Whole
<1>9. Telling(IF s.lookup THEN AfterLookup(t, s) ELSE AfterInsert(t, s), B)
  <2>1. OneFact(Batch[c])
    BY FactsTold
  <2> QED
    BY <1>2, <1>3, <1>4, <1>7, <1>8, <2>1, ExecTells
<1>10. tx'[c] = IF s.lookup THEN AfterLookup(t, s) ELSE AfterInsert(t, s)
  BY <1>3 DEF Inv, CommandOK
<1>11. tx'[c].report = t.report /\ \A d \in Command \ {c} : tx'[d] = tx[d]
  BY <1>1, ExecAdds
<1>12. Telling(tx'[c], Said(saved) \cup Facts(tx'[c].report))
  BY <1>6, <1>9, <1>10, <1>11
<1> QED
  BY <1>3, <1>11, <1>12, OthersWhole

\* What a transaction with no statement left has said is in its rows.
LEMMA CommitWhole == ASSUME Inv, Data, Whole, NEW c \in Command, Commit(c) PROVE Whole'
<1>1. PICK t : t = tx[c]
  OBVIOUS
<1>2. /\ cmd[c].pc = "save" /\ t.left = <<>> /\ rows' = t.rows /\ saved' = saved \cup {t.report}
  BY <1>1 DEF Commit
<1>3. Telling(t, Said(saved) \cup Facts(t.report))
  BY <1>1, <1>2 DEF Whole
<1>4. Joinable(t.rows) /\ Joined(t.rows) = Said(saved) \cup Facts(t.report)
  <2>1. PICK E, A, E2 : Says(<<>>, E, A, E2) /\ Joined(t.rows) \cup A = Said(saved) \cup Facts(t.report)
    BY <1>2, <1>3 DEF Telling
  <2> QED
    BY <1>3, <2>1, SaysNothing DEF Telling
<1>5. Joinable(rows') /\ Joined(rows') = Said(saved')
  BY <1>2, <1>4, SaidSoFar
<1>6. \A d \in Command : cmd'[d].pc # "save"
  BY NoneSaves
<1>7. \A d \in Command : cmd'[d].ddl = 17 => saved' \subseteq Batch[d]
  <2>1. cmd[c].ddl = 17 /\ t.report \in Batch[c]
    BY <1>1, <1>2 DEF Inv, Progress, TxSound
  <2>2. \A d \in Command \ {c} : cmd'[d] = cmd[d] /\ cmd[d].ddl # 17
    BY <2>1 DEF Commit, Inv, CommandOK, InOrder
  <2> QED
    BY <1>2, <2>1, <2>2 DEF Whole
<1> QED
  BY <1>5, <1>6, <1>7 DEF Whole

LEMMA ExecDDLWhole == ASSUME Inv, Data, Whole, NEW c \in Command, ExecDDL(c) PROVE Whole'
<1>1. \A d \in Command \ {c} : cmd'[d] = cmd[d]
  BY DEF ExecDDL, Inv, CommandOK
<1>2. cmd'[c].pc # "save" /\ UNCHANGED <<rows, saved, tx>>
  BY StillNoneSaves DEF ExecDDL
<1>3. saved = {}
  <2>1. version = <<>> /\ cmd[c].pc = "create"
    BY CreatesAlone DEF ExecDDL
  <2>2. rows = {}
    BY <2>1, VersionsDiffer DEF Data
  <2> QED
    BY <2>2, JoinedNothing, SaidSoFar DEF Whole
<1> QED
  BY <1>1, <1>2, <1>3, OthersWhole

LEMMA RemoveWhole == ASSUME RemoveFile PROVE Whole'
<1>1. rows' = {} /\ saved' = {} /\ \A c \in Command : cmd'[c].pc # "save"
  BY DEF RemoveFile
<1> QED
  BY <1>1, JoinedNothing, SaidSoFar DEF Whole

LEMMA NextWhole ==
    ASSUME StoredAsIs, OneDeployment PROVE Inv /\ Data /\ Whole /\ [Next]_vars => Whole'
<1> SUFFICES ASSUME Inv, Data, Whole, [Next]_vars PROVE Whole'
  OBVIOUS
<1>1. ASSUME NEW c \in Command, CommandStep(c) PROVE Whole'
  <2>1. ASSUME NEW pc \in Pcs \ {"save"}, Goto(c, pc), UNCHANGED <<rows, saved>>,
               \A d \in Command \ {c} : tx'[d] = tx[d]
        PROVE  Whole'
    <3>1. /\ cmd'[c].pc = pc /\ \A d \in Command \ {c} : cmd'[d].pc = cmd[d].pc
          /\ \A d \in Command : cmd'[d].ddl = cmd[d].ddl
      BY <2>1, OneCommandGoes
    <3> QED
      BY <2>1, <3>1, OthersWhole
  <2>2. CASE Stat(c)
    BY <2>1, <2>2 DEF Stat, Pcs
  <2>3. CASE Succeed(c)
    BY <2>1, <2>3 DEF Succeed, Pcs
  <2>4. CASE Die(c)
    BY <2>1, <2>4 DEF Die, Pcs, Inv, CommandOK
  <2>5. ASSUME NEW r \in Report, Begin(c, r) PROVE Whole'
    BY <2>5, BeginWhole
  <2> QED
    BY <1>1, <2>2, <2>3, <2>4, <2>5, ExecDDLWhole, ExecWhole, CommitWhole DEF CommandStep
<1>2. CASE OpenDatabase \/ CloseDatabase \/ UNCHANGED vars
  <2>1. UNCHANGED <<rows, saved, cmd, tx>>
    BY <1>2 DEF OpenDatabase, CloseDatabase, vars
  <2> QED
    BY <2>1 DEF Whole
<1>3. CASE RemoveFile
  BY <1>3, RemoveWhole
<1> QED
  BY <1>1, <1>2, <1>3 DEF Next

\* What the tables say, joined along their keys, is exactly what the saved
\* reports say, at every moment and however many commands save them, if the
\* database keeps the strings as they are and no host is in two deployments of
\* one command.
THEOREM SavedReportsAreWhole ==
    ASSUME StoredAsIs, OneDeployment PROVE ReportsSpec => []ReportsWhole
<1>1. ReportsInit => Whole
  BY WholeInit DEF ReportsInit
<1>2. Inv /\ Data /\ Whole /\ [ReportsNext]_allVars => Whole'
  BY NextWhole, ReportStepSound
<1>3. Whole /\ NamesUnique => ReportsWhole
  BY DEF Whole, ReportsWhole, Said
<1> QED
  BY <1>1, <1>2, <1>3, DataInvariant, LookupsAreUnique, PTL DEF ReportsSpec

-----------------------------------------------------------------------------
(* Reading the tables: a query follows the keys of a row as the reading J  *)
(* follows them.                                                           *)

\* The rows R can be read in one way, J, and say what the reports S say.
Reading(R, J, S) == Store(R) /\ Joinable(R) /\ Join(R, J) /\ Joined(R) = Said(S)

LEMMA RowSays ==
    ASSUME NEW R, NEW J, NEW S, Reading(R, J, S)
    PROVE  /\ \A x \in R : J[x] \in Said(S) /\ J[x].table = x.table /\ J[x].value = x.value
           /\ \A f \in Said(S) : \E x \in R : J[x] = f
<1>1. Joined(R) = {J[x] : x \in R}
  BY JoinedIs DEF Reading
<1>2. Said(S) = {J[x] : x \in R}
  BY <1>1 DEF Reading
<1>3. ASSUME NEW x \in R PROVE J[x].table = x.table /\ J[x].value = x.value
  <2>1. J[x] = Fact(x.table, x.value, [v \in DOMAIN x.of |-> J[Referred(R, x, v)]])
    BY Zenon DEF Reading, Join
  <2> QED
    BY <2>1 DEF Fact
<1> QED
  BY <1>2, <1>3

\* The key v of the row x refers to a row that says what J says of the key.
LEMMA KeySays ==
    ASSUME NEW R, NEW J, NEW S, Reading(R, J, S), NEW x \in R, NEW f, f = J[x],
           NEW v \in DOMAIN f.of, NEW g, g = f.of[v]
    PROVE  \E y \in R : Refers(R, x, v) = y /\ J[y] = g /\ y.table = TableOf[v] /\ y.value = g.value
<1>1. PICK o : o = [n \in DOMAIN x.of |-> J[Referred(R, x, n)]]
  OBVIOUS
<1>2. f = Fact(x.table, x.value, o)
  BY <1>1, JoinFields DEF Reading
<1>3. f.of = o
  BY <1>2, FactFields
<1>4. v \in DOMAIN x.of /\ g = J[Referred(R, x, v)]
  BY <1>1, <1>3
<1>5. PICK y \in R : y.table = TableOf[v] /\ y.id = x.of[v]
  BY <1>4 DEF Reading, Store, HasRow
<1>6. Referred(R, x, v) = y
  BY <1>5, ReferredIs DEF Reading
<1>7. \A z \in R : z.table = TableOf[v] /\ z.id = x.of[v] => z = y
  BY <1>5 DEF Reading, Store
<1>8. Refers(R, x, v) = y
  BY <1>5, <1>7 DEF Refers, InTable
<1>9. J[y].value = y.value
  BY RowSays
<1> QED
  BY <1>4, <1>5, <1>6, <1>8, <1>9

-----------------------------------------------------------------------------
(* The facts of a report, table by table.                                  *)

OtherTables == {"tls_scan_errors", "tls_certificates", "tls_suites", "tls_ciphers",
                "certificate_to_ciphersuite"}

LEMMA FactTables ==
    /\ \A port, t : \A f \in TLSFacts(port, t) : f.table \in OtherTables
    /\ \A host, g : \A f \in RegexFacts(host, g) : f.table \in {"files", "regexes", "file_to_regex"}
    /\ \A r, h : HostFact(r, h).table = "hosts" /\ HostFact(r, h).value = h.host
    /\ \A r, h, s : ServiceFact(r, h, s).table = "processes" /\ ServiceFact(r, h, s).value = s.name
                    /\ ServiceFact(r, h, s).of = [hostID |-> HostFact(r, h)]
    /\ \A r, h, s, p : PortFact(r, h, s, p).table = "ports" /\ PortFact(r, h, s, p).value = p.number
                       /\ PortFact(r, h, s, p).of = [processID |-> ServiceFact(r, h, s)]
    /\ \A t, v : Plain(t, v).table = t /\ Plain(t, v).value = v
<1>0. \A t, v : Plain(t, v).table = t /\ Plain(t, v).value = v
  BY FactFields DEF Plain
<1>1. ASSUME NEW port, NEW t, NEW f \in TLSFacts(port, t) PROVE f.table \in OtherTables
  <2>1. \/ \E e, o : f = Fact("tls_scan_errors", e, o)
        \/ \E o : f = Fact("tls_certificates", t.cert, o)
        \/ \E v : f = Plain("tls_suites", v) \/ f = Plain("tls_ciphers", v)
        \/ \E v, o : f = Fact("certificate_to_ciphersuite", v, o)
    BY DEF TLSFacts
  <2>2. CASE \E e, o : f = Fact("tls_scan_errors", e, o)
    BY <2>2, FactFields DEF OtherTables
  <2>3. CASE \E o : f = Fact("tls_certificates", t.cert, o)
    BY <2>3, FactFields DEF OtherTables
  <2>4. CASE \E v : f = Plain("tls_suites", v) \/ f = Plain("tls_ciphers", v)
    BY <1>0, <2>4 DEF OtherTables
  <2>5. CASE \E v, o : f = Fact("certificate_to_ciphersuite", v, o)
    BY <2>5, FactFields DEF OtherTables
  <2> QED
    BY <2>1, <2>2, <2>3, <2>4, <2>5
<1>2. ASSUME NEW host, NEW g, NEW f \in RegexFacts(host, g)
      PROVE  f.table \in {"files", "regexes", "file_to_regex"}
  <2>0. \/ \E o : f = Fact("files", g.path, o)
        \/ \E v : f = Plain("regexes", v)
        \/ \E o : f = Fact("file_to_regex", "", o)
    BY DEF RegexFacts
  <2>1. \/ \E o : f = Fact("files", g.path, o)
        \/ \E v : f = Plain("regexes", v)
        \/ \E v, o : f = Fact("file_to_regex", v, o)
    BY <2>0, Zenon
  <2>2. CASE \E o : f = Fact("files", g.path, o)
    BY <2>2, FactFields
  <2>3. CASE \E v : f = Plain("regexes", v)
    BY <1>0, <2>3
  <2>4. CASE \E v, o : f = Fact("file_to_regex", v, o)
    BY <2>4, FactFields
  <2> QED
    BY <2>1, <2>2, <2>3, <2>4
<1>4. \A r, h : HostFact(r, h).table = "hosts" /\ HostFact(r, h).value = h.host
  BY FactFields DEF HostFact
<1>5. \A r, h, s : ServiceFact(r, h, s).table = "processes" /\ ServiceFact(r, h, s).value = s.name
                    /\ ServiceFact(r, h, s).of = [hostID |-> HostFact(r, h)]
  BY FactFields DEF ServiceFact
<1>6. \A r, h, s, p : PortFact(r, h, s, p).table = "ports" /\ PortFact(r, h, s, p).value = p.number
                       /\ PortFact(r, h, s, p).of = [processID |-> ServiceFact(r, h, s)]
  BY FactFields DEF PortFact
<1> QED
  BY <1>0, <1>1, <1>2, <1>4, <1>5, <1>6

\* The places of a report: a host of one of the reports S, a process of it, a port.
AtHost(S, r, h) == r \in S /\ h \in ToSet(r.hosts)
AtPort(S, r, h, s, p) == AtHost(S, r, h) /\ s \in ToSet(h.services) /\ p \in ToSet(s.ports)

\* The fact that the port of a certificate offers a cipher of a suite.
PairFact(port, t, u, x) ==
    Fact("certificate_to_ciphersuite", "",
         [certID |-> CertFact(port, t), suiteID |-> Plain("tls_suites", u.suite),
          cipherID |-> Plain("tls_ciphers", x)])

\* A port p offers the cipher x of the suite u.
Offers(p, u, x) ==
    p.tls # NoTLS /\ p.tls.cert # "" /\ u \in ToSet(p.tls.suites) /\ x \in ToSet(u.ciphers)

LEMMA PlacesOfFacts ==
    ASSUME NEW S, NEW f \in Said(S)
    PROVE  \/ f.table \in {"deployments", "releases", "hosts", "processes", "env_vars"}
           \/ \E r, h : AtHost(S, r, h) /\
                 \/ \E k \in ToSet(h.keys) : f = Fact("ssh_keys", k, [hostID |-> HostFact(r, h)])
                 \/ \E g \in ToSet(h.files) : f \in RegexFacts(HostFact(r, h), g)
           \/ \E r, h, s, p : AtPort(S, r, h, s, p) /\
                 \/ f = PortFact(r, h, s, p)
                 \/ p.tls # NoTLS /\ f \in TLSFacts(PortFact(r, h, s, p), p.tls)
<1>1. PICK r \in S : f \in Facts(r)
  BY DEF Said
<1>2. \/ f = Plain("deployments", r.deployment)
      \/ \E x, o : f = Fact("releases", x, o)
      \/ \E h \in ToSet(r.hosts) : f \in HostFacts(r, h)
  BY <1>1 DEF Facts
<1>3. CASE f = Plain("deployments", r.deployment)
  BY <1>3, FactTables
<1>4. CASE \E x, o : f = Fact("releases", x, o)
  BY <1>4, FactFields
<1>5. CASE \E h \in ToSet(r.hosts) : f \in HostFacts(r, h)
  <2>1. PICK h \in ToSet(r.hosts) : f \in HostFacts(r, h)
    BY <1>5
  <2>2. AtHost(S, r, h)
    BY DEF AtHost
  <2>3. \/ f = HostFact(r, h)
        \/ \E k \in ToSet(h.keys) : f = Fact("ssh_keys", k, [hostID |-> HostFact(r, h)])
        \/ \E s \in ToSet(h.services) : f \in ServiceFacts(r, h, s)
        \/ \E g \in ToSet(h.files) : f \in RegexFacts(HostFact(r, h), g)
    BY <2>1 DEF HostFacts
  <2>4. CASE f = HostFact(r, h)
    BY <2>4, FactTables
  <2>5. ASSUME NEW s \in ToSet(h.services), f \in ServiceFacts(r, h, s)
        PROVE  \/ f.table \in {"deployments", "releases", "hosts", "processes", "env_vars"}
               \/ \E p : AtPort(S, r, h, s, p) /\
                    \/ f = PortFact(r, h, s, p)
                    \/ p.tls # NoTLS /\ f \in TLSFacts(PortFact(r, h, s, p), p.tls)
    <3>1. \/ f = ServiceFact(r, h, s)
          \/ \E o : f = Fact("env_vars", s.env, o)
          \/ \E p \in ToSet(s.ports) : \/ f = PortFact(r, h, s, p)
                                       \/ p.tls # NoTLS /\ f \in TLSFacts(PortFact(r, h, s, p), p.tls)
      BY <2>5 DEF ServiceFacts
    <3>2. CASE f = ServiceFact(r, h, s)
      BY <3>2, FactTables
    <3>3. CASE \E o : f = Fact("env_vars", s.env, o)
      BY <3>3, FactFields
    <3> QED
      BY <2>2, <3>1, <3>2, <3>3 DEF AtPort
  <2> QED
    BY <2>2, <2>3, <2>4, <2>5
<1> QED
  BY <1>2, <1>3, <1>4, <1>5

LEMMA PortsSaid ==
    ASSUME NEW S
    PROVE  /\ \A f \in Said(S) : f.table = "ports" =>
                \E r, h, s, p : AtPort(S, r, h, s, p) /\ f = PortFact(r, h, s, p)
           /\ \A r, h, s, p : AtPort(S, r, h, s, p) => PortFact(r, h, s, p) \in Said(S)
<1>1. ASSUME NEW f \in Said(S), f.table = "ports"
      PROVE  \E r, h, s, p : AtPort(S, r, h, s, p) /\ f = PortFact(r, h, s, p)
  <2>1. \A port, t : f \notin TLSFacts(port, t)
    BY <1>1, FactTables DEF OtherTables
  <2>2. \A host, g : f \notin RegexFacts(host, g)
    BY <1>1, FactTables
  <2>3. \A k, o : f # Fact("ssh_keys", k, o)
    BY <1>1, FactFields
  <2> QED
    BY <1>1, <2>1, <2>2, <2>3, PlacesOfFacts
<1>2. ASSUME NEW r, NEW h, NEW s, NEW p, AtPort(S, r, h, s, p) PROVE PortFact(r, h, s, p) \in Said(S)
  <2>1. PortFact(r, h, s, p) \in ServiceFacts(r, h, s)
    BY <1>2 DEF ServiceFacts, AtPort
  <2>2. PortFact(r, h, s, p) \in HostFacts(r, h)
    BY <1>2, <2>1 DEF HostFacts, AtPort
  <2> QED
    BY <1>2, <2>2 DEF Said, Facts, AtPort, AtHost
<1> QED
  BY <1>1, <1>2

LEMMA FilesSaid ==
    ASSUME NEW S
    PROVE  /\ \A f \in Said(S) : f.table = "files" =>
                \E r, h, g : /\ AtHost(S, r, h) /\ g \in ToSet(h.files)
                             /\ f = Fact("files", g.path, [hostID |-> HostFact(r, h)])
           /\ \A r, h, g : AtHost(S, r, h) /\ g \in ToSet(h.files) =>
                Fact("files", g.path, [hostID |-> HostFact(r, h)]) \in Said(S)
<1>1. ASSUME NEW f \in Said(S), f.table = "files"
      PROVE  \E r, h, g : /\ AtHost(S, r, h) /\ g \in ToSet(h.files)
                          /\ f = Fact("files", g.path, [hostID |-> HostFact(r, h)])
  <2>1. \A port, t : f \notin TLSFacts(port, t)
    BY <1>1, FactTables DEF OtherTables
  <2>2. \A r, h, s, p : f # PortFact(r, h, s, p)
    BY <1>1, FactTables
  <2>3. \A k, o : f # Fact("ssh_keys", k, o)
    BY <1>1, FactFields
  <2>4. PICK r, h : AtHost(S, r, h) /\ \E g \in ToSet(h.files) : f \in RegexFacts(HostFact(r, h), g)
    BY <1>1, <2>1, <2>2, <2>3, PlacesOfFacts
  <2>5. PICK g \in ToSet(h.files) : f \in RegexFacts(HostFact(r, h), g)
    BY <2>4
  <2>6. \/ f = Fact("files", g.path, [hostID |-> HostFact(r, h)])
        \/ \E v : f = Plain("regexes", v)
        \/ \E o : f = Fact("file_to_regex", "", o)
    BY <2>5 DEF RegexFacts
  <2>7. \A v : f # Plain("regexes", v)
    BY <1>1, FactTables
  <2>8. \A v, o : f # Fact("file_to_regex", v, o)
    BY <1>1, FactFields
  <2> QED
    BY <2>4, <2>5, <2>6, <2>7, <2>8, Zenon
<1>2. ASSUME NEW r, NEW h, NEW g, AtHost(S, r, h), g \in ToSet(h.files)
      PROVE  Fact("files", g.path, [hostID |-> HostFact(r, h)]) \in Said(S)
  <2>1. Fact("files", g.path, [hostID |-> HostFact(r, h)]) \in RegexFacts(HostFact(r, h), g)
    BY DEF RegexFacts
  <2>2. Fact("files", g.path, [hostID |-> HostFact(r, h)]) \in HostFacts(r, h)
    BY <1>2, <2>1 DEF HostFacts
  <2> QED
    BY <1>2, <2>2 DEF Said, Facts, AtHost
<1> QED
  BY <1>1, <1>2

LEMMA KeysSaid ==
    ASSUME NEW S
    PROVE  /\ \A f \in Said(S) : f.table = "ssh_keys" =>
                \E r, h, k : /\ AtHost(S, r, h) /\ k \in ToSet(h.keys)
                             /\ f = Fact("ssh_keys", k, [hostID |-> HostFact(r, h)])
           /\ \A r, h, k : AtHost(S, r, h) /\ k \in ToSet(h.keys) =>
                Fact("ssh_keys", k, [hostID |-> HostFact(r, h)]) \in Said(S)
<1>1. ASSUME NEW f \in Said(S), f.table = "ssh_keys"
      PROVE  \E r, h, k : /\ AtHost(S, r, h) /\ k \in ToSet(h.keys)
                          /\ f = Fact("ssh_keys", k, [hostID |-> HostFact(r, h)])
  <2>1. \A port, t : f \notin TLSFacts(port, t)
    BY <1>1, FactTables DEF OtherTables
  <2>2. \A r, h, s, p : f # PortFact(r, h, s, p)
    BY <1>1, FactTables
  <2>3. \A host, g : f \notin RegexFacts(host, g)
    BY <1>1, FactTables
  <2> QED
    BY <1>1, <2>1, <2>2, <2>3, PlacesOfFacts
<1>2. ASSUME NEW r, NEW h, NEW k, AtHost(S, r, h), k \in ToSet(h.keys)
      PROVE  Fact("ssh_keys", k, [hostID |-> HostFact(r, h)]) \in Said(S)
  <2>1. Fact("ssh_keys", k, [hostID |-> HostFact(r, h)]) \in HostFacts(r, h)
    BY <1>2 DEF HostFacts
  <2> QED
    BY <1>2, <2>1 DEF Said, Facts, AtHost
<1> QED
  BY <1>1, <1>2

\* The suites of a certificate with their ciphers.
Pairs(t) == UNION {{c} \X ToSet(c.ciphers) : c \in ToSet(t.suites)}

LEMMA PairsOfTLS ==
    ASSUME NEW port, NEW t, NEW f
    PROVE  f \in TLSFacts(port, t) <=>
              \/ f \in ErrorFacts(port, t)
              \/ t.cert # "" /\ f = CertFact(port, t)
              \/ t.cert # "" /\ \E c \in Pairs(t) : f \in PairFacts(CertFact(port, t), c)
<1>1. PICK P : P = UNION {PairFacts(CertFact(port, t), c) : c \in Pairs(t)}
  OBVIOUS
<1>2. TLSFacts(port, t) = ErrorFacts(port, t) \cup (IF t.cert = "" THEN {} ELSE {CertFact(port, t)} \cup P)
  BY <1>1, Zenon DEF TLSFacts, ErrorFacts, CertFact, PairFacts, Pairs
<1>3. f \in P <=> \E c \in Pairs(t) : f \in PairFacts(CertFact(port, t), c)
  BY <1>1
<1> QED
  BY <1>2, <1>3

LEMMA PairsSaid ==
    ASSUME NEW S
    PROVE  /\ \A f \in Said(S) : f.table = "certificate_to_ciphersuite" =>
                \E r, h, s, p, u, x : /\ AtPort(S, r, h, s, p) /\ Offers(p, u, x)
                                      /\ f = PairFact(PortFact(r, h, s, p), p.tls, u, x)
           /\ \A r, h, s, p, u, x : AtPort(S, r, h, s, p) /\ Offers(p, u, x) =>
                PairFact(PortFact(r, h, s, p), p.tls, u, x) \in Said(S)
<1>1. ASSUME NEW f \in Said(S), f.table = "certificate_to_ciphersuite"
      PROVE  \E r, h, s, p, u, x : /\ AtPort(S, r, h, s, p) /\ Offers(p, u, x)
                                   /\ f = PairFact(PortFact(r, h, s, p), p.tls, u, x)
  <2>2. \A r, h, s, p : f # PortFact(r, h, s, p)
    BY <1>1, FactTables
  <2>3. \A k, o : f # Fact("ssh_keys", k, o)
    BY <1>1, FactFields
  <2>4. \A host, g : f \notin RegexFacts(host, g)
    BY <1>1, FactTables
  <2>5. PICK r, h, s, p : /\ AtPort(S, r, h, s, p) /\ p.tls # NoTLS
                          /\ f \in TLSFacts(PortFact(r, h, s, p), p.tls)
    BY <1>1, <2>2, <2>3, <2>4, PlacesOfFacts
  <2>6. PICK port, t : port = PortFact(r, h, s, p) /\ t = p.tls
    OBVIOUS
  <2>7. \/ \E e, o : f = Fact("tls_scan_errors", e, o)
        \/ t.cert # "" /\ f = CertFact(port, t)
        \/ t.cert # "" /\ \E c \in Pairs(t) : f \in PairFacts(CertFact(port, t), c)
    <3>1. \/ f \in ErrorFacts(port, t)
          \/ t.cert # "" /\ f = CertFact(port, t)
          \/ t.cert # "" /\ \E c \in Pairs(t) : f \in PairFacts(CertFact(port, t), c)
      BY <2>5, <2>6, PairsOfTLS
    <3> QED
      BY <3>1 DEF ErrorFacts
  <2>8. \A e, o : f # Fact("tls_scan_errors", e, o)
    BY <1>1, FactFields
  <2>9. f # CertFact(port, t)
    BY <1>1, FactFields DEF CertFact
  <2>10. \A v : f # Plain("tls_suites", v) /\ f # Plain("tls_ciphers", v)
    BY <1>1, FactTables
  <2>11. PICK c \in Pairs(t) : t.cert # "" /\ f = PairFact(port, t, c[1], c[2])
    BY <2>7, <2>8, <2>9, <2>10 DEF PairFacts, PairFact
  <2>12. c[1] \in ToSet(t.suites) /\ c[2] \in ToSet(c[1].ciphers)
    BY DEF Pairs
  <2>13. Offers(p, c[1], c[2])
    BY <2>5, <2>6, <2>11, <2>12 DEF Offers
  <2> QED
    BY <2>5, <2>6, <2>11, <2>13
<1>2. ASSUME NEW r, NEW h, NEW s, NEW p, NEW u, NEW x, AtPort(S, r, h, s, p), Offers(p, u, x)
      PROVE  PairFact(PortFact(r, h, s, p), p.tls, u, x) \in Said(S)
  <2>1. PICK port, t : port = PortFact(r, h, s, p) /\ t = p.tls
    OBVIOUS
  <2>2. t # NoTLS /\ t.cert # "" /\ u \in ToSet(t.suites) /\ x \in ToSet(u.ciphers)
    BY <1>2, <2>1 DEF Offers
  <2>3. PICK c : c = <<u, x>>
    OBVIOUS
  <2>4. c \in Pairs(t) /\ c[1] = u /\ c[2] = x
    <3>1. c \in {u} \X ToSet(u.ciphers) /\ c[1] = u /\ c[2] = x
      BY <2>2, <2>3
    <3> QED
      BY <2>2, <3>1, Zenon DEF Pairs
  <2>5. PairFact(port, t, u, x) \in PairFacts(CertFact(port, t), c)
    BY <2>4 DEF PairFacts, PairFact
  <2>6. PairFact(port, t, u, x) \in TLSFacts(port, t)
    BY <2>2, <2>4, <2>5, PairsOfTLS
  <2>7. s \in ToSet(h.services) /\ p \in ToSet(s.ports) /\ r \in S /\ h \in ToSet(r.hosts)
    BY <1>2 DEF AtPort, AtHost
  <2>8. \A q \in ToSet(s.ports) : q.tls # NoTLS =>
           TLSFacts(PortFact(r, h, s, q), q.tls) \subseteq ServiceFacts(r, h, s)
    BY DEF ServiceFacts
  <2>9. PairFact(port, t, u, x) \in ServiceFacts(r, h, s)
    BY <2>1, <2>2, <2>6, <2>7, <2>8
  <2>10. PairFact(port, t, u, x) \in HostFacts(r, h)
    BY <2>7, <2>9 DEF HostFacts
  <2> QED
    BY <2>1, <2>7, <2>10 DEF Said, Facts
<1> QED
  BY <1>1, <1>2

-----------------------------------------------------------------------------
(* The queries, on rows that say what the reports S say.                   *)

\* How a report identifies the port p of the process s of the host h.
Place(h, s, p) == <<HostName[h.host], PortColumns[p.number].number, s.name>>

LEMMA PortsAre ==
    ASSUME NEW S
    PROVE  /\ \A y \in Ports(S) : \E r, h, s, p :
                 AtPort(S, r, h, s, p) /\ y.for = Place(h, s, p) /\ y.port = p
           /\ \A r, h, s, p : AtPort(S, r, h, s, p) =>
                 \E y \in Ports(S) : y.for = Place(h, s, p) /\ y.port = p
<1>1. \A h : h \in HostsIn(S) <=> \E r : AtHost(S, r, h)
  BY DEF HostsIn, AtHost
<1>2. ASSUME NEW y \in Ports(S)
      PROVE  \E r, h, s, p : AtPort(S, r, h, s, p) /\ y.for = Place(h, s, p) /\ y.port = p
  <2>1. PICK h, s, p : /\ h \in HostsIn(S) /\ s \in ToSet(h.services) /\ p \in ToSet(s.ports)
                       /\ y = [for |-> <<HostName[h.host], PortColumns[p.number].number, s.name>>, port |-> p]
    BY DEF Ports
  <2>2. y = [for |-> Place(h, s, p), port |-> p]
    BY <2>1, Zenon DEF Place
  <2>3. y.for = Place(h, s, p) /\ y.port = p
    BY <2>2
  <2> QED
    BY <1>1, <2>1, <2>3 DEF AtPort
<1>3. ASSUME NEW r, NEW h, NEW s, NEW p, AtPort(S, r, h, s, p)
      PROVE  \E y \in Ports(S) : y.for = Place(h, s, p) /\ y.port = p
  <2>1. PICK y : y = [for |-> Place(h, s, p), port |-> p]
    OBVIOUS
  <2>2. h \in HostsIn(S) /\ s \in ToSet(h.services) /\ p \in ToSet(s.ports)
    BY <1>1, <1>3 DEF AtPort
  <2>3. y \in Ports(S)
    <3> DEFINE F(k, t) == {[for |-> <<HostName[k.host], PortColumns[q.number].number, t.name>>, port |-> q] :
                             q \in ToSet(t.ports)}
    <3>1. y \in F(h, s)
      BY <2>1, <2>2 DEF Place
    <3>2. Ports(S) = UNION {UNION {F(k, t) : t \in ToSet(k.services)} : k \in HostsIn(S)}
      BY DEF Ports
    <3> HIDE DEF F
    <3> QED
      BY <2>2, <3>1, <3>2
  <2> QED
    BY <2>1, <2>3
<1> QED
  BY <1>2, <1>3

\* What a query finds along the keys of a port.
LEMMA PortRow ==
    ASSUME NEW R, NEW J, NEW S, Reading(R, J, S), NEW x \in R,
           NEW r, NEW h, NEW s, NEW p, J[x] = PortFact(r, h, s, p)
    PROVE  /\ x.table = "ports" /\ x.value = p.number /\ HostOfPort(R, x) = HostName[h.host]
           /\ Refers(R, x, "processID").value = s.name
<1>1. x.table = "ports" /\ x.value = p.number
  BY RowSays, FactTables
<1>2. PICK f : f = PortFact(r, h, s, p)
  OBVIOUS
<1>3. PICK g : g = ServiceFact(r, h, s)
  OBVIOUS
<1>4. PICK i : i = HostFact(r, h)
  OBVIOUS
<1>5. f.of = [processID |-> g] /\ g.of = [hostID |-> i] /\ g.value = s.name /\ i.value = h.host
  BY <1>2, <1>3, <1>4, FactTables
<1>6. "processID" \in DOMAIN f.of /\ f.of["processID"] = g
  BY <1>5
<1>7. "hostID" \in DOMAIN g.of /\ g.of["hostID"] = i
  BY <1>5
<1>8. PICK y \in R : Refers(R, x, "processID") = y /\ J[y] = g /\ y.value = g.value
  BY <1>2, <1>6, KeySays
<1>9. PICK z \in R : Refers(R, y, "hostID") = z /\ J[z] = i /\ z.value = i.value
  BY <1>7, <1>8, KeySays
<1> QED
  BY <1>1, <1>5, <1>8, <1>9 DEF HostOfPort, HostOf

\* The row and the file of a host, or its key.
LEMMA HostRow ==
    ASSUME NEW R, NEW J, NEW S, Reading(R, J, S), NEW x \in R,
           NEW r, NEW h, NEW t, NEW v, J[x] = Fact(t, v, [hostID |-> HostFact(r, h)])
    PROVE  x.table = t /\ x.value = v /\ HostOf(R, x) = HostName[h.host]
<1>1. PICK i : i = HostFact(r, h)
  OBVIOUS
<1>2. PICK f : f = Fact(t, v, [hostID |-> i])
  OBVIOUS
<1>3. J[x] = f
  BY <1>1, <1>2
<1>4. f.table = t /\ f.value = v /\ f.of = [hostID |-> i]
  BY <1>2, FactFields
<1>5. "hostID" \in DOMAIN f.of /\ f.of["hostID"] = i /\ i.value = h.host
  BY <1>1, <1>4, FactTables
<1>6. PICK y \in R : Refers(R, x, "hostID") = y /\ J[y] = i /\ y.value = i.value
  BY <1>3, <1>5, KeySays
<1> QED
  BY <1>3, <1>4, <1>5, <1>6, RowSays DEF HostOf

\* The files that others may write to a host's jobs.
LEMMA FilesShown ==
    ASSUME NEW R, NEW J, NEW S, Reading(R, J, S)
    PROVE  BuildWorldReadableFilesReport(R) = ReadableFiles(S)
<1>0. PICK W : W = JobsFiles \cap WorldReadable
  OBVIOUS
<1>1. \A y : y \in ReadableFiles(S) <=>
         \E r, h, g : AtHost(S, r, h) /\ g \in ToSet(h.files) /\ g.path \in W /\ y = <<HostName[h.host], g.path>>
  <2>1. \A h : h \in HostsIn(S) <=> \E r : AtHost(S, r, h)
    BY DEF HostsIn, AtHost
  <2> QED
    BY <1>0, <2>1 DEF ReadableFiles
<1>2. \A y : y \in BuildWorldReadableFilesReport(R) <=>
         \E x \in R : x.table = "files" /\ x.value \in W /\ y = <<HostOf(R, x), x.value>>
  BY <1>0 DEF BuildWorldReadableFilesReport, InTable
<1>3. ASSUME NEW x \in R, x.table = "files", x.value \in W
      PROVE  <<HostOf(R, x), x.value>> \in ReadableFiles(S)
  <2>1. J[x] \in Said(S) /\ J[x].table = "files"
    BY <1>3, RowSays
  <2>2. PICK r, h, g : /\ AtHost(S, r, h) /\ g \in ToSet(h.files)
                       /\ J[x] = Fact("files", g.path, [hostID |-> HostFact(r, h)])
    BY <2>1, FilesSaid
  <2>3. x.value = g.path /\ HostOf(R, x) = HostName[h.host]
    BY <2>2, HostRow
  <2> QED
    BY <1>1, <1>3, <2>2, <2>3
<1>4. ASSUME NEW r, NEW h, NEW g, AtHost(S, r, h), g \in ToSet(h.files), g.path \in W
      PROVE  <<HostName[h.host], g.path>> \in BuildWorldReadableFilesReport(R)
  <2>1. Fact("files", g.path, [hostID |-> HostFact(r, h)]) \in Said(S)
    BY <1>4, FilesSaid
  <2>2. PICK x \in R : J[x] = Fact("files", g.path, [hostID |-> HostFact(r, h)])
    BY <2>1, RowSays
  <2>3. x.table = "files" /\ x.value = g.path /\ HostOf(R, x) = HostName[h.host]
    BY <2>2, HostRow
  <2> QED
    BY <1>2, <1>4, <2>3
<1> QED
  BY <1>1, <1>2, <1>3, <1>4

\* The ports of processes of root that others can reach.
LEMMA RootShown ==
    ASSUME NEW R, NEW J, NEW S, Reading(R, J, S)
    PROVE  BuildRootProcessesReport(R) = ExternalRoot(S)
<1> DEFINE Reachable(n, pr) == /\ PortColumns[n].state \in {"LISTEN", "Listen", "Bound"}
                          /\ PortColumns[n].address \notin Internal
                          /\ UserColumn[pr] \in {"root", "SYSTEM"}
                          /\ pr \notin {"sshd", "rpcbind"}
<1>1. \A y : y \in ExternalRoot(S) <=>
         \E x \in Ports(S) : y = x.for /\ Reachable(x.port.number, x.for[3])
  BY DEF ExternalRoot
<1>2. \A y : y \in BuildRootProcessesReport(R) <=>
         \E x \in R : LET pr == Refers(R, x, "processID").value
                      IN  /\ x.table = "ports" /\ Reachable(x.value, pr)
                          /\ y = <<HostOfPort(R, x), PortColumns[x.value].number, pr>>
  BY DEF BuildRootProcessesReport, InTable, Exposed
<1> HIDE DEF Reachable
<1>3. ASSUME NEW x \in R, x.table = "ports", NEW pr, pr = Refers(R, x, "processID").value, Reachable(x.value, pr)
      PROVE  <<HostOfPort(R, x), PortColumns[x.value].number, pr>> \in ExternalRoot(S)
  <2>1. J[x] \in Said(S) /\ J[x].table = "ports"
    BY <1>3, RowSays
  <2>2. PICK r, h, s, p : AtPort(S, r, h, s, p) /\ J[x] = PortFact(r, h, s, p)
    BY <2>1, PortsSaid
  <2>3. x.value = p.number /\ HostOfPort(R, x) = HostName[h.host] /\ pr = s.name
    BY <1>3, <2>2, PortRow
  <2>4. PICK y \in Ports(S) : y.for = Place(h, s, p) /\ y.port = p
    BY <2>2, PortsAre
  <2>5. y.for[3] = s.name /\ y.for = <<HostOfPort(R, x), PortColumns[x.value].number, pr>>
    BY <2>3, <2>4 DEF Place
  <2> QED
    BY <1>1, <1>3, <2>3, <2>4, <2>5
<1>4. ASSUME NEW y \in Ports(S), Reachable(y.port.number, y.for[3])
      PROVE  y.for \in BuildRootProcessesReport(R)
  <2>1. PICK r, h, s, p : AtPort(S, r, h, s, p) /\ y.for = Place(h, s, p) /\ y.port = p
    BY PortsAre
  <2>2. PortFact(r, h, s, p) \in Said(S)
    BY <2>1, PortsSaid
  <2>3. PICK x \in R : J[x] = PortFact(r, h, s, p)
    BY <2>2, RowSays
  <2>4. x.table = "ports" /\ x.value = p.number /\ HostOfPort(R, x) = HostName[h.host]
        /\ Refers(R, x, "processID").value = s.name
    BY <2>3, PortRow
  <2>5. y.for[3] = s.name /\ y.for = <<HostOfPort(R, x), PortColumns[x.value].number, s.name>>
    BY <2>1, <2>4 DEF Place
  <2> QED
    BY <1>2, <1>4, <2>1, <2>4, <2>5
<1>5. BuildRootProcessesReport(R) \subseteq ExternalRoot(S)
  BY <1>2, <1>3
<1>6. ExternalRoot(S) \subseteq BuildRootProcessesReport(R)
  BY <1>1, <1>4
<1> QED
  BY <1>5, <1>6

LEMMA NotEmpty == ASSUME NEW q, Slice(q) PROVE q # <<>> <=> \E x : x \in ToSet(q)
<1>1. PICK n \in Nat : n = Len(q) /\ DOMAIN q = 1..n
  BY LenProperties DEF Slice
<1>2. ASSUME q # <<>> PROVE \E x : x \in ToSet(q)
  <2>1. n # 0
    BY <1>1, <1>2, EmptySeq DEF Slice
  <2>2. q[1] \in ToSet(q)
    BY <1>1, <2>1 DEF ToSet
  <2> QED
    BY <2>2
<1>3. q = <<>> => ToSet(q) = {}
  BY DEF ToSet
<1> QED
  BY <1>2, <1>3

\* Of the reports S, a port at the place f offers the cipher b of the suite a.
Offering(S, f, a, b) ==
    \E r, h, s, p, u : AtPort(S, r, h, s, p) /\ Offers(p, u, b) /\ f = Place(h, s, p) /\ a = u.suite

LEMMA OfferedIs ==
    ASSUME NEW S, NEW f, NEW t
    PROVE  t \in Offered(S, f) <=>
              /\ t.ciphers # <<>>
              /\ \E r, h, s, p : /\ AtPort(S, r, h, s, p) /\ f = Place(h, s, p)
                                 /\ p.tls # NoTLS /\ p.tls.cert # "" /\ t \in ToSet(p.tls.suites)
<1>1. t \in Offered(S, f) <=>
         /\ t.ciphers # <<>>
         /\ \E y \in Ports(S) : /\ y.for = f /\ y.port.tls # NoTLS /\ y.port.tls.cert # ""
                                /\ t \in ToSet(y.port.tls.suites)
  <2> DEFINE Listed(y) == {q \in ToSet(y.port.tls.suites) : q.ciphers # <<>>}
             P == {y \in Ports(S) : y.for = f /\ y.port.tls # NoTLS /\ y.port.tls.cert # ""}
  <2>1. Offered(S, f) = UNION {Listed(y) : y \in P}
    BY Zenon DEF Offered
  <2>2. \A y : t \in Listed(y) <=> t.ciphers # <<>> /\ t \in ToSet(y.port.tls.suites)
    OBVIOUS
  <2>3. \A y : y \in P <=> y \in Ports(S) /\ y.for = f /\ y.port.tls # NoTLS /\ y.port.tls.cert # ""
    OBVIOUS
  <2> HIDE DEF Listed, P
  <2> QED
    BY <2>1, <2>2, <2>3
<1>2. ASSUME NEW y \in Ports(S), y.for = f, y.port.tls # NoTLS, y.port.tls.cert # "",
             t \in ToSet(y.port.tls.suites)
      PROVE  \E r, h, s, p : /\ AtPort(S, r, h, s, p) /\ f = Place(h, s, p)
                             /\ p.tls # NoTLS /\ p.tls.cert # "" /\ t \in ToSet(p.tls.suites)
  <2>1. PICK r, h, s, p : AtPort(S, r, h, s, p) /\ y.for = Place(h, s, p) /\ y.port = p
    BY PortsAre
  <2>2. /\ AtPort(S, r, h, s, p) /\ f = Place(h, s, p)
        /\ p.tls # NoTLS /\ p.tls.cert # "" /\ t \in ToSet(p.tls.suites)
    BY <1>2, <2>1
  <2> QED
    BY <2>2
<1>3. ASSUME NEW r, NEW h, NEW s, NEW p, AtPort(S, r, h, s, p), f = Place(h, s, p),
             p.tls # NoTLS, p.tls.cert # "", t \in ToSet(p.tls.suites)
      PROVE  \E y \in Ports(S) : /\ y.for = f /\ y.port.tls # NoTLS /\ y.port.tls.cert # ""
                                 /\ t \in ToSet(y.port.tls.suites)
  <2>1. PICK y \in Ports(S) : y.for = Place(h, s, p) /\ y.port = p
    <3>1. AtPort(S, r, h, s, p)
      BY <1>3
    <3> QED
      BY <3>1, PortsAre
  <2> QED
    BY <1>3, <2>1
<1> QED
  BY <1>1, <1>2, <1>3

\* The suites offered have ciphers, since what a scan lists is in slices.
LEMMA OfferedAre ==
    ASSUME NEW S, S \subseteq Report, NEW f
    PROVE  /\ \A a : (\E t \in Offered(S, f) : t.suite = a) <=> \E b : Offering(S, f, a, b)
           /\ \A b : (\E t \in Offered(S, f) : b \in ToSet(t.ciphers)) <=> \E a : Offering(S, f, a, b)
<1>1. ASSUME NEW t \in Offered(S, f), NEW b \in ToSet(t.ciphers) PROVE Offering(S, f, t.suite, b)
  <2>1. PICK r, h, s, p : /\ AtPort(S, r, h, s, p) /\ f = Place(h, s, p)
                          /\ p.tls # NoTLS /\ p.tls.cert # "" /\ t \in ToSet(p.tls.suites)
    BY OfferedIs
  <2>2. Offers(p, t, b)
    BY <2>1 DEF Offers
  <2> QED
    BY <2>1, <2>2 DEF Offering
<1>2. ASSUME NEW t \in Offered(S, f) PROVE \E b : b \in ToSet(t.ciphers)
  <2>1. PICK r, h, s, p : /\ AtPort(S, r, h, s, p) /\ f = Place(h, s, p)
                          /\ p.tls # NoTLS /\ p.tls.cert # "" /\ t \in ToSet(p.tls.suites)
    BY OfferedIs
  <2>2. r \in Report /\ h \in ToSet(r.hosts) /\ s \in ToSet(h.services) /\ p \in ToSet(s.ports)
    BY <2>1 DEF AtPort, AtHost
  <2>3. Slice(t.ciphers)
    BY <2>1, <2>2, BatchAssumption DEF IsReport
  <2>4. t.ciphers # <<>>
    BY OfferedIs
  <2> QED
    BY <2>3, <2>4, NotEmpty
<1>3. ASSUME NEW a, NEW b, Offering(S, f, a, b)
      PROVE  \E t \in Offered(S, f) : t.suite = a /\ b \in ToSet(t.ciphers)
  <2>1. PICK r, h, s, p, u : /\ AtPort(S, r, h, s, p) /\ Offers(p, u, b) /\ f = Place(h, s, p)
                             /\ a = u.suite
    BY <1>3 DEF Offering
  <2>2. p.tls # NoTLS /\ p.tls.cert # "" /\ u \in ToSet(p.tls.suites) /\ b \in ToSet(u.ciphers)
    BY <2>1 DEF Offers
  <2>3. u.ciphers # <<>>
    <3>1. ToSet(<<>>) = {}
      BY DEF ToSet
    <3> QED
      BY <2>2, <3>1
  <2>4. u \in Offered(S, f)
    BY <2>1, <2>2, <2>3, OfferedIs
  <2> QED
    BY <2>1, <2>2, <2>4
<1> QED
  BY <1>1, <1>2, <1>3

\* What the query finds along the keys of a suite and a cipher.
TLSRow(R, x) ==
    LET po == Refers(R, Refers(R, x, "certID"), "portID")
    IN  [for |-> <<HostOfPort(R, po), PortColumns[po.value].number, Refers(R, po, "processID").value>>,
         suite |-> Refers(R, x, "suiteID").value, cipher |-> Refers(R, x, "cipherID").value]

TLSRows(R) == {TLSRow(R, x) : x \in InTable(R, "certificate_to_ciphersuite")}

LEMMA TLSRowIs ==
    ASSUME NEW R, NEW J, NEW S, Reading(R, J, S), NEW x \in R,
           NEW r, NEW h, NEW s, NEW p, NEW u, NEW b,
           J[x] = PairFact(PortFact(r, h, s, p), p.tls, u, b)
    PROVE  /\ x.table = "certificate_to_ciphersuite"
           /\ TLSRow(R, x).for = Place(h, s, p) /\ TLSRow(R, x).suite = u.suite /\ TLSRow(R, x).cipher = b
<1>1. PICK c, a, d, e : /\ c = CertFact(PortFact(r, h, s, p), p.tls) /\ a = Plain("tls_suites", u.suite)
                        /\ d = Plain("tls_ciphers", b) /\ e = PortFact(r, h, s, p)
  OBVIOUS
<1>2. PICK f : f = J[x]
  OBVIOUS
<1>3. f.table = "certificate_to_ciphersuite" /\ f.of = [certID |-> c, suiteID |-> a, cipherID |-> d]
  <2>1. \E v, o : o = [certID |-> c, suiteID |-> a, cipherID |-> d]
                 /\ f = Fact("certificate_to_ciphersuite", v, o)
    BY <1>1, <1>2, Zenon DEF PairFact
  <2> QED
    BY <2>1, FactFields
<1>4. c.of = [portID |-> e]
  BY <1>1, FactFields DEF CertFact
<1>5. a.value = u.suite /\ d.value = b
  BY <1>1, FactTables
<1>6. "certID" \in DOMAIN f.of /\ f.of["certID"] = c
  BY <1>3
<1>7. "suiteID" \in DOMAIN f.of /\ f.of["suiteID"] = a
  BY <1>3
<1>8. "cipherID" \in DOMAIN f.of /\ f.of["cipherID"] = d
  BY <1>3
<1>9. "portID" \in DOMAIN c.of /\ c.of["portID"] = e
  BY <1>4
<1>10. PICK y \in R : Refers(R, x, "certID") = y /\ J[y] = c
  BY <1>2, <1>6, KeySays
<1>11. PICK z \in R : Refers(R, y, "portID") = z /\ J[z] = e
  BY <1>9, <1>10, KeySays
<1>12. Refers(R, x, "suiteID").value = u.suite
  BY <1>2, <1>5, <1>7, KeySays
<1>13. Refers(R, x, "cipherID").value = b
  BY <1>2, <1>5, <1>8, KeySays
<1>14. z.value = p.number /\ HostOfPort(R, z) = HostName[h.host] /\ Refers(R, z, "processID").value = s.name
  BY <1>1, <1>11, PortRow
<1>15. TLSRow(R, x) = [for |-> Place(h, s, p), suite |-> u.suite, cipher |-> b]
  BY <1>10, <1>11, <1>12, <1>13, <1>14, Zenon DEF TLSRow, Place
<1>16. TLSRow(R, x).for = Place(h, s, p) /\ TLSRow(R, x).suite = u.suite /\ TLSRow(R, x).cipher = b
  BY <1>15
<1> QED
  BY <1>2, <1>3, <1>16, RowSays

\* What both sides of the comparison come to.
WeakSuites(S, f) == {a \in {t.suite : t \in Offered(S, f)} : a \notin goodSuites}
WeakCiphers(S, f) == {b \in UNION {ToSet(t.ciphers) : t \in Offered(S, f)} : b \notin Recommended}

LEMMA WeakAre ==
    ASSUME NEW S, S \subseteq Report, NEW f
    PROVE  /\ \A a : a \in WeakSuites(S, f) <=> a \notin goodSuites /\ \E b : Offering(S, f, a, b)
           /\ \A b : b \in WeakCiphers(S, f) <=> b \notin Recommended /\ \E a : Offering(S, f, a, b)
<1>1. \A a : a \in WeakSuites(S, f) <=> a \notin goodSuites /\ \E t \in Offered(S, f) : t.suite = a
  BY DEF WeakSuites
<1>2. \A b : b \in WeakCiphers(S, f) <=> b \notin Recommended /\ \E t \in Offered(S, f) : b \in ToSet(t.ciphers)
  BY DEF WeakCiphers
<1>3. /\ \A a : (\E t \in Offered(S, f) : t.suite = a) <=> \E b : Offering(S, f, a, b)
      /\ \A b : (\E t \in Offered(S, f) : b \in ToSet(t.ciphers)) <=> \E a : Offering(S, f, a, b)
  BY OfferedAre
<1> QED
  BY <1>1, <1>2, <1>3, Zenon

\* The violations, told by the offers.
LEMMA WeakTLSAre ==
    ASSUME NEW S, S \subseteq Report
    PROVE  \A y : y \in WeakTLS(S) <=>
              \E f : /\ WeakSuites(S, f) # {} \/ WeakCiphers(S, f) # {}
                     /\ y = <<f, WeakSuites(S, f), WeakCiphers(S, f)>>
<1>1. WeakTLS(S) = {y \in {<<f, WeakSuites(S, f), WeakCiphers(S, f)>> : f \in {p.for : p \in Ports(S)}} :
                      y[2] # {} \/ y[3] # {}}
  <2>1. ASSUME NEW f
        PROVE  /\ WeakSuites(S, f) = {t.suite : t \in Offered(S, f)} \ goodSuites
               /\ WeakCiphers(S, f) = (UNION {ToSet(t.ciphers) : t \in Offered(S, f)}) \ Recommended
    BY DEF WeakSuites, WeakCiphers
  <2> QED
    BY <2>1, Zenon DEF WeakTLS
<1>2. ASSUME NEW f, WeakSuites(S, f) # {} \/ WeakCiphers(S, f) # {}
       PROVE  f \in {p.for : p \in Ports(S)}
  <2>1. PICK a, b : Offering(S, f, a, b)
    BY <1>2, WeakAre
  <2>2. PICK r, h, s, p, u : AtPort(S, r, h, s, p) /\ f = Place(h, s, p)
    BY <2>1 DEF Offering
  <2>3. \E y \in Ports(S) : y.for = f
    BY <2>2, PortsAre
  <2> QED
    BY <2>3
<1> QED
  BY <1>1, <1>2

\* The rows of the query are the offers of the reports.
LEMMA RowsOffer ==
    ASSUME NEW R, NEW J, NEW S, Reading(R, J, S),
           NEW T, T = TLSRows(R)
    PROVE  /\ \A z \in T : Offering(S, z.for, z.suite, z.cipher)
           /\ \A f, a, b : Offering(S, f, a, b) =>
                 \E z \in T : z.for = f /\ z.suite = a /\ z.cipher = b
<1>1. ASSUME NEW z \in T PROVE Offering(S, z.for, z.suite, z.cipher)
  <2>1. PICK x \in R : x.table = "certificate_to_ciphersuite" /\ z = TLSRow(R, x)
    BY DEF TLSRows, InTable
  <2>2. J[x] \in Said(S) /\ J[x].table = "certificate_to_ciphersuite"
    BY <2>1, RowSays
  <2>3. PICK r, h, s, p, u, b : /\ AtPort(S, r, h, s, p) /\ Offers(p, u, b)
                                /\ J[x] = PairFact(PortFact(r, h, s, p), p.tls, u, b)
    BY <2>2, PairsSaid
  <2>4. /\ TLSRow(R, x).for = Place(h, s, p) /\ TLSRow(R, x).suite = u.suite
        /\ TLSRow(R, x).cipher = b
    BY <2>1, <2>3, TLSRowIs
  <2>5. z.for = Place(h, s, p) /\ z.suite = u.suite /\ z.cipher = b
    BY <2>1, <2>4
  <2> QED
    BY <2>3, <2>5 DEF Offering
<1>2. ASSUME NEW f, NEW a, NEW b, Offering(S, f, a, b)
      PROVE  \E z \in T : z.for = f /\ z.suite = a /\ z.cipher = b
  <2>1. PICK r, h, s, p, u : /\ AtPort(S, r, h, s, p) /\ Offers(p, u, b) /\ f = Place(h, s, p)
                             /\ a = u.suite
    BY <1>2 DEF Offering
  <2>2. PairFact(PortFact(r, h, s, p), p.tls, u, b) \in Said(S)
    BY <2>1, PairsSaid
  <2>3. PICK x \in R : J[x] = PairFact(PortFact(r, h, s, p), p.tls, u, b)
    BY <2>2, RowSays
  <2>4. /\ x.table = "certificate_to_ciphersuite"
        /\ TLSRow(R, x).for = Place(h, s, p) /\ TLSRow(R, x).suite = u.suite
        /\ TLSRow(R, x).cipher = b
    BY <2>3, TLSRowIs
  <2>5. PICK z : z = TLSRow(R, x)
    OBVIOUS
  <2>6. z \in T
    BY <2>4, <2>5 DEF TLSRows, InTable
  <2> QED
    BY <2>1, <2>4, <2>5, <2>6
<1> QED
  BY <1>1, <1>2

LEMMA TLSShown ==
    ASSUME NEW R, NEW J, NEW S, Reading(R, J, S), S \subseteq Report
    PROVE  BuildTLSViolationsReport(R) = WeakTLS(S)
<1>1. PICK T : T = TLSRows(R)
  OBVIOUS
<1>2. PICK found : found = {z \in T : NotApproved(z.suite, z.cipher)}
  OBVIOUS
<1> DEFINE A(f) == {z.suite : z \in {z \in found : z.for = f}} \ goodSuites
           B(f) == {z.cipher : z \in {z \in found : z.for = f}} \ Recommended
<1>3. BuildTLSViolationsReport(R) = {<<f, A(f), B(f)>> : f \in {z.for : z \in found}}
  BY <1>1, <1>2, Zenon DEF BuildTLSViolationsReport, TLSRows, TLSRow
<1>4. /\ \A z \in T : Offering(S, z.for, z.suite, z.cipher)
      /\ \A f, a, b : Offering(S, f, a, b) => \E z \in T : z.for = f /\ z.suite = a /\ z.cipher = b
  BY <1>1, RowsOffer
<1>5. \A z : z \in found <=> z \in T /\ (z.suite \notin goodSuites \/ z.cipher \notin Recommended)
  BY <1>2 DEF NotApproved
<1>6. ASSUME NEW f PROVE A(f) = WeakSuites(S, f) /\ B(f) = WeakCiphers(S, f)
  <2>1. \A a : a \in A(f) <=> a \notin goodSuites /\ \E z \in found : z.for = f /\ z.suite = a
    OBVIOUS
  <2>2. \A b : b \in B(f) <=> b \notin Recommended /\ \E z \in found : z.for = f /\ z.cipher = b
    OBVIOUS
  <2>3. \A a : a \in A(f) <=> a \notin goodSuites /\ \E b : Offering(S, f, a, b)
    BY <1>4, <1>5, <2>1
  <2>4. \A b : b \in B(f) <=> b \notin Recommended /\ \E a : Offering(S, f, a, b)
    BY <1>4, <1>5, <2>2
  <2> HIDE DEF A, B
  <2> QED
    BY <2>3, <2>4, WeakAre
<1>7. ASSUME NEW f
      PROVE  f \in {z.for : z \in found} <=> WeakSuites(S, f) # {} \/ WeakCiphers(S, f) # {}
  <2>1. f \in {z.for : z \in found} <=> \E z \in found : z.for = f
    OBVIOUS
  <2>2. (\E z \in found : z.for = f) <=>
           \E a, b : Offering(S, f, a, b) /\ (a \notin goodSuites \/ b \notin Recommended)
    BY <1>4, <1>5
  <2>3. (\E a, b : Offering(S, f, a, b) /\ (a \notin goodSuites \/ b \notin Recommended)) <=>
           (\E a : a \in WeakSuites(S, f)) \/ (\E b : b \in WeakCiphers(S, f))
    BY WeakAre
  <2> QED
    BY <2>1, <2>2, <2>3
<1> HIDE DEF A, B
<1>8. \A y : y \in BuildTLSViolationsReport(R) <=>
         \E f : /\ WeakSuites(S, f) # {} \/ WeakCiphers(S, f) # {}
                /\ y = <<f, WeakSuites(S, f), WeakCiphers(S, f)>>
  BY <1>3, <1>6, <1>7
<1> QED
  BY <1>8, WeakTLSAre

-----------------------------------------------------------------------------
(* The keys of the hosts.  Two of them that are alike are one fact, so what *)
(* the rows say does not tell how often a key was saved: that each key has  *)
(* a row of its own is another invariant, with a one to one correspondence  *)
(* between the keys that were saved and the rows of ssh_keys.               *)

\* The statements q insert each of the keys K once, and no other.
Inserts(q, K) ==
    /\ \E S : q \in Seq(S)
    /\ \E b : /\ \A k \in K : b[k] \in 1..Len(q) /\ q[b[k]].table = "ssh_keys" /\ q[b[k]].value = k.key
              /\ \A k, l \in K : b[k] = b[l] => k = l
              /\ \A n \in 1..Len(q) : q[n].table = "ssh_keys" => \E k \in K : b[k] = n

LEMMA InsertsNone == ASSUME NEW S, NEW q \in Seq(S), \A n \in 1..Len(q) : q[n].table # "ssh_keys"
                     PROVE  Inserts(q, {})
BY DEF Inserts

LEMMA InsertsOne ==
    ASSUME NEW s, s.table = "ssh_keys", NEW k, s.value = k.key
    PROVE  Inserts(<<s>>, {k})
<1>1. <<s>> \in Seq({s}) /\ Len(<<s>>) = 1 /\ <<s>>[1] = s /\ 1..1 = {1}
  OBVIOUS
<1>2. PICK b : b = [l \in {k} |-> 1]
  OBVIOUS
<1>3. b[k] = 1
  BY <1>2
<1>4. \A l \in {k} : l = k
  OBVIOUS
<1> QED
  BY <1>1, <1>3, <1>4 DEF Inserts

LEMMA InsertsThen ==
    ASSUME NEW p, NEW q, NEW K, NEW L, K \cap L = {}, Inserts(p, K), Inserts(q, L)
    PROVE  Inserts(p \o q, K \cup L)
<1>1. PICK S : p \in Seq(S)
  BY DEF Inserts
<1>2. PICK T : q \in Seq(T)
  BY DEF Inserts
<1>3. PICK U : U = S \cup T
  OBVIOUS
<1>4. p \in Seq(U) /\ q \in Seq(U)
  BY <1>1, <1>2, <1>3, SeqMonotonic
<1>5. PICK r : r = p \o q
  OBVIOUS
<1>6. PICK m \in Nat, n \in Nat : m = Len(p) /\ n = Len(q)
  BY <1>4, LenProperties
<1>7. /\ r \in Seq(U) /\ Len(r) = m + n
      /\ \A i \in 1..(m + n) : r[i] = IF i <= m THEN p[i] ELSE q[i - m]
  BY <1>4, <1>5, <1>6, ConcatProperties
<1>8. PICK b : /\ \A k \in K : b[k] \in 1..m /\ p[b[k]].table = "ssh_keys" /\ p[b[k]].value = k.key
               /\ \A k, l \in K : b[k] = b[l] => k = l
               /\ \A i \in 1..m : p[i].table = "ssh_keys" => \E k \in K : b[k] = i
  BY <1>6 DEF Inserts
<1>9. PICK d : /\ \A k \in L : d[k] \in 1..n /\ q[d[k]].table = "ssh_keys" /\ q[d[k]].value = k.key
               /\ \A k, l \in L : d[k] = d[l] => k = l
               /\ \A i \in 1..n : q[i].table = "ssh_keys" => \E k \in L : d[k] = i
  BY <1>6 DEF Inserts
<1>10. PICK e : e = [k \in K \cup L |-> IF k \in K THEN b[k] ELSE m + d[k]]
  OBVIOUS
<1>11. (\A k \in K : e[k] = b[k]) /\ (\A k \in L : e[k] = m + d[k])
  BY <1>10
<1>12. ASSUME NEW k \in K \cup L
       PROVE  e[k] \in 1..(m + n) /\ r[e[k]].table = "ssh_keys" /\ r[e[k]].value = k.key
  <2>1. CASE k \in K
    <3>1. b[k] \in 1..m
      BY <1>8, <2>1
    <3>2. e[k] \in 1..(m + n) /\ e[k] <= m
      BY <1>11, <2>1, <3>1
    <3> QED
      BY <1>7, <1>8, <1>11, <2>1, <3>2
  <2>2. CASE k \in L
    <3>1. d[k] \in 1..n
      BY <1>9, <2>2
    <3>2. e[k] \in 1..(m + n) /\ ~(e[k] <= m) /\ e[k] - m = d[k]
      BY <1>11, <2>2, <3>1
    <3> QED
      BY <1>7, <1>9, <2>2, <3>2
  <2> QED
    BY <2>1, <2>2
<1>13. ASSUME NEW k \in K \cup L, NEW l \in K \cup L, e[k] = e[l] PROVE k = l
  <2>1. CASE k \in K /\ l \in K
    BY <1>8, <1>11, <1>13, <2>1
  <2>2. CASE k \in L /\ l \in L
    <3>1. d[k] \in 1..n /\ d[l] \in 1..n
      BY <1>9, <2>2
    <3>2. d[k] = d[l]
      BY <1>11, <1>13, <2>2, <3>1
    <3> QED
      BY <1>9, <2>2, <3>2
  <2>3. ASSUME NEW u \in K, NEW v \in L PROVE e[u] # e[v]
    <3>1. b[u] \in 1..m /\ d[v] \in 1..n
      BY <1>8, <1>9
    <3> QED
      BY <1>11, <3>1
  <2> QED
    BY <1>13, <2>1, <2>2, <2>3
<1>14. ASSUME NEW i \in 1..(m + n), r[i].table = "ssh_keys" PROVE \E k \in K \cup L : e[k] = i
  <2>1. CASE i <= m
    <3>1. i \in 1..m /\ p[i].table = "ssh_keys"
      BY <1>7, <1>14, <2>1
    <3> QED
      BY <1>8, <1>11, <3>1
  <2>2. CASE ~(i <= m)
    <3>1. i - m \in 1..n /\ q[i - m].table = "ssh_keys"
      BY <1>7, <1>14, <2>2
    <3>2. PICK k \in L : d[k] = i - m
      BY <1>9, <3>1
    <3>3. e[k] = i
      BY <1>11, <3>2
    <3> QED
      BY <3>3
  <2> QED
    BY <2>1, <2>2
<1>15. Inserts(r, K \cup L)
  <2>1. PICK W : W = K \cup L
    OBVIOUS
  <2>2. \A k \in W : e[k] \in 1..Len(r) /\ r[e[k]].table = "ssh_keys" /\ r[e[k]].value = k.key
    BY <1>7, <1>12, <2>1
  <2>3. \A k, l \in W : e[k] = e[l] => k = l
    BY <1>13, <2>1
  <2>4. \A i \in 1..Len(r) : r[i].table = "ssh_keys" => \E k \in W : e[k] = i
    BY <1>7, <1>14, <2>1
  <2>5. Inserts(r, W)
    BY <1>7, <2>2, <2>3, <2>4, Zenon DEF Inserts
  <2> QED
    BY <2>1, <2>5
<1> QED
  BY <1>5, <1>15

LEMMA InsertsEach ==
    ASSUME NEW seq, Slice(seq), NEW F, F = [i \in DOMAIN seq |-> F[i]], NEW K,
           \A i \in DOMAIN seq : Inserts(F[i], K[i]),
           \A i, j \in DOMAIN seq : i # j => K[i] \cap K[j] = {},
           NEW U, U = UNION {K[i] : i \in DOMAIN seq}
    PROVE  Inserts(FlattenSeq(F), U)
<1>1. PICK n \in Nat : n = Len(seq) /\ DOMAIN seq = 1..n
  BY LenProperties DEF Slice
<1>2. Len(F) = n
  BY <1>1
<1>4. CASE n = 0
  <2>1. F = <<>> /\ U = {}
    BY <1>1, <1>4
  <2>2. FlattenSeq(F) = F
    BY <1>2, <1>4 DEF FlattenSeq
  <2>3. <<>> \in Seq({}) /\ 1..Len(<<>>) = {}
    OBVIOUS
  <2>4. Inserts(<<>>, {})
    BY <2>3, InsertsNone
  <2> QED
    BY <2>1, <2>2, <2>4, Zenon
<1>5. CASE n # 0
  <2>1. PICK f : Flat(F, f, n) /\ FlattenSeq(F) = f[n]
    BY <1>1, <1>2, <1>5, Flattened
  <2>2. \A i \in 1..n : f[i] = IF i = 1 THEN F[i] ELSE f[i - 1] \o F[i]
    BY <2>1 DEF Flat
  <2>3. PICK C : C = [i \in Nat |-> UNION {K[j] : j \in 1..i}]
    OBVIOUS
  <2> DEFINE T == {i \in Nat : i \in 1..n /\ ~Inserts(f[i], C[i])}
  <2>4. T = {}
    <3> SUFFICES ASSUME T # {} PROVE FALSE
      OBVIOUS
    <3>1. PICK i \in T : \A j \in T : i <= j
      BY LeastNumber
    <3>2. i \in 1..n /\ ~Inserts(f[i], C[i])
      BY <3>1
    <3>3. Inserts(F[i], K[i])
      BY <1>1, <3>2
    <3>4. i # 1
      <4> SUFFICES ASSUME i = 1 PROVE FALSE
        OBVIOUS
      <4>1. C[1] = UNION {K[j] : j \in 1..1}
        BY <2>3
      <4>2. C[1] = K[1]
        BY <4>1
      <4>3. f[1] = F[1]
        BY <2>2, <3>2
      <4> QED
        BY <3>2, <3>3, <4>2, <4>3
    <3>5. i - 1 \in Nat /\ i - 1 \in 1..n /\ i - 1 \notin T
      BY <3>1, <3>2, <3>4
    <3>6. Inserts(f[i - 1], C[i - 1])
      BY <3>5
    <3>7. C[i] = C[i - 1] \cup K[i] /\ C[i - 1] \cap K[i] = {}
      <4>1. 1..i = 1..(i - 1) \cup {i}
        BY <3>2
      <4>2. C[i] = UNION {K[j] : j \in 1..i} /\ C[i - 1] = UNION {K[j] : j \in 1..(i - 1)}
        BY <2>3, <3>5
      <4>3. \A j \in 1..(i - 1) : j \in DOMAIN seq /\ i \in DOMAIN seq /\ j # i
        BY <1>1, <3>2
      <4>4. \A j \in 1..(i - 1) : K[j] \cap K[i] = {}
        BY <4>3
      <4> QED
        BY <4>1, <4>2, <4>4
    <3>8. Inserts(f[i - 1] \o F[i], C[i - 1] \cup K[i])
      BY <3>3, <3>6, <3>7, InsertsThen
    <3> QED
      BY <2>2, <3>2, <3>4, <3>7, <3>8
  <2>5. Inserts(f[n], C[n])
    BY <1>1, <1>5, <2>4
  <2>6. C[n] = U
    <3>1. C[n] = UNION {K[j] : j \in 1..n}
      BY <2>3
    <3> QED
      BY <3>1, <1>1
  <2> QED
    BY <2>1, <2>5, <2>6
<1> QED
  BY <1>4, <1>5

\* What says nothing of keys inserts none.
LEMMA InsertsNoKey ==
    ASSUME NEW q, NEW E, NEW A, NEW F, Tells(q, E, A, F), \A f \in A : f.table # "ssh_keys"
    PROVE  Inserts(q, {})
<1>1. Agree(E, E)
  BY DEF Agree
<1>2. PICK E2 : Says(q, E, A, E2)
  BY <1>1 DEF Tells
<1>3. PICK S : q \in Seq(S)
  BY <1>2 DEF Says
<1>4. PICK e : A = {FactOf(q[k], e[k]) : k \in 1..Len(q)}
  BY <1>2 DEF Says
<1>5. ASSUME NEW n \in 1..Len(q) PROVE q[n].table # "ssh_keys"
  <2>1. FactOf(q[n], e[n]) \in A
    BY <1>4
  <2>2. FactOf(q[n], e[n]).table = q[n].table
    BY FactFields DEF FactOf
  <2> QED
    BY <2>1, <2>2
<1> QED
  BY <1>3, <1>5, InsertsNone

-----------------------------------------------------------------------------

\* The keys of the i-th host of the report r, as SavedKeys tells them apart.
KeysOfHost(r, i) ==
    {[host |-> r.hosts[i].host, key |-> r.hosts[i].keys[j], at |-> <<r, i, j>>] :
       j \in DOMAIN r.hosts[i].keys}

LEMMA SavedKeysAre ==
    /\ \A S : SavedKeys(S) = UNION {UNION {KeysOfHost(r, i) : i \in DOMAIN r.hosts} : r \in S}
    /\ SavedKeys({}) = {}
    /\ \A r : SavedKeys({r}) = UNION {KeysOfHost(r, i) : i \in DOMAIN r.hosts}
    /\ \A S, T : SavedKeys(S \cup T) = SavedKeys(S) \cup SavedKeys(T)
    /\ \A r, i : \A k \in KeysOfHost(r, i) : k.at[1] = r /\ k.at[2] = i
<1>1. ASSUME NEW S
      PROVE  SavedKeys(S) = UNION {UNION {KeysOfHost(r, i) : i \in DOMAIN r.hosts} : r \in S}
  BY Zenon DEF SavedKeys, KeysOfHost
<1>2. SavedKeys({}) = {}
  BY <1>1
<1>3. ASSUME NEW r PROVE SavedKeys({r}) = UNION {KeysOfHost(r, i) : i \in DOMAIN r.hosts}
  BY <1>1
<1>4. ASSUME NEW S, NEW T PROVE SavedKeys(S \cup T) = SavedKeys(S) \cup SavedKeys(T)
  <2> DEFINE G(r) == UNION {KeysOfHost(r, i) : i \in DOMAIN r.hosts}
  <2>1. \A V : SavedKeys(V) = UNION {G(r) : r \in V}
    BY <1>1
  <2> HIDE DEF G
  <2>2. (UNION {G(r) : r \in S \cup T}) = (UNION {G(r) : r \in S}) \cup (UNION {G(r) : r \in T})
    OBVIOUS
  <2> QED
    BY <2>1, <2>2
<1>5. ASSUME NEW r, NEW i, NEW k \in KeysOfHost(r, i) PROVE k.at[1] = r /\ k.at[2] = i
  <2>1. PICK j : k = [host |-> r.hosts[i].host, key |-> r.hosts[i].keys[j], at |-> <<r, i, j>>]
    BY DEF KeysOfHost
  <2>2. k.at = <<r, i, j>>
    BY <2>1
  <2> QED
    BY <2>2
<1> QED
  BY <1>1, <1>2, <1>3, <1>4, <1>5

\* What a host's services and files say inserts no key.
LEMMA PiecesInsertNoKey ==
    ASSUME NEW r, NEW h, HostShape(h), Kept(HostFacts(r, h))
    PROVE  /\ \A s \in ToSet(h.services) : Inserts(Service(s), {})
           /\ \A g \in ToSet(h.files) : Inserts(File(g), {})
<1>1. PICK d, f : d = Plain("deployments", r.deployment) /\ f = HostFact(r, h)
  OBVIOUS
<1>2. PICK E : E = [v \in {"depID", "hostID"} |-> IF v = "depID" THEN d ELSE f]
  OBVIOUS
<1>3. DOMAIN E = {"depID", "hostID"} /\ E["hostID"] = f
  BY <1>2
<1>4. ASSUME NEW s \in ToSet(h.services) PROVE Inserts(Service(s), {})
  <2>1. PICK C : C = ServiceFacts(r, h, s)
    OBVIOUS
  <2>2. C \subseteq HostFacts(r, h)
    BY <2>1 DEF HostFacts
  <2>3. Kept(C)
    BY <2>2, KeptPart
  <2>4. /\ Slice(s.ports)
        /\ \A p \in {p \in ToSet(s.ports) : p.tls # NoTLS} :
              Slice(p.tls.suites) /\ \A u \in ToSet(p.tls.suites) : Slice(u.ciphers)
    BY Zenon DEF HostShape
  <2>5. Tells(Service(s), E, C, E)
    BY <1>1, <1>3, <2>1, <2>3, <2>4, TellsService
  <2>6. ASSUME NEW g \in C PROVE g.table # "ssh_keys"
    <3>1. \/ g = ServiceFact(r, h, s)
          \/ \E o : g = Fact("env_vars", s.env, o)
          \/ \E p : g = PortFact(r, h, s, p) \/ g \in TLSFacts(PortFact(r, h, s, p), p.tls)
      BY <2>1 DEF ServiceFacts
    <3>2. CASE g = ServiceFact(r, h, s)
      BY <3>2, FactTables
    <3>3. CASE \E o : g = Fact("env_vars", s.env, o)
      BY <3>3, FactFields
    <3>4. CASE \E p : g = PortFact(r, h, s, p)
      BY <3>4, FactTables
    <3>5. CASE \E p : g \in TLSFacts(PortFact(r, h, s, p), p.tls)
      BY <3>5, FactTables DEF OtherTables
    <3> QED
      BY <3>1, <3>2, <3>3, <3>4, <3>5
  <2> QED
    BY <2>5, <2>6, InsertsNoKey
<1>5. ASSUME NEW g \in ToSet(h.files) PROVE Inserts(File(g), {})
  <2>1. PICK C : C = RegexFacts(f, g)
    OBVIOUS
  <2>2. C \subseteq HostFacts(r, h)
    BY <1>1, <2>1 DEF HostFacts
  <2>3. Kept(C) /\ Slice(g.matches)
    BY <2>2, KeptPart DEF HostShape
  <2>4. Tells(File(g), E, C, E)
    BY <1>3, <2>1, <2>3, TellsFile
  <2>5. \A c \in C : c.table # "ssh_keys"
    BY <2>1, FactTables
  <2> QED
    BY <2>4, <2>5, InsertsNoKey
<1> QED
  BY <1>4, <1>5

LEMMA HostInserts ==
    ASSUME NEW r, NEW i, NEW h, h = r.hosts[i], HostShape(h), Kept(HostFacts(r, h))
    PROVE  Inserts(Host(h), KeysOfHost(r, i))
<1> DEFINE host == getIndexOrInsert("hosts", h.host, {"depID"}, "hostID")
           key(k) == insert("ssh_keys", k, {"hostID"}, "")
           S == [n \in DOMAIN h.services |-> Service(h.services[n])]
           F == [n \in DOMAIN h.files |-> File(h.files[n])]
           K == [n \in DOMAIN h.keys |-> key(h.keys[n])]
<1>1. Slice(h.services) /\ Slice(h.files) /\ Slice(h.keys)
  BY DEF HostShape
<1>2. Inserts(host, {})
  <2>0. PICK s : s = [table |-> "hosts", value |-> Stored("hosts", h.host), uses |-> {"depID"},
                      sets |-> "hostID", lookup |-> TRUE]
    OBVIOUS
  <2>1. host = <<s>> /\ s.table = "hosts"
    BY <2>0 DEF getIndexOrInsert, statement
  <2>2. <<s>> \in Seq({s}) /\ \A n \in 1..Len(<<s>>) : <<s>>[n] = s
    OBVIOUS
  <2>3. \A n \in 1..Len(<<s>>) : <<s>>[n].table # "ssh_keys"
    BY <2>1, <2>2
  <2>4. Inserts(<<s>>, {})
    BY <2>2, <2>3, InsertsNone
  <2> QED
    BY <2>1, <2>4
<1>3. PICK N : N = [n \in Nat |-> {}]
  OBVIOUS
<1>4. Inserts(FlattenSeq(S), {})
  <2>1. \A n \in DOMAIN h.services : h.services[n] \in ToSet(h.services) /\ N[n] = {}
    BY <1>1, <1>3, LenProperties DEF ToSet, Slice
  <2>2. S = [n \in DOMAIN h.services |-> S[n]] /\ \A n \in DOMAIN h.services : Inserts(S[n], N[n])
    BY <2>1, PiecesInsertNoKey
  <2>3. PICK U : U = UNION {N[n] : n \in DOMAIN h.services}
    OBVIOUS
  <2>4. \A n, m \in DOMAIN h.services : N[n] \cap N[m] = {}
    BY <2>1
  <2>5. U = {}
    BY <2>1, <2>3
  <2> HIDE DEF S
  <2>6. Inserts(FlattenSeq(S), U)
    BY <1>1, <2>2, <2>3, <2>4, InsertsEach
  <2> QED
    BY <2>5, <2>6
<1>5. Inserts(FlattenSeq(F), {})
  <2>1. \A n \in DOMAIN h.files : h.files[n] \in ToSet(h.files) /\ N[n] = {}
    BY <1>1, <1>3, LenProperties DEF ToSet, Slice
  <2>2. F = [n \in DOMAIN h.files |-> F[n]] /\ \A n \in DOMAIN h.files : Inserts(F[n], N[n])
    BY <2>1, PiecesInsertNoKey
  <2>3. PICK U : U = UNION {N[n] : n \in DOMAIN h.files}
    OBVIOUS
  <2>4. \A n, m \in DOMAIN h.files : N[n] \cap N[m] = {}
    BY <2>1
  <2>5. U = {}
    BY <2>1, <2>3
  <2> HIDE DEF F
  <2>6. Inserts(FlattenSeq(F), U)
    BY <1>1, <2>2, <2>3, <2>4, InsertsEach
  <2> QED
    BY <2>5, <2>6
<1>6. Inserts(FlattenSeq(K), KeysOfHost(r, i))
  <2>1. PICK N1 : N1 = [n \in DOMAIN h.keys |-> {[host |-> h.host, key |-> h.keys[n], at |-> <<r, i, n>>]}]
    OBVIOUS
  <2>2. ASSUME NEW n \in DOMAIN h.keys PROVE Inserts(K[n], N1[n])
    <3>1. PICK k : k = [host |-> h.host, key |-> h.keys[n], at |-> <<r, i, n>>]
      OBVIOUS
    <3>2. N1[n] = {k} /\ k.key = h.keys[n]
      BY <2>1, <3>1
    <3>3. Fact("ssh_keys", h.keys[n], [hostID |-> HostFact(r, h)]) \in HostFacts(r, h)
      BY DEF HostFacts, ToSet
    <3>4. Stored("ssh_keys", h.keys[n]) = h.keys[n]
      BY <3>3, FactFields DEF Kept
    <3>5. PICK s : s = [table |-> "ssh_keys", value |-> Stored("ssh_keys", h.keys[n]), uses |-> {"hostID"},
                        sets |-> "", lookup |-> FALSE]
      OBVIOUS
    <3>6. K[n] = <<s>>
      BY <3>5 DEF insert, statement
    <3>7. s.table = "ssh_keys" /\ s.value = k.key
      BY <3>2, <3>4, <3>5
    <3> QED
      BY <3>2, <3>6, <3>7, InsertsOne
  <2>3. \A n, m \in DOMAIN h.keys : n # m => N1[n] \cap N1[m] = {}
    <3> SUFFICES ASSUME NEW n \in DOMAIN h.keys, NEW m \in DOMAIN h.keys, NEW k, k \in N1[n], k \in N1[m]
                 PROVE  n = m
      OBVIOUS
    <3>1. k.at = <<r, i, n>> /\ k.at = <<r, i, m>>
      BY <2>1
    <3> QED
      BY <3>1
  <2>4. KeysOfHost(r, i) = UNION {N1[n] : n \in DOMAIN h.keys}
    <3> DEFINE k(n) == [host |-> h.host, key |-> h.keys[n], at |-> <<r, i, n>>]
    <3>1. KeysOfHost(r, i) = {k(n) : n \in DOMAIN h.keys}
      BY DEF KeysOfHost
    <3>2. \A n \in DOMAIN h.keys : N1[n] = {k(n)}
      BY <2>1
    <3> HIDE DEF k
    <3> QED
      BY <3>1, <3>2
  <2>5. K = [n \in DOMAIN h.keys |-> K[n]] /\ \A n \in DOMAIN h.keys : Inserts(K[n], N1[n])
    BY <2>2
  <2>6. PICK U : U = KeysOfHost(r, i)
    OBVIOUS
  <2>7. U = UNION {N1[n] : n \in DOMAIN h.keys}
    BY <2>4, <2>6
  <2> HIDE DEF K
  <2>8. Inserts(FlattenSeq(K), U)
    BY <1>1, <2>3, <2>5, <2>7, InsertsEach
  <2> QED
    BY <2>6, <2>8
<1>7. Host(h) = host \o FlattenSeq(S) \o FlattenSeq(F) \o FlattenSeq(K)
  BY DEF Host, ForEach
<1> HIDE DEF host, S, F, K
<1>8. Inserts(host \o FlattenSeq(S), {})
  BY <1>2, <1>4, InsertsThen
<1>9. Inserts(host \o FlattenSeq(S) \o FlattenSeq(F), {})
  BY <1>5, <1>8, InsertsThen
<1>10. Inserts(host \o FlattenSeq(S) \o FlattenSeq(F) \o FlattenSeq(K), {} \cup KeysOfHost(r, i))
  BY <1>6, <1>9, InsertsThen
<1> QED
  BY <1>7, <1>10

\* SaveReport inserts each key of each host once.
LEMMA StatementsInsert ==
    ASSUME NEW r \in Report, Kept(Facts(r))
    PROVE  Inserts(Statements(r), SavedKeys({r}))
<1> DEFINE dep == getIndexOrInsert("deployments", r.deployment, {}, "depID")
           release(x) == insert("releases", x, {"depID"}, "")
           H == [i \in DOMAIN r.hosts |-> Host(r.hosts[i])]
           R == [i \in DOMAIN r.releases |-> release(r.releases[i])]
<1>1. Slice(r.hosts) /\ Slice(r.releases) /\ \A h \in ToSet(r.hosts) : HostShape(h)
  BY BatchAssumption DEF IsReport, HostShape
<1>2. ASSUME NEW t, NEW v, NEW u, NEW x, NEW l, t # "ssh_keys" PROVE Inserts(statement(t, v, u, x, l), {})
  <2>1. PICK s : s = [table |-> t, value |-> Stored(t, v), uses |-> u, sets |-> x, lookup |-> l]
    OBVIOUS
  <2>2. statement(t, v, u, x, l) = <<s>> /\ s.table = t
    BY <2>1 DEF statement
  <2>3. <<s>> \in Seq({s}) /\ \A n \in 1..Len(<<s>>) : <<s>>[n] = s
    OBVIOUS
  <2>4. \A n \in 1..Len(<<s>>) : <<s>>[n].table # "ssh_keys"
    BY <1>2, <2>2, <2>3
  <2>5. Inserts(<<s>>, {})
    BY <2>3, <2>4, InsertsNone
  <2> QED
    BY <2>2, <2>5
<1>3. Inserts(dep, {})
  BY <1>2 DEF getIndexOrInsert
<1>4. Inserts(FlattenSeq(R), {})
  <2>1. PICK N : N = [n \in DOMAIN r.releases |-> {}]
    OBVIOUS
  <2>2. \A n \in DOMAIN r.releases : N[n] = {}
    BY <2>1
  <2>3. \A x : Inserts(release(x), {})
    BY <1>2 DEF insert
  <2> HIDE DEF release
  <2>4. R = [n \in DOMAIN r.releases |-> R[n]] /\ \A n \in DOMAIN r.releases : Inserts(R[n], N[n])
    BY <2>2, <2>3
  <2>5. PICK U : U = UNION {N[n] : n \in DOMAIN r.releases}
    OBVIOUS
  <2>6. U = {}
    BY <2>2, <2>5
  <2>7. \A n, m \in DOMAIN r.releases : N[n] \cap N[m] = {}
    BY <2>2
  <2> HIDE DEF R
  <2>8. Inserts(FlattenSeq(R), U)
    BY <1>1, <2>4, <2>5, <2>7, InsertsEach
  <2> QED
    BY <2>6, <2>8
<1>5. Inserts(FlattenSeq(H), SavedKeys({r}))
  <2>1. PICK N : N = [i \in DOMAIN r.hosts |-> KeysOfHost(r, i)]
    OBVIOUS
  <2>2. ASSUME NEW i \in DOMAIN r.hosts PROVE Inserts(H[i], N[i])
    <3>1. PICK h : h = r.hosts[i]
      OBVIOUS
    <3>2. h \in ToSet(r.hosts)
      BY <3>1 DEF ToSet
    <3>3. HostFacts(r, h) \subseteq Facts(r)
      BY <3>2 DEF Facts
    <3>4. Kept(HostFacts(r, h)) /\ HostShape(h)
      BY <1>1, <3>2, <3>3, KeptPart
    <3>5. Inserts(Host(h), KeysOfHost(r, i))
      BY <3>1, <3>4, HostInserts
    <3> QED
      BY <2>1, <3>1, <3>5
  <2>3. \A i, j \in DOMAIN r.hosts : i # j => N[i] \cap N[j] = {}
    BY <2>1, SavedKeysAre
  <2>4. H = [i \in DOMAIN r.hosts |-> H[i]] /\ \A i \in DOMAIN r.hosts : Inserts(H[i], N[i])
    BY <2>2
  <2>5. PICK U : U = SavedKeys({r})
    OBVIOUS
  <2>6. U = UNION {N[i] : i \in DOMAIN r.hosts}
    BY <2>1, <2>5, SavedKeysAre
  <2> HIDE DEF H
  <2>7. Inserts(FlattenSeq(H), U)
    BY <1>1, <2>3, <2>4, <2>6, InsertsEach
  <2> QED
    BY <2>5, <2>7
<1>6. Statements(r) = dep \o FlattenSeq(H) \o FlattenSeq(R)
  BY DEF Statements, ForEach
<1> HIDE DEF dep, H, R
<1>7. Inserts(dep \o FlattenSeq(H), {} \cup SavedKeys({r}))
  BY <1>3, <1>5, InsertsThen
<1>8. Inserts(dep \o FlattenSeq(H) \o FlattenSeq(R), ({} \cup SavedKeys({r})) \cup {})
  BY <1>4, <1>7, InsertsThen
<1>9. ({} \cup SavedKeys({r})) \cup {} = SavedKeys({r})
  OBVIOUS
<1> QED
  BY <1>6, <1>8, <1>9

-----------------------------------------------------------------------------

\* Each of the keys K has a row of its own among the rows R, and there are no
\* other rows of keys.
Filed(R, K) ==
    \E b : /\ \A k \in K : b[k] \in R /\ b[k].table = "ssh_keys" /\ b[k].value = k.key
           /\ \A k, l \in K : b[k] = b[l] => k = l
           /\ \A x \in R : x.table = "ssh_keys" => \E k \in K : b[k] = x

\* Of the keys K some have their rows in the transaction t, and the statements
\* it has left insert the others.
Filing(t, K) ==
    \E A, B : K = A \cup B /\ A \cap B = {} /\ Filed(t.rows, A) /\ Inserts(t.left, B)

\* The first statement inserts a key, or none.
LEMMA InsertsHead ==
    ASSUME NEW q, q # <<>>, NEW K, Inserts(q, K), NEW s, s = Head(q)
    PROVE  /\ s.table # "ssh_keys" => Inserts(Tail(q), K)
           /\ s.table = "ssh_keys" => \E k \in K : s.value = k.key /\ Inserts(Tail(q), K \ {k})
<1>1. PICK S : q \in Seq(S)
  BY DEF Inserts
<1>2. PICK n \in Nat : n = Len(q)
  BY <1>1, LenProperties
<1>3. n # 0
  BY <1>1, <1>2, EmptySeq
<1>4. PICK p : p = Tail(q)
  OBVIOUS
<1>5. s = q[1] /\ p \in Seq(S) /\ Len(p) = n - 1 /\ \A i \in 1..(n - 1) : p[i] = q[i + 1]
  BY <1>1, <1>2, <1>3, <1>4, HeadTailProperties
<1>6. PICK b : /\ \A k \in K : b[k] \in 1..n /\ q[b[k]].table = "ssh_keys" /\ q[b[k]].value = k.key
               /\ \A k, l \in K : b[k] = b[l] => k = l
               /\ \A i \in 1..n : q[i].table = "ssh_keys" => \E k \in K : b[k] = i
  BY <1>2 DEF Inserts
<1>7. ASSUME NEW L, \A k \in K : k \in L <=> b[k] # 1 PROVE L \subseteq K => Inserts(p, L)
  <2> SUFFICES ASSUME L \subseteq K PROVE Inserts(p, L)
    OBVIOUS
  <2>1. PICK e : e = [k \in L |-> b[k] - 1]
    OBVIOUS
  <2>2. ASSUME NEW k \in L
        PROVE  e[k] \in 1..(n - 1) /\ p[e[k]].table = "ssh_keys" /\ p[e[k]].value = k.key
    <3>1. b[k] \in 1..n /\ b[k] # 1
      BY <1>6, <1>7
    <3>2. e[k] \in 1..(n - 1) /\ e[k] + 1 = b[k]
      BY <2>1, <3>1
    <3>3. p[e[k]] = q[b[k]]
      BY <1>5, <3>2
    <3> QED
      BY <1>6, <3>2, <3>3
  <2>3. ASSUME NEW k \in L, NEW l \in L, e[k] = e[l] PROVE k = l
    <3>1. b[k] \in 1..n /\ b[l] \in 1..n
      BY <1>6
    <3>2. b[k] = b[l]
      BY <2>1, <2>3, <3>1
    <3> QED
      BY <1>6, <3>2
  <2>4. ASSUME NEW i \in 1..(n - 1), p[i].table = "ssh_keys" PROVE \E k \in L : e[k] = i
    <3>1. i + 1 \in 1..n /\ i + 1 # 1 /\ q[i + 1].table = "ssh_keys"
      BY <1>5, <2>4
    <3>2. PICK k \in K : b[k] = i + 1
      BY <1>6, <3>1
    <3>3. k \in L /\ e[k] = i
      BY <1>7, <2>1, <3>1, <3>2
    <3> QED
      BY <3>3
  <2>5. \A k \in L : e[k] \in 1..Len(p) /\ p[e[k]].table = "ssh_keys" /\ p[e[k]].value = k.key
    BY <1>5, <2>2
  <2>6. \A i \in 1..Len(p) : p[i].table = "ssh_keys" => \E k \in L : e[k] = i
    BY <1>5, <2>4
  <2> QED
    BY <1>5, <2>3, <2>5, <2>6, Zenon DEF Inserts
<1>8. CASE s.table # "ssh_keys"
  <2>1. \A k \in K : b[k] # 1
    BY <1>5, <1>6, <1>8
  <2>2. Inserts(p, K)
    BY <1>7, <2>1
  <2> QED
    BY <1>4, <1>8, <2>2
<1>9. CASE s.table = "ssh_keys"
  <2>1. 1 \in 1..n
    BY <1>3
  <2>2. PICK k \in K : b[k] = 1
    BY <1>5, <1>6, <1>9, <2>1
  <2>3. \A l \in K : l \in K \ {k} <=> b[l] # 1
    BY <1>6, <2>2
  <2>4. Inserts(p, K \ {k})
    BY <1>7, <2>3
  <2>5. s.value = k.key
    BY <1>5, <1>6, <2>2
  <2> QED
    BY <1>4, <1>9, <2>4, <2>5
<1> QED
  BY <1>8, <1>9

LEMMA FiledGrows ==
    ASSUME NEW R, NEW A, Filed(R, A), NEW row, row \notin R
    PROVE  /\ row.table # "ssh_keys" => Filed(R \cup {row}, A)
           /\ \A k : k \notin A /\ row.table = "ssh_keys" /\ row.value = k.key => Filed(R \cup {row}, A \cup {k})
<1>1. PICK b : /\ \A k \in A : b[k] \in R /\ b[k].table = "ssh_keys" /\ b[k].value = k.key
               /\ \A k, l \in A : b[k] = b[l] => k = l
               /\ \A x \in R : x.table = "ssh_keys" => \E k \in A : b[k] = x
  BY DEF Filed
<1>2. PICK Q : Q = R \cup {row}
  OBVIOUS
<1>3. ASSUME row.table # "ssh_keys" PROVE Filed(Q, A)
  BY <1>1, <1>2, <1>3 DEF Filed
<1>4. ASSUME NEW k, k \notin A, row.table = "ssh_keys", row.value = k.key PROVE Filed(Q, A \cup {k})
  <2>1. PICK W : W = A \cup {k}
    OBVIOUS
  <2>2. PICK e : e = [l \in W |-> IF l = k THEN row ELSE b[l]]
    OBVIOUS
  <2>3. e[k] = row /\ \A l \in A : e[l] = b[l]
    BY <1>4, <2>1, <2>2
  <2>4. \A l \in W : e[l] \in Q /\ e[l].table = "ssh_keys" /\ e[l].value = l.key
    BY <1>1, <1>2, <1>4, <2>1, <2>3
  <2>5. \A l, m \in W : e[l] = e[m] => l = m
    BY <1>1, <2>1, <2>3
  <2>6. \A x \in Q : x.table = "ssh_keys" => \E l \in W : e[l] = x
    BY <1>1, <1>2, <2>1, <2>3
  <2>7. Filed(Q, W)
    <3>1. \A l \in W : e[l] \in Q
      BY <2>4
    <3>2. \A l \in W : e[l].table = "ssh_keys" /\ e[l].value = l.key
      BY <2>4
    <3> QED
      BY <2>5, <2>6, <3>1, <3>2 DEF Filed
  <2> QED
    BY <2>1, <2>7
<1> QED
  BY <1>2, <1>3, <1>4

LEMMA NothingInserted == \A K : Inserts(<<>>, K) => K = {}
<1>1. 1..Len(<<>>) = {}
  OBVIOUS
<1> QED
  BY <1>1 DEF Inserts

\* A row is inserted: it is of the key that its statement inserts, or of none.
LEMMA InsertFiles ==
    ASSUME NEW t, TxRuns(t), DOMAIN t = {"report", "left", "rows", "go"}, t.left # <<>>,
           NEW s, s = Head(t.left), NEW K, Filing(t, K)
    PROVE  Filing(AfterInsert(t, s), K)
<1>1. PICK i : i = Cardinality(InTable(t.rows, s.table)) + 1
  OBVIOUS
<1>2. PICK row : row = [table |-> s.table, id |-> i, value |-> s.value, of |-> [v \in s.uses |-> t.go[v]]]
  OBVIOUS
<1>3. row.table = s.table /\ row.id = i /\ row.value = s.value
  BY <1>2
<1>4. PICK u : u = AfterInsert(t, s)
  OBVIOUS
<1>5. u = [t EXCEPT !.left = Tail(@), !.go[s.sets] = i, !.rows = @ \cup {row}]
  BY <1>1, <1>2, <1>4 DEF AfterInsert
<1>6. u.left = Tail(t.left) /\ u.rows = t.rows \cup {row}
  BY <1>5
<1>7. PICK R : R = t.rows
  OBVIOUS
<1>8. row \notin R
  <2>1. \A x \in R : x.table = s.table => x.id \in 1..Cardinality(InTable(R, s.table))
    BY <1>7 DEF TxRuns, Store
  <2>2. IsFiniteSet(InTable(R, s.table))
    BY <1>7, FS_Subset DEF TxRuns, Store, InTable
  <2>3. Cardinality(InTable(R, s.table)) \in Nat
    BY <2>2, FS_CardinalityType
  <2> QED
    BY <1>1, <1>3, <1>7, <2>1, <2>3
<1>9. PICK A, B : K = A \cup B /\ A \cap B = {} /\ Filed(R, A) /\ Inserts(t.left, B)
  BY <1>7 DEF Filing
<1>10. CASE s.table # "ssh_keys"
  <2>0. row.table # "ssh_keys" /\ Filed(R, A)
    BY <1>3, <1>9, <1>10
  <2>1. Filed(R \cup {row}, A)
    BY <1>8, <2>0, FiledGrows
  <2>2. Inserts(u.left, B)
    BY <1>6, <1>9, <1>10, InsertsHead
  <2>3. Filing(u, K)
    BY <1>6, <1>7, <1>9, <2>1, <2>2, Zenon DEF Filing
  <2> QED
    BY <1>4, <2>3
<1>11. CASE s.table = "ssh_keys"
  <2>1. PICK k \in B : s.value = k.key /\ Inserts(Tail(t.left), B \ {k})
    BY <1>9, <1>11, InsertsHead
  <2>2. Inserts(u.left, B \ {k})
    BY <1>6, <2>1
  <2>3. k \notin A
    BY <1>9, <2>1
  <2>0. row.table = "ssh_keys" /\ row.value = k.key /\ Filed(R, A)
    BY <1>3, <1>9, <1>11, <2>1
  <2>8. Filed(R \cup {row}, A \cup {k})
    BY <1>8, <2>0, <2>3, FiledGrows
  <2>4. Filed(u.rows, A \cup {k})
    BY <1>6, <1>7, <2>8
  <2>5. K = (A \cup {k}) \cup (B \ {k}) /\ (A \cup {k}) \cap (B \ {k}) = {}
    BY <1>9, <2>1
  <2>6. PICK A1, B1 : A1 = A \cup {k} /\ B1 = B \ {k}
    OBVIOUS
  <2>7. Filing(u, K)
    BY <2>2, <2>4, <2>5, <2>6, Zenon DEF Filing
  <2> QED
    BY <1>4, <2>7
<1> QED
  BY <1>10, <1>11

\* No key is looked up.
LEMMA ExecFiles ==
    ASSUME NEW t, TxRuns(t), DOMAIN t = {"report", "left", "rows", "go"}, t.left # <<>>,
           NEW s, s = Head(t.left), NEW K, Filing(t, K)
    PROVE  Filing(IF s.lookup THEN AfterLookup(t, s) ELSE AfterInsert(t, s), K)
<1> DEFINE found == {x \in InTable(t.rows, s.table) : x.value = s.value}
<1>1. s.lookup => s.table # "ssh_keys"
  <2>1. StatementOK(s)
    BY RunsHead DEF TxRuns
  <2> QED
    BY <2>1, NotLookedUp DEF StatementOK
<1>2. Filing(AfterInsert(t, s), K)
  BY InsertFiles
<1>3. CASE s.lookup /\ found # {}
  <2>1. PICK i : i = CHOOSE j \in Ids(found) : TRUE
    OBVIOUS
  <2>2. PICK u : u = AfterLookup(t, s)
    OBVIOUS
  <2>3. u = [t EXCEPT !.left = Tail(@), !.go[s.sets] = i]
    BY <1>3, <2>1, <2>2 DEF AfterLookup
  <2>4. u.left = Tail(t.left) /\ u.rows = t.rows
    BY <2>3
  <2>5. PICK A, B : K = A \cup B /\ A \cap B = {} /\ Filed(t.rows, A) /\ Inserts(t.left, B)
    BY DEF Filing
  <2>6. Inserts(u.left, B)
    BY <1>1, <1>3, <2>4, <2>5, InsertsHead
  <2>7. Filing(u, K)
    BY <2>4, <2>5, <2>6 DEF Filing
  <2> QED
    BY <1>3, <2>2, <2>7
<1>4. CASE ~s.lookup
  BY <1>2, <1>4
<1>5. CASE s.lookup /\ found = {}
  <2>1. AfterLookup(t, s) = AfterInsert(t, s)
    BY <1>5 DEF AfterLookup
  <2> QED
    BY <1>2, <1>5, <2>1
<1> QED
  BY <1>3, <1>4, <1>5

-----------------------------------------------------------------------------
(* Every step keeps a row for each key.                                    *)

\* Each key saved has its row, and an open transaction is about to give their
\* rows to those of its report, which has not been saved before.
KeysWhole ==
    /\ Filed(rows, SavedKeys(saved))
    /\ \A c \in Command : cmd[c].ddl = 17 => cmd[c].left \cap saved = {}
    /\ \A c \in Command : cmd[c].pc = "save" =>
          /\ tx[c].report \in cmd[c].left
          /\ Filing(tx[c], SavedKeys(saved) \cup SavedKeys({tx[c].report}))

LEMMA FiledNothing == Filed({}, {})
BY DEF Filed

LEMMA KeysInit == Init => KeysWhole
<1> SUFFICES ASSUME Init PROVE KeysWhole
  OBVIOUS
<1>1. rows = {} /\ saved = {} /\ \A c \in Command : cmd[c].pc # "save"
  BY DEF Init
<1>2. Filed(rows, SavedKeys(saved))
  BY <1>1, FiledNothing, SavedKeysAre
<1> QED
  BY <1>1, <1>2 DEF KeysWhole

LEMMA OthersKeys ==
    ASSUME KeysWhole, NEW c \in Command, UNCHANGED <<rows, saved>>,
           \A d \in Command \ {c} : cmd'[d].pc = cmd[d].pc /\ tx'[d] = tx[d],
           \A d \in Command : cmd'[d].left = cmd[d].left,
           \A d \in Command : cmd'[d].ddl = cmd[d].ddl \/ saved = {},
           cmd'[c].pc = "save" =>
              /\ tx'[c].report \in cmd[c].left
              /\ Filing(tx'[c], SavedKeys(saved) \cup SavedKeys({tx'[c].report}))
    PROVE  KeysWhole'
<1>1. Filed(rows', SavedKeys(saved'))
  BY DEF KeysWhole
<1>2. \A d \in Command : cmd'[d].ddl = 17 => cmd'[d].left \cap saved' = {}
  BY DEF KeysWhole
<1>3. ASSUME NEW d \in Command, cmd'[d].pc = "save"
      PROVE  /\ tx'[d].report \in cmd'[d].left
             /\ Filing(tx'[d], SavedKeys(saved') \cup SavedKeys({tx'[d].report}))
  <2>1. CASE d = c
    BY <1>3, <2>1
  <2>2. CASE d # c
    <3>1. cmd[d].pc = "save" /\ tx'[d] = tx[d] /\ saved' = saved /\ cmd'[d].left = cmd[d].left
      BY <1>3, <2>2
    <3>2. /\ tx[d].report \in cmd[d].left
          /\ Filing(tx[d], SavedKeys(saved) \cup SavedKeys({tx[d].report}))
      BY <3>1 DEF KeysWhole
    <3> QED
      BY <3>1, <3>2
  <2> QED
    BY <2>1, <2>2
<1> QED
  BY <1>1, <1>2, <1>3 DEF KeysWhole

LEMMA BeginKeys ==
    ASSUME Inv, KeysWhole, StoredAsIs, NEW c \in Command, NEW r \in Report, Begin(c, r) PROVE KeysWhole'
<1>1. PICK G : G = [v \in DOMAIN TableOf \cup {""} |-> 0]
  OBVIOUS
<1>2. PICK T : T = Statements(r)
  OBVIOUS
<1>3. PICK t : t = [report |-> r, left |-> T, rows |-> rows, go |-> G]
  OBVIOUS
<1>4. /\ tx' = [tx EXCEPT ![c] = t] /\ Goto(c, "save") /\ UNCHANGED <<rows, saved>>
      /\ cmd[c].pc = "scan" /\ r \in cmd[c].left
  BY <1>1, <1>2, <1>3, Zenon DEF Begin
<1>5. tx'[c] = t /\ \A d \in Command \ {c} : tx'[d] = tx[d]
  BY <1>4 DEF Inv, CommandOK
<1>6. /\ \A d \in Command \ {c} : cmd'[d].pc = cmd[d].pc
      /\ \A d \in Command : cmd'[d].ddl = cmd[d].ddl /\ cmd'[d].left = cmd[d].left
  BY <1>4, OneCommandGoes DEF Pcs
<1>7. t.report = r /\ t.left = T /\ t.rows = rows
  BY <1>3
<1>8. r \notin saved
  BY <1>4 DEF Inv, Progress, KeysWhole
<1>9. PICK A, B : A = SavedKeys(saved) /\ B = SavedKeys({r})
  OBVIOUS
<1>10. A \cap B = {}
  <2> SUFFICES ASSUME NEW k \in A, k \in B PROVE FALSE
    OBVIOUS
  <2>1. PICK q \in saved : \E i \in DOMAIN q.hosts : k \in KeysOfHost(q, i)
    BY <1>9, SavedKeysAre
  <2>2. \E i \in DOMAIN r.hosts : k \in KeysOfHost(r, i)
    BY <1>9, SavedKeysAre
  <2>3. k.at[1] = q /\ k.at[1] = r
    BY <2>1, <2>2, SavedKeysAre
  <2> QED
    BY <1>8, <2>1, <2>3
<1>11. Filed(t.rows, A) /\ Inserts(t.left, B)
  BY <1>2, <1>7, <1>9, StatementsInsert DEF StoredAsIs, KeysWhole
<1>12. Filing(t, A \cup B)
  BY <1>10, <1>11 DEF Filing
<1> QED
  BY <1>4, <1>5, <1>6, <1>7, <1>9, <1>12, OthersKeys

LEMMA ExecKeys == ASSUME Inv, Data, KeysWhole, NEW c \in Command, Exec(c) PROVE KeysWhole'
<1>1. PICK t : t = tx[c]
  OBVIOUS
<1>2. PICK s : s = Head(t.left)
  OBVIOUS
<1>3. /\ cmd[c].pc = "save" /\ t.left # <<>> /\ UNCHANGED <<rows, saved, cmd>>
      /\ tx' = [tx EXCEPT ![c] = IF s.lookup THEN AfterLookup(t, s) ELSE AfterInsert(t, s)]
  BY <1>1, <1>2, Zenon DEF Exec
<1>4. TxRuns(t) /\ DOMAIN t = {"report", "left", "rows", "go"}
  BY <1>1, <1>3 DEF Data, Inv, TxSound
<1>5. PICK K : K = SavedKeys(saved) \cup SavedKeys({t.report})
  OBVIOUS
<1>6. Filing(t, K) /\ t.report \in cmd[c].left
  BY <1>1, <1>3, <1>5 DEF KeysWhole
<1>7. Filing(IF s.lookup THEN AfterLookup(t, s) ELSE AfterInsert(t, s), K)
  BY <1>2, <1>3, <1>4, <1>6, ExecFiles
<1>8. tx'[c] = IF s.lookup THEN AfterLookup(t, s) ELSE AfterInsert(t, s)
  BY <1>3 DEF Inv, CommandOK
<1>9. tx'[c].report = t.report /\ \A d \in Command \ {c} : tx'[d] = tx[d]
  BY <1>1, ExecAdds
<1>10. Filing(tx'[c], SavedKeys(saved) \cup SavedKeys({tx'[c].report}))
  BY <1>5, <1>7, <1>8, <1>9
<1> QED
  BY <1>3, <1>6, <1>9, <1>10, OthersKeys

LEMMA CommitKeys == ASSUME Inv, Data, KeysWhole, NEW c \in Command, Commit(c) PROVE KeysWhole'
<1>1. PICK t : t = tx[c]
  OBVIOUS
<1>2. PICK q : q = t.report
  OBVIOUS
<1>3. /\ cmd[c].pc = "save" /\ t.left = <<>> /\ rows' = t.rows /\ saved' = saved \cup {q}
      /\ cmd' = [cmd EXCEPT ![c].pc = "scan", ![c].left = @ \ {q}]
  BY <1>1, <1>2 DEF Commit
<1>4. Filing(t, SavedKeys(saved) \cup SavedKeys({q}))
  BY <1>1, <1>2, <1>3 DEF KeysWhole
<1>5. PICK A, B : /\ SavedKeys(saved) \cup SavedKeys({q}) = A \cup B
                  /\ Filed(t.rows, A) /\ Inserts(<<>>, B)
  BY <1>3, <1>4 DEF Filing
<1>6. B = {}
  BY <1>5, NothingInserted
<1>7. SavedKeys(saved \cup {q}) = SavedKeys(saved) \cup SavedKeys({q})
  BY SavedKeysAre
<1>8. SavedKeys(saved \cup {q}) = A
  BY <1>5, <1>6, <1>7
<1>9. Filed(rows', SavedKeys(saved'))
  BY <1>3, <1>5, <1>8
<1>10. \A d \in Command : cmd'[d].pc # "save"
  BY NoneSaves
<1>11. \A d \in Command : cmd'[d].ddl = 17 => cmd'[d].left \cap saved' = {}
  <2>1. cmd[c].ddl = 17 /\ cmd[c] \in [pc : Pcs, ddl : 0..17, left : SUBSET Report]
    BY <1>3, Fields DEF Inv, Progress
  <2>2. cmd[c].left \cap saved = {}
    BY <2>1 DEF KeysWhole
  <2>3. cmd'[c].left = cmd[c].left \ {q}
    BY <1>3, <2>1 DEF Inv, CommandOK
  <2>4. \A d \in Command \ {c} : cmd'[d] = cmd[d] /\ cmd[d].ddl # 17
    BY <1>3, <2>1 DEF Inv, CommandOK, InOrder
  <2>5. cmd'[c].left \cap saved' = {}
    BY <1>3, <2>2, <2>3
  <2> QED
    BY <2>4, <2>5
<1> QED
  BY <1>9, <1>10, <1>11 DEF KeysWhole

LEMMA ExecDDLKeys == ASSUME Inv, Data, Whole, KeysWhole, NEW c \in Command, ExecDDL(c) PROVE KeysWhole'
<1>1. \A d \in Command \ {c} : cmd'[d] = cmd[d]
  BY DEF ExecDDL, Inv, CommandOK
<1>2. cmd'[c].pc # "save" /\ UNCHANGED <<rows, saved, tx>>
  BY StillNoneSaves DEF ExecDDL
<1>3. saved = {}
  <2>1. version = <<>> /\ cmd[c].pc = "create"
    BY CreatesAlone DEF ExecDDL
  <2>2. rows = {}
    BY <2>1, VersionsDiffer DEF Data
  <2> QED
    BY <2>2, JoinedNothing, SaidSoFar DEF Whole
<1>4. cmd'[c].left = cmd[c].left
  BY Fields DEF ExecDDL, Inv, CommandOK
<1>5. \A d \in Command : cmd'[d].left = cmd[d].left
  BY <1>1, <1>4
<1> QED
  BY <1>1, <1>2, <1>3, <1>5, OthersKeys

LEMMA NextKeys ==
    ASSUME StoredAsIs PROVE Inv /\ Data /\ Whole /\ KeysWhole /\ [Next]_vars => KeysWhole'
<1> SUFFICES ASSUME Inv, Data, Whole, KeysWhole, [Next]_vars PROVE KeysWhole'
  OBVIOUS
<1>1. ASSUME NEW c \in Command, CommandStep(c) PROVE KeysWhole'
  <2>1. ASSUME NEW pc \in Pcs \ {"save"}, Goto(c, pc), UNCHANGED <<rows, saved>>,
               \A d \in Command \ {c} : tx'[d] = tx[d]
        PROVE  KeysWhole'
    <3>1. /\ cmd'[c].pc = pc /\ \A d \in Command \ {c} : cmd'[d].pc = cmd[d].pc
          /\ \A d \in Command : cmd'[d].ddl = cmd[d].ddl /\ cmd'[d].left = cmd[d].left
      BY <2>1, OneCommandGoes
    <3> QED
      BY <2>1, <3>1, OthersKeys
  <2>2. CASE Stat(c)
    BY <2>1, <2>2 DEF Stat, Pcs
  <2>3. CASE Succeed(c)
    BY <2>1, <2>3 DEF Succeed, Pcs
  <2>4. CASE Die(c)
    BY <2>1, <2>4 DEF Die, Pcs, Inv, CommandOK
  <2>5. ASSUME NEW r \in Report, Begin(c, r) PROVE KeysWhole'
    BY <2>5, BeginKeys
  <2> QED
    BY <1>1, <2>2, <2>3, <2>4, <2>5, ExecDDLKeys, ExecKeys, CommitKeys DEF CommandStep
<1>2. CASE OpenDatabase \/ CloseDatabase \/ UNCHANGED vars
  <2>1. UNCHANGED <<rows, saved, cmd, tx>>
    BY <1>2 DEF OpenDatabase, CloseDatabase, vars
  <2> QED
    BY <2>1 DEF KeysWhole
<1>3. CASE RemoveFile
  <2>1. rows' = {} /\ saved' = {} /\ \A c \in Command : cmd'[c].pc # "save"
    BY <1>3 DEF RemoveFile
  <2>2. Filed(rows', SavedKeys(saved'))
    BY <2>1, FiledNothing, SavedKeysAre
  <2> QED
    BY <2>1, <2>2 DEF KeysWhole
<1> QED
  BY <1>1, <1>2, <1>3 DEF Next

-----------------------------------------------------------------------------
(* What the four queries show.                                             *)

\* The keys that were saved, host by host; where one is tells it apart.
LEMMA KeysAre ==
    ASSUME NEW S
    PROVE  /\ \A k \in SavedKeys(S) : \E r, h : AtHost(S, r, h) /\ k.key \in ToSet(h.keys) /\ k.host = h.host
           /\ \A r, h : AtHost(S, r, h) => \A x \in ToSet(h.keys) :
                 \E k \in SavedKeys(S) : k.key = x /\ k.host = h.host
           /\ \A k, l \in SavedKeys(S) : k.at = l.at => k = l
<1> DEFINE At(r, i, j) == [host |-> r.hosts[i].host, key |-> r.hosts[i].keys[j], at |-> <<r, i, j>>]
<1>1. \A k : k \in SavedKeys(S) <=>
         \E r \in S : \E i \in DOMAIN r.hosts : \E j \in DOMAIN r.hosts[i].keys : k = At(r, i, j)
  BY DEF SavedKeys
<1>2. \A r, i, j : /\ At(r, i, j).host = r.hosts[i].host /\ At(r, i, j).key = r.hosts[i].keys[j]
                   /\ At(r, i, j).at[1] = r /\ At(r, i, j).at[2] = i /\ At(r, i, j).at[3] = j
  OBVIOUS
<1> HIDE DEF At
<1>3. ASSUME NEW k \in SavedKeys(S)
      PROVE  \E r, h : AtHost(S, r, h) /\ k.key \in ToSet(h.keys) /\ k.host = h.host
  <2>1. PICK r, i, j : /\ r \in S /\ i \in DOMAIN r.hosts /\ j \in DOMAIN r.hosts[i].keys
                       /\ k = At(r, i, j)
    BY <1>1
  <2>2. PICK h : h = r.hosts[i]
    OBVIOUS
  <2>3. AtHost(S, r, h) /\ k.key \in ToSet(h.keys) /\ k.host = h.host
    BY <1>2, <2>1, <2>2 DEF AtHost, ToSet
  <2> QED
    BY <2>3
<1>4. ASSUME NEW r, NEW h, AtHost(S, r, h), NEW x \in ToSet(h.keys)
      PROVE  \E k \in SavedKeys(S) : k.key = x /\ k.host = h.host
  <2>1. PICK i \in DOMAIN r.hosts : h = r.hosts[i]
    BY <1>4 DEF AtHost, ToSet
  <2>2. PICK j \in DOMAIN h.keys : x = h.keys[j]
    BY <1>4 DEF ToSet
  <2>3. PICK k : k = At(r, i, j)
    OBVIOUS
  <2>4. k \in SavedKeys(S)
    BY <1>1, <1>4, <2>1, <2>2, <2>3 DEF AtHost
  <2>5. k.key = x /\ k.host = h.host
    BY <1>2, <2>1, <2>2, <2>3
  <2> QED
    BY <2>4, <2>5
<1>5. ASSUME NEW k \in SavedKeys(S), NEW l \in SavedKeys(S), k.at = l.at PROVE k = l
  <2>1. PICK r, i, j : k = At(r, i, j)
    BY <1>1
  <2>2. PICK p, m, n : l = At(p, m, n)
    BY <1>1
  <2>3. r = p /\ i = m /\ j = n
    BY <1>2, <1>5, <2>1, <2>2
  <2> QED
    BY <2>1, <2>2, <2>3
<1> QED
  BY <1>3, <1>4, <1>5

\* A host is shown for a key of it if the key was saved twice, of whatever hosts.
LEMMA KeysShown ==
    ASSUME NEW R, NEW J, NEW S, Reading(R, J, S), Filed(R, SavedKeys(S))
    PROVE  BuildInsecureSshKeyReport(R) = SharedKeys(S)
<1>1. PICK K : K = SavedKeys(S)
  OBVIOUS
<1>2. PICK b : /\ \A k \in K : b[k] \in R /\ b[k].table = "ssh_keys" /\ b[k].value = k.key
               /\ \A k, l \in K : b[k] = b[l] => k = l
               /\ \A x \in R : x.table = "ssh_keys" => \E k \in K : b[k] = x
  BY <1>1 DEF Filed
<1>3. \A y : y \in SharedKeys(S) <=>
         \E k, l \in K : l.key = k.key /\ l.at # k.at /\ y = <<HostName[k.host]>>
  BY <1>1 DEF SharedKeys
<1>4. \A y : y \in BuildInsecureSshKeyReport(R) <=>
         \E u, v \in R : /\ u.table = "ssh_keys" /\ v.table = "ssh_keys" /\ u.value = v.value /\ u.id # v.id
                         /\ y = <<HostOf(R, u)>>
  <2>1. PICK I : I = InTable(R, "ssh_keys")
    OBVIOUS
  <2>2. PICK P : P = {s \in I \X I : s[1].value = s[2].value /\ s[1].id # s[2].id}
    OBVIOUS
  <2>3. \A y : y \in BuildInsecureSshKeyReport(R) <=> \E s \in P : y = <<HostOf(R, s[1])>>
    BY <2>1, <2>2, Zenon DEF BuildInsecureSshKeyReport
  <2>4. \A s \in P : s[1] \in I /\ s[2] \in I /\ s[1].value = s[2].value /\ s[1].id # s[2].id
    BY <2>2
  <2>5. ASSUME NEW u \in I, NEW v \in I, u.value = v.value, u.id # v.id
        PROVE  \E s \in P : s[1] = u
    <3>1. PICK s : s = <<u, v>>
      OBVIOUS
    <3>2. s \in I \X I /\ s[1] = u /\ s[2] = v
      BY <3>1
    <3> QED
      BY <2>2, <2>5, <3>2
  <2>6. \A x : x \in I <=> x \in R /\ x.table = "ssh_keys"
    BY <2>1 DEF InTable
  <2>7. ASSUME NEW y
        PROVE  (\E s \in P : y = <<HostOf(R, s[1])>>) <=>
               \E u, v \in R : /\ u.table = "ssh_keys" /\ v.table = "ssh_keys" /\ u.value = v.value /\ u.id # v.id
                               /\ y = <<HostOf(R, u)>>
    <3>1. (\E s \in P : y = <<HostOf(R, s[1])>>) =>
          \E u, v \in I : u.value = v.value /\ u.id # v.id /\ y = <<HostOf(R, u)>>
      BY <2>4
    <3>2. (\E u, v \in I : u.value = v.value /\ u.id # v.id /\ y = <<HostOf(R, u)>>) =>
          \E s \in P : y = <<HostOf(R, s[1])>>
      BY <2>5
    <3> QED
      BY <2>6, <3>1, <3>2
  <2> QED
    BY <2>3, <2>7
<1>5. \A k, l \in K : k.at = l.at => k = l
  BY <1>1, KeysAre
<1>6. ASSUME NEW u \in R, NEW v \in R, u.table = "ssh_keys", v.table = "ssh_keys", u.value = v.value, u.id # v.id,
             NEW y, y = <<HostOf(R, u)>>
      PROVE  y \in SharedKeys(S)
  <2>1. PICK k \in K : b[k] = u
    BY <1>2, <1>6
  <2>2. PICK l \in K : b[l] = v
    BY <1>2, <1>6
  <2>3. k # l /\ k.key = u.value /\ l.key = u.value
    BY <1>2, <1>6, <2>1, <2>2
  <2>4. J[u] \in Said(S) /\ J[u].table = "ssh_keys"
    BY <1>6, RowSays
  <2>5. PICK r, h, x : /\ AtHost(S, r, h) /\ x \in ToSet(h.keys)
                       /\ J[u] = Fact("ssh_keys", x, [hostID |-> HostFact(r, h)])
    BY <2>4, KeysSaid
  <2>6. u.value = x /\ HostOf(R, u) = HostName[h.host]
    BY <2>5, HostRow
  <2>7. PICK m \in K : m.key = x /\ HostName[m.host] = HostName[h.host]
    BY <1>1, <2>5, KeysAre
  <2>8. y = <<HostName[m.host]>> /\ k.key = m.key /\ l.key = m.key
    BY <1>6, <2>3, <2>6, <2>7
  <2>9. k.at # m.at \/ l.at # m.at
    BY <1>5, <2>1, <2>2, <2>3, <2>7
  <2> QED
    BY <1>3, <2>1, <2>2, <2>7, <2>8, <2>9
<1>7. ASSUME NEW k \in K, NEW l \in K, l.key = k.key, l.at # k.at PROVE <<HostName[k.host]>> \in BuildInsecureSshKeyReport(R)
  <2>1. PICK r, h : AtHost(S, r, h) /\ k.key \in ToSet(h.keys) /\ HostName[k.host] = HostName[h.host]
    BY <1>1, <1>7, KeysAre
  <2>2. PICK f : f = Fact("ssh_keys", k.key, [hostID |-> HostFact(r, h)])
    OBVIOUS
  <2>3. f \in Said(S)
    BY <2>1, <2>2, KeysSaid
  <2>4. PICK x \in R : J[x] = f
    BY <2>3, RowSays
  <2>5. x.table = "ssh_keys" /\ x.value = k.key /\ HostOf(R, x) = HostName[k.host]
    BY <2>1, <2>2, <2>4, HostRow
  <2>6. b[k] # b[l]
    BY <1>2, <1>7
  <2>7. ASSUME NEW v \in R, v.table = "ssh_keys", v.value = k.key, v # x PROVE <<HostName[k.host]>> \in BuildInsecureSshKeyReport(R)
    <3>1. v.id # x.id
      BY <2>4, <2>5, <2>7 DEF Reading, Store
    <3> QED
      BY <1>4, <2>4, <2>5, <2>7, <3>1
  <2>8. /\ b[k] \in R /\ b[k].table = "ssh_keys" /\ b[k].value = k.key
        /\ b[l] \in R /\ b[l].table = "ssh_keys" /\ b[l].value = k.key
    BY <1>2, <1>7
  <2> QED
    BY <2>6, <2>7, <2>8
<1>8. \A y : y \in BuildInsecureSshKeyReport(R) => y \in SharedKeys(S)
  BY <1>4, <1>6
<1>9. \A y : y \in SharedKeys(S) => y \in BuildInsecureSshKeyReport(R)
  BY <1>3, <1>7
<1>10. \A y : y \in BuildInsecureSshKeyReport(R) <=> y \in SharedKeys(S)
  BY <1>8, <1>9
<1> QED
  BY <1>10

\* Each query builds the report of what is saved.
LEMMA BuildIsRight ==
    ASSUME Data, Whole, KeysWhole PROVE \A step \in Kinds : Build(rows, step) = Violations(saved)[step]
<1>1. PICK J : Reading(rows, J, saved)
  BY DEF Whole, Data, Reading, Joinable
<1>2. saved \subseteq Report
  BY DEF Data
<1>3. /\ Build(rows, "root") = BuildRootProcessesReport(rows) /\ Build(rows, "tls") = BuildTLSViolationsReport(rows)
      /\ Build(rows, "files") = BuildWorldReadableFilesReport(rows)
      /\ Build(rows, "keys") = BuildInsecureSshKeyReport(rows)
  BY DEF Build
<1>4. /\ Violations(saved)["root"] = ExternalRoot(saved) /\ Violations(saved)["tls"] = WeakTLS(saved)
      /\ Violations(saved)["files"] = ReadableFiles(saved) /\ Violations(saved)["keys"] = SharedKeys(saved)
  BY DEF Violations
<1>5. Filed(rows, SavedKeys(saved))
  BY DEF KeysWhole
<1>6. Build(rows, "root") = Violations(saved)["root"]
  BY <1>1, <1>3, <1>4, RootShown
<1>7. Build(rows, "tls") = Violations(saved)["tls"]
  BY <1>1, <1>2, <1>3, <1>4, TLSShown
<1>8. Build(rows, "files") = Violations(saved)["files"]
  BY <1>1, <1>3, <1>4, FilesShown
<1>9. Build(rows, "keys") = Violations(saved)["keys"]
  BY <1>1, <1>3, <1>4, <1>5, KeysShown
<1> QED
  BY <1>6, <1>7, <1>8, <1>9 DEF Kinds

-----------------------------------------------------------------------------
(* The command: what its reports show, and what its exit code means.       *)

\* What the report command relies on at every moment.
Sound == Inv /\ Data /\ Whole /\ KeysWhole /\ RepOK

LEMMA SoundInvariant == ASSUME StoredAsIs, OneDeployment PROVE ReportsSpec => []Sound
<1>1. ReportsInit => Sound
  <2> SUFFICES ASSUME ReportsInit PROVE Sound
    OBVIOUS
  <2>1. Init /\ rep = Idle /\ readErrors = 0 /\ atOpen = {} /\ reader = "closed"
    BY DEF ReportsInit, Init
  <2>2. RepOK
    BY <2>1, KindsOfReports, ReportsAssumption DEF RepOK, Idle
  <2> QED
    BY <2>1, <2>2, InitInv, DataInit, WholeInit, KeysInit DEF Sound
<1>2. Sound /\ [ReportsNext]_allVars => Sound'
  <2> SUFFICES ASSUME Sound, [ReportsNext]_allVars PROVE Sound'
    OBVIOUS
  <2>1. [Next]_vars
    BY ReportStepSound
  <2> QED
    BY <2>1, NextInv, NextData, NextWhole, NextKeys, RepStep DEF Sound
<1> QED
  BY <1>1, <1>2, PTL DEF ReportsSpec

\* A query that is made in full moves the command on, and nothing else does.
LEMMA OnlyBuilt ==
    ASSUME RepOK, [ReportsNext]_allVars, NEW step \in Kinds,
           rep.pc = step, rep'.pc = After[step], readErrors' = readErrors
    PROVE  BuildReport(step)
<1>1. After[step] \in Kinds \cup {"export"} /\ After[step] # step
  BY DEF After, Kinds
<1>2. step \notin {"start", "export", "print", "clean", "violations", "failed"}
  BY DEF Kinds
<1>3. readErrors # readErrors + 1
  BY ReportsAssumption DEF RepOK
<1>4. rep' # rep
  BY <1>1
<1>5. PICK n \in Kinds : BuildReport(n) \/ BuildFails(n) \/ BuildTruncated(n)
  BY <1>2, <1>4, KindsOfReports
     DEF ReportsNext, ReportStep, Open, Export, PrintReports, End, allVars
<1>6. n = step
  BY <1>5 DEF BuildReport, BuildFails, BuildTruncated, Built
<1>7. ~BuildFails(step)
  <2> SUFFICES ASSUME BuildFails(step) PROVE FALSE
    OBVIOUS
  <2>1. rep'.pc = "failed"
    BY DEF BuildFails, Proceed, RepOK
  <2> QED
    BY <1>1, <2>1 DEF Kinds
<1>8. ~BuildTruncated(step)
  BY <1>3 DEF BuildTruncated
<1> QED
  BY <1>5, <1>6, <1>7, <1>8

\* Each report shows all the violations of the scans saved at the moment its
\* query is made, and nothing else: the joins of report/*.go rebuild from the
\* tables what a pass over the saved reports themselves would find.
THEOREM ReportsShowTheSaved ==
    ASSUME StoredAsIs, OneDeployment PROVE ReportsSpec => ShowsTheSaved
<1>1. Sound /\ [ReportsNext]_allVars =>
        [\A step \in DOMAIN NoReports :
            rep.pc = step /\ rep'.pc = After[step] /\ readErrors' = readErrors
               => rep'.built[step] = Violations(saved)[step]]_allVars
  <2> SUFFICES ASSUME Sound, [ReportsNext]_allVars, NEW step \in Kinds,
                      rep.pc = step, rep'.pc = After[step], readErrors' = readErrors
               PROVE  rep'.built[step] = Violations(saved)[step]
    BY KindsOfReports
  <2>1. BuildReport(step)
    BY OnlyBuilt DEF Sound
  <2>2. rep'.built[step] = Build(rows, step)
    BY <2>1 DEF BuildReport, Built, Sound, RepOK
  <2> QED
    BY <2>2, BuildIsRight DEF Sound
<1> QED
  BY <1>1, SoundInvariant, PTL DEF ReportsSpec, ShowsTheSaved

-----------------------------------------------------------------------------

\* A violation stays one when more is saved.
LEMMA ViolationsStay ==
    ASSUME NEW S, NEW T, S \subseteq T, T \subseteq Report, NEW step \in Kinds, Violations(T)[step] = {}
    PROVE  Violations(S)[step] = {}
<1>1. \A r, h : AtHost(S, r, h) => AtHost(T, r, h)
  BY DEF AtHost
<1>2. \A r, h, s, p : AtPort(S, r, h, s, p) => AtPort(T, r, h, s, p)
  BY <1>1 DEF AtPort
<1>3. ASSUME NEW x \in Ports(S) PROVE \E y \in Ports(T) : y.for = x.for /\ y.port = x.port
  <2>1. PICK r, h, s, p : AtPort(S, r, h, s, p) /\ x.for = Place(h, s, p) /\ x.port = p
    BY PortsAre
  <2>2. AtPort(T, r, h, s, p)
    BY <1>2, <2>1
  <2> QED
    BY <2>1, <2>2, PortsAre
<1>4. ASSUME NEW V
      PROVE  /\ Violations(V)["root"] = ExternalRoot(V) /\ Violations(V)["tls"] = WeakTLS(V)
             /\ Violations(V)["files"] = ReadableFiles(V) /\ Violations(V)["keys"] = SharedKeys(V)
  BY DEF Violations
<1>5. CASE step = "root"
  <2>1. ExternalRoot(T) = {}
    BY <1>4, <1>5
  <2>2. ExternalRoot(S) = {}
    BY <1>3, <2>1 DEF ExternalRoot
  <2> QED
    BY <1>4, <1>5, <2>2
<1>6. CASE step = "tls"
  <2>1. WeakTLS(T) = {}
    BY <1>4, <1>6
  <2>2. \A f, a, b : Offering(S, f, a, b) => Offering(T, f, a, b)
    BY <1>2 DEF Offering
  <2>3. S \subseteq Report
    OBVIOUS
  <2>4. \A f : WeakSuites(T, f) = {} /\ WeakCiphers(T, f) = {}
    BY <2>1, WeakTLSAre
  <2>5. \A f : WeakSuites(S, f) = {} /\ WeakCiphers(S, f) = {}
    <3>1. \A f, a : a \in WeakSuites(S, f) => a \in WeakSuites(T, f)
      BY <2>2, <2>3, WeakAre
    <3>2. \A f, b : b \in WeakCiphers(S, f) => b \in WeakCiphers(T, f)
      BY <2>2, <2>3, WeakAre
    <3> QED
      BY <2>4, <3>1, <3>2
  <2>6. WeakTLS(S) = {}
    BY <2>3, <2>5, WeakTLSAre
  <2> QED
    BY <1>4, <1>6, <2>6
<1>7. CASE step = "files"
  <2>1. ReadableFiles(T) = {}
    BY <1>4, <1>7
  <2>2. \A h \in HostsIn(S) : h \in HostsIn(T)
    BY DEF HostsIn
  <2>3. ReadableFiles(S) = {}
    BY <2>1, <2>2 DEF ReadableFiles
  <2> QED
    BY <1>4, <1>7, <2>3
<1>8. CASE step = "keys"
  <2>1. SharedKeys(T) = {}
    BY <1>4, <1>8
  <2>2. T = S \cup T
    OBVIOUS
  <2>3. \A k \in SavedKeys(S) : k \in SavedKeys(T)
    BY <2>2, SavedKeysAre
  <2>4. SharedKeys(S) = {}
    BY <2>1, <2>3 DEF SharedKeys
  <2> QED
    BY <1>4, <1>8, <2>4
<1> QED
  BY <1>5, <1>6, <1>7, <1>8 DEF Kinds

\* The reports that are built when the command is at pc.
Passed(pc) ==
    {n \in Kinds : \/ pc \in {"export", "print"}
                   \/ n = "root" /\ pc \in {"tls", "files", "keys"}
                   \/ n = "tls" /\ pc \in {"files", "keys"}
                   \/ n = "files" /\ pc = "keys"}

LEMMA PassedAre ==
    /\ Passed("root") = {} /\ Passed("failed") = {} /\ Passed("start") = {}
    /\ Passed("clean") = {} /\ Passed("violations") = {}
    /\ Passed("export") = Kinds /\ Passed("print") = Kinds
    /\ \A step \in Kinds : Passed(After[step]) = Passed(step) \cup {step}
BY DEF Passed, Kinds, After

\* Nothing is taken from the file while it is open.  A report that was built
\* and is empty means that there was no such violation when the file was opened.
EmptyMeansNone ==
    /\ rep.pc # "start" => atOpen \subseteq saved
    /\ readErrors = 0 =>
          \A n \in Passed(rep.pc) : rep.built[n] = {} => Violations(atOpen)[n] = {}
    /\ CleanMeansClean

LEMMA EmptyStep == Sound /\ EmptyMeansNone /\ [ReportsNext]_allVars => EmptyMeansNone'
<1> SUFFICES ASSUME Sound, EmptyMeansNone, [ReportsNext]_allVars PROVE EmptyMeansNone'
  OBVIOUS
<1>1. ASSUME NEW pc, pc \in {"root", "failed", "start", "violations"}, rep'.pc = pc,
             pc # "start" => atOpen' \subseteq saved'
      PROVE  EmptyMeansNone'
  BY <1>1, PassedAre DEF EmptyMeansNone, CleanMeansClean
<1>2. CASE Open
  <2>1. rep'.pc \in {"root", "failed"} /\ atOpen' = saved /\ saved' = saved
    BY <1>2 DEF Open, OpenDatabase, Sound, RepOK
  <2> QED
    BY <1>1, <2>1
<1>3. CASE Export
  <2>1. PICK pc \in {"print", "failed"} : Proceed(pc) /\ rep.pc = "export"
    BY <1>3 DEF Export
  <2>2. rep'.pc = pc /\ rep'.built = rep.built /\ UNCHANGED <<saved, readErrors, atOpen>>
    BY <2>1 DEF Proceed, vars, Sound, RepOK
  <2>3. CASE pc = "failed"
    BY <1>1, <2>1, <2>2, <2>3 DEF EmptyMeansNone
  <2>4. CASE pc = "print"
    BY <2>1, <2>2, <2>4, PassedAre DEF EmptyMeansNone, CleanMeansClean
  <2> QED
    BY <2>3, <2>4
<1>4. CASE PrintReports
  <2>1. rep.pc = "print" /\ UNCHANGED <<saved, readErrors, atOpen>>
    BY <1>4 DEF PrintReports, vars
  <2>2. rep'.pc = IF rep.built = NoReports THEN "clean" ELSE "violations"
    BY <1>4 DEF PrintReports, Idle
  <2>3. CASE rep.built = NoReports
    <3>1. rep'.pc = "clean"
      BY <2>2, <2>3
    <3>2. \A n \in Kinds : rep.built[n] = {}
      BY <2>3 DEF NoReports, Kinds
    <3>3. readErrors = 0 => \A n \in Kinds : Violations(atOpen)[n] = {}
      BY <2>1, <3>2, PassedAre DEF EmptyMeansNone
    <3>4. (\A n \in Kinds : Violations(atOpen)[n] = {}) => Violations(atOpen) = NoReports
      BY DEF Violations, NoReports, Kinds
    <3>5. CleanMeansClean'
      BY <2>1, <3>3, <3>4 DEF CleanMeansClean
    <3>6. Passed(rep'.pc) = {}
      BY <3>1, PassedAre
    <3> QED
      BY <2>1, <3>5, <3>6 DEF EmptyMeansNone
  <2>4. CASE rep.built # NoReports
    BY <1>1, <2>1, <2>2, <2>4 DEF EmptyMeansNone
  <2> QED
    BY <2>3, <2>4
<1>5. CASE End
  BY <1>1, <1>5 DEF End, Idle
<1>6. ASSUME NEW step \in Kinds, NEW report, Built(step, report),
             readErrors' = 0 => readErrors = 0 /\ (report = {} => Violations(saved)[step] = {})
      PROVE  EmptyMeansNone'
  <2>1. /\ rep.pc = step /\ rep'.pc = After[step] /\ rep'.built = [rep.built EXCEPT ![step] = report]
        /\ UNCHANGED <<saved, atOpen>>
    BY <1>6 DEF Built, vars
  <2>2. rep.pc # "start" /\ After[step] # "clean"
    BY <2>1 DEF Kinds, After
  <2>3. atOpen' \subseteq saved' /\ atOpen \subseteq saved
    BY <2>1, <2>2 DEF EmptyMeansNone
  <2>4. ASSUME readErrors' = 0, NEW n \in Passed(rep'.pc), rep'.built[n] = {} PROVE Violations(atOpen')[n] = {}
    <3>1. n \in Passed(rep.pc) \/ n = step
      BY <2>1, <2>4, PassedAre
    <3>2. CASE n = step
      <4>1. report = {}
        BY <2>1, <2>4, <3>2 DEF Sound, RepOK
      <4>2. Violations(saved)[step] = {} /\ saved \subseteq Report
        BY <1>6, <2>4, <4>1 DEF Sound, Data
      <4> QED
        BY <2>1, <2>3, <3>2, <4>2, ViolationsStay
    <3>3. CASE n \in Passed(rep.pc) /\ n # step
      <4>1. rep.built[n] = {} /\ readErrors = 0
        BY <1>6, <2>1, <2>4, <3>3 DEF Sound, RepOK, Passed
      <4> QED
        BY <2>1, <3>3, <4>1 DEF EmptyMeansNone
    <3> QED
      BY <3>1, <3>2, <3>3
  <2>5. rep'.pc # "clean"
    BY <2>1, <2>2
  <2> QED
    BY <2>3, <2>4, <2>5 DEF EmptyMeansNone, CleanMeansClean
<1>7. ASSUME NEW step \in Kinds, BuildReport(step) \/ BuildFails(step) \/ BuildTruncated(step)
      PROVE  EmptyMeansNone'
  <2>1. CASE BuildReport(step)
    <3>1. Built(step, Build(rows, step)) /\ readErrors' = readErrors
      BY <2>1 DEF BuildReport
    <3>2. Build(rows, step) = Violations(saved)[step]
      BY BuildIsRight DEF Sound
    <3> QED
      BY <1>6, <3>1, <3>2
  <2>2. CASE BuildFails(step)
    <3>1. rep'.pc = "failed" /\ rep.pc = step /\ step # "start" /\ UNCHANGED <<saved, atOpen>>
      BY <2>2 DEF BuildFails, Proceed, vars, Sound, RepOK, Kinds
    <3> QED
      BY <1>1, <3>1 DEF EmptyMeansNone
  <2>3. CASE BuildTruncated(step)
    <3>1. PICK some : Built(step, some)
      BY <2>3 DEF BuildTruncated
    <3>2. readErrors' # 0
      BY <2>3, ReportsAssumption DEF BuildTruncated, Sound, RepOK
    <3> QED
      BY <1>6, <3>1, <3>2
  <2> QED
    BY <1>7, <2>1, <2>2, <2>3
<1>8. CASE ((\E c \in Command : CommandStep(c)) \/ RemoveFile) /\ UNCHANGED <<rep, readErrors, atOpen>>
  <2>1. rep.pc # "start" => saved \subseteq saved'
    <3>1. CASE RemoveFile
      BY <3>1 DEF RemoveFile, Sound, RepOK
    <3>2. ASSUME NEW c \in Command, CommandStep(c) PROVE saved \subseteq saved'
      BY <3>2 DEF CommandStep, Stat, ExecDDL, Begin, Exec, Commit, Succeed, Die
    <3> QED
      BY <1>8, <3>1, <3>2
  <2>2. UNCHANGED <<rep, readErrors, atOpen>>
    BY <1>8
  <2>3. rep.pc # "start" => atOpen' \subseteq saved'
    BY <2>1, <2>2 DEF EmptyMeansNone
  <2> QED
    BY <2>2, <2>3 DEF EmptyMeansNone, CleanMeansClean
<1>9. CASE UNCHANGED allVars
  <2>1. UNCHANGED <<rep, readErrors, atOpen, saved>>
    BY <1>9 DEF allVars, vars
  <2> QED
    BY <2>1 DEF EmptyMeansNone, CleanMeansClean
<1> QED
  BY <1>2, <1>3, <1>4, <1>5, <1>7, <1>8, <1>9, KindsOfReports DEF ReportsNext, ReportStep

\* The exit code of report can be trusted: 0 means that none of the scans saved
\* when the file was opened has a violation, however many are saved while the
\* queries are made, unless a query broke off and was not asked for its error.
THEOREM CleanIsClean ==
    ASSUME StoredAsIs, OneDeployment PROVE ReportsSpec => []CleanMeansClean
<1>1. ReportsInit => EmptyMeansNone
  BY PassedAre DEF ReportsInit, Idle, EmptyMeansNone, CleanMeansClean
<1>2. EmptyMeansNone => CleanMeansClean
  BY DEF EmptyMeansNone
<1> QED
  BY <1>1, <1>2, SoundInvariant, EmptyStep, PTL DEF ReportsSpec
=============================================================================
