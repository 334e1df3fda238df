---------------------------- MODULE ObserversProofs --------------------------
(***************************************************************************)
(* Theorems about what is told of the runs, for every value of the         *)
(* constants: by their events and summaries, by the streams, logs and      *)
(* counters of Observers, and by the requests of ModelAdapters.            *)
(***************************************************************************)
EXTENDS AgentRunProofs, Observers, ModelAdapters, WellFoundedInduction

-----------------------------------------------------------------------------
(* Lists and counters: what Selected and Total do, one element at a time.  *)
(* There is no induction to cite, so the least counterexample is looked at. *)

\* A set of natural numbers with an element has a least one.  The inductions
\* below look at the least counterexample.
LEMMA Least ==
    ASSUME NEW S \in SUBSET Nat, S # {}
    PROVE  \E n \in S : \A m \in S : n <= m
<1>1. IsWellFoundedOn(OpToRel(<, Nat), Nat)
  BY NatLessThanWellFounded
<1>2. OpToRel(<, Nat) = {p \in Nat \X Nat : p[1] < p[2]}
  BY DEF OpToRel
<1>3. PICK R : IsWellFoundedOn(R, Nat) /\ R = {p \in Nat \X Nat : p[1] < p[2]}
  BY <1>1, <1>2
<1>4. PICK n \in S : \A m \in S : <<m, n>> \notin R
  BY <1>3, WFMin
<1>5. \A i, j \in Nat : i < j => <<i, j>> \in R
  BY <1>3
<1>6. ASSUME NEW m \in S PROVE n <= m
  <2>1. ~(m < n)
    BY <1>4, <1>5
  <2> QED  BY <2>1
<1> QED  BY <1>6

\* So what holds of 0, and of n + 1 if it holds of n, holds of all of them.
LEMMA Induction ==
    ASSUME NEW S, 0 \in S, \A n \in Nat : n \in S => n + 1 \in S
    PROVE  Nat \subseteq S
<1> SUFFICES ASSUME Nat \ S # {} PROVE FALSE
  OBVIOUS
<1>1. PICK n \in Nat \ S : \A m \in Nat \ S : n <= m
  BY Least
<1>2. n # 0 /\ n - 1 \in Nat /\ n = (n - 1) + 1
  BY <1>1
<1>3. n - 1 \in S
  BY <1>1, <1>2
<1> QED  BY <1>1, <1>2, <1>3

\* And what holds of the empty list, and of a longer list if it holds of its
\* front, holds of all lists.
LEMMA ListInduction ==
    ASSUME NEW T, NEW P, <<>> \in P, \A s \in Seq(T), x \in T : s \in P => Append(s, x) \in P
    PROVE  Seq(T) \subseteq P
<1> DEFINE Ns == {n \in Nat : \A s \in Seq(T) : Len(s) = n => s \in P}
<1>1. 0 \in Ns
  <2>1. \A s \in Seq(T) : Len(s) = 0 => s = <<>>
    OBVIOUS
  <2> QED  BY <2>1
<1>2. ASSUME NEW n \in Nat, n \in Ns PROVE n + 1 \in Ns
  <2> SUFFICES ASSUME NEW s \in Seq(T), Len(s) = n + 1 PROVE s \in P
    OBVIOUS
  <2>1. PICK t : t = SubSeq(s, 1, n)
    OBVIOUS
  <2>2. t \in Seq(T) /\ Len(t) = n /\ s[n + 1] \in T
    BY <2>1
  <2>3. Len(Append(t, s[n + 1])) = n + 1
    BY <2>2
  <2>4. \A i \in 1..(n + 1) : Append(t, s[n + 1])[i] = s[i]
    BY <2>1, <2>2
  <2>5. Append(t, s[n + 1]) = s
    BY <2>2, <2>3, <2>4
  <2> QED  BY <1>2, <2>2, <2>5
<1> HIDE DEF Ns
<1>3. Nat \subseteq Ns
  BY <1>1, <1>2, Induction
<1> QED  BY <1>3 DEF Ns

-----------------------------------------------------------------------------
\* One step of Selected.
OneMore(chosen, x, S) == IF x \in S THEN Append(chosen, x) ELSE chosen
Choosing(f, s, S, n) == f = [i \in 0..n |-> IF i = 0 THEN <<>> ELSE OneMore(f[i - 1], s[i], S)]

\* The recursion has a value for every length.
LEMMA ChoiceExists ==
    ASSUME NEW s, NEW S
    PROVE  \A n \in Nat : \E f : Choosing(f, s, S, n)
<1> DEFINE Ns == {n \in Nat : \E f : Choosing(f, s, S, n)}
<1>1. 0 \in Ns
  <2>1. Choosing([i \in 0..0 |-> <<>>], s, S, 0)
    BY DEF Choosing
  <2> QED  BY <2>1
<1>2. ASSUME NEW n \in Nat, n \in Ns
      PROVE  n + 1 \in Ns
  <2>1. PICK f : Choosing(f, s, S, n)
    BY <1>2
  <2> DEFINE g == [i \in 0..(n + 1) |-> IF i = n + 1 THEN OneMore(f[n], s[n + 1], S) ELSE f[i]]
  <2>2. \A i \in 0..(n + 1) : g[i] = IF i = 0 THEN <<>> ELSE OneMore(g[i - 1], s[i], S)
    <3> TAKE i \in 0..(n + 1)
    <3>1. CASE i = 0
      BY <2>1, <3>1 DEF Choosing
    <3>2. CASE i = n + 1
      <4>1. i - 1 = n /\ i # 0 /\ n \in 0..(n + 1) /\ n # n + 1
        BY <3>2
      <4> QED  BY <3>2, <4>1
    <3>3. CASE i # 0 /\ i # n + 1
      <4>1. i \in 0..n /\ i - 1 \in 0..(n + 1) /\ i - 1 # n + 1
        BY <3>3
      <4> QED  BY <2>1, <3>3, <4>1 DEF Choosing
    <3> QED  BY <3>1, <3>2, <3>3
  <2>3. Choosing(g, s, S, n + 1)
    BY <2>2 DEF Choosing
  <2> QED  BY <2>3
<1> HIDE DEF Ns
<1>3. Nat \subseteq Ns
  BY <1>1, <1>2, Induction
<1> QED  BY <1>3 DEF Ns

\* Two lists that start alike are chosen from alike.
LEMMA ChoiceUnique ==
    ASSUME NEW s, NEW t, NEW S, NEW m \in Nat, NEW n \in Nat, m <= n,
           \A i \in 1..m : s[i] = t[i],
           NEW f, Choosing(f, s, S, m), NEW g, Choosing(g, t, S, n)
    PROVE  f[m] = g[m]
<1> DEFINE Ns == {i \in Nat : i <= m => f[i] = g[i]}
<1>1. 0 \in Ns
  BY DEF Choosing
<1>2. ASSUME NEW i \in Nat, i \in Ns
      PROVE  i + 1 \in Ns
  <2> SUFFICES ASSUME i + 1 <= m PROVE f[i + 1] = g[i + 1]
    OBVIOUS
  <2>1. i + 1 \in 0..m /\ i + 1 \in 0..n /\ i + 1 # 0 /\ (i + 1) - 1 = i /\ i + 1 \in 1..m /\ i <= m
    OBVIOUS
  <2>2. f[i + 1] = OneMore(f[i], s[i + 1], S) /\ g[i + 1] = OneMore(g[i], t[i + 1], S)
    BY <2>1 DEF Choosing
  <2> QED  BY <1>2, <2>1, <2>2
<1> HIDE DEF Ns
<1>3. m \in Ns
  BY <1>1, <1>2, Induction
<1> QED  BY <1>3 DEF Ns

\* Selected is that recursion at the length of the list.
LEMMA SelectedIs ==
    ASSUME NEW s, NEW S, Len(s) \in Nat
    PROVE  \E f : Choosing(f, s, S, Len(s)) /\ Selected(s, S) = f[Len(s)]
<1> DEFINE f == CHOOSE f : Choosing(f, s, S, Len(s))
<1>1. Choosing(f, s, S, Len(s))
  BY ChoiceExists
<1>2. Selected(s, S) = f[Len(s)]
  BY DEF Selected, Choosing, OneMore
<1> QED  BY <1>1, <1>2

\* Selected goes through a list from its first element to its last.
LEMMA SelectedNone == ASSUME NEW S PROVE Selected(<<>>, S) = <<>>
  BY SelectedIs DEF Choosing

\* What is chosen of a list with one element more.
LEMMA SelectedAppend ==
    ASSUME NEW T, NEW s \in Seq(T), NEW x \in T, NEW S
    PROVE  Selected(Append(s, x), S) = IF x \in S THEN Append(Selected(s, S), x) ELSE Selected(s, S)
<1>1. Append(s, x) \in Seq(T)
  OBVIOUS
<1>2. PICK t \in Seq(T) : t = Append(s, x)
  BY <1>1
<1>3. Len(s) \in Nat /\ Len(t) = Len(s) + 1 /\ Len(t) \in Nat
  BY <1>2
<1>4. t[Len(t)] = x /\ \A i \in 1..Len(s) : s[i] = t[i]
  BY <1>2
<1>5. PICK f : Choosing(f, s, S, Len(s)) /\ Selected(s, S) = f[Len(s)]
  BY <1>3, SelectedIs
<1>6. PICK g : Choosing(g, t, S, Len(t)) /\ Selected(t, S) = g[Len(t)]
  BY <1>3, SelectedIs
<1>7. Len(s) <= Len(t)
  BY <1>3
<1>8. f[Len(s)] = g[Len(s)]
  BY <1>3, <1>4, <1>5, <1>6, <1>7, ChoiceUnique
<1>9. g[Len(t)] = OneMore(g[Len(t) - 1], t[Len(t)], S)
  BY <1>3, <1>6 DEF Choosing
<1>10. Len(t) - 1 = Len(s)
  BY <1>3
<1> QED  BY <1>2, <1>4, <1>5, <1>6, <1>8, <1>9, <1>10 DEF OneMore

\* The chosen elements are of the list and of the set.
LEMMA SelectedType ==
    ASSUME NEW T, NEW s \in Seq(T), NEW S
    PROVE  Selected(s, S) \in Seq(T) /\ Selected(s, S) \in Seq(T \cap S)
<1> DEFINE P == {t \in Seq(T) : Selected(t, S) \in Seq(T \cap S)}
<1>1. <<>> \in P
  <2>1. <<>> \in Seq(T) /\ <<>> \in Seq(T \cap S)
    OBVIOUS
  <2> QED  BY <2>1, SelectedNone
<1>2. ASSUME NEW t \in Seq(T), NEW x \in T, t \in P PROVE Append(t, x) \in P
  <2>1. Append(t, x) \in Seq(T)
    OBVIOUS
  <2>2. ASSUME NEW u \in Seq(T \cap S), x \in S PROVE Append(u, x) \in Seq(T \cap S)
    BY <2>2
  <2>3. Selected(Append(t, x), S) = IF x \in S THEN Append(Selected(t, S), x) ELSE Selected(t, S)
    BY SelectedAppend
  <2> QED  BY <1>2, <2>1, <2>2, <2>3
<1> HIDE DEF P
<1>3. s \in P
  BY <1>1, <1>2, ListInduction
<1>4. PICK u : u = Selected(s, S) /\ u \in Seq(T \cap S)
  BY <1>3 DEF P
<1>5. u \in Seq(T)
  BY <1>4
<1> QED  BY <1>4, <1>5

\* Of two lists, first what is chosen of the one, then of the other.
LEMMA SelectedConcat ==
    ASSUME NEW T, NEW s \in Seq(T), NEW t \in Seq(T), NEW S
    PROVE  Selected(s \o t, S) = Selected(s, S) \o Selected(t, S)
<1> DEFINE P == {u \in Seq(T) : Selected(s \o u, S) = Selected(s, S) \o Selected(u, S)}
<1>1. <<>> \in P
  <2>1. Selected(s, S) \in Seq(T)
    BY SelectedType
  <2>2. \A u \in Seq(T) : u \o <<>> = u
    OBVIOUS
  <2>3. <<>> \in Seq(T)
    OBVIOUS
  <2> QED  BY <2>1, <2>2, <2>3, SelectedNone
<1>2. ASSUME NEW u \in Seq(T), NEW x \in T, u \in P PROVE Append(u, x) \in P
  <2>1. s \o Append(u, x) = Append(s \o u, x) /\ s \o u \in Seq(T) /\ Append(u, x) \in Seq(T)
    OBVIOUS
  <2>2. Selected(s, S) \in Seq(T) /\ Selected(u, S) \in Seq(T)
    BY SelectedType
  <2>3. Selected(s, S) \o Append(Selected(u, S), x) = Append(Selected(s, S) \o Selected(u, S), x)
    BY <2>2
  <2>4. Selected(Append(s \o u, x), S) = IF x \in S THEN Append(Selected(s \o u, S), x) ELSE Selected(s \o u, S)
    BY <2>1, SelectedAppend
  <2>5. Selected(Append(u, x), S) = IF x \in S THEN Append(Selected(u, S), x) ELSE Selected(u, S)
    BY SelectedAppend
  <2> QED  BY <1>2, <2>1, <2>3, <2>4, <2>5
<1> HIDE DEF P
<1>3. t \in P
  BY <1>1, <1>2, ListInduction
<1> QED  BY <1>3 DEF P

\* Of a list of one element, it or nothing.
LEMMA SelectedOne == ASSUME NEW x, NEW S PROVE Selected(<<x>>, S) = IF x \in S THEN <<x>> ELSE <<>>
<1>1. <<>> \in Seq({x}) /\ x \in {x}
  OBVIOUS
<1>2. Selected(Append(<<>>, x), S) = IF x \in S THEN Append(Selected(<<>>, S), x) ELSE Selected(<<>>, S)
  BY <1>1, SelectedAppend
<1>3. Append(<<>>, x) = <<x>>
  OBVIOUS
<1> QED  BY <1>2, <1>3, SelectedNone

\* Of a list, its head or not, then what is chosen of its tail.
LEMMA SelectedHead ==
    ASSUME NEW T, NEW s \in Seq(T), s # <<>>, NEW S
    PROVE  Selected(s, S) = IF Head(s) \in S THEN <<Head(s)>> \o Selected(Tail(s), S)
                            ELSE Selected(Tail(s), S)
<1>1. Head(s) \in T /\ Tail(s) \in Seq(T)
  OBVIOUS
<1>2. PICK x \in T, u \in Seq(T) : x = Head(s) /\ u = Tail(s)
  BY <1>1
<1>3. <<x>> \in Seq(T)
  OBVIOUS
<1>4. PICK h \in Seq(T) : h = <<x>>
  BY <1>3
<1>5. s = h \o u
  BY <1>2, <1>4
<1>6. Selected(s, S) = Selected(h, S) \o Selected(u, S)
  BY <1>5, SelectedConcat
<1>7. Selected(u, S) \in Seq(T)
  BY SelectedType
<1>8. \A v \in Seq(T) : <<>> \o v = v
  OBVIOUS
<1> QED  BY <1>2, <1>4, <1>6, <1>7, <1>8, SelectedOne

\* What is chosen are the elements at certain places, in the same order.
Places(s, S) == {i \in DOMAIN s : s[i] \in S}
Placed(f, s, S) ==
    /\ f \in [DOMAIN Selected(s, S) -> Places(s, S)]
    /\ \A i \in DOMAIN Selected(s, S) : Selected(s, S)[i] = s[f[i]]
    /\ \A i, j \in DOMAIN Selected(s, S) : i < j => f[i] < f[j]
    /\ \A p \in Places(s, S) : \E i \in DOMAIN Selected(s, S) : f[i] = p

\* The last place of a longer list is one if its element is in the set.
LEMMA PlacesAppend ==
    ASSUME NEW T, NEW s \in Seq(T), NEW x \in T, NEW S
    PROVE  /\ Len(s) \in Nat /\ Len(s) + 1 \notin Places(s, S)
           /\ Places(Append(s, x), S) = IF x \in S THEN Places(s, S) \cup {Len(s) + 1} ELSE Places(s, S)
<1>1. PICK t : t = Append(s, x)
  OBVIOUS
<1>2. /\ DOMAIN t = 1..(Len(s) + 1) /\ DOMAIN s = 1..Len(s) /\ Len(s) \in Nat
      /\ t[Len(s) + 1] = x /\ \A i \in 1..Len(s) : t[i] = s[i]
  BY <1>1
<1> QED  BY <1>1, <1>2 DEF Places

\* Every place of such an element is chosen once.
LEMMA SelectedPlaces ==
    ASSUME NEW T, NEW s \in Seq(T), NEW S
    PROVE  \E f : Placed(f, s, S)
<1> DEFINE P == {t \in Seq(T) : \E f : Placed(f, t, S)}
<1>1. <<>> \in P
  <2>1. Selected(<<>>, S) = <<>> /\ Places(<<>>, S) = {} /\ DOMAIN <<>> = {} /\ <<>> \in Seq(T)
    BY SelectedNone DEF Places
  <2>2. Placed([i \in {} |-> 0], <<>>, S)
    BY <2>1 DEF Placed
  <2> QED  BY <2>1, <2>2
<1>2. ASSUME NEW t \in Seq(T), NEW x \in T, t \in P PROVE Append(t, x) \in P
  <2>1. PICK f : Placed(f, t, S)
    BY <1>2
  <2>2. PICK all : all = Append(t, x)
    OBVIOUS
  <2>3. /\ all \in Seq(T) /\ Len(t) \in Nat /\ DOMAIN t = 1..Len(t)
        /\ all[Len(t) + 1] = x /\ \A i \in 1..Len(t) : all[i] = t[i]
    BY <2>2
  <2>4. PICK old \in Seq(T) : old = Selected(t, S)
    BY SelectedType
  <2>5. Selected(all, S) = IF x \in S THEN Append(old, x) ELSE old
    BY <2>2, <2>4, SelectedAppend
  <2>6. Places(all, S) = IF x \in S THEN Places(t, S) \cup {Len(t) + 1} ELSE Places(t, S)
    BY <2>2, PlacesAppend
  <2>7. Places(t, S) \subseteq 1..Len(t)
    BY <2>3 DEF Places
  <2>8. CASE x \notin S
    <3>1. Placed(f, all, S)
      BY <2>1, <2>3, <2>4, <2>5, <2>6, <2>7, <2>8 DEF Placed
    <3> QED  BY <2>2, <2>3, <3>1
  <2>9. CASE x \in S
    <3>1. PICK new : new = Append(old, x)
      OBVIOUS
    <3>2. /\ Len(old) \in Nat /\ DOMAIN old = 1..Len(old) /\ DOMAIN new = 1..(Len(old) + 1)
          /\ new[Len(old) + 1] = x /\ \A i \in 1..Len(old) : new[i] = old[i]
      BY <3>1
    <3>3. PICK g : g = [i \in 1..(Len(old) + 1) |-> IF i = Len(old) + 1 THEN Len(t) + 1 ELSE f[i]]
      OBVIOUS
    <3>4. g[Len(old) + 1] = Len(t) + 1 /\ \A i \in 1..Len(old) : g[i] = f[i]
      BY <3>2, <3>3
    <3>5. \A i \in 1..Len(old) : f[i] \in Places(t, S) /\ f[i] \in 1..Len(t) /\ old[i] = t[f[i]]
      BY <2>1, <2>4, <2>7, <3>2 DEF Placed
    <3>6. Selected(all, S) = new
      BY <2>5, <2>9, <3>1
    <3>7. Places(all, S) = Places(t, S) \cup {Len(t) + 1}
      BY <2>6, <2>9
    <3>8. g \in [DOMAIN new -> Places(all, S)]
      BY <3>2, <3>3, <3>5, <3>7
    <3>9. \A i \in DOMAIN new : new[i] = all[g[i]]
      <4> SUFFICES ASSUME NEW i \in 1..(Len(old) + 1) PROVE new[i] = all[g[i]]
        BY <3>2
      <4>1. CASE i = Len(old) + 1
        BY <2>3, <3>2, <3>4, <4>1
      <4>2. CASE i \in 1..Len(old)
        BY <2>3, <3>2, <3>4, <3>5, <4>2
      <4> QED  BY <3>2, <4>1, <4>2
    <3>10. \A i, j \in DOMAIN new : i < j => g[i] < g[j]
      <4> SUFFICES ASSUME NEW i \in 1..(Len(old) + 1), NEW j \in 1..(Len(old) + 1), i < j PROVE g[i] < g[j]
        BY <3>2
      <4>1. i \in 1..Len(old) /\ g[i] = f[i] /\ f[i] \in 1..Len(t)
        BY <3>2, <3>4, <3>5
      <4>2. CASE j = Len(old) + 1
        BY <2>3, <3>4, <4>1, <4>2
      <4>3. CASE j \in 1..Len(old)
        BY <2>1, <2>4, <3>2, <3>4, <4>1, <4>3 DEF Placed
      <4> QED  BY <3>2, <4>2, <4>3
    <3>11. \A p \in Places(all, S) : \E i \in DOMAIN new : g[i] = p
      <4> SUFFICES ASSUME NEW p \in Places(all, S) PROVE \E i \in 1..(Len(old) + 1) : g[i] = p
        BY <3>2
      <4>1. CASE p = Len(t) + 1
        BY <3>2, <3>4, <4>1
      <4>2. CASE p \in Places(t, S)
        <5>1. PICK i \in 1..Len(old) : f[i] = p
          BY <2>1, <2>4, <3>2, <4>2 DEF Placed
        <5> QED  BY <3>2, <3>4, <5>1
      <4> QED  BY <3>7, <4>1, <4>2
    <3>12. Placed(g, all, S)
      BY <3>6, <3>8, <3>9, <3>10, <3>11 DEF Placed
    <3> QED  BY <2>2, <2>3, <3>12
  <2> QED  BY <2>8, <2>9
<1> HIDE DEF P
<1>3. s \in P
  BY <1>1, <1>2, ListInduction
<1> QED  BY <1>3 DEF P

\* So there are as many chosen elements as places.
LEMMA SelectedLen ==
    ASSUME NEW T, NEW s \in Seq(T), NEW S
    PROVE  IsFiniteSet(Places(s, S)) /\ Len(Selected(s, S)) = Cardinality(Places(s, S))
<1> DEFINE P == {t \in Seq(T) : /\ IsFiniteSet(Places(t, S))
                               /\ Len(Selected(t, S)) = Cardinality(Places(t, S))}
<1>1. <<>> \in P
  <2>1. Selected(<<>>, S) = <<>> /\ Places(<<>>, S) = {} /\ <<>> \in Seq(T) /\ Len(<<>>) = 0
    BY SelectedNone DEF Places
  <2> QED  BY <2>1, FS_EmptySet
<1>2. ASSUME NEW t \in Seq(T), NEW x \in T, t \in P PROVE Append(t, x) \in P
  <2>1. Append(t, x) \in Seq(T)
    OBVIOUS
  <2>2. CASE x \in S
    <3>1. Places(Append(t, x), S) = Places(t, S) \cup {Len(t) + 1} /\ Len(t) + 1 \notin Places(t, S)
      BY <2>2, PlacesAppend
    <3>2. Cardinality(Places(Append(t, x), S)) = Cardinality(Places(t, S)) + 1 /\ IsFiniteSet(Places(Append(t, x), S))
      BY <1>2, <3>1, FS_AddElement
    <3>3. Selected(t, S) \in Seq(T)
      BY SelectedType
    <3>4. Selected(Append(t, x), S) = Append(Selected(t, S), x)
      BY <2>2, SelectedAppend
    <3>5. \A u \in Seq(T) : Len(Append(u, x)) = Len(u) + 1
      OBVIOUS
    <3> QED  BY <1>2, <2>1, <3>2, <3>3, <3>4, <3>5
  <2>3. CASE x \notin S
    <3>1. Places(Append(t, x), S) = Places(t, S) /\ Selected(Append(t, x), S) = Selected(t, S)
      BY <2>3, PlacesAppend, SelectedAppend
    <3> QED  BY <1>2, <2>1, <3>1
  <2> QED  BY <2>2, <2>3
<1> HIDE DEF P
<1>3. s \in P
  BY <1>1, <1>2, ListInduction
<1> QED  BY <1>3 DEF P

-----------------------------------------------------------------------------
\* A counter that is raised raises the sum.
LEMMA TotalOfNothing ==
    ASSUME NEW S, NEW f, f = [x \in S |-> 0]
    PROVE  IsFiniteSet(Units(f)) /\ Total(f) = 0
<1>1. Units(f) = {}
  BY DEF Units
<1> QED  BY <1>1, FS_EmptySet DEF Total

\* One counter raised by one raises the sum by one.
LEMMA TotalRaised ==
    ASSUME NEW S, NEW f \in [S -> Nat], NEW g \in [S -> Nat], NEW x \in S,
           g[x] = f[x] + 1, \A y \in S \ {x} : g[y] = f[y], IsFiniteSet(Units(f))
    PROVE  IsFiniteSet(Units(g)) /\ Total(g) = Total(f) + 1
<1>1. \A h \in [S -> Nat] : Units(h) = {u \in S \X Nat : u[2] \in 1..h[u[1]]}
  BY DEF Units
<1>2. <<x, f[x] + 1>> \notin Units(f)
  BY <1>1
<1>3. Units(g) = Units(f) \cup {<<x, f[x] + 1>>}
  <2>1. ASSUME NEW u \in S \X Nat PROVE u \in Units(g) <=> u \in Units(f) \/ u = <<x, f[x] + 1>>
    <3>1. PICK y \in S, n \in Nat : u = <<y, n>>
      OBVIOUS
    <3>2. CASE y = x
      BY <1>1, <3>1, <3>2
    <3>3. CASE y # x
      BY <1>1, <3>1, <3>3
    <3> QED  BY <3>2, <3>3
  <2>2. Units(g) \subseteq S \X Nat /\ Units(f) \subseteq S \X Nat /\ <<x, f[x] + 1>> \in S \X Nat
    BY <1>1
  <2> QED  BY <2>1, <2>2
<1> QED  BY <1>2, <1>3, FS_AddElement DEF Total

-----------------------------------------------------------------------------
(* The summary of a run counts what the run put into its transcript.       *)

ResultCodes == Codes \ {"hitl_rejected"}
ErrorCodes == {"hitl_rejected", "tool_execution_error"}
Tallied(r) ==
    /\ stats[r].toolCalls = Cardinality(Reports(r, ResultCodes))
    /\ stats[r].toolErrors = Cardinality(Reports(r, ErrorCodes))
    /\ stats[r].modelErrors = IF outcome[r] = "llm_invoke_error" THEN 1 ELSE 0
    /\ stats[r].modelCalls - stats[r].modelErrors = Cardinality(TurnsOf(r, conv[r]))
NothingCounted(r) ==
    /\ stats[r].modelCalls = 0 /\ stats[r].modelErrors = 0
    /\ stats[r].toolCalls = 0 /\ stats[r].toolErrors = 0
SummaryInv ==
    \A r \in Runs : /\ pc[r] = "idle" => NothingCounted(r)
                    /\ outcome[r] = "llm_invoke_error" => pc[r] = "done"
                    /\ Tallied(r)

\* One more index in a set of them.
LEMMA IndexAdded ==
    ASSUME NEW n \in Nat, NEW S \in SUBSET (1..n)
    PROVE  /\ IsFiniteSet(S) /\ Cardinality(S) \in Nat
           /\ Cardinality(S \cup {n + 1}) = Cardinality(S) + 1
<1>1. IsFiniteSet(S)
  <2>1. IsFiniteSet(1..n)
    BY FS_Interval
  <2> QED  BY <2>1, FS_Subset
<1>2. n + 1 \notin S
  OBVIOUS
<1> QED  BY <1>1, <1>2, FS_AddElement, FS_CardinalityType

\* A message a run says is counted once, under its role and code.
LEMMA SaidCounted ==
    ASSUME TypeOK, NEW r \in Runs, NEW m \in Messages,
           conv'[r].messages = Append(conv[r].messages, m), NEW codes
    PROVE  /\ Cardinality(Reports(r, codes))' = Cardinality(Reports(r, codes)) +
                IF m.role = "tool" /\ m.call.run = r /\ m.code \in codes THEN 1 ELSE 0
           /\ Cardinality(TurnsOf(r, conv[r]))' = Cardinality(TurnsOf(r, conv[r])) +
                IF m.role = "assistant" /\ m.run = r THEN 1 ELSE 0
<1> DEFINE n == Len(conv[r].messages)
<1>1. conv[r].messages \in Seq(Messages) /\ n \in Nat
  BY DEF TypeOK, Conversations
<1>2. /\ DOMAIN conv'[r].messages = 1..n \cup {n + 1} /\ DOMAIN conv[r].messages = 1..n
      /\ \A i \in 1..n : conv'[r].messages[i] = conv[r].messages[i]
      /\ conv'[r].messages[n + 1] = m
  BY <1>1
<1> HIDE DEF n
<1>3. n + 1 \notin 1..n
  BY <1>1
<1>4. Reports(r, codes) \in SUBSET (1..n) /\ TurnsOf(r, conv[r]) \in SUBSET (1..n)
  BY <1>2 DEF Reports, TurnsOf
<1>5. Reports(r, codes)' = IF m.role = "tool" /\ m.call.run = r /\ m.code \in codes
                           THEN Reports(r, codes) \cup {n + 1} ELSE Reports(r, codes)
  BY <1>2, <1>3 DEF Reports
<1>6. TurnsOf(r, conv[r])' = IF m.role = "assistant" /\ m.run = r
                             THEN TurnsOf(r, conv[r]) \cup {n + 1} ELSE TurnsOf(r, conv[r])
  BY <1>2, <1>3 DEF TurnsOf
<1>7. /\ Cardinality(Reports(r, codes)) \in Nat /\ Cardinality(TurnsOf(r, conv[r])) \in Nat
      /\ Cardinality(Reports(r, codes) \cup {n + 1}) = Cardinality(Reports(r, codes)) + 1
      /\ Cardinality(TurnsOf(r, conv[r]) \cup {n + 1}) = Cardinality(TurnsOf(r, conv[r])) + 1
  BY <1>1, <1>4, IndexAdded
<1> QED  BY <1>5, <1>6, <1>7

\* A run that starts finds nothing of its own in the checkpoint.
LEMMA NothingSaidYet ==
    ASSUME TypeOK, SourcesInv, NEW r \in Runs, NEW t \in Threads, Load(r, t), NEW codes
    PROVE  Cardinality(Reports(r, codes))' = 0 /\ Cardinality(TurnsOf(r, conv[r]))' = 0
<1>1. /\ pc[r] = "idle" /\ ckpt[t] \in Conversations \cup {None}
      /\ conv'[r] = Resume(ckpt[t], r)
  BY LoadEffect
<1>2. PICK new : new = conv'[r]
  OBVIOUS
<1>3. /\ new \in Conversations
      /\ \A x : InTranscript(x, new) => \/ x = UserMessage(r)
                                        \/ x = SystemMessage
                                        \/ ckpt[t] # None /\ InTranscript(x, ckpt[t])
  BY <1>1, <1>2, ResumedIn
<1>4. ckpt[t] # None => Sourced(ckpt[t])
  BY <1>1, MarkersAssumption DEF SourcesInv, Saved
<1>5. \A k \in Nat : ~InTranscript(AssistantMessage(r, k), new)
  BY <1>1, <1>3, <1>4, MessageKinds DEF Sourced
<1>6. \A c \in CallIds, code \in Codes : c.run = r => ~InTranscript(ToolMessage(c, code), new)
  <2>1. SUFFICES ASSUME NEW c \in CallIds, NEW code \in Codes, c.run = r,
                        InTranscript(ToolMessage(c, code), new)
                 PROVE  FALSE
    OBVIOUS
  <2>2. ckpt[t] # None /\ InTranscript(ToolMessage(c, code), ckpt[t])
    BY <1>3, <2>1, MessageKinds
  <2>3. InTranscript(AssistantMessage(r, c.round), ckpt[t]) /\ c.round \in Nat
    BY <1>4, <2>1, <2>2 DEF Sourced, CallIds
  <2> QED  BY <1>1, <1>4, <2>2, <2>3 DEF Sourced
<1>7. new.messages \in Seq(Messages)
  BY <1>3 DEF Conversations
<1>8. ASSUME NEW i \in DOMAIN new.messages
      PROVE  /\ ~(new.messages[i].role = "tool" /\ new.messages[i].call.run = r)
             /\ ~(new.messages[i].role = "assistant" /\ new.messages[i].run = r)
  <2>1. new.messages[i] \in Messages /\ InTranscript(new.messages[i], new)
    BY <1>7 DEF InTranscript
  <2>2. CASE new.messages[i].role = "tool"
    <3>1. PICK c \in CallIds, code \in Codes : new.messages[i] = ToolMessage(c, code)
      BY <2>1, <2>2 DEF Messages, SystemMessage, ToolMessage
    <3> QED  BY <1>6, <2>1, <2>2, <3>1 DEF ToolMessage
  <2>3. CASE new.messages[i].role = "assistant"
    <3>1. PICK s \in Runs, k \in Nat : new.messages[i] = AssistantMessage(s, k)
      BY <2>1, <2>3 DEF Messages, SystemMessage, AssistantMessage
    <3> QED  BY <1>5, <2>1, <2>3, <3>1 DEF AssistantMessage
  <2> QED  BY <2>2, <2>3
<1>9. Reports(r, codes)' = {} /\ TurnsOf(r, conv[r])' = {}
  BY <1>2, <1>8 DEF Reports, TurnsOf
<1> QED  BY <1>9, FS_EmptySet

\* A run that neither speaks nor counts, nor fails in its model, keeps its tally.
LEMMA TallyStays ==
    ASSUME NEW s \in Runs, Tallied(s), stats'[s] = stats[s],
           conv'[s].messages = conv[s].messages,
           outcome'[s] = "llm_invoke_error" <=> outcome[s] = "llm_invoke_error"
    PROVE  Tallied(s)'
<1>1. \A codes : Reports(s, codes)' = Reports(s, codes)
  BY DEF Reports
<1>2. TurnsOf(s, conv[s])' = TurnsOf(s, conv[s])
  BY DEF TurnsOf
<1>3. Reports(s, ResultCodes)' = Reports(s, ResultCodes) /\ Reports(s, ErrorCodes)' = Reports(s, ErrorCodes)
  BY <1>1 DEF ResultCodes, ErrorCodes, Codes
<1> QED  BY <1>2, <1>3 DEF Tallied

\* A turn of the model is one successful call.
LEMMA TallyTurn ==
    ASSUME TypeOK, NEW r \in Runs, Tallied(r), ModelAnswers(r) \/ ModelCallsTools(r)
    PROVE  Tallied(r)'
<1> DEFINE m == AssistantMessage(r, conv'[r].iteration)
<1>1. /\ m \in Messages /\ conv'[r].messages = Append(conv[r].messages, m) /\ outcome' = outcome
  BY AnswerEffect, AskEffect
<1>2. stats'[r] = Count(stats[r], 1, 0, 0, 0) /\ stats[r] \in Stats
  BY DEF ModelAnswers, ModelCallsTools, TypeOK
<1>3. m.role = "assistant" /\ m.run = r
  BY DEF AssistantMessage
<1> HIDE DEF m
<1>4. \A codes : Cardinality(Reports(r, codes))' = Cardinality(Reports(r, codes)) + 0
  BY <1>1, <1>3, SaidCounted
<1>5. Cardinality(TurnsOf(r, conv[r]))' = Cardinality(TurnsOf(r, conv[r])) + 1
  BY <1>1, <1>3, SaidCounted
<1>6. /\ Cardinality(Reports(r, ResultCodes))' = Cardinality(Reports(r, ResultCodes)) + 0
      /\ Cardinality(Reports(r, ErrorCodes))' = Cardinality(Reports(r, ErrorCodes)) + 0
  BY <1>4 DEF ResultCodes, ErrorCodes, Codes
<1>7. /\ stats'[r].modelCalls = stats[r].modelCalls + 1
      /\ stats'[r].modelErrors = stats[r].modelErrors + 0
      /\ stats'[r].toolCalls = stats[r].toolCalls + 0
      /\ stats'[r].toolErrors = stats[r].toolErrors + 0
      /\ stats[r].modelCalls \in Nat /\ stats[r].modelErrors \in Nat
      /\ stats[r].toolCalls \in Nat /\ stats[r].toolErrors \in Nat
  BY <1>2 DEF Count, Stats
<1> QED  BY <1>1, <1>5, <1>6, <1>7 DEF Tallied

\* A report is a tool call, an error, or both.
LEMMA TallyReport ==
    ASSUME TypeOK, NEW r \in Runs, Tallied(r), ApproverRejects(r) \/ CallTool(r)
    PROVE  Tallied(r)'
<1>1. CurrentCall(r) \in CallIds /\ CurrentCall(r).run = r /\ conv[r] \in Conversations
  BY CurrentCallType DEF TypeOK, ApproverRejects, CallTool
<1>2. PICK code \in Codes, tools \in Nat, errors \in Nat :
        /\ conv'[r] = Say(conv[r], ToolMessage(CurrentCall(r), code))
        /\ stats'[r] = Count(stats[r], 0, 0, tools, errors) /\ outcome' = outcome
        /\ tools = IF code \in ResultCodes THEN 1 ELSE 0
        /\ errors = IF code \in ErrorCodes THEN 1 ELSE 0
  <2>1. CASE ApproverRejects(r)
    <3>1. /\ conv'[r] = Say(conv[r], ToolMessage(CurrentCall(r), "hitl_rejected"))
          /\ stats'[r] = Count(stats[r], 0, 0, 0, 1) /\ outcome' = outcome
      BY <2>1 DEF ApproverRejects, TypeOK
    <3> QED  BY <3>1 DEF ResultCodes, ErrorCodes, Codes
  <2>2. CASE CallTool(r)
    <3> DEFINE errors(o) == IF o \in {"error", "invalid"} THEN 1 ELSE 0
    <3>1. PICK o \in ToolOutcomes :
            /\ conv' = [conv EXCEPT ![r] = Say(@, ToolMessage(CurrentCall(r), OutcomeCode(o)))]
            /\ stats' = [stats EXCEPT ![r] = Count(@, 0, 0, 1, errors(o))]
      BY <2>2, Zenon DEF CallTool
    <3>2. /\ conv'[r] = Say(conv[r], ToolMessage(CurrentCall(r), OutcomeCode(o)))
          /\ stats'[r] = Count(stats[r], 0, 0, 1, errors(o)) /\ outcome' = outcome
      BY <2>2, <3>1 DEF CallTool, TypeOK
    <3>3. /\ OutcomeCode(o) \in Codes /\ OutcomeCode(o) \in ResultCodes
          /\ errors(o) = IF OutcomeCode(o) \in ErrorCodes THEN 1 ELSE 0
          /\ errors(o) \in Nat
      BY OutcomesAssumption, OutcomeCodeType
         DEF OutcomeKinds, OutcomeCode, ResultCodes, ErrorCodes, Codes
    <3> HIDE DEF errors
    <3> QED  BY <3>2, <3>3
  <2> QED  BY <2>1, <2>2
<1> DEFINE m == ToolMessage(CurrentCall(r), code)
<1>3. m \in Messages
  BY <1>1, ToolMessageType
<1>4. conv'[r].messages = Append(conv[r].messages, m)
  BY <1>1, <1>2, <1>3, SayType
<1>5. m.role = "tool" /\ m.call.run = r /\ m.code = code
  BY <1>1 DEF ToolMessage
<1> HIDE DEF m
<1>6. \A codes : Cardinality(Reports(r, codes))' =
                   Cardinality(Reports(r, codes)) + IF code \in codes THEN 1 ELSE 0
  BY <1>3, <1>4, <1>5, SaidCounted
<1>7. Cardinality(TurnsOf(r, conv[r]))' = Cardinality(TurnsOf(r, conv[r])) + 0
  BY <1>3, <1>4, <1>5, SaidCounted
<1>8. /\ Cardinality(Reports(r, ResultCodes))' =
           Cardinality(Reports(r, ResultCodes)) + IF code \in ResultCodes THEN 1 ELSE 0
      /\ Cardinality(Reports(r, ErrorCodes))' =
           Cardinality(Reports(r, ErrorCodes)) + IF code \in ErrorCodes THEN 1 ELSE 0
  BY <1>6 DEF ResultCodes, ErrorCodes, Codes
<1>9. stats[r] \in Stats
  BY DEF TypeOK
<1>10. /\ stats'[r].modelCalls = stats[r].modelCalls + 0
       /\ stats'[r].modelErrors = stats[r].modelErrors + 0
       /\ stats'[r].toolCalls = stats[r].toolCalls + tools
       /\ stats'[r].toolErrors = stats[r].toolErrors + errors
       /\ stats[r].modelCalls \in Nat /\ stats[r].modelErrors \in Nat
  BY <1>2, <1>9 DEF Count, Stats
<1>11. stats'[r].modelCalls - stats'[r].modelErrors = Cardinality(TurnsOf(r, conv[r])) + 0
  BY <1>10 DEF Tallied
<1> QED  BY <1>2, <1>7, <1>8, <1>10, <1>11 DEF Tallied

\* A model that fails is the one error of its run.
LEMMA TallyFailure ==
    ASSUME TypeOK, NEW r \in Runs, Tallied(r), outcome[r] # "llm_invoke_error", ModelFails(r)
    PROVE  Tallied(r)' /\ outcome'[r] = "llm_invoke_error"
<1>1. /\ conv'[r].messages = conv[r].messages /\ stats'[r] = Count(stats[r], 1, 1, 0, 0)
      /\ stats[r] \in Stats /\ outcome'[r] = "llm_invoke_error"
  BY FailureEffect DEF ModelFails, Fail, TypeOK
<1>2. \A codes : Reports(r, codes)' = Reports(r, codes)
  BY <1>1 DEF Reports
<1>3. TurnsOf(r, conv[r])' = TurnsOf(r, conv[r])
  BY <1>1 DEF TurnsOf
<1>4. Reports(r, ResultCodes)' = Reports(r, ResultCodes) /\ Reports(r, ErrorCodes)' = Reports(r, ErrorCodes)
  BY <1>2 DEF ResultCodes, ErrorCodes, Codes
<1>5. /\ stats'[r].modelCalls = stats[r].modelCalls + 1
      /\ stats'[r].modelErrors = stats[r].modelErrors + 1
      /\ stats'[r].toolCalls = stats[r].toolCalls + 0
      /\ stats'[r].toolErrors = stats[r].toolErrors + 0
      /\ stats[r].modelCalls \in Nat /\ stats[r].modelErrors \in Nat
      /\ stats[r].toolCalls \in Nat /\ stats[r].toolErrors \in Nat
  BY <1>1 DEF Count, Stats
<1> QED  BY <1>1, <1>3, <1>4, <1>5 DEF Tallied

\* Steps of other runs do not touch the summary of a run.
LEMMA SummaryStep ==
    ASSUME TypeOK, TypeOK', SourcesInv, SummaryInv, [Next]_vars
    PROVE  SummaryInv'
<1>1. CASE UNCHANGED vars
  <2>1. stats' = stats /\ conv' = conv /\ outcome' = outcome /\ pc' = pc
    BY <1>1 DEF vars, local
  <2> QED  BY <2>1, TallyStays DEF SummaryInv, NothingCounted
<1>2. CASE Crash
  <2>1. stats' = stats /\ conv' = conv /\ outcome' = outcome
        /\ \A s \in Runs : (pc'[s] = "idle" <=> pc[s] = "idle") /\ (pc[s] = "done" => pc'[s] = "done")
    BY <1>2, CrashEffect DEF Crash, Active, Ended
  <2> QED  BY <2>1, TallyStays DEF SummaryInv, NothingCounted
<1>3. ASSUME \E r \in Runs : (\E t \in Threads : Load(r, t) \/ LoadFails(r, t)) \/ Step(r)
      PROVE  \A s \in Runs : \/ Untouched(s)
                             \/ \E t \in Threads : Load(s, t) \/ LoadFails(s, t)
                             \/ Step(s)
  BY <1>3, LoadEffect, LoadFailsEffect, OthersStay
<1>4. ASSUME NEW s \in Runs, Untouched(s)
      PROVE  /\ pc'[s] = "idle" => NothingCounted(s)'
             /\ outcome'[s] = "llm_invoke_error" => pc'[s] = "done"
             /\ Tallied(s)'
  BY <1>4, TallyStays DEF SummaryInv, NothingCounted, Untouched
<1>5. ASSUME NEW s \in Runs, NEW t \in Threads, LoadFails(s, t)
      PROVE  pc'[s] = "done" /\ Tallied(s)'
  <2>1. stats' = stats /\ conv' = conv /\ pc[s] = "idle" /\ pc'[s] = "done"
        /\ outcome'[s] = "checkpoint_load_error"
    BY <1>5, LoadFailsEffect DEF LoadFails
  <2>2. Tallied(s) /\ outcome[s] # "llm_invoke_error"
    BY <2>1 DEF SummaryInv
  <2> QED  BY <2>1, <2>2, TallyStays
<1>6. ASSUME NEW s \in Runs, NEW t \in Threads, Load(s, t)
      PROVE  pc'[s] = "loop" /\ Tallied(s)' /\ outcome'[s] # "llm_invoke_error"
  <2>1. pc[s] = "idle" /\ pc'[s] = "loop" /\ stats' = stats /\ outcome' = outcome
    BY <1>6, LoadEffect DEF Load
  <2>2. NothingCounted(s) /\ outcome[s] # "llm_invoke_error"
    BY <2>1 DEF SummaryInv
  <2>3. \A codes : Cardinality(Reports(s, codes))' = 0
    BY <1>6, NothingSaidYet
  <2>4. Cardinality(TurnsOf(s, conv[s]))' = 0
    BY <1>6, NothingSaidYet
  <2>5. Cardinality(Reports(s, ResultCodes))' = 0 /\ Cardinality(Reports(s, ErrorCodes))' = 0
    BY <2>3 DEF ResultCodes, ErrorCodes, Codes
  <2> QED  BY <2>1, <2>2, <2>4, <2>5 DEF Tallied, NothingCounted
<1>7. ASSUME NEW s \in Runs, Step(s)
      PROVE  /\ pc'[s] # "idle" /\ Tallied(s)'
             /\ outcome'[s] = "llm_invoke_error" => pc'[s] = "done"
  <2>1. Tallied(s) /\ (outcome[s] = "llm_invoke_error" => pc[s] = "done")
    BY DEF SummaryInv
  <2>2. CASE Silent(s)
    <3>1. conv' = conv /\ pc'[s] # "idle" /\ pc[s] # "done"
      BY <2>2, SilentEffect DEF Active, Ended
    <3>2. stats' = stats /\ outcome'[s] \in {outcome[s], "max_iterations_reached", "final"}
      BY <2>2 DEF Silent, ExceedIterations, SkipUnknown, StartCall, RequestApproval,
                  ApproverApproves, Remember, Return, Fail, TypeOK
    <3> QED  BY <2>1, <3>1, <3>2, TallyStays
  <2>3. CASE ModelFails(s)
    BY <2>1, <2>3, FailureEffect, TallyFailure
  <2>4. CASE ModelAnswers(s) \/ ModelCallsTools(s)
    BY <2>1, <2>4, AnswerEffect, AskEffect, TallyTurn
  <2>5. CASE ApproverRejects(s) \/ CallTool(s)
    <3>1. pc[s] \in {"approval", "call"} /\ pc'[s] # "idle" /\ outcome' = outcome
      BY <2>5, ReportEffect DEF ReportsOn
    <3> QED  BY <2>1, <2>5, <3>1, TallyReport
  <2>6. CASE SaveRound(s) \/ SaveAnswer(s)
    <3>1. stats' = stats /\ conv' = conv /\ outcome' = outcome /\ pc[s] # "done" /\ pc'[s] # "idle"
      BY <2>6, SaveEffect DEF SaveRound, SaveAnswer
    <3> QED  BY <2>1, <3>1, TallyStays
  <2> QED  BY <1>7, <2>2, <2>3, <2>4, <2>5, <2>6, StepKinds DEF Speaking
<1>8. ASSUME \E r \in Runs : (\E t \in Threads : Load(r, t) \/ LoadFails(r, t)) \/ Step(r)
      PROVE  SummaryInv'
  <2>1. \A s \in Runs : /\ pc'[s] = "idle" => NothingCounted(s)'
                        /\ outcome'[s] = "llm_invoke_error" => pc'[s] = "done"
                        /\ Tallied(s)'
    BY <1>3, <1>4, <1>5, <1>6, <1>7, <1>8
  <2> QED  BY <2>1 DEF SummaryInv
<1> QED  BY <1>1, <1>2, <1>8 DEF Next, Begin, Finished

\* The metrics of a run, whatever step it ended on, are those of its transcript:
\* a tool call per reported result, an error per reported error or rejection,
\* and a successful model call per turn, also when other runs have put theirs
\* into the same conversation (graph.go:239, 319-322).
THEOREM SummaryTellsTranscript == Spec => []SummaryMatchesTranscript
<1>1. Init => SummaryInv
  <2>1. ASSUME Init, NEW r \in Runs PROVE NothingCounted(r) /\ Tallied(r) /\ outcome[r] # "llm_invoke_error"
    <3>1. /\ conv[r].messages = <<SystemMessage>> /\ outcome[r] = None
          /\ NothingCounted(r)
      BY <2>1 DEF Init, FreshConversation, NothingCounted
    <3>2. None # "llm_invoke_error"
      BY MarkersAssumption DEF RunErrors
    <3>3. \A codes : Reports(r, codes) = {}
      BY <3>1 DEF Reports, SystemMessage
    <3>4. TurnsOf(r, conv[r]) = {}
      BY <3>1 DEF TurnsOf, SystemMessage
    <3>5. Reports(r, ResultCodes) = {} /\ Reports(r, ErrorCodes) = {}
      BY <3>3
    <3> QED  BY <3>1, <3>2, <3>4, <3>5, FS_EmptySet DEF Tallied, NothingCounted
  <2> QED  BY <2>1 DEF SummaryInv
<1>2. TypeOK /\ TypeOK' /\ SourcesInv /\ SummaryInv /\ [Next]_vars => SummaryInv'
  BY SummaryStep
<1>3. SummaryInv => SummaryMatchesTranscript
  BY DEF SummaryInv, SummaryMatchesTranscript, Summary, Tallied, TurnsOf, ResultCodes, ErrorCodes
<1> QED  BY <1>1, <1>2, <1>3, TypeCorrect, SourcesHold, PTL DEF Spec

-----------------------------------------------------------------------------
(* The events of a run can be followed.                                    *)

Ends(es, over) == \A i \in DOMAIN es : Terminal(es[i]) <=> i = Len(es) /\ over
Ordered(es) == \A i \in DOMAIN es : es[i].type = "tool_result" => i > 1 /\ Opens(es, i, es[i].call)
Results(es, c) == {i \in DOMAIN es : es[i].type = "tool_result" /\ es[i].call = c}
OneResultMore(es, all, c) ==
    /\ Results(all, c) = Results(es, c) \cup {Len(es) + 1}
    /\ \A d : d # c => Results(all, d) = Results(es, d)
Told(es, state) ==
    \A i \in DOMAIN es : es[i].type = "tool_result" =>
        \E code \in Codes : InTranscript(ToolMessage(es[i].call, code), state)
Settles(e) == e.type = "tool_result" \/ (e.type = "hitl_decision" /\ ~e.ok)
Answered(es, i) == \E j \in DOMAIN es : j > i /\ es[j].call = es[i].call /\ Settles(es[j])
Asked(es, c) ==
    /\ c.tool \in Gated /\ Len(es) > 1
    /\ es[Len(es)] = Event("hitl_request", c, TRUE, None)
    /\ es[Len(es) - 1] = Event("tool_call", c, TRUE, None)

(* An unanswered call is the one that waits for its approver or its tool,  *)
(* and the events it opened with are the last ones.                        *)
Follows(r) ==
    /\ pc[r] = "idle" => events[r] = <<>>
    /\ Ends(events[r], pc[r] = "done")
    /\ Ordered(events[r])
    /\ Told(events[r], conv[r])
    /\ \A c \in executed : c.run = r => Cardinality(Results(events[r], c)) = 1
    /\ pc[r] # "crashed" =>
         \A i \in DOMAIN events[r] : events[r][i].type = "tool_call" =>
            \/ Answered(events[r], i)
            \/ pc[r] \in {"approval", "call"} /\ events[r][i].call = CurrentCall(r)
    /\ pc[r] = "approval" => Asked(events[r], CurrentCall(r))
    /\ pc[r] = "call" =>
         events[r] # <<>> /\ Opens(events[r], Len(events[r]) + 1, CurrentCall(r))
EventsInv == \A r \in Runs : Follows(r)

\* Events are added at the end.
LEMMA EventsAdded ==
    ASSUME NEW es \in Seq(Events), NEW new \in Seq(Events), NEW all, all = es \o new
    PROVE  /\ all \in Seq(Events) /\ Len(all) = Len(es) + Len(new)
           /\ DOMAIN es = 1..Len(es) /\ DOMAIN all = 1..Len(all)
           /\ Len(es) \in Nat /\ Len(new) \in Nat
           /\ \A i \in DOMAIN es : i \in DOMAIN all /\ all[i] = es[i]
           /\ \A i \in DOMAIN all \ DOMAIN es :
                i - Len(es) \in DOMAIN new /\ all[i] = new[i - Len(es)]
           /\ \A i \in DOMAIN new : Len(es) + i \in DOMAIN all /\ all[Len(es) + i] = new[i]
<1>1. all \in Seq(Events) /\ Len(all) = Len(es) + Len(new) /\ Len(es) \in Nat /\ Len(new) \in Nat
  OBVIOUS
<1>2. DOMAIN es = 1..Len(es) /\ DOMAIN all = 1..Len(all) /\ DOMAIN new = 1..Len(new)
  BY <1>1
<1>3. \A i \in DOMAIN es : all[i] = es[i]
  OBVIOUS
<1>4. \A i \in DOMAIN new : all[Len(es) + i] = new[i]
  OBVIOUS
<1>5. ASSUME NEW i \in DOMAIN all \ DOMAIN es
      PROVE  i - Len(es) \in DOMAIN new /\ all[i] = new[i - Len(es)]
  <2>1. i - Len(es) \in DOMAIN new /\ Len(es) + (i - Len(es)) = i
    BY <1>1, <1>2
  <2> QED  BY <1>4, <2>1
<1> QED  BY <1>1, <1>2, <1>3, <1>4, <1>5

\* What precedes an event does not change.
LEMMA OpensStays ==
    ASSUME NEW es \in Seq(Events), NEW new \in Seq(Events), NEW all, all = es \o new,
           NEW i \in 2..(Len(es) + 1), NEW c
    PROVE  Opens(all, i, c) <=> Opens(es, i, c)
<1>1. Len(es) \in Nat /\ \A j \in DOMAIN es : all[j] = es[j]
  BY EventsAdded
<1>2. i - 1 \in DOMAIN es /\ (i > 3 => i - 2 \in DOMAIN es /\ i - 3 \in DOMAIN es)
  BY <1>1
<1>3. all[i - 1] = es[i - 1] /\ (i > 3 => all[i - 2] = es[i - 2] /\ all[i - 3] = es[i - 3])
  BY <1>1, <1>2
<1> QED  BY <1>3 DEF Opens

\* Events that are no results are in order after any others.
LEMMA OrderedStays ==
    ASSUME NEW es \in Seq(Events), NEW new \in Seq(Events), NEW all, all = es \o new,
           Ordered(es), \A i \in DOMAIN new : new[i].type # "tool_result"
    PROVE  Ordered(all) /\ \A c : Results(all, c) = Results(es, c)
<1>1. /\ DOMAIN es = 1..Len(es) /\ Len(es) \in Nat
      /\ \A i \in DOMAIN es : i \in DOMAIN all /\ all[i] = es[i]
      /\ \A i \in DOMAIN all \ DOMAIN es : i - Len(es) \in DOMAIN new /\ all[i] = new[i - Len(es)]
  BY EventsAdded
<1>2. \A i \in DOMAIN all : all[i].type = "tool_result" => i \in DOMAIN es /\ all[i] = es[i]
  BY <1>1
<1>3. ASSUME NEW i \in DOMAIN all, all[i].type = "tool_result"
      PROVE  i > 1 /\ Opens(all, i, all[i].call)
  <2>1. i \in DOMAIN es /\ all[i] = es[i] /\ i > 1 /\ Opens(es, i, all[i].call)
    BY <1>2, <1>3 DEF Ordered
  <2>2. i \in 2..(Len(es) + 1)
    BY <1>1, <2>1
  <2> QED  BY <2>1, <2>2, OpensStays
<1>4. ASSUME NEW c PROVE Results(all, c) = Results(es, c)
  BY <1>1, <1>2 DEF Results
<1> QED  BY <1>3, <1>4 DEF Ordered

\* The result of a call comes after the events the call opened with.
LEMMA ResultAdded ==
    ASSUME NEW es \in Seq(Events), NEW new \in Seq(Events),
           1 \in DOMAIN new, \A i \in DOMAIN new : i = 1,
           NEW all, all = es \o new, NEW n, n = Len(es) + 1, NEW c,
           Ordered(es), new[1].type = "tool_result", new[1].call = c,
           es # <<>>, Opens(es, n, c)
    PROVE  Ordered(all) /\ OneResultMore(es, all, c)
<1>1. /\ DOMAIN es = 1..Len(es) /\ Len(es) \in Nat /\ n \in Nat /\ n > 1
      /\ DOMAIN all = DOMAIN es \cup {n} /\ n \notin DOMAIN es
      /\ \A i \in DOMAIN es : all[i] = es[i]
      /\ all[n] = new[1]
  <2>1. /\ DOMAIN es = 1..Len(es) /\ Len(es) \in Nat
        /\ \A i \in DOMAIN es : i \in DOMAIN all /\ all[i] = es[i]
    BY EventsAdded
  <2>2. DOMAIN all = 1..Len(all) /\ \A i \in DOMAIN all \ DOMAIN es : i - Len(es) \in DOMAIN new
    BY EventsAdded
  <2>3. \A i \in DOMAIN new : Len(es) + i \in DOMAIN all /\ all[Len(es) + i] = new[i]
    BY EventsAdded
  <2>4. n \in DOMAIN all /\ all[n] = new[1]
    BY <2>1, <2>3
  <2>5. \A i \in DOMAIN all : i \in DOMAIN es \/ i = n
    BY <2>1, <2>2
  <2>6. Len(es) # 0
    OBVIOUS
  <2> QED  BY <2>1, <2>4, <2>5, <2>6
<1>2. \A i \in 2..n : \A d : Opens(all, i, d) <=> Opens(es, i, d)
  BY OpensStays
<1>3. ASSUME NEW i \in DOMAIN all, all[i].type = "tool_result"
      PROVE  i > 1 /\ Opens(all, i, all[i].call)
  <2>1. i \in 2..n /\ Opens(es, i, all[i].call)
    BY <1>1, <1>3 DEF Ordered
  <2> QED  BY <1>2, <2>1
<1>4. Results(all, c) = Results(es, c) \cup {n}
  BY <1>1 DEF Results
<1>5. \A d : d # c => Results(all, d) = Results(es, d)
  BY <1>1 DEF Results
<1> QED  BY <1>3, <1>4, <1>5 DEF Ordered, OneResultMore

\* An event that is answered stays so.
LEMMA AnsweredStays ==
    ASSUME NEW es \in Seq(Events), NEW new \in Seq(Events), NEW all, all = es \o new,
           NEW i \in DOMAIN es, Answered(es, i)
    PROVE  Answered(all, i)
<1>1. \A j \in DOMAIN es : j \in DOMAIN all /\ all[j] = es[j]
  BY EventsAdded
<1>2. PICK j \in DOMAIN es : j > i /\ es[j].call = es[i].call /\ Settles(es[j])
  BY DEF Answered
<1> QED  BY <1>1, <1>2 DEF Answered

\* Before a run is over none of its events is the last.
LEMMA EndsStays ==
    ASSUME NEW es \in Seq(Events), NEW new \in Seq(Events), NEW all, all = es \o new,
           Ends(es, FALSE), \A i \in DOMAIN new : ~Terminal(new[i])
    PROVE  Ends(all, FALSE)
  BY EventsAdded DEF Ends

\* The terminal event is the last.
LEMMA EndsEnd ==
    ASSUME NEW es \in Seq(Events), NEW new \in Seq(Events), NEW all, all = es \o new,
           new # <<>>, Ends(es, FALSE), \A i \in DOMAIN new : Terminal(new[i]) <=> i = Len(new)
    PROVE  Ends(all, TRUE)
<1>1. /\ DOMAIN es = 1..Len(es) /\ Len(es) \in Nat /\ Len(new) \in Nat \ {0}
      /\ Len(all) = Len(es) + Len(new)
      /\ \A i \in DOMAIN es : all[i] = es[i]
      /\ \A i \in DOMAIN all : i \in Nat
      /\ \A i \in DOMAIN all \ DOMAIN es :
           i - Len(es) \in DOMAIN new /\ all[i] = new[i - Len(es)]
  BY EventsAdded
<1> QED  BY <1>1 DEF Ends

\* What a step that neither ends the run nor reports a result keeps.
LEMMA EventsGoOn ==
    ASSUME TypeOK, NEW r \in Runs, Follows(r), NEW new \in Seq(Events),
           events'[r] = events[r] \o new,
           \A i \in DOMAIN new : ~Terminal(new[i]) /\ new[i].type # "tool_result",
           pc[r] # "done", pc'[r] # "done", executed' = executed,
           \A x : InTranscript(x, conv[r]) => InTranscript(x, conv'[r])
    PROVE  /\ Ends(events'[r], pc'[r] = "done") /\ Ordered(events'[r])
           /\ Told(events'[r], conv'[r])
           /\ \A c \in executed' : c.run = r => Cardinality(Results(events'[r], c)) = 1
           /\ \A i \in DOMAIN events[r] : Answered(events[r], i) => Answered(events'[r], i)
<1>1. PICK all : all = events'[r]
  OBVIOUS
<1>2. events[r] \in Seq(Events) /\ all = events[r] \o new
  BY <1>1 DEF TypeOK
<1>3. Ends(all, FALSE)
  BY <1>2, EndsStays DEF Follows
<1>4. Ordered(all) /\ \A c : Results(all, c) = Results(events[r], c)
  BY <1>2, OrderedStays DEF Follows
<1>5. Told(all, conv'[r])
  <2>1. /\ \A i \in DOMAIN events[r] : all[i] = events[r][i]
        /\ \A i \in DOMAIN all \ DOMAIN events[r] :
             i - Len(events[r]) \in DOMAIN new /\ all[i] = new[i - Len(events[r])]
    BY <1>2, EventsAdded
  <2> QED  BY <2>1 DEF Follows, Told
<1>6. \A i \in DOMAIN events[r] : Answered(events[r], i) => Answered(all, i)
  BY <1>2, AnsweredStays
<1> QED  BY <1>1, <1>3, <1>4, <1>5, <1>6 DEF Follows

\* A run that another one's step leaves alone.
LEMMA FollowsStays ==
    ASSUME NEW s \in Runs, Follows(s), Untouched(s), events'[s] = events[s],
           \A c \in executed' : c.run = s => c \in executed
    PROVE  Follows(s)'
<1>1. CurrentCall(s)' = CurrentCall(s)
  BY DEF CurrentCall, Untouched
<1> QED  BY <1>1 DEF Follows, Untouched

\* The model's turns, the loop over the calls and the saves open no call.
LEMMA FollowsPlain ==
    ASSUME TypeOK, NEW r \in Runs, Follows(r), NEW new \in Seq(Events),
           events'[r] = events[r] \o new,
           \A i \in DOMAIN new : new[i].type \in {"model_call", "message"},
           pc[r] \in {"loop", "tools", "remember", "answer"},
           pc'[r] \notin {"idle", "approval", "call", "done"}, executed' = executed,
           \A x : InTranscript(x, conv[r]) => InTranscript(x, conv'[r])
    PROVE  Follows(r)'
<1>1. \A i \in DOMAIN new : ~Terminal(new[i]) /\ new[i].type \notin {"tool_result", "tool_call"}
  BY DEF Terminal
<1>2. /\ Ends(events'[r], pc'[r] = "done") /\ Ordered(events'[r]) /\ Told(events'[r], conv'[r])
      /\ \A c \in executed' : c.run = r => Cardinality(Results(events'[r], c)) = 1
      /\ \A i \in DOMAIN events[r] : Answered(events[r], i) => Answered(events'[r], i)
  BY <1>1, EventsGoOn
<1>3. ASSUME NEW i \in DOMAIN events'[r], events'[r][i].type = "tool_call"
      PROVE  Answered(events'[r], i)
  <2>1. events[r] \in Seq(Events)
    BY DEF TypeOK
  <2>2. PICK all : all = events'[r]
    OBVIOUS
  <2>3. i \in DOMAIN events[r] /\ all[i] = events[r][i]
    BY <1>1, <1>3, <2>1, <2>2, EventsAdded
  <2> QED  BY <1>2, <1>3, <2>2, <2>3 DEF Follows
<1> QED  BY <1>2, <1>3 DEF Follows

\* The event that ends a run is its last one, and finds every call answered.
LEMMA FollowsEnd ==
    ASSUME TypeOK, NEW r \in Runs, Follows(r), NEW new \in Seq(Events), new # <<>>,
           events'[r] = events[r] \o new,
           \A i \in DOMAIN new : Terminal(new[i]) <=> i = Len(new),
           \A i \in DOMAIN new : new[i].type \notin {"tool_call", "tool_result"},
           pc[r] \in {"idle", "loop", "return"}, pc'[r] = "done", executed' = executed,
           \A x : InTranscript(x, conv[r]) => InTranscript(x, conv'[r])
    PROVE  Follows(r)'
<1>1. PICK all : all = events'[r]
  OBVIOUS
<1>2. events[r] \in Seq(Events) /\ all = events[r] \o new
  BY <1>1 DEF TypeOK
<1>3. Ends(all, TRUE)
  BY <1>2, EndsEnd DEF Follows
<1>4. Ordered(all) /\ \A c : Results(all, c) = Results(events[r], c)
  BY <1>2, OrderedStays DEF Follows
<1>5. ASSUME NEW i \in DOMAIN all, all[i].type \in {"tool_call", "tool_result"}
      PROVE  i \in DOMAIN events[r] /\ all[i] = events[r][i]
  BY <1>2, <1>5, EventsAdded
<1>6. Told(all, conv'[r])
  BY <1>5 DEF Follows, Told
<1>7. ASSUME NEW i \in DOMAIN all, all[i].type = "tool_call" PROVE Answered(all, i)
  <2>1. i \in DOMAIN events[r] /\ Answered(events[r], i)
    BY <1>5, <1>7 DEF Follows
  <2> QED  BY <1>2, <2>1, AnsweredStays
<1> QED  BY <1>1, <1>3, <1>4, <1>6, <1>7 DEF Follows

\* A call opens with its own events.
LEMMA FollowsOpen ==
    ASSUME TypeOK, NEW r \in Runs, Follows(r), StartCall(r) \/ RequestApproval(r)
    PROVE  Follows(r)'
<1> DEFINE c == CurrentCall(r)
           a == Event("tool_call", c, TRUE, None)
           b == Event("hitl_request", c, TRUE, None)
<1>1. c \in CallIds /\ a \in Events /\ b \in Events
  BY HandlingInDomain, CurrentCallType, EventType DEF StartCall, RequestApproval, EventTypes
<1>2. /\ pc[r] = "tools" /\ executed' = executed /\ conv' = conv /\ CurrentCall(r)' = c
      /\ events[r] \in Seq(Events)
  BY DEF StartCall, RequestApproval, HandlingCall, history, CurrentCall, TypeOK
<1>3. PICK new \in Seq(Events) :
        /\ events'[r] = events[r] \o new /\ new # <<>> /\ new[1] = a
        /\ \/ pc'[r] = "call" /\ new = <<a>> /\ c.tool \notin Gated
           \/ pc'[r] = "approval" /\ new = <<a, b>> /\ c.tool \in Gated
  <2>1. CASE StartCall(r)
    <3>1. events'[r] = events[r] \o <<a>> /\ pc'[r] = "call" /\ c.tool \notin Gated
      BY <2>1 DEF StartCall, Emit, Go, ShouldInterrupt, TypeOK
    <3>2. <<a>> \in Seq(Events) /\ <<a>> # <<>> /\ <<a>>[1] = a
      <4> HIDE DEF a, b, c
      <4> QED  BY <1>1
    <3> HIDE DEF a, b, c
    <3> QED  BY <3>1, <3>2
  <2>2. CASE RequestApproval(r)
    <3>1. events'[r] = events[r] \o <<a, b>> /\ pc'[r] = "approval" /\ c.tool \in Gated
      BY <2>2 DEF RequestApproval, Emit, Go, ShouldInterrupt, TypeOK
    <3>2. <<a, b>> \in Seq(Events) /\ <<a, b>> # <<>> /\ <<a, b>>[1] = a
      <4> HIDE DEF a, b, c
      <4> QED  BY <1>1
    <3> HIDE DEF a, b, c
    <3> QED  BY <3>1, <3>2
  <2> QED  BY <2>1, <2>2
<1>4. /\ a.type = "tool_call" /\ a.call = c /\ ~Terminal(a)
      /\ b.type = "hitl_request" /\ b.call = c /\ ~Terminal(b)
  <2> HIDE DEF c
  <2> QED  BY DEF Event, Terminal
<1> HIDE DEF a, b
<1>5. \A i \in DOMAIN new : new[i] \in {a, b}
  BY <1>3
<1>6. \A i \in DOMAIN new : ~Terminal(new[i]) /\ new[i].type # "tool_result" /\ new[i].call = c
  BY <1>4, <1>5
<1>7. /\ Ends(events'[r], pc'[r] = "done") /\ Ordered(events'[r]) /\ Told(events'[r], conv'[r])
      /\ \A d \in executed' : d.run = r => Cardinality(Results(events'[r], d)) = 1
      /\ \A i \in DOMAIN events[r] : Answered(events[r], i) => Answered(events'[r], i)
  BY <1>2, <1>3, <1>6, EventsGoOn
<1>8. ASSUME NEW i \in DOMAIN events'[r], events'[r][i].type = "tool_call"
      PROVE  Answered(events'[r], i) \/ events'[r][i].call = c
  <2>1. PICK all : all = events'[r]
    OBVIOUS
  <2>2. (i \in DOMAIN events[r] /\ all[i] = events[r][i]) \/ all[i].call = c
    BY <1>2, <1>3, <1>6, <1>8, <2>1, EventsAdded
  <2> QED  BY <1>2, <1>7, <1>8, <2>1, <2>2 DEF Follows
<1>9. CASE pc'[r] = "call" /\ new = <<a>> /\ c.tool \notin Gated
  <2>1. events'[r] # <<>> /\ Opens(events'[r], Len(events'[r]) + 1, c)
    <3>1. /\ Len(events'[r]) = Len(events[r]) + 1 /\ Len(events[r]) \in Nat
          /\ events'[r][Len(events[r]) + 1] = a /\ events'[r] # <<>>
      BY <1>2, <1>3, <1>9
    <3>2. (Len(events'[r]) + 1) - 1 = Len(events[r]) + 1
      BY <3>1
    <3>3. events'[r][(Len(events'[r]) + 1) - 1] = Event("tool_call", c, TRUE, None)
      BY <3>1, <3>2 DEF a
    <3> QED  BY <1>9, <3>1, <3>3 DEF Opens
  <2> QED  BY <1>2, <1>7, <1>8, <1>9, <2>1 DEF Follows
<1>10. CASE pc'[r] = "approval" /\ new = <<a, b>> /\ c.tool \in Gated
  <2>1. Asked(events'[r], c)
    <3>1. /\ Len(events'[r]) = Len(events[r]) + 2 /\ Len(events[r]) \in Nat
          /\ events'[r][Len(events[r]) + 1] = a /\ events'[r][Len(events[r]) + 2] = b
      BY <1>2, <1>3, <1>10
    <3>2. Len(events'[r]) > 1 /\ Len(events'[r]) - 1 = Len(events[r]) + 1
      BY <3>1
    <3> QED  BY <1>10, <3>1, <3>2 DEF Asked, a, b
  <2> QED  BY <1>2, <1>7, <1>8, <1>10, <2>1 DEF Follows
<1> QED  BY <1>3, <1>9, <1>10

\* An approved call has its three events behind it.
LEMMA FollowsApproved ==
    ASSUME TypeOK, NEW r \in Runs, Follows(r), ApproverApproves(r)
    PROVE  Follows(r)'
<1> DEFINE c == CurrentCall(r)
           e == Event("hitl_decision", c, TRUE, None)
<1>1. c \in CallIds /\ e \in Events
  BY CurrentCallType, EventType DEF ApproverApproves, TypeOK, EventTypes
<1>2. /\ pc[r] = "approval" /\ pc'[r] = "call" /\ executed' = executed /\ conv' = conv
      /\ CurrentCall(r)' = c /\ events[r] \in Seq(Events) /\ events'[r] = events[r] \o <<e>>
  BY DEF ApproverApproves, CurrentCall, Emit, Go, TypeOK
<1>3. e.type = "hitl_decision" /\ ~Terminal(e)
  BY DEF Event, Terminal
<1>4. e = Event("hitl_decision", c, TRUE, None)
  OBVIOUS
<1> HIDE DEF e, c
<1>5. PICK new \in Seq(Events) : new = <<e>>
  BY <1>1, SeqOne
<1>6. \A i \in DOMAIN new : ~Terminal(new[i]) /\ new[i].type \notin {"tool_call", "tool_result"}
  BY <1>3, <1>5
<1>7. /\ Ends(events'[r], pc'[r] = "done") /\ Ordered(events'[r]) /\ Told(events'[r], conv'[r])
      /\ \A d \in executed' : d.run = r => Cardinality(Results(events'[r], d)) = 1
      /\ \A i \in DOMAIN events[r] : Answered(events[r], i) => Answered(events'[r], i)
  BY <1>2, <1>5, <1>6, EventsGoOn
<1>8. PICK all : all = events'[r]
  OBVIOUS
<1>9. ASSUME NEW i \in DOMAIN all, all[i].type = "tool_call"
      PROVE  Answered(all, i) \/ all[i].call = c
  <2>1. i \in DOMAIN events[r] /\ all[i] = events[r][i]
    BY <1>2, <1>5, <1>6, <1>8, <1>9, EventsAdded
  <2> QED  BY <1>2, <1>7, <1>8, <1>9, <2>1 DEF Follows, c
<1>10. all # <<>> /\ Opens(all, Len(all) + 1, c)
  <2> DEFINE n == Len(events[r])
  <2>1. /\ c.tool \in Gated /\ n \in Nat /\ n > 1
        /\ events[r][n] = Event("hitl_request", c, TRUE, None)
        /\ events[r][n - 1] = Event("tool_call", c, TRUE, None)
    <3>1. Asked(events[r], c)
      BY <1>2 DEF Follows, c
    <3> QED  BY <1>2, <3>1 DEF Asked
  <2>2. /\ Len(all) = n + 1 /\ all[n + 1] = e /\ all # <<>>
        /\ \A i \in DOMAIN events[r] : all[i] = events[r][i]
    BY <1>1, <1>2, <1>8
  <2>3. n \in DOMAIN events[r] /\ n - 1 \in DOMAIN events[r]
    BY <1>2, <2>1
  <2> HIDE DEF n
  <2>4. (n + 2) - 1 = n + 1 /\ (n + 2) - 2 = n /\ (n + 2) - 3 = n - 1 /\ n + 2 > 3 /\ Len(all) + 1 = n + 2
    BY <2>1, <2>2
  <2>5. all[(n + 2) - 1] = e /\ all[(n + 2) - 2] = events[r][n] /\ all[(n + 2) - 3] = events[r][n - 1]
    BY <2>2, <2>3, <2>4
  <2> QED  BY <1>4, <2>1, <2>2, <2>4, <2>5 DEF Opens
<1> QED  BY <1>2, <1>7, <1>8, <1>9, <1>10 DEF Follows

\* A rejection answers the call, and so does a result, which is its only one.
LEMMA FollowsReport ==
    ASSUME TypeOK, RequestsInv, SourcesInv, RoundsInv, ReportsInv,
           NEW r \in Runs, Follows(r), ApproverRejects(r) \/ CallTool(r)
    PROVE  Follows(r)'
<1> DEFINE c == CurrentCall(r)
<1>1. PICK code \in Codes : ReportsOn(r, code)
  BY ReportEffect
<1>2. /\ c \in CallIds /\ pc[r] \in {"approval", "call"} /\ pc'[r] \in {"tools", "remember"}
      /\ \A x : InTranscript(x, conv'[r]) <=> InTranscript(x, conv[r]) \/ x = ToolMessage(c, code)
  BY <1>1, SpokenIn DEF ReportsOn
<1>3. PICK e \in Events :
        /\ events'[r] = events[r] \o <<e>> /\ e.call = c
        /\ \/ e.type = "hitl_decision" /\ ~e.ok /\ executed' = executed
           \/ e.type = "tool_result" /\ pc[r] = "call" /\ executed' \in {executed, executed \cup {c}}
  <2>1. CASE ApproverRejects(r)
    <3>1. events'[r] = events[r] \o <<Event("hitl_decision", c, FALSE, None)>> /\ executed' = executed
      BY <2>1 DEF ApproverRejects, Emit, TypeOK, history
    <3>2. Event("hitl_decision", c, FALSE, None) \in Events
      BY <1>2, EventType DEF EventTypes
    <3> QED  BY <3>1, <3>2 DEF Event
  <2>2. CASE CallTool(r)
    <3> DEFINE errors(o) == IF o \in {"error", "invalid"} THEN 1 ELSE 0
    <3>1. PICK o \in ToolOutcomes :
            /\ executed' = IF o = "invalid" THEN executed ELSE executed \cup {CurrentCall(r)}
            /\ Emit(r, <<Event("tool_result", CurrentCall(r), errors(o) = 0, None)>>)
      BY <2>2, Zenon DEF CallTool
    <3>2. /\ events'[r] = events[r] \o <<Event("tool_result", c, errors(o) = 0, None)>>
          /\ pc[r] = "call" /\ executed' \in {executed, executed \cup {c}}
      BY <2>2, <3>1 DEF CallTool, Emit, TypeOK
    <3>3. Event("tool_result", c, errors(o) = 0, None) \in Events
      BY <1>2, EventType DEF EventTypes
    <3>4. /\ Event("tool_result", c, errors(o) = 0, None).type = "tool_result"
          /\ Event("tool_result", c, errors(o) = 0, None).call = c
      BY DEF Event
    <3> HIDE DEF errors, c
    <3> QED  BY <3>2, <3>3, <3>4
  <2> QED  BY <2>1, <2>2
<1>4. /\ \A d \in Codes : ~InTranscript(ToolMessage(c, d), conv[r])
      /\ c \notin executed /\ c.run = r
  <2>1. \A d \in Codes : ~InTranscript(ToolMessage(c, d), conv[r])
    BY <1>2, NoReportYet
  <2>2. c.run = r
    BY DEF CurrentCall
  <2> QED  BY <2>1, <2>2 DEF ReportsInv
<1>5. events[r] \in Seq(Events) /\ CurrentCall(r) = c
  BY DEF TypeOK
<1> HIDE DEF c
<1>6. PICK all, new : all = events'[r] /\ new = <<e>>
  OBVIOUS
<1>7. new \in Seq(Events) /\ all = events[r] \o new /\ (\A i \in DOMAIN new : new[i] = e)
      /\ ~Terminal(e)
  BY <1>3, <1>6 DEF Terminal
<1>8. /\ DOMAIN events[r] = 1..Len(events[r]) /\ Len(events[r]) \in Nat
      /\ \A i \in DOMAIN events[r] : i \in DOMAIN all /\ all[i] = events[r][i]
      /\ \A i \in DOMAIN all \ DOMAIN events[r] : all[i] = e
      /\ Len(events[r]) + 1 \in DOMAIN all /\ all[Len(events[r]) + 1] = e
  <2>1. DOMAIN new = {1} /\ new[1] = e
    BY <1>6
  <2>2. new \in Seq(Events) /\ all = events[r] \o new
    BY <1>7
  <2>3. /\ DOMAIN events[r] = 1..Len(events[r]) /\ Len(events[r]) \in Nat
        /\ \A i \in DOMAIN events[r] : i \in DOMAIN all /\ all[i] = events[r][i]
    BY <1>5, <2>2, EventsAdded
  <2>4. \A i \in DOMAIN all \ DOMAIN events[r] :
           i - Len(events[r]) \in DOMAIN new /\ all[i] = new[i - Len(events[r])]
    BY <1>5, <2>2, EventsAdded
  <2>5. \A i \in DOMAIN new :
           Len(events[r]) + i \in DOMAIN all /\ all[Len(events[r]) + i] = new[i]
    BY <1>5, <2>2, EventsAdded
  <2> QED  BY <2>1, <2>3, <2>4, <2>5
<1>9. Ends(all, FALSE)
  <2>1. Ends(events[r], FALSE)
    BY <1>2 DEF Follows
  <2>2. \A i \in DOMAIN new : ~Terminal(new[i])
    BY <1>7
  <2> QED  BY <1>5, <1>7, <2>1, <2>2, EndsStays
<1>10. ASSUME NEW i \in DOMAIN all, all[i].type = "tool_call" PROVE Answered(all, i)
  <2>1. i \in DOMAIN events[r] /\ all[i] = events[r][i]
    BY <1>3, <1>8, <1>10
  <2>2. CASE Answered(events[r], i)
    BY <1>5, <1>7, <2>1, <2>2, AnsweredStays
  <2>3. CASE events[r][i].call = c
    <3>1. Len(events[r]) + 1 > i
      BY <1>8, <2>1
    <3> QED  BY <1>3, <1>8, <2>1, <2>3, <3>1 DEF Answered, Settles
  <2> QED  BY <1>2, <1>5, <1>10, <2>1, <2>2, <2>3 DEF Follows
<1>11. Told(all, conv'[r])
  <2>1. ASSUME NEW i \in DOMAIN all, all[i].type = "tool_result"
        PROVE  \E d \in Codes : InTranscript(ToolMessage(all[i].call, d), conv'[r])
    <3>1. CASE i \in DOMAIN events[r]
      BY <1>2, <1>8, <2>1, <3>1 DEF Follows, Told
    <3>2. CASE i \notin DOMAIN events[r]
      BY <1>2, <1>3, <1>8, <2>1, <3>2
    <3> QED  BY <3>1, <3>2
  <2> QED  BY <2>1 DEF Told
<1>12. CASE e.type = "hitl_decision" /\ ~e.ok /\ executed' = executed
  <2>1. \A i \in DOMAIN new : new[i].type # "tool_result"
    BY <1>7, <1>12
  <2>2. Ordered(all) /\ \A d : Results(all, d) = Results(events[r], d)
    <3>1. Ordered(events[r]) /\ new \in Seq(Events) /\ all = events[r] \o new
      BY <1>7 DEF Follows
    <3>2. PICK es \in Seq(Events) : es = events[r]
      BY <1>5
    <3>3. Ordered(es) /\ all = es \o new
      BY ONLY <3>1, <3>2
    <3>4. Ordered(all) /\ \A d : Results(all, d) = Results(es, d)
      BY ONLY <2>1, <3>1, <3>3, OrderedStays, es \in Seq(Events)
    <3> QED  BY ONLY <3>2, <3>4
  <2> QED  BY <1>2, <1>6, <1>9, <1>10, <1>11, <1>12, <2>2 DEF Follows
<1>13. CASE e.type = "tool_result" /\ pc[r] = "call" /\ executed' \in {executed, executed \cup {c}}
  <2>1. /\ Ordered(all) /\ Results(all, c) = Results(events[r], c) \cup {Len(events[r]) + 1}
        /\ \A d : d # c => Results(all, d) = Results(events[r], d)
    <3>1. Ordered(events[r]) /\ events[r] # <<>> /\ Opens(events[r], Len(events[r]) + 1, c)
      BY <1>5, <1>13 DEF Follows
    <3>2. /\ new \in Seq(Events) /\ 1 \in DOMAIN new /\ \A i \in DOMAIN new : i = 1
          /\ all = events[r] \o new /\ new[1].type = "tool_result" /\ new[1].call = c
      BY <1>3, <1>6, <1>7, <1>13
    <3>3. PICK n : n = Len(events[r]) + 1
      OBVIOUS
    <3>4. Opens(events[r], n, c)
      BY <3>1, <3>3
    <3>5. Ordered(all) /\ OneResultMore(events[r], all, c)
      BY <1>5, <3>1, <3>2, <3>3, <3>4, ResultAdded
    <3> QED  BY <3>5 DEF OneResultMore
  <2>2. Results(events[r], c) = {}
    BY <1>4 DEF Results, Follows, Told
  <2>3. Cardinality(Results(all, c)) = 1
    <3>1. Results(all, c) = {Len(events[r]) + 1}
      BY <2>1, <2>2
    <3> QED  BY <3>1, FS_Singleton
  <2>4. \A d \in executed' : d.run = r => Cardinality(Results(all, d)) = 1
    BY <1>13, <2>1, <2>3 DEF Follows
  <2> QED  BY <1>2, <1>6, <1>9, <1>10, <1>11, <1>13, <2>1, <2>4 DEF Follows
<1> QED  BY <1>3, <1>12, <1>13

\* A step of a run leaves the events and the calls of the others alone.
LEMMA OthersEvents ==
    ASSUME TypeOK, NEW r \in Runs, Step(r), NEW s \in Runs \ {r}
    PROVE  events'[s] = events[s] /\ \A c \in executed' : c.run = s => c \in executed
<1>1. executed' \subseteq executed \cup {CurrentCall(r)}
  BY DEF Step, ModelFails, ModelAnswers, ModelCallsTools, ExceedIterations, SkipUnknown, StartCall,
         RequestApproval, ApproverRejects, ApproverApproves, CallTool, Remember, SaveRound,
         SaveAnswer, Return, history
<1>2. CurrentCall(r).run = r
  BY DEF CurrentCall
<1>3. events'[s] = events[s]
  <2>1. CASE ModelFails(r) \/ ExceedIterations(r)
    BY <2>1 DEF ModelFails, ExceedIterations, Fail, Emit, TypeOK
  <2>2. CASE ModelAnswers(r) \/ ModelCallsTools(r)
    BY <2>2 DEF ModelAnswers, ModelCallsTools, Emit, TypeOK
  <2>3. CASE SkipUnknown(r) \/ Remember(r) \/ SaveRound(r) \/ SaveAnswer(r)
    BY <2>3 DEF SkipUnknown, Remember, SaveRound, SaveAnswer
  <2>4. CASE StartCall(r) \/ RequestApproval(r)
    BY <2>4 DEF StartCall, RequestApproval, Emit, TypeOK
  <2>5. CASE ApproverRejects(r) \/ ApproverApproves(r)
    BY <2>5 DEF ApproverRejects, ApproverApproves, Emit, TypeOK
  <2>6. CASE CallTool(r) \/ Return(r)
    BY <2>6 DEF CallTool, Return, Emit, TypeOK
  <2> QED  BY <2>1, <2>2, <2>3, <2>4, <2>5, <2>6 DEF Step
<1> QED  BY <1>1, <1>2, <1>3

\* Whatever step the run takes.
LEMMA FollowsStep ==
    ASSUME TypeOK, TypeOK', RequestsInv, SourcesInv, RoundsInv, ReportsInv, [Next]_vars,
           NEW r \in Runs, Follows(r), Step(r)
    PROVE  Follows(r)'
<1>1. pc[r] # "idle"
  BY DEF Step, ModelFails, ModelAnswers, ModelCallsTools, ModelsTurn, ExceedIterations,
         SkipUnknown, StartCall, RequestApproval, HandlingCall, ApproverRejects,
         ApproverApproves, CallTool, Remember, SaveRound, SaveAnswer, Return
<1>2. \A x : InTranscript(x, conv[r]) => InTranscript(x, conv'[r])
  BY <1>1, RunsGoOn
<1>3. events[r] \in Seq(Events) /\ events[r] \o <<>> = events[r] /\ <<>> \in Seq(Events)
  BY DEF TypeOK
<1>4. CASE SkipUnknown(r) \/ Remember(r) \/ SaveRound(r) \/ SaveAnswer(r)
  <2>1. /\ events' = events /\ executed' = executed
        /\ pc[r] \in {"loop", "tools", "remember", "answer"}
        /\ pc'[r] \notin {"idle", "approval", "call", "done"}
    BY <1>4 DEF SkipUnknown, Remember, SaveRound, SaveAnswer, HandlingCall, Go, TypeOK, history
  <2>2. PICK new \in Seq(Events) : events'[r] = events[r] \o new /\ DOMAIN new = {}
    <3>1. DOMAIN <<>> = {}
      OBVIOUS
    <3> QED  BY <1>3, <2>1, <3>1
  <2> QED  BY <1>2, <2>1, <2>2, FollowsPlain
<1>5. CASE ModelAnswers(r) \/ ModelCallsTools(r)
  <2>1. pc[r] = "loop" /\ pc'[r] \in {"answer", "tools"} /\ executed' = executed
    BY <1>5, AnswerEffect, AskEffect
  <2>2. PICK new \in Seq(Events) :
          events'[r] = events[r] \o new /\ \A i \in DOMAIN new : new[i].type \in {"model_call", "message"}
    <3> DEFINE a == Plain("model_call")
               b == Plain("message")
    <3>1. a \in Events /\ b \in Events
      BY PlainType DEF EventTypes
    <3>2. a.type = "model_call" /\ b.type = "message"
      BY DEF Plain, Event
    <3>3. \/ events'[r] = events[r] \o <<a, b>> \/ events'[r] = events[r] \o (<<a>> \o <<>>)
          \/ events'[r] = events[r] \o (<<a>> \o <<b>>)
      BY <1>5 DEF ModelAnswers, ModelCallsTools, Emit, TypeOK
    <3> HIDE DEF a, b
    <3>4. PICK new : /\ new \in {<<a, b>>, <<a>> \o <<>>, <<a>> \o <<b>>}
                     /\ events'[r] = events[r] \o new
      BY <3>3
    <3>5. new \in Seq(Events) /\ \A i \in DOMAIN new : new[i] \in {a, b}
      <4>1. CASE new = <<a, b>>
        BY <3>1, <4>1
      <4>2. CASE new = <<a>> \o <<>>
        BY <3>1, <4>2
      <4>3. CASE new = <<a>> \o <<b>>
        BY <3>1, <4>3
      <4> QED  BY <3>4, <4>1, <4>2, <4>3
    <3> QED  BY <3>2, <3>4, <3>5
  <2> QED  BY <1>2, <2>1, <2>2, FollowsPlain
<1>6. CASE ModelFails(r) \/ ExceedIterations(r) \/ Return(r)
  <2>1. pc[r] \in {"loop", "return"} /\ pc'[r] = "done" /\ executed' = executed
    BY <1>6 DEF ModelFails, ModelsTurn, ExceedIterations, Return, Fail, Go, TypeOK, history
  <2>2. PICK new \in Seq(Events) :
          /\ events'[r] = events[r] \o new /\ new # <<>>
          /\ \A i \in DOMAIN new : Terminal(new[i]) <=> i = Len(new)
          /\ \A i \in DOMAIN new : new[i].type \notin {"tool_call", "tool_result"}
    <3> DEFINE a == Event("model_call", None, FALSE, None)
               e(code) == Event("error", None, FALSE, code)
               b == Plain("final")
    <3>1. CASE ModelFails(r)
      <4>1. events'[r] = events[r] \o (<<a>> \o <<e("llm_invoke_error")>>)
        BY <3>1 DEF ModelFails, Fail, Emit, TypeOK
      <4>2. a \in Events /\ e("llm_invoke_error") \in Events
        BY EventType DEF EventTypes, RunErrors
      <4>3. a.type = "model_call" /\ e("llm_invoke_error").type = "error"
        BY DEF Event
      <4> HIDE DEF a, e
      <4>4. PICK f : f = e("llm_invoke_error")
        OBVIOUS
      <4>5. PICK new : new = <<a, f>>
        OBVIOUS
      <4>6. /\ new = <<a>> \o <<f>> /\ new \in Seq(Events) /\ new # <<>> /\ Len(new) = 2
            /\ DOMAIN new = {1, 2} /\ new[1] = a /\ new[2] = f
        BY <4>2, <4>4, <4>5
      <4>7. events'[r] = events[r] \o new
        BY <4>1, <4>4, <4>6
      <4>8. \A i \in DOMAIN new : /\ Terminal(new[i]) <=> i = Len(new)
                                  /\ new[i].type \notin {"tool_call", "tool_result"}
        BY <4>3, <4>4, <4>6 DEF Terminal
      <4> QED  BY <4>6, <4>7, <4>8
    <3>2. CASE ExceedIterations(r)
      <4>1. events'[r] = events[r] \o (<<>> \o <<e("max_iterations_reached")>>)
        BY <3>2 DEF ExceedIterations, Fail, Emit, TypeOK
      <4>2. e("max_iterations_reached") \in Events
        BY EventType DEF EventTypes, RunErrors
      <4>3. e("max_iterations_reached").type = "error"
        BY DEF Event
      <4> HIDE DEF e
      <4>4. PICK f : f = e("max_iterations_reached")
        OBVIOUS
      <4>5. PICK new : new = <<f>>
        OBVIOUS
      <4>6. /\ new = <<>> \o <<f>> /\ new \in Seq(Events) /\ new # <<>> /\ Len(new) = 1
            /\ DOMAIN new = {1} /\ new[1] = f
        BY <4>2, <4>4, <4>5
      <4> QED  BY <4>1, <4>3, <4>4, <4>6 DEF Terminal
    <3>3. CASE Return(r)
      <4>1. events'[r] = events[r] \o <<b>>
        BY <3>3 DEF Return, Emit, TypeOK
      <4>2. b \in Events
        BY PlainType DEF EventTypes
      <4>3. b.type = "final"
        BY DEF Plain, Event
      <4> HIDE DEF b
      <4>4. PICK new : new = <<b>>
        OBVIOUS
      <4>5. /\ new \in Seq(Events) /\ new # <<>> /\ Len(new) = 1 /\ DOMAIN new = {1} /\ new[1] = b
        BY <4>2, <4>4
      <4> QED  BY <4>1, <4>3, <4>4, <4>5 DEF Terminal
    <3> QED  BY <1>6, <3>1, <3>2, <3>3
  <2> QED  BY <1>2, <2>1, <2>2, FollowsEnd
<1> QED  BY <1>4, <1>5, <1>6, FollowsOpen, FollowsApproved, FollowsReport DEF Step

\* A step of a run leaves the events of the others alone.
LEMMA EventsStep ==
    ASSUME TypeOK, TypeOK', RequestsInv, SourcesInv, RoundsInv, ReportsInv, EventsInv, [Next]_vars
    PROVE  EventsInv'
<1>1. CASE UNCHANGED vars
  <2>1. \A s \in Runs : Untouched(s) /\ events'[s] = events[s]
    BY <1>1 DEF vars, local, Untouched
  <2> QED  BY <1>1, <2>1, IdleEffect, FollowsStays DEF EventsInv
<1>2. CASE Crash
  <2>1. /\ events' = events /\ conv' = conv /\ executed' = executed /\ next' = next /\ calls' = calls
        /\ \A s \in Runs : pc'[s] = IF Active(s) THEN "crashed" ELSE pc[s]
    BY <1>2, CrashEffect DEF Crash
  <2>2. ASSUME NEW s \in Runs, Active(s) PROVE Follows(s)'
    BY <2>1, <2>2 DEF EventsInv, Follows, Active, Ended
  <2>3. ASSUME NEW s \in Runs, ~Active(s) PROVE Follows(s)'
    BY <2>1, <2>3 DEF EventsInv, Follows, Active, Ended
  <2> QED  BY <2>2, <2>3 DEF EventsInv
<1>3. ASSUME NEW r \in Runs, NEW t \in Threads, Load(r, t) PROVE EventsInv'
  <2>1. /\ pc[r] = "idle" /\ pc'[r] = "loop" /\ events' = events /\ executed' = executed
        /\ \A s \in Runs \ {r} : Untouched(s)
    BY <1>3, LoadEffect DEF Load
  <2>2. Follows(r) /\ events'[r] = <<>> /\ DOMAIN <<>> = {}
    BY <2>1 DEF EventsInv, Follows
  <2>3. Follows(r)'
    BY <2>1, <2>2 DEF Follows, Ends, Ordered, Told
  <2> QED  BY <2>1, <2>3, FollowsStays DEF EventsInv
<1>4. ASSUME NEW r \in Runs, NEW t \in Threads, LoadFails(r, t) PROVE EventsInv'
  <2>1. /\ pc[r] = "idle" /\ pc'[r] = "done" /\ conv' = conv /\ executed' = executed
        /\ \A s \in Runs \ {r} : Untouched(s) /\ events'[s] = events[s]
    BY <1>4, LoadFailsEffect DEF LoadFails, Fail, Emit, TypeOK
  <2> DEFINE e == Event("error", None, FALSE, "checkpoint_load_error")
  <2>2. events'[r] = events[r] \o (<<>> \o <<e>>)
    BY <1>4 DEF LoadFails, Fail, Emit, TypeOK
  <2>3. e \in Events /\ e.type = "error"
    BY EventType DEF EventTypes, RunErrors, Event
  <2> HIDE DEF e
  <2>4. PICK new : new = <<e>>
    OBVIOUS
  <2>5. /\ new = <<>> \o <<e>> /\ new \in Seq(Events) /\ new # <<>> /\ Len(new) = 1
        /\ DOMAIN new = {1} /\ new[1] = e
    BY <2>3, <2>4
  <2>6. /\ \A i \in DOMAIN new : Terminal(new[i]) <=> i = Len(new)
        /\ \A i \in DOMAIN new : new[i].type \notin {"tool_call", "tool_result"}
    BY <2>3, <2>5 DEF Terminal
  <2>7. events'[r] = events[r] \o new /\ new \in Seq(Events) /\ new # <<>>
    BY <2>2, <2>5
  <2>8. Follows(r)'
    BY <2>1, <2>6, <2>7, FollowsEnd DEF EventsInv
  <2> QED  BY <2>1, <2>8, FollowsStays DEF EventsInv
<1>5. ASSUME NEW r \in Runs, Step(r) PROVE EventsInv'
  <2>1. \A s \in Runs \ {r} : Untouched(s)
    BY <1>5, OthersStay
  <2>2. \A s \in Runs \ {r} : events'[s] = events[s] /\ \A c \in executed' : c.run = s => c \in executed
    BY <1>5, OthersEvents
  <2>3. Follows(r)'
    BY <1>5, FollowsStep DEF EventsInv
  <2> QED  BY <2>1, <2>2, <2>3, FollowsStays DEF EventsInv
<1> QED  BY <1>1, <1>2, <1>3, <1>4, <1>5 DEF Next, Begin, Finished

\* The invariant behind EventsCanBeFollowed.
LEMMA EventsKept == Spec => []EventsInv
<1>1. Init => EventsInv
  BY DEF Init, EventsInv, Follows, Ends, Ordered, Told
<1>2. TypeOK /\ TypeOK' /\ RequestsInv /\ SourcesInv /\ RoundsInv /\ ReportsInv /\ EventsInv
        /\ [Next]_vars => EventsInv'
  BY EventsStep
<1> QED  BY <1>1, <1>2, TypeCorrect, RequestsHold, SourcesHold, RoundsKept, ReportsKept, PTL DEF Spec

\* A consumer of Stream can follow any run from its events alone, whatever other
\* runs do: the last event, and no other, is final or error, exactly when the
\* run returned; every result follows the events its call opened with, once; and
\* a run that returned left no call without a result or a rejection
\* (graph.go:70-103, 145-178, 200-341).
THEOREM EventsCanBeFollowed == Spec => []EventsFollowable
<1>1. EventsInv => EventsFollowable
  <2>1. ASSUME NEW r \in Runs, Follows(r), pc[r] = "done",
               NEW i \in DOMAIN events[r], events[r][i].type = "tool_call"
        PROVE  \E j \in DOMAIN events[r] :
                  /\ j > i /\ events[r][j].call = events[r][i].call
                  /\ \/ events[r][j].type = "tool_result"
                     \/ events[r][j].type = "hitl_decision" /\ ~events[r][j].ok
    BY <2>1 DEF Follows, Answered, Settles
  <2> QED  BY <2>1 DEF EventsInv, EventsFollowable, Follows, Ends, Ordered, Results
<1> QED  BY <1>1, EventsKept, PTL

-----------------------------------------------------------------------------
(* The steps of a run as the outside sees them.                            *)

\* What the step of a run adds to its events.
Adds(r, new) ==
    /\ new \in Seq(Events) /\ events'[r] = events[r] \o new
    /\ pc'[r] = "done" => new # <<>>
Says(r, new) ==
    /\ Adds(r, new)
    /\ pc[r] # "done" /\ pc'[r] # "idle"
    /\ \A s \in Runs \ {r} : events'[s] = events[s] /\ pc'[s] = pc[s] /\ stats'[s] = stats[s]

\* A step that emits adds to the events of its run only, and so does every step.
LEMMA EmitSays ==
    ASSUME TypeOK, NEW r \in Runs, NEW es \in Seq(Events), Emit(r, es)
    PROVE  events'[r] = events[r] \o es /\ \A s \in Runs \ {r} : events'[s] = events[s]
  BY DEF TypeOK, Emit

\* The other runs say nothing.
LEMMA StepSays ==
    ASSUME TypeOK, NEW r \in Runs,
           Step(r) \/ \E t \in Threads : Load(r, t) \/ LoadFails(r, t)
    PROVE  \E new : Says(r, new)
<1>1. /\ pc[r] # "done" /\ pc'[r] # "idle"
      /\ \A s \in Runs \ {r} : pc'[s] = pc[s] /\ stats'[s] = stats[s]
  <2>1. CASE Step(r)
    <3>1. \A s \in Runs \ {r} : pc'[s] = pc[s] /\ stats'[s] = stats[s]
      BY <2>1, OthersStay DEF Untouched
    <3>2. pc[r] # "done" /\ pc'[r] # "idle"
      BY <2>1 DEF Step, ModelFails, ModelAnswers, ModelCallsTools, ModelsTurn, ExceedIterations,
         SkipUnknown, StartCall, RequestApproval, HandlingCall, ApproverRejects, Fail, Go, TypeOK,
         ApproverApproves, CallTool, Remember, SaveRound, SaveAnswer, Return
    <3> QED  BY <3>1, <3>2
  <2>2. ASSUME NEW t \in Threads, Load(r, t) \/ LoadFails(r, t)
        PROVE  /\ pc[r] # "done" /\ pc'[r] # "idle"
               /\ \A s \in Runs \ {r} : pc'[s] = pc[s] /\ stats'[s] = stats[s]
    BY <2>2, LoadEffect, LoadFailsEffect DEF Untouched
  <2> QED  BY <2>1, <2>2
<1>2. \A s \in Runs \ {r} : events'[s] = events[s]
  <2>1. CASE Step(r)
    BY <2>1, OthersEvents
  <2>2. ASSUME NEW t \in Threads, Load(r, t) \/ LoadFails(r, t) PROVE \A s \in Runs \ {r} : events'[s] = events[s]
    BY <2>2 DEF Load, LoadFails, Fail, Emit, TypeOK
  <2> QED  BY <2>1, <2>2
<1> SUFFICES \E new : Adds(r, new)
  BY <1>1, <1>2 DEF Says
<1>3. events[r] \in Seq(Events) /\ <<>> \in Seq(Events) /\ events[r] \o <<>> = events[r]
  BY DEF TypeOK
<1>4. ASSUME events' = events, pc'[r] # "done" PROVE \E new : Adds(r, new)
  BY <1>3, <1>4 DEF Adds
<1>5. ASSUME NEW e \in Events, NEW es \in Seq(Events), Emit(r, es \o <<e>>)
      PROVE  \E new : Adds(r, new)
  <2>1. PICK new : new = es \o <<e>>
    OBVIOUS
  <2>2. new \in Seq(Events) /\ new # <<>>
    BY <2>1
  <2> QED  BY <1>5, <2>1, <2>2, EmitSays DEF Adds
<1>6. ASSUME NEW e \in Events, Emit(r, <<e>>) PROVE \E new : Adds(r, new)
  <2>1. PICK new : new = <<e>>
    OBVIOUS
  <2>2. new \in Seq(Events) /\ new # <<>>
    BY <2>1
  <2> QED  BY <1>6, <2>1, <2>2, EmitSays DEF Adds
<1>7. ASSUME NEW e \in Events, NEW d \in Events, Emit(r, <<e, d>>) PROVE \E new : Adds(r, new)
  <2>1. PICK new : new = <<e, d>>
    OBVIOUS
  <2>2. new \in Seq(Events) /\ new # <<>>
    BY <2>1
  <2> QED  BY <1>7, <2>1, <2>2, EmitSays DEF Adds
<1>8. ASSUME NEW t \in Threads, Load(r, t) PROVE \E new : Adds(r, new)
  BY <1>4, <1>8, LoadEffect DEF Load
<1>9. ASSUME NEW es \in Seq(Events), NEW code \in RunErrors, Fail(r, es, code) PROVE \E new : Adds(r, new)
  <2>1. Event("error", None, FALSE, code) \in Events
    BY EventType DEF EventTypes
  <2> QED  BY <1>5, <1>9, <2>1 DEF Fail
<1>10. \A type \in EventTypes : Plain(type) \in Events
  BY PlainType
<1>11. ASSUME NEW t \in Threads, LoadFails(r, t) PROVE \E new : Adds(r, new)
  BY <1>3, <1>9, <1>11 DEF LoadFails, RunErrors
<1>12. CASE SkipUnknown(r) \/ Remember(r) \/ SaveRound(r) \/ SaveAnswer(r)
  <2>1. events' = events /\ pc'[r] # "done"
    BY <1>12 DEF SkipUnknown, Remember, SaveRound, SaveAnswer, HandlingCall, Go, TypeOK
  <2> QED  BY <1>4, <2>1
<1>13. CASE ModelFails(r)
  <2>1. Event("model_call", None, FALSE, None) \in Events
    BY EventType DEF EventTypes
  <2>2. <<Event("model_call", None, FALSE, None)>> \in Seq(Events)
    BY <2>1, SeqOne
  <2> QED  BY <1>9, <1>13, <2>2 DEF ModelFails, RunErrors
<1>14. CASE ExceedIterations(r)
  BY <1>3, <1>9, <1>14 DEF ExceedIterations, RunErrors
<1>15. CASE Return(r)
  BY <1>6, <1>10, <1>15 DEF Return, EventTypes
<1>16. CASE ModelAnswers(r)
  BY <1>7, <1>10, <1>16 DEF ModelAnswers, EventTypes
<1>17. CASE ModelCallsTools(r)
  <2>1. Plain("model_call") \in Events /\ Plain("message") \in Events
    BY <1>10 DEF EventTypes
  <2>2. \/ Emit(r, <<Plain("model_call")>> \o <<>>)
        \/ Emit(r, <<Plain("model_call")>> \o <<Plain("message")>>)
    BY <1>17 DEF ModelCallsTools
  <2>3. \A a : <<a>> \o <<>> = <<a>>
    OBVIOUS
  <2>4. <<Plain("model_call")>> \in Seq(Events)
    BY <2>1
  <2>5. CASE Emit(r, <<Plain("model_call")>> \o <<>>)
    BY <1>6, <2>1, <2>3, <2>5
  <2>6. CASE Emit(r, <<Plain("model_call")>> \o <<Plain("message")>>)
    BY <1>5, <2>1, <2>4, <2>6
  <2> QED  BY <2>2, <2>5, <2>6
<1>18. CASE StartCall(r) \/ RequestApproval(r)
  <2>1. /\ CurrentCall(r) \in CallIds
        /\ \A type \in EventTypes, ok \in BOOLEAN : Event(type, CurrentCall(r), ok, None) \in Events
    BY <1>18, HandlingInDomain, CurrentCallType, EventType DEF StartCall, RequestApproval
  <2>2. /\ Event("tool_call", CurrentCall(r), TRUE, None) \in Events
        /\ Event("hitl_request", CurrentCall(r), TRUE, None) \in Events
    BY <2>1 DEF EventTypes
  <2> QED  BY <1>6, <1>7, <1>18, <2>2 DEF StartCall, RequestApproval
<1>19. CASE ApproverRejects(r) \/ ApproverApproves(r) \/ CallTool(r)
  <2>1. next[r] \in DOMAIN calls[r]
    BY <1>19 DEF TypeOK, ApproverRejects, ApproverApproves, CallTool
  <2>2. /\ CurrentCall(r) \in CallIds
        /\ \A type \in EventTypes, ok \in BOOLEAN : Event(type, CurrentCall(r), ok, None) \in Events
    BY <2>1, CurrentCallType, EventType
  <2>3. CASE ApproverRejects(r) \/ ApproverApproves(r)
    <3>1. PICK ok \in BOOLEAN : Emit(r, <<Event("hitl_decision", CurrentCall(r), ok, None)>>)
      BY <2>3 DEF ApproverRejects, ApproverApproves
    <3>2. Event("hitl_decision", CurrentCall(r), ok, None) \in Events
      BY <2>2 DEF EventTypes
    <3> QED  BY <1>6, <3>1, <3>2
  <2>4. CASE CallTool(r)
    <3>1. PICK ok \in BOOLEAN : Emit(r, <<Event("tool_result", CurrentCall(r), ok, None)>>)
      BY <2>4 DEF CallTool
    <3>2. Event("tool_result", CurrentCall(r), ok, None) \in Events
      BY <2>2 DEF EventTypes
    <3> QED  BY <1>6, <3>1, <3>2
  <2> QED  BY <1>19, <2>3, <2>4
<1> QED  BY <1>8, <1>11, <1>12, <1>13, <1>14, <1>15, <1>16, <1>17, <1>18, <1>19 DEF Step

\* A step counts one call at most, and an error only with a model call.
Raises(r, models, modelErrors, tools) ==
    /\ stats'[r].modelCalls = stats[r].modelCalls + models
    /\ stats'[r].modelErrors = stats[r].modelErrors + modelErrors
    /\ stats'[r].toolCalls = stats[r].toolCalls + tools

\* A step counts one call at most.
LEMMA CallsCounted ==
    ASSUME TypeOK, NEW r \in Runs,
           Step(r) \/ \E t \in Threads : Load(r, t) \/ LoadFails(r, t)
    PROVE  Raises(r, 0, 0, 0) \/ Raises(r, 1, 0, 0) \/ Raises(r, 1, 1, 0) \/ Raises(r, 0, 0, 1)
<1>1. /\ stats[r].modelCalls \in Nat /\ stats[r].modelErrors \in Nat
      /\ stats[r].toolCalls \in Nat /\ stats[r].toolErrors \in Nat
  BY DEF TypeOK, Stats
<1>2. ASSUME stats' = stats PROVE Raises(r, 0, 0, 0)
  BY <1>1, <1>2 DEF Raises
<1>3. ASSUME NEW models \in Nat, NEW modelErrors \in Nat, NEW tools \in Nat, NEW toolErrors \in Nat,
             stats' = [stats EXCEPT ![r] = Count(@, models, modelErrors, tools, toolErrors)]
      PROVE  Raises(r, models, modelErrors, tools)
  BY <1>3 DEF Raises, Count, TypeOK
<1>4. CASE \E t \in Threads : Load(r, t) \/ LoadFails(r, t)
  BY <1>2, <1>4 DEF Load, LoadFails
<1>5. CASE \/ ExceedIterations(r) \/ SkipUnknown(r) \/ StartCall(r) \/ RequestApproval(r)
           \/ ApproverApproves(r) \/ Remember(r) \/ SaveRound(r) \/ SaveAnswer(r) \/ Return(r)
  BY <1>2, <1>5 DEF ExceedIterations, SkipUnknown, StartCall, RequestApproval, ApproverApproves,
     Remember, SaveRound, SaveAnswer, Return
<1>6. CASE ModelFails(r) \/ ModelAnswers(r) \/ ModelCallsTools(r)
  <2>1. \/ stats' = [stats EXCEPT ![r] = Count(@, 1, 1, 0, 0)]
        \/ stats' = [stats EXCEPT ![r] = Count(@, 1, 0, 0, 0)]
    BY <1>6 DEF ModelFails, ModelAnswers, ModelCallsTools
  <2> QED  BY <1>3, <2>1
<1>7. CASE ApproverRejects(r)
  <2>1. stats' = [stats EXCEPT ![r] = Count(@, 0, 0, 0, 1)]
    BY <1>7 DEF ApproverRejects
  <2> QED  BY <1>3, <2>1
<1>8. CASE CallTool(r)
  <2>1. PICK n \in {0, 1} : stats' = [stats EXCEPT ![r] = Count(@, 0, 0, 1, n)]
    BY <1>8 DEF CallTool
  <2> QED  BY <1>3, <2>1
<1> QED  BY <1>4, <1>5, <1>6, <1>7, <1>8 DEF Step

\* The log call a step leaves to do is that of the call it counted.
Todos(r, types) == [do : {"log"}, item : LogItems({r}, types)]
CallTypes == {"model_call", "tool_call"}
ModelLog(r, ok) == DoLog(LogItem(r, "model_call", ok, TRUE))
ToolLog(r, ok, marshals) == DoLog(LogItem(r, "tool_call", ok, marshals))

\* A log call is a thing to do.
LEMMA LogTodo ==
    ASSUME NEW r \in Runs, NEW types, NEW type \in types, NEW ok \in BOOLEAN, NEW marshals \in BOOLEAN
    PROVE  DoLog(LogItem(r, type, ok, marshals)) \in Todos(r, types)
  BY DEF DoLog, LogItem, Todos, LogItems

\* What a step counts it logs, as a success if it counts no error.
LEMMA CallLogged ==
    ASSUME TypeOK, NEW r \in Runs,
           Step(r) \/ \E t \in Threads : Load(r, t) \/ LoadFails(r, t)
    PROVE  /\ CallLogs(r) \in Seq(Todos(r, CallTypes))
           /\ \/ Raises(r, 0, 0, 0) /\ CallLogs(r) = <<>>
              \/ Raises(r, 1, 0, 0) /\ CallLogs(r) = <<ModelLog(r, TRUE)>>
              \/ Raises(r, 1, 1, 0) /\ CallLogs(r) = <<ModelLog(r, FALSE)>>
              \/ \E ok, marshals \in BOOLEAN :
                   Raises(r, 0, 0, 1) /\ CallLogs(r) = <<ToolLog(r, ok, marshals)>>
<1>1. stats[r].modelCalls \in Nat /\ stats[r].modelErrors \in Nat /\ stats[r].toolCalls \in Nat
  BY DEF TypeOK, Stats
<1>2. \A todos \in {<<>>} \cup {<<d>> : d \in Todos(r, CallTypes)} : todos \in Seq(Todos(r, CallTypes))
  <2>1. <<>> \in Seq(Todos(r, CallTypes))
    OBVIOUS
  <2>2. \A d \in Todos(r, CallTypes) : <<d>> \in Seq(Todos(r, CallTypes))
    BY SeqOne
  <2> QED  BY <2>1, <2>2
<1>3. \A type \in CallTypes, ok, marshals \in BOOLEAN : DoLog(LogItem(r, type, ok, marshals)) \in Todos(r, CallTypes)
  BY LogTodo
<1>4. CASE Raises(r, 0, 0, 0)
  <2>1. ~(stats'[r].modelCalls > stats[r].modelCalls) /\ ~(stats'[r].toolCalls > stats[r].toolCalls)
    BY <1>1, <1>4 DEF Raises
  <2>2. CallLogs(r) = <<>>
    BY <2>1 DEF CallLogs
  <2> QED  BY <1>2, <1>4, <2>2
<1>5. CASE Raises(r, 1, 0, 0) \/ Raises(r, 1, 1, 0)
  <2>1. /\ stats'[r].modelCalls > stats[r].modelCalls /\ ~(stats'[r].toolCalls > stats[r].toolCalls)
        /\ stats'[r].modelErrors = stats[r].modelErrors <=> Raises(r, 1, 0, 0)
    BY <1>1, <1>5 DEF Raises
  <2>2. CallLogs(r) = <<DoLog(LogItem(r, "model_call", stats'[r].modelErrors = stats[r].modelErrors, TRUE))>>
    BY <2>1 DEF CallLogs
  <2>3. CASE Raises(r, 1, 0, 0)
    <3>1. CallLogs(r) = <<ModelLog(r, TRUE)>>
      BY <2>1, <2>2, <2>3 DEF ModelLog
    <3> QED  BY <1>2, <1>3, <2>3, <3>1 DEF ModelLog, CallTypes
  <2>4. CASE Raises(r, 1, 1, 0) /\ ~Raises(r, 1, 0, 0)
    <3>1. CallLogs(r) = <<ModelLog(r, FALSE)>>
      BY <2>1, <2>2, <2>4 DEF ModelLog
    <3> QED  BY <1>2, <1>3, <2>4, <3>1 DEF ModelLog, CallTypes
  <2> QED  BY <1>5, <2>3, <2>4
<1>6. CASE Raises(r, 0, 0, 1)
  <2>1. ~(stats'[r].modelCalls > stats[r].modelCalls) /\ stats'[r].toolCalls > stats[r].toolCalls
    BY <1>1, <1>6 DEF Raises
  <2>2. PICK ok, marshals \in BOOLEAN :
          /\ ok = (stats'[r].toolErrors = stats[r].toolErrors)
          /\ marshals = (Last(conv'[r].messages).code # "serialization_error")
    OBVIOUS
  <2>3. CallLogs(r) = <<ToolLog(r, ok, marshals)>>
    BY <2>1, <2>2 DEF CallLogs, ToolLog
  <2> QED  BY <1>2, <1>3, <1>6, <2>3 DEF ToolLog, CallTypes
<1> QED  BY <1>4, <1>5, <1>6, CallsCounted

\* All of a list is chosen, or nothing.
LEMMA SelectedAll ==
    ASSUME NEW T, NEW s \in Seq(T), NEW S, T \subseteq S
    PROVE  Selected(s, S) = s
<1> DEFINE P == {t \in Seq(T) : Selected(t, S) = t}
<1>1. <<>> \in P
  <2>1. <<>> \in Seq(T)
    OBVIOUS
  <2> QED  BY <2>1, SelectedNone
<1>2. ASSUME NEW t \in Seq(T), NEW x \in T, t \in P PROVE Append(t, x) \in P
  <2>1. Append(t, x) \in Seq(T)
    OBVIOUS
  <2> QED  BY <1>2, <2>1, SelectedAppend
<1> HIDE DEF P
<1>3. s \in P
  BY <1>1, <1>2, ListInduction
<1> QED  BY <1>3 DEF P

\* Nothing is chosen of a list without such elements.
LEMMA SelectedNothing ==
    ASSUME NEW T, NEW s \in Seq(T), NEW S, T \cap S = {}
    PROVE  Selected(s, S) = <<>>
<1> DEFINE P == {t \in Seq(T) : Selected(t, S) = <<>>}
<1>1. <<>> \in P
  <2>1. <<>> \in Seq(T)
    OBVIOUS
  <2> QED  BY <2>1, SelectedNone
<1>2. ASSUME NEW t \in Seq(T), NEW x \in T, t \in P PROVE Append(t, x) \in P
  <2>1. Append(t, x) \in Seq(T)
    OBVIOUS
  <2> QED  BY <1>2, <2>1, SelectedAppend
<1> HIDE DEF P
<1>3. s \in P
  BY <1>1, <1>2, ListInduction
<1> QED  BY <1>3 DEF P

\* What the calls of the sink in a list of things to do emit.
Items(todos) == [i \in DOMAIN todos |-> todos[i].item]

\* The events of two lists of sink calls.
LEMMA ItemsOfConcat ==
    ASSUME NEW s \in Seq(Emits), NEW t \in Seq(Emits)
    PROVE  Items(s) \in Seq(Events) /\ Items(s \o t) = Items(s) \o Items(t)
<1>1. \A u \in Seq(Emits) : /\ Items(u) \in Seq(Events) /\ Len(Items(u)) = Len(u)
                            /\ \A i \in 1..Len(u) : Items(u)[i] = u[i].item
  <2> SUFFICES ASSUME NEW u \in Seq(Emits)
               PROVE  /\ Items(u) \in Seq(Events) /\ Len(Items(u)) = Len(u)
                      /\ \A i \in 1..Len(u) : Items(u)[i] = u[i].item
    OBVIOUS
  <2>1. DOMAIN u = 1..Len(u) /\ Len(u) \in Nat /\ \A i \in 1..Len(u) : u[i] \in Emits
    OBVIOUS
  <2>2. \A i \in 1..Len(u) : u[i].item \in Events
    BY <2>1 DEF Emits
  <2>3. Items(u) = [i \in 1..Len(u) |-> u[i].item]
    BY <2>1 DEF Items
  <2> QED  BY <2>1, <2>2, <2>3
<1>2. PICK u : u = s \o t
  OBVIOUS
<1>3. /\ u \in Seq(Emits) /\ Len(u) = Len(s) + Len(t) /\ Len(s) \in Nat /\ Len(t) \in Nat
      /\ \A i \in 1..Len(s) : u[i] = s[i]
      /\ \A i \in 1..Len(t) : u[Len(s) + i] = t[i]
  BY <1>2
<1>4. PICK a \in Seq(Events), b \in Seq(Events) : a = Items(s) /\ b = Items(t)
  BY <1>1
<1>5. Len(a) = Len(s) /\ Len(b) = Len(t)
  BY <1>1, <1>4
<1>6. /\ Len(a \o b) = Len(a) + Len(b) /\ a \o b \in Seq(Events)
      /\ \A i \in 1..Len(a) : (a \o b)[i] = a[i]
      /\ \A i \in 1..Len(b) : (a \o b)[Len(a) + i] = b[i]
  OBVIOUS
<1>7. /\ Len(a \o b) = Len(u) /\ a \o b \in Seq(Events)
      /\ \A i \in 1..Len(s) : (a \o b)[i] = a[i]
      /\ \A i \in 1..Len(t) : (a \o b)[Len(s) + i] = b[i]
  BY <1>3, <1>5, <1>6
<1>8. ASSUME NEW i \in 1..Len(u) PROVE Items(u)[i] = (a \o b)[i]
  <2>1. CASE i \in 1..Len(s)
    <3>1. Items(u)[i] = u[i].item /\ a[i] = s[i].item
      BY <1>1, <1>3, <1>4, <2>1
    <3>2. u[i] = s[i] /\ (a \o b)[i] = a[i]
      BY <1>3, <1>7, <2>1
    <3> QED  BY <3>1, <3>2
  <2>2. CASE i \notin 1..Len(s)
    <3>1. i - Len(s) \in 1..Len(t) /\ Len(s) + (i - Len(s)) = i
      BY <1>3, <2>2
    <3>2. u[i] = t[i - Len(s)] /\ (a \o b)[i] = b[i - Len(s)]
      BY <1>3, <1>7, <3>1
    <3> QED  BY <1>1, <1>3, <1>4, <3>1, <3>2
  <2> QED  BY <2>1, <2>2
<1>9. PICK c \in Seq(Events) : c = a \o b
  BY <1>7
<1>10. PICK d \in Seq(Events) : d = Items(u)
  BY <1>1, <1>3
<1>11. Len(c) = Len(u) /\ Len(d) = Len(u) /\ \A i \in 1..Len(u) : c[i] = d[i]
  BY <1>1, <1>3, <1>7, <1>8, <1>9, <1>10
<1>12. c = d
  BY <1>11, SMTT(60)
<1> QED  BY <1>1, <1>2, <1>4, <1>9, <1>10, <1>12

\* The sink calls for a list of events hand on these events.
LEMMA EmitAllItems ==
    ASSUME NEW es \in Seq(Events)
    PROVE  EmitAll(es) \in Seq(Emits) /\ Items(EmitAll(es)) = es
<1>1. DOMAIN es = 1..Len(es) /\ Len(es) \in Nat /\ \A i \in 1..Len(es) : DoEmit(es[i]) \in Emits
  BY DEF DoEmit, Emits
<1>2. EmitAll(es) = [i \in 1..Len(es) |-> DoEmit(es[i])]
  BY <1>1 DEF EmitAll
<1>3. EmitAll(es) \in Seq(Emits)
  BY <1>1, <1>2
<1>4. Items(EmitAll(es)) = [i \in 1..Len(es) |-> es[i]]
  BY <1>1, <1>2 DEF Items, DoEmit
<1> QED  BY <1>1, <1>3, <1>4

\* The last of them comes last.
LEMMA EmitAllEnds ==
    ASSUME NEW es \in Seq(Events), es # <<>>
    PROVE  /\ Front(es) \in Seq(Events) /\ Last(es) \in Events
           /\ EmitAll(es) = EmitAll(Front(es)) \o <<DoEmit(Last(es))>>
<1>1. DOMAIN es = 1..Len(es) /\ Len(es) \in Nat \ {0}
  OBVIOUS
<1>2. PICK front : front = SubSeq(es, 1, Len(es) - 1)
  OBVIOUS
<1>3. /\ front \in Seq(Events) /\ Len(front) = Len(es) - 1
      /\ \A i \in 1..(Len(es) - 1) : front[i] = es[i]
  BY <1>1, <1>2
<1>4. Front(es) = front /\ Last(es) = es[Len(es)] /\ es[Len(es)] \in Events
  BY <1>1, <1>2 DEF Front, Last
<1>5. PICK a \in Seq(Emits) : a = EmitAll(front)
  BY <1>3, EmitAllItems
<1>6. PICK d \in Emits : d = DoEmit(es[Len(es)])
  BY <1>4 DEF DoEmit, Emits
<1>7. PICK b \in Seq(Emits) : b = EmitAll(es)
  BY EmitAllItems
<1>8. Len(a) = Len(es) - 1 /\ \A i \in 1..(Len(es) - 1) : a[i] = DoEmit(es[i])
  <2>1. EmitAll(front) = [i \in 1..(Len(es) - 1) |-> DoEmit(front[i])]
    BY <1>1, <1>3 DEF EmitAll
  <2> QED  BY <1>1, <1>3, <1>5, <2>1
<1>9. Len(b) = Len(es) /\ \A i \in 1..Len(es) : b[i] = DoEmit(es[i])
  <2>1. EmitAll(es) = [i \in 1..Len(es) |-> DoEmit(es[i])]
    BY <1>1 DEF EmitAll
  <2> QED  BY <1>1, <1>7, <2>1
<1>10. b = a \o <<d>>
  <2>1. PICK c : c = a \o <<d>>
    OBVIOUS
  <2>2. /\ c \in Seq(Emits) /\ Len(c) = Len(a) + 1 /\ c[Len(a) + 1] = d
        /\ \A i \in 1..Len(a) : c[i] = a[i]
    BY <2>1
  <2>3. Len(c) = Len(b) /\ \A i \in 1..Len(b) : c[i] = b[i]
    BY <1>1, <1>6, <1>8, <1>9, <2>2
  <2>4. b = c
    BY <2>2, <2>3
  <2> QED  BY <2>1, <2>4
<1> QED  BY <1>3, <1>4, <1>5, <1>6, <1>7, <1>10

\* Of two lists one of which has nothing to choose from.
LEMMA SelectedEither ==
    ASSUME NEW T, NEW s \in Seq(T), NEW t \in Seq(T), NEW S
    PROVE  /\ Selected(s, S) = <<>> => Selected(s \o t, S) = Selected(t, S)
           /\ Selected(t, S) = <<>> => Selected(s \o t, S) = Selected(s, S)
<1>1. PICK u : u = Selected(s \o t, S)
  OBVIOUS
<1>2. PICK a \in Seq(T), b \in Seq(T) : a = Selected(s, S) /\ b = Selected(t, S)
  BY SelectedType
<1>3. Selected(s \o t, S) = Selected(s, S) \o Selected(t, S)
  BY SelectedConcat
<1>4. u = a \o b
  BY <1>1, <1>2, <1>3
<1>5. (a = <<>> => a \o b = b) /\ (b = <<>> => a \o b = a)
  OBVIOUS
<1> QED  BY <1>1, <1>2, <1>4, <1>5

\* Of a list of two elements.
LEMMA SelectedPair ==
    ASSUME NEW d, NEW e, NEW S
    PROVE  Selected(<<d, e>>, S) = IF d \in S THEN IF e \in S THEN <<d, e>> ELSE <<d>>
                                   ELSE IF e \in S THEN <<e>> ELSE <<>>
<1>1. PICK T : d \in T /\ e \in T
  <2>1. d \in {d, e} /\ e \in {d, e}
    OBVIOUS
  <2> QED  BY <2>1
<1>2. PICK a \in Seq(T) : a = <<d>>
  BY <1>1, SeqOne
<1>3. Selected(a, S) = IF d \in S THEN <<d>> ELSE <<>>
  BY <1>2, SelectedOne
<1>4. Selected(Append(a, e), S) = IF e \in S THEN Append(Selected(a, S), e) ELSE Selected(a, S)
  BY <1>1, SelectedAppend
<1>5. Append(a, e) = <<d, e>> /\ Append(<<>>, e) = <<e>>
  <2>1. Append(<<d>>, e) = <<d, e>>
    <3>1. <<d, e>> = Append(<<d>>, e)
      OBVIOUS
    <3> QED  BY <3>1
  <2>2. Append(<<>>, e) = <<e>>
    OBVIOUS
  <2> QED  BY <1>2, <2>1, <2>2
<1> QED  BY <1>2, <1>3, <1>4, <1>5

\* What a longer list has after a shorter one.
LEMMA SuffixAdded ==
    ASSUME NEW S, NEW s \in Seq(S), NEW new \in Seq(S), NEW all, all = s \o new
    PROVE  SubSeq(all, Len(s) + 1, Len(all)) = new
<1>1. /\ all \in Seq(S) /\ Len(all) = Len(s) + Len(new) /\ Len(s) \in Nat /\ Len(new) \in Nat
      /\ \A i \in 1..Len(new) : all[Len(s) + i] = new[i]
  OBVIOUS
<1>2. PICK u : u = SubSeq(all, Len(s) + 1, Len(all))
  OBVIOUS
<1>3. u \in Seq(S) /\ Len(u) = Len(new) /\ \A i \in 1..Len(new) : u[i] = all[Len(s) + i]
  BY <1>1, <1>2
<1>4. \A i \in 1..Len(new) : u[i] = new[i]
  BY <1>1, <1>3
<1>5. u = new
  BY <1>1, <1>3, <1>4
<1> QED  BY <1>2, <1>5

Todo == [do : {"log"}, item : LogItems(Runs, LogTypes)] \cup Emits
OwnTodo(r) == Todos(r, LogTypes) \cup Emits
ListsOK ==
    /\ todo \in [Runs -> Seq(Todo)] /\ \A r \in Runs : todo[r] \in Seq(OwnTodo(r))
    /\ queue \in [Runs -> Seq(Events)] /\ received \in [Runs -> Seq(Events)]

\* A step leaves to do the log call of what it counted and the emission of
\* what it said, and a run that ends its summary; no call is logged besides.
LEMMA TodoLeft ==
    ASSUME TypeOK, TypeOK', NEW r \in Runs, NEW new, Says(r, new), LeaveToDo(r),
           CallLogs(r) \in Seq(Todos(r, CallTypes)), ListsOK
    PROVE  \E left : /\ todo' = [todo EXCEPT ![r] = left] /\ todo'[r] = left
                     /\ left \in Seq(OwnTodo(r))
                     /\ Selected(left, Emits) = EmitAll(new)
                     /\ \A S \in SUBSET Todos(r, CallTypes) :
                          Selected(left, S) = Selected(CallLogs(r), S)
<1>1. PICK D : D = OwnTodo(r)
  OBVIOUS
<1>2. new \in Seq(Events) /\ NewEvents(r) = new
  <2>1. PICK all : all = events'[r]
    OBVIOUS
  <2>2. events[r] \in Seq(Events) /\ all = events[r] \o new /\ new \in Seq(Events)
    BY <2>1 DEF Says, Adds, TypeOK
  <2>3. SubSeq(all, Len(events[r]) + 1, Len(all)) = new
    BY <2>2, SuffixAdded
  <2> QED  BY <2>1, <2>2, <2>3 DEF NewEvents
<1>3. PICK call : call = CallLogs(r) /\ call \in Seq(Todos(r, CallTypes))
  OBVIOUS
<1>4. Todos(r, CallTypes) \subseteq Todos(r, LogTypes) /\ Emits \subseteq D /\ Todos(r, LogTypes) \subseteq D
  BY <1>1 DEF OwnTodo, Todos, LogItems, LogTypes, CallTypes
<1>5. Todos(r, LogTypes) \cap Emits = {}
  BY DEF Todos, Emits
<1>6. call \in Seq(D)
  BY <1>3, <1>4
<1>7. Selected(call, Emits) = <<>>
  BY <1>3, <1>4, <1>5, SelectedNothing
<1>8. \A es \in Seq(Emits) : /\ es \in Seq(D) /\ Selected(es, Emits) = es
                             /\ \A S \in SUBSET Todos(r, CallTypes) : Selected(es, S) = <<>>
  <2> SUFFICES ASSUME NEW es \in Seq(Emits)
               PROVE  /\ es \in Seq(D) /\ Selected(es, Emits) = es
                      /\ \A S \in SUBSET Todos(r, CallTypes) : Selected(es, S) = <<>>
    OBVIOUS
  <2>1. es \in Seq(D)
    BY <1>4
  <2>2. Selected(es, Emits) = es
    BY SelectedAll
  <2>3. ASSUME NEW S \in SUBSET Todos(r, CallTypes) PROVE Selected(es, S) = <<>>
    <3>1. Emits \cap S = {}
      BY <1>4, <1>5
    <3> QED  BY <3>1, SelectedNothing
  <2> QED  BY <2>1, <2>2, <2>3
<1>9. PICK rest : /\ rest \in Seq(D) /\ todo' = [todo EXCEPT ![r] = call \o rest]
                  /\ Selected(rest, Emits) = EmitAll(new)
                  /\ \A S \in SUBSET Todos(r, CallTypes) : Selected(rest, S) = <<>>
  <2>1. CASE pc'[r] # "done"
    <3>1. EmitAll(new) \in Seq(Emits)
      BY <1>2, EmitAllItems
    <3>2. todo' = [todo EXCEPT ![r] = call \o EmitAll(new)]
      BY <1>2, <1>3, <2>1 DEF LeaveToDo
    <3> QED  BY <1>8, <3>1, <3>2
  <2>2. CASE pc'[r] = "done"
    <3>1. new # <<>>
      BY <2>2 DEF Says, Adds
    <3>2. /\ Front(new) \in Seq(Events) /\ Last(new) \in Events
          /\ EmitAll(new) = EmitAll(Front(new)) \o <<DoEmit(Last(new))>>
      BY <1>2, <3>1, EmitAllEnds
    <3>3. Last(events'[r]) = Last(new)
      <4>1. PICK all : all = events'[r]
        OBVIOUS
      <4>2. events[r] \in Seq(Events) /\ all = events[r] \o new /\ new \in Seq(Events)
        BY <4>1 DEF Says, Adds, TypeOK
      <4>3. all[Len(all)] = new[Len(new)]
        BY <3>1, <4>2
      <4> QED  BY <4>1, <4>3 DEF Last
    <3>4. PICK front \in Seq(Emits) : front = EmitAll(Front(new))
      BY <3>2, EmitAllItems
    <3>5. PICK e \in Emits : e = DoEmit(Last(new))
      BY <3>2 DEF DoEmit, Emits
    <3>6. PICK d : d = DoLog(LogItem(r, "run_summary", outcome'[r] = "final", TRUE))
      OBVIOUS
    <3>7. d \in Todos(r, LogTypes) /\ d \notin Emits /\ d \notin Todos(r, CallTypes)
      <4>1. d \in Todos(r, LogTypes)
        BY <3>6, LogTodo DEF LogTypes
      <4>2. d \notin Todos(r, CallTypes)
        BY <3>6 DEF DoLog, LogItem, Todos, LogItems, CallTypes
      <4> QED  BY <1>5, <4>1, <4>2
    <3>8. PICK rest : rest \in {front \o <<e, d>>, front \o <<d, e>>} /\ todo' = [todo EXCEPT ![r] = call \o rest]
      <4>1. NewEvents(r) = new /\ Ending(r) \in {<<e, d>>, <<d, e>>}
        BY <1>2, <3>3, <3>5, <3>6 DEF Ending
      <4>2. todo' = [todo EXCEPT ![r] = call \o (front \o Ending(r))]
        BY <1>3, <2>2, <3>4, <4>1 DEF LeaveToDo
      <4> QED  BY <4>1, <4>2
    <3>9. PICK ending \in {<<e, d>>, <<d, e>>} : rest = front \o ending
      BY <3>8
    <3>10. ending \in Seq(D) /\ front \in Seq(D)
      <4>1. e \in D /\ d \in D
        BY <1>4, <3>7
      <4>2. <<e, d>> \in Seq(D) /\ <<d, e>> \in Seq(D)
        BY <4>1, SeqTwo
      <4> QED  BY <1>8, <3>9, <4>2
    <3>11. Selected(ending, Emits) = <<e>>
      <4>1. Selected(<<e, d>>, Emits) = <<e>> /\ Selected(<<d, e>>, Emits) = <<e>>
        BY <3>5, <3>7, SelectedPair
      <4> QED  BY <3>9, <4>1
    <3>12. ASSUME NEW S \in SUBSET Todos(r, CallTypes) PROVE Selected(ending, S) = <<>>
      <4>1. PICK T : T = {d, e}
        OBVIOUS
      <4>2. T \cap S = {}
        BY <1>4, <1>5, <3>5, <3>7, <4>1
      <4>3. <<e, d>> \in Seq(T) /\ <<d, e>> \in Seq(T)
        BY <4>1, SeqTwo
      <4>4. ending \in Seq(T)
        BY <3>9, <4>3
      <4> QED  BY <4>2, <4>4, SelectedNothing
    <3>13. rest \in Seq(D)
      BY <3>9, <3>10
    <3>14. Selected(rest, Emits) = EmitAll(new)
      <4>1. Selected(rest, Emits) = Selected(front, Emits) \o Selected(ending, Emits)
        BY <3>9, <3>10, SelectedConcat
      <4>2. Selected(front, Emits) = front
        BY <1>8
      <4> QED  BY <3>2, <3>4, <3>5, <3>11, <4>1, <4>2
    <3>15. ASSUME NEW S \in SUBSET Todos(r, CallTypes) PROVE Selected(rest, S) = <<>>
      <4>1. Selected(front, S) = <<>> /\ Selected(ending, S) = <<>>
        BY <1>8, <3>12
      <4> QED  BY <3>9, <3>10, <4>1, SelectedEither
    <3> QED  BY <3>8, <3>13, <3>14, <3>15
  <2> QED  BY <2>1, <2>2
<1>10. PICK left : left = call \o rest
  OBVIOUS
<1>11. left \in Seq(D)
  BY <1>6, <1>9, <1>10
<1>12. Selected(left, Emits) = EmitAll(new)
  <2>1. Selected(left, Emits) = Selected(rest, Emits)
    BY <1>6, <1>7, <1>9, <1>10, SelectedEither
  <2> QED  BY <1>9, <2>1
<1>13. ASSUME NEW S \in SUBSET Todos(r, CallTypes)
       PROVE  Selected(left, S) = Selected(CallLogs(r), S)
  <2>1. Selected(rest, S) = <<>>
    BY <1>9
  <2> QED  BY <1>3, <1>6, <1>9, <1>10, <2>1, SelectedEither
<1>14. todo'[r] = left
  BY <1>9, <1>10 DEF ListsOK
<1> QED  BY <1>9, <1>10, <1>11, <1>12, <1>13, <1>14, <1>1

-----------------------------------------------------------------------------
(* The streams                                                             *)

Flow(a, b, c) == a \o b \o c

\* What is handed on stays in its place.
LEMMA AppendMoves ==
    ASSUME NEW S, NEW a \in Seq(S), NEW b \in Seq(S), NEW c \in Seq(S), NEW x \in S
    PROVE  Flow(a, Append(b, x), c) = Flow(a, b, <<x>> \o c)
<1>1. <<x>> \in Seq(S)
  OBVIOUS
<1>2. PICK y \in Seq(S) : y = <<x>>
  BY <1>1
<1>3. b \o y \in Seq(S) /\ Append(b, x) = b \o y
  BY ONLY b \in Seq(S), y \in Seq(S), <1>2, x \in S
<1>4. y \o c \in Seq(S)
  BY ONLY c \in Seq(S), y \in Seq(S)
<1>5. PICK t \in Seq(S), u \in Seq(S) : t = b \o y /\ u = y \o c
  BY <1>3, <1>4
<1>6. (a \o t) \o c = a \o (t \o c)
  BY ONLY a \in Seq(S), t \in Seq(S), c \in Seq(S)
<1>7. (b \o y) \o c = b \o (y \o c)
  BY ONLY b \in Seq(S), y \in Seq(S), c \in Seq(S)
<1>8. (a \o b) \o u = a \o (b \o u)
  BY ONLY a \in Seq(S), b \in Seq(S), u \in Seq(S)
<1> QED  BY ONLY <1>2, <1>3, <1>5, <1>6, <1>7, <1>8 DEF Flow

\* What is taken from a channel is received after what was received before.
LEMMA HeadMoves ==
    ASSUME NEW S, NEW a \in Seq(S), NEW b \in Seq(S), b # <<>>
    PROVE  Append(a, Head(b)) \o Tail(b) = a \o b
  OBVIOUS

\* The events of a run are on their way to its consumer, each in one place.
InTransit(r) == events[r] = received[r] \o queue[r] \o Items(ToEmit(r))
StreamsInv ==
    /\ ListsOK
    /\ \A r \in Runs : /\ InTransit(r)
                       /\ r \in closed => pc[r] = "done" /\ todo[r] = <<>>
                       /\ pc[r] = "done" => events[r] # <<>>

\* The head of a list of things to do is done.
LEMMA TodoDone ==
    ASSUME ListsOK, NEW r \in Runs, todo[r] # <<>>, Done(r)
    PROVE  /\ todo' \in [Runs -> Seq(Todo)] /\ \A s \in Runs : todo'[s] \in Seq(OwnTodo(s))
           /\ \A s \in Runs \ {r} : todo'[s] = todo[s]
           /\ todo'[r] = Tail(todo[r]) /\ Head(todo[r]) \in OwnTodo(r)
           /\ \A S : Selected(todo[r], S) =
                IF Head(todo[r]) \in S THEN <<Head(todo[r])>> \o Selected(todo'[r], S)
                ELSE Selected(todo'[r], S)
<1>1. PICK old \in Seq(OwnTodo(r)) : old = todo[r] /\ old \in Seq(Todo) /\ old # <<>>
  BY DEF ListsOK
<1>2. todo' = [todo EXCEPT ![r] = Tail(old)]
  BY <1>1 DEF Done
<1>3. Tail(old) \in Seq(OwnTodo(r)) /\ Tail(old) \in Seq(Todo) /\ Head(old) \in OwnTodo(r)
  BY <1>1
<1>4. todo'[r] = Tail(old) /\ \A s \in Runs \ {r} : todo'[s] = todo[s]
  BY <1>2 DEF ListsOK
<1>5. todo' \in [Runs -> Seq(Todo)] /\ \A s \in Runs : todo'[s] \in Seq(OwnTodo(s))
  BY <1>2, <1>3, <1>4 DEF ListsOK
<1>6. \A S : Selected(old, S) = IF Head(old) \in S THEN <<Head(old)>> \o Selected(Tail(old), S)
                               ELSE Selected(Tail(old), S)
  BY <1>1, SelectedHead
<1> QED  BY <1>1, <1>3, <1>4, <1>5, <1>6

\* What a step of a run leaves to do, and does to the lists.
LEMMA RunsOnEffect ==
    ASSUME TypeOK, TypeOK', ListsOK, NEW r \in Runs, RunsOn(r)
    PROVE  \E new : /\ Says(r, new) /\ ListsOK' /\ todo[r] = <<>>
                    /\ \A s \in Runs \ {r} : todo'[s] = todo[s]
                    /\ Selected(todo'[r], Emits) = EmitAll(new)
                    /\ \A S \in SUBSET Todos(r, CallTypes) :
                         Selected(todo'[r], S) = Selected(CallLogs(r), S)
<1>1. Step(r) \/ \E t \in Threads : Load(r, t) \/ LoadFails(r, t)
  BY ThreadOfAssumption DEF RunsOn
<1>2. PICK new : Says(r, new)
  BY <1>1, StepSays
<1>3. CallLogs(r) \in Seq(Todos(r, CallTypes))
  BY <1>1, CallLogged
<1>4. todo \in [Runs -> Seq(Todo)] /\ LeaveToDo(r) /\ todo[r] = <<>>
  BY DEF ListsOK, RunsOn
<1>5. PICK left : /\ todo' = [todo EXCEPT ![r] = left] /\ todo'[r] = left
                  /\ left \in Seq(OwnTodo(r))
                  /\ Selected(left, Emits) = EmitAll(new)
                  /\ \A S \in SUBSET Todos(r, CallTypes) :
                       Selected(left, S) = Selected(CallLogs(r), S)
  BY <1>2, <1>3, <1>4, TodoLeft
<1>6. \A s \in Runs \ {r} : todo'[s] = todo[s]
  BY <1>4, <1>5
<1>7. ListsOK'
  <2>1. OwnTodo(r) \subseteq Todo
    BY DEF OwnTodo, Todo, Todos, LogItems
  <2>2. left \in Seq(Todo)
    BY <1>5, <2>1
  <2>3. todo' \in [Runs -> Seq(Todo)] /\ \A s \in Runs : todo'[s] \in Seq(OwnTodo(s))
    BY <1>4, <1>5, <1>6, <2>2 DEF ListsOK
  <2>4. queue' = queue /\ received' = received
    BY DEF RunsOn
  <2> QED  BY <2>3, <2>4 DEF ListsOK
<1> QED  BY <1>2, <1>4, <1>5, <1>6, <1>7

\* A step that says nothing of a run and hands none of its events on.
LEMMA TransitStays ==
    ASSUME StreamsInv, NEW s \in Runs, events'[s] = events[s], pc'[s] = pc[s], todo'[s] = todo[s],
           queue'[s] = queue[s], received'[s] = received[s], s \in closed' <=> s \in closed
    PROVE  /\ InTransit(s)' /\ (s \in closed => pc[s] = "done" /\ todo[s] = <<>>)'
           /\ (pc[s] = "done" => events[s] # <<>>)'
  BY DEF StreamsInv, InTransit, ToEmit

\* No event, and none in transit.
LEMMA StreamsInit == ASSUME ObserversInit PROVE StreamsInv
<1>1. \A r \in Runs : events[r] = <<>> /\ pc[r] = "idle"
  BY DEF ObserversInit, Init
<1>2. /\ todo = [r \in Runs |-> <<>>] /\ queue = [r \in Runs |-> <<>>] /\ received = [r \in Runs |-> <<>>]
      /\ closed = {}
  BY DEF ObserversInit
<1>3. ListsOK
  BY <1>2 DEF ListsOK
<1>4. \A r \in Runs : ToEmit(r) = <<>>
  BY <1>2, SelectedNone DEF ToEmit
<1>5. Items(<<>>) = <<>> /\ <<>> \o <<>> \o <<>> = <<>>
  BY DEF Items
<1>6. \A r \in Runs : InTransit(r)
  BY <1>1, <1>2, <1>4, <1>5 DEF InTransit
<1> QED  BY <1>1, <1>2, <1>3, <1>6 DEF StreamsInv

\* What a step of a run says is left to be emitted.
LEMMA StreamsRun ==
    ASSUME TypeOK, TypeOK', StreamsInv, NEW r \in Runs, RunsOn(r)
    PROVE  StreamsInv'
<1>1. PICK new : /\ Says(r, new) /\ ListsOK' /\ todo[r] = <<>>
                 /\ \A s \in Runs \ {r} : todo'[s] = todo[s]
                 /\ Selected(todo'[r], Emits) = EmitAll(new)
  BY RunsOnEffect DEF StreamsInv
<1>2. queue' = queue /\ received' = received /\ closed' = closed
  BY DEF RunsOn
<1>3. /\ new \in Seq(Events) /\ events'[r] = events[r] \o new /\ (pc'[r] = "done" => new # <<>>)
      /\ pc[r] # "done" /\ events[r] \in Seq(Events)
  BY <1>1 DEF Says, Adds, TypeOK
<1>4. r \notin closed
  BY <1>3 DEF StreamsInv
<1>5. InTransit(r)'
  <2>1. PICK a \in Seq(Events), b \in Seq(Events) : a = received[r] /\ b = queue[r]
    BY DEF StreamsInv, ListsOK
  <2>2. ToEmit(r) = <<>>
    BY <1>1, SelectedNone DEF ToEmit
  <2>3. Items(<<>>) = <<>>
    BY DEF Items
  <2>4. events[r] = a \o b \o <<>>
    BY <2>1, <2>2, <2>3 DEF StreamsInv, InTransit
  <2>5. events[r] = a \o b
    BY <2>4
  <2>6. Items(ToEmit(r)') = new
    BY <1>1, <1>3, EmitAllItems DEF ToEmit
  <2> QED  BY <1>2, <1>3, <2>1, <2>5, <2>6 DEF InTransit, Items
<1>6. pc'[r] = "done" => events'[r] # <<>>
  BY <1>3
<1>7. ASSUME NEW s \in Runs \ {r}
      PROVE  /\ InTransit(s)' /\ (s \in closed => pc[s] = "done" /\ todo[s] = <<>>)'
             /\ (pc[s] = "done" => events[s] # <<>>)'
  BY <1>1, <1>2, TransitStays DEF Says
<1> QED  BY <1>1, <1>2, <1>4, <1>5, <1>6, <1>7 DEF StreamsInv

\* An event moves from the list of things to do to the channel of its run.
LEMMA StreamsEmit ==
    ASSUME TypeOK, StreamsInv, NEW r \in Runs, EmitEvent(r)
    PROVE  StreamsInv'
<1>1. /\ todo[r] # <<>> /\ Head(todo[r]).do = "emit" /\ Done(r)
      /\ queue' = [queue EXCEPT ![r] = Append(@, Head(todo[r]).item)]
      /\ received' = received /\ closed' = closed /\ events' = events /\ pc' = pc
  BY DEF EmitEvent, Doing, SinkOf, vars, local
<1>2. /\ todo' \in [Runs -> Seq(Todo)] /\ \A s \in Runs : todo'[s] \in Seq(OwnTodo(s))
      /\ \A s \in Runs \ {r} : todo'[s] = todo[s]
      /\ Head(todo[r]) \in OwnTodo(r)
      /\ Selected(todo[r], Emits) = IF Head(todo[r]) \in Emits
             THEN <<Head(todo[r])>> \o Selected(todo'[r], Emits) ELSE Selected(todo'[r], Emits)
  BY <1>1, TodoDone DEF StreamsInv
<1>3. PICK d \in Emits : d = Head(todo[r])
  BY <1>1, <1>2 DEF OwnTodo, Todos
<1>4. PICK x \in Events : x = d.item
  BY DEF Emits
<1>5. PICK a \in Seq(Events), b \in Seq(Events) : a = received[r] /\ b = queue[r]
  BY DEF StreamsInv, ListsOK
<1>6. Selected(todo'[r], Emits) \in Seq(Emits)
  <2>1. Selected(todo'[r], Emits) \in Seq(OwnTodo(r) \cap Emits)
    BY <1>2, SelectedType
  <2>2. OwnTodo(r) \cap Emits = Emits
    BY DEF OwnTodo
  <2> QED  BY <2>1, <2>2
<1>7. PICK rest \in Seq(Emits) : rest = Selected(todo'[r], Emits)
  BY <1>6
<1>8. ToEmit(r) = <<d>> \o rest
  BY <1>2, <1>3, <1>7 DEF ToEmit
<1>9. <<d>> \in Seq(Emits)
  BY <1>3, SeqOne
<1>10. Items(<<d>>) = <<x>>
  BY <1>4 DEF Items
<1>11. Items(ToEmit(r)) = <<x>> \o Items(rest)
  BY <1>8, <1>9, <1>10, <1>7, ItemsOfConcat
<1>12. PICK c \in Seq(Events) : c = Items(rest)
  BY <1>9, ItemsOfConcat
<1>13. events[r] = Flow(a, b, <<x>> \o c)
  BY <1>5, <1>11, <1>12 DEF StreamsInv, InTransit, Flow
<1>14. events[r] = Flow(a, Append(b, x), c)
  <2>1. Flow(a, Append(b, x), c) = Flow(a, b, <<x>> \o c)
    BY ONLY AppendMoves, a \in Seq(Events), b \in Seq(Events), c \in Seq(Events), x \in Events
  <2> QED  BY <1>13, <2>1
<1>15. queue'[r] = Append(b, x) /\ \A s \in Runs \ {r} : queue'[s] = queue[s]
  BY <1>1, <1>3, <1>4, <1>5 DEF StreamsInv, ListsOK
<1>16. queue' \in [Runs -> Seq(Events)]
  <2>1. Append(b, x) \in Seq(Events)
    OBVIOUS
  <2> QED  BY <1>1, <1>3, <1>4, <1>5, <2>1 DEF StreamsInv, ListsOK
<1>17. InTransit(r)'
  BY <1>1, <1>5, <1>7, <1>12, <1>14, <1>15 DEF InTransit, ToEmit, Items, Flow
<1>18. ListsOK'
  BY <1>1, <1>2, <1>16 DEF StreamsInv, ListsOK
<1>19. r \notin closed
  BY <1>1 DEF StreamsInv
<1>20. pc'[r] = "done" => events'[r] # <<>>
  BY <1>1 DEF StreamsInv
<1>21. ASSUME NEW s \in Runs \ {r}
       PROVE  /\ InTransit(s)' /\ (s \in closed => pc[s] = "done" /\ todo[s] = <<>>)'
              /\ (pc[s] = "done" => events[s] # <<>>)'
  BY <1>1, <1>2, <1>15, TransitStays
<1> QED  BY <1>1, <1>17, <1>18, <1>19, <1>20, <1>21 DEF StreamsInv

\* A log call emits nothing.
LEMMA StreamsLog ==
    ASSUME TypeOK, StreamsInv, NEW r \in Runs, Log(r)
    PROVE  StreamsInv'
<1>1. /\ todo[r] # <<>> /\ Head(todo[r]).do = "log" /\ (Done(r) \/ todo' = todo)
      /\ queue' = queue /\ received' = received /\ closed' = closed /\ events' = events /\ pc' = pc
  BY DEF Log, WriteLine, Record, ReadSlice, WriteSlice, PrintLine, LogDone, Doing, vars, local
<1>2. CASE todo' = todo
  <2>1. ListsOK'
    BY <1>1, <1>2 DEF StreamsInv, ListsOK
  <2>2. ASSUME NEW s \in Runs
        PROVE  /\ InTransit(s)' /\ (s \in closed => pc[s] = "done" /\ todo[s] = <<>>)'
               /\ (pc[s] = "done" => events[s] # <<>>)'
    BY <1>1, <1>2, TransitStays
  <2> QED  BY <2>1, <2>2 DEF StreamsInv
<1>3. CASE Done(r)
  <2>1. /\ todo' \in [Runs -> Seq(Todo)] /\ \A s \in Runs : todo'[s] \in Seq(OwnTodo(s))
        /\ \A s \in Runs \ {r} : todo'[s] = todo[s]
        /\ Selected(todo[r], Emits) = IF Head(todo[r]) \in Emits
             THEN <<Head(todo[r])>> \o Selected(todo'[r], Emits) ELSE Selected(todo'[r], Emits)
    BY <1>1, <1>3, TodoDone DEF StreamsInv
  <2>2. Selected(todo'[r], Emits) = Selected(todo[r], Emits)
    BY <1>1, <2>1 DEF Emits
  <2>3. ListsOK'
    BY <1>1, <2>1 DEF StreamsInv, ListsOK
  <2>4. InTransit(r)' /\ r \notin closed /\ (pc'[r] = "done" => events'[r] # <<>>)
    BY <1>1, <2>2 DEF StreamsInv, InTransit, ToEmit
  <2>5. ASSUME NEW s \in Runs \ {r}
        PROVE  /\ InTransit(s)' /\ (s \in closed => pc[s] = "done" /\ todo[s] = <<>>)'
               /\ (pc[s] = "done" => events[s] # <<>>)'
    BY <1>1, <2>1, TransitStays
  <2> QED  BY <1>1, <2>3, <2>4, <2>5 DEF StreamsInv
<1> QED  BY <1>1, <1>2, <1>3

\* The consumer takes it from there.
LEMMA StreamsConsumer ==
    ASSUME TypeOK, StreamsInv, NEW r \in Runs, CloseStream(r) \/ Receive(r) \/ Leave(r)
    PROVE  StreamsInv'
<1>1. todo' = todo /\ events' = events /\ pc' = pc
  BY DEF CloseStream, Receive, Leave, vars, local
<1>2. CASE CloseStream(r)
  <2>1. /\ closed' = closed \cup {r} /\ pc[r] = "done" /\ todo[r] = <<>>
        /\ queue' = queue /\ received' = received
    BY <1>2 DEF CloseStream
  <2> QED  BY <1>1, <2>1 DEF StreamsInv, ListsOK, InTransit, ToEmit
<1>3. CASE Leave(r)
  <2>1. closed' = closed /\ queue' = queue /\ received' = received
    BY <1>3 DEF Leave
  <2> QED  BY <1>1, <2>1 DEF StreamsInv, ListsOK, InTransit, ToEmit
<1>4. CASE Receive(r)
  <2>1. /\ closed' = closed /\ queue[r] # <<>>
        /\ queue' = [queue EXCEPT ![r] = Tail(@)]
        /\ received' = [received EXCEPT ![r] = Append(@, Head(queue[r]))]
    BY <1>4 DEF Receive
  <2>2. PICK a \in Seq(Events), b \in Seq(Events) : a = received[r] /\ b = queue[r]
    BY DEF StreamsInv, ListsOK
  <2>3. Append(a, Head(b)) \in Seq(Events) /\ Tail(b) \in Seq(Events)
    BY <2>1, <2>2
  <2>4. /\ queue' \in [Runs -> Seq(Events)] /\ received' \in [Runs -> Seq(Events)]
        /\ queue'[r] = Tail(b) /\ received'[r] = Append(a, Head(b))
        /\ \A s \in Runs \ {r} : queue'[s] = queue[s] /\ received'[s] = received[s]
    BY <2>1, <2>2, <2>3 DEF StreamsInv, ListsOK
  <2>5. Append(a, Head(b)) \o Tail(b) = a \o b
    BY <2>1, <2>2, HeadMoves
  <2>6. ListsOK'
    BY <1>1, <2>4 DEF StreamsInv, ListsOK
  <2>7. InTransit(r)'
    <3>1. events[r] = (a \o b) \o Items(ToEmit(r))
      BY <2>2 DEF StreamsInv, InTransit
    <3> QED  BY <1>1, <2>4, <2>5, <3>1 DEF InTransit, ToEmit, Items
  <2>8. (r \in closed => pc[r] = "done" /\ todo[r] = <<>>)' /\ (pc[r] = "done" => events[r] # <<>>)'
    BY <1>1, <2>1 DEF StreamsInv
  <2>9. ASSUME NEW s \in Runs \ {r}
        PROVE  /\ InTransit(s)' /\ (s \in closed => pc[s] = "done" /\ todo[s] = <<>>)'
               /\ (pc[s] = "done" => events[s] # <<>>)'
    BY <1>1, <2>1, <2>4, TransitStays
  <2> QED  BY <2>6, <2>7, <2>8, <2>9 DEF StreamsInv
<1> QED  BY <1>2, <1>3, <1>4

\* No other step touches it.
LEMMA StreamsStep ==
    ASSUME TypeOK, TypeOK', StreamsInv, [ObserversNext]_<<vars, observerVars>>
    PROVE  StreamsInv'
<1>1. CASE ObserversNext
  BY <1>1, StreamsRun, StreamsEmit, StreamsLog, StreamsConsumer DEF ObserversNext, Worker
<1>2. CASE UNCHANGED <<vars, observerVars>>
  BY <1>2 DEF vars, observerVars, local, StreamsInv, ListsOK, InTransit, ToEmit
<1> QED  BY <1>1, <1>2

\* The runs Observers watches take the steps of AgentRun.
LEMMA ObserversRun == ObserversSpec => Spec
<1>1. ObserversInit => Init
  BY DEF ObserversInit
<1>2. [ObserversNext]_<<vars, observerVars>> => [Next]_vars
  <2>1. ASSUME NEW r \in Runs, RunsOn(r) PROVE Next
    BY <2>1, ThreadOfAssumption DEF RunsOn, Next, Begin
  <2>2. ASSUME NEW r \in Runs, EmitEvent(r) \/ Log(r) \/ CloseStream(r) \/ Receive(r) \/ Leave(r) PROVE UNCHANGED vars
    BY <2>2 DEF EmitEvent, Log, CloseStream, Receive, Leave, WriteLine, Record, ReadSlice, WriteSlice, PrintLine
  <2> QED  BY <2>1, <2>2 DEF ObserversNext, Worker
<1> QED  BY <1>1, <1>2, PTL DEF ObserversSpec, Spec

\* What the theorems below start from.
LEMMA StreamsKept == ObserversSpec => []TypeOK /\ []EventsInv /\ []StreamsInv
<1>1. ObserversSpec => []TypeOK /\ []EventsInv
  BY ObserversRun, TypeCorrect, EventsKept, PTL
<1> QED  BY <1>1, StreamsInit, StreamsStep, PTL DEF ObserversSpec

\* A consumer gets the events of its own run, all of them and in order, though
\* the runs share the graph: what was emitted is received, in the channel, or
\* still to be put into it.  The channel closes after the terminal event
\* (Stream's goroutine closes it when the run has returned, deepagent.go:184-197;
\* runWithEventSink, graph.go:369-380).
THEOREM StreamsAreWhole == ObserversSpec => []StreamsWhole
<1>1. StreamsInv /\ EventsInv => StreamsWhole
  <2>1. SUFFICES ASSUME StreamsInv, EventsInv, NEW r \in Runs
                 PROVE  /\ events[r] = received[r] \o queue[r] \o [i \in DOMAIN ToEmit(r) |-> ToEmit(r)[i].item]
                        /\ r \in closed => ToEmit(r) = <<>> /\ Terminal(Last(events[r]))
    BY DEF StreamsWhole
  <2>2. events[r] = received[r] \o queue[r] \o [i \in DOMAIN ToEmit(r) |-> ToEmit(r)[i].item]
    BY <2>1 DEF StreamsInv, InTransit, Items
  <2>3. ASSUME r \in closed PROVE ToEmit(r) = <<>> /\ Terminal(Last(events[r]))
    <3>1. todo[r] = <<>> /\ pc[r] = "done" /\ events[r] # <<>>
      BY <2>1, <2>3 DEF StreamsInv
    <3>2. ToEmit(r) = <<>>
      BY <3>1, SelectedNone DEF ToEmit
    <3>3. Ends(events[r], TRUE)
      BY <2>1, <3>1 DEF EventsInv, Follows
    <3> QED  BY <3>1, <3>2, <3>3 DEF Ends, Last
  <2> QED  BY <2>2, <2>3
<1> QED  BY <1>1, StreamsKept, PTL

-----------------------------------------------------------------------------
(* The log                                                                 *)

Lines == LogItems(Runs, LogTypes) \cup {Fallback}
LogsOK ==
    /\ logged \in [Runs -> Seq(LogItems(Runs, LogTypes))]
    /\ \A r \in Runs : logged[r] \in Seq(LogItems({r}, LogTypes))
    /\ journal \in [LogTypes -> Seq(Lines)] /\ seen \in [Runs -> Seq(Lines)]
    /\ logger \in Loggers /\ phase \in [Runs -> {"ready", "read", "written"}]
    /\ \A r \in Runs : /\ phase[r] # "ready" => Doing(r, "log")
                       /\ phase[r] = "written" => logger = "json"
                       /\ phase[r] = "read" => logger = "context"

\* The item of a log call names its run and its type.
LEMMA ItemKinds ==
    ASSUME NEW r \in Runs, NEW item \in LogItems({r}, LogTypes)
    PROVE  /\ item \in LogItems(Runs, LogTypes) /\ item \in Lines /\ item.type \in LogTypes
           /\ item.ok \in BOOLEAN /\ item.marshals \in BOOLEAN
           /\ JSONLine(item) = IF item.marshals THEN item ELSE Fallback
           /\ \A s \in Runs : item \in LogItems({s}, LogTypes) <=> s = r
           /\ \A s \in Runs, type \in LogTypes : item \in LogItems({s}, {type}) <=> s = r /\ type = item.type
           /\ \A s \in Runs : Fallback \notin LogItems({s}, LogTypes)
           /\ Fallback \in Lines
  BY DEF LogItems, Lines, JSONLine, Fallback, LogTypes

\* A line more.
LEMMA OfRunAppend ==
    ASSUME NEW lines \in Seq(Lines), NEW line \in Lines, NEW s
    PROVE  /\ Append(lines, line) \in Seq(Lines) /\ Len(Append(lines, line)) = Len(lines) + 1
           /\ OfRun(Append(lines, line), s) =
                IF line \in LogItems({s}, LogTypes) THEN Append(OfRun(lines, s), line) ELSE OfRun(lines, s)
<1>1. Append(lines, line) \in Seq(Lines) /\ Len(Append(lines, line)) = Len(lines) + 1
  OBVIOUS
<1>2. Selected(Append(lines, line), LogItems({s}, LogTypes)) =
        IF line \in LogItems({s}, LogTypes) THEN Append(Selected(lines, LogItems({s}, LogTypes)), line)
        ELSE Selected(lines, LogItems({s}, LogTypes))
  BY ONLY SelectedAppend, lines \in Seq(Lines), line \in Lines
<1> QED  BY <1>1, <1>2 DEF OfRun

\* A log call completed.
LEMMA LogDoneEffect ==
    ASSUME ListsOK, LogsOK, NEW r \in Runs, Doing(r, "log"), LogDone(r)
    PROVE  \E item \in LogItems({r}, LogTypes) :
             /\ Head(todo[r]).item = item
             /\ logged' \in [Runs -> Seq(LogItems(Runs, LogTypes))]
             /\ \A s \in Runs : logged'[s] \in Seq(LogItems({s}, LogTypes))
             /\ logged'[r] = Append(logged[r], item)
             /\ \A type \in LogTypes : LoggedAs(r, type)' =
                  IF type = item.type THEN Append(LoggedAs(r, type), item) ELSE LoggedAs(r, type)
             /\ \A s \in Runs \ {r} : /\ logged'[s] = logged[s] /\ phase'[s] = phase[s] /\ todo'[s] = todo[s]
                                      /\ \A type \in LogTypes : LoggedAs(s, type)' = LoggedAs(s, type)
             /\ phase' \in [Runs -> {"ready", "read", "written"}] /\ phase'[r] = "ready"
<1>1. Head(todo[r]) \in OwnTodo(r) /\ \A s \in Runs \ {r} : todo'[s] = todo[s]
  BY TodoDone DEF LogDone, Doing
<1>2. PICK item \in LogItems({r}, LogTypes) : item = Head(todo[r]).item
  BY <1>1 DEF OwnTodo, Todos, Emits, Doing
<1>3. logged' = [logged EXCEPT ![r] = Append(@, item)] /\ phase' = [phase EXCEPT ![r] = "ready"]
  BY <1>2 DEF LogDone
<1>4. PICK old : old = logged[r]
  OBVIOUS
<1>5. old \in Seq(LogItems({r}, LogTypes)) /\ old \in Seq(LogItems(Runs, LogTypes)) /\ item \in LogItems(Runs, LogTypes)
  BY <1>4, ItemKinds DEF LogsOK
<1>6. Append(old, item) \in Seq(LogItems({r}, LogTypes)) /\ Append(old, item) \in Seq(LogItems(Runs, LogTypes))
  BY <1>5
<1>7. logged'[r] = Append(old, item) /\ \A s \in Runs \ {r} : logged'[s] = logged[s] /\ phase'[s] = phase[s]
  BY <1>3, <1>4 DEF LogsOK
<1>8. logged' \in [Runs -> Seq(LogItems(Runs, LogTypes))]
  BY <1>3, <1>4, <1>6 DEF LogsOK
<1>9. ASSUME NEW s \in Runs PROVE logged'[s] \in Seq(LogItems({s}, LogTypes))
  BY <1>6, <1>7 DEF LogsOK
<1>10. phase' \in [Runs -> {"ready", "read", "written"}] /\ phase'[r] = "ready"
  BY <1>3 DEF LogsOK
<1>11. ASSUME NEW type \in LogTypes
       PROVE  LoggedAs(r, type)' = IF type = item.type THEN Append(LoggedAs(r, type), item) ELSE LoggedAs(r, type)
  <2>1. Selected(Append(old, item), LogItems({r}, {type})) =
          IF item \in LogItems({r}, {type}) THEN Append(Selected(old, LogItems({r}, {type})), item)
          ELSE Selected(old, LogItems({r}, {type}))
    BY ONLY SelectedAppend, <1>5, item \in LogItems({r}, LogTypes)
  <2>2. item \in LogItems({r}, {type}) <=> type = item.type
    <3>1. \A s \in Runs, t \in LogTypes : item \in LogItems({s}, {t}) <=> s = r /\ t = item.type
      BY ItemKinds
    <3> QED  BY <3>1
  <2> QED  BY <1>4, <1>7, <2>1, <2>2 DEF LoggedAs
<1>12. ASSUME NEW s \in Runs \ {r}, NEW type \in LogTypes PROVE LoggedAs(s, type)' = LoggedAs(s, type)
  BY <1>7 DEF LoggedAs
<1> QED  BY <1>1, <1>2, <1>4, <1>7, <1>8, <1>9, <1>10, <1>11, <1>12

-----------------------------------------------------------------------------
Written(r, type) == LoggedAs(r, type) \o InProgress(r, type)
LinesOf(type) == [r \in Runs |-> Len(Written(r, type))]
\* A line of the JSON logger stands for a call that is logged or being logged.
JsonInv ==
    \A type \in LogTypes :
        /\ \A r \in Runs : OfRun(journal[type], r) = Printable(Written(r, type))
        /\ IsFiniteSet(Units(LinesOf(type))) /\ Len(journal[type]) = Total(LinesOf(type))
LoggingAs(r, type) == phase[r] = "read" /\ Head(todo[r]).item.type = type
\* What a call of the context logger read is what its slice held of the runs that
\* have met no other, and two calls at the same slice have met.
ContextInv ==
    \A type \in LogTypes :
        /\ \A s \in Runs \ raced : OfRun(journal[type], s) = LoggedAs(s, type)
        /\ \A r \in Runs : LoggingAs(r, type) =>
             /\ \A s \in Runs \ raced : OfRun(seen[r], s) = LoggedAs(s, type)
             /\ \A q \in Runs \ {r} : LoggingAs(q, type) => q \in raced /\ r \in raced
SimpleInv == \A type \in LogTypes, r \in Runs : OfRun(journal[type], r) = LoggedAs(r, type)
NoopInv == \A type \in LogTypes : journal[type] = <<>>
JournalInv ==
    /\ LogsOK
    /\ logger = "json" => JsonInv
    /\ logger = "context" => ContextInv
    /\ logger = "simple" => SimpleInv
    /\ logger = "noop" => NoopInv

\* Nothing is logged, and the journal is empty.
LEMMA JournalInit == ASSUME ObserversInit PROVE JournalInv
<1>1. /\ todo = [r \in Runs |-> <<>>] /\ seen = [r \in Runs |-> <<>>] /\ logged = [r \in Runs |-> <<>>]
      /\ phase = [r \in Runs |-> "ready"] /\ journal = [type \in LogTypes |-> <<>>]
      /\ logger \in Loggers
  BY SetupsAssumption DEF ObserversInit
<1>2. LogsOK
  BY <1>1 DEF LogsOK
<1>3. \A r \in Runs, type \in LogTypes :
        /\ OfRun(journal[type], r) = <<>> /\ LoggedAs(r, type) = <<>> /\ InProgress(r, type) = <<>>
        /\ Len(journal[type]) = 0
  BY <1>1, SelectedNone DEF OfRun, LoggedAs, InProgress
<1>4. \A r \in Runs, type \in LogTypes : Written(r, type) = <<>>
  BY <1>3 DEF Written
<1>5. \A type \in LogTypes : LinesOf(type) = [r \in Runs |-> 0] /\ Len(journal[type]) = 0
  BY <1>1, <1>4 DEF LinesOf
<1>6. \A type \in LogTypes : IsFiniteSet(Units(LinesOf(type))) /\ Total(LinesOf(type)) = 0
  BY <1>5, TotalOfNothing
<1>7. JsonInv
  BY <1>3, <1>4, <1>5, <1>6, SelectedNone DEF JsonInv, Printable
<1>8. ContextInv /\ SimpleInv /\ NoopInv
  BY <1>1, <1>3 DEF ContextInv, SimpleInv, NoopInv, LoggingAs
<1> QED  BY <1>2, <1>7, <1>8 DEF JournalInv

\* A step that logs nothing, of a run that is not logging.
LEMMA JournalStays ==
    ASSUME JournalInv, NEW r \in Runs, phase[r] = "ready",
           \A s \in Runs \ {r} : todo'[s] = todo[s],
           logger' = logger, phase' = phase, seen' = seen, journal' = journal, logged' = logged, raced' = raced
    PROVE  JournalInv'
<1>1. LogsOK'
  BY DEF JournalInv, LogsOK, Doing
<1>2. \A s \in Runs, type \in LogTypes :
        /\ LoggedAs(s, type)' = LoggedAs(s, type) /\ InProgress(s, type)' = InProgress(s, type)
        /\ OfRun(journal[type], s)' = OfRun(journal[type], s)
        /\ LoggingAs(s, type)' <=> LoggingAs(s, type)
        /\ OfRun(seen[s], r)' = OfRun(seen[s], r)
  BY DEF LoggedAs, InProgress, OfRun, LoggingAs
<1>3. \A s \in Runs, type \in LogTypes : Written(s, type)' = Written(s, type)
  BY <1>2 DEF Written
<1>4. \A type \in LogTypes : LinesOf(type)' = LinesOf(type)
  BY <1>3 DEF LinesOf
<1>5. logger = "json" => JsonInv'
  BY <1>2, <1>3, <1>4 DEF JournalInv, JsonInv
<1>6. logger = "context" => ContextInv'
  BY <1>2 DEF JournalInv, ContextInv, OfRun
<1>7. (logger = "simple" => SimpleInv') /\ (logger = "noop" => NoopInv')
  BY <1>2 DEF JournalInv, SimpleInv, NoopInv
<1> QED  BY <1>1, <1>5, <1>6, <1>7 DEF JournalInv

\* What a log call adds to what its run logged.
LEMMA WrittenAppend ==
    ASSUME NEW r \in Runs, NEW items \in Seq(LogItems({r}, LogTypes)), NEW item \in LogItems({r}, LogTypes)
    PROVE  /\ items \o <<>> = items /\ Len(Append(items, item)) = Len(items) + 1 /\ Len(items) \in Nat
           /\ items \o <<item>> = Append(items, item)
           /\ Printable(Append(items, item)) =
                IF item.marshals THEN Append(Printable(items), item) ELSE Printable(items)
<1>1. Selected(Append(items, item), {i \in LogItems(Runs, LogTypes) : i.marshals}) =
        IF item \in {i \in LogItems(Runs, LogTypes) : i.marshals}
        THEN Append(Selected(items, {i \in LogItems(Runs, LogTypes) : i.marshals}), item)
        ELSE Selected(items, {i \in LogItems(Runs, LogTypes) : i.marshals})
  BY ONLY SelectedAppend, items \in Seq(LogItems({r}, LogTypes)), item \in LogItems({r}, LogTypes)
<1>2. item \in {i \in LogItems(Runs, LogTypes) : i.marshals} <=> item.marshals
  BY ItemKinds
<1>3. items \o <<>> = items /\ Len(Append(items, item)) = Len(items) + 1 /\ items \o <<item>> = Append(items, item)
  OBVIOUS
<1> QED  BY <1>1, <1>2, <1>3 DEF Printable

\* Both are lists of items, and have a length.
LEMMA LoggedType ==
    ASSUME LogsOK, NEW r \in Runs, NEW type
    PROVE  LoggedAs(r, type) \in Seq(LogItems({r}, LogTypes))
  BY SelectedType DEF LogsOK, LoggedAs

\* A line is written, or it is not.
LEMMA WrittenLen ==
    ASSUME LogsOK, ListsOK, NEW r \in Runs, NEW type
    PROVE  Len(Written(r, type)) \in Nat
<1>1. PICK old \in Seq(LogItems({r}, LogTypes)) : old = LoggedAs(r, type)
  BY LoggedType
<1>2. InProgress(r, type) \in {<<>>, <<Head(todo[r]).item>>}
  BY DEF InProgress
<1>3. Len(old \o <<>>) \in Nat /\ \A x : Len(old \o <<x>>) \in Nat
  OBVIOUS
<1> QED  BY <1>1, <1>2, <1>3 DEF Written

\* A run that wrote one line more.
LEMMA LinesRaised ==
    ASSUME NEW type, NEW r \in Runs, IsFiniteSet(Units(LinesOf(type))),
           \A s \in Runs : Len(Written(s, type)) \in Nat,
           Len(Written(r, type)') = Len(Written(r, type)) + 1,
           \A s \in Runs \ {r} : Len(Written(s, type)') = Len(Written(s, type))
    PROVE  IsFiniteSet(Units(LinesOf(type)')) /\ Total(LinesOf(type)') = Total(LinesOf(type)) + 1
<1>1. PICK f, g : f = LinesOf(type) /\ g = LinesOf(type)'
  OBVIOUS
<1>2. f \in [Runs -> Nat]
  BY <1>1 DEF LinesOf
<1>3. g \in [Runs -> Nat] /\ g[r] = f[r] + 1 /\ \A s \in Runs \ {r} : g[s] = f[s]
  BY <1>1, <1>2 DEF LinesOf
<1>4. IsFiniteSet(Units(f))
  BY <1>1
<1>5. IsFiniteSet(Units(g)) /\ Total(g) = Total(f) + 1
  BY <1>2, <1>3, <1>4, TotalRaised
<1> QED  BY <1>1, <1>5

\* The JSON logger prints its line.
LEMMA JournalWriteLine ==
    ASSUME ListsOK, JournalInv, NEW r \in Runs, WriteLine(r)
    PROVE  JournalInv'
<1>1. /\ Doing(r, "log") /\ logger = "json" /\ phase[r] = "ready"
      /\ phase' = [phase EXCEPT ![r] = "written"]
      /\ todo' = todo /\ seen' = seen /\ logged' = logged /\ logger' = logger
  BY DEF WriteLine
<1>2. Head(todo[r]) \in OwnTodo(r)
  BY <1>1 DEF ListsOK, Doing
<1>3. PICK item \in LogItems({r}, LogTypes) : item = Head(todo[r]).item
  BY <1>1, <1>2 DEF OwnTodo, Todos, Emits, Doing
<1>4. PICK type \in LogTypes : type = item.type
  BY ItemKinds
<1>5. journal' = [journal EXCEPT ![type] = Append(@, JSONLine(item))]
  BY <1>3, <1>4 DEF WriteLine
<1>6. PICK line \in Lines : line = JSONLine(item)
  BY ItemKinds
<1>7. PICK lines \in Seq(Lines) : lines = journal[type]
  BY DEF JournalInv, LogsOK
<1>8. Append(lines, line) \in Seq(Lines) /\ Len(Append(lines, line)) = Len(lines) + 1
  BY OfRunAppend
<1>9. journal'[type] = Append(lines, line) /\ \A t \in LogTypes \ {type} : journal'[t] = journal[t]
  BY <1>5, <1>6, <1>7 DEF JournalInv, LogsOK
<1>10. journal' \in [LogTypes -> Seq(Lines)]
  BY <1>5, <1>6, <1>7, <1>8 DEF JournalInv, LogsOK
<1>11. phase'[r] = "written" /\ \A s \in Runs \ {r} : phase'[s] = phase[s]
  BY <1>1 DEF JournalInv, LogsOK
<1>12. LogsOK'
  BY <1>1, <1>10, <1>11 DEF JournalInv, LogsOK, Doing
<1>13. \A s \in Runs, t \in LogTypes : LoggedAs(s, t)' = LoggedAs(s, t)
  BY <1>1 DEF LoggedAs
<1>14. InProgress(r, type) = <<>> /\ InProgress(r, type)' = <<item>>
  BY <1>1, <1>3, <1>4, <1>11 DEF InProgress
<1>15. \A s \in Runs, t \in LogTypes : s # r \/ t # type => InProgress(s, t)' = InProgress(s, t)
  BY <1>1, <1>3, <1>4, <1>11 DEF InProgress
<1>16. PICK old \in Seq(LogItems({r}, LogTypes)) : old = LoggedAs(r, type)
  BY LoggedType DEF JournalInv
<1>17. /\ Written(r, type) = old /\ Written(r, type)' = Append(old, item)
       /\ Printable(Append(old, item)) = IF item.marshals THEN Append(Printable(old), item) ELSE Printable(old)
       /\ Len(Append(old, item)) = Len(old) + 1 /\ Len(old) \in Nat
  BY <1>13, <1>14, <1>16, WrittenAppend DEF Written
<1>18. \A s \in Runs, t \in LogTypes : s # r \/ t # type => Written(s, t)' = Written(s, t)
  BY <1>13, <1>15 DEF Written
<1>19. ASSUME NEW s \in Runs, NEW t \in LogTypes PROVE OfRun(journal'[t], s) = Printable(Written(s, t)')
  <2>1. OfRun(journal[t], s) = Printable(Written(s, t))
    BY <1>1 DEF JournalInv, JsonInv
  <2>2. CASE t # type
    BY <1>9, <1>18, <2>1, <2>2
  <2>3. CASE t = type
    <3>1. OfRun(Append(lines, line), s) =
            IF line \in LogItems({s}, LogTypes) THEN Append(OfRun(lines, s), line) ELSE OfRun(lines, s)
      BY OfRunAppend
    <3>2. line \in LogItems({s}, LogTypes) <=> s = r /\ item.marshals
      <4>1. /\ \A q \in Runs : item \in LogItems({q}, LogTypes) <=> q = r
            /\ \A q \in Runs : Fallback \notin LogItems({q}, LogTypes)
            /\ line = IF item.marshals THEN item ELSE Fallback
        BY <1>6, ItemKinds
      <4> QED  BY <4>1
    <3>3. item.marshals => line = item
      BY <1>6, ItemKinds
    <3>4. CASE s = r
      BY <1>7, <1>9, <1>17, <2>1, <2>3, <3>1, <3>2, <3>3, <3>4
    <3>5. CASE s # r
      BY <1>7, <1>9, <1>18, <2>1, <2>3, <3>1, <3>2, <3>5
    <3> QED  BY <3>4, <3>5
  <2> QED  BY <2>2, <2>3
<1>20. ASSUME NEW t \in LogTypes
       PROVE  IsFiniteSet(Units(LinesOf(t)')) /\ Len(journal'[t]) = Total(LinesOf(t)')
  <2>1. IsFiniteSet(Units(LinesOf(t))) /\ Len(journal[t]) = Total(LinesOf(t))
    BY <1>1 DEF JournalInv, JsonInv
  <2>2. CASE t # type
    <3>1. LinesOf(t)' = LinesOf(t)
      BY <1>18, <2>2 DEF LinesOf
    <3> QED  BY <1>9, <2>1, <2>2, <3>1
  <2>3. CASE t = type
    <3>1. \A s \in Runs : Len(Written(s, t)) \in Nat
      BY <2>3, WrittenLen DEF JournalInv
    <3>2. /\ Len(Written(r, t)') = Len(Written(r, t)) + 1
          /\ \A s \in Runs \ {r} : Len(Written(s, t)') = Len(Written(s, t))
      BY <1>17, <1>18, <2>3
    <3>3. IsFiniteSet(Units(LinesOf(t)')) /\ Total(LinesOf(t)') = Total(LinesOf(t)) + 1
      BY <2>1, <3>1, <3>2, LinesRaised
    <3> QED  BY <1>7, <1>8, <1>9, <2>1, <2>3, <3>3
  <2> QED  BY <2>2, <2>3
<1>21. JsonInv'
  BY <1>19, <1>20 DEF JsonInv
<1> QED  BY <1>1, <1>12, <1>21 DEF JournalInv

\* The JSON logger counts what it printed.
LEMMA JournalRecord ==
    ASSUME ListsOK, JournalInv, NEW r \in Runs, Record(r)
    PROVE  JournalInv'
<1>1. /\ Doing(r, "log") /\ logger = "json" /\ phase[r] = "written" /\ LogDone(r)
      /\ journal' = journal /\ seen' = seen /\ logger' = logger
  BY DEF Record
<1>2. PICK item \in LogItems({r}, LogTypes) :
        /\ Head(todo[r]).item = item
        /\ logged' \in [Runs -> Seq(LogItems(Runs, LogTypes))]
        /\ \A s \in Runs : logged'[s] \in Seq(LogItems({s}, LogTypes))
        /\ \A type \in LogTypes : LoggedAs(r, type)' =
             IF type = item.type THEN Append(LoggedAs(r, type), item) ELSE LoggedAs(r, type)
        /\ \A s \in Runs \ {r} : /\ phase'[s] = phase[s] /\ todo'[s] = todo[s]
                                 /\ \A type \in LogTypes : LoggedAs(s, type)' = LoggedAs(s, type)
        /\ phase' \in [Runs -> {"ready", "read", "written"}] /\ phase'[r] = "ready"
  BY <1>1, LogDoneEffect DEF JournalInv
<1>3. LogsOK'
  BY <1>1, <1>2 DEF JournalInv, LogsOK, Doing
<1>4. \A s \in Runs \ {r}, type \in LogTypes : Written(s, type)' = Written(s, type)
  BY <1>2 DEF Written, InProgress
<1>5. ASSUME NEW type \in LogTypes PROVE Written(r, type)' = Written(r, type)
  <2>1. PICK old \in Seq(LogItems({r}, LogTypes)) : old = LoggedAs(r, type)
    BY LoggedType DEF JournalInv
  <2>2. /\ InProgress(r, type) = IF item.type = type THEN <<item>> ELSE <<>>
        /\ InProgress(r, type)' = <<>>
    BY <1>1, <1>2 DEF InProgress
  <2>3. old \o <<>> = old /\ old \o <<item>> = Append(old, item)
    BY WrittenAppend
  <2>4. PICK new : new = Append(old, item)
    OBVIOUS
  <2>5. new \o <<>> = new
    BY <2>4, WrittenAppend
  <2> QED  BY <1>2, <2>1, <2>2, <2>3, <2>4, <2>5 DEF Written
<1>6. \A s \in Runs, type \in LogTypes : Written(s, type)' = Written(s, type)
  BY <1>4, <1>5
<1>7. \A type \in LogTypes : LinesOf(type)' = LinesOf(type)
  BY <1>6 DEF LinesOf
<1>8. JsonInv'
  BY <1>1, <1>6, <1>7 DEF JournalInv, JsonInv, OfRun
<1> QED  BY <1>1, <1>3, <1>8 DEF JournalInv

\* The context logger reads the slice of the type.
LEMMA JournalReadSlice ==
    ASSUME ListsOK, JournalInv, NEW r \in Runs, ReadSlice(r)
    PROVE  JournalInv'
<1>1. /\ Doing(r, "log") /\ logger = "context" /\ phase[r] = "ready" /\ phase' = [phase EXCEPT ![r] = "read"]
      /\ journal' = journal /\ todo' = todo /\ logged' = logged /\ logger' = logger
  BY DEF ReadSlice
<1>2. PICK type \in LogTypes : type = Head(todo[r]).item.type
  <2>1. Head(todo[r]) \in OwnTodo(r)
    BY <1>1 DEF ListsOK, Doing
  <2> QED  BY <1>1, <2>1 DEF OwnTodo, Todos, LogItems, Emits, Doing
<1>3. /\ seen' = [seen EXCEPT ![r] = journal[type]]
      /\ raced' = IF AlsoLogging(r, type) = {} THEN raced ELSE raced \cup {r} \cup AlsoLogging(r, type)
  BY <1>2 DEF ReadSlice
<1>4. /\ phase'[r] = "read" /\ seen'[r] = journal[type]
      /\ \A s \in Runs \ {r} : phase'[s] = phase[s] /\ seen'[s] = seen[s]
  BY <1>1, <1>3 DEF JournalInv, LogsOK
<1>5. phase' \in [Runs -> {"ready", "read", "written"}] /\ seen' \in [Runs -> Seq(Lines)]
  BY <1>1, <1>3 DEF JournalInv, LogsOK
<1>6. LogsOK'
  BY <1>1, <1>4, <1>5 DEF JournalInv, LogsOK, Doing
<1>7. /\ \A s \in Runs, t \in LogTypes : LoggedAs(s, t)' = LoggedAs(s, t)
      /\ \A s \in Runs \ {r}, t \in LogTypes : LoggingAs(s, t)' <=> LoggingAs(s, t)
      /\ \A t \in LogTypes : LoggingAs(r, t)' <=> t = type
      /\ \A t \in LogTypes : ~LoggingAs(r, t)
      /\ raced \subseteq raced'
  BY <1>1, <1>2, <1>3, <1>4 DEF LoggedAs, LoggingAs
<1>8. ContextInv
  BY <1>1 DEF JournalInv
<1>9. \A s \in Runs \ {r} : LoggingAs(s, type) => s \in raced' /\ r \in raced'
  BY <1>2, <1>3 DEF AlsoLogging, LoggingAs
<1>10. ASSUME NEW t \in LogTypes, NEW s \in Runs \ raced'
       PROVE  /\ OfRun(journal'[t], s) = LoggedAs(s, t)'
              /\ \A q \in Runs : LoggingAs(q, t)' => OfRun(seen'[q], s) = LoggedAs(s, t)'
  <2>1. /\ OfRun(journal[t], s) = LoggedAs(s, t)
        /\ \A q \in Runs : LoggingAs(q, t) => OfRun(seen[q], s) = LoggedAs(s, t)
    BY <1>7, <1>8 DEF ContextInv
  <2> QED  BY <1>1, <1>4, <1>7, <2>1
<1>11. ASSUME NEW t \in LogTypes, NEW s \in Runs, LoggingAs(s, t)', NEW q \in Runs \ {s}, LoggingAs(q, t)'
       PROVE  q \in raced' /\ s \in raced'
  <2>1. CASE s # r /\ q # r
    BY <1>7, <1>8, <1>11, <2>1 DEF ContextInv
  <2>2. CASE s = r \/ q = r
    BY <1>7, <1>9, <1>11, <2>2
  <2> QED  BY <2>1, <2>2
<1>12. ContextInv'
  BY <1>10, <1>11 DEF ContextInv
<1> QED  BY <1>1, <1>6, <1>12 DEF JournalInv

\* The context logger writes the slice back with its item at the end: what
\* another call wrote to it since is lost, but that call met this one.
LEMMA JournalWriteSlice ==
    ASSUME ListsOK, JournalInv, NEW r \in Runs, WriteSlice(r)
    PROVE  JournalInv'
<1>1. /\ Doing(r, "log") /\ logger = "context" /\ phase[r] = "read" /\ LogDone(r)
      /\ seen' = [seen EXCEPT ![r] = <<>>] /\ logger' = logger /\ raced' = raced
  BY DEF WriteSlice
<1>2. PICK item \in LogItems({r}, LogTypes) :
        /\ Head(todo[r]).item = item
        /\ logged' \in [Runs -> Seq(LogItems(Runs, LogTypes))]
        /\ \A s \in Runs : logged'[s] \in Seq(LogItems({s}, LogTypes))
        /\ \A type \in LogTypes : LoggedAs(r, type)' =
             IF type = item.type THEN Append(LoggedAs(r, type), item) ELSE LoggedAs(r, type)
        /\ \A s \in Runs \ {r} : /\ phase'[s] = phase[s] /\ todo'[s] = todo[s]
                                 /\ \A type \in LogTypes : LoggedAs(s, type)' = LoggedAs(s, type)
        /\ phase' \in [Runs -> {"ready", "read", "written"}] /\ phase'[r] = "ready"
  BY <1>1, LogDoneEffect DEF JournalInv
<1>3. PICK type \in LogTypes : type = item.type
  BY ItemKinds
<1>4. PICK lines \in Seq(Lines) : lines = seen[r]
  BY DEF JournalInv, LogsOK
<1>5. item \in Lines /\ Append(lines, item) \in Seq(Lines)
  BY ItemKinds, OfRunAppend
<1>6. journal' = [journal EXCEPT ![type] = Append(lines, item)]
  BY <1>2, <1>3, <1>4 DEF WriteSlice
<1>7. /\ journal'[type] = Append(lines, item) /\ \A t \in LogTypes \ {type} : journal'[t] = journal[t]
      /\ journal' \in [LogTypes -> Seq(Lines)]
  BY <1>5, <1>6 DEF JournalInv, LogsOK
<1>8. /\ \A s \in Runs \ {r} : seen'[s] = seen[s]
      /\ seen' \in [Runs -> Seq(Lines)]
  <2>1. <<>> \in Seq(Lines)
    OBVIOUS
  <2> QED  BY <1>1, <2>1 DEF JournalInv, LogsOK
<1>9. LogsOK'
  <2>1. \A s \in Runs : /\ phase'[s] # "ready" => Doing(s, "log")'
                        /\ phase'[s] = "written" => logger' = "json"
                        /\ phase'[s] = "read" => logger' = "context"
    BY <1>1, <1>2 DEF JournalInv, LogsOK, Doing
  <2> QED  BY <1>1, <1>2, <1>7, <1>8, <2>1 DEF JournalInv, LogsOK
<1>10. ContextInv /\ LoggingAs(r, type)
  BY <1>1, <1>2, <1>3 DEF JournalInv, LoggingAs
<1>11. /\ \A t \in LogTypes : ~LoggingAs(r, t)' /\ (LoggingAs(r, t) => t = type)
       /\ \A s \in Runs \ {r}, t \in LogTypes : LoggingAs(s, t)' <=> LoggingAs(s, t)
  BY <1>1, <1>2, <1>3 DEF LoggingAs
<1>12. ASSUME NEW t \in LogTypes, NEW s \in Runs \ raced
       PROVE  OfRun(journal'[t], s) = LoggedAs(s, t)'
  <2>1. CASE t # type
    <3>1. OfRun(journal[t], s) = LoggedAs(s, t)
      BY <1>10 DEF ContextInv
    <3>2. LoggedAs(s, t)' = LoggedAs(s, t)
      BY <1>2, <1>3, <2>1
    <3> QED  BY <1>7, <2>1, <3>1, <3>2
  <2>2. CASE t = type
    <3>1. OfRun(lines, s) = LoggedAs(s, t)
      BY <1>4, <1>10, <2>2 DEF ContextInv
    <3>2. OfRun(Append(lines, item), s) =
            IF item \in LogItems({s}, LogTypes) THEN Append(OfRun(lines, s), item) ELSE OfRun(lines, s)
      BY <1>5, OfRunAppend
    <3>3. item \in LogItems({s}, LogTypes) <=> s = r
      <4>1. \A q \in Runs : item \in LogItems({q}, LogTypes) <=> q = r
        BY ItemKinds
      <4> QED  BY <4>1
    <3>4. CASE s = r
      BY <1>2, <1>3, <1>7, <2>2, <3>1, <3>2, <3>3, <3>4
    <3>5. CASE s # r
      BY <1>2, <1>7, <2>2, <3>1, <3>2, <3>3, <3>5
    <3> QED  BY <3>4, <3>5
  <2> QED  BY <2>1, <2>2
<1>13. ASSUME NEW t \in LogTypes, NEW q \in Runs, LoggingAs(q, t)', NEW s \in Runs \ raced
       PROVE  OfRun(seen'[q], s) = LoggedAs(s, t)'
  <2>1. q # r /\ LoggingAs(q, t)
    BY <1>11, <1>13
  <2>2. OfRun(seen[q], s) = LoggedAs(s, t)
    BY <1>10, <2>1 DEF ContextInv
  <2>3. LoggedAs(s, t)' = LoggedAs(s, t)
    <3>1. CASE s # r
      BY <1>2, <3>1
    <3>2. CASE s = r /\ t = type
      BY <1>10, <2>1, <3>2 DEF ContextInv
    <3>3. CASE s = r /\ t # type
      BY <1>2, <1>3, <3>3
    <3> QED  BY <3>1, <3>2, <3>3
  <2> QED  BY <1>8, <2>1, <2>2, <2>3
<1>14. ASSUME NEW t \in LogTypes, NEW s \in Runs, LoggingAs(s, t)', NEW q \in Runs \ {s}, LoggingAs(q, t)'
       PROVE  q \in raced /\ s \in raced
  BY <1>10, <1>11, <1>14 DEF ContextInv
<1>15. ContextInv'
  BY <1>1, <1>12, <1>13, <1>14 DEF ContextInv
<1> QED  BY <1>1, <1>9, <1>15 DEF JournalInv

\* The simple logger prints its line at once; the last one prints nothing.
LEMMA JournalPrintLine ==
    ASSUME ListsOK, JournalInv, NEW r \in Runs, PrintLine(r)
    PROVE  JournalInv'
<1>1. /\ Doing(r, "log") /\ logger \in {"simple", "noop"} /\ LogDone(r)
      /\ seen' = seen /\ logger' = logger
  BY DEF PrintLine
<1>2. PICK item \in LogItems({r}, LogTypes) :
        /\ Head(todo[r]).item = item
        /\ logged' \in [Runs -> Seq(LogItems(Runs, LogTypes))]
        /\ \A s \in Runs : logged'[s] \in Seq(LogItems({s}, LogTypes))
        /\ \A type \in LogTypes : LoggedAs(r, type)' =
             IF type = item.type THEN Append(LoggedAs(r, type), item) ELSE LoggedAs(r, type)
        /\ \A s \in Runs \ {r} : /\ phase'[s] = phase[s] /\ todo'[s] = todo[s]
                                 /\ \A type \in LogTypes : LoggedAs(s, type)' = LoggedAs(s, type)
        /\ phase' \in [Runs -> {"ready", "read", "written"}] /\ phase'[r] = "ready"
  BY <1>1, LogDoneEffect DEF JournalInv
<1>3. PICK type \in LogTypes : type = item.type
  BY ItemKinds
<1>4. PICK lines \in Seq(Lines) : lines = journal[type]
  BY DEF JournalInv, LogsOK
<1>5. item \in Lines /\ Append(lines, item) \in Seq(Lines)
  BY ItemKinds, OfRunAppend
<1>6. journal' = IF logger = "noop" THEN journal ELSE [journal EXCEPT ![type] = Append(lines, item)]
  BY <1>2, <1>3, <1>4 DEF PrintLine
<1>7. journal' \in [LogTypes -> Seq(Lines)]
  BY <1>5, <1>6 DEF JournalInv, LogsOK
<1>8. LogsOK'
  BY <1>1, <1>2, <1>7 DEF JournalInv, LogsOK, Doing
<1>9. logger = "noop" => NoopInv'
  BY <1>6 DEF JournalInv, NoopInv
<1>10. ASSUME logger = "simple", NEW t \in LogTypes, NEW s \in Runs
       PROVE  OfRun(journal'[t], s) = LoggedAs(s, t)'
  <2>1. OfRun(journal[t], s) = LoggedAs(s, t)
    BY <1>10 DEF JournalInv, SimpleInv
  <2>2. journal'[type] = Append(lines, item) /\ \A u \in LogTypes \ {type} : journal'[u] = journal[u]
    BY <1>6, <1>10 DEF JournalInv, LogsOK
  <2>3. CASE t # type
    BY <1>2, <1>3, <2>1, <2>2, <2>3
  <2>4. CASE t = type
    <3>1. OfRun(Append(lines, item), s) =
            IF item \in LogItems({s}, LogTypes) THEN Append(OfRun(lines, s), item) ELSE OfRun(lines, s)
      BY <1>5, OfRunAppend
    <3>2. item \in LogItems({s}, LogTypes) <=> s = r
      <4>1. \A q \in Runs : item \in LogItems({q}, LogTypes) <=> q = r
        BY ItemKinds
      <4> QED  BY <4>1
    <3> QED  BY <1>2, <1>3, <1>4, <2>1, <2>2, <2>4, <3>1, <3>2
  <2> QED  BY <2>3, <2>4
<1>11. logger = "simple" => SimpleInv'
  BY <1>10 DEF SimpleInv
<1> QED  BY <1>1, <1>8, <1>9, <1>11 DEF JournalInv

\* Sinks, channels and consumers leave the log alone.
LEMMA JournalStep ==
    ASSUME TypeOK, TypeOK', ListsOK, JournalInv, [ObserversNext]_<<vars, observerVars>>
    PROVE  JournalInv'
<1>1. ASSUME NEW r \in Runs, RunsOn(r) PROVE JournalInv'
  <2>1. /\ logger' = logger /\ phase' = phase /\ seen' = seen /\ journal' = journal
        /\ logged' = logged /\ raced' = raced /\ todo[r] = <<>>
    BY <1>1 DEF RunsOn
  <2>2. phase[r] = "ready"
    BY <2>1 DEF JournalInv, LogsOK, Doing
  <2>3. \A s \in Runs \ {r} : todo'[s] = todo[s]
    BY <1>1, RunsOnEffect
  <2> QED  BY <2>1, <2>2, <2>3, JournalStays
<1>2. ASSUME NEW r \in Runs, EmitEvent(r) PROVE JournalInv'
  <2>1. /\ logger' = logger /\ phase' = phase /\ seen' = seen /\ journal' = journal
        /\ logged' = logged /\ raced' = raced /\ todo[r] # <<>> /\ Head(todo[r]).do = "emit" /\ Done(r)
    BY <1>2 DEF EmitEvent, Doing
  <2>2. phase[r] = "ready"
    BY <2>1 DEF JournalInv, LogsOK, Doing
  <2>3. \A s \in Runs \ {r} : todo'[s] = todo[s]
    BY <2>1, TodoDone
  <2> QED  BY <2>1, <2>2, <2>3, JournalStays
<1>3. ASSUME UNCHANGED <<todo, logger, phase, seen, journal, logged, raced>> PROVE JournalInv'
  <2>1. LogsOK'
    BY <1>3 DEF JournalInv, LogsOK, Doing
  <2>2. \A s \in Runs, type \in LogTypes :
          /\ LoggedAs(s, type)' = LoggedAs(s, type) /\ InProgress(s, type)' = InProgress(s, type)
          /\ LoggingAs(s, type)' <=> LoggingAs(s, type)
    BY <1>3 DEF LoggedAs, InProgress, LoggingAs
  <2>3. \A s \in Runs, type \in LogTypes : Written(s, type)' = Written(s, type)
    BY <2>2 DEF Written
  <2>4. \A type \in LogTypes : LinesOf(type)' = LinesOf(type)
    BY <2>3 DEF LinesOf
  <2>5. logger = "json" => JsonInv'
    BY <1>3, <2>3, <2>4 DEF JournalInv, JsonInv
  <2>6. logger = "context" => ContextInv'
    BY <1>3, <2>2 DEF JournalInv, ContextInv
  <2>7. (logger = "simple" => SimpleInv') /\ (logger = "noop" => NoopInv')
    BY <1>3, <2>2 DEF JournalInv, SimpleInv, NoopInv
  <2> QED  BY <1>3, <2>1, <2>5, <2>6, <2>7 DEF JournalInv
<1>4. ASSUME NEW r \in Runs, CloseStream(r) \/ Receive(r) \/ Leave(r) PROVE JournalInv'
  BY <1>3, <1>4 DEF CloseStream, Receive, Leave
<1>5. CASE UNCHANGED <<vars, observerVars>>
  BY <1>3, <1>5 DEF observerVars
<1>6. ASSUME NEW r \in Runs, Log(r) PROVE JournalInv'
  BY <1>6, JournalWriteLine, JournalRecord, JournalReadSlice, JournalWriteSlice, JournalPrintLine DEF Log
<1> QED  BY <1>1, <1>2, <1>4, <1>5, <1>6 DEF ObserversNext, Worker

\* The invariant behind JournalIsComplete.
LEMMA JournalKept == ObserversSpec => []JournalInv
<1>1. StreamsInv => ListsOK
  BY DEF StreamsInv
<1> QED  BY <1>1, StreamsKept, JournalInit, JournalStep, PTL DEF ObserversSpec

\* A log holds of every run what the run logged, in order: the JSON logger, which
\* prints under its mutex (json_logger.go:37-47), a line for each call, and the
\* context logger, which appends without one (logging.go:134-150), the calls of
\* the runs that logged alone.
THEOREM JournalIsComplete == ObserversSpec => []JournalComplete
<1>1. JournalInv => JournalComplete
  BY DEF JournalInv, JsonInv, ContextInv, SimpleInv, NoopInv, JournalComplete, LinesOf, Written, LogsOK, Loggers
<1> QED  BY <1>1, JournalKept, PTL

-----------------------------------------------------------------------------
(* The counters                                                            *)

Calls(r, type, oks) == [run : {r}, type : {type}, ok : oks, marshals : BOOLEAN]
CallTodos(r, type, oks) == [do : {"log"}, item : Calls(r, type, oks)]
Counts(r, type, oks) == Len(Selected(logged[r], Calls(r, type, oks)))
Awaited(r, type, oks) == Len(Selected(todo[r], CallTodos(r, type, oks)))

\* What a run counted is logged, or is still to be logged.
CountsInv ==
    \A r \in Runs :
        /\ Counts(r, "model_call", BOOLEAN) + Awaited(r, "model_call", BOOLEAN) = stats[r].modelCalls
        /\ Counts(r, "model_call", {FALSE}) + Awaited(r, "model_call", {FALSE}) = stats[r].modelErrors
        /\ Counts(r, "tool_call", BOOLEAN) + Awaited(r, "tool_call", BOOLEAN) = stats[r].toolCalls

CountsOf(type, oks) == [r \in Runs |-> Counts(r, type, oks)]
Summed(counter, type, oks) ==
    IsFiniteSet(Units(CountsOf(type, oks))) /\ counter = Total(CountsOf(type, oks))

\* The collector counts what is logged.
MetricsInv ==
    /\ metrics \in [tool : [ok : Nat, error : Nat], model : [ok : Nat, error : Nat]]
    /\ logger = "json" =>
         /\ Summed(metrics.model.ok + metrics.model.error, "model_call", BOOLEAN)
         /\ Summed(metrics.model.error, "model_call", {FALSE})
         /\ Summed(metrics.tool.ok + metrics.tool.error, "tool_call", BOOLEAN)

\* The counts are numbers.
LEMMA CountsAreNumbers ==
    ASSUME ListsOK, LogsOK, NEW r \in Runs, NEW type, NEW oks
    PROVE  Counts(r, type, oks) \in Nat /\ Awaited(r, type, oks) \in Nat
<1>1. \A T : \A s \in Seq(T) : Len(s) \in Nat
  OBVIOUS
<1>2. /\ logged[r] \in Seq(LogItems({r}, LogTypes)) /\ todo[r] \in Seq(OwnTodo(r))
  BY DEF LogsOK, ListsOK
<1>3. /\ Selected(logged[r], Calls(r, type, oks)) \in Seq(LogItems({r}, LogTypes))
      /\ Selected(todo[r], CallTodos(r, type, oks)) \in Seq(OwnTodo(r))
  BY <1>2, SelectedType
<1> QED  BY <1>1, <1>3 DEF Counts, Awaited

\* A completed log call is counted as what it was awaited for.
LEMMA CountMoves ==
    ASSUME ListsOK, LogsOK, NEW r \in Runs, Doing(r, "log"), LogDone(r), NEW type, NEW oks
    PROVE  /\ Counts(r, type, oks)' + Awaited(r, type, oks)' = Counts(r, type, oks) + Awaited(r, type, oks)
           /\ Counts(r, type, oks)' = Counts(r, type, oks) +
                IF Head(todo[r]).item.type = type /\ Head(todo[r]).item.ok \in oks THEN 1 ELSE 0
<1>1. PICK item \in LogItems({r}, LogTypes) :
        Head(todo[r]).item = item /\ logged'[r] = Append(logged[r], item)
  BY LogDoneEffect
<1>2. PICK old \in Seq(LogItems({r}, LogTypes)), chosen \in Seq(LogItems({r}, LogTypes)) :
        old = logged[r] /\ chosen = Selected(old, Calls(r, type, oks))
  <2>1. logged[r] \in Seq(LogItems({r}, LogTypes))
    BY DEF LogsOK
  <2>2. Selected(logged[r], Calls(r, type, oks)) \in Seq(LogItems({r}, LogTypes))
    BY <2>1, SelectedType
  <2> QED  BY <2>1, <2>2
<1>3. item \in Calls(r, type, oks) <=> item.type = type /\ item.ok \in oks
  BY DEF LogItems, Calls
<1>4. Selected(Append(old, item), Calls(r, type, oks)) =
        IF item \in Calls(r, type, oks) THEN Append(chosen, item) ELSE chosen
  <2>1. Selected(Append(old, item), Calls(r, type, oks)) =
          IF item \in Calls(r, type, oks) THEN Append(Selected(old, Calls(r, type, oks)), item)
          ELSE Selected(old, Calls(r, type, oks))
    BY ONLY SelectedAppend, old \in Seq(LogItems({r}, LogTypes)), item \in LogItems({r}, LogTypes)
  <2> QED  BY <1>2, <2>1
<1>5. Len(Append(chosen, item)) = Len(chosen) + 1 /\ Len(chosen) \in Nat
  OBVIOUS
<1>6. Counts(r, type, oks)' = Counts(r, type, oks) + IF item.type = type /\ item.ok \in oks THEN 1 ELSE 0
  BY <1>1, <1>2, <1>3, <1>4, <1>5 DEF Counts
<1>7. /\ todo[r] # <<>> /\ Done(r) /\ Head(todo[r]).do = "log"
  BY DEF LogDone, Doing
<1>8. /\ todo'[r] \in Seq(OwnTodo(r)) /\ Head(todo[r]) \in OwnTodo(r)
      /\ Selected(todo[r], CallTodos(r, type, oks)) =
           IF Head(todo[r]) \in CallTodos(r, type, oks)
           THEN <<Head(todo[r])>> \o Selected(todo'[r], CallTodos(r, type, oks))
           ELSE Selected(todo'[r], CallTodos(r, type, oks))
  BY <1>7, TodoDone
<1>9. Head(todo[r]) \in CallTodos(r, type, oks) <=> item \in Calls(r, type, oks)
  <2>1. Head(todo[r]) \in Todos(r, LogTypes)
    BY <1>7, <1>8 DEF OwnTodo, Emits
  <2> QED  BY <1>1, <2>1 DEF Todos, CallTodos
<1>10. PICK rest \in Seq(OwnTodo(r)) : rest = Selected(todo'[r], CallTodos(r, type, oks))
  <2>1. PICK left \in Seq(OwnTodo(r)) : left = todo'[r]
    BY <1>8
  <2>2. Selected(left, CallTodos(r, type, oks)) \in Seq(OwnTodo(r))
    BY SelectedType
  <2> QED  BY <2>1, <2>2
<1>11. Len(rest) \in Nat /\ \A x : Len(<<x>> \o rest) = Len(rest) + 1
  OBVIOUS
<1>12. Awaited(r, type, oks) = Awaited(r, type, oks)' + IF item.type = type /\ item.ok \in oks THEN 1 ELSE 0
  BY <1>3, <1>8, <1>9, <1>10, <1>11 DEF Awaited
<1>13. Counts(r, type, oks) \in Nat /\ Awaited(r, type, oks)' \in Nat
  BY <1>10, <1>11, CountsAreNumbers DEF Awaited
<1>14. Head(todo[r]).item.type = item.type /\ Head(todo[r]).item.ok = item.ok
  BY <1>1
<1>15. PICK n \in {0, 1} : n = IF item.type = type /\ item.ok \in oks THEN 1 ELSE 0
  OBVIOUS
<1>16. Counts(r, type, oks)' = Counts(r, type, oks) + n /\ Awaited(r, type, oks) = Awaited(r, type, oks)' + n
  BY <1>6, <1>12, <1>15
<1>17. n = IF Head(todo[r]).item.type = type /\ Head(todo[r]).item.ok \in oks THEN 1 ELSE 0
  BY <1>14, <1>15
<1>18. Counts(r, type, oks)' + Awaited(r, type, oks)' = Counts(r, type, oks) + Awaited(r, type, oks)
  BY <1>13, <1>16
<1> QED  BY <1>16, <1>17, <1>18

\* A run whose lists stay keeps its counts.
LEMMA CountsStay ==
    ASSUME CountsInv, NEW s \in Runs, logged'[s] = logged[s], todo'[s] = todo[s], stats'[s] = stats[s]
    PROVE  /\ Counts(s, "model_call", BOOLEAN)' + Awaited(s, "model_call", BOOLEAN)' = stats'[s].modelCalls
           /\ Counts(s, "model_call", {FALSE})' + Awaited(s, "model_call", {FALSE})' = stats'[s].modelErrors
           /\ Counts(s, "tool_call", BOOLEAN)' + Awaited(s, "tool_call", BOOLEAN)' = stats'[s].toolCalls
  BY DEF CountsInv, Counts, Awaited

\* A log call completes or stays.
LEMMA CountsLog ==
    ASSUME ListsOK, LogsOK, CountsInv, NEW r \in Runs, Log(r)
    PROVE  CountsInv'
<1>1. Doing(r, "log") /\ stats' = stats /\ (LogDone(r) \/ (todo' = todo /\ logged' = logged))
  BY DEF Log, WriteLine, Record, ReadSlice, WriteSlice, PrintLine, vars, local
<1>2. CASE todo' = todo /\ logged' = logged
  BY <1>1, <1>2, CountsStay DEF CountsInv
<1>3. CASE LogDone(r)
  <2>1. \A s \in Runs \ {r} : logged'[s] = logged[s] /\ todo'[s] = todo[s]
    BY <1>1, <1>3, LogDoneEffect
  <2>2. \A type, oks : Counts(r, type, oks)' + Awaited(r, type, oks)' = Counts(r, type, oks) + Awaited(r, type, oks)
    BY <1>1, <1>3, CountMoves
  <2>3. /\ Counts(r, "model_call", BOOLEAN)' + Awaited(r, "model_call", BOOLEAN)' = stats'[r].modelCalls
        /\ Counts(r, "model_call", {FALSE})' + Awaited(r, "model_call", {FALSE})' = stats'[r].modelErrors
        /\ Counts(r, "tool_call", BOOLEAN)' + Awaited(r, "tool_call", BOOLEAN)' = stats'[r].toolCalls
    BY <1>1, <2>2 DEF CountsInv
  <2>4. ASSUME NEW s \in Runs \ {r}
        PROVE  /\ Counts(s, "model_call", BOOLEAN)' + Awaited(s, "model_call", BOOLEAN)' = stats'[s].modelCalls
               /\ Counts(s, "model_call", {FALSE})' + Awaited(s, "model_call", {FALSE})' = stats'[s].modelErrors
               /\ Counts(s, "tool_call", BOOLEAN)' + Awaited(s, "tool_call", BOOLEAN)' = stats'[s].toolCalls
    BY <1>1, <2>1, CountsStay
  <2> QED  BY <2>3, <2>4 DEF CountsInv
<1> QED  BY <1>1, <1>2, <1>3

\* A sink call is no log call.
LEMMA CountsEmit ==
    ASSUME ListsOK, LogsOK, CountsInv, NEW r \in Runs, EmitEvent(r)
    PROVE  CountsInv'
<1>1. todo[r] # <<>> /\ Head(todo[r]).do = "emit" /\ Done(r) /\ logged' = logged /\ stats' = stats
  BY DEF EmitEvent, Doing, vars, local
<1>2. /\ \A s \in Runs \ {r} : todo'[s] = todo[s]
      /\ \A S : Selected(todo[r], S) =
           IF Head(todo[r]) \in S THEN <<Head(todo[r])>> \o Selected(todo'[r], S) ELSE Selected(todo'[r], S)
  BY <1>1, TodoDone
<1>3. \A type, oks : Head(todo[r]) \notin CallTodos(r, type, oks)
  BY <1>1 DEF CallTodos
<1>4. \A type, oks : Awaited(r, type, oks)' = Awaited(r, type, oks) /\ Counts(r, type, oks)' = Counts(r, type, oks)
  BY <1>1, <1>2, <1>3 DEF Awaited, Counts
<1>5. ASSUME NEW s \in Runs \ {r}
      PROVE  /\ Counts(s, "model_call", BOOLEAN)' + Awaited(s, "model_call", BOOLEAN)' = stats'[s].modelCalls
             /\ Counts(s, "model_call", {FALSE})' + Awaited(s, "model_call", {FALSE})' = stats'[s].modelErrors
             /\ Counts(s, "tool_call", BOOLEAN)' + Awaited(s, "tool_call", BOOLEAN)' = stats'[s].toolCalls
  BY <1>1, <1>2, CountsStay
<1> QED  BY <1>1, <1>4, <1>5 DEF CountsInv

\* A step leaves the log call of what it counts.
LEMMA CountsRun ==
    ASSUME TypeOK, TypeOK', ListsOK, LogsOK, CountsInv, NEW r \in Runs, RunsOn(r)
    PROVE  CountsInv'
<1>1. PICK new : /\ Says(r, new) /\ todo[r] = <<>>
                 /\ \A s \in Runs \ {r} : todo'[s] = todo[s]
                 /\ \A S \in SUBSET Todos(r, CallTypes) : Selected(todo'[r], S) = Selected(CallLogs(r), S)
  BY RunsOnEffect
<1>2. /\ logged' = logged /\ \A s \in Runs \ {r} : stats'[s] = stats[s]
  BY <1>1 DEF RunsOn, Says
<1>3. \A type, oks : Awaited(r, type, oks) = 0 /\ Counts(r, type, oks)' = Counts(r, type, oks)
  <2>1. Len(<<>>) = 0
    OBVIOUS
  <2> QED  BY <1>1, <1>2, <2>1, SelectedNone DEF Awaited, Counts
<1>4. \A type \in CallTypes, oks \in SUBSET BOOLEAN :
        Awaited(r, type, oks)' = Len(Selected(CallLogs(r), CallTodos(r, type, oks)))
  <2>1. \A type \in CallTypes, oks \in SUBSET BOOLEAN : CallTodos(r, type, oks) \in SUBSET Todos(r, CallTypes)
    BY DEF CallTodos, Calls, Todos, LogItems
  <2> QED  BY <1>1, <2>1 DEF Awaited
<1>5. /\ Awaited(r, "model_call", BOOLEAN)' = Len(Selected(CallLogs(r), CallTodos(r, "model_call", BOOLEAN)))
      /\ Awaited(r, "model_call", {FALSE})' = Len(Selected(CallLogs(r), CallTodos(r, "model_call", {FALSE})))
      /\ Awaited(r, "tool_call", BOOLEAN)' = Len(Selected(CallLogs(r), CallTodos(r, "tool_call", BOOLEAN)))
  BY <1>4 DEF CallTypes
<1>6. \E models, errors, tools \in {0, 1} :
        /\ Raises(r, models, errors, tools)
        /\ Awaited(r, "model_call", BOOLEAN)' = models
        /\ Awaited(r, "model_call", {FALSE})' = errors
        /\ Awaited(r, "tool_call", BOOLEAN)' = tools
  <2>1. /\ \A S : Selected(<<>>, S) = <<>>
        /\ \A x, S : Selected(<<x>>, S) = IF x \in S THEN <<x>> ELSE <<>>
        /\ Len(<<>>) = 0 /\ \A x : Len(<<x>>) = 1
    BY SelectedNone, SelectedOne
  <2>2. CASE Raises(r, 0, 0, 0) /\ CallLogs(r) = <<>>
    BY <1>5, <2>1, <2>2
  <2>3. ASSUME NEW ok \in BOOLEAN
        PROVE  /\ ModelLog(r, ok) \in CallTodos(r, "model_call", BOOLEAN)
               /\ ModelLog(r, ok) \in CallTodos(r, "model_call", {FALSE}) <=> ~ok
               /\ ModelLog(r, ok) \notin CallTodos(r, "tool_call", BOOLEAN)
    BY DEF ModelLog, DoLog, LogItem, CallTodos, Calls
  <2>4. CASE Raises(r, 1, 0, 0) /\ CallLogs(r) = <<ModelLog(r, TRUE)>>
    <3>1. \A S : Selected(CallLogs(r), S) = IF ModelLog(r, TRUE) \in S THEN <<ModelLog(r, TRUE)>> ELSE <<>>
      BY <2>1, <2>4
    <3>2. /\ Awaited(r, "model_call", BOOLEAN)' = 1
          /\ Awaited(r, "model_call", {FALSE})' = 0
          /\ Awaited(r, "tool_call", BOOLEAN)' = 0
      BY <1>5, <2>1, <2>3, <3>1
    <3> QED  BY <2>4, <3>2
  <2>5. CASE Raises(r, 1, 1, 0) /\ CallLogs(r) = <<ModelLog(r, FALSE)>>
    <3>1. \A S : Selected(CallLogs(r), S) = IF ModelLog(r, FALSE) \in S THEN <<ModelLog(r, FALSE)>> ELSE <<>>
      BY <2>1, <2>5
    <3>2. /\ Awaited(r, "model_call", BOOLEAN)' = 1
          /\ Awaited(r, "model_call", {FALSE})' = 1
          /\ Awaited(r, "tool_call", BOOLEAN)' = 0
      BY <1>5, <2>1, <2>3, <3>1
    <3> QED  BY <2>5, <3>2
  <2>6. ASSUME NEW ok \in BOOLEAN, NEW marshals \in BOOLEAN,
               Raises(r, 0, 0, 1), CallLogs(r) = <<ToolLog(r, ok, marshals)>>
        PROVE  /\ Awaited(r, "model_call", BOOLEAN)' = 0
               /\ Awaited(r, "model_call", {FALSE})' = 0
               /\ Awaited(r, "tool_call", BOOLEAN)' = 1
    <3>1. /\ ToolLog(r, ok, marshals) \notin CallTodos(r, "model_call", BOOLEAN)
          /\ ToolLog(r, ok, marshals) \notin CallTodos(r, "model_call", {FALSE})
          /\ ToolLog(r, ok, marshals) \in CallTodos(r, "tool_call", BOOLEAN)
      BY DEF ToolLog, DoLog, LogItem, CallTodos, Calls
    <3>2. \A S : Selected(CallLogs(r), S) = IF ToolLog(r, ok, marshals) \in S THEN <<ToolLog(r, ok, marshals)>> ELSE <<>>
      BY <2>1, <2>6
    <3> QED  BY <1>5, <2>1, <3>1, <3>2
  <2>7. Step(r) \/ \E t \in Threads : Load(r, t) \/ LoadFails(r, t)
    BY ThreadOfAssumption DEF RunsOn
  <2> QED  BY <2>2, <2>4, <2>5, <2>6, <2>7, CallLogged
<1>7. /\ Counts(r, "model_call", BOOLEAN)' + Awaited(r, "model_call", BOOLEAN)' = stats'[r].modelCalls
      /\ Counts(r, "model_call", {FALSE})' + Awaited(r, "model_call", {FALSE})' = stats'[r].modelErrors
      /\ Counts(r, "tool_call", BOOLEAN)' + Awaited(r, "tool_call", BOOLEAN)' = stats'[r].toolCalls
  <2>1. /\ Counts(r, "model_call", BOOLEAN) + 0 = stats[r].modelCalls
        /\ Counts(r, "model_call", {FALSE}) + 0 = stats[r].modelErrors
        /\ Counts(r, "tool_call", BOOLEAN) + 0 = stats[r].toolCalls
    BY <1>3 DEF CountsInv
  <2>2. \A type, oks : Counts(r, type, oks) \in Nat
    BY CountsAreNumbers
  <2> QED  BY <1>3, <1>6, <2>1, <2>2 DEF Raises
<1>8. ASSUME NEW s \in Runs \ {r}
      PROVE  /\ Counts(s, "model_call", BOOLEAN)' + Awaited(s, "model_call", BOOLEAN)' = stats'[s].modelCalls
             /\ Counts(s, "model_call", {FALSE})' + Awaited(s, "model_call", {FALSE})' = stats'[s].modelErrors
             /\ Counts(s, "tool_call", BOOLEAN)' + Awaited(s, "tool_call", BOOLEAN)' = stats'[s].toolCalls
  BY <1>1, <1>2, CountsStay
<1> QED  BY <1>7, <1>8 DEF CountsInv

\* One run's count raised raises the sum.
LEMMA CountRaised ==
    ASSUME NEW r \in Runs, NEW type, NEW oks, NEW counter \in Nat, NEW raised, NEW n \in {0, 1},
           Summed(counter, type, oks), raised = counter + n,
           \A s \in Runs : Counts(s, type, oks) \in Nat,
           Counts(r, type, oks)' = Counts(r, type, oks) + n,
           \A s \in Runs \ {r} : Counts(s, type, oks)' = Counts(s, type, oks)
    PROVE  IsFiniteSet(Units(CountsOf(type, oks)')) /\ raised = Total(CountsOf(type, oks)')
<1>1. PICK f, g : f = CountsOf(type, oks) /\ g = CountsOf(type, oks)'
  OBVIOUS
<1>2. f \in [Runs -> Nat] /\ IsFiniteSet(Units(f)) /\ counter = Total(f)
  BY <1>1 DEF CountsOf, Summed
<1>3. g \in [Runs -> Nat] /\ g[r] = f[r] + n /\ \A s \in Runs \ {r} : g[s] = f[s]
  BY <1>1, <1>2 DEF CountsOf
<1>4. CASE n = 0
  <2>1. g = f
    BY <1>2, <1>3, <1>4
  <2> QED  BY <1>1, <1>2, <1>4, <2>1
<1>5. CASE n = 1
  <2>1. IsFiniteSet(Units(g)) /\ Total(g) = Total(f) + 1
    BY <1>2, <1>3, <1>5, TotalRaised
  <2> QED  BY <1>1, <1>2, <1>5, <2>1
<1> QED  BY <1>4, <1>5

\* The collector counts an item when its call completes.
LEMMA MetricsRecord ==
    ASSUME ListsOK, LogsOK, MetricsInv, NEW r \in Runs, Record(r)
    PROVE  MetricsInv'
<1>1. Doing(r, "log") /\ logger = "json" /\ LogDone(r) /\ logger' = logger
  BY DEF Record
<1>2. PICK item \in LogItems({r}, LogTypes) : Head(todo[r]).item = item /\ \A s \in Runs \ {r} : logged'[s] = logged[s]
  BY <1>1, LogDoneEffect
<1>3. metrics' = Counted(item) /\ item.type \in LogTypes /\ item.ok \in BOOLEAN
  <2>1. item.type \in LogTypes /\ item.ok \in BOOLEAN
    BY ItemKinds
  <2> QED  BY <1>2, <2>1 DEF Record
<1>4. PICK models \in {0, 1}, errors \in {0, 1}, tools \in {0, 1} :
        /\ models = IF item.type = "model_call" THEN 1 ELSE 0
        /\ errors = IF item.type = "model_call" /\ ~item.ok THEN 1 ELSE 0
        /\ tools = IF item.type = "tool_call" THEN 1 ELSE 0
  OBVIOUS
<1>5. \A type, oks : /\ Counts(r, type, oks)' = Counts(r, type, oks) +
                           IF item.type = type /\ item.ok \in oks THEN 1 ELSE 0
                     /\ \A s \in Runs : Counts(s, type, oks) \in Nat
                     /\ \A s \in Runs \ {r} : Counts(s, type, oks)' = Counts(s, type, oks)
  BY <1>1, <1>2, CountMoves, CountsAreNumbers DEF Counts
<1>6. /\ Counts(r, "model_call", BOOLEAN)' = Counts(r, "model_call", BOOLEAN) + models
      /\ Counts(r, "model_call", {FALSE})' = Counts(r, "model_call", {FALSE}) + errors
      /\ Counts(r, "tool_call", BOOLEAN)' = Counts(r, "tool_call", BOOLEAN) + tools
  <2>1. /\ Counts(r, "model_call", BOOLEAN)' = Counts(r, "model_call", BOOLEAN) +
              IF item.type = "model_call" /\ item.ok \in BOOLEAN THEN 1 ELSE 0
        /\ Counts(r, "model_call", {FALSE})' = Counts(r, "model_call", {FALSE}) +
              IF item.type = "model_call" /\ item.ok \in {FALSE} THEN 1 ELSE 0
        /\ Counts(r, "tool_call", BOOLEAN)' = Counts(r, "tool_call", BOOLEAN) +
              IF item.type = "tool_call" /\ item.ok \in BOOLEAN THEN 1 ELSE 0
    BY <1>5
  <2>2. item.ok \in BOOLEAN /\ (item.ok \in {FALSE} <=> ~item.ok)
    BY <1>3
  <2> QED  BY <1>4, <2>1, <2>2
<1>7. /\ metrics.model.ok \in Nat /\ metrics.model.error \in Nat
      /\ metrics.tool.ok \in Nat /\ metrics.tool.error \in Nat
  BY DEF MetricsInv
<1>8. /\ metrics' \in [tool : [ok : Nat, error : Nat], model : [ok : Nat, error : Nat]]
      /\ metrics'.model.ok + metrics'.model.error = metrics.model.ok + metrics.model.error + models
      /\ metrics'.model.error = metrics.model.error + errors
      /\ metrics'.tool.ok + metrics'.tool.error = metrics.tool.ok + metrics.tool.error + tools
  <2>1. CASE item.type = "model_call"
    BY <1>3, <1>4, <1>7, <2>1 DEF MetricsInv, Counted, Bump
  <2>2. CASE item.type = "tool_call"
    BY <1>3, <1>4, <1>7, <2>2 DEF MetricsInv, Counted, Bump
  <2>3. CASE item.type = "run_summary"
    BY <1>3, <1>4, <1>7, <2>3 DEF MetricsInv, Counted
  <2> QED  BY <1>3, <2>1, <2>2, <2>3 DEF LogTypes
<1>9. /\ Summed(metrics.model.ok + metrics.model.error, "model_call", BOOLEAN)
      /\ Summed(metrics.model.error, "model_call", {FALSE})
      /\ Summed(metrics.tool.ok + metrics.tool.error, "tool_call", BOOLEAN)
  BY <1>1 DEF MetricsInv
<1>10. Summed(metrics.model.ok + metrics.model.error, "model_call", BOOLEAN)'
  BY <1>5, <1>6, <1>7, <1>8, <1>9, CountRaised DEF Summed
<1>11. Summed(metrics.model.error, "model_call", {FALSE})'
  BY <1>5, <1>6, <1>7, <1>8, <1>9, CountRaised DEF Summed
<1>12. Summed(metrics.tool.ok + metrics.tool.error, "tool_call", BOOLEAN)'
  BY <1>5, <1>6, <1>7, <1>8, <1>9, CountRaised DEF Summed
<1> QED  BY <1>8, <1>10, <1>11, <1>12 DEF MetricsInv

\* Only a run counts, only a log call is counted.
LEMMA MetricsStep ==
    ASSUME TypeOK, TypeOK', ListsOK, LogsOK, CountsInv, MetricsInv, [ObserversNext]_<<vars, observerVars>>
    PROVE  CountsInv' /\ MetricsInv'
<1>1. ASSUME UNCHANGED <<metrics, logger, logged>> PROVE MetricsInv'
  <2>1. \A type, oks : CountsOf(type, oks)' = CountsOf(type, oks)
    BY <1>1 DEF CountsOf, Counts
  <2> QED  BY <1>1, <2>1 DEF MetricsInv, Summed
<1>2. ASSUME UNCHANGED <<todo, logged, stats>> PROVE CountsInv'
  BY <1>2, CountsStay DEF CountsInv
<1>3. ASSUME NEW r \in Runs, RunsOn(r) PROVE CountsInv' /\ MetricsInv'
  BY <1>1, <1>3, CountsRun DEF RunsOn
<1>4. ASSUME NEW r \in Runs, EmitEvent(r) PROVE CountsInv' /\ MetricsInv'
  BY <1>1, <1>4, CountsEmit DEF EmitEvent
<1>5. ASSUME NEW r \in Runs, CloseStream(r) \/ Receive(r) \/ Leave(r) PROVE CountsInv' /\ MetricsInv'
  BY <1>1, <1>2, <1>5 DEF CloseStream, Receive, Leave, vars, local
<1>6. ASSUME NEW r \in Runs, Log(r) PROVE MetricsInv'
  <2>1. CASE Record(r)
    BY <2>1, MetricsRecord
  <2>2. CASE WriteLine(r) \/ ReadSlice(r)
    BY <1>1, <2>2 DEF WriteLine, ReadSlice
  <2>3. CASE WriteSlice(r) \/ PrintLine(r)
    <3>1. logger # "json" /\ logger' = logger /\ metrics' = metrics
      BY <2>3 DEF WriteSlice, PrintLine
    <3> QED  BY <3>1 DEF MetricsInv
  <2> QED  BY <1>6, <2>1, <2>2, <2>3 DEF Log
<1>7. CASE UNCHANGED <<vars, observerVars>>
  BY <1>1, <1>2, <1>7 DEF vars, observerVars, local
<1> QED  BY <1>3, <1>4, <1>5, <1>6, <1>7, CountsLog DEF ObserversNext, Worker

\* Nothing is counted.
LEMMA MetricsInit == ASSUME ObserversInit PROVE CountsInv /\ MetricsInv
<1>1. /\ todo = [r \in Runs |-> <<>>] /\ logged = [r \in Runs |-> <<>>]
      /\ metrics = [tool |-> [ok |-> 0, error |-> 0], model |-> [ok |-> 0, error |-> 0]]
  BY DEF ObserversInit
<1>2. \A r \in Runs : stats[r].modelCalls = 0 /\ stats[r].modelErrors = 0 /\ stats[r].toolCalls = 0
  BY DEF ObserversInit, Init
<1>3. \A r \in Runs : \A type, oks : Counts(r, type, oks) = 0 /\ Awaited(r, type, oks) = 0
  <2>1. Len(<<>>) = 0
    OBVIOUS
  <2> QED  BY <1>1, <2>1, SelectedNone DEF Counts, Awaited
<1>4. \A type, oks : CountsOf(type, oks) = [r \in Runs |-> 0]
  BY <1>3 DEF CountsOf
<1>5. \A type, oks : Summed(0, type, oks)
  BY <1>4, TotalOfNothing DEF Summed
<1>6. CountsInv
  BY <1>2, <1>3 DEF CountsInv
<1>7. MetricsInv
  BY <1>1, <1>5 DEF MetricsInv
<1> QED  BY <1>6, <1>7

\* The counters of the collector are the sums of those of the runs' summaries as
\* soon as no log call is outstanding (the graph counts where it logs,
\* graph.go:79-90; JSONLogger hands every call to the collector,
\* json_logger.go:49-120).
THEOREM CountersAddUp == ObserversSpec => []MetricsAddUp
<1>1. StreamsInv => ListsOK
  BY DEF StreamsInv
<1>2. JournalInv => LogsOK
  BY DEF JournalInv
<1>3. ObserversSpec => []CountsInv /\ []MetricsInv
  BY <1>1, <1>2, StreamsKept, JournalKept, MetricsInit, MetricsStep, PTL DEF ObserversSpec
<1>4. LogsOK /\ ListsOK /\ CountsInv /\ MetricsInv => MetricsAddUp
  <2> SUFFICES ASSUME LogsOK, ListsOK, CountsInv, MetricsInv, logger = "json", \A r \in Runs : todo[r] = <<>>
               PROVE  /\ metrics.model.ok + metrics.model.error = Total([r \in Runs |-> stats[r].modelCalls])
                      /\ metrics.model.error = Total([r \in Runs |-> stats[r].modelErrors])
                      /\ metrics.tool.ok + metrics.tool.error = Total([r \in Runs |-> stats[r].toolCalls])
    BY DEF MetricsAddUp
  <2>1. \A r \in Runs : \A type, oks : Awaited(r, type, oks) = 0 /\ Counts(r, type, oks) \in Nat
    <3>1. Len(<<>>) = 0
      OBVIOUS
    <3> QED  BY <3>1, SelectedNone, CountsAreNumbers DEF Awaited
  <2>2. \A r \in Runs : /\ Counts(r, "model_call", BOOLEAN) = stats[r].modelCalls
                        /\ Counts(r, "model_call", {FALSE}) = stats[r].modelErrors
                        /\ Counts(r, "tool_call", BOOLEAN) = stats[r].toolCalls
    BY <2>1 DEF CountsInv
  <2>3. /\ CountsOf("model_call", BOOLEAN) = [r \in Runs |-> stats[r].modelCalls]
        /\ CountsOf("model_call", {FALSE}) = [r \in Runs |-> stats[r].modelErrors]
        /\ CountsOf("tool_call", BOOLEAN) = [r \in Runs |-> stats[r].toolCalls]
    BY <2>2 DEF CountsOf
  <2> QED  BY <2>3 DEF MetricsInv, Summed
<1> QED  BY <1>1, <1>2, <1>3, <1>4, StreamsKept, JournalKept, PTL

-----------------------------------------------------------------------------
(* What a model is told.  The reports of a copy are in the order of the    *)
(* calls they report.                                                      *)

InOrder(state) ==
    \A i, j \in DOMAIN state.messages :
        i < j /\ state.messages[i].role = "tool" /\ state.messages[j].role = "tool" =>
            Precedes(state.messages[i].call, state.messages[j].call)
OrderedInv ==
    /\ \A r \in Runs : InOrder(conv[r])
    /\ \A t \in Threads : Saved(t) => InOrder(ckpt[t])

\* A message keeps the order if it is no report, or one of a later call.
LEMMA InOrderSaid ==
    ASSUME NEW state \in Conversations, NEW m \in Messages, NEW new,
           new.messages = Append(state.messages, m), InOrder(state),
           m.role = "tool" => \A i \in DOMAIN state.messages :
              state.messages[i].role = "tool" => Precedes(state.messages[i].call, m.call)
    PROVE  InOrder(new)
<1> DEFINE n == Len(state.messages) + 1
<1>1. state.messages \in Seq(Messages) /\ n \in Nat
  BY DEF Conversations
<1>2. /\ DOMAIN new.messages = DOMAIN state.messages \cup {n}
      /\ \A i \in DOMAIN state.messages : new.messages[i] = state.messages[i] /\ i \in Nat /\ i < n
      /\ new.messages[n] = m
  BY <1>1
<1> HIDE DEF n
<1> SUFFICES ASSUME NEW i \in DOMAIN new.messages, NEW j \in DOMAIN new.messages, i < j,
                    new.messages[i].role = "tool", new.messages[j].role = "tool"
             PROVE  Precedes(new.messages[i].call, new.messages[j].call)
  BY DEF InOrder
<1>3. CASE j = n
  <2>1. i \in DOMAIN state.messages
    BY <1>1, <1>2, <1>3
  <2> QED  BY <1>2, <1>3, <2>1
<1>4. CASE j \in DOMAIN state.messages
  <2>1. i \in DOMAIN state.messages
    BY <1>1, <1>2, <1>4
  <2> QED  BY <1>2, <1>4, <2>1 DEF InOrder
<1> QED  BY <1>2, <1>3, <1>4

\* A step that adds no report keeps the order.
LEMMA OrderFrame ==
    ASSUME OrderedInv,
           \A r \in Runs : InOrder(conv'[r]),
           \A t \in Threads : ckpt'[t] \in {ckpt[t], Torn} \/ \E r \in Runs : ckpt'[t] = conv[r]
    PROVE  OrderedInv'
<1>1. ASSUME NEW t \in Threads, Saved(t)' PROVE InOrder(ckpt'[t])
  <2>1. ckpt'[t] = ckpt[t] => Saved(t)
    BY <1>1 DEF Saved
  <2> QED  BY <1>1, <2>1 DEF OrderedInv, Saved
<1> QED  BY <1>1 DEF OrderedInv, InOrder, Saved

\* The reports of a run come in the order of its calls: the rounds it took
\* before, and the calls of the round under way it has passed.
LEMMA OrderReport ==
    ASSUME TypeOK, RequestsInv, SourcesInv, RoundsInv, OrderedInv,
           NEW r \in Runs, ApproverRejects(r) \/ CallTool(r)
    PROVE  InOrder(conv'[r])
<1>1. PICK code \in Codes : ReportsOn(r, code)
  BY ReportEffect
<1> DEFINE call == CurrentCall(r)
           m == ToolMessage(call, code)
<1>2. /\ pc[r] \in {"approval", "call"} /\ m \in Messages
      /\ conv'[r].messages = Append(conv[r].messages, m)
  BY <1>1 DEF ReportsOn
<1>3. m.role = "tool" /\ m.call = call /\ call.run = r /\ call.round = conv[r].iteration
      /\ call.index = next[r]
  BY DEF ToolMessage, CurrentCall
<1>4. conv[r] \in Conversations /\ conv[r].iteration \in Nat /\ next[r] \in Nat
  BY DEF TypeOK, Conversations
<1> HIDE DEF m, call
<1>5. ASSUME NEW i \in DOMAIN conv[r].messages, conv[r].messages[i].role = "tool"
      PROVE  Precedes(conv[r].messages[i].call, call)
  <2>1. PICK d : d = conv[r].messages[i].call
    OBVIOUS
  <2>2. i \in ToolMessagesFor(d, conv[r])
    BY <1>5, <2>1 DEF ToolMessagesFor
  <2>3. PICK x \in Codes : d \in CallIds /\ conv[r].messages[i] = ToolMessage(d, x)
    BY <1>4, <2>2, ReportIn
  <2>4. InTranscript(ToolMessage(d, x), conv[r])
    BY <2>3 DEF InTranscript
  <2>5. d \in requested
    BY <2>3, <2>4 DEF SourcesInv, Sourced
  <2>6. Cardinality(ToolMessagesFor(d, conv[r])) # 0
    BY <1>4, <2>4, ReportCounts
  <2>7. ~Unreported(r, d)
    BY <1>2, <2>5, <2>6 DEF RoundsInv, Reported, Active, Ended
  <2>8. d.round \in Nat /\ d.index \in Nat
    BY <2>3 DEF CallIds
  <2>9. d.run = r => d.round <= conv[r].iteration
    BY <2>5 DEF RequestsInv
  <2>10. d.run = r /\ d.round = conv[r].iteration => d.index < next[r]
    BY <1>2, <1>4, <2>7, <2>8 DEF Unreported, Handling
  <2>11. Precedes(d, call)
    BY <1>3, <1>4, <2>8, <2>9, <2>10 DEF Precedes
  <2> QED  BY <2>1, <2>11
<1>6. PICK new : new = conv'[r]
  OBVIOUS
<1>7. InOrder(new)
  BY <1>2, <1>3, <1>4, <1>5, <1>6, InOrderSaid DEF OrderedInv
<1> QED  BY <1>6, <1>7

\* Inputs and turns are no reports.
LEMMA OrderSpoken ==
    ASSUME NEW state \in Conversations, InOrder(state), NEW m \in Messages, m.role # "tool",
           NEW new, new.messages = Append(state.messages, m)
    PROVE  InOrder(new)
  BY InOrderSaid

\* Every step keeps the order.
LEMMA OrderStep ==
    ASSUME TypeOK, RequestsInv, SourcesInv, RoundsInv, OrderedInv, [Next]_vars
    PROVE  OrderedInv'
<1>1. ASSUME conv' = conv, \A t \in Threads : ckpt'[t] \in {ckpt[t], Torn} \/ \E r \in Runs : ckpt'[t] = conv[r]
      PROVE  OrderedInv'
  BY <1>1, OrderFrame DEF OrderedInv
<1>2. CASE UNCHANGED vars
  BY <1>1, <1>2, IdleEffect
<1>3. CASE Crash
  BY <1>1, <1>3, CrashEffect
<1>4. ASSUME NEW r \in Runs, NEW t \in Threads, LoadFails(r, t) PROVE OrderedInv'
  BY <1>1, <1>4, LoadFailsEffect
<1>5. ASSUME NEW r \in Runs, NEW t \in Threads, Load(r, t) PROVE OrderedInv'
  <2>1. /\ ckpt' = ckpt /\ \A s \in Runs \ {r} : conv'[s] = conv[s]
        /\ ckpt[t] \in Conversations \cup {None} /\ conv'[r] = Resume(ckpt[t], r)
    BY <1>5, LoadEffect DEF Untouched
  <2> DEFINE base == IF ckpt[t] = None THEN FreshConversation ELSE ckpt[t]
  <2>2. FreshConversation \in Conversations /\ FreshConversation.messages = <<SystemMessage>>
    BY DEF FreshConversation, Conversations, Messages, SystemMessage
  <2>3. UserMessage(r) \in Messages /\ UserMessage(r).role # "tool"
    BY DEF UserMessage, Messages
  <2>4. base \in Conversations
    BY <2>1, <2>2
  <2>5. conv'[r].messages = Append(base.messages, UserMessage(r))
    BY <2>1, <2>3, <2>4, SayType DEF Resume
  <2>6. InOrder(base)
    <3>1. CASE ckpt[t] = None
      <4>1. \A i, j \in DOMAIN <<SystemMessage>> : ~(i < j)
        OBVIOUS
      <4> QED  BY <2>2, <3>1, <4>1 DEF InOrder
    <3>2. CASE ckpt[t] # None
      BY <2>1, <3>2, MarkersAssumption DEF OrderedInv, Saved
    <3> QED  BY <3>1, <3>2
  <2> HIDE DEF base
  <2>7. PICK new : new = conv'[r]
    OBVIOUS
  <2>8. InOrder(new)
    BY <2>3, <2>4, <2>5, <2>6, <2>7, OrderSpoken
  <2> QED  BY <2>1, <2>7, <2>8, OrderFrame DEF OrderedInv
<1>6. ASSUME NEW r \in Runs, Step(r) PROVE OrderedInv'
  <2>1. \A s \in Runs \ {r} : conv'[s] = conv[s]
    BY <1>6, OthersStay DEF Untouched
  <2>2. CASE Silent(r)
    BY <1>1, <2>2, SilentEffect
  <2>3. CASE ModelFails(r)
    <3>1. conv'[r].messages = conv[r].messages /\ ckpt' = ckpt
      BY <2>3, FailureEffect
    <3>2. InOrder(conv'[r])
      BY <3>1 DEF OrderedInv, InOrder
    <3> QED  BY <2>1, <3>1, <3>2, OrderFrame DEF OrderedInv
  <2>4. CASE ModelAnswers(r) \/ ModelCallsTools(r)
    <3>1. PICK m : m = AssistantMessage(r, conv'[r].iteration)
      OBVIOUS
    <3>2. /\ m \in Messages /\ conv'[r].messages = Append(conv[r].messages, m) /\ ckpt' = ckpt
          /\ conv[r] \in Conversations
      BY <2>4, <3>1, AnswerEffect, AskEffect DEF TypeOK
    <3>3. m.role # "tool"
      BY <3>1 DEF AssistantMessage
    <3>4. PICK new : new = conv'[r]
      OBVIOUS
    <3>5. InOrder(new)
      BY <3>2, <3>3, <3>4, OrderSpoken DEF OrderedInv
    <3> QED  BY <2>1, <3>2, <3>4, <3>5, OrderFrame DEF OrderedInv
  <2>5. CASE ApproverRejects(r) \/ CallTool(r)
    <3>1. ckpt' = ckpt
      BY <2>5, ReportEffect DEF ReportsOn
    <3> QED  BY <2>1, <2>5, <3>1, OrderReport, OrderFrame DEF OrderedInv
  <2>6. CASE SaveRound(r) \/ SaveAnswer(r)
    BY <1>1, <2>6, SaveEffect
  <2> QED  BY <1>6, <2>2, <2>3, <2>4, <2>5, <2>6, StepKinds DEF Speaking
<1> QED  BY <1>2, <1>3, <1>4, <1>5, <1>6 DEF Next, Begin, Finished

LEMMA OrderKept == Spec => []OrderedInv
<1>1. Init => OrderedInv
  <2>1. ASSUME Init, NEW r \in Runs PROVE InOrder(conv[r])
    <3>1. conv[r].messages = <<SystemMessage>>
      BY <2>1 DEF Init, FreshConversation
    <3>2. \A i, j \in DOMAIN <<SystemMessage>> : ~(i < j)
      OBVIOUS
    <3> QED  BY <3>1, <3>2 DEF InOrder
  <2> QED  BY <2>1 DEF Init, OrderedInv, Saved
<1>2. TypeOK /\ RequestsInv /\ SourcesInv /\ RoundsInv /\ OrderedInv /\ [Next]_vars => OrderedInv'
  BY OrderStep
<1> QED  BY <1>1, <1>2, TypeCorrect, RequestsHold, SourcesHold, RoundsKept, PTL DEF Spec

\* The blocks of all messages.
AllBlocks == {Block(m) : m \in Messages}

\* The block of a message tells its report; only a serialization error has no id.
LEMMA BlockOf ==
    ASSUME NEW m \in Messages
    PROVE  /\ Block(m) \in AllBlocks
           /\ Block(m) \in ResultBlocks <=> m.role = "tool" /\ m.code # "serialization_error"
           /\ Block(m) \in AnonymousBlocks <=> m.role = "tool" /\ m.code = "serialization_error"
           /\ Block(m) \in ResultBlocks => Block(m).id = m.call /\ (Block(m).ok <=> m.code = "ok")
<1>1. Block(m) \in AllBlocks
  BY DEF AllBlocks
<1>2. CASE m.role # "tool"
  <2>1. Block(m).type = "text"
    BY <1>2 DEF Block, Text
  <2>2. \A b \in ResultBlocks \cup AnonymousBlocks : b.type # "text"
    BY DEF ResultBlocks, AnonymousBlocks
  <2> QED  BY <1>1, <1>2, <2>1, <2>2
<1>3. CASE m.role = "tool"
  <2>1. m.call \in CallIds /\ m.call # None
    BY <1>3, MarkersAssumption DEF Messages, SystemMessage
  <2>2. /\ \A b \in ResultBlocks : b.type = "tool_result"
        /\ \A b \in AnonymousBlocks : b.type = "anonymous"
    BY DEF ResultBlocks, AnonymousBlocks
  <2>3. CASE m.code = "serialization_error"
    <3>1. Block(m) = [type |-> "anonymous", ok |-> FALSE]
      BY <1>3, <2>3 DEF Block, ToolBlock, ToolPayload
    <3>2. [type |-> "anonymous", ok |-> FALSE] \in AnonymousBlocks
      BY DEF AnonymousBlocks
    <3>3. Block(m).type = "anonymous"
      BY <3>1
    <3>4. Block(m) \notin ResultBlocks
      BY <2>2, <3>3
    <3> QED  BY <1>1, <1>3, <2>3, <3>1, <3>2, <3>4
  <2>4. CASE m.code # "serialization_error"
    <3>1. Block(m) = [type |-> "tool_result", id |-> m.call, ok |-> m.code = "ok"]
      BY <1>3, <2>1, <2>4 DEF Block, ToolBlock, ToolPayload
    <3>2. [type |-> "tool_result", id |-> m.call, ok |-> m.code = "ok"] \in ResultBlocks
      BY <2>1 DEF ResultBlocks
    <3>3. Block(m).type = "tool_result" /\ Block(m).id = m.call /\ Block(m).ok = (m.code = "ok")
      BY <3>1
    <3>4. Block(m) \notin AnonymousBlocks
      BY <2>2, <3>3
    <3> QED  BY <1>1, <1>3, <2>4, <3>1, <3>2, <3>3, <3>4
  <2> QED  BY <2>3, <2>4
<1> QED  BY <1>2, <1>3

\* A request has a block for every message.
LEMMA BlocksOf ==
    ASSUME NEW msgs \in Seq(Messages)
    PROVE  /\ Blocks(msgs) \in Seq(AllBlocks) /\ DOMAIN Blocks(msgs) = DOMAIN msgs
           /\ \A i \in DOMAIN msgs : Blocks(msgs)[i] = Block(msgs[i])
  BY BlockOf DEF Blocks

\* A longer conversation has the block of its last message more.
LEMMA BlocksAppend ==
    ASSUME NEW msgs \in Seq(Messages), NEW m \in Messages
    PROVE  Blocks(Append(msgs, m)) = Append(Blocks(msgs), Block(m))
<1>1. Append(msgs, m) \in Seq(Messages)
  OBVIOUS
<1>2. PICK new \in Seq(Messages) : new = Append(msgs, m)
  BY <1>1
<1>3. PICK b \in Seq(AllBlocks) : b = Blocks(msgs)
  BY BlocksOf
<1>4. PICK c \in Seq(AllBlocks) : c = Blocks(new)
  BY BlocksOf
<1>5. Len(new) = Len(msgs) + 1 /\ Len(msgs) \in Nat /\ new[Len(msgs) + 1] = m
      /\ \A i \in 1..Len(msgs) : new[i] = msgs[i]
  BY <1>2
<1>6. Len(b) = Len(msgs) /\ Len(c) = Len(msgs) + 1
  <2>1. DOMAIN b = 1..Len(msgs) /\ DOMAIN c = 1..Len(new)
    BY <1>3, <1>4, BlocksOf
  <2>2. Len(b) \in Nat /\ Len(c) \in Nat /\ DOMAIN b = 1..Len(b) /\ DOMAIN c = 1..Len(c)
    BY <1>3, <1>4
  <2> QED  BY <1>5, <2>1, <2>2
<1>7. PICK d : d = Append(b, Block(m))
  OBVIOUS
<1>8. Len(d) = Len(c) /\ d \in Seq(AllBlocks)
  BY <1>6, <1>7, BlockOf
<1>9. ASSUME NEW i \in 1..Len(c) PROVE c[i] = d[i]
  <2>1. c[i] = Block(new[i])
    BY <1>4, <1>5, <1>6, BlocksOf
  <2>2. CASE i = Len(msgs) + 1
    BY <1>3, <1>5, <1>6, <1>7, <2>1, <2>2
  <2>3. CASE i \in 1..Len(msgs)
    <3>1. b[i] = Block(msgs[i])
      BY <1>3, <2>3, BlocksOf
    <3> QED  BY <1>3, <1>5, <1>6, <1>7, <2>1, <2>3, <3>1
  <2> QED  BY <1>5, <1>6, <2>2, <2>3
<1>10. c = d
  BY <1>4, <1>8, <1>9
<1> QED  BY <1>2, <1>3, <1>4, <1>7, <1>10

\* Taking messages out that tell nothing of the kind does not change what is told.
LEMMA BlocksOfChosen ==
    ASSUME NEW T, NEW S, \A m \in Messages \ S : Block(m) \notin T, NEW msgs \in Seq(Messages)
    PROVE  Selected(Blocks(Selected(msgs, S)), T) = Selected(Blocks(msgs), T)
<1> DEFINE P == {s \in Seq(Messages) : Selected(Blocks(Selected(s, S)), T) = Selected(Blocks(s), T)}
<1>1. <<>> \in P
  <2>1. <<>> \in Seq(Messages)
    OBVIOUS
  <2> QED  BY <2>1, SelectedNone
<1>2. ASSUME NEW s \in Seq(Messages), NEW m \in Messages, s \in P PROVE Append(s, m) \in P
  <2>1. Append(s, m) \in Seq(Messages)
    OBVIOUS
  <2>2. PICK u \in Seq(Messages) : u = Selected(s, S)
    BY SelectedType
  <2>3. Selected(Append(s, m), S) = IF m \in S THEN Append(u, m) ELSE u
    BY <2>2, SelectedAppend
  <2>4. PICK b \in Seq(AllBlocks) : b = Blocks(s)
    BY BlocksOf
  <2>5. PICK c \in Seq(AllBlocks) : c = Blocks(u)
    BY BlocksOf
  <2>6. Blocks(Append(s, m)) = Append(b, Block(m)) /\ Blocks(Append(u, m)) = Append(c, Block(m))
    BY <2>4, <2>5, BlocksAppend
  <2>7. /\ Selected(Append(b, Block(m)), T) = IF Block(m) \in T THEN Append(Selected(b, T), Block(m)) ELSE Selected(b, T)
        /\ Selected(Append(c, Block(m)), T) = IF Block(m) \in T THEN Append(Selected(c, T), Block(m)) ELSE Selected(c, T)
    BY SelectedAppend, BlockOf
  <2>8. Selected(c, T) = Selected(b, T)
    BY <1>2, <2>2, <2>4, <2>5
  <2>9. CASE m \in S
    BY <2>1, <2>3, <2>6, <2>7, <2>8, <2>9
  <2>10. CASE m \notin S
    BY <2>1, <2>3, <2>5, <2>6, <2>7, <2>8, <2>10
  <2> QED  BY <2>9, <2>10
<1> HIDE DEF P
<1>3. msgs \in P
  BY <1>1, <1>2, ListInduction
<1> QED  BY <1>3 DEF P

\* Every adapter tells the same reports.
LEMMA SameTold ==
    ASSUME NEW msgs \in Seq(Messages), NEW request \in Requests(msgs),
           NEW T \in {ResultBlocks, AnonymousBlocks}
    PROVE  Selected(request, T) = Selected(Blocks(msgs), T)
<1>1. \A m \in {SystemMessage} : m \in Messages /\ Block(m) \notin T
  <2>1. SystemMessage \in Messages /\ SystemMessage.role # "tool"
    BY DEF Messages, SystemMessage
  <2> QED  BY <2>1, BlockOf
<1> DEFINE others == Messages \ {SystemMessage}
<1>2. PICK a : a = Selected(msgs, {SystemMessage}) /\ a \in Seq(Messages)
               /\ a \in Seq(Messages \cap {SystemMessage})
  BY SelectedType
<1>3. PICK b \in Seq(Messages) : b = Selected(msgs, others)
  BY SelectedType
<1>4. PICK x \in Seq(AllBlocks), y \in Seq(AllBlocks) : x = Blocks(a) /\ y = Blocks(b)
  BY <1>2, <1>3, BlocksOf
<1>5. Selected(x, T) = <<>>
  <2>1. \A i \in DOMAIN a : a[i] = SystemMessage
    BY <1>2
  <2>2. DOMAIN x = DOMAIN a /\ \A i \in DOMAIN a : x[i] = Block(SystemMessage)
    BY <1>2, <1>4, <2>1, BlocksOf
  <2>3. x \in Seq({Block(SystemMessage)})
    BY <1>4, <2>2
  <2> QED  BY <1>1, <2>3, SelectedNothing
<1>6. Selected(y, T) = Selected(Blocks(msgs), T)
  <2>1. \A m \in Messages \ others : Block(m) \notin T
    BY <1>1
  <2> HIDE DEF others
  <2> QED  BY <1>3, <1>4, <2>1, BlocksOfChosen
<1>7. CASE request = OpenAIRequest(msgs)
  BY <1>7 DEF OpenAIRequest
<1>8. CASE request = AnthropicRequest(msgs)
  <2>1. request = x \o y
    BY <1>2, <1>3, <1>4, <1>8 DEF AnthropicRequest
  <2> QED  BY <1>5, <1>6, <2>1, SelectedEither
<1> QED  BY <1>7, <1>8 DEF Requests

\* A conversation with one report of each call of a set, and no other, and all
\* in order tells of each call once and in order.
LEMMA EachToldOnce ==
    ASSUME NEW state \in Conversations, NEW made, InOrder(state),
           \A i \in DOMAIN state.messages :
              state.messages[i].role = "tool" => state.messages[i].call \in made,
           \A c \in made : Cardinality(ToolMessagesFor(c, state)) = 1,
           NEW told, told = Selected(Blocks(state.messages), ResultBlocks),
           NEW untold, untold = Selected(Blocks(state.messages), AnonymousBlocks)
    PROVE  /\ \A i, j \in DOMAIN told : i < j => Precedes(told[i].id, told[j].id)
           /\ Len(told) + Len(untold) = Cardinality(made)
           /\ \A i \in DOMAIN told :
                /\ told[i].id \in made
                /\ told[i].ok => InTranscript(ToolMessage(told[i].id, "ok"), state)
           /\ \A c \in made : (\A i \in DOMAIN told : told[i].id # c) =>
                InTranscript(ToolMessage(c, "serialization_error"), state)
<1> DEFINE msgs == state.messages
           blocks == Blocks(msgs)
           reports == {i \in DOMAIN msgs : msgs[i].role = "tool"}
<1>1. /\ msgs \in Seq(Messages) /\ blocks \in Seq(AllBlocks) /\ DOMAIN blocks = DOMAIN msgs
      /\ \A i \in DOMAIN msgs : msgs[i] \in Messages /\ blocks[i] = Block(msgs[i])
  BY BlocksOf DEF Conversations
<1>2. \A i \in reports : \E code \in Codes : msgs[i] = ToolMessage(msgs[i].call, code)
  BY <1>1 DEF Messages, SystemMessage, ToolMessage
<1>3. PICK f : Placed(f, blocks, ResultBlocks)
  BY <1>1, SelectedPlaces
<1>4. /\ Places(blocks, ResultBlocks) = {i \in reports : msgs[i].code # "serialization_error"}
      /\ Places(blocks, AnonymousBlocks) = {i \in reports : msgs[i].code = "serialization_error"}
  BY <1>1, BlockOf DEF Places
<1>5. /\ \A i \in DOMAIN told : /\ f[i] \in reports /\ msgs[f[i]].code # "serialization_error"
                               /\ told[i].id = msgs[f[i]].call /\ (told[i].ok <=> msgs[f[i]].code = "ok")
      /\ \A i, j \in DOMAIN told : i < j => f[i] < f[j]
      /\ \A p \in reports : msgs[p].code # "serialization_error" =>
            \E i \in DOMAIN told : told[i].id = msgs[p].call
  <2>1. /\ \A i \in DOMAIN told : f[i] \in Places(blocks, ResultBlocks) /\ told[i] = blocks[f[i]]
        /\ \A i, j \in DOMAIN told : i < j => f[i] < f[j]
        /\ \A p \in Places(blocks, ResultBlocks) : \E i \in DOMAIN told : f[i] = p
    BY <1>3 DEF Placed
  <2>2. ASSUME NEW i \in DOMAIN told
        PROVE  /\ f[i] \in reports /\ msgs[f[i]].code # "serialization_error"
               /\ told[i].id = msgs[f[i]].call /\ (told[i].ok <=> msgs[f[i]].code = "ok")
    <3>1. f[i] \in reports /\ msgs[f[i]].code # "serialization_error"
      BY <1>4, <2>1
    <3>2. told[i] = Block(msgs[f[i]]) /\ told[i] \in ResultBlocks /\ msgs[f[i]] \in Messages
      BY <1>1, <2>1, <3>1 DEF Places
    <3> QED  BY <3>1, <3>2, BlockOf
  <2> QED  BY <1>4, <2>1, <2>2
<1> HIDE DEF blocks
<1>6. ASSUME NEW i \in DOMAIN told, NEW j \in DOMAIN told, i < j PROVE Precedes(told[i].id, told[j].id)
  BY <1>5, <1>6 DEF InOrder
<1>7. ASSUME NEW i \in DOMAIN told
      PROVE  told[i].id \in made /\ (told[i].ok => InTranscript(ToolMessage(told[i].id, "ok"), state))
  <2>1. PICK code \in Codes : msgs[f[i]] = ToolMessage(msgs[f[i]].call, code)
    BY <1>2, <1>5
  <2>2. msgs[f[i]].code = code
    BY <2>1 DEF ToolMessage
  <2> QED  BY <1>5, <2>1, <2>2 DEF InTranscript
<1>8. ASSUME NEW c \in made, \A i \in DOMAIN told : told[i].id # c
      PROVE  InTranscript(ToolMessage(c, "serialization_error"), state)
  <2>1. ToolMessagesFor(c, state) # {}
    BY <1>8, FS_EmptySet
  <2>2. PICK p \in reports : msgs[p].call = c
    BY <2>1 DEF ToolMessagesFor
  <2>3. PICK code \in Codes : msgs[p] = ToolMessage(c, code)
    BY <1>2, <2>2
  <2>4. code = "serialization_error"
    BY <1>5, <1>8, <2>2, <2>3 DEF ToolMessage
  <2> QED  BY <2>3, <2>4 DEF InTranscript
<1>9. Len(told) + Len(untold) = Cardinality(made)
  <2>1. PICK P, Q : P = Places(blocks, ResultBlocks) /\ Q = Places(blocks, AnonymousBlocks)
    OBVIOUS
  <2>2. /\ IsFiniteSet(P) /\ Len(told) = Cardinality(P)
        /\ IsFiniteSet(Q) /\ Len(untold) = Cardinality(Q)
    BY <1>1, <2>1, SelectedLen DEF blocks
  <2>3. P \cup Q = reports /\ P \cap Q = {}
    BY <1>4, <2>1 DEF blocks
  <2>4. /\ IsFiniteSet(reports)
        /\ Cardinality(reports) = Cardinality(P) + Cardinality(Q) - Cardinality(P \cap Q)
    BY <2>2, <2>3, FS_Union
  <2>5. Cardinality(P) \in Nat /\ Cardinality(Q) \in Nat /\ Cardinality(P \cap Q) = 0
    BY <2>2, <2>3, FS_CardinalityType, FS_EmptySet
  <2> DEFINE g == [i \in reports |-> msgs[i].call]
  <2>6. g \in [reports -> made]
    OBVIOUS
  <2>7. ASSUME NEW i \in reports, NEW j \in reports, g[i] = g[j] PROVE i = j
    <3>1. PICK c \in made : c = msgs[i].call /\ c = msgs[j].call
      BY <2>7
    <3>2. i \in ToolMessagesFor(c, state) /\ j \in ToolMessagesFor(c, state)
      BY <3>1 DEF ToolMessagesFor
    <3>3. IsFiniteSet(ToolMessagesFor(c, state))
      BY ReportIn
    <3>4. PICK x : ToolMessagesFor(c, state) = {x}
      BY <3>3, FS_Singleton
    <3> QED  BY <3>2, <3>4
  <2>8. ASSUME NEW c \in made PROVE \E i \in reports : g[i] = c
    <3>1. ToolMessagesFor(c, state) # {}
      BY FS_EmptySet
    <3> QED  BY <3>1 DEF ToolMessagesFor
  <2> HIDE DEF g, reports
  <2>9. g \in Bijection(reports, made)
    <3>1. DOMAIN g = reports
      BY DEF g
    <3> QED  BY <2>6, <2>7, <2>8, <3>1 DEF Bijection, Injection, Surjection, IsInjective
  <2>10. Cardinality(made) = Cardinality(reports)
    BY <2>4, <2>9, FS_Bijection DEF ExistsBijection
  <2> QED  BY <2>2, <2>4, <2>5, <2>10
<1> QED  BY <1>6, <1>7, <1>8, <1>9

\* Whatever adapter it uses, a model about to be called is told of every call
\* of a registered tool made in the conversation, once and in order, under the
\* id of the call; it is told "ok" only of calls that were carried out and, if
\* gated, approved; and it is told without an id only of calls that were
\* carried out (anthropic.go:83-112, 175-209; openai.go:34-40; graph.go:426-432).
THEOREM ModelsHearTheTruth == Spec => []ModelHearsTheTruth
<1>1. ASSUME TypeOK, SourcesInv, RoundsInv, ReportsInv, GatedCallsApproved, OrderedInv
      PROVE  ModelHearsTheTruth
  <2> SUFFICES ASSUME NEW r \in Runs, pc[r] = "loop", NEW request \in Requests(conv[r].messages)
               PROVE  LET told == Selected(request, ResultBlocks)
                          ids == {told[i].id : i \in DOMAIN told}
                          made == {c \in requested :
                             c.tool \in Tools /\ InTranscript(AssistantMessage(c.run, c.round), conv[r])}
                      IN  /\ \A i, j \in DOMAIN told : i < j => Precedes(told[i].id, told[j].id)
                          /\ ids \subseteq made
                          /\ Len(told) + Len(Selected(request, AnonymousBlocks)) = Cardinality(made)
                          /\ \A i \in DOMAIN told : told[i].ok =>
                                /\ told[i].id \in executed
                                /\ told[i].id.tool \in Gated => told[i].id \in approved
                          /\ made \ ids \subseteq executed
    BY DEF ModelHearsTheTruth
  <2>1. PICK told, untold, made :
          /\ told = Selected(request, ResultBlocks) /\ untold = Selected(request, AnonymousBlocks)
          /\ made = {c \in requested :
                c.tool \in Tools /\ InTranscript(AssistantMessage(c.run, c.round), conv[r])}
    OBVIOUS
  <2> DEFINE ids == {told[i].id : i \in DOMAIN told}
  <2>2. conv[r] \in Conversations /\ conv[r].messages \in Seq(Messages) /\ requested \subseteq CallIds
    BY <1>1 DEF TypeOK, Conversations
  <2>3. ASSUME NEW i \in DOMAIN conv[r].messages, conv[r].messages[i].role = "tool"
        PROVE  conv[r].messages[i].call \in made
    <3>1. PICK c : c = conv[r].messages[i].call
      OBVIOUS
    <3>2. i \in ToolMessagesFor(c, conv[r])
      BY <2>3, <3>1 DEF ToolMessagesFor
    <3>3. PICK code \in Codes : c \in CallIds /\ conv[r].messages[i] = ToolMessage(c, code)
      BY <2>2, <3>2, ReportIn
    <3>4. InTranscript(ToolMessage(c, code), conv[r])
      BY <3>3 DEF InTranscript
    <3>5. c \in requested /\ InTranscript(AssistantMessage(c.run, c.round), conv[r])
      BY <1>1, <3>3, <3>4 DEF SourcesInv, Sourced
    <3>6. Cardinality(ToolMessagesFor(c, conv[r])) # 0
      BY <2>2, <3>4, ReportCounts
    <3>7. c.tool \in Tools
      BY <1>1, <3>5, <3>6 DEF RoundsInv, Reported, Active, Ended
    <3> QED  BY <2>1, <3>1, <3>5, <3>7
  <2>4. \A c \in made : Cardinality(ToolMessagesFor(c, conv[r])) = 1
    BY <1>1, <2>1 DEF RoundsInv, Reported, Unreported, Handling, Active, Ended
  <2>5. /\ told = Selected(Blocks(conv[r].messages), ResultBlocks)
        /\ untold = Selected(Blocks(conv[r].messages), AnonymousBlocks)
    BY <2>1, <2>2, SameTold
  <2>6. InOrder(conv[r]) /\ TellsTruth(conv[r])
    BY <1>1 DEF OrderedInv, ReportsInv
  <2>7. /\ \A i, j \in DOMAIN told : i < j => Precedes(told[i].id, told[j].id)
        /\ Len(told) + Len(untold) = Cardinality(made)
        /\ \A i \in DOMAIN told :
              /\ told[i].id \in made
              /\ told[i].ok => InTranscript(ToolMessage(told[i].id, "ok"), conv[r])
        /\ \A c \in made : (\A i \in DOMAIN told : told[i].id # c) =>
              InTranscript(ToolMessage(c, "serialization_error"), conv[r])
    <3>1. PICK state \in Conversations : state = conv[r]
      BY <2>2
    <3>2. /\ \A i \in DOMAIN state.messages :
                state.messages[i].role = "tool" => state.messages[i].call \in made
          /\ \A c \in made : Cardinality(ToolMessagesFor(c, state)) = 1
          /\ InOrder(state)
      BY ONLY <2>3, <2>4, <2>6, <3>1
    <3>3. /\ told = Selected(Blocks(state.messages), ResultBlocks)
          /\ untold = Selected(Blocks(state.messages), AnonymousBlocks)
      BY ONLY <2>5, <3>1
    <3>4. /\ \A i, j \in DOMAIN told : i < j => Precedes(told[i].id, told[j].id)
          /\ Len(told) + Len(untold) = Cardinality(made)
          /\ \A i \in DOMAIN told :
                /\ told[i].id \in made
                /\ told[i].ok => InTranscript(ToolMessage(told[i].id, "ok"), state)
          /\ \A c \in made : (\A i \in DOMAIN told : told[i].id # c) =>
                InTranscript(ToolMessage(c, "serialization_error"), state)
      BY ONLY <3>2, <3>3, EachToldOnce, state \in Conversations
    <3> QED  BY ONLY <3>1, <3>4
  <2>8. made \subseteq CallIds /\ {"ok", "serialization_error"} \subseteq Codes
    BY <2>1, <2>2 DEF Codes
  <2>9. ASSUME NEW i \in DOMAIN told, told[i].ok
        PROVE  /\ told[i].id \in executed
               /\ told[i].id.tool \in Gated => told[i].id \in approved
    <3>1. told[i].id \in executed
      BY <2>6, <2>7, <2>8, <2>9 DEF TellsTruth
    <3> QED  BY <1>1, <3>1 DEF GatedCallsApproved
  <2>10. ASSUME NEW c \in made \ ids PROVE c \in executed
    <3>1. InTranscript(ToolMessage(c, "serialization_error"), conv[r])
      BY <2>7
    <3> QED  BY <2>6, <2>8, <3>1 DEF TellsTruth
  <2>11. ids \subseteq made
    BY <2>7
  <2> HIDE DEF ids
  <2>12. /\ \A i, j \in DOMAIN told : i < j => Precedes(told[i].id, told[j].id)
         /\ ids \subseteq made
         /\ Len(told) + Len(untold) = Cardinality(made)
         /\ \A i \in DOMAIN told : told[i].ok =>
               /\ told[i].id \in executed
               /\ told[i].id.tool \in Gated => told[i].id \in approved
         /\ made \ ids \subseteq executed
    BY <2>7, <2>9, <2>10, <2>11
  <2> QED  BY ONLY <2>1, <2>12 DEF ids
<1> QED  BY <1>1, TypeCorrect, SourcesHold, RoundsKept, ReportsKept, GateHolds, OrderKept, PTL
=============================================================================
