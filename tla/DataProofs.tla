----------------------------- MODULE DataProofs -----------------------------
(***************************************************************************)
(* For every set of entries and contents: what other writers put into the  *)
(* store survives a transaction, a transaction ends with all of its change *)
(* or none of it, and its rollback reports honestly (SourceStore).         *)
(*                                                                         *)
(* OthersKept is preserved by the compare-and-replace of a single entry.   *)
(* AllOrNothing speaks of the end of a transaction only; StoreInv adds     *)
(* what holds of an entry on the way there: not come to yet, installed, or *)
(* taken back.                                                             *)
(*                                                                         *)
(* For all rules, sources and policy groups: the routing page, the store   *)
(* and the kernel agree once the tasks are done, and a rule draft keeps    *)
(* its place (Routing).  RoutingInv compares what the page would show if   *)
(* its task failed (Base) with what the store would hold if the            *)
(* transaction were taken back (Undone): the rules and sources are equal,  *)
(* the orders only alike, that is, normalized to the same one.  That they  *)
(* stay alike when a source comes or goes is a fact about normalizing:     *)
(* fewer sources leave a part of the order, a new one comes at its end.    *)
(* That activity attributes connections as the profile was compiled is     *)
(* Mirrors, of the profile of the first groups of an order.                *)
(*                                                                         *)
(* For every size of the mailbox and of the page, and any number of frames *)
(* and sessions: what the kernel writes is shown once and in its order     *)
(* (LiveStream).  StreamInv bounds what is on its way by what has been     *)
(* written and says that without a session there is nothing; each step     *)
(* either lengthens the flow or takes a part out of it (PartIsLost).       *)
(*                                                                         *)
(* For all lists, groups and numbers of edits: a group of the phone's      *)
(* workspace is compiled with the sources it was saved with                *)
(* (PhoneProfile).  PhoneInv says which positions a group holds at every   *)
(* moment; an edit of a list and what it does to the positions go together *)
(* (Follows), and compiling keeps what the positions stand for.            *)
(*                                                                         *)
(* What is proved of Filter, by induction over the sequence, comes first.  *)
(* The induction is over the set of the sequences for which a claim holds. *)
(***************************************************************************)
EXTENDS SourceStore, Routing, LiveStream, PhoneProfile, SequenceTheorems, WellFoundedInduction, TLAPS

(* Filtering                                                               *)

\* A set of numbers has a least one.
LEMMA Least == ASSUME NEW T, T \subseteq Nat, T # {} PROVE \E m \in T : \A k \in T : m <= k
<1>1. IsWellFoundedOn(OpToRel(<, Nat), Nat)
  BY NatLessThanWellFounded
<1>2. PICK m \in T : \A k \in T : ~(<<k, m>> \in OpToRel(<, Nat))
  BY <1>1, WFMin
<1>3. \A k \in T : ~(k < m)
  BY <1>2 DEF OpToRel
<1> QED BY <1>3

\* Induction, over the set of the numbers for which something holds.
LEMMA SetInd == ASSUME NEW T, 0 \in T, \A n \in Nat : n \in T => n + 1 \in T PROVE Nat \subseteq T
<1> DEFINE U == Nat \ T
<1>1. SUFFICES ASSUME U # {} PROVE FALSE
  OBVIOUS
<1>2. PICK m \in U : \A k \in U : m <= k
  BY <1>1, Least
<1>3. m # 0 /\ m - 1 \in Nat
  BY <1>2
<1>4. m - 1 \in T
  BY <1>2, <1>3
<1> QED BY <1>4, <1>3, <1>2

\* f is that function, as far as n.
IsKept(f, s, S, n) ==
  f = [i \in 0..n |-> IF i = 0 THEN <<>>
                      ELSE IF s[i] \in S THEN Append(f[i - 1], s[i]) ELSE f[i - 1]]

\* The function that Filter computes exists.
LEMMA KeptExists ==
  ASSUME NEW s, NEW S, NEW n \in Nat
  PROVE  \E f : IsKept(f, s, S, n)
<1> DEFINE T == {k \in Nat : \E f : IsKept(f, s, S, k)}
<1>1. 0 \in T
  <2>1. IsKept([i \in 0..0 |-> <<>>], s, S, 0)
    BY DEF IsKept
  <2> QED BY <2>1
<1>2. ASSUME NEW k \in Nat, k \in T PROVE k + 1 \in T
  <2>1. PICK f : IsKept(f, s, S, k)
    BY <1>2
  <2> DEFINE x == IF s[k + 1] \in S THEN Append(f[k], s[k + 1]) ELSE f[k]
             g == [i \in 0..(k + 1) |-> IF i = k + 1 THEN x ELSE f[i]]
  <2>2. ASSUME NEW i \in 0..(k + 1)
        PROVE  g[i] = IF i = 0 THEN <<>>
                      ELSE IF s[i] \in S THEN Append(g[i - 1], s[i]) ELSE g[i - 1]
    <3>1. CASE i = k + 1 
      <4>1. g[i] = x /\ g[i - 1] = f[k]
        BY <3>1
      <4> QED BY <4>1, <3>1
    <3>2. CASE i # k + 1
      <4>1. g[i] = f[i] /\ (i # 0 => g[i - 1] = f[i - 1]) /\ i \in 0..k
        BY <3>2
      <4>2. f[i] = IF i = 0 THEN <<>>
                      ELSE IF s[i] \in S THEN Append(f[i - 1], s[i]) ELSE f[i - 1]
        BY <2>1, <4>1 DEF IsKept
      <4> QED BY <4>1, <4>2
    <3> QED BY <3>1, <3>2
  <2>3. IsKept(g, s, S, k + 1) 
     <3> HIDE DEF x
     <3> QED BY <2>2 DEF IsKept
  <2> HIDE DEF g
  <2> QED BY <2>3
<1>3. Nat \subseteq T 
   <2> HIDE DEF T
   <2> QED BY <1>1, <1>2, SetInd
<1> QED BY <1>3

\* Filter is its last value.
LEMMA FilterUnfolds ==
  ASSUME NEW s, NEW S, Len(s) \in Nat
  PROVE  \E f : Filter(s, S) = f[Len(s)] /\ IsKept(f, s, S, Len(s))
<1> DEFINE K == CHOOSE f : IsKept(f, s, S, Len(s))
<1>1. IsKept(K, s, S, Len(s))
  BY KeptExists
<1>2. Filter(s, S) = K[Len(s)]
  BY DEF Filter, IsKept
<1> QED BY <1>1, <1>2

\* It does not look beyond the place it has come to.
LEMMA KeptAgree ==
  ASSUME NEW s, NEW t, NEW S, NEW f, NEW g, NEW m \in Nat,
         IsKept(f, s, S, m), IsKept(g, t, S, m + 1), \A i \in 1..m : s[i] = t[i]
  PROVE  f[m] = g[m]
<1> DEFINE T == {k \in Nat : k <= m => f[k] = g[k]}
<1>1. 0 \in T
  BY DEF IsKept
<1>2. ASSUME NEW k \in Nat, k \in T PROVE k + 1 \in T
  <2>1. SUFFICES ASSUME k + 1 <= m PROVE f[k + 1] = g[k + 1]
    OBVIOUS
  <2>2. k + 1 \in 0..m /\ k + 1 \in 0..(m + 1) /\ k + 1 # 0 /\ (k + 1) - 1 = k /\ s[k + 1] = t[k + 1]
    BY <2>1
  <2>3. f[k + 1] = IF s[k + 1] \in S THEN Append(f[k], s[k + 1]) ELSE f[k]
    BY <2>2 DEF IsKept
  <2>4. g[k + 1] = IF t[k + 1] \in S THEN Append(g[k], t[k + 1]) ELSE g[k]
    BY <2>2 DEF IsKept
  <2>5. f[k] = g[k]
    BY <1>2, <2>1
  <2> QED BY <2>2, <2>3, <2>4, <2>5
<1>3. Nat \subseteq T
  <2> HIDE DEF T
  <2> QED BY <1>1, <1>2, SetInd
<1> QED BY <1>3

\* Nothing is kept of nothing.
LEMMA FilterEmpty == ASSUME NEW S PROVE Filter(<<>>, S) = <<>>
<1>1. PICK f : Filter(<<>>, S) = f[0] /\ IsKept(f, <<>>, S, 0)
  BY FilterUnfolds, Len(<<>>) = 0
<1> QED BY <1>1 DEF IsKept

\* One more element is kept, or it is not.
LEMMA FilterLonger ==
  ASSUME NEW s, NEW t, NEW S, NEW n \in Nat, Len(s) = n, Len(t) = n + 1,
         \A i \in 1..n : s[i] = t[i]
  PROVE  Filter(t, S) = IF t[n + 1] \in S THEN Append(Filter(s, S), t[n + 1]) ELSE Filter(s, S)
<1>1. PICK f : Filter(s, S) = f[n] /\ IsKept(f, s, S, n)
  BY FilterUnfolds
<1>2. PICK g : Filter(t, S) = g[n + 1] /\ IsKept(g, t, S, n + 1)
  BY FilterUnfolds
<1>3. f[n] = g[n]
  BY <1>1, <1>2, KeptAgree
<1>4. n + 1 \in 0..(n + 1) /\ n + 1 # 0 /\ (n + 1) - 1 = n
  OBVIOUS
<1>5. g[n + 1] = IF t[n + 1] \in S THEN Append(g[n], t[n + 1]) ELSE g[n]
  BY <1>2, <1>4 DEF IsKept
<1> QED BY <1>1, <1>2, <1>3, <1>5

\* The same, of a sequence to which the element is appended.
LEMMA FilterAppend ==
  ASSUME NEW A, NEW s \in Seq(A), NEW x \in A, NEW S
  PROVE  Filter(Append(s, x), S) = IF x \in S THEN Append(Filter(s, S), x) ELSE Filter(s, S)
<1>1. /\ Len(s) \in Nat /\ Len(Append(s, x)) = Len(s) + 1
      /\ Append(s, x)[Len(s) + 1] = x /\ \A i \in 1..Len(s) : s[i] = Append(s, x)[i]
  OBVIOUS
<1>2. Filter(Append(s, x), S) =
        IF Append(s, x)[Len(s) + 1] \in S
          THEN Append(Filter(s, S), Append(s, x)[Len(s) + 1]) ELSE Filter(s, S)
  BY <1>1, FilterLonger, Zenon
<1> QED BY <1>1, <1>2, Zenon

\* A sequence that is not empty is another one with an element appended.
LEMMA SeqSplits ==
  ASSUME NEW A, NEW s \in Seq(A), NEW n \in Nat, Len(s) = n + 1
  PROVE  \E t \in Seq(A), x \in A : s = Append(t, x) /\ Len(t) = n
<1> DEFINE t == SubSeq(s, 1, n)
<1>1. t \in Seq(A) /\ Len(t) = n /\ s[n + 1] \in A
  OBVIOUS
<1>2. s = Append(t, s[n + 1])
  OBVIOUS
<1> QED BY <1>1, <1>2

\* Induction, over the set of the sequences for which something holds.
LEMMA SeqInd ==
  ASSUME NEW A, NEW T, <<>> \in T,
         \A t \in Seq(A), x \in A : t \in T => Append(t, x) \in T
  PROVE  Seq(A) \subseteq T
<1> DEFINE N == {n \in Nat : \A s \in Seq(A) : Len(s) = n => s \in T}
<1>1. 0 \in N
  OBVIOUS
<1>2. ASSUME NEW n \in Nat, n \in N PROVE n + 1 \in N
  <2>1. SUFFICES ASSUME NEW s \in Seq(A), Len(s) = n + 1 PROVE s \in T
    OBVIOUS
  <2>2. PICK t \in Seq(A), x \in A : s = Append(t, x) /\ Len(t) = n
    BY <2>1, SeqSplits
  <2> QED BY <1>2, <2>2
<1>3. Nat \subseteq N
  <2> HIDE DEF N
  <2> QED BY <1>1, <1>2, SetInd
<1> QED BY <1>3

\* Appending adds the element to the members.
LEMMA RangeAppend ==
  ASSUME NEW A, NEW s \in Seq(A), NEW x \in A
  PROVE  Range(Append(s, x)) = Range(s) \cup {x}
<1>1. DOMAIN Append(s, x) = 1..(Len(s) + 1) /\ DOMAIN s = 1..Len(s) /\ Append(s, x)[Len(s) + 1] = x
      /\ \A i \in 1..Len(s) : Append(s, x)[i] = s[i]
  OBVIOUS
<1>2. ASSUME NEW y \in Range(s) \cup {x} PROVE y \in Range(Append(s, x))
  BY <1>1 DEF Range
<1> QED BY <1>1, <1>2 DEF Range

\* The members of a concatenation are those of its parts.
LEMMA RangeConcat ==
  ASSUME NEW A, NEW s \in Seq(A), NEW t \in Seq(A)
  PROVE  Range(s \o t) = Range(s) \cup Range(t)
<1>1. /\ DOMAIN (s \o t) = 1..(Len(s) + Len(t)) /\ DOMAIN s = 1..Len(s) /\ DOMAIN t = 1..Len(t)
      /\ \A i \in 1..Len(s) : (s \o t)[i] = s[i]
      /\ \A i \in 1..Len(t) : (s \o t)[Len(s) + i] = t[i]
  OBVIOUS
<1>2. ASSUME NEW y \in Range(s) \cup Range(t) PROVE y \in Range(s \o t)
  <2>1. CASE y \in Range(s)
    BY <2>1, <1>1 DEF Range
  <2>2. CASE y \in Range(t)
    <3>1. PICK i \in 1..Len(t) : y = t[i]
      BY <2>2, <1>1 DEF Range
    <3>2. Len(s) + i \in 1..(Len(s) + Len(t))
      OBVIOUS
    <3> QED BY <3>1, <3>2, <1>1 DEF Range
  <2> QED BY <1>2, <2>1, <2>2
<1>3. ASSUME NEW y \in Range(s \o t) PROVE y \in Range(s) \cup Range(t)
  <2>1. PICK i \in 1..(Len(s) + Len(t)) : y = (s \o t)[i]
    BY <1>1 DEF Range
  <2>2. CASE i <= Len(s)  BY <2>1, <2>2, <1>1 DEF Range
  <2>3. CASE i > Len(s)
    <3>1. i - Len(s) \in 1..Len(t) /\ Len(s) + (i - Len(s)) = i
      BY <2>3
    <3> QED BY <2>1, <3>1, <1>1 DEF Range
  <2> QED BY <2>2, <2>3
<1> QED BY <1>2, <1>3

\* The empty sequence has no members.
LEMMA RangeEmpty == Range(<<>>) = {}
<1>1. DOMAIN <<>> = {}
  OBVIOUS
<1> QED BY <1>1 DEF Range

\* Nothing else has none.
LEMMA EmptyRange ==
  ASSUME NEW A, NEW s \in Seq(A), Range(s) = {}
  PROVE  s = <<>>
<1>1. DOMAIN s = {}
  BY DEF Range
<1>2. Len(s) = 0
  BY <1>1
<1> QED BY <1>2

\* Filtering keeps a sequence of A, and what passes of its elements.
LEMMA FilterRange ==
  ASSUME NEW A, NEW s \in Seq(A), NEW S
  PROVE  Filter(s, S) \in Seq(A) /\ Range(Filter(s, S)) = Range(s) \cap S
<1> DEFINE T == {t \in Seq(A) : Filter(t, S) \in Seq(A) /\ Range(Filter(t, S)) = Range(t) \cap S}
<1>1. <<>> \in T
  <2>1. Filter(<<>>, S) = <<>> /\ <<>> \in Seq(A) /\ Range(<<>>) = {}
    BY FilterEmpty, RangeEmpty
  <2> QED BY <2>1
<1>2. ASSUME NEW t \in Seq(A), NEW x \in A, t \in T PROVE Append(t, x) \in T
  <2>1. Append(t, x) \in Seq(A) /\ Range(Append(t, x)) = Range(t) \cup {x}
    BY RangeAppend
  <2>2. CASE x \in S
    <3>1. Filter(Append(t, x), S) = Append(Filter(t, S), x)
      BY <2>2, FilterAppend
    <3>2. /\ Append(Filter(t, S), x) \in Seq(A)
          /\ Range(Append(Filter(t, S), x)) = Range(Filter(t, S)) \cup {x}
      BY <1>2, RangeAppend
    <3> QED BY <1>2, <2>1, <2>2, <3>1, <3>2
  <2>3. CASE x \notin S
    <3>1. Filter(Append(t, x), S) = Filter(t, S)
      BY <2>3, FilterAppend
    <3> QED BY <1>2, <2>1, <2>3, <3>1
  <2> QED BY <2>2, <2>3
<1>3. Seq(A) \subseteq T
  <2> HIDE DEF T
  <2> QED BY <1>1, <1>2, SeqInd
<1> QED BY <1>3

\* Only which elements of the sequence pass makes a difference.
LEMMA FilterSame ==
  ASSUME NEW A, NEW s \in Seq(A), NEW S, NEW R, Range(s) \cap S = Range(s) \cap R
  PROVE  Filter(s, S) = Filter(s, R)
<1> DEFINE T == {t \in Seq(A) : Range(t) \cap S = Range(t) \cap R => Filter(t, S) = Filter(t, R)}
<1>1. <<>> \in T
  BY FilterEmpty
<1>2. ASSUME NEW t \in Seq(A), NEW x \in A, t \in T PROVE Append(t, x) \in T
  <2>1. SUFFICES ASSUME Range(Append(t, x)) \cap S = Range(Append(t, x)) \cap R
                 PROVE  Filter(Append(t, x), S) = Filter(Append(t, x), R)
    OBVIOUS
  <2>2. Range(Append(t, x)) = Range(t) \cup {x}
    BY RangeAppend
  <2>3. Filter(t, S) = Filter(t, R) /\ (x \in S <=> x \in R)
    BY <1>2, <2>1, <2>2
  <2>4. Filter(Append(t, x), S) = IF x \in S THEN Append(Filter(t, S), x) ELSE Filter(t, S)
    BY FilterAppend
  <2>5. Filter(Append(t, x), R) = IF x \in R THEN Append(Filter(t, R), x) ELSE Filter(t, R)
    BY FilterAppend
  <2> QED BY <2>3, <2>4, <2>5
<1>3. Seq(A) \subseteq T
  <2> HIDE DEF T
  <2> QED BY <1>1, <1>2, SeqInd
<1> QED BY <1>3

\* Where everything passes, nothing changes.
LEMMA FilterAll ==
  ASSUME NEW A, NEW s \in Seq(A), NEW S, Range(s) \subseteq S
  PROVE  Filter(s, S) = s
<1> DEFINE T == {t \in Seq(A) : Filter(t, A) = t}
<1>1. <<>> \in T
  BY FilterEmpty
<1>2. ASSUME NEW t \in Seq(A), NEW x \in A, t \in T PROVE Append(t, x) \in T
  BY <1>2, FilterAppend
<1>3. Seq(A) \subseteq T
  <2> HIDE DEF T
  <2> QED BY <1>1, <1>2, SeqInd
<1>4. Range(s) \subseteq A
  BY DEF Range
<1>5. Filter(s, S) = Filter(s, A)
  BY <1>4, FilterSame
<1> QED BY <1>3, <1>5

\* Where nothing passes, nothing is left.
LEMMA FilterNone ==
  ASSUME NEW A, NEW s \in Seq(A), NEW S, Range(s) \cap S = {}
  PROVE  Filter(s, S) = <<>>
<1>1. Filter(s, S) \in Seq(A) /\ Range(Filter(s, S)) = {}
  BY FilterRange
<1> QED BY <1>1, EmptyRange

\* Filtering goes through concatenation.
LEMMA FilterConcat ==
  ASSUME NEW A, NEW s \in Seq(A), NEW t \in Seq(A), NEW S
  PROVE  Filter(s \o t, S) = Filter(s, S) \o Filter(t, S)
<1> DEFINE T == {u \in Seq(A) : Filter(s \o u, S) = Filter(s, S) \o Filter(u, S)}
<1>1. <<>> \in T
  <2>1. Filter(s, S) \in Seq(A)
    BY FilterRange
  <2> QED BY <2>1, FilterEmpty
<1>2. ASSUME NEW u \in Seq(A), NEW x \in A, u \in T PROVE Append(u, x) \in T
  <2>1. s \o u \in Seq(A) /\ s \o Append(u, x) = Append(s \o u, x)
    OBVIOUS
  <2>2. Filter(s, S) \in Seq(A) /\ Filter(u, S) \in Seq(A)
    BY FilterRange
  <2>3. Filter(s, S) \o Append(Filter(u, S), x) = Append(Filter(s, S) \o Filter(u, S), x)
    BY <2>2
  <2>4. Filter(s \o Append(u, x), S) =
          IF x \in S THEN Append(Filter(s \o u, S), x) ELSE Filter(s \o u, S)
    BY <2>1, FilterAppend
  <2>5. Filter(Append(u, x), S) = IF x \in S THEN Append(Filter(u, S), x) ELSE Filter(u, S)
    BY FilterAppend
  <2>6. Filter(s \o u, S) = Filter(s, S) \o Filter(u, S)
    BY <1>2
  <2>7. Filter(s \o Append(u, x), S) = Filter(s, S) \o Filter(Append(u, x), S)
    BY <2>3, <2>4, <2>5, <2>6
  <2> QED BY <2>7
<1>3. Seq(A) \subseteq T
  <2> HIDE DEF T
  <2> QED BY <1>1, <1>2, SeqInd
<1> QED BY <1>3

\* Two filters are one.
LEMMA FilterTwice ==
  ASSUME NEW A, NEW s \in Seq(A), NEW S, NEW R
  PROVE  Filter(Filter(s, S), R) = Filter(s, S \cap R)
<1> DEFINE T == {t \in Seq(A) : Filter(Filter(t, S), R) = Filter(t, S \cap R)}
<1>1. <<>> \in T
  BY FilterEmpty
<1>2. ASSUME NEW t \in Seq(A), NEW x \in A, t \in T PROVE Append(t, x) \in T
  <2>1. Filter(t, S) \in Seq(A)
    BY FilterRange
  <2>2. Filter(Append(Filter(t, S), x), R) =
          IF x \in R THEN Append(Filter(Filter(t, S), R), x) ELSE Filter(Filter(t, S), R)
    BY <2>1, FilterAppend
  <2>3. Filter(Append(t, x), S) = IF x \in S THEN Append(Filter(t, S), x) ELSE Filter(t, S)
    BY FilterAppend
  <2>4. Filter(Append(t, x), S \cap R) =
          IF x \in S \cap R THEN Append(Filter(t, S \cap R), x) ELSE Filter(t, S \cap R)
    BY FilterAppend
  <2>5. Filter(Filter(t, S), R) = Filter(t, S \cap R)
    BY <1>2
  <2>6. ASSUME x \in S PROVE Filter(Filter(Append(t, x), S), R) = Filter(Append(t, x), S \cap R)
    <3>1. Filter(Append(t, x), S) = Append(Filter(t, S), x)
      BY <2>3, <2>6
    <3>2. x \in S \cap R <=> x \in R
      BY <2>6
    <3> QED BY <2>2, <2>4, <2>5, <3>1, <3>2, Zenon
  <2>7. ASSUME x \notin S PROVE Filter(Filter(Append(t, x), S), R) = Filter(Append(t, x), S \cap R)
    BY <2>3, <2>4, <2>5, <2>7
  <2> QED BY <2>6, <2>7
<1>3. Seq(A) \subseteq T
  <2> HIDE DEF T
  <2> QED BY <1>1, <1>2, SeqInd
<1> QED BY <1>3

\* A function from the first numbers is a sequence.
LEMMA FunctionIsSeq ==
  ASSUME NEW n \in Nat, NEW S, NEW f \in [1..n -> S]
  PROVE  f \in Seq(S)
OBVIOUS

-----------------------------------------------------------------------------
(* The transaction on the entries of the store                             *)

\* Where the transaction stands and how far it has come agree.
StageMatchesProgress ==
  /\ stage \in {"idle", "staged"} => checked = {} /\ before = after
  /\ stage \in {"idle", "staged", "check", "refused"} => tried = {}
  /\ stage \in {"install", "installed", "committed"} =>
       undone = {} /\ ~conflict /\ checked = Changed
  /\ stage \in {"idle", "staged", "check", "refused"} =>
       undone = {} /\ ~conflict
  /\ stage \in {"installed", "committed"} => tried = Changed
  /\ stage \in {"rolledBack", "stuck"} => undone = tried
  /\ stage = "rolledBack" => ~conflict
  /\ stage = "stuck" => conflict

\* An entry nobody else has written holds the old contents or the new: the
\* old until install comes to it, the new until the rollback begins.
OwnEntries ==
  \A e \in Entry : others[e] = Nobody =>
    /\ entries[e] \in {before[e], after[e]}
    /\ e \notin tried => entries[e] = before[e]
    /\ e \in tried /\ stage \in {"install", "installed", "committed"} =>
         entries[e] = after[e]
    /\ e \notin late

\* What the rollback has been through is restored, or the conflict is noted.
TakenBack ==
  /\ ~conflict => \A e \in undone \ late : entries[e] = before[e]
  /\ conflict => failed \/ \E e \in tried : others[e] # Nobody

StoreInv ==
  /\ TypeOK
  /\ OthersKept
  /\ StageMatchesProgress
  /\ OwnEntries
  /\ TakenBack

-----------------------------------------------------------------------------
\* The initial state satisfies the inductive invariant.
LEMMA StoreInit == Init => StoreInv
  BY NobodyAssumption
     DEF Init, StoreInv, TypeOK, OthersKept, StageMatchesProgress, OwnEntries,
         TakenBack, Entries, Stage, Changed

\* Every step of the transaction and of other writers keeps it.
LEMMA StoreStep == StoreInv /\ [Next]_vars => StoreInv'
<1> SUFFICES ASSUME StoreInv, [Next]_vars
             PROVE  StoreInv'
    OBVIOUS
<1> USE NobodyAssumption
    DEF StoreInv, TypeOK, OthersKept, StageMatchesProgress, OwnEntries,
        TakenBack, Entries, Stage, Changed, Resting, Step, Replaces, progress,
        history
<1>1. CASE Capture
    BY <1>1 DEF Capture, Fresh
<1>2. CASE AppEnds
    BY <1>2 DEF AppEnds, Fresh
<1>3. CASE Mutate
    BY <1>3 DEF Mutate
<1>4. ASSUME NEW e \in Entry, CheckEntry(e)
      PROVE  StoreInv'
    BY <1>4 DEF CheckEntry
<1>5. CASE CheckEnds
    BY <1>5 DEF CheckEnds
<1>6. ASSUME NEW e \in Entry, Install(e)
      PROVE  StoreInv'
  <2> USE <1>6 DEF Install
  <2>1. TypeOK'
      BY ZenonT(40)
  <2>2. OthersKept'
      OBVIOUS
  <2>3. StageMatchesProgress'
      OBVIOUS
  <2>4. OwnEntries'
      OBVIOUS
  <2>5. TakenBack'
      OBVIOUS
  <2>6. QED
      BY <2>1, <2>2, <2>3, <2>4, <2>5
<1>7. CASE InstallEnds
    BY <1>7 DEF InstallEnds
<1>8. CASE Applied
    BY <1>8 DEF Applied
<1>9. ASSUME NEW e \in Entry, Rollback(e)
      PROVE  StoreInv'
  <2> USE <1>9 DEF Rollback
  <2>1. TypeOK'
      BY ZenonT(40)
  <2>2. OthersKept'
      OBVIOUS
  <2>3. StageMatchesProgress'
      OBVIOUS
  <2>4. OwnEntries'
      OBVIOUS
  <2>5. ASSUME ~conflict', NEW x \in undone' \ late'
        PROVE  entries'[x] = before'[x]
    <3>1. ~conflict
        BY <2>5
    <3>2. CASE x = e
      <4>1. \/ entries' = [entries EXCEPT ![e] = before[e]]
            \/ entries' = entries /\ entries[e] = before[e]
          BY <2>5, <3>1
      <4>2. QED
          BY <4>1, <3>2
    <3>3. CASE x # e
      <4>1. x \in undone \ late /\ entries'[x] = entries[x]
          BY <3>3
      <4>2. QED
          BY <3>1, <4>1
    <3>4. QED
        BY <3>2, <3>3
  <2>6. conflict' => failed' \/ \E x \in tried' : others'[x] # Nobody
    <3>1. CASE conflict' = conflict
      <4>1. tried' = tried /\ others' = others
          OBVIOUS
      <4>2. failed => failed'
          OBVIOUS
      <4>3. conflict => failed \/ \E x \in tried : others[x] # Nobody
          OBVIOUS
      <4>4. QED
          BY <3>1, <4>1, <4>2, <4>3
    <3>2. CASE failed'
        BY <3>2
    <3>3. CASE entries[e] \notin {before[e], after[e]}
      <4>1. others[e] # Nobody
          BY <3>3
      <4>2. QED
          BY <4>1
    <3>4. QED
        BY <3>1, <3>2, <3>3
  <2>7. QED
      BY <2>1, <2>2, <2>3, <2>4, <2>5, <2>6
<1>10. CASE RollbackEnds
    BY <1>10 DEF RollbackEnds
<1>11. ASSUME NEW e \in Entry, NEW c \in Content, OtherWrites(e, c)
       PROVE  StoreInv'
    BY <1>11 DEF OtherWrites
<1>12. CASE UNCHANGED vars
    BY <1>12 DEF vars
<1>13. QED
    BY <1>1, <1>2, <1>3, <1>4, <1>5, <1>6, <1>7, <1>8, <1>9, <1>10, <1>11,
       <1>12 DEF Next

LEMMA StoreInvariant == Spec => []StoreInv
  BY StoreInit, StoreStep, PTL DEF Spec

-----------------------------------------------------------------------------
\* The variables of the store and of the transaction have their types: a
\* transaction only tries what it checked and only undoes what it tried.
THEOREM StoreTypeOK == Spec => []TypeOK
<1>1. StoreInv => TypeOK
    BY DEF StoreInv
<1>2. QED
    BY <1>1, StoreInvariant, PTL

\* No transaction, however it ends and wherever it is interrupted, takes back
\* or overwrites what another writer has put into an entry.
THEOREM OtherWritersAreKept == Spec => []OthersKept
<1>1. StoreInv => OthersKept
    BY DEF StoreInv
<1>2. QED
    BY <1>1, StoreInvariant, PTL

\* A committed transaction is in the store as a whole, and one that was
\* refused or rolled back without a conflict is not in it at all.
THEOREM TransactionIsAtomic == Spec => []AllOrNothing
<1>1. StoreInv => AllOrNothing
    BY DEF StoreInv, TypeOK, AllOrNothing, OwnEntries, StageMatchesProgress,
           TakenBack, Changed
<1>2. QED
    BY <1>1, StoreInvariant, PTL

\* What the rollback reports is so.
THEOREM RollbackReportsHonestly == Spec => []HonestRollback
<1>1. StoreInv => HonestRollback
    BY DEF StoreInv, TypeOK, HonestRollback, StageMatchesProgress, TakenBack,
           Changed
<1>2. QED
    BY <1>1, StoreInvariant, PTL

-----------------------------------------------------------------------------
(* The routing rules                                                       *)

\* The sources that are there
Live(docs) == {s \in Sources : docs[s] \notin {Absent, Gone}}
IfManual(manual) == IF manual THEN {Manual} ELSE {}
Docs == [Sources -> Doc \cup {Absent, Gone}]

Stages == {"queued", "working", "ok", "failed"}
PageJob == [stage : Stages, rules : Seq(Rule), order : Seq(Groups),
            undo : [rules : Seq(Rule), order : Seq(Groups)]]
SourceJob == [stage : Stages, item : Sources, new : Doc \cup {Gone}]
PolicyJob == [stage : Stages, item : Policies,
              new : SUBSET (Policies \cup {Node}) \cup {Absent}]

StateTyped ==
  /\ store \in Store
  /\ ui \in [rules : Seq(Rule), order : Seq(Groups), docs : Docs, loaded : BOOLEAN]
  /\ job \in [Tasks -> PageJob \cup SourceJob \cup PolicyJob \cup {NoJob}]
  /\ job["page"] \in PageJob \cup {NoJob}
  /\ job["source"] \in SourceJob \cup {NoJob}
  /\ job["policy"] \in PolicyJob \cup {NoJob}
  /\ tx \in [stage : {"staged", "installed"}, of : Tasks, before : Store, after : Store]
              \cup {NoTx}

\* A draft is opened when the rules have been read.
DraftInv ==
  /\ draft \in [mode : {"closed", "append", "prepend", "edit"}, at : Nat,
                shown : Rule \cup {Nothing}, moved : BOOLEAN]
  /\ draft.mode # "closed" => ui.loaded
  /\ DraftKeepsItsRule

\* The store holds what the transaction has copied or what it has installed;
\* only the order may have been written by somebody else.
Agree(s, t) == s.rules = t.rules /\ s.docs = t.docs /\ s.pol = t.pol /\ s.nodes = t.nodes

LockIsHeld ==
  /\ \A t \in Tasks : job[t].stage = "working" <=> tx.stage # "none" /\ tx.of = t
  /\ tx.stage # "none" =>
       LET copy == IF tx.stage = "staged" THEN tx.before ELSE tx.after
       IN /\ tx.after = Mutated(tx.of, tx.before)
          /\ Agree(store, copy)
          /\ tx.of = "page" /\ Clear({"mingled"}) => store.order = copy.order

\* What a roll back would leave.
Undone ==
  IF tx.stage # "installed" THEN store
  ELSE [tx.before EXCEPT !.order = IF tx.of = "page" THEN @ ELSE store.order]

\* What a task does to a source: it adds the next one, or changes or removes
\* one that is there.
Legal(docs, s, new) ==
  \/ /\ docs[s] = Absent /\ new \in Doc
     /\ \A i \in 1..(Index(Ids, s) - 1) : docs[Ids[i]] # Absent
  \/ s \in Live(docs) /\ new \in Doc \cup {Gone}

SourcesInStep ==
  LET t == job["source"]
  IN /\ InTurn(ui.docs)
     /\ t # NoJob => Legal(ui.docs, t.item, t.new)
     /\ Undone.docs = IF t.stage = "ok" THEN [ui.docs EXCEPT ![t.item] = t.new] ELSE ui.docs

OrdersAreKnown ==
  /\ Range(ui.order) \subseteq Known(ui.docs)
  /\ Range(store.order) \subseteq Known(ui.docs)
  /\ Busy => /\ Range(job["page"].order) \subseteq Known(ui.docs)
             /\ Range(job["page"].undo.order) \subseteq Known(ui.docs)
  /\ tx.stage # "none" => Range(tx.before.order) \subseteq Known(ui.docs)

\* What the page shows once a task that has not been accepted has failed
Base == IF job["page"].stage \in {"none", "ok"} THEN ui ELSE job["page"].undo

RulesInStep ==
  /\ ~ui.loaded => ui.rules = <<>> /\ ~Busy
  /\ Busy => ui.rules = job["page"].rules
  /\ ui.loaded /\ Clear({"unread"}) => Base.rules = Undone.rules

\* Two orders are alike when they are normalized to the same one.
InPlace(o, rules, docs) == Normalized(o, rules # <<>>, Listed(docs))
Alike(o, q, rules, docs) == InPlace(o, rules, docs) = InPlace(q, rules, docs)

OrderInStep ==
  Clear({"mingled", "unread"}) /\ (Clear({"blind"}) \/ Clear({"unsaved"})) =>
    /\ Alike(Base.order, Undone.order, Undone.rules, Undone.docs)
    /\ Busy => Alike(ui.order, job["page"].order, job["page"].rules, Undone.docs)

KernelInStep == Clear({"mingled", "blind", "unread"}) => kernel = Compile(Undone)

RulesInv ==
  /\ StateTyped /\ LockIsHeld /\ SourcesInStep /\ OrdersAreKnown
  /\ RulesInStep /\ OrderInStep /\ KernelInStep

RoutingInv == RulesInv /\ DraftInv

-----------------------------------------------------------------------------
\* A sequence of three parts has the members of all of them.
LEMMA RangeOfThree ==
  ASSUME NEW A, NEW a \in Seq(A), NEW b \in Seq(A), NEW c \in Seq(A)
  PROVE  /\ a \o b \o c \in Seq(A)
         /\ Range(a \o b \o c) = Range(a) \cup Range(b) \cup Range(c)
<1> DEFINE d == a \o b
<1>1. d \in Seq(A) /\ d \o c \in Seq(A)
  OBVIOUS
<1>2. Range(d) = Range(a) \cup Range(b)
  BY RangeConcat
<1> HIDE DEF d
<1>3. Range(d \o c) = Range(d) \cup Range(c)
  BY <1>1, RangeConcat
<1> QED BY <1>1, <1>2, <1>3 DEF d

\* What is kept of it is what is kept of each.
LEMMA FilterOfThree ==
  ASSUME NEW A, NEW S, NEW a, NEW b, NEW c, a \in Seq(A), b \in Seq(A), c \in Seq(A)
  PROVE  Filter(a \o b \o c, S) = Filter(a, S) \o Filter(b, S) \o Filter(c, S)
<1> DEFINE d == a \o b
<1>1. d \in Seq(A)
  OBVIOUS
<1>2. Filter(d, S) = Filter(a, S) \o Filter(b, S)
  BY FilterConcat
<1> HIDE DEF d
<1>3. Filter(d \o c, S) = Filter(d, S) \o Filter(c, S)
  BY <1>1, FilterConcat, SMTT(30)
<1> QED BY <1>2, <1>3 DEF d

\* An order is brought to exactly the groups that there are.
LEMMA NormalizedGroups ==
  ASSUME NEW o \in Seq(Groups), NEW m \in BOOLEAN, NEW L \in Seq(Sources)
  PROVE  /\ Normalized(o, m, L) \in Seq(Groups)
         /\ Range(Normalized(o, m, L)) = Range(L) \cup IfManual(m)
<1> DEFINE G == Range(L) \cup IfManual(m)
           kept == Filter(o, G)
           head == IF m /\ Manual \notin Range(kept) THEN <<Manual>> ELSE <<>>
           tail == Filter(L, G \ Range(kept))
<1>1. L \in Seq(Groups) /\ Range(L) \subseteq Sources
  BY DEF Groups, Range
<1>2. kept \in Seq(Groups) /\ Range(kept) = Range(o) \cap G
  BY FilterRange
<1>3. tail \in Seq(Groups) /\ Range(tail) = Range(L) \cap (G \ Range(kept))
  BY <1>1, FilterRange
<1>4. head \in Seq(Groups) /\ Range(head) = IF m /\ Manual \notin Range(kept) THEN {Manual} ELSE {}
  <2>1. <<Manual>> \in Seq(Groups) /\ Range(<<Manual>>) = {Manual}
    BY DEF Groups, Range
  <2>2. <<>> \in Seq(Groups) /\ Range(<<>>) = {}
    BY RangeEmpty
  <2> QED BY <2>1, <2>2
<1>5. Normalized(o, m, L) = head \o kept \o tail
  BY DEF Normalized, IfManual
<1> HIDE DEF kept, head, tail
<1>6. /\ head \o kept \o tail \in Seq(Groups)
      /\ Range(head \o kept \o tail) = Range(head) \cup Range(kept) \cup Range(tail)
  BY <1>2, <1>3, <1>4, RangeOfThree
<1> QED BY <1>2, <1>3, <1>4, <1>5, <1>6 DEF IfManual

\* Bringing it there again changes nothing.
LEMMA NormalizedAgain ==
  ASSUME NEW o \in Seq(Groups), NEW m \in BOOLEAN, NEW L \in Seq(Sources)
  PROVE  Normalized(Normalized(o, m, L), m, L) = Normalized(o, m, L)
<1> DEFINE n == Normalized(o, m, L)
           G == Range(L) \cup IfManual(m)
<1>1. n \in Seq(Groups) /\ Range(n) = G
  BY NormalizedGroups
<1> HIDE DEF n
<1>2. Filter(n, G) = n
  BY <1>1, FilterAll
<1>3. L \in Seq(Groups)
  BY DEF Groups
<1>4. Filter(L, G \ Range(n)) = <<>>
  BY <1>1, <1>3, FilterNone
<1>5. ~(m /\ Manual \notin Range(n))
  BY <1>1 DEF IfManual
<1>6. Normalized(n, m, L) = <<>> \o n \o <<>>
  BY <1>2, <1>4, <1>5 DEF Normalized, IfManual
<1> QED BY <1>1, <1>6 DEF n

\* With fewer sources it is what is left of the order with more.
LEMMA NormalizedFewer ==
  ASSUME NEW o, NEW m, NEW L, NEW R, o \in Seq(Groups), m \in BOOLEAN, L \in Seq(Sources),
         Manual \notin Sources
  PROVE  Normalized(o, m, Filter(L, R)) =
           Filter(Normalized(o, m, L), (Range(L) \cap R) \cup IfManual(m))
<1> DEFINE G == Range(L) \cup IfManual(m)
           H == (Range(L) \cap R) \cup IfManual(m)
           kept == Filter(o, G)
           head == IF m /\ Manual \notin Range(kept) THEN <<Manual>> ELSE <<>>
           tail == Filter(L, G \ Range(kept))
           M == Filter(L, R)
<1>1. L \in Seq(Groups) /\ Range(L) \subseteq Sources
  BY DEF Groups, Range
<1>2. M \in Seq(Groups) /\ Range(M) = Range(L) \cap R
  BY <1>1, FilterRange
<1>3. kept \in Seq(Groups) /\ Range(kept) = Range(o) \cap G
  BY FilterRange
<1>4. Filter(o, H) = Filter(kept, H) /\ Range(Filter(o, H)) = Range(o) \cap H
  <2>1. Filter(kept, H) = Filter(o, G \cap H)
    BY FilterTwice
  <2>2. G \cap H = H
    OBVIOUS
  <2>3. Range(Filter(o, H)) = Range(o) \cap H
    BY FilterRange
  <2> QED BY <2>1, <2>2, <2>3
<1>5. head \in Seq(Groups) /\ Filter(head, H) = head
  <2>1. <<Manual>> \in Seq(Groups) /\ Range(<<Manual>>) = {Manual} /\ <<>> \in Seq(Groups)
    BY DEF Groups, Range
  <2>2. m => Filter(<<Manual>>, H) = <<Manual>>
    BY <2>1, FilterAll DEF IfManual
  <2> QED BY <2>1, <2>2, FilterEmpty
<1>6. tail \in Seq(Groups) /\ Filter(tail, H) = Filter(L, (G \ Range(kept)) \cap H)
  BY <1>1, FilterRange, FilterTwice
<1>7. ASSUME NEW S PROVE Filter(M, S) = Filter(L, R \cap S)
  BY <1>1, FilterTwice
<1>8. Filter(L, (G \ Range(kept)) \cap H) = Filter(L, R \cap (H \ Range(Filter(o, H))))
  <2>1. Range(L) \cap ((G \ Range(kept)) \cap H) = Range(L) \cap (R \cap (H \ Range(Filter(o, H))))
    BY <1>1, <1>3, <1>4 DEF IfManual
  <2> QED BY <1>1, <2>1, FilterSame
<1>9. Normalized(o, m, L) = head \o kept \o tail
  BY DEF Normalized, IfManual
<1>10. (m /\ Manual \notin Range(kept)) <=> (m /\ Manual \notin Range(Filter(o, H)))
  BY <1>3, <1>4 DEF IfManual
<1>11. Normalized(o, m, M) = head \o Filter(o, H) \o Filter(M, H \ Range(Filter(o, H)))
  BY <1>2, <1>10 DEF Normalized, IfManual
<1> HIDE DEF kept, head, tail, M, H
<1>12. Filter(head \o kept \o tail, H) = Filter(head, H) \o Filter(kept, H) \o Filter(tail, H)
  <2>1. head \in Seq(Groups) /\ kept \in Seq(Groups) /\ tail \in Seq(Groups)
    BY <1>3, <1>5, <1>6
  <2> QED BY <2>1, FilterOfThree
<1>13. Filter(M, H \ Range(Filter(o, H))) = Filter(tail, H)
  BY <1>6, <1>7, <1>8
<1> QED BY <1>4, <1>5, <1>9, <1>11, <1>12, <1>13 DEF M, H

\* A source that no order knows yet comes at the end.
LEMMA NormalizedMore ==
  ASSUME NEW o \in Seq(Groups), NEW m \in BOOLEAN, NEW L \in Seq(Sources),
         NEW s \in Sources, s \notin Range(o), s \notin Range(L), Manual \notin Sources
  PROVE  Normalized(o, m, L \o <<s>>) = Normalized(o, m, L) \o <<s>>
<1> DEFINE G == Range(L) \cup IfManual(m)
           H == Range(L) \cup {s} \cup IfManual(m)
           kept == Filter(o, G)
           head == IF m /\ Manual \notin Range(kept) THEN <<Manual>> ELSE <<>>
           tail == Filter(L, G \ Range(kept))
           new == <<s>>
<1>1. L \in Seq(Groups) /\ new \in Seq(Groups) /\ Range(new) = {s}
  BY DEF Groups, Range
<1> HIDE DEF new
<1>2. Range(L \o new) = Range(L) \cup {s}
  BY <1>1, RangeConcat
<1>3. kept \in Seq(Groups) /\ Range(kept) = Range(o) \cap G
  BY FilterRange
<1>4. Filter(o, H) = kept
  BY FilterSame
<1>5. Filter(L \o new, H \ Range(kept)) = Filter(L, H \ Range(kept)) \o Filter(new, H \ Range(kept))
  BY <1>1, FilterConcat, SMTT(30)
<1>6. Filter(L, H \ Range(kept)) = tail
  <2>1. Range(L) \cap (H \ Range(kept)) = Range(L) \cap (G \ Range(kept))
    OBVIOUS
  <2> QED BY <1>1, <2>1, FilterSame
<1>7. Filter(new, H \ Range(kept)) = new
  BY <1>1, <1>3, FilterAll
<1>8. Normalized(o, m, L) = head \o kept \o tail
  BY DEF Normalized, IfManual
<1>9. Normalized(o, m, L \o new) = head \o kept \o (tail \o new)
  <2>1. Range(L \o new) \cup IfManual(m) = H
    BY <1>2
  <2>2. Filter(L \o new, H \ Range(kept)) = tail \o new
    BY <1>5, <1>6, <1>7, Zenon
  <2> HIDE DEF H
  <2> QED BY <1>4, <2>1, <2>2, Zenon DEF Normalized, IfManual
<1>10. head \in Seq(Groups) /\ tail \in Seq(Groups)
  <2>1. <<Manual>> \in Seq(Groups) /\ <<>> \in Seq(Groups)
    BY DEF Groups
  <2> QED BY <1>1, <2>1, FilterRange
<1> HIDE DEF kept, head, tail
<1>11. (head \o kept) \o (tail \o new) = ((head \o kept) \o tail) \o new
  BY <1>1, <1>3, <1>10, SMTT(30)
<1> QED BY <1>8, <1>9, <1>11 DEF new

\* A sequence is what stands before a place, at it and after it.
LEMMA SplitAt ==
  ASSUME NEW A, NEW s \in Seq(A), NEW k \in 1..Len(s)
  PROVE  s = SubSeq(s, 1, k - 1) \o <<s[k]>> \o SubSeq(s, k + 1, Len(s))
<1>1. SubSeq(s, 1, k) = SubSeq(s, 1, k - 1) \o <<s[k]>>
  BY SubSeqRecursiveSecond
<1>2. SubSeq(s, 1, k) \o SubSeq(s, k + 1, Len(s)) = SubSeq(s, 1, Len(s))
  BY ConcatAdjacentSubSeq
<1>3. SubSeq(s, 1, Len(s)) = s
  BY SubSeqFull
<1> QED BY <1>1, <1>2, <1>3

\* Ids are all different.
LEMMA IdsDiffer ==
  /\ Ids \in Seq(Sources) /\ Manual \notin Sources
  /\ \A i, j \in 1..Len(Ids) : Ids[i] = Ids[j] => i = j
  /\ \A s \in Sources : Index(Ids, s) \in 1..Len(Ids) /\ Ids[Index(Ids, s)] = s
<1>1. Ids \in Seq(Sources) /\ Manual \notin Sources
  BY RoutingAssumption
<1>2. \A i, j \in 1..Len(Ids) : Ids[i] = Ids[j] => i = j
  BY <1>1, RoutingAssumption DEF IsInjective
<1>3. ASSUME NEW s \in Sources PROVE Index(Ids, s) \in 1..Len(Ids) /\ Ids[Index(Ids, s)] = s
  <2>1. PICK k \in 1..Len(Ids) : Ids[k] = s
    BY <1>1 DEF Sources, Range
  <2>2. Index(Ids, s) = CHOOSE i \in 1..Len(Ids) : Ids[i] = s
    BY <1>1 DEF Index
  <2> QED BY <2>1, <2>2
<1> QED BY <1>1, <1>2, <1>3

\* The sources that are listed are the ones that are there.
LEMMA ListedAre ==
  ASSUME NEW docs
  PROVE  /\ Listed(docs) \in Seq(Sources) /\ Range(Listed(docs)) = Live(docs)
         /\ Listed(docs) = Filter(Ids, Live(docs))
<1>1. Listed(docs) = Filter(Ids, Live(docs))
  BY DEF Listed, Live
<1>2. Filter(Ids, Live(docs)) \in Seq(Sources) /\ Range(Filter(Ids, Live(docs))) = Range(Ids) \cap Live(docs)
  BY IdsDiffer, FilterRange
<1> QED BY <1>1, <1>2 DEF Live, Sources

\* A source that is added comes after the ones that there are.
LEMMA ListedMore ==
  ASSUME NEW docs \in Docs, NEW s \in Sources, NEW d \in Doc, InTurn(docs), docs[s] = Absent
  PROVE  Listed([docs EXCEPT ![s] = d]) = Listed(docs) \o <<s>>
<1> DEFINE k == Index(Ids, s)
           p == SubSeq(Ids, 1, k - 1)
           q == SubSeq(Ids, k + 1, Len(Ids))
           one == <<s>>
           old == Live(docs)
           new == Live(docs) \cup {s}
<1>1. k \in 1..Len(Ids) /\ Ids[k] = s
  BY IdsDiffer
<1> HIDE DEF k
<1>2. p \in Seq(Sources) /\ q \in Seq(Sources) /\ one \in Seq(Sources)
  BY <1>1, IdsDiffer, SMTT(30)
<1>3. Ids = p \o one \o q
  BY <1>1, IdsDiffer, SplitAt
<1>4. \A x \in Range(p) : \E i \in 1..(k - 1) : x = Ids[i]
  BY <1>1, IdsDiffer, SMTT(30) DEF Range
<1>5. \A x \in Range(q) : \E i \in (k + 1)..Len(Ids) : x = Ids[i]
  <2>1. Len(q) = Len(Ids) - k /\ \A i \in 1..(Len(Ids) - k) : q[i] = Ids[k + i]
    <3>1. /\ Len(q) = IF k + 1 <= Len(Ids) THEN Len(Ids) - (k + 1) + 1 ELSE 0
          /\ \A i \in 1..(Len(Ids) - (k + 1) + 1) : q[i] = Ids[(k + 1) + i - 1]
      <4>1. \A i \in (k + 1)..Len(Ids) : Ids[i] \in Sources
        BY <1>1, IdsDiffer
      <4>2. k + 1 \in Int /\ Len(Ids) \in Int
        BY <1>1
      <4> QED BY <4>1, <4>2, SubSeqProperties
    <3>2. k \in Nat /\ Len(Ids) \in Nat /\ k <= Len(Ids)
      BY <1>1, IdsDiffer
    <3> HIDE DEF q
    <3> QED BY <3>1, <3>2
  <2>2. ASSUME NEW x \in Range(q) PROVE \E i \in (k + 1)..Len(Ids) : x = Ids[i]
    <3>1. PICK i \in 1..(Len(Ids) - k) : x = Ids[k + i]
      BY <1>2, <2>1 DEF Range
    <3>2. k \in Nat /\ Len(Ids) \in Nat
      BY <1>1, IdsDiffer
    <3>3. k + i \in (k + 1)..Len(Ids)
      BY <3>2
    <3> QED BY <3>1, <3>3
  <2> QED BY <2>2
<1>6. s \notin Range(p) /\ s \notin Range(q)
  <2> HIDE DEF p, q
  <2>1. \A i \in 1..Len(Ids) : Ids[i] = s => i = k
    BY <1>1, IdsDiffer
  <2>2. k \in Nat /\ Len(Ids) \in Nat /\ k <= Len(Ids)
    BY <1>1, IdsDiffer
  <2>3. s \notin Range(p)
    <3>1. ASSUME NEW i \in 1..(k - 1) PROVE s # Ids[i]
      BY <2>1, <2>2
    <3> QED BY <1>4, <3>1
  <2>4. s \notin Range(q)
    <3>1. ASSUME NEW i \in (k + 1)..Len(Ids) PROVE s # Ids[i]
      BY <2>1, <2>2
    <3> QED BY <1>5, <3>1
  <2> QED BY <2>3, <2>4
<1>7. \A x \in Range(q) : docs[x] = Absent
  <2>1. ASSUME NEW i \in (k + 1)..Len(Ids) PROVE docs[Ids[i]] = Absent
    <3>1. k \in DOMAIN Ids /\ i \in DOMAIN Ids /\ k < i
      BY <1>1, IdsDiffer
    <3> QED BY <1>1, <3>1 DEF InTurn
  <2> QED BY <1>5, <2>1
<1>8. Range(q) \cap new = {} /\ Range(q) \cap old = {}
  BY <1>6, <1>7 DEF Live
<1>9. Range(p) \cap new = Range(p) \cap old
  BY <1>6
<1>10. s \notin old /\ Range(one) = {s}
  BY DEF Live, Range
<1> HIDE DEF p, q, one
<1>11. Filter(p, new) = Filter(p, old)
  BY <1>2, <1>9, FilterSame
<1>12. Filter(q, new) = <<>> /\ Filter(q, old) = <<>>
  BY <1>2, <1>8, FilterNone
<1>13. Filter(one, new) = one /\ Filter(one, old) = <<>>
  <2>1. Range(one) \subseteq new /\ Range(one) \cap old = {}
    BY <1>10
  <2> QED BY <1>2, <2>1, FilterAll, FilterNone
<1>14. Live([docs EXCEPT ![s] = d]) = new
  BY RoutingAssumption DEF Live, Docs
<1> HIDE DEF old, new
<1>15. \A S : Filter(Ids, S) = Filter(p, S) \o Filter(one, S) \o Filter(q, S)
  BY <1>2, <1>3, FilterOfThree
<1>16. Filter(p, old) \in Seq(Sources)
  BY <1>2, FilterRange
<1>17. Filter(Ids, new) = Filter(p, old) \o one \o <<>>
  BY <1>11, <1>12, <1>13, <1>15
<1>18. Filter(Ids, old) = Filter(p, old) \o <<>> \o <<>>
  BY <1>12, <1>13, <1>15
<1>19. Filter(Ids, new) = Filter(Ids, old) \o one
  BY <1>2, <1>16, <1>17, <1>18
<1> QED BY <1>14, <1>19, ListedAre DEF old, one

\* A source that is removed leaves the others where they were.
LEMMA ListedFewer ==
  ASSUME NEW docs \in Docs, NEW s \in Sources
  PROVE  Listed([docs EXCEPT ![s] = Gone]) = Filter(Listed(docs), Sources \ {s})
<1>1. Live([docs EXCEPT ![s] = Gone]) = Live(docs) \cap (Sources \ {s})
  BY DEF Live, Docs
<1>2. Filter(Filter(Ids, Live(docs)), Sources \ {s}) = Filter(Ids, Live(docs) \cap (Sources \ {s}))
  BY IdsDiffer, FilterTwice
<1> QED BY <1>1, <1>2, ListedAre

\* Ids stay in turn.
LEMMA TurnsAreKept ==
  ASSUME NEW docs \in Docs, NEW s \in Sources, NEW new, InTurn(docs), Legal(docs, s, new)
  PROVE  /\ InTurn([docs EXCEPT ![s] = new])
         /\ [docs EXCEPT ![s] = new] \in Docs
         /\ Known(docs) \subseteq Known([docs EXCEPT ![s] = new])
<1>1. new \in Doc \cup {Gone} /\ new # Absent
  BY RoutingAssumption DEF Legal
<1>2. \A i \in DOMAIN Ids : Ids[i] \in Sources
  BY IdsDiffer
<1>3. ASSUME NEW i \in DOMAIN Ids, NEW j \in DOMAIN Ids, i < j,
             [docs EXCEPT ![s] = new][Ids[j]] # Absent
      PROVE  [docs EXCEPT ![s] = new][Ids[i]] # Absent
  <2>1. CASE docs[Ids[j]] # Absent
    <3>1. docs[Ids[i]] # Absent
      BY <1>3, <2>1 DEF InTurn
    <3> QED BY <1>1, <1>2, <3>1 DEF Docs
  <2>2. CASE docs[Ids[j]] = Absent
    <3>1. Ids[j] = s
      BY <1>2, <1>3, <2>2 DEF Docs
    <3>2. j = Index(Ids, s)
      BY <3>1, IdsDiffer, SMTT(30)
    <3>3. docs[Ids[i]] # Absent
      BY <1>3, <2>2, <3>1, <3>2, IdsDiffer, SMTT(30) DEF Legal, Live
    <3> QED BY <1>1, <1>2, <3>3 DEF Docs
  <2> QED BY <2>1, <2>2
<1>4. InTurn([docs EXCEPT ![s] = new])
  BY <1>3 DEF InTurn
<1> QED BY <1>1, <1>4 DEF Docs, Known

\* Two orders that are alike stay so whatever becomes of a source.
LEMMA AlikeStable ==
  ASSUME NEW docs \in Docs, NEW s \in Sources, NEW new, InTurn(docs), Legal(docs, s, new),
         NEW a \in Seq(Groups), NEW b \in Seq(Groups), NEW rules,
         Range(a) \subseteq Known(docs), Range(b) \subseteq Known(docs),
         Alike(a, b, rules, docs)
  PROVE  Alike(a, b, rules, [docs EXCEPT ![s] = new])
<1> DEFINE m == rules # <<>>
           L == Listed(docs)
           next == [docs EXCEPT ![s] = new]
<1>1. L \in Seq(Sources) /\ Range(L) = Live(docs) /\ m \in BOOLEAN
  BY ListedAre
<1>2. Normalized(a, m, L) = Normalized(b, m, L)
  BY DEF Alike, InPlace
<1>3. SUFFICES Normalized(a, m, Listed(next)) = Normalized(b, m, Listed(next))
  BY DEF Alike, InPlace
<1> HIDE DEF m, L
<1>4. CASE docs[s] = Absent /\ new \in Doc
  <2>1. Listed(next) = L \o <<s>>
    BY <1>4, ListedMore DEF L
  <2>2. s \notin Range(L) /\ s \notin Range(a) /\ s \notin Range(b) /\ Manual \notin Sources
    BY <1>1, <1>4, IdsDiffer DEF Live, Known
  <2>3. Normalized(a, m, L \o <<s>>) = Normalized(a, m, L) \o <<s>>
    BY <1>1, <2>2, NormalizedMore
  <2>4. Normalized(b, m, L \o <<s>>) = Normalized(b, m, L) \o <<s>>
    BY <1>1, <2>2, NormalizedMore
  <2> QED BY <1>2, <2>1, <2>3, <2>4, Zenon
<1>5. CASE s \in Live(docs) /\ new \in Doc
  <2>1. Live(next) = Live(docs)
    BY <1>5, RoutingAssumption DEF Live, Docs
  <2> QED BY <1>2, <2>1, ListedAre DEF L
<1>6. CASE s \in Live(docs) /\ new = Gone
  <2> DEFINE R == Sources \ {s}
  <2>1. Listed(next) = Filter(L, R)
    BY <1>6, ListedFewer DEF L
  <2> HIDE DEF R
  <2>2. Normalized(a, m, Filter(L, R)) = Filter(Normalized(a, m, L), (Range(L) \cap R) \cup IfManual(m))
    BY <1>1, IdsDiffer, NormalizedFewer
  <2>3. Normalized(b, m, Filter(L, R)) = Filter(Normalized(b, m, L), (Range(L) \cap R) \cup IfManual(m))
    BY <1>1, IdsDiffer, NormalizedFewer
  <2> QED BY <1>2, <2>1, <2>2, <2>3
<1> QED BY <1>4, <1>5, <1>6 DEF Legal

\* What is shown of an order is alike, and has only groups that there are.
LEMMA ShownIsAlike ==
  ASSUME NEW o, NEW rules, NEW docs, o \in Seq(Groups)
  PROVE  /\ InPlace(o, rules, docs) \in Seq(Groups)
         /\ Range(InPlace(o, rules, docs)) \subseteq Known(docs)
         /\ Alike(InPlace(o, rules, docs), o, rules, docs)
<1> DEFINE m == rules # <<>>
           L == Listed(docs)
<1>1. L \in Seq(Sources) /\ Range(L) = Live(docs) /\ m \in BOOLEAN
  BY ListedAre
<1> HIDE DEF m, L
<1>2. Normalized(o, m, L) \in Seq(Groups) /\ Range(Normalized(o, m, L)) = Range(L) \cup IfManual(m)
  BY <1>1, NormalizedGroups
<1>3. Normalized(Normalized(o, m, L), m, L) = Normalized(o, m, L)
  BY <1>1, NormalizedAgain
<1> QED BY <1>1, <1>2, <1>3 DEF m, L, InPlace, Alike, Live, Known, IfManual

\* What is alike for the sources that are shown is so for the ones that are
\* kept.
LEMMA AlikeUndone ==
  ASSUME StateTyped, SourcesInStep,
         NEW a \in Seq(Groups), NEW b \in Seq(Groups), NEW rules,
         Range(a) \subseteq Known(ui.docs), Range(b) \subseteq Known(ui.docs),
         Alike(a, b, rules, ui.docs)
  PROVE  Alike(a, b, rules, Undone.docs)
<1>1. CASE job["source"].stage = "ok"
  <2>1. job["source"].item \in Sources /\ ui.docs \in Docs /\ job["source"] # NoJob
    BY <1>1 DEF StateTyped, SourceJob, NoJob
  <2>2. /\ Undone.docs = [ui.docs EXCEPT ![job["source"].item] = job["source"].new]
        /\ InTurn(ui.docs) /\ Legal(ui.docs, job["source"].item, job["source"].new)
    BY <1>1, <2>1 DEF SourcesInStep
  <2> QED BY <2>1, <2>2, AlikeStable
<1>2. CASE job["source"].stage # "ok"
  BY <1>2 DEF SourcesInStep
<1> QED BY <1>1, <1>2

\* What a store compiles to is a matter of its rules, sources, policy groups
\* and nodes, and of its order as far as it is alike.
LEMMA CompilesAlike ==
  ASSUME NEW s, NEW t, Agree(s, t), Alike(s.order, t.order, s.rules, s.docs)
  PROVE  Compile(s) = Compile(t)
BY DEF Agree, Alike, InPlace, Compile

\* Nothing that the rules depend on is touched.
LEMMA QuietStep ==
  ASSUME RulesInv, UNCHANGED <<store, ui, job, tx, kernel, astray>>
  PROVE  RulesInv'
BY DEF RulesInv, StateTyped, LockIsHeld, SourcesInStep, OrdersAreKnown, RulesInStep,
  OrderInStep, KernelInStep, Undone, Base, Clear, Busy, Mutated, Alike

\* At launch everything is as the store has it.
LEMMA RulesInit == ASSUME RoutingInit PROVE RoutingInv
<1>1. store \in Store /\ InTurn(store.docs) /\ Range(store.order) \subseteq Known(store.docs)
  BY RoutingAssumption DEF RoutingInit
<1>2. StateTyped
  BY <1>1 DEF RoutingInit, StateTyped, Launched, Store, Docs, Tasks, NoJob, NoTx
<1>3. LockIsHeld
  BY DEF RoutingInit, LockIsHeld, NoTx, NoJob, Tasks
<1>4. Undone = store /\ Base = ui
  BY DEF RoutingInit, Undone, NoTx, Base, NoJob, Tasks
<1>5. SourcesInStep
  BY <1>1, <1>4 DEF RoutingInit, SourcesInStep, NoJob, Launched, Tasks
<1>6. OrdersAreKnown
  BY <1>1 DEF RoutingInit, OrdersAreKnown, Launched, NoTx, Busy, NoJob, Tasks
<1>7. RulesInStep
  BY <1>4 DEF RoutingInit, RulesInStep, Launched, Busy, NoJob, Tasks
<1>8. OrderInStep
  BY <1>4 DEF RoutingInit, OrderInStep, Alike, Launched, Busy, NoJob, Tasks
<1>9. KernelInStep
  BY <1>4 DEF RoutingInit, KernelInStep
<1>10. DraftInv
  BY DEF RoutingInit, DraftInv, NoDraft, DraftKeepsItsRule
<1> QED BY <1>2, <1>3, <1>5, <1>6, <1>7, <1>8, <1>9, <1>10 DEF RoutingInv, RulesInv

\* No transaction but the page's changes the manual rules.
LEMMA OnlyThePageHasRules ==
  ASSUME StateTyped, LockIsHeld, job["page"] = NoJob
  PROVE  Undone.rules = store.rules
<1>1. CASE tx.stage # "installed"
  BY <1>1 DEF Undone
<1>2. CASE tx.stage = "installed"
  <2>1. tx.before \in Store /\ tx.of \in Tasks /\ tx.stage # "none" /\ tx.stage # "staged"
    BY <1>2 DEF StateTyped, NoTx
  <2>2. tx.of # "page"
    BY <2>1 DEF LockIsHeld, NoJob
  <2>3. store.rules = tx.after.rules /\ tx.after = Mutated(tx.of, tx.before)
    BY <2>1 DEF LockIsHeld, Agree
  <2>4. tx.after.rules = tx.before.rules
    BY <2>1, <2>2, <2>3 DEF Mutated, Store
  <2> QED BY <1>2, <2>1, <2>3, <2>4 DEF Undone, Store
<1> QED BY <1>1, <1>2

\* The rules are read.
LEMMA LoadStep ==
  ASSUME RulesInv, Load(ui'), UNCHANGED <<store, job, tx, kernel>>
  PROVE  RulesInv' /\ ui'.loaded /\ (ui.loaded => ui' = ui)
<1> USE DEF RulesInv
<1>1. CASE ui.loaded
  <2>1. ui' = ui /\ astray' = astray
    BY <1>1 DEF Load
  <2> QED BY <1>1, <2>1, QuietStep
<1>2. CASE ~ui.loaded
  <2>1. ui.rules = <<>> /\ job["page"] = NoJob /\ ~Busy
    BY <1>2 DEF RulesInStep, Busy
  <2>2. Undone.rules = store.rules
    BY <2>1, OnlyThePageHasRules
  <2>3. ui.order \in Seq(Groups)
    BY DEF StateTyped
  <2>4. /\ ui'.rules \in {ui.rules, store.rules} /\ ui'.docs = ui.docs /\ ui'.loaded
        /\ ui'.order \in Seq(Groups) /\ Range(ui'.order) \subseteq Known(ui.docs)
        /\ ui' \in [rules : Seq(Rule), order : Seq(Groups), docs : Docs, loaded : BOOLEAN]
    <3>1. CASE ui' = Synced([ui EXCEPT !.rules = store.rules, !.loaded = TRUE])
      <4> DEFINE n == InPlace(ui.order, store.rules, ui.docs)
      <4>1. n \in Seq(Groups) /\ Range(n) \subseteq Known(ui.docs)
        BY <2>3, ShownIsAlike
      <4>2. ui' = [ui EXCEPT !.rules = store.rules, !.loaded = TRUE, !.order = n]
        BY <3>1 DEF Synced, ShownOrder, InPlace, StateTyped
      <4> HIDE DEF n
      <4> QED BY <4>1, <4>2 DEF StateTyped, Store
    <3>2. CASE ui' = [ui EXCEPT !.loaded = TRUE]
      BY <3>2 DEF StateTyped, OrdersAreKnown
    <3> QED BY <1>2, <3>1, <3>2 DEF Load
  <2>5. astray \subseteq astray'
    BY <1>2 DEF Load, Flag
  <2>6. Clear({"unread"})' => ui'.rules = store.rules
    BY <1>2, <2>1 DEF Load, Flag, Clear, StateTyped, Synced
  <2>7. Undone' = Undone /\ Base' = ui' /\ ~Busy' /\ Base = ui
    BY <2>1 DEF Undone, Base, Busy, NoJob
  <2>8. StateTyped'
    BY <2>4 DEF StateTyped
  <2>9. LockIsHeld'
    BY <2>5 DEF LockIsHeld, Clear, Mutated
  <2>10. SourcesInStep'
    BY <2>4, <2>7 DEF SourcesInStep
  <2>11. OrdersAreKnown'
    BY <2>4, <2>7 DEF OrdersAreKnown, Busy
  <2>12. RulesInStep'
    BY <2>2, <2>4, <2>6, <2>7 DEF RulesInStep
  <2>13. OrderInStep'
    <3>1. SUFFICES ASSUME Clear({"mingled", "unread"})', (Clear({"blind"}) \/ Clear({"unsaved"}))'
                   PROVE  Alike(ui'.order, Undone.order, Undone.rules, Undone.docs)
      BY <2>7 DEF OrderInStep
    <3>2. Alike(ui.order, Undone.order, Undone.rules, Undone.docs)
      BY <2>5, <2>7, <3>1 DEF OrderInStep, Clear
    <3>3. CASE ui'.order = ui.order
      BY <3>2, <3>3
    <3>4. CASE ui' = Synced([ui EXCEPT !.rules = store.rules, !.loaded = TRUE])
      <4>1. ui'.order = InPlace(ui.order, Undone.rules, ui.docs)
        BY <2>2, <3>4 DEF Synced, ShownOrder, InPlace, StateTyped
      <4>2. Alike(ui'.order, ui.order, Undone.rules, ui.docs)
        BY <2>3, <4>1, ShownIsAlike
      <4>3. Alike(ui'.order, ui.order, Undone.rules, Undone.docs)
        BY <2>3, <2>4, <4>2, AlikeUndone DEF OrdersAreKnown
      <4> QED BY <3>2, <4>3 DEF Alike
    <3>5. CASE ui' = [ui EXCEPT !.loaded = TRUE]
      BY <3>3, <3>5 DEF StateTyped
    <3> QED BY <1>2, <3>4, <3>5 DEF Load
  <2>14. KernelInStep'
    BY <2>5, <2>7 DEF KernelInStep, Clear
  <2> QED BY <1>2, <2>4, <2>8, <2>9, <2>10, <2>11, <2>12, <2>13, <2>14
<1> QED BY <1>1, <1>2

\* A change of the page is shown and a task for it is started.
LEMMA ApplyStep ==
  ASSUME RulesInv, NEW u, NEW undo, Apply(u, undo), ui.loaded,
         u \in [rules : Seq(Rule), order : Seq(Groups), docs : Docs, loaded : BOOLEAN],
         u.docs = ui.docs, u.loaded, Range(u.order) \subseteq Known(ui.docs),
         undo.rules = ui.rules, undo.order = ui.order \/ undo.order = ShownOrder(ui)
  PROVE  RulesInv'
<1> DEFINE new == [stage |-> "queued", rules |-> u.rules, order |-> u.order,
                   undo |-> [rules |-> undo.rules, order |-> undo.order]]
<1> USE DEF RulesInv
<1>1. /\ job["page"] = NoJob /\ ui' = u /\ job' = [job EXCEPT !["page"] = new]
      /\ UNCHANGED <<store, tx, kernel, astray>>
  BY DEF Apply, Busy
<1>2. /\ ui.order \in Seq(Groups) /\ ui.rules \in Seq(Rule) /\ Range(ui.order) \subseteq Known(ui.docs)
      /\ job \in [Tasks -> PageJob \cup SourceJob \cup PolicyJob \cup {NoJob}]
  BY DEF StateTyped, OrdersAreKnown
<1>3. /\ undo.order \in Seq(Groups) /\ Range(undo.order) \subseteq Known(ui.docs)
      /\ Alike(undo.order, ui.order, ui.rules, ui.docs)
  <2>1. ShownOrder(ui) = InPlace(ui.order, ui.rules, ui.docs)
    BY DEF ShownOrder, InPlace
  <2>2. Alike(ui.order, ui.order, ui.rules, ui.docs)
    BY DEF Alike
  <2>3. /\ ShownOrder(ui) \in Seq(Groups) /\ Range(ShownOrder(ui)) \subseteq Known(ui.docs)
        /\ Alike(ShownOrder(ui), ui.order, ui.rules, ui.docs)
    BY <1>2, <2>1, ShownIsAlike
  <2> QED BY <1>2, <2>2, <2>3
<1>4. new \in PageJob
  BY <1>2, <1>3 DEF PageJob, Stages
<1>5. job'["page"] = new /\ job'["source"] = job["source"] /\ job'["policy"] = job["policy"]
  BY <1>1, <1>2 DEF Tasks
<1>6. new # NoJob /\ new.stage = "queued" /\ NoJob.stage = "none"
  BY DEF NoJob
<1>7. new.rules = u.rules /\ new.order = u.order /\ new.undo.rules = ui.rules /\ new.undo.order = undo.order
  OBVIOUS
<1> HIDE DEF new
<1>8. Undone' = Undone /\ Base' = new.undo /\ Busy' /\ Base = ui /\ ~Busy
  BY <1>1, <1>5, <1>6 DEF Undone, Base, Busy
<1>9. StateTyped'
  <2>1. job' \in [Tasks -> PageJob \cup SourceJob \cup PolicyJob \cup {NoJob}]
    BY <1>1, <1>2, <1>4
  <2> QED BY <1>1, <1>4, <1>5, <2>1 DEF StateTyped
<1>10. LockIsHeld'
  <2>1. tx.stage # "none" => tx.of # "page" /\ tx.of \in Tasks
    BY <1>1, <1>6 DEF LockIsHeld, StateTyped, NoTx
  <2>2. \A s : tx.stage # "none" => Mutated(tx.of, s)' = Mutated(tx.of, s)
    BY <1>1, <1>5, <2>1 DEF Mutated, Tasks
  <2>3. \A t \in Tasks : job'[t].stage = "working" <=> job[t].stage = "working"
    BY <1>1, <1>5, <1>6 DEF Tasks
  <2>4. tx.stage # "none" => Mutated(tx.of, tx.before)' = Mutated(tx.of, tx.before)
    BY <1>1, <1>5, <2>1 DEF Mutated, Tasks
  <2> QED BY <1>1, <2>3, <2>4 DEF LockIsHeld, Clear, Agree
<1>11. SourcesInStep'
  BY <1>1, <1>5, <1>8 DEF SourcesInStep
<1>12. OrdersAreKnown'
  BY <1>1, <1>3, <1>5, <1>7, <1>8 DEF OrdersAreKnown
<1>13. RulesInStep'
  BY <1>1, <1>5, <1>7, <1>8 DEF RulesInStep, Clear
<1>14. OrderInStep'
  <2>1. SUFFICES ASSUME Clear({"mingled", "unread"}), Clear({"blind"}) \/ Clear({"unsaved"})
                 PROVE  /\ Alike(undo.order, Undone.order, Undone.rules, Undone.docs)
                        /\ Alike(u.order, u.order, u.rules, Undone.docs)
    BY <1>1, <1>5, <1>7, <1>8 DEF OrderInStep, Clear
  <2>2. Alike(ui.order, Undone.order, Undone.rules, Undone.docs)
    BY <1>8, <2>1 DEF OrderInStep
  <2>3. Alike(undo.order, ui.order, ui.rules, Undone.docs)
    BY <1>2, <1>3, AlikeUndone
  <2>4. ui.rules = Undone.rules
    BY <1>8, <2>1 DEF RulesInStep, Clear
  <2> QED BY <2>2, <2>3, <2>4 DEF Alike
<1>15. KernelInStep'
  BY <1>1, <1>8 DEF KernelInStep, Clear
<1> QED BY <1>9, <1>10, <1>11, <1>12, <1>13, <1>14, <1>15

\* The task of the page has ended.
LEMMA FinishPageStep == ASSUME RulesInv, FinishPage PROVE RulesInv'
<1> DEFINE old == job["page"]
<1> USE DEF RulesInv
<1>1. /\ old.stage \in {"ok", "failed"} /\ job' = [job EXCEPT !["page"] = NoJob]
      /\ ui' = IF old.stage = "ok" THEN ui
               ELSE [ui EXCEPT !.rules = old.undo.rules, !.order = old.undo.order]
      /\ UNCHANGED <<store, tx, kernel, astray>>
  BY DEF FinishPage, FinishPageAs
<1>2. /\ old \in PageJob /\ Busy /\ job \in [Tasks -> PageJob \cup SourceJob \cup PolicyJob \cup {NoJob}]
  BY <1>1 DEF StateTyped, NoJob, Busy
<1>3. job'["page"] = NoJob /\ job'["source"] = job["source"] /\ job'["policy"] = job["policy"]
  BY <1>1, <1>2 DEF Tasks
<1>4. NoJob.stage = "none"
  BY DEF NoJob
<1>5. /\ ui' \in [rules : Seq(Rule), order : Seq(Groups), docs : Docs, loaded : BOOLEAN]
      /\ ui'.docs = ui.docs /\ ui'.loaded = ui.loaded
      /\ ui'.rules = Base.rules /\ ui'.order = Base.order
      /\ Range(ui'.order) \subseteq Known(ui.docs)
  BY <1>1, <1>2 DEF StateTyped, PageJob, Base, OrdersAreKnown
<1>6. Undone' = Undone /\ Base' = ui' /\ ~Busy'
  BY <1>1, <1>3, <1>4 DEF Undone, Base, Busy
<1>7. StateTyped'
  <2>1. job' \in [Tasks -> PageJob \cup SourceJob \cup PolicyJob \cup {NoJob}]
    BY <1>1, <1>2
  <2> QED BY <1>1, <1>3, <1>5, <2>1 DEF StateTyped
<1>8. LockIsHeld'
  <2>1. tx.stage # "none" => tx.of # "page" /\ tx.of \in Tasks
    BY <1>1 DEF LockIsHeld, StateTyped, NoTx
  <2>2. \A t \in Tasks : job'[t].stage = "working" <=> job[t].stage = "working"
    BY <1>1, <1>3, <1>4 DEF Tasks
  <2>3. tx.stage # "none" => Mutated(tx.of, tx.before)' = Mutated(tx.of, tx.before)
    BY <1>1, <1>3, <2>1 DEF Mutated, Tasks
  <2> QED BY <1>1, <2>2, <2>3 DEF LockIsHeld, Clear, Agree
<1>9. SourcesInStep'
  BY <1>1, <1>3, <1>5, <1>6 DEF SourcesInStep
<1>10. OrdersAreKnown'
  BY <1>1, <1>5, <1>6 DEF OrdersAreKnown
<1>11. ui.loaded
  BY <1>2 DEF RulesInStep
<1>12. RulesInStep'
  BY <1>1, <1>5, <1>6, <1>11 DEF RulesInStep, Clear
<1>13. OrderInStep'
  BY <1>1, <1>5, <1>6 DEF OrderInStep, Clear
<1>14. KernelInStep'
  BY <1>1, <1>6 DEF KernelInStep, Clear
<1> QED BY <1>7, <1>8, <1>9, <1>10, <1>12, <1>13, <1>14

\* A task for a source or for a policy group is started.
LEMMA StartStep ==
  ASSUME RulesInv, NEW t, NEW item, NEW new, StartTask(t, item, new),
         \/ t = "source" /\ item \in Sources /\ new \in Doc \cup {Gone} /\ Legal(ui.docs, item, new)
         \/ t = "policy" /\ item \in Policies /\ new \in SUBSET (Policies \cup {Node}) \cup {Absent}
  PROVE  RulesInv'
<1> DEFINE started == [stage |-> "queued", item |-> item, new |-> new]
<1> USE DEF RulesInv
<1>1. /\ job[t] = NoJob /\ job' = [job EXCEPT ![t] = started]
      /\ UNCHANGED <<store, ui, tx, kernel, astray>>
  BY DEF StartTask
<1>2. job \in [Tasks -> PageJob \cup SourceJob \cup PolicyJob \cup {NoJob}]
  BY DEF StateTyped
<1>3. /\ t \in Tasks /\ t # "page" /\ job'[t] = started
      /\ \A v \in Tasks : v # t => job'[v] = job[v]
  BY <1>1, <1>2 DEF Tasks
<1>4. /\ t = "source" => started \in SourceJob
      /\ t = "policy" => started \in PolicyJob
  BY DEF SourceJob, PolicyJob, Stages
<1>5. started # NoJob /\ started.stage = "queued" /\ NoJob.stage = "none"
      /\ started.item = item /\ started.new = new
  BY DEF NoJob
<1> HIDE DEF started
<1>6. job'["page"] = job["page"]
  BY <1>3 DEF Tasks
<1>7. Undone' = Undone /\ Base' = Base /\ Busy' = Busy
  BY <1>1, <1>6 DEF Undone, Base, Busy
<1>8. StateTyped'
  <2>1. job' \in [Tasks -> PageJob \cup SourceJob \cup PolicyJob \cup {NoJob}]
    BY <1>1, <1>2, <1>3, <1>4
  <2>2. job'["source"] \in SourceJob \cup {NoJob} /\ job'["policy"] \in PolicyJob \cup {NoJob}
    BY <1>3, <1>4 DEF Tasks, StateTyped
  <2> QED BY <1>1, <1>6, <2>1, <2>2 DEF StateTyped
<1>9. LockIsHeld'
  <2>1. tx.stage # "none" => tx.of # t /\ tx.of \in Tasks
    BY <1>1, <1>5 DEF LockIsHeld, StateTyped, NoTx
  <2>2. \A v \in Tasks : job'[v].stage = "working" <=> job[v].stage = "working"
    BY <1>1, <1>3, <1>5
  <2>3. tx.stage # "none" => Mutated(tx.of, tx.before)' = Mutated(tx.of, tx.before)
    <3>1. SUFFICES ASSUME tx.stage # "none"
                   PROVE  Mutated(tx.of, tx.before)' = Mutated(tx.of, tx.before)
      OBVIOUS
    <3>2. job'[tx.of] = job[tx.of]
      BY <1>3, <2>1, <3>1
    <3>3. tx' = tx /\ t # "page"
      BY <1>1, <1>3
    <3>4. CASE tx.of = "page"
      BY <1>3, <3>2, <3>3, <3>4 DEF Mutated, Tasks
    <3>5. CASE tx.of = "source"
      BY <3>2, <3>3, <3>5 DEF Mutated
    <3>6. CASE tx.of = "policy"
      BY <3>2, <3>3, <3>6 DEF Mutated
    <3> QED BY <2>1, <3>1, <3>4, <3>5, <3>6 DEF Tasks
  <2> QED BY <1>1, <2>2, <2>3 DEF LockIsHeld, Clear, Agree
<1>10. SourcesInStep'
  <2>1. CASE t = "source"
    BY <1>1, <1>3, <1>5, <1>7, <2>1 DEF SourcesInStep
  <2>2. CASE t # "source"
    <3>1. job'["source"] = job["source"]
      BY <1>3, <2>2 DEF Tasks
    <3> QED BY <1>1, <1>7, <3>1 DEF SourcesInStep
  <2> QED BY <2>1, <2>2
<1>11. OrdersAreKnown'
  BY <1>1, <1>6, <1>7 DEF OrdersAreKnown
<1>12. RulesInStep'
  BY <1>1, <1>6, <1>7 DEF RulesInStep, Clear
<1>13. OrderInStep'
  BY <1>1, <1>6, <1>7 DEF OrderInStep, Clear
<1>14. KernelInStep'
  BY <1>1, <1>7 DEF KernelInStep, Clear
<1> QED BY <1>8, <1>9, <1>10, <1>11, <1>12, <1>13, <1>14

\* Only the stage of a task changes.
LEMMA JobMoves ==
  ASSUME StateTyped, NEW t \in Tasks, NEW st \in Stages, job[t] # NoJob,
         job' = [job EXCEPT ![t].stage = st]
  PROVE  /\ job'[t] # NoJob /\ job'[t].stage = st
         /\ \A v \in Tasks : v # t => job'[v] = job[v]
         /\ job' \in [Tasks -> PageJob \cup SourceJob \cup PolicyJob \cup {NoJob}]
         /\ job'["page"] \in PageJob \cup {NoJob}
         /\ job'["source"] \in SourceJob \cup {NoJob}
         /\ job'["policy"] \in PolicyJob \cup {NoJob}
         /\ t = "page" => /\ job'[t].rules = job[t].rules /\ job'[t].order = job[t].order
                          /\ job'[t].undo = job[t].undo
         /\ t # "page" => job'[t].item = job[t].item /\ job'[t].new = job[t].new
<1> USE DEF StateTyped
<1>1. job'[t] = [job[t] EXCEPT !.stage = st] /\ \A v \in Tasks : v # t => job'[v] = job[v]
  OBVIOUS
<1>2. CASE t = "page"
  <2>1. job[t] \in PageJob
    BY <1>2
  <2>2. /\ job'[t] \in PageJob /\ job'[t].stage = st /\ job'[t].rules = job[t].rules
        /\ job'[t].order = job[t].order /\ job'[t].undo = job[t].undo
    BY <1>1, <2>1 DEF PageJob
  <2>3. job'["source"] = job["source"] /\ job'["policy"] = job["policy"]
    BY <1>1, <1>2 DEF Tasks
  <2> QED BY <1>1, <1>2, <2>2, <2>3 DEF NoJob, PageJob, Stages
<1>3. CASE t = "source"
  <2>1. job[t] \in SourceJob
    BY <1>3
  <2>2. /\ job'[t] \in SourceJob /\ job'[t].stage = st
        /\ job'[t].item = job[t].item /\ job'[t].new = job[t].new
    BY <1>1, <2>1 DEF SourceJob
  <2>3. job'["page"] = job["page"] /\ job'["policy"] = job["policy"]
    BY <1>1, <1>3 DEF Tasks
  <2> QED BY <1>1, <1>3, <2>2, <2>3 DEF NoJob, SourceJob, Stages
<1>4. CASE t = "policy"
  <2>1. job[t] \in PolicyJob
    BY <1>4
  <2>2. /\ job'[t] \in PolicyJob /\ job'[t].stage = st
        /\ job'[t].item = job[t].item /\ job'[t].new = job[t].new
    BY <1>1, <2>1 DEF PolicyJob
  <2>3. job'["page"] = job["page"] /\ job'["source"] = job["source"]
    BY <1>1, <1>4 DEF Tasks
  <2> QED BY <1>1, <1>4, <2>2, <2>3 DEF NoJob, PolicyJob, Stages
<1> QED BY <1>2, <1>3, <1>4 DEF Tasks

\* What a task makes of a store depends on what it is about alone.
LEMMA MutatedIsAboutTheTask ==
  ASSUME StateTyped, NEW t \in Tasks, NEW st \in Stages, job[t] # NoJob,
         job' = [job EXCEPT ![t].stage = st], NEW v \in Tasks, NEW s
  PROVE  Mutated(v, s)' = Mutated(v, s)
<1>1. /\ t = "page" => job'[t].rules = job[t].rules /\ job'[t].order = job[t].order
      /\ t # "page" => job'[t].item = job[t].item /\ job'[t].new = job[t].new
      /\ \A w \in Tasks : w # t => job'[w] = job[w]
  BY JobMoves
<1>2. CASE v = "page"
  <2>1. job'["page"].rules = job["page"].rules /\ job'["page"].order = job["page"].order
    <3>1. CASE t = "page"
      BY <1>1, <3>1
    <3>2. CASE t # "page"
      <4>1. job'["page"] = job["page"]
        BY <1>1, <3>2 DEF Tasks
      <4> QED BY <4>1
    <3> QED BY <3>1, <3>2
  <2> QED BY <1>2, <2>1 DEF Mutated
<1>3. CASE v = "source"
  BY <1>1, <1>3 DEF Mutated
<1>4. CASE v = "policy"
  BY <1>1, <1>4 DEF Mutated
<1> QED BY <1>2, <1>3, <1>4 DEF Tasks

\* What a task makes of a store is a store, in which it changes its own part.
LEMMA MutatedStore ==
  ASSUME StateTyped, NEW t \in Tasks, job[t] # NoJob, NEW s \in Store
  PROVE  /\ Mutated(t, s) \in Store
         /\ t # "page" => Mutated(t, s).rules = s.rules /\ Mutated(t, s).order = s.order
         /\ t = "page" => /\ Mutated(t, s).rules = job[t].rules /\ Mutated(t, s).order = job[t].order
         /\ t # "source" => Mutated(t, s).docs = s.docs
         /\ t = "source" => Mutated(t, s).docs = [s.docs EXCEPT ![job[t].item] = job[t].new]
         /\ t # "policy" => Mutated(t, s).pol = s.pol
         /\ Mutated(t, s).nodes = s.nodes
<1>1. CASE t = "page"
  <2>1. job[t] \in PageJob
    BY <1>1 DEF StateTyped
  <2> QED BY <1>1, <2>1 DEF Mutated, Store, PageJob
<1>2. CASE t = "source"
  <2>1. job[t] \in SourceJob
    BY <1>2 DEF StateTyped
  <2> QED BY <1>2, <2>1 DEF Mutated, Store, SourceJob
<1>3. CASE t = "policy"
  <2>1. job[t] \in PolicyJob
    BY <1>3 DEF StateTyped
  <2> QED BY <1>3, <2>1 DEF Mutated, Store, PolicyJob
<1> QED BY <1>1, <1>2, <1>3 DEF Tasks

\* What a transaction has at its hands.
LEMMA Held ==
  ASSUME StateTyped, LockIsHeld, tx.stage # "none"
  PROVE  /\ tx.stage \in {"staged", "installed"} /\ tx.of \in Tasks
         /\ tx.before \in Store /\ tx.after \in Store /\ store \in Store
         /\ job[tx.of] # NoJob /\ job[tx.of].stage = "working"
         /\ tx.after = Mutated(tx.of, tx.before)
         /\ tx.stage = "staged" => Agree(store, tx.before)
         /\ tx.stage = "installed" => Agree(store, tx.after)
         /\ tx.of = "page" /\ Clear({"mingled"}) =>
              store.order = IF tx.stage = "staged" THEN tx.before.order ELSE tx.after.order
<1>1. tx \in [stage : {"staged", "installed"}, of : Tasks, before : Store, after : Store]
  BY DEF StateTyped, NoTx
<1>2. job[tx.of].stage = "working"
  BY <1>1 DEF LockIsHeld
<1>3. job[tx.of] # NoJob
  BY <1>2 DEF NoJob
<1> QED BY <1>1, <1>2, <1>3 DEF LockIsHeld, StateTyped

\* The fields of what a roll back would leave.
LEMMA UndoneStore ==
  ASSUME StateTyped, LockIsHeld
  PROVE  /\ Undone \in Store
         /\ tx.stage # "installed" => Undone = store
         /\ tx.stage = "installed" =>
              /\ Undone.rules = tx.before.rules /\ Undone.docs = tx.before.docs
              /\ Undone.pol = tx.before.pol /\ Undone.nodes = tx.before.nodes
              /\ Undone.order = IF tx.of = "page" THEN tx.before.order ELSE store.order
<1>1. CASE tx.stage # "installed"
  BY <1>1 DEF Undone, StateTyped
<1>2. CASE tx.stage = "installed"
  <2>1. tx.before \in Store /\ store \in Store
    BY <1>2, Held
  <2> QED BY <1>2, <2>1 DEF Undone, Store
<1> QED BY <1>1, <1>2

\* The lock is taken.
LEMMA BeginStep == ASSUME RulesInv, NEW t \in Tasks, Begin(t) PROVE RulesInv'
<1> USE DEF RulesInv
<1>1. /\ tx = NoTx /\ job[t].stage = "queued" /\ job' = [job EXCEPT ![t].stage = "working"]
      /\ tx' = [stage |-> "staged", of |-> t, before |-> store, after |-> Mutated(t, store)]
      /\ UNCHANGED <<store, ui, kernel, astray>>
  BY DEF Begin
<1>2. job[t] # NoJob /\ store \in Store /\ tx.stage = "none" /\ "working" \in Stages
  BY <1>1 DEF NoJob, NoTx, StateTyped, Stages
<1>3. Mutated(t, store) \in Store
  BY <1>2, MutatedStore
<1>4. /\ job'[t].stage = "working" /\ job'[t] # NoJob
      /\ \A v \in Tasks : v # t => job'[v] = job[v]
      /\ job' \in [Tasks -> PageJob \cup SourceJob \cup PolicyJob \cup {NoJob}]
      /\ job'["page"] \in PageJob \cup {NoJob}
      /\ job'["source"] \in SourceJob \cup {NoJob}
      /\ job'["policy"] \in PolicyJob \cup {NoJob}
      /\ t = "page" => /\ job'[t].rules = job[t].rules /\ job'[t].order = job[t].order
                       /\ job'[t].undo = job[t].undo
      /\ t # "page" => job'[t].item = job[t].item /\ job'[t].new = job[t].new
  BY <1>1, <1>2, JobMoves
<1>5. Mutated(t, store)' = Mutated(t, store)
  <2>1. \A s : Mutated(t, s)' = Mutated(t, s)
    BY <1>1, <1>2, MutatedIsAboutTheTask
  <2> QED BY <1>1, <2>1 DEF Mutated
<1>6. /\ tx'.stage = "staged" /\ tx'.of = t /\ tx'.before = store /\ tx'.after = Mutated(t, store)
      /\ tx' \in [stage : {"staged", "installed"}, of : Tasks, before : Store, after : Store]
  BY <1>1, <1>2, <1>3
<1>7. Undone' = Undone /\ Base' = Base /\ (Busy <=> Busy')
  <2>1. Undone' = Undone
    BY <1>1, <1>2, <1>6 DEF Undone
  <2>2. CASE t = "page"
    BY <1>1, <1>2, <1>4, <2>1, <2>2 DEF Base, Busy
  <2>3. CASE t # "page"
    <3>1. job'["page"] = job["page"]
      BY <1>4, <2>3 DEF Tasks
    <3> QED BY <1>1, <2>1, <3>1 DEF Base, Busy
  <2> QED BY <2>2, <2>3
<1>8. Busy => /\ job'["page"].rules = job["page"].rules /\ job'["page"].order = job["page"].order
              /\ job'["page"].undo = job["page"].undo
  <2>1. CASE t = "page"
    BY <1>4, <2>1
  <2>2. CASE t # "page"
    <3>1. job'["page"] = job["page"]
      BY <1>4, <2>2 DEF Tasks
    <3> QED BY <3>1
  <2> QED BY <2>1, <2>2
<1>9. StateTyped'
  BY <1>1, <1>4, <1>6 DEF StateTyped
<1>10. LockIsHeld'
  <2>1. \A v \in Tasks : job'[v].stage = "working" <=> v = t
    BY <1>2, <1>4 DEF LockIsHeld
  <2>2. tx'.after = Mutated(tx.of, tx.before)'
    <3>1. CASE t = "page"
      BY <1>1, <1>4, <1>5, <1>6, <3>1 DEF Mutated
    <3>2. CASE t = "source"
      BY <1>1, <1>4, <1>5, <1>6, <3>2 DEF Mutated
    <3>3. CASE t = "policy"
      BY <1>1, <1>4, <1>5, <1>6, <3>3 DEF Mutated
    <3> QED BY <3>1, <3>2, <3>3 DEF Tasks
  <2> QED BY <1>1, <1>6, <2>1, <2>2 DEF LockIsHeld, Agree, Clear
<1>11. SourcesInStep'
  <2>1. CASE t = "source"
    BY <1>1, <1>2, <1>4, <1>7, <2>1 DEF SourcesInStep
  <2>2. CASE t # "source"
    <3>1. job'["source"] = job["source"]
      BY <1>4, <2>2 DEF Tasks
    <3> QED BY <1>1, <1>7, <3>1 DEF SourcesInStep
  <2> QED BY <2>1, <2>2
<1>12. OrdersAreKnown'
  BY <1>1, <1>6, <1>7, <1>8 DEF OrdersAreKnown
<1>13. RulesInStep'
  BY <1>1, <1>7, <1>8 DEF RulesInStep, Clear
<1>14. OrderInStep'
  BY <1>1, <1>7, <1>8 DEF OrderInStep, Clear
<1>15. KernelInStep'
  BY <1>1, <1>7 DEF KernelInStep, Clear
<1> QED BY <1>9, <1>10, <1>11, <1>12, <1>13, <1>14, <1>15

\* A transaction has ended.
LEMMA Ended ==
  ASSUME StateTyped, LockIsHeld, tx.stage # "none", NEW outcome \in {"ok", "failed"}, Ends(outcome)
  PROVE  /\ tx' = NoTx /\ tx'.stage = "none"
         /\ \A v \in Tasks : job'[v].stage # "working"
         /\ \A v \in Tasks : v # tx.of => job'[v] = job[v]
         /\ tx.of = "policy" => job'["policy"] = NoJob
         /\ tx.of # "policy" => job'[tx.of] # NoJob /\ job'[tx.of].stage = outcome
         /\ tx.of = "page" => /\ job'["page"].rules = job["page"].rules
                              /\ job'["page"].order = job["page"].order
                              /\ job'["page"].undo = job["page"].undo
         /\ tx.of = "source" => /\ job'["source"].item = job["source"].item
                                /\ job'["source"].new = job["source"].new
         /\ job' \in [Tasks -> PageJob \cup SourceJob \cup PolicyJob \cup {NoJob}]
         /\ job'["page"] \in PageJob \cup {NoJob}
         /\ job'["source"] \in SourceJob \cup {NoJob}
         /\ job'["policy"] \in PolicyJob \cup {NoJob}
<1>1. tx.of \in Tasks /\ job[tx.of] # NoJob /\ job \in [Tasks -> PageJob \cup SourceJob \cup PolicyJob \cup {NoJob}]
  BY Held DEF StateTyped
<1>2. tx' = NoTx /\ tx'.stage = "none"
  BY DEF Ends, NoTx
<1>3. \A v \in Tasks : v # tx.of => job[v].stage # "working"
  BY DEF LockIsHeld
<1>4. CASE tx.of = "policy"
  <2>1. job' = [job EXCEPT !["policy"] = NoJob]
    BY <1>4 DEF Ends
  <2>2. job'["policy"] = NoJob /\ \A v \in Tasks : v # "policy" => job'[v] = job[v]
    BY <1>1, <2>1 DEF Tasks
  <2>3. NoJob.stage # "working"
    BY DEF NoJob
  <2>4. job'["page"] = job["page"] /\ job'["source"] = job["source"]
    BY <2>2 DEF Tasks
  <2>5. job' \in [Tasks -> PageJob \cup SourceJob \cup PolicyJob \cup {NoJob}]
    BY <1>1, <2>1
  <2> QED BY <1>2, <1>3, <1>4, <2>2, <2>3, <2>4, <2>5 DEF StateTyped
<1>5. CASE tx.of # "policy"
  <2>1. job' = [job EXCEPT ![tx.of].stage = outcome]
    BY <1>5 DEF Ends
  <2>2. outcome \in Stages /\ outcome # "working"
    BY DEF Stages
  <2> DEFINE t == tx.of
  <2>3. t \in Tasks /\ job' = [job EXCEPT ![t].stage = outcome] /\ job[t] # NoJob
    BY <1>1, <2>1
  <2> HIDE DEF t
  <2>4. /\ job'[t] # NoJob /\ job'[t].stage = outcome
        /\ \A v \in Tasks : v # t => job'[v] = job[v]
        /\ job' \in [Tasks -> PageJob \cup SourceJob \cup PolicyJob \cup {NoJob}]
        /\ job'["page"] \in PageJob \cup {NoJob}
        /\ job'["source"] \in SourceJob \cup {NoJob}
        /\ job'["policy"] \in PolicyJob \cup {NoJob}
        /\ t = "page" => /\ job'[t].rules = job[t].rules /\ job'[t].order = job[t].order
                         /\ job'[t].undo = job[t].undo
        /\ t # "page" => job'[t].item = job[t].item /\ job'[t].new = job[t].new
    BY <2>2, <2>3, JobMoves
  <2> QED BY <1>2, <1>3, <1>5, <2>2, <2>4 DEF t
<1> QED BY <1>4, <1>5

\* A function with the fields of a store is one.
LEMMA StoreByFields ==
  ASSUME NEW f, DOMAIN f = {"rules", "order", "docs", "pol", "nodes"},
         f = [e \in DOMAIN f |-> f[e]],
         NEW s \in Store, NEW t \in Store,
         \A e \in DOMAIN f : f[e] = s[e] \/ f[e] = t[e]
  PROVE  f \in Store
<1>1. f = [rules |-> f["rules"], order |-> f["order"], docs |-> f["docs"],
           pol |-> f["pol"], nodes |-> f["nodes"]]
  OBVIOUS
<1>2. /\ f["rules"] \in Seq(Rule) /\ f["order"] \in Seq(Groups) /\ f["docs"] \in Docs
      /\ f["pol"] \in [Policies -> SUBSET (Policies \cup {Node}) \cup {Absent}]
      /\ f["nodes"] \in BOOLEAN
  BY DEF Store, Docs
<1> QED BY <1>1, <1>2 DEF Store, Docs

\* How the change of the transaction differs from the copy.
LEMMA HeldChange ==
  ASSUME StateTyped, LockIsHeld, tx.stage # "none"
  PROVE  /\ tx.of # "page" => tx.after.rules = tx.before.rules /\ tx.after.order = tx.before.order
         /\ tx.of = "page" => tx.after.rules = job["page"].rules /\ tx.after.order = job["page"].order
         /\ tx.of # "source" => tx.after.docs = tx.before.docs
         /\ tx.of = "source" =>
              tx.after.docs = [tx.before.docs EXCEPT ![job["source"].item] = job["source"].new]
<1> DEFINE t == tx.of
           s == tx.before
<1>1. t \in Tasks /\ job[t] # NoJob /\ s \in Store /\ tx.after = Mutated(t, s)
  BY Held
<1> HIDE DEF t, s
<1>2. /\ Mutated(t, s) \in Store
      /\ t # "page" => Mutated(t, s).rules = s.rules /\ Mutated(t, s).order = s.order
      /\ t = "page" => /\ Mutated(t, s).rules = job[t].rules /\ Mutated(t, s).order = job[t].order
      /\ t # "source" => Mutated(t, s).docs = s.docs
      /\ t = "source" => Mutated(t, s).docs = [s.docs EXCEPT ![job[t].item] = job[t].new]
  BY <1>1, MutatedStore
<1> QED BY <1>1, <1>2 DEF t, s

\* A transaction that ends without effect leaves what its roll back left.
LEMMA FailStep ==
  ASSUME RulesInv, tx.stage # "none", Ends("failed"), UNCHANGED <<ui, kernel, astray>>,
         store' \in Store, Agree(store', Undone),
         store'.order = Undone.order \/ (store'.order = store.order /\ ~Clear({"mingled"}))
  PROVE  RulesInv'
<1> USE DEF RulesInv
<1>1. /\ tx' = NoTx /\ tx'.stage = "none"
      /\ \A v \in Tasks : job'[v].stage # "working"
      /\ \A v \in Tasks : v # tx.of => job'[v] = job[v]
      /\ tx.of = "policy" => job'["policy"] = NoJob
      /\ tx.of # "policy" => job'[tx.of] # NoJob /\ job'[tx.of].stage = "failed"
      /\ tx.of = "page" => /\ job'["page"].rules = job["page"].rules
                           /\ job'["page"].order = job["page"].order
                           /\ job'["page"].undo = job["page"].undo
      /\ tx.of = "source" => /\ job'["source"].item = job["source"].item
                             /\ job'["source"].new = job["source"].new
      /\ job' \in [Tasks -> PageJob \cup SourceJob \cup PolicyJob \cup {NoJob}]
      /\ job'["page"] \in PageJob \cup {NoJob}
      /\ job'["source"] \in SourceJob \cup {NoJob}
      /\ job'["policy"] \in PolicyJob \cup {NoJob}
  BY Ended
<1>2. tx.of \in Tasks /\ job[tx.of] # NoJob /\ job[tx.of].stage = "working"
  BY Held
<1>3. Undone' = store'
  BY <1>1 DEF Undone
<1>4. Base' = Base /\ (Busy <=> Busy')
  <2>1. CASE tx.of = "page"
    BY <1>1, <1>2, <2>1 DEF Base, Busy
  <2>2. CASE tx.of # "page"
    <3>1. job'["page"] = job["page"]
      BY <1>1, <2>2 DEF Tasks
    <3> QED BY <3>1 DEF Base, Busy
  <2> QED BY <2>1, <2>2
<1>5. Busy => /\ job'["page"].rules = job["page"].rules /\ job'["page"].order = job["page"].order
              /\ job'["page"].undo = job["page"].undo
  <2>1. CASE tx.of = "page"
    BY <1>1, <2>1
  <2>2. CASE tx.of # "page"
    <3>1. job'["page"] = job["page"]
      BY <1>1, <2>2 DEF Tasks
    <3> QED BY <3>1
  <2> QED BY <2>1, <2>2
<1>6. StateTyped'
  BY <1>1 DEF StateTyped
<1>7. LockIsHeld'
  BY <1>1 DEF LockIsHeld
<1>8. SourcesInStep'
  <2>1. Undone'.docs = Undone.docs
    BY <1>3 DEF Agree
  <2>2. CASE tx.of = "source"
    BY <1>1, <1>2, <2>1, <2>2 DEF SourcesInStep
  <2>3. CASE tx.of # "source"
    <3>1. job'["source"] = job["source"]
      BY <1>1, <2>3 DEF Tasks
    <3> QED BY <2>1, <3>1 DEF SourcesInStep
  <2> QED BY <2>2, <2>3
<1>9. OrdersAreKnown'
  <2>1. Range(store'.order) \subseteq Known(ui.docs)
    BY UndoneStore DEF OrdersAreKnown
  <2> QED BY <1>1, <1>4, <1>5, <2>1 DEF OrdersAreKnown
<1>10. RulesInStep'
  BY <1>3, <1>4, <1>5 DEF RulesInStep, Clear, Agree
<1>11. OrderInStep'
  BY <1>3, <1>4, <1>5 DEF OrderInStep, Clear, Agree
<1>12. KernelInStep'
  <2>1. SUFFICES ASSUME Clear({"mingled", "blind", "unread"}) PROVE kernel = Compile(store')
    BY <1>3 DEF KernelInStep, Clear
  <2>2. store'.order = Undone.order
    BY <2>1 DEF Clear
  <2>3. Compile(store') = Compile(Undone)
    BY <2>2, CompilesAlike DEF Alike
  <2> QED BY <2>1, <2>3 DEF KernelInStep
<1> QED BY <1>6, <1>7, <1>8, <1>9, <1>10, <1>11, <1>12

\* The change is installed, or refused because an entry has changed.
LEMMA InstallStep == ASSUME RulesInv, InstallAll PROVE RulesInv'
<1> USE DEF RulesInv
<1>1. tx.stage = "staged" /\ tx.stage # "none" /\ UNCHANGED <<ui, kernel, astray>>
  BY DEF InstallAll
<1>2. /\ tx.of \in Tasks /\ tx.before \in Store /\ tx.after \in Store /\ store \in Store
      /\ job[tx.of] # NoJob /\ tx.after = Mutated(tx.of, tx.before)
      /\ Agree(store, tx.before)
      /\ tx.of = "page" /\ Clear({"mingled"}) => store.order = tx.before.order
  BY <1>1, Held
<1>3. Undone = store
  BY <1>1, UndoneStore
<1>4. CASE \A e \in Touched : store[e] = tx.before[e]
  <2>1. /\ store' = [e \in DOMAIN store |-> IF e \in Touched THEN tx.after[e] ELSE store[e]]
        /\ tx' = [tx EXCEPT !.stage = "installed"] /\ UNCHANGED job
    BY <1>4 DEF InstallAll
  <2>2. DOMAIN store = {"rules", "order", "docs", "pol", "nodes"}
    BY <1>2 DEF Store
  <2>3. \A e \in DOMAIN store : store'[e] = IF tx.before[e] # tx.after[e] THEN tx.after[e] ELSE store[e]
    BY <2>1 DEF Touched
  <2>4. store' \in Store
    <3>1. DOMAIN store' = {"rules", "order", "docs", "pol", "nodes"} /\ store' = [e \in DOMAIN store' |-> store'[e]]
      BY <2>1, <2>2
    <3>2. \A e \in DOMAIN store' : store'[e] = tx.after[e] \/ store'[e] = store[e]
      BY <2>2, <2>3, <3>1
    <3> QED BY <1>2, <3>1, <3>2, StoreByFields
  <2>5. Agree(store', tx.after)
    BY <1>2, <2>2, <2>3 DEF Agree
  <2>6. /\ tx.of # "page" => store'.order = store.order
        /\ tx.of = "page" /\ Clear({"mingled"}) => store'.order = tx.after.order
        /\ store'.order = store.order \/ store'.order = tx.after.order
    <3>1. tx.of # "page" => tx.after.order = tx.before.order
      BY <1>2, HeldChange, <1>1
    <3> QED BY <1>2, <2>2, <2>3, <3>1
  <2>7. /\ tx'.stage = "installed" /\ tx'.of = tx.of /\ tx'.before = tx.before /\ tx'.after = tx.after
        /\ tx' \in [stage : {"staged", "installed"}, of : Tasks, before : Store, after : Store]
    BY <1>1, <1>2, <2>1 DEF StateTyped, NoTx
  <2>8. StateTyped'
    BY <1>1, <2>1, <2>4, <2>7 DEF StateTyped
  <2>9. LockIsHeld'
    <3>1. Mutated(tx.of, tx.before)' = Mutated(tx.of, tx.before)
      BY <2>1, <2>7 DEF Mutated
    <3> QED BY <1>1, <1>2, <2>1, <2>5, <2>6, <2>7, <3>1 DEF LockIsHeld, Clear
  <2>10. /\ Agree(Undone', Undone)
         /\ Undone'.order = Undone.order \/ (tx.of = "page" /\ ~Clear({"mingled"}))
    <3>1. /\ Undone'.rules = tx.before.rules /\ Undone'.docs = tx.before.docs
          /\ Undone'.pol = tx.before.pol /\ Undone'.nodes = tx.before.nodes
          /\ Undone'.order = IF tx.of = "page" THEN tx.before.order ELSE store'.order
      BY <1>2, <2>7 DEF Undone, Store
    <3> QED BY <1>2, <1>3, <2>6, <3>1 DEF Agree
  <2>11. Base' = Base /\ Busy' = Busy
    BY <1>1, <2>1 DEF Base, Busy
  <2>12. SourcesInStep'
    BY <1>1, <2>1, <2>10 DEF SourcesInStep, Agree
  <2>13. OrdersAreKnown'
    <3>1. tx.of = "page" => tx.after.order = job["page"].order /\ Busy
      BY <1>1, <1>2, HeldChange DEF Busy
    <3>2. Range(store'.order) \subseteq Known(ui.docs)
      BY <2>6, <3>1 DEF OrdersAreKnown
    <3> QED BY <1>1, <2>1, <2>7, <2>11, <3>2 DEF OrdersAreKnown
  <2>14. RulesInStep'
    BY <1>1, <2>1, <2>10, <2>11 DEF RulesInStep, Clear, Agree
  <2>15. OrderInStep'
    BY <1>1, <2>1, <2>10, <2>11 DEF OrderInStep, Clear, Agree
  <2>16. KernelInStep'
    <3>1. SUFFICES ASSUME Clear({"mingled", "blind", "unread"}) PROVE kernel = Compile(Undone')
      BY <1>1 DEF KernelInStep, Clear
    <3>2. Undone'.order = Undone.order
      BY <2>10, <3>1 DEF Clear
    <3>3. Compile(Undone') = Compile(Undone)
      BY <2>10, <3>2, CompilesAlike DEF Alike
    <3> QED BY <3>1, <3>3 DEF KernelInStep
  <2> QED BY <2>8, <2>9, <2>12, <2>13, <2>14, <2>15, <2>16
<1>5. CASE ~\A e \in Touched : store[e] = tx.before[e]
  <2>1. Ends("failed") /\ store' = store
    BY <1>5 DEF InstallAll
  <2> QED BY <1>1, <1>2, <1>3, <2>1, FailStep DEF Agree
<1> QED BY <1>4, <1>5

\* It is taken back.
LEMMA RollBackStep == ASSUME RulesInv, RollBack PROVE RulesInv'
<1> USE DEF RulesInv
<1>1. /\ tx.stage = "installed" /\ tx.stage # "none" /\ UNCHANGED <<ui, kernel, astray>>
      /\ store' = [e \in DOMAIN store |->
                    IF e \in Touched /\ store[e] = tx.after[e] THEN tx.before[e] ELSE store[e]]
      /\ Ends("failed")
  BY DEF RollBack
<1>2. /\ tx.of \in Tasks /\ tx.before \in Store /\ tx.after \in Store /\ store \in Store
      /\ job[tx.of] # NoJob /\ tx.after = Mutated(tx.of, tx.before)
      /\ Agree(store, tx.after)
      /\ tx.of = "page" /\ Clear({"mingled"}) => store.order = tx.after.order
  BY <1>1, Held
<1>3. DOMAIN store = {"rules", "order", "docs", "pol", "nodes"}
  BY <1>2 DEF Store
<1>4. \A e \in DOMAIN store :
        store'[e] = IF tx.before[e] # tx.after[e] /\ store[e] = tx.after[e]
                    THEN tx.before[e] ELSE store[e]
  BY <1>1 DEF Touched
<1>5. store' \in Store
  <2>1. DOMAIN store' = {"rules", "order", "docs", "pol", "nodes"} /\ store' = [e \in DOMAIN store' |-> store'[e]]
    BY <1>1, <1>3
  <2>2. \A e \in DOMAIN store' : store'[e] = tx.before[e] \/ store'[e] = store[e]
    BY <1>3, <1>4, <2>1
  <2> QED BY <1>2, <2>1, <2>2, StoreByFields
<1>6. Agree(store', tx.before)
  BY <1>2, <1>3, <1>4 DEF Agree
<1>7. /\ Undone.rules = tx.before.rules /\ Undone.docs = tx.before.docs
      /\ Undone.pol = tx.before.pol /\ Undone.nodes = tx.before.nodes
      /\ Undone.order = IF tx.of = "page" THEN tx.before.order ELSE store.order
  BY <1>1, UndoneStore
<1>8. store'.order = Undone.order \/ (store'.order = store.order /\ ~Clear({"mingled"}))
  <2>1. tx.of # "page" => tx.after.order = tx.before.order
    BY <1>1, HeldChange
  <2> QED BY <1>2, <1>3, <1>4, <1>7, <2>1
<1>9. Agree(store', Undone)
  BY <1>6, <1>7 DEF Agree
<1> QED BY <1>1, <1>5, <1>8, <1>9, FailStep

\* What the store has of the sources is what is shown, or a task ahead of it.
LEMMA StoreIsInTurn ==
  ASSUME RulesInv
  PROVE  InTurn(store.docs) /\ Known(ui.docs) \subseteq Known(store.docs)
<1> USE DEF RulesInv
<1>1. InTurn(Undone.docs) /\ Known(ui.docs) \subseteq Known(Undone.docs)
  <2>1. CASE job["source"].stage = "ok"
    <3>1. job["source"].item \in Sources /\ ui.docs \in Docs /\ job["source"] # NoJob
      BY <2>1 DEF StateTyped, SourceJob, NoJob
    <3>2. Undone.docs = [ui.docs EXCEPT ![job["source"].item] = job["source"].new]
      BY <2>1 DEF SourcesInStep
    <3>3. InTurn(ui.docs) /\ Legal(ui.docs, job["source"].item, job["source"].new)
      BY <3>1 DEF SourcesInStep
    <3> QED BY <3>1, <3>2, <3>3, TurnsAreKept
  <2>2. CASE job["source"].stage # "ok"
    BY <2>2 DEF SourcesInStep
  <2> QED BY <2>1, <2>2
<1>2. CASE tx.stage # "installed"
  BY <1>1, <1>2, UndoneStore
<1>3. CASE tx.stage = "installed"
  <2>1. store.docs = tx.after.docs /\ Undone.docs = tx.before.docs
    BY <1>3, Held, UndoneStore DEF Agree
  <2>2. CASE tx.of # "source"
    BY <1>1, <1>3, <2>1, <2>2, HeldChange
  <2>3. CASE tx.of = "source"
    <3>1. job["source"].stage = "working" /\ job["source"] # NoJob
      BY <1>3, <2>3, Held
    <3>2. Undone.docs = ui.docs /\ InTurn(ui.docs) /\ Legal(ui.docs, job["source"].item, job["source"].new)
      BY <3>1 DEF SourcesInStep
    <3>3. store.docs = [ui.docs EXCEPT ![job["source"].item] = job["source"].new]
      BY <1>3, <2>1, <2>3, <3>2, HeldChange
    <3>4. job["source"].item \in Sources /\ ui.docs \in Docs
      BY <3>1 DEF StateTyped, SourceJob
    <3> QED BY <3>2, <3>3, <3>4, TurnsAreKept
  <2> QED BY <2>2, <2>3
<1> QED BY <1>2, <1>3

\* The application ends and is launched again.
LEMMA RelaunchStep == ASSUME RulesInv, Relaunch PROVE RulesInv'
<1>1. /\ ui' = Launched(store) /\ tx' = NoTx /\ job' = [t \in Tasks |-> NoJob]
      /\ kernel' = Compile(store) /\ UNCHANGED <<store, astray>>
  BY DEF Relaunch
<1>2. store \in Store /\ InTurn(store.docs) /\ Range(store.order) \subseteq Known(store.docs)
  BY StoreIsInTurn DEF RulesInv, StateTyped, OrdersAreKnown
<1>3. StateTyped'
  BY <1>1, <1>2 DEF StateTyped, Launched, Store, Docs, Tasks
<1>4. LockIsHeld'
  BY <1>1 DEF LockIsHeld, NoTx, NoJob, Tasks
<1>5. Undone' = store' /\ Base' = ui'
  BY <1>1 DEF Undone, NoTx, Base, NoJob, Tasks
<1>6. SourcesInStep'
  BY <1>1, <1>2, <1>5 DEF SourcesInStep, NoJob, Launched, Tasks
<1>7. OrdersAreKnown'
  BY <1>1, <1>2 DEF OrdersAreKnown, Launched, NoTx, Busy, NoJob, Tasks
<1>8. RulesInStep'
  BY <1>1, <1>5 DEF RulesInStep, Launched, Busy, NoJob, Tasks
<1>9. OrderInStep'
  BY <1>1, <1>5 DEF OrderInStep, Alike, Launched, Busy, NoJob, Tasks
<1>10. KernelInStep'
  BY <1>1, <1>5 DEF KernelInStep
<1> QED BY <1>3, <1>4, <1>6, <1>7, <1>8, <1>9, <1>10 DEF RulesInv

\* The kernel has accepted the change.
LEMMA AcceptStep == ASSUME RulesInv, Accept PROVE RulesInv'
<1> USE DEF RulesInv
<1>1. /\ tx.stage = "installed" /\ tx.stage # "none" /\ tx.stage # "staged" /\ Ends("ok")
      /\ kernel' = Compile(store) /\ UNCHANGED <<store, ui, astray>>
  BY DEF Accept
<1>2. /\ tx' = NoTx /\ tx'.stage = "none"
      /\ \A v \in Tasks : job'[v].stage # "working"
      /\ \A v \in Tasks : v # tx.of => job'[v] = job[v]
      /\ tx.of = "policy" => job'["policy"] = NoJob
      /\ tx.of # "policy" => job'[tx.of] # NoJob /\ job'[tx.of].stage = "ok"
      /\ tx.of = "page" => /\ job'["page"].rules = job["page"].rules
                           /\ job'["page"].order = job["page"].order
                           /\ job'["page"].undo = job["page"].undo
      /\ tx.of = "source" => /\ job'["source"].item = job["source"].item
                             /\ job'["source"].new = job["source"].new
      /\ job' \in [Tasks -> PageJob \cup SourceJob \cup PolicyJob \cup {NoJob}]
      /\ job'["page"] \in PageJob \cup {NoJob}
      /\ job'["source"] \in SourceJob \cup {NoJob}
      /\ job'["policy"] \in PolicyJob \cup {NoJob}
  BY <1>1, Ended
<1>3. /\ tx.of \in Tasks /\ job[tx.of] # NoJob /\ job[tx.of].stage = "working"
      /\ tx.before \in Store /\ tx.after \in Store
      /\ Agree(store, tx.after)
      /\ tx.of = "page" /\ Clear({"mingled"}) => store.order = tx.after.order
  BY <1>1, Held
<1>4. /\ tx.of # "page" => tx.after.rules = tx.before.rules /\ tx.after.order = tx.before.order
      /\ tx.of = "page" => tx.after.rules = job["page"].rules /\ tx.after.order = job["page"].order
      /\ tx.of # "source" => tx.after.docs = tx.before.docs
      /\ tx.of = "source" =>
           tx.after.docs = [tx.before.docs EXCEPT ![job["source"].item] = job["source"].new]
  BY <1>1, HeldChange
<1>5. /\ Undone.rules = tx.before.rules /\ Undone.docs = tx.before.docs
      /\ Undone.order = IF tx.of = "page" THEN tx.before.order ELSE store.order
  BY <1>1, UndoneStore
<1>6. Undone' = store /\ store' = store /\ ui' = ui /\ astray' = astray
  BY <1>1, <1>2 DEF Undone
<1>7. StateTyped'
  BY <1>1, <1>2 DEF StateTyped
<1>8. LockIsHeld'
  BY <1>2 DEF LockIsHeld
<1>9. KernelInStep'
  BY <1>1, <1>6 DEF KernelInStep
<1>10. CASE tx.of = "page"
  <2>1. store.docs = Undone.docs /\ store.rules = job["page"].rules
    BY <1>3, <1>4, <1>5, <1>10 DEF Agree
  <2>2. Base' = ui /\ Busy' /\ Busy
    BY <1>1, <1>2, <1>3, <1>10 DEF Base, Busy
  <2>3. job'["source"] = job["source"]
    BY <1>2, <1>10 DEF Tasks
  <2>4. SourcesInStep'
    BY <1>6, <2>1, <2>3 DEF SourcesInStep
  <2>5. OrdersAreKnown'
    BY <1>2, <1>6, <1>10, <2>2 DEF OrdersAreKnown
  <2>6. RulesInStep'
    BY <1>2, <1>6, <1>10, <2>1, <2>2 DEF RulesInStep
  <2>7. OrderInStep'
    <3>1. SUFFICES ASSUME Clear({"mingled", "unread"}), Clear({"blind"}) \/ Clear({"unsaved"})
                   PROVE  /\ Alike(ui.order, store.order, store.rules, store.docs)
                          /\ Alike(ui.order, job["page"].order, job["page"].rules, store.docs)
      BY <1>2, <1>6, <1>10, <2>2 DEF OrderInStep, Clear
    <3>2. Alike(ui.order, job["page"].order, job["page"].rules, Undone.docs)
      BY <2>2, <3>1 DEF OrderInStep
    <3>3. store.order = job["page"].order
      BY <1>3, <1>4, <1>10, <3>1 DEF Clear
    <3> QED BY <2>1, <3>2, <3>3
  <2> QED BY <1>7, <1>8, <1>9, <2>4, <2>5, <2>6, <2>7
<1>11. CASE tx.of # "page"
  <2>1. job'["page"] = job["page"] /\ Base' = Base /\ (Busy' <=> Busy)
    <3>1. job'["page"] = job["page"]
      BY <1>2, <1>11 DEF Tasks
    <3> QED BY <1>6, <3>1 DEF Base, Busy
  <2>2. Undone.rules = store.rules /\ Undone.order = store.order
    BY <1>3, <1>4, <1>5, <1>11 DEF Agree
  <2>3. OrdersAreKnown'
    BY <1>2, <1>6, <2>1 DEF OrdersAreKnown
  <2>4. RulesInStep'
    BY <1>6, <2>1, <2>2 DEF RulesInStep, Clear
  <2>5. CASE tx.of = "policy"
    <3>1. store.docs = Undone.docs
      BY <1>3, <1>4, <1>5, <2>5 DEF Agree
    <3>2. job'["source"] = job["source"]
      BY <1>2, <2>5 DEF Tasks
    <3>3. SourcesInStep'
      BY <1>6, <3>1, <3>2 DEF SourcesInStep
    <3>4. OrderInStep'
      BY <1>6, <2>1, <2>2, <3>1 DEF OrderInStep, Clear
    <3> QED BY <1>7, <1>8, <1>9, <2>3, <2>4, <3>3, <3>4
  <2>6. CASE tx.of = "source"
    <3> DEFINE item == job["source"].item
               new == job["source"].new
    <3>1. /\ Undone.docs = ui.docs /\ InTurn(ui.docs) /\ Legal(ui.docs, item, new)
          /\ ui.docs \in Docs /\ item \in Sources
      BY <1>3, <2>6 DEF SourcesInStep, StateTyped, SourceJob
    <3>2. store.docs = [ui.docs EXCEPT ![item] = new]
      BY <1>3, <1>4, <1>5, <2>6, <3>1 DEF Agree
    <3>3. SourcesInStep'
      BY <1>2, <1>6, <2>6, <3>1, <3>2 DEF SourcesInStep
    <3> HIDE DEF item, new
    <3>4. /\ ui.order \in Seq(Groups) /\ Range(ui.order) \subseteq Known(ui.docs)
          /\ store.order \in Seq(Groups) /\ Range(store.order) \subseteq Known(ui.docs)
          /\ Base.order \in Seq(Groups) /\ Range(Base.order) \subseteq Known(ui.docs)
          /\ Busy => /\ job["page"].order \in Seq(Groups)
                     /\ Range(job["page"].order) \subseteq Known(ui.docs)
      BY DEF StateTyped, PageJob, OrdersAreKnown, Base, Busy, Store, NoJob
    <3>5. OrderInStep'
      <4>1. SUFFICES ASSUME Clear({"mingled", "unread"}), Clear({"blind"}) \/ Clear({"unsaved"})
                     PROVE  /\ Alike(Base.order, store.order, store.rules, store.docs)
                            /\ Busy => Alike(ui.order, job["page"].order, job["page"].rules, store.docs)
        BY <1>6, <2>1 DEF OrderInStep, Clear
      <4>2. /\ Alike(Base.order, store.order, store.rules, ui.docs)
            /\ Busy => Alike(ui.order, job["page"].order, job["page"].rules, ui.docs)
        BY <2>2, <3>1, <4>1 DEF OrderInStep
      <4>3. Alike(Base.order, store.order, store.rules, [ui.docs EXCEPT ![item] = new])
        BY <3>1, <3>4, <4>2, AlikeStable
      <4>4. ASSUME Busy PROVE Alike(ui.order, job["page"].order, job["page"].rules, [ui.docs EXCEPT ![item] = new])
        BY <3>1, <3>4, <4>2, <4>4, AlikeStable
      <4> QED BY <3>2, <4>3, <4>4
    <3> QED BY <1>7, <1>8, <1>9, <2>3, <2>4, <3>3, <3>5
  <2> QED BY <1>3, <1>11, <2>5, <2>6 DEF Tasks
<1> QED BY <1>10, <1>11

\* The handler of a source that has been changed, added or removed.
LEMMA FinishSourceStep == ASSUME RulesInv, FinishSource PROVE RulesInv'
<1> DEFINE t == job["source"]
           u == [ui EXCEPT !.docs[t.item] = t.new]
           D == Undone.docs
<1> USE DEF RulesInv
<1>1. /\ t.stage \in {"ok", "failed"} /\ job' = [job EXCEPT !["source"] = NoJob]
      /\ IF t.stage = "failed" THEN UNCHANGED <<store, ui, astray>>
         ELSE IF Listed(u.docs) # Listed(ui.docs) THEN Persist(u)
         ELSE ui' = u /\ UNCHANGED <<store, astray>>
      /\ UNCHANGED <<tx, kernel>>
  BY DEF FinishSource
<1>2. job \in [Tasks -> PageJob \cup SourceJob \cup PolicyJob \cup {NoJob}]
  BY DEF StateTyped
<1>3. /\ job'["source"] = NoJob /\ job'["page"] = job["page"] /\ job'["policy"] = job["policy"]
      /\ job' \in [Tasks -> PageJob \cup SourceJob \cup PolicyJob \cup {NoJob}]
      /\ \A v \in Tasks : v # "source" => job'[v] = job[v]
  BY <1>1, <1>2 DEF Tasks
<1>4. NoJob.stage = "none" /\ Busy' = Busy /\ t # NoJob
  BY <1>1, <1>3 DEF NoJob, Busy
<1>5. t.item \in Sources /\ t.new \in Doc \cup {Gone} /\ ui.docs \in Docs
  BY <1>1, <1>4 DEF StateTyped, SourceJob
<1>6. tx.stage # "none" => tx.of # "source" /\ tx.of \in Tasks
  BY <1>1 DEF LockIsHeld, StateTyped, NoTx
<1>7. tx.stage # "none" => Mutated(tx.of, tx.before)' = Mutated(tx.of, tx.before)
  <2>1. SUFFICES ASSUME tx.stage # "none"
                 PROVE  Mutated(tx.of, tx.before)' = Mutated(tx.of, tx.before)
    OBVIOUS
  <2>2. CASE tx.of = "page"
    BY <1>1, <1>3, <2>2 DEF Mutated
  <2>3. CASE tx.of = "policy"
    BY <1>1, <1>3, <2>3 DEF Mutated
  <2> QED BY <1>6, <2>1, <2>2, <2>3 DEF Tasks
<1>8. \A v \in Tasks : job'[v].stage = "working" <=> job[v].stage = "working"
  BY <1>1, <1>3, <1>4
<1>9. CASE t.stage = "failed"
  <2>1. UNCHANGED <<store, ui, tx, kernel, astray>>
    BY <1>1, <1>9
  <2>2. Undone' = Undone /\ Base' = Base
    BY <1>3, <2>1 DEF Undone, Base
  <2>3. StateTyped'
    BY <1>3, <2>1 DEF StateTyped
  <2>4. LockIsHeld'
    BY <1>7, <1>8, <2>1 DEF LockIsHeld, Clear, Agree
  <2>5. SourcesInStep'
    BY <1>3, <1>4, <1>9, <2>1, <2>2 DEF SourcesInStep
  <2>6. OrdersAreKnown'
    BY <1>3, <1>4, <2>1 DEF OrdersAreKnown
  <2>7. RulesInStep'
    BY <1>3, <1>4, <2>1, <2>2 DEF RulesInStep, Clear
  <2>8. OrderInStep'
    BY <1>3, <1>4, <2>1, <2>2 DEF OrderInStep, Clear
  <2>9. KernelInStep'
    BY <2>1, <2>2 DEF KernelInStep, Clear
  <2> QED BY <2>3, <2>4, <2>5, <2>6, <2>7, <2>8, <2>9
<1>10. CASE t.stage = "ok"
  <2>1. /\ D = [ui.docs EXCEPT ![t.item] = t.new] /\ u.docs = D
        /\ InTurn(ui.docs) /\ Legal(ui.docs, t.item, t.new)
    BY <1>4, <1>10 DEF SourcesInStep, StateTyped
  <2>2. InTurn(D) /\ D \in Docs /\ Known(ui.docs) \subseteq Known(D)
    BY <1>5, <2>1, TurnsAreKept
  <2>3. /\ u \in [rules : Seq(Rule), order : Seq(Groups), docs : Docs, loaded : BOOLEAN]
        /\ u.rules = ui.rules /\ u.order = ui.order /\ u.loaded = ui.loaded
    BY <2>1, <2>2 DEF StateTyped
  <2>4. store \in Store /\ ui.order \in Seq(Groups)
    BY DEF StateTyped
  <2>5. CASE Listed(u.docs) = Listed(ui.docs)
    <3>1. ui' = u /\ UNCHANGED <<store, tx, kernel, astray>>
      BY <1>1, <1>10, <2>5
    <3> HIDE DEF u
    <3>2. Undone' = Undone
      BY <3>1 DEF Undone
    <3>3. Base'.rules = Base.rules /\ Base'.order = Base.order
      BY <1>3, <2>3, <3>1 DEF Base
    <3>4. StateTyped'
      BY <1>3, <2>3, <3>1 DEF StateTyped
    <3>5. LockIsHeld'
      BY <1>7, <1>8, <3>1 DEF LockIsHeld, Clear, Agree
    <3>6. SourcesInStep'
      BY <1>3, <1>4, <2>1, <2>2, <3>1, <3>2 DEF SourcesInStep
    <3>7. OrdersAreKnown'
      BY <1>3, <1>4, <2>1, <2>2, <2>3, <3>1 DEF OrdersAreKnown
    <3>8. RulesInStep'
      BY <1>3, <1>4, <2>3, <3>1, <3>2, <3>3 DEF RulesInStep, Clear
    <3>9. OrderInStep'
      BY <1>3, <1>4, <2>3, <3>1, <3>2, <3>3 DEF OrderInStep, Clear
    <3>10. KernelInStep'
      BY <3>1, <3>2 DEF KernelInStep, Clear
    <3> QED BY <3>4, <3>5, <3>6, <3>7, <3>8, <3>9, <3>10
  <2>6. CASE Listed(u.docs) # Listed(ui.docs)
    <3> DEFINE n == InPlace(ui.order, ui.rules, D)
    <3>1. Persist(u)
      BY <1>1, <1>10, <2>6
    <3>2. /\ Synced(u).order = n /\ Synced(u).rules = ui.rules /\ Synced(u).docs = D
          /\ Synced(u).loaded = ui.loaded
          /\ Synced(u) = [u EXCEPT !.order = n]
      BY <2>1, <2>3 DEF Synced, ShownOrder, InPlace
    <3>3. n \in Seq(Groups) /\ Range(n) \subseteq Known(D) /\ Alike(n, ui.order, ui.rules, D)
      BY <2>4, ShownIsAlike
    <3> HIDE DEF n
    <3>4. ui' = [u EXCEPT !.order = n]
      BY <3>1, <3>2 DEF Persist, PersistAs
    <3>5. \/ /\ store' = [store EXCEPT !.order = n]
             /\ Busy => "mingled" \in astray'
             /\ ~ui.loaded /\ store.rules # <<>> => "blind" \in astray'
          \/ /\ store' = store /\ "unsaved" \in astray'
             /\ ~ui.loaded /\ store.rules # <<>> => "blind" \in astray'
      BY <2>3, <3>1, <3>2, <3>4 DEF Persist, PersistAs
    <3>6. astray \subseteq astray'
      BY <3>1 DEF Persist, PersistAs
    <3>7. /\ ui' \in [rules : Seq(Rule), order : Seq(Groups), docs : Docs, loaded : BOOLEAN]
          /\ ui'.rules = ui.rules /\ ui'.order = n /\ ui'.docs = D /\ ui'.loaded = ui.loaded
      BY <2>1, <2>3, <3>3, <3>4
    <3> HIDE DEF u
    <3>8. /\ store' \in Store /\ Agree(store', store)
          /\ store'.order = store.order \/ store'.order = n
      BY <2>4, <3>3, <3>5 DEF Store, Agree
    <3>9. store' = store \/ (store'.order = n /\ (Busy => "mingled" \in astray'))
      BY <2>4, <3>5 DEF Store
    <3>10. /\ Agree(Undone', Undone)
           /\ tx.stage # "installed" => Undone' = store' /\ Undone = store
           /\ tx.stage = "installed" /\ tx.of # "page" => Undone'.order = store'.order /\ Undone.order = store.order
           /\ tx.stage = "installed" /\ tx.of = "page" => Undone'.order = Undone.order /\ Busy
      <4>1. CASE tx.stage # "installed"
        BY <1>1, <3>8, <4>1 DEF Undone
      <4>2. CASE tx.stage = "installed"
        <5>1. tx.before \in Store /\ job[tx.of] # NoJob
          BY <4>2, Held
        <5> QED BY <1>1, <4>2, <5>1 DEF Undone, Agree, Store, Busy
      <4> QED BY <4>1, <4>2
    <3>11. Undone'.order = Undone.order \/ (Undone'.order = n /\ (Busy => "mingled" \in astray'))
      BY <3>9, <3>10
    <3>12. StateTyped'
      BY <1>1, <1>3, <3>7, <3>8 DEF StateTyped
    <3>13. LockIsHeld'
      <4>1. tx.stage # "none" /\ tx.of = "page" => Busy
        BY Held DEF Busy
      <4>2. tx.stage # "none" /\ tx.of = "page" /\ Clear({"mingled"})' => store' = store /\ Clear({"mingled"})
        BY <3>6, <3>9, <4>1 DEF Clear
      <4> QED BY <1>1, <1>7, <1>8, <3>8, <4>2 DEF LockIsHeld, Agree
    <3>14. SourcesInStep'
      BY <1>3, <1>4, <2>2, <3>7, <3>10 DEF SourcesInStep, Agree
    <3>15. OrdersAreKnown'
      BY <1>1, <1>3, <1>4, <2>2, <3>3, <3>7, <3>8 DEF OrdersAreKnown
    <3>16. Base'.rules = Base.rules
      BY <1>3, <3>7 DEF Base
    <3>17. RulesInStep'
      BY <1>3, <1>4, <3>6, <3>7, <3>10, <3>16 DEF RulesInStep, Clear, Agree
    \* Whoever writes or keeps an order knows the rules it is for.
    <3>18. ASSUME Clear({"unread", "mingled"})', ~Busy \/ job["page"].stage = "ok",
                  Clear({"blind"})'
           PROVE  Alike(n, Undone.order, Undone.rules, D)
      <4>1. Base = ui
        BY <3>18 DEF Base, Busy, NoJob
      <4>2. ui.rules = Undone.rules
        <5>1. CASE ui.loaded
          BY <3>6, <3>18, <4>1, <5>1 DEF RulesInStep, Clear
        <5>2. CASE ~ui.loaded
          <6>1. ui.rules = <<>> /\ ~Busy /\ store.rules = <<>>
            BY <3>5, <3>18, <5>2 DEF RulesInStep, Clear
          <6> QED BY <6>1, OnlyThePageHasRules DEF Busy
        <5> QED BY <5>1, <5>2
      <4>3. Alike(ui.order, Undone.order, Undone.rules, D)
        BY <3>6, <3>18, <4>1 DEF OrderInStep, Clear
      <4> QED BY <3>3, <4>2, <4>3 DEF Alike
    <3>19. OrderInStep'
      <4>1. SUFFICES ASSUME Clear({"mingled", "unread"})', (Clear({"blind"}) \/ Clear({"unsaved"}))'
                     PROVE  /\ Alike(Base'.order, Undone'.order, Undone.rules, D)
                            /\ Busy => Alike(n, job["page"].order, job["page"].rules, D)
        BY <1>3, <1>4, <3>7, <3>10 DEF OrderInStep, Agree
      <4>2. /\ Alike(Base.order, Undone.order, Undone.rules, D)
            /\ Busy => Alike(ui.order, job["page"].order, job["page"].rules, D)
        BY <3>6, <4>1 DEF OrderInStep, Clear
      <4>3. ASSUME Busy PROVE Alike(n, job["page"].order, job["page"].rules, D)
        BY <3>3, <4>2, <4>3 DEF RulesInStep, Alike
      <4>4. CASE Undone'.order = n /\ ~Busy
        <5>1. Base'.order = n
          BY <1>3, <3>7, <4>4 DEF Base, Busy, NoJob
        <5> QED BY <4>3, <4>4, <5>1 DEF Alike
      <4>5. CASE Undone'.order = Undone.order
        <5>1. CASE ~Busy \/ job["page"].stage = "ok"
          <6>1. Base'.order = n
            BY <1>3, <3>7, <5>1 DEF Base, Busy, NoJob
          <6>2. CASE Clear({"blind"})'
            <7>1. Clear({"unread", "mingled"})'
              BY <4>1 DEF Clear
            <7> QED BY <3>18, <4>3, <4>5, <5>1, <6>1, <6>2, <7>1
          <6>3. CASE Clear({"unsaved"})' /\ store' # store
            <7>1. store'.order = n
              BY <3>9, <6>3
            <7>2. Undone'.order = store'.order
              <8>1. ~Busy
                BY <3>9, <4>1, <6>3 DEF Clear
              <8> QED BY <3>10, <8>1
            <7> QED BY <4>3, <6>1, <7>1, <7>2 DEF Alike
          <6>4. CASE Clear({"unsaved"})' /\ store' = store
            <7>1. store' = [store EXCEPT !.order = n] /\ (Busy => "mingled" \in astray')
              BY <3>5, <6>4 DEF Clear
            <7>2. store'.order = n /\ ~Busy
              BY <2>4, <4>1, <7>1 DEF Store, Clear
            <7>3. Undone'.order = store'.order
              BY <3>10, <7>2
            <7> QED BY <4>3, <6>1, <7>2, <7>3 DEF Alike
          <6> QED BY <4>1, <6>2, <6>3, <6>4
        <5>2. CASE Busy /\ job["page"].stage # "ok"
          <6>1. Base' = Base
            BY <1>3, <5>2 DEF Base, Busy, StateTyped, PageJob, Stages
          <6> QED BY <4>2, <4>3, <4>5, <6>1
        <5> QED BY <5>1, <5>2
      <4> QED BY <3>11, <4>1, <4>4, <4>5 DEF Clear
    <3>20. KernelInStep'
      <4>1. SUFFICES ASSUME Clear({"mingled", "blind", "unread"})' PROVE kernel = Compile(Undone')
        BY <1>1 DEF KernelInStep
      <4>2. kernel = Compile(Undone)
        BY <3>6, <4>1 DEF KernelInStep, Clear
      <4>3. Alike(Undone'.order, Undone.order, Undone.rules, D)
        <5>1. CASE Undone'.order = Undone.order
          BY <5>1 DEF Alike
        <5>2. CASE Undone'.order = n /\ ~Busy
          <6>1. Clear({"unread", "mingled"})' /\ Clear({"blind"})'
            BY <4>1 DEF Clear
          <6> QED BY <3>18, <5>2, <6>1
        <5> QED BY <3>11, <4>1, <5>1, <5>2 DEF Clear
      <4>4. Undone'.rules = Undone.rules /\ Undone'.docs = D
        BY <3>10 DEF Agree
      <4>5. Compile(Undone') = Compile(Undone)
        BY <3>10, <4>3, <4>4, CompilesAlike
      <4> QED BY <4>2, <4>5
    <3> QED BY <3>12, <3>13, <3>14, <3>15, <3>17, <3>19, <3>20
  <2> QED BY <2>5, <2>6
<1> QED BY <1>1, <1>9, <1>10

\* A change of the manual rules is shown in an order that has their group.
LEMMA ChangeRulesStep ==
  ASSUME RulesInv, ui.loaded, NEW rules \in Seq(Rule), ChangeRules(rules)
  PROVE  RulesInv' /\ ui'.rules = rules /\ ui'.loaded
<1> DEFINE edited == [ui EXCEPT !.rules = rules]
           n == InPlace(ui.order, rules, ui.docs)
           u == Synced(edited)
<1>1. ui \in [rules : Seq(Rule), order : Seq(Groups), docs : Docs, loaded : BOOLEAN]
  BY DEF RulesInv, StateTyped
<1>2. n \in Seq(Groups) /\ Range(n) \subseteq Known(ui.docs)
  BY <1>1, ShownIsAlike
<1>3. u = [ui EXCEPT !.rules = rules, !.order = n]
  BY <1>1 DEF Synced, ShownOrder, InPlace
<1> HIDE DEF n
<1>4. /\ u \in [rules : Seq(Rule), order : Seq(Groups), docs : Docs, loaded : BOOLEAN]
      /\ u.docs = ui.docs /\ u.loaded /\ u.rules = rules /\ Range(u.order) \subseteq Known(ui.docs)
  BY <1>1, <1>2, <1>3
<1>5. Apply(u, ui)
  BY DEF ChangeRules
<1> HIDE DEF u
<1>6. ui' = u
  BY <1>5 DEF Apply
<1> QED BY <1>4, <1>5, <1>6, ApplyStep

\* FINAL goes to the end of a list of rules.
LEMMA FinalLastRules == ASSUME NEW rules \in Seq(Rule) PROVE FinalLast(rules) \in Seq(Rule)
<1> DEFINE final == {r \in Range(rules) : Final(r)}
<1>1. Filter(rules, Range(rules) \ final) \in Seq(Rule) /\ Filter(rules, final) \in Seq(Rule)
  BY FilterRange
<1> QED BY <1>1 DEF FinalLast

\* A part of an order has groups of it alone.
LEMMA PartOfOrder ==
  ASSUME NEW A, NEW s \in Seq(A), NEW m \in 1..(Len(s) + 1), NEW n \in 0..Len(s)
  PROVE  SubSeq(s, m, n) \in Seq(A) /\ Range(SubSeq(s, m, n)) \subseteq Range(s)
<1>1. \A i \in m..n : s[i] \in A
  OBVIOUS
<1>2. /\ SubSeq(s, m, n) \in Seq(A)
      /\ Len(SubSeq(s, m, n)) = IF m <= n THEN n - m + 1 ELSE 0
      /\ \A i \in 1..(n - m + 1) : SubSeq(s, m, n)[i] = s[m + i - 1]
  BY <1>1, SubSeqProperties
<1> DEFINE p == SubSeq(s, m, n)
<1> HIDE DEF p
<1>3. ASSUME NEW x \in Range(p) PROVE x \in Range(s)
  <2>1. PICK i \in 1..Len(p) : x = p[i]
    <3>1. p \in Seq(A)
      BY <1>2 DEF p
    <3> QED BY <3>1 DEF Range
  <2>2. i \in 1..(n - m + 1) /\ m + i - 1 \in 1..Len(s)
    BY <1>2 DEF p
  <2>3. x = s[m + i - 1]
    BY <1>2, <2>1, <2>2 DEF p
  <2> QED BY <2>2, <2>3 DEF Range
<1> QED BY <1>2, <1>3 DEF p

\* A group is moved within the order.
LEMMA MovedOrder ==
  ASSUME NEW s \in Seq(Groups), NEW from \in 1..Len(s), NEW to \in 1..Len(s)
  PROVE  MoveTo(s, from, to) \in Seq(Groups) /\ Range(MoveTo(s, from, to)) \subseteq Range(s)
<1> DEFINE rest == RemoveAt(s, from)
           one == <<s[from]>>
           low == SubSeq(rest, 1, to - 1)
           high == SubSeq(rest, to, Len(rest))
<1>1. rest \in Seq(Groups) /\ Len(rest) = Len(s) - 1 /\ Range(rest) \subseteq Range(s)
  <2> DEFINE a == SubSeq(s, 1, from - 1)
             b == SubSeq(s, from + 1, Len(s))
  <2>1. a \in Seq(Groups) /\ Range(a) \subseteq Range(s) /\ Len(a) = from - 1
    BY PartOfOrder
  <2>2. b \in Seq(Groups) /\ Range(b) \subseteq Range(s) /\ Len(b) = Len(s) - from
    <3>1. from + 1 \in 1..(Len(s) + 1) /\ Len(s) \in 0..Len(s)
      OBVIOUS
    <3> QED BY <3>1, PartOfOrder
  <2>3. rest = a \o b
    BY DEF RemoveAt
  <2> HIDE DEF a, b
  <2>4. a \o b \in Seq(Groups) /\ Len(a \o b) = Len(a) + Len(b)
    BY <2>1, <2>2
  <2>5. Range(a \o b) = Range(a) \cup Range(b)
    BY <2>1, <2>2, RangeConcat
  <2> HIDE DEF rest
  <2> QED BY <2>1, <2>2, <2>3, <2>4, <2>5
<1>2. one \in Seq(Groups) /\ Range(one) \subseteq Range(s)
  BY DEF Range
<1>3. MoveTo(s, from, to) = low \o one \o high
  BY DEF MoveTo, InsertAt
<1> HIDE DEF rest, one
<1>4. low \in Seq(Groups) /\ Range(low) \subseteq Range(rest)
  <2>1. 1 \in 1..(Len(rest) + 1) /\ to - 1 \in 0..Len(rest)
    BY <1>1
  <2> QED BY <1>1, <2>1, PartOfOrder
<1>5. high \in Seq(Groups) /\ Range(high) \subseteq Range(rest)
  <2>1. to \in 1..(Len(rest) + 1) /\ Len(rest) \in 0..Len(rest)
    BY <1>1
  <2> QED BY <1>1, <2>1, PartOfOrder
<1> HIDE DEF low, high
<1>6. /\ low \o one \o high \in Seq(Groups)
      /\ Range(low \o one \o high) = Range(low) \cup Range(one) \cup Range(high)
  BY <1>2, <1>4, <1>5, RangeOfThree
<1> QED BY <1>1, <1>2, <1>3, <1>4, <1>5, <1>6

\* A group of an order has a place in it.
LEMMA HasPlace ==
  ASSUME NEW s \in Seq(Groups), NEW g \in Range(s)
  PROVE  Index(s, g) \in 1..Len(s) /\ s[Index(s, g)] = g
<1>1. \E i \in DOMAIN s : s[i] = g
  BY DEF Range
<1>2. Index(s, g) \in DOMAIN s /\ s[Index(s, g)] = g
  BY <1>1 DEF Index
<1> QED BY <1>2

\* A group is dropped beside another one.
LEMMA PlacedOrder ==
  ASSUME NEW s \in Seq(Groups), NEW g \in Range(s), NEW anchor \in Range(s), g # anchor,
         NEW below \in BOOLEAN
  PROVE  Place(s, g, anchor, below) \in Seq(Groups) /\ Range(Place(s, g, anchor, below)) \subseteq Range(s)
<1> DEFINE from == Index(s, g)
           slot == Index(s, anchor) + (IF below THEN 1 ELSE 0)
           to == slot - (IF from < slot THEN 1 ELSE 0)
<1>1. from \in 1..Len(s) /\ Index(s, anchor) \in 1..Len(s) /\ from # Index(s, anchor)
  BY HasPlace
<1>2. Place(s, g, anchor, below) = MoveTo(s, from, to)
  BY DEF Place
<1>3. to \in 1..Len(s)
  <2> DEFINE at == Index(s, anchor)
  <2> HIDE DEF from, at
  <2>1. from \in Int /\ at \in Int /\ Len(s) \in Int /\ from >= 1 /\ at >= 1 /\ from <= Len(s) /\ at <= Len(s) /\ from # at
    BY <1>1 DEF at
  <2>2. to = (at + (IF below THEN 1 ELSE 0)) - (IF from < at + (IF below THEN 1 ELSE 0) THEN 1 ELSE 0)
    BY DEF at
  <2> HIDE DEF to
  <2> QED BY <2>1, <2>2
<1> HIDE DEF from, to
<1> QED BY <1>1, <1>2, <1>3, MovedOrder

\* Two neighbours are swapped.
LEMMA SwappedOrder ==
  ASSUME NEW s \in Seq(Groups), NEW g \in Range(s), NEW upwards \in BOOLEAN
  PROVE  Swapped(s, g, upwards) \in Seq(Groups) /\ Range(Swapped(s, g, upwards)) \subseteq Range(s)
<1> DEFINE i == Index(s, g)
           j == IF upwards THEN i - 1 ELSE i + 1
<1>1. i \in DOMAIN s
  BY HasPlace
<1>2. Swapped(s, g, upwards) = IF j \in DOMAIN s THEN [s EXCEPT ![i] = s[j], ![j] = s[i]] ELSE s
  BY DEF Swapped
<1> HIDE DEF i, j
<1>3. CASE j \in DOMAIN s
  <2>1. [s EXCEPT ![i] = s[j], ![j] = s[i]] \in Seq(Groups)
    BY <1>1, <1>3
  <2>2. Range([s EXCEPT ![i] = s[j], ![j] = s[i]]) \subseteq Range(s)
    BY <1>1, <1>3 DEF Range
  <2> QED BY <1>2, <1>3, <2>1, <2>2
<1>4. CASE j \notin DOMAIN s
  BY <1>2, <1>4
<1> QED BY <1>3, <1>4

\* The groups are put in another order.
LEMMA ReorderStep ==
  ASSUME RulesInv, NEW order \in Seq(Groups), Range(order) \subseteq Range(ShownOrder(ui)), Reorder(order)
  PROVE  RulesInv' /\ ui'.rules = ui.rules /\ ui'.loaded = ui.loaded
<1> DEFINE u == [ui EXCEPT !.order = order]
           undo == Synced(ui)
<1>1. ui \in [rules : Seq(Rule), order : Seq(Groups), docs : Docs, loaded : BOOLEAN]
  BY DEF RulesInv, StateTyped
<1>2. ShownOrder(ui) = InPlace(ui.order, ui.rules, ui.docs)
  BY DEF ShownOrder, InPlace
<1>3. Range(ShownOrder(ui)) \subseteq Known(ui.docs)
  BY <1>1, <1>2, ShownIsAlike
<1>4. undo.rules = ui.rules /\ undo.order = ShownOrder(ui)
  BY <1>1 DEF Synced
<1>5. /\ u \in [rules : Seq(Rule), order : Seq(Groups), docs : Docs, loaded : BOOLEAN]
      /\ u.docs = ui.docs /\ u.loaded = ui.loaded /\ u.rules = ui.rules /\ u.order = order
  BY <1>1
<1>6. ui.loaded /\ Apply(u, undo)
  BY DEF Reorder
<1> HIDE DEF u, undo
<1>7. ui' = u
  BY <1>6 DEF Apply
<1>8. RulesInv'
  BY <1>3, <1>4, <1>5, <1>6, ApplyStep
<1> QED BY <1>5, <1>7, <1>8

\* No operation, task or transaction breaks what relates the window, the store
\* and the kernel.
LEMMA RulesStep == RoutingInv /\ [RoutingNext]_routingVars => RulesInv'
<1> SUFFICES ASSUME RoutingInv, [RoutingNext]_routingVars PROVE RulesInv'
  OBVIOUS
<1>1. RulesInv /\ (draft.mode # "closed" => ui.loaded)
  BY DEF RoutingInv, DraftInv
<1>2. /\ ui \in [rules : Seq(Rule), order : Seq(Groups), docs : Docs, loaded : BOOLEAN]
      /\ Texts \subseteq Rule
  BY <1>1, RoutingAssumption DEF RulesInv, StateTyped
<1>3. ShownOrder(ui) \in Seq(Groups)
  BY <1>2, ShownIsAlike DEF ShownOrder, InPlace
<1>4. CASE Relaunch
  BY <1>1, <1>4, RelaunchStep
<1>5. CASE OpenPage
  BY <1>1, <1>5, LoadStep DEF OpenPage
<1>6. CASE CloseDraft
  BY <1>1, <1>6, QuietStep DEF CloseDraft
<1>7. CASE SubmitMissing
  BY <1>1, <1>7, QuietStep DEF SubmitMissing
<1>8. CASE FinishPage
  BY <1>1, <1>8, FinishPageStep
<1>9. CASE FinishSource
  BY <1>1, <1>9, FinishSourceStep
<1>10. ASSUME NEW mode \in {"append", "prepend"}, OpenDraft(mode) PROVE RulesInv'
  BY <1>1, <1>10, LoadStep DEF OpenDraft
<1>11. ASSUME NEW i \in 1..MaxRules, OpenEdit(i) PROVE RulesInv'
  BY <1>1, <1>11, QuietStep DEF OpenEdit
<1>12. ASSUME NEW i \in 1..MaxRules, RemoveRule(i) PROVE RulesInv'
  <2>1. ui.loaded /\ i \in DOMAIN ui.rules /\ ChangeRules(RemoveAt(ui.rules, i))
    BY <1>12 DEF RemoveRule
  <2>2. RemoveAt(ui.rules, i) \in Seq(Rule)
    BY <1>2, <2>1 DEF RemoveAt
  <2> QED BY <1>1, <2>1, <2>2, ChangeRulesStep
<1>13. ASSUME NEW i \in 1..MaxRules, ToggleRule(i) PROVE RulesInv'
  <2>1. ui.loaded /\ i \in DOMAIN ui.rules /\ ChangeRules([ui.rules EXCEPT ![i].on = ~@])
    BY <1>13 DEF ToggleRule
  <2>2. ui.rules[i] \in Rule
    BY <1>2, <2>1
  <2>3. [ui.rules[i] EXCEPT !.on = ~@] \in Rule
    BY <2>2 DEF Rule
  <2> DEFINE r == [ui.rules[i] EXCEPT !.on = ~@]
  <2>4. [ui.rules EXCEPT ![i] = r] \in Seq(Rule)
    <3>1. ui.rules \in [1..Len(ui.rules) -> Rule]
      BY <1>2
    <3>2. [ui.rules EXCEPT ![i] = r] \in [1..Len(ui.rules) -> Rule]
      BY <2>3, <3>1
    <3> QED BY <1>2, <3>2
  <2>5. [ui.rules EXCEPT ![i].on = ~@] \in Seq(Rule)
    BY <2>4
  <2> QED BY <1>1, <2>1, <2>5, ChangeRulesStep
<1>14. ASSUME NEW r \in Texts, SubmitNew(r) PROVE RulesInv'
  <2> DEFINE rules == IF draft.mode = "append" THEN Append(ui.rules, r) ELSE <<r>> \o ui.rules
  <2>1. draft.mode # "closed" /\ ChangeRules(FinalLast(rules))
    BY <1>14 DEF SubmitNew
  <2>2. rules \in Seq(Rule)
    BY <1>2
  <2>3. FinalLast(rules) \in Seq(Rule)
    BY <2>2, FinalLastRules
  <2> QED BY <1>1, <2>1, <2>3, ChangeRulesStep
<1>15. ASSUME NEW r \in Texts, SubmitEdit(r) PROVE RulesInv'
  <2> DEFINE rules == [ui.rules EXCEPT ![draft.at] = [r EXCEPT !.on = ui.rules[draft.at].on]]
  <2>1. draft.mode # "closed" /\ draft.at \in DOMAIN ui.rules /\ ChangeRules(FinalLast(rules))
    BY <1>15 DEF SubmitEdit
  <2>2. [r EXCEPT !.on = ui.rules[draft.at].on] \in Rule
    <3>1. r \in Rule /\ ui.rules[draft.at] \in Rule
      BY <1>2, <2>1
    <3>2. ui.rules[draft.at].on \in BOOLEAN
      BY <3>1 DEF Rule
    <3> QED BY <3>1, <3>2 DEF Rule
  <2>3. rules \in Seq(Rule)
    BY <1>2, <2>1, <2>2
  <2>4. FinalLast(rules) \in Seq(Rule)
    BY <2>3, FinalLastRules
  <2> QED BY <1>1, <2>1, <2>4, ChangeRulesStep
<1>16. ASSUME NEW g \in Groups, NEW anchor \in Groups, NEW below \in BOOLEAN, PlaceGroup(g, anchor, below)
       PROVE  RulesInv'
  <2>1. g \in Range(ShownOrder(ui)) /\ anchor \in Range(ShownOrder(ui)) /\ g # anchor
    BY <1>16 DEF PlaceGroup
  <2>2. Reorder(Place(ShownOrder(ui), g, anchor, below))
    BY <1>16 DEF PlaceGroup
  <2>3. /\ Place(ShownOrder(ui), g, anchor, below) \in Seq(Groups)
        /\ Range(Place(ShownOrder(ui), g, anchor, below)) \subseteq Range(ShownOrder(ui))
    BY <1>3, <2>1, PlacedOrder
  <2> QED BY <1>1, <2>2, <2>3, ReorderStep
<1>17. ASSUME NEW g \in Groups, NEW upwards \in BOOLEAN, MoveGroup(g, upwards) PROVE RulesInv'
  <2>1. g \in Range(ShownOrder(ui)) /\ Reorder(Swapped(ShownOrder(ui), g, upwards))
    BY <1>17 DEF MoveGroup
  <2>2. /\ Swapped(ShownOrder(ui), g, upwards) \in Seq(Groups)
        /\ Range(Swapped(ShownOrder(ui), g, upwards)) \subseteq Range(ShownOrder(ui))
    BY <1>3, <2>1, SwappedOrder
  <2> QED BY <1>1, <2>1, <2>2, ReorderStep
<1>18. ASSUME NEW s \in Range(Listed(ui.docs))
       PROVE  /\ s \in Sources /\ s \in Live(ui.docs) /\ ui.docs[s] \in Doc
              /\ \A new \in Doc \cup {Gone} : Legal(ui.docs, s, new)
  <2>1. s \in Live(ui.docs)
    BY ListedAre
  <2> QED BY <1>2, <2>1 DEF Live, Docs, Legal
<1>19. ASSUME NEW s \in Sources, RemoveSource(s) PROVE RulesInv'
  <2>1. s \in Range(Listed(ui.docs)) /\ StartTask("source", s, Gone)
    BY <1>19 DEF RemoveSource
  <2>2. Legal(ui.docs, s, Gone)
    BY <1>18, <2>1
  <2> QED BY <1>1, <2>1, <2>2, StartStep
<1>20. ASSUME NEW s \in Sources, ToggleSource(s) PROVE RulesInv'
  <2> DEFINE new == [ui.docs[s] EXCEPT !.on = ~@]
  <2>1. s \in Range(Listed(ui.docs)) /\ StartTask("source", s, new)
    BY <1>20 DEF ToggleSource
  <2>2. ui.docs[s] \in Doc
    BY <1>18, <2>1
  <2>3. new \in Doc
    BY <2>2 DEF Doc
  <2>4. Legal(ui.docs, s, new)
    BY <1>18, <2>1, <2>3
  <2> HIDE DEF new
  <2> QED BY <1>1, <2>1, <2>3, <2>4, StartStep
<1>21. ASSUME NEW s \in Sources, NEW to \in Targets, TargetSource(s, to) PROVE RulesInv'
  <2> DEFINE new == [ui.docs[s] EXCEPT !.to = to]
  <2>1. s \in Range(Listed(ui.docs)) /\ StartTask("source", s, new)
    BY <1>21 DEF TargetSource
  <2>2. ui.docs[s] \in Doc
    BY <1>18, <2>1
  <2>3. new \in Doc
    BY <2>2 DEF Doc
  <2>4. Legal(ui.docs, s, new)
    BY <1>18, <2>1, <2>3
  <2> HIDE DEF new
  <2> QED BY <1>1, <2>1, <2>3, <2>4, StartStep
<1>22. ASSUME NEW s \in Sources, NEW to \in Targets, AddSource(s, to) PROVE RulesInv'
  <2> DEFINE new == [to |-> to, on |-> TRUE]
  <2>1. StartTask("source", s, new) /\ new \in Doc
    BY <1>22 DEF AddSource, Doc
  <2>2. Legal(ui.docs, s, new)
    BY <1>22, <2>1 DEF AddSource, Legal
  <2> HIDE DEF new
  <2> QED BY <1>1, <2>1, <2>2, StartStep
<1>23. ASSUME NEW p \in Policies, NEW m \in SUBSET (Policies \cup {Node}) \cup {Absent}, SavePolicy(p, m)
       PROVE  RulesInv'
  <2>1. StartTask("policy", p, m)
    BY <1>23 DEF SavePolicy
  <2> QED BY <1>1, <2>1, StartStep
<1>24. ASSUME NEW t \in Tasks, Begin(t) PROVE RulesInv'
  BY <1>1, <1>24, BeginStep
<1>25. CASE InstallAll
  BY <1>1, <1>25, InstallStep
<1>26. CASE Accept
  BY <1>1, <1>26, AcceptStep
<1>27. CASE RollBack
  BY <1>1, <1>27, RollBackStep
<1>28. CASE UNCHANGED routingVars
  BY <1>1, <1>28, QuietStep DEF routingVars
<1>29. ASSUME RoutingNext PROVE RulesInv'
  BY <1>4, <1>5, <1>6, <1>7, <1>8, <1>9, <1>10, <1>11, <1>12, <1>13, <1>14, <1>15, <1>16, <1>17,
     <1>19, <1>20, <1>21, <1>22, <1>23, <1>24, <1>25, <1>26, <1>27, <1>29 DEF RoutingNext
<1> QED BY <1>28, <1>29

\* As long as the rules stay, the draft keeps its place.
LEMMA DraftStays ==
  ASSUME DraftInv, UNCHANGED draft, ui'.rules = ui.rules, ui'.loaded = ui.loaded
  PROVE  DraftInv'
BY DEF DraftInv, DraftKeepsItsRule, Same

\* A closed draft is about no rule.
LEMMA DraftCloses == ASSUME draft' = NoDraft PROVE DraftInv'
BY DEF DraftInv, NoDraft, DraftKeepsItsRule

\* The rules are put in place of others while no draft is open.
LEMMA DraftIsClosed == ASSUME DraftInv, UNCHANGED draft, draft.mode = "closed" PROVE DraftInv'
BY DEF DraftInv, DraftKeepsItsRule

\* A rule is enabled or disabled: its place and definition stay.
LEMMA DraftToggle == ASSUME RoutingInv, NEW i \in 1..MaxRules, ToggleRule(i) PROVE DraftInv'
<1> DEFINE rules == [ui.rules EXCEPT ![i].on = ~@]
<1>1. /\ ui.rules \in Seq(Rule) /\ ui.loaded /\ i \in DOMAIN ui.rules /\ ChangeRules(rules)
      /\ UNCHANGED draft
  BY DEF RoutingInv, RulesInv, StateTyped, ToggleRule
<1>2. ui' = Synced([ui EXCEPT !.rules = rules])
  BY <1>1 DEF ChangeRules, Apply
<1>3. ui'.rules = rules /\ ui'.loaded = ui.loaded
  BY <1>2 DEF Synced, RoutingInv, RulesInv, StateTyped
<1>4. DOMAIN rules = DOMAIN ui.rules
  OBVIOUS
<1>5. ASSUME NEW k \in DOMAIN ui.rules PROVE rules[k].match = ui.rules[k].match /\ rules[k].to = ui.rules[k].to
  <2>1. ui.rules[k] \in Rule
    BY <1>1
  <2>2. CASE k = i
    BY <2>1, <2>2, <1>1 DEF Rule
  <2>3. CASE k # i
    BY <2>1, <2>3, <1>1
  <2> QED BY <2>2, <2>3
<1> HIDE DEF rules
<1> QED BY <1>1, <1>3, <1>4, <1>5 DEF RoutingInv, DraftInv, DraftKeepsItsRule, Same

\* A change that ends puts older rules back at most, which the draft notes.
LEMMA DraftAtTheEnd == ASSUME RoutingInv, FinishPage PROVE DraftInv'
<1>1. /\ draft' = [draft EXCEPT !.moved = @ \/ (draft.mode = "edit" /\ ui'.rules # ui.rules)]
      /\ ui' = IF job["page"].stage = "ok" THEN ui
               ELSE [ui EXCEPT !.rules = job["page"].undo.rules, !.order = job["page"].undo.order]
  BY DEF FinishPage, FinishPageAs
<1>2. ui'.loaded = ui.loaded
  BY <1>1 DEF RoutingInv, RulesInv, StateTyped
<1>3. draft \in [mode : {"closed", "append", "prepend", "edit"}, at : Nat,
                 shown : Rule \cup {Nothing}, moved : BOOLEAN]
  BY DEF RoutingInv, DraftInv
<1>4. draft' \in [mode : {"closed", "append", "prepend", "edit"}, at : Nat,
                  shown : Rule \cup {Nothing}, moved : BOOLEAN]
      /\ draft'.mode = draft.mode /\ draft'.at = draft.at /\ draft'.shown = draft.shown
  BY <1>1, <1>3
<1>5. draft.mode = "edit" /\ ~draft'.moved => ~draft.moved /\ ui'.rules = ui.rules
  BY <1>1, <1>3
<1> QED BY <1>2, <1>4, <1>5 DEF RoutingInv, DraftInv, DraftKeepsItsRule, Same

\* Whatever happens, the draft keeps its place.
LEMMA DraftStep == RoutingInv /\ [RoutingNext]_routingVars => DraftInv'
<1> SUFFICES ASSUME RoutingInv, [RoutingNext]_routingVars PROVE DraftInv'
  OBVIOUS
<1>1. RulesInv /\ DraftInv
  BY DEF RoutingInv
<1>2. ui \in [rules : Seq(Rule), order : Seq(Groups), docs : Docs, loaded : BOOLEAN]
  BY <1>1 DEF RulesInv, StateTyped
<1>3. ShownOrder(ui) \in Seq(Groups)
  BY <1>2, ShownIsAlike DEF ShownOrder, InPlace
<1>4. CASE Relaunch \/ CloseDraft \/ SubmitMissing
  BY <1>4, DraftCloses DEF Relaunch, CloseDraft, SubmitMissing
<1>5. CASE OpenPage
  <2>1. draft.mode = "closed" /\ UNCHANGED draft
    BY <1>1, <1>5 DEF OpenPage, DraftInv
  <2> QED BY <1>1, <2>1, DraftIsClosed
<1>6. CASE FinishPage
  BY <1>6, DraftAtTheEnd
<1>7. CASE FinishSource
  <2>1. UNCHANGED draft
    BY <1>7 DEF FinishSource
  <2>2. ui'.rules = ui.rules /\ ui'.loaded = ui.loaded
    BY <1>2, <1>7 DEF FinishSource, Persist, PersistAs, Synced
  <2> QED BY <1>1, <2>1, <2>2, DraftStays
<1>8. ASSUME NEW mode \in {"append", "prepend"}, OpenDraft(mode) PROVE DraftInv'
  <2>1. ui'.loaded
    BY <1>1, <1>8, LoadStep DEF OpenDraft
  <2>2. draft' = [NoDraft EXCEPT !.mode = mode]
    BY <1>8 DEF OpenDraft
  <2> QED BY <2>1, <2>2 DEF DraftInv, NoDraft, DraftKeepsItsRule
<1>9. ASSUME NEW i \in 1..MaxRules, OpenEdit(i) PROVE DraftInv'
  <2>1. ui' = ui /\ ui.loaded /\ i \in DOMAIN ui.rules
    BY <1>9 DEF OpenEdit
  <2>2. draft' = [mode |-> "edit", at |-> i, shown |-> ui.rules[i], moved |-> FALSE]
    BY <1>9 DEF OpenEdit, NoDraft
  <2>3. ui.rules[i] \in Rule /\ i \in Nat
    BY <1>2, <2>1
  <2> QED BY <1>2, <2>1, <2>2, <2>3 DEF DraftInv, DraftKeepsItsRule, Same
<1>10. ASSUME NEW i \in 1..MaxRules, RemoveRule(i) PROVE DraftInv'
  BY <1>1, <1>10, DraftIsClosed DEF RemoveRule
<1>11. ASSUME NEW i \in 1..MaxRules, ToggleRule(i) PROVE DraftInv'
  BY <1>11, DraftToggle
<1>12. ASSUME NEW r \in Texts, SubmitNew(r) \/ SubmitEdit(r) PROVE DraftInv'
  BY <1>12, DraftCloses DEF SubmitNew, SubmitEdit
<1>13. ASSUME NEW order, Reorder(order) PROVE DraftInv'
  <2>1. UNCHANGED draft /\ ui' = [ui EXCEPT !.order = order]
    BY <1>13 DEF Reorder, Apply
  <2>2. ui'.rules = ui.rules /\ ui'.loaded = ui.loaded
    BY <1>2, <2>1
  <2> QED BY <1>1, <2>1, <2>2, DraftStays
<1>14. ASSUME NEW g \in Groups, NEW anchor \in Groups, NEW below \in BOOLEAN, PlaceGroup(g, anchor, below)
       PROVE  DraftInv'
  BY <1>13, <1>14 DEF PlaceGroup
<1>15. ASSUME NEW g \in Groups, NEW upwards \in BOOLEAN, MoveGroup(g, upwards) PROVE DraftInv'
  BY <1>13, <1>15 DEF MoveGroup
<1>16. ASSUME NEW t, NEW item, NEW new, StartTask(t, item, new) PROVE DraftInv'
  BY <1>1, <1>16, DraftStays DEF StartTask
<1>17. ASSUME NEW s \in Sources, RemoveSource(s) \/ ToggleSource(s) PROVE DraftInv'
  BY <1>16, <1>17 DEF RemoveSource, ToggleSource
<1>18. ASSUME NEW s \in Sources, NEW to \in Targets, AddSource(s, to) \/ TargetSource(s, to) PROVE DraftInv'
  BY <1>16, <1>18 DEF AddSource, TargetSource
<1>19. ASSUME NEW p \in Policies, NEW m \in SUBSET (Policies \cup {Node}) \cup {Absent}, SavePolicy(p, m)
       PROVE  DraftInv'
  BY <1>16, <1>19 DEF SavePolicy
<1>20. ASSUME NEW t \in Tasks, Begin(t) PROVE DraftInv'
  BY <1>1, <1>20, DraftStays DEF Begin
<1>21. CASE InstallAll \/ Accept \/ RollBack
  BY <1>1, <1>21, DraftStays DEF InstallAll, Accept, RollBack
<1>22. CASE UNCHANGED routingVars
  BY <1>1, <1>22, DraftStays DEF routingVars
<1>23. ASSUME RoutingNext PROVE DraftInv'
  BY <1>4, <1>5, <1>6, <1>7, <1>8, <1>9, <1>10, <1>11, <1>12, <1>14, <1>15, <1>17, <1>18, <1>19,
     <1>20, <1>21, <1>23 DEF RoutingNext
<1> QED BY <1>22, <1>23

\* The inductive invariant.
THEOREM RoutingInvariant == RoutingSpec => []RoutingInv
<1>1. RoutingInit => RoutingInv
  BY RulesInit
<1>2. RoutingInv /\ [RoutingNext]_routingVars => RoutingInv'
  BY RulesStep, DraftStep DEF RoutingInv
<1> QED BY <1>1, <1>2, PTL DEF RoutingSpec

\* The place a draft will be saved to holds the rule that it showed.
THEOREM DraftsKeepTheirRule == RoutingSpec => []DraftKeepsItsRule
<1>1. RoutingInv => DraftKeepsItsRule
  BY DEF RoutingInv, DraftInv
<1> QED BY <1>1, RoutingInvariant, PTL

\* Outside a transaction there is nothing to undo.
LEMMA NothingToUndo == ASSUME tx.stage # "installed" PROVE Undone = store
BY DEF Undone

\* With no task left, the page shows what the store holds.
LEMMA PageFollows ==
  ASSUME RoutingInv, Idle, ui.loaded, Clear({"mingled", "unsaved", "unread"})
  PROVE  /\ ui.rules = store.rules /\ ui.docs = store.docs
         /\ ShownOrder(ui) = Normalized(store.order, store.rules # <<>>, Listed(store.docs))
<1>1. \A t \in Tasks : job[t].stage = "none"
  BY DEF Idle, NoJob
<1>2. tx.stage # "installed"
  BY <1>1 DEF RoutingInv, RulesInv, StateTyped, LockIsHeld, NoTx
<1>3. Undone = store /\ Base = ui
  BY <1>1, <1>2, NothingToUndo DEF Base, Tasks
<1>4. Clear({"unread"}) /\ Clear({"mingled", "unread"}) /\ Clear({"unsaved"})
  BY DEF Clear
<1>5. ui.docs = store.docs
  BY <1>1, <1>3 DEF RoutingInv, RulesInv, SourcesInStep, Tasks
<1>6. ui.rules = store.rules
  BY <1>3, <1>4 DEF RoutingInv, RulesInv, RulesInStep
<1>7. Alike(ui.order, store.order, store.rules, store.docs)
  BY <1>3, <1>4 DEF RoutingInv, RulesInv, OrderInStep
<1> QED BY <1>5, <1>6, <1>7 DEF Alike, InPlace, ShownOrder

\* Page, store and kernel agree.
THEOREM RoutingFollowsStore == RoutingSpec => []PageAndKernelFollowStore
<1>1. RoutingInv => PageAndKernelFollowStore
  <2> SUFFICES ASSUME RoutingInv PROVE PageAndKernelFollowStore
    OBVIOUS
  <2>1. ASSUME tx.stage # "installed", Clear({"mingled", "blind", "unread"}) PROVE kernel = Compile(store)
    BY <2>1, NothingToUndo DEF RoutingInv, RulesInv, KernelInStep
  <2> QED BY <2>1, PageFollows DEF PageAndKernelFollowStore
<1> QED BY <1>1, RoutingInvariant, PTL

(* What the profile is compiled from *)

\* What a rule of the profile is
ProfileRule == [match : SUBSET Conds, to : Targets, from : Groups]

\* The two parts of a sequence are found in it again.
LEMMA PartsOfConcat ==
  ASSUME NEW A, NEW a \in Seq(A), NEW b \in Seq(A)
  PROVE  /\ a \o b \in Seq(A) /\ Len(a \o b) = Len(a) + Len(b)
         /\ DOMAIN (a \o b) = 1..(Len(a) + Len(b))
         /\ \A i \in 1..(Len(a) + Len(b)) :
              (a \o b)[i] = IF i <= Len(a) THEN a[i] ELSE b[i - Len(a)]
         /\ SubSeq(a \o b, 1, Len(a)) = a
         /\ SubSeq(a \o b, Len(a) + 1, Len(a) + Len(b)) = b
<1> DEFINE s == a \o b
           n == Len(a)
           m == Len(b)
<1>1. n \in Nat /\ m \in Nat /\ DOMAIN a = 1..n /\ DOMAIN b = 1..m
  OBVIOUS
<1>2. /\ s \in Seq(A) /\ Len(s) = n + m
      /\ \A i \in 1..(n + m) : s[i] = IF i <= n THEN a[i] ELSE b[i - n]
  BY ConcatProperties
<1> HIDE DEF s, n, m
<1>3. DOMAIN s = 1..(n + m)
  BY <1>1, <1>2
<1>4. SubSeq(s, 1, n) = a
  <2>1. SubSeq(s, 1, n) \in Seq(A) /\ Len(SubSeq(s, 1, n)) = n
    BY <1>1, <1>2
  <2>2. \A i \in 1..n : SubSeq(s, 1, n)[i] = a[i]
    BY <1>1, <1>2
  <2>3. a \in Seq(A) /\ Len(a) = n
    BY DEF n
  <2> QED BY <2>1, <2>2, <2>3, SeqEqual
<1>5. SubSeq(s, n + 1, n + m) = b
  <2>1. SubSeq(s, n + 1, n + m) \in Seq(A) /\ Len(SubSeq(s, n + 1, n + m)) = m
    BY <1>1, <1>2
  <2>2. \A i \in 1..m : SubSeq(s, n + 1, n + m)[i] = b[i]
    <3>1. ASSUME NEW i \in 1..m PROVE SubSeq(s, n + 1, n + m)[i] = b[i]
      <4>1. SubSeq(s, n + 1, n + m)[i] = s[n + i] /\ n + i \in 1..(n + m) /\ ~(n + i <= n) /\ (n + i) - n = i
        BY <1>1, <1>2
      <4> QED BY <1>2, <4>1
    <3> QED BY <3>1
  <2>3. b \in Seq(A) /\ Len(b) = m
    BY DEF m
  <2> QED BY <2>1, <2>2, <2>3, SeqEqual
<1> QED BY <1>2, <1>3, <1>4, <1>5 DEF s, n, m

\* The first number of a set
LEMMA MinIs ==
  ASSUME NEW T, T \subseteq Nat, T # {}
  PROVE  Min(T) \in T /\ \A k \in T : Min(T) <= k
<1>1. \E m \in T : \A k \in T : m <= k
  BY Least
<1> QED BY <1>1 DEF Min

\* A profile has the rules with conditions first, the others at its end.
Specific(s) == \A i \in DOMAIN s : ~Final(s[i])
Ending(s) == \A i \in DOMAIN s : Final(s[i]) /\ s[i].from = Manual

\* What is inserted comes between the two.
LEMMA InsertBetween ==
  ASSUME NEW head \in Seq(ProfileRule), NEW tail \in Seq(ProfileRule),
         NEW new \in Seq(ProfileRule), Specific(head), Ending(tail)
  PROVE  Insert(head \o tail, new) = (head \o new) \o tail
<1> DEFINE p == head \o tail
           n == Len(head)
           m == Len(tail)
           finals == {i \in DOMAIN p : Final(p[i])}
           at == IF finals = {} THEN Len(p) ELSE Min(finals) - 1
<1>1. /\ n \in Nat /\ m \in Nat /\ DOMAIN head = 1..n /\ DOMAIN tail = 1..m
      /\ Len(p) = n + m /\ DOMAIN p = 1..(n + m)
      /\ \A i \in 1..(n + m) : p[i] = IF i <= n THEN head[i] ELSE tail[i - n]
      /\ SubSeq(p, 1, n) = head /\ SubSeq(p, n + 1, n + m) = tail
  BY PartsOfConcat
<1>2. Insert(p, new) = SubSeq(p, 1, at) \o new \o SubSeq(p, at + 1, Len(p))
  BY DEF Insert
<1>3. \A i \in 1..n : i \notin finals
  BY <1>1 DEF Specific
<1>4. \A i \in 1..(n + m) : ~(i <= n) => i \in finals
  <2>1. SUFFICES ASSUME NEW i \in 1..(n + m), ~(i <= n)
                 PROVE  i \in DOMAIN p /\ Final(p[i])
    BY DEF finals
  <2> HIDE DEF p, n, m
  <2>2. i - n \in 1..m /\ i \in DOMAIN p
    BY <1>1, <2>1
  <2>3. p[i] = tail[i - n]
    BY <1>1, <2>1
  <2>4. Final(tail[i - n])
    BY <1>1, <2>2 DEF Ending
  <2> QED BY <2>2, <2>3, <2>4
<1> HIDE DEF p, n, m
<1>5. at = n
  <2>1. CASE finals = {}
    <3>1. m = 0
      <4>1. m # 0 => n + 1 \in 1..(n + m) /\ ~(n + 1 <= n)
        BY <1>1
      <4> QED BY <1>4, <2>1, <4>1
    <3> QED BY <1>1, <2>1, <3>1
  <2>2. CASE finals # {}
    <3>1. finals \subseteq Nat /\ finals \subseteq 1..(n + m)
      BY <1>1
    <3>2. Min(finals) \in finals /\ \A k \in finals : Min(finals) <= k
      BY <2>2, <3>1, MinIs
    <3> HIDE DEF finals
    <3>3. Min(finals) \in 1..(n + m) /\ ~(Min(finals) <= n)
      <4>1. Min(finals) \in 1..(n + m)
        BY <3>1, <3>2
      <4>2. Min(finals) \notin 1..n
        BY <1>3, <3>2
      <4> QED BY <1>1, <4>1, <4>2
    <3>4. n + 1 \in 1..(n + m) /\ ~(n + 1 <= n)
      BY <1>1, <3>3
    <3>5. Min(finals) <= n + 1
      BY <1>4, <3>2, <3>4
    <3>6. Min(finals) = n + 1
      BY <1>1, <3>3, <3>5
    <3> QED BY <1>1, <2>2, <3>6
  <2> QED BY <2>1, <2>2
<1>6. SubSeq(p, 1, at) = head /\ SubSeq(p, at + 1, Len(p)) = tail
  BY <1>1, <1>5
<1> QED BY <1>2, <1>6 DEF p

\* A list of the specific rules only
LEMMA WithoutEnding ==
  ASSUME NEW head \in Seq(ProfileRule), NEW tail \in Seq(ProfileRule), Specific(head), Ending(tail)
  PROVE  Filter(head \o tail, {r \in Range(head \o tail) : ~Final(r)}) = head
<1> DEFINE S == {r \in Range(head \o tail) : ~Final(r)}
<1>1. Range(head \o tail) = Range(head) \cup Range(tail)
  BY RangeConcat
<1>2. \A r \in Range(head) : ~Final(r)
  BY DEF Specific, Range
<1>3. \A r \in Range(tail) : Final(r)
  BY DEF Ending, Range
<1>4. Range(head) \subseteq S /\ Range(tail) \cap S = {}
  BY <1>1, <1>2, <1>3
<1> HIDE DEF S
<1>5. Filter(head \o tail, S) = Filter(head, S) \o Filter(tail, S)
  BY FilterConcat
<1>6. Filter(head, S) = head
  BY <1>4, FilterAll
<1>7. Filter(tail, S) = <<>>
  BY <1>4, FilterNone
<1>8. head \o <<>> = head
  BY ConcatEmptySeq
<1> QED BY <1>5, <1>6, <1>7, <1>8 DEF S

\* Some rule of the list has these conditions.
Occurs(list, match) == \E i \in DOMAIN list : list[i].match = match

\* g is the first of the first n groups with a rule of these conditions.
FirstHit(g, match, n, order, rules, docs) ==
  \E k \in 1..n : /\ order[k] = g /\ Hits(g, match, rules, docs)
                  /\ \A l \in 1..(k - 1) : ~Hits(order[l], match, rules, docs)

\* The first of the rules with the same conditions is from the first of the groups that
\* have such a rule.
Attributed(list, match, n, order, rules, docs) ==
  /\ \A k \in 1..n : Hits(order[k], match, rules, docs) => Occurs(list, match)
  /\ \A i \in DOMAIN list :
       list[i].match = match /\ (\A j \in 1..(i - 1) : list[j].match # match)
         => FirstHit(list[i].from, match, n, order, rules, docs)

\* What a group brings are its own rules, and all of them that have conditions.
Brings(new, g, rules, docs) ==
  /\ \A i \in DOMAIN new :
       ~Final(new[i]) /\ new[i].from = g /\ Hits(g, new[i].match, rules, docs)
  /\ \A match : match # {} /\ Hits(g, match, rules, docs) => Occurs(new, match)

LEMMA AttributedGrows ==
  ASSUME NEW list \in Seq(ProfileRule), NEW new \in Seq(ProfileRule), NEW n \in Nat,
         NEW order, NEW rules, NEW docs, NEW match, match # {},
         Attributed(list, match, n, order, rules, docs), Brings(new, order[n + 1], rules, docs)
  PROVE  Attributed(list \o new, match, n + 1, order, rules, docs)
<1> DEFINE s == list \o new
           a == Len(list)
           b == Len(new)
           Hit(k) == Hits(order[k], match, rules, docs)
<1>1. /\ a \in Nat /\ b \in Nat /\ DOMAIN list = 1..a /\ DOMAIN new = 1..b /\ DOMAIN s = 1..(a + b)
      /\ \A i \in 1..(a + b) : s[i] = IF i <= a THEN list[i] ELSE new[i - a]
  BY PartsOfConcat
<1> HIDE DEF s, a, b
<1>2. \A i \in 1..a : i \in 1..(a + b) /\ s[i] = list[i]
  BY <1>1
<1>3. \A i \in 1..b : a + i \in 1..(a + b) /\ s[a + i] = new[i]
  <2>1. ASSUME NEW i \in 1..b PROVE a + i \in 1..(a + b) /\ s[a + i] = new[i]
    <3>1. a + i \in 1..(a + b) /\ ~(a + i <= a) /\ (a + i) - a = i
      BY <1>1
    <3> QED BY <1>1, <3>1
  <2> QED BY <2>1
<1>4. ASSUME NEW k \in 1..(n + 1), Hit(k) PROVE Occurs(s, match)
  <2>1. k \in 1..n \/ k = n + 1
    OBVIOUS
  <2>2. CASE k \in 1..n
    <3>1. PICK i \in DOMAIN list : list[i].match = match
      BY <1>4, <2>2 DEF Attributed, Occurs
    <3>2. i \in DOMAIN s /\ s[i].match = match
      BY <1>1, <1>2, <3>1
    <3> QED BY <3>2 DEF Occurs
  <2>3. CASE k = n + 1
    <3>1. PICK i \in DOMAIN new : new[i].match = match
      BY <1>4, <2>3 DEF Brings, Occurs
    <3>2. a + i \in DOMAIN s /\ s[a + i].match = match
      BY <1>1, <1>3, <3>1
    <3> QED BY <3>2 DEF Occurs
  <2> QED BY <2>1, <2>2, <2>3
<1>5. ASSUME NEW i \in 1..(a + b), s[i].match = match, \A j \in 1..(i - 1) : s[j].match # match
      PROVE  FirstHit(s[i].from, match, n + 1, order, rules, docs)
  <2>1. CASE i <= a
    <3>1. i \in 1..a /\ list[i].match = match /\ list[i].from = s[i].from
      BY <1>1, <1>5, <2>1
    <3>2. \A j \in 1..(i - 1) : list[j].match # match
      <4>1. ASSUME NEW j \in 1..(i - 1) PROVE list[j].match # match
        <5>1. j \in 1..a
          BY <1>1, <3>1
        <5> QED BY <1>2, <1>5, <5>1
      <4> QED BY <4>1
    <3>3. FirstHit(list[i].from, match, n, order, rules, docs)
      BY <1>1, <3>1, <3>2 DEF Attributed
    <3>4. PICK k \in 1..n : /\ order[k] = list[i].from /\ Hits(list[i].from, match, rules, docs)
                            /\ \A l \in 1..(k - 1) : ~Hits(order[l], match, rules, docs)
      BY <3>3 DEF FirstHit
    <3>5. k \in 1..(n + 1)
      OBVIOUS
    <3> QED BY <3>1, <3>4, <3>5 DEF FirstHit
  <2>2. CASE ~(i <= a)
    <3>1. i - a \in 1..b /\ s[i] = new[i - a]
      BY <1>1, <2>2
    <3>2. s[i].from = order[n + 1] /\ Hits(order[n + 1], match, rules, docs)
      BY <1>1, <1>5, <3>1 DEF Brings
    <3>3. ~Occurs(list, match)
      <4>1. ASSUME NEW j \in 1..a PROVE list[j].match # match
        <5>1. j \in 1..(i - 1)
          BY <1>1, <2>2
        <5> QED BY <1>2, <1>5, <5>1
      <4> QED BY <1>1, <4>1 DEF Occurs
    <3>4. \A l \in 1..n : ~Hits(order[l], match, rules, docs)
      BY <3>3 DEF Attributed
    <3>5. n + 1 \in 1..(n + 1) /\ (n + 1) - 1 = n
      OBVIOUS
    <3> QED BY <3>2, <3>4, <3>5 DEF FirstHit
  <2> QED BY <2>1, <2>2
<1> QED BY <1>1, <1>4, <1>5 DEF Attributed, s

\* A document of rules
SourceRules(g, doc) == [i \in DOMAIN Holds[g] |-> [match |-> {Holds[g][i]}, to |-> doc.to, from |-> g]]
LEMMA SourceBrings ==
  ASSUME NEW g \in Sources, NEW rules, NEW docs, docs[g] \in Doc, docs[g].on
  PROVE  SourceRules(g, docs[g]) \in Seq(ProfileRule) /\ Brings(SourceRules(g, docs[g]), g, rules, docs)
<1> DEFINE new == SourceRules(g, docs[g])
           n == Len(Holds[g])
<1>1. /\ Holds[g] \in Seq(Conds) /\ n \in Nat /\ DOMAIN Holds[g] = 1..n /\ g # Manual /\ g \in Groups
      /\ docs[g].to \in Targets
  BY RoutingAssumption DEF Doc, Groups
<1>2. \A i \in 1..n : Holds[g][i] \in Conds
  BY <1>1
<1>3. /\ DOMAIN new = 1..n
      /\ \A i \in 1..n : new[i] = [match |-> {Holds[g][i]}, to |-> docs[g].to, from |-> g]
  BY <1>1 DEF SourceRules
<1>4. new = [i \in 1..n |-> [match |-> {Holds[g][i]}, to |-> docs[g].to, from |-> g]]
  BY <1>1 DEF SourceRules
<1> HIDE DEF new, n
<1>5. new \in Seq(ProfileRule)
  <2>1. new \in [1..n -> ProfileRule]
    BY <1>1, <1>2, <1>4 DEF ProfileRule
  <2> QED BY <1>1, <2>1, FunctionIsSeq
<1>6. ASSUME NEW i \in 1..n
      PROVE  ~Final(new[i]) /\ new[i].from = g /\ Hits(g, new[i].match, rules, docs)
  <2>1. new[i].match = {Holds[g][i]} /\ new[i].from = g
    BY <1>3
  <2> QED BY <1>1, <2>1 DEF Final, Hits
<1>7. ASSUME NEW match, Hits(g, match, rules, docs) PROVE Occurs(new, match)
  <2>1. PICK i \in 1..n : match = {Holds[g][i]}
    BY <1>1, <1>7 DEF Hits
  <2> QED BY <1>3, <2>1 DEF Occurs
<1> QED BY <1>3, <1>5, <1>6, <1>7 DEF Brings, new

\* The manual rules of a kind
ManualRules(rules, set) == LET some == Filter(rules, set)
                           IN [i \in DOMAIN some |-> Compiled(some[i], Manual)]
LEMMA ManualRulesAre ==
  ASSUME NEW rules \in Seq(Rule), NEW set, set \subseteq Range(rules)
  PROVE  /\ ManualRules(rules, set) \in Seq(ProfileRule)
         /\ \A i \in DOMAIN ManualRules(rules, set) : \E r \in set :
              /\ ManualRules(rules, set)[i].match = r.match
              /\ ManualRules(rules, set)[i].from = Manual
         /\ \A r \in set : Occurs(ManualRules(rules, set), r.match)
<1> DEFINE some == Filter(rules, set)
           new == ManualRules(rules, set)
           n == Len(some)
<1>1. some \in Seq(Rule) /\ Range(some) = set
  <2>1. some \in Seq(Rule) /\ Range(some) = Range(rules) \cap set
    BY FilterRange
  <2> HIDE DEF some
  <2> QED BY <2>1
<1>2. new = [i \in DOMAIN some |-> Compiled(some[i], Manual)]
  BY DEF ManualRules
<1> HIDE DEF some, new
<1>3. n \in Nat /\ DOMAIN some = 1..n /\ \A i \in 1..n : some[i] \in Rule
  BY <1>1
<1> HIDE DEF n
<1>4. new \in Seq(ProfileRule)
  <2>1. Manual \in Groups
    BY DEF Groups
  <2>2. \A i \in 1..n : Compiled(some[i], Manual) \in ProfileRule
    BY <1>3, <2>1 DEF Compiled, ProfileRule, Rule
  <2>3. new \in [1..n -> ProfileRule]
    BY <1>2, <1>3, <2>2
  <2> QED BY <1>3, <2>3, FunctionIsSeq
<1>5. \A i \in DOMAIN new : new[i].match = some[i].match /\ new[i].from = Manual /\ some[i] \in set
  BY <1>1, <1>2 DEF Compiled, Range
<1>6. ASSUME NEW r \in set PROVE Occurs(new, r.match)
  <2>1. PICK i \in DOMAIN some : some[i] = r
    BY <1>1 DEF Range
  <2> QED BY <1>2, <1>5, <2>1 DEF Occurs
<1> QED BY <1>4, <1>5, <1>6 DEF new

TurnedOn(rules) == {r \in Range(rules) : r.on}
Finals(rules) == {r \in TurnedOn(rules) : Final(r)}
LEMMA ManualBrings ==
  ASSUME NEW rules \in Seq(Rule), NEW docs
  PROVE  LET new == ManualRules(rules, TurnedOn(rules) \ Finals(rules))
             last == ManualRules(rules, Finals(rules))
         IN  /\ new \in Seq(ProfileRule) /\ Brings(new, Manual, rules, docs)
             /\ last \in Seq(ProfileRule) /\ Ending(last)
             /\ last # <<>> <=> Finals(rules) # {}
             /\ Hits(Manual, {}, rules, docs) <=> Finals(rules) # {}
<1> DEFINE plain == TurnedOn(rules) \ Finals(rules)
           final == Finals(rules)
           new == ManualRules(rules, plain)
           last == ManualRules(rules, final)
<1>1. plain \subseteq Range(rules) /\ final \subseteq Range(rules)
  BY DEF TurnedOn, Finals
<1>2. /\ \A r \in plain : ~Final(r) /\ r.on
      /\ \A r \in final : Final(r) /\ r.on
  BY DEF TurnedOn, Finals
<1>3. \A r \in Range(rules) : r.on => r \in plain \/ r \in final
  BY DEF TurnedOn, Finals
<1> HIDE DEF plain, final
<1>4. /\ new \in Seq(ProfileRule)
      /\ \A i \in DOMAIN new : \E r \in plain : new[i].match = r.match /\ new[i].from = Manual
      /\ \A r \in plain : Occurs(new, r.match)
  BY <1>1, ManualRulesAre
<1>5. /\ last \in Seq(ProfileRule)
      /\ \A i \in DOMAIN last : \E r \in final : last[i].match = r.match /\ last[i].from = Manual
      /\ \A r \in final : Occurs(last, r.match)
  BY <1>1, ManualRulesAre
<1> HIDE DEF new, last
<1>6. \A match : Hits(Manual, match, rules, docs) <=> \E r \in plain \cup final : r.match = match
  <2>1. ASSUME NEW match, NEW r \in plain \cup final, r.match = match PROVE Hits(Manual, match, rules, docs)
    <3>1. r \in Range(rules) /\ r.on
      BY <1>1, <1>2
    <3> QED BY <2>1, <3>1 DEF Hits, Range
  <2>2. ASSUME NEW match, Hits(Manual, match, rules, docs) PROVE \E r \in plain \cup final : r.match = match
    <3>1. PICK i \in DOMAIN rules : rules[i].on /\ rules[i].match = match
      BY <2>2 DEF Hits
    <3>2. rules[i] \in Range(rules)
      BY DEF Range
    <3> QED BY <1>3, <3>1, <3>2
  <2> QED BY <2>1, <2>2
<1>7. Brings(new, Manual, rules, docs)
  <2>1. \A i \in DOMAIN new : ~Final(new[i]) /\ new[i].from = Manual /\ Hits(Manual, new[i].match, rules, docs)
    BY <1>2, <1>4, <1>6 DEF Final
  <2>2. ASSUME NEW match, match # {}, Hits(Manual, match, rules, docs) PROVE Occurs(new, match)
    <3>1. PICK r \in plain \cup final : r.match = match
      BY <1>6, <2>2
    <3>2. r \in plain
      BY <1>2, <2>2, <3>1 DEF Final
    <3> QED BY <1>4, <3>1, <3>2
  <2> QED BY <2>1, <2>2 DEF Brings
<1>8. Ending(last)
  BY <1>2, <1>5 DEF Ending, Final
<1>9. last # <<>> <=> final # {}
  <2>1. ASSUME final # {} PROVE last # <<>>
    <3>1. PICK r \in final : Occurs(last, r.match)
      BY <1>5, <2>1
    <3> QED BY <3>1 DEF Occurs
  <2>2. ASSUME last # <<>> PROVE final # {}
    <3>1. 1 \in DOMAIN last
      BY <1>5, <2>2
    <3> QED BY <1>5, <3>1
  <2> QED BY <2>1, <2>2
<1>10. Hits(Manual, {}, rules, docs) <=> final # {}
  BY <1>2, <1>6 DEF Final
<1> QED BY <1>4, <1>5, <1>7, <1>8, <1>9, <1>10 DEF plain, final, new, last

\* The profile of the first n groups attributes what it has as the page does.
Mirrors(profile, n, order, rules, docs) ==
  \E head, tail \in Seq(ProfileRule) :
    /\ profile = head \o tail /\ Specific(head) /\ Ending(tail)
    /\ \A match : match # {} => Attributed(head, match, n, order, rules, docs)
    /\ tail # <<>> <=> \E k \in 1..n : Hits(order[k], {}, rules, docs)

\* A group that can be in an order
IsListed(g, docs) == g = Manual \/ (g \in Sources /\ docs[g] \in Doc)

\* What a group appends to a profile
LEMMA AppendsIts ==
  ASSUME NEW rules \in Seq(Rule), NEW docs, NEW g, IsListed(g, docs),
         NEW head \in Seq(ProfileRule), NEW tail \in Seq(ProfileRule), Specific(head), Ending(tail)
  PROVE  \E new, last \in Seq(ProfileRule) :
           /\ AppendGroup(head \o tail, g, rules, docs) = (head \o new) \o last
           /\ Brings(new, g, rules, docs) /\ Ending(last)
           /\ last # <<>> <=> tail # <<>> \/ Hits(g, {}, rules, docs)
<1> DEFINE profile == head \o tail
<1>1. CASE g = Manual
  <2> DEFINE new == ManualRules(rules, TurnedOn(rules) \ Finals(rules))
             final == ManualRules(rules, Finals(rules))
             specific == Insert(profile, new)
  <2>1. /\ new \in Seq(ProfileRule) /\ Brings(new, Manual, rules, docs)
        /\ final \in Seq(ProfileRule) /\ Ending(final)
        /\ final # <<>> <=> Finals(rules) # {}
        /\ Hits(Manual, {}, rules, docs) <=> Finals(rules) # {}
    BY ManualBrings
  <2>2. AppendGroup(profile, g, rules, docs) =
          IF Finals(rules) = {} THEN specific
          ELSE Filter(specific, {r \in Range(specific) : ~Final(r)}) \o final
    BY <1>1 DEF AppendGroup, AppendManual, ManualRules, TurnedOn, Finals
  <2> HIDE DEF new, final
  <2>3. specific = (head \o new) \o tail
    BY <2>1, InsertBetween
  <2>4. head \o new \in Seq(ProfileRule) /\ Specific(head \o new)
    <3>1. /\ head \o new \in Seq(ProfileRule) /\ DOMAIN (head \o new) = 1..(Len(head) + Len(new))
          /\ \A i \in 1..(Len(head) + Len(new)) :
               (head \o new)[i] = IF i <= Len(head) THEN head[i] ELSE new[i - Len(head)]
      BY <2>1, PartsOfConcat
    <3>2. ASSUME NEW i \in 1..(Len(head) + Len(new)) PROVE ~Final((head \o new)[i])
      <4>1. CASE i <= Len(head)
        <5>1. i \in DOMAIN head
          BY <4>1
        <5> QED BY <3>1, <4>1, <5>1 DEF Specific
      <4>2. CASE ~(i <= Len(head))
        <5>1. i - Len(head) \in DOMAIN new
          BY <2>1, <4>2
        <5> QED BY <2>1, <3>1, <4>2, <5>1 DEF Brings
      <4> QED BY <4>1, <4>2
    <3> QED BY <3>1, <3>2 DEF Specific
  <2>5. CASE Finals(rules) = {}
    <3>1. AppendGroup(profile, g, rules, docs) = (head \o new) \o tail
      BY <2>2, <2>3, <2>5
    <3>2. tail # <<>> <=> tail # <<>> \/ Hits(g, {}, rules, docs)
      BY <1>1, <2>1, <2>5
    <3> QED BY <1>1, <2>1, <3>1, <3>2
  <2>6. CASE Finals(rules) # {}
    <3>1. Filter(specific, {r \in Range(specific) : ~Final(r)}) = head \o new
      BY <2>3, <2>4, WithoutEnding
    <3> HIDE DEF specific
    <3>2. AppendGroup(profile, g, rules, docs) = (head \o new) \o final
      BY <2>2, <2>6, <3>1
    <3>3. final # <<>> <=> tail # <<>> \/ Hits(g, {}, rules, docs)
      BY <1>1, <2>1, <2>6
    <3> QED BY <1>1, <2>1, <3>2, <3>3
  <2> QED BY <2>5, <2>6
<1>2. CASE g # Manual
  <2>1. g \in Sources /\ docs[g] \in Doc
    BY <1>2 DEF IsListed
  <2>2. ~Hits(g, {}, rules, docs)
    BY <1>2 DEF Hits
  <2>3. CASE docs[g].on
    <3> DEFINE new == SourceRules(g, docs[g])
    <3>1. new \in Seq(ProfileRule) /\ Brings(new, g, rules, docs)
      BY <2>1, <2>3, SourceBrings
    <3>2. AppendGroup(profile, g, rules, docs) = Insert(profile, new)
      BY <1>2, <2>3 DEF AppendGroup, AppendSource, SourceRules
    <3> HIDE DEF new
    <3>3. Insert(profile, new) = (head \o new) \o tail
      BY <3>1, InsertBetween
    <3> QED BY <2>2, <3>1, <3>2, <3>3
  <2>4. CASE ~docs[g].on
    <3>1. AppendGroup(profile, g, rules, docs) = profile
      BY <1>2, <2>4 DEF AppendGroup, AppendSource
    <3>2. <<>> \in Seq(ProfileRule) /\ head \o <<>> = head
      BY ConcatEmptySeq
    <3>3. Brings(<<>>, g, rules, docs)
      BY <1>2, <2>4 DEF Brings, Hits
    <3>4. AppendGroup(profile, g, rules, docs) = (head \o <<>>) \o tail
      BY <3>1, <3>2
    <3> QED BY <2>2, <3>2, <3>3, <3>4
  <2> QED BY <2>3, <2>4
<1> QED BY <1>1, <1>2

LEMMA MirrorsOneMore ==
  ASSUME NEW rules \in Seq(Rule), NEW docs, NEW order, NEW n \in Nat,
         IsListed(order[n + 1], docs), NEW profile, Mirrors(profile, n, order, rules, docs)
  PROVE  Mirrors(AppendGroup(profile, order[n + 1], rules, docs), n + 1, order, rules, docs)
<1> DEFINE g == order[n + 1]
<1>1. PICK head, tail \in Seq(ProfileRule) :
        /\ profile = head \o tail /\ Specific(head) /\ Ending(tail)
        /\ \A match : match # {} => Attributed(head, match, n, order, rules, docs)
        /\ tail # <<>> <=> \E k \in 1..n : Hits(order[k], {}, rules, docs)
  BY DEF Mirrors
<1>2. PICK new, last \in Seq(ProfileRule) :
        /\ AppendGroup(profile, g, rules, docs) = (head \o new) \o last
        /\ Brings(new, g, rules, docs) /\ Ending(last)
        /\ last # <<>> <=> tail # <<>> \/ Hits(g, {}, rules, docs)
  <2>1. IsListed(g, docs)
    OBVIOUS
  <2> HIDE DEF g
  <2>2. \E new, last \in Seq(ProfileRule) :
          /\ AppendGroup(head \o tail, g, rules, docs) = (head \o new) \o last
          /\ Brings(new, g, rules, docs) /\ Ending(last)
          /\ last # <<>> <=> tail # <<>> \/ Hits(g, {}, rules, docs)
    BY <1>1, <2>1, AppendsIts
  <2> QED BY <1>1, <2>2
<1>3. head \o new \in Seq(ProfileRule) /\ Specific(head \o new)
  <2>1. /\ head \o new \in Seq(ProfileRule) /\ Range(head \o new) = Range(head) \cup Range(new)
    BY RangeConcat, ConcatProperties
  <2>2. \A r \in Range(head) \cup Range(new) : ~Final(r)
    BY <1>1, <1>2 DEF Specific, Brings, Range
  <2> QED BY <2>1, <2>2 DEF Specific, Range
<1>4. ASSUME NEW match, match # {} PROVE Attributed(head \o new, match, n + 1, order, rules, docs)
  BY <1>1, <1>2, <1>4, AttributedGrows
<1>5. last # <<>> <=> \E k \in 1..(n + 1) : Hits(order[k], {}, rules, docs)
  <2> DEFINE Hit(k) == Hits(order[k], {}, rules, docs)
  <2>1. (\E k \in 1..(n + 1) : Hit(k)) <=> (\E k \in 1..n : Hit(k)) \/ Hit(n + 1)
    <3> HIDE DEF Hit
    <3>1. \A k : k \in 1..(n + 1) <=> k \in 1..n \/ k = n + 1
      OBVIOUS
    <3> QED BY <3>1
  <2> QED BY <1>1, <1>2, <2>1
<1> QED BY <1>2, <1>3, <1>4, <1>5 DEF Mirrors

\* f has the profiles of the first groups, as far as n.
IsAppended(f, order, rules, docs, n) ==
  f = [k \in 0..n |-> IF k = 0 THEN <<>> ELSE AppendGroup(f[k - 1], order[k], rules, docs)]

LEMMA AppendedExists ==
  ASSUME NEW order, NEW rules, NEW docs, NEW n \in Nat
  PROVE  \E f : IsAppended(f, order, rules, docs, n)
<1> DEFINE T == {k \in Nat : \E f : IsAppended(f, order, rules, docs, k)}
<1>1. 0 \in T
  <2>1. IsAppended([i \in 0..0 |-> <<>>], order, rules, docs, 0)
    BY DEF IsAppended
  <2> QED BY <2>1
<1>2. ASSUME NEW k \in Nat, k \in T PROVE k + 1 \in T
  <2>1. PICK f : IsAppended(f, order, rules, docs, k)
    BY <1>2
  <2> DEFINE x == AppendGroup(f[k], order[k + 1], rules, docs)
             g == [i \in 0..(k + 1) |-> IF i = k + 1 THEN x ELSE f[i]]
  <2>2. ASSUME NEW i \in 0..(k + 1)
        PROVE  g[i] = IF i = 0 THEN <<>> ELSE AppendGroup(g[i - 1], order[i], rules, docs)
    <3>1. CASE i = k + 1
      <4>1. g[i] = x /\ g[i - 1] = f[k] /\ i # 0
        BY <3>1
      <4> QED BY <4>1, <3>1
    <3>2. CASE i # k + 1
      <4>1. g[i] = f[i] /\ (i # 0 => g[i - 1] = f[i - 1]) /\ i \in 0..k
        BY <3>2
      <4>2. f[i] = IF i = 0 THEN <<>> ELSE AppendGroup(f[i - 1], order[i], rules, docs)
        BY <2>1, <4>1 DEF IsAppended
      <4> QED BY <4>1, <4>2
    <3> QED BY <3>1, <3>2
  <2>3. IsAppended(g, order, rules, docs, k + 1)
    <3> HIDE DEF x
    <3> QED BY <2>2 DEF IsAppended
  <2> HIDE DEF g
  <2> QED BY <2>3
<1>3. Nat \subseteq T
  <2> HIDE DEF T
  <2> QED BY <1>1, <1>2, SetInd
<1> QED BY <1>3

\* The profile of an order
LEMMA AppendedMirrors ==
  ASSUME NEW rules \in Seq(Rule), NEW docs, NEW order, Len(order) \in Nat,
         \A k \in 1..Len(order) : IsListed(order[k], docs)
  PROVE  Mirrors(Appended(order, rules, docs), Len(order), order, rules, docs)
<1> DEFINE n == Len(order)
           f == CHOOSE f : IsAppended(f, order, rules, docs, n)
           T == {k \in Nat : k <= n => Mirrors(f[k], k, order, rules, docs)}
<1>1. IsAppended(f, order, rules, docs, n)
  BY AppendedExists
<1>2. Appended(order, rules, docs) = f[n]
  BY DEF Appended, IsAppended
<1> HIDE DEF f
<1>3. 0 \in T
  <2>1. f[0] = <<>>
    BY <1>1 DEF IsAppended
  <2>2. <<>> \in Seq(ProfileRule) /\ <<>> = <<>> \o <<>>
    OBVIOUS
  <2>3. Specific(<<>>) /\ Ending(<<>>)
    BY DEF Specific, Ending
  <2>4. \A match : Attributed(<<>>, match, 0, order, rules, docs)
    BY DEF Attributed
  <2>5. ~\E k \in 1..0 : Hits(order[k], {}, rules, docs)
    OBVIOUS
  <2>6. Mirrors(<<>>, 0, order, rules, docs)
    BY <2>2, <2>3, <2>4, <2>5 DEF Mirrors
  <2> QED BY <2>1, <2>6
<1>4. ASSUME NEW k \in Nat, k \in T PROVE k + 1 \in T
  <2>1. SUFFICES ASSUME k + 1 <= n PROVE Mirrors(f[k + 1], k + 1, order, rules, docs)
    OBVIOUS
  <2>2. k <= n /\ k + 1 \in 0..n /\ k + 1 # 0 /\ (k + 1) - 1 = k /\ k + 1 \in 1..n
    BY <2>1
  <2>3. f[k + 1] = AppendGroup(f[k], order[k + 1], rules, docs)
    BY <1>1, <2>2 DEF IsAppended
  <2>4. Mirrors(f[k], k, order, rules, docs) /\ IsListed(order[k + 1], docs)
    BY <1>4, <2>2
  <2> QED BY <2>3, <2>4, MirrorsOneMore
<1>5. Nat \subseteq T
  <2> HIDE DEF T
  <2> QED BY <1>3, <1>4, SetInd
<1>6. n \in T /\ n <= n
  BY <1>5
<1> QED BY <1>2, <1>6

\* The first group of an order that has such a rule
Matched(match, order, rules, docs) ==
  LET hits == {i \in DOMAIN order : Hits(order[i], match, rules, docs)}
  IN IF hits = {} THEN Nothing ELSE order[Min(hits)]

LEMMA MatchedFirst ==
  ASSUME NEW order, NEW rules, NEW docs, NEW match, NEW g,
         Len(order) \in Nat, DOMAIN order = 1..Len(order),
         FirstHit(g, match, Len(order), order, rules, docs)
  PROVE  Matched(match, order, rules, docs) = g
<1> DEFINE n == Len(order)
           hits == {i \in DOMAIN order : Hits(order[i], match, rules, docs)}
<1>1. PICK k \in 1..n : /\ order[k] = g /\ Hits(g, match, rules, docs)
                        /\ \A l \in 1..(k - 1) : ~Hits(order[l], match, rules, docs)
  BY DEF FirstHit
<1>2. k \in hits /\ hits \subseteq 1..n /\ hits \subseteq Nat /\ n \in Nat
  BY <1>1
<1>3. \A l \in 1..(k - 1) : l \notin hits
  BY <1>1
<1> HIDE DEF hits, n
<1>4. Min(hits) \in hits /\ Min(hits) <= k
  BY <1>2, MinIs
<1>5. Min(hits) = k
  <2> DEFINE m == Min(hits)
  <2>1. m \in 1..n /\ m \notin 1..(k - 1) /\ m <= k
    BY <1>2, <1>3, <1>4
  <2>2. k \in 1..n
    BY <1>2
  <2> HIDE DEF m
  <2>3. m = k
    BY <1>2, <2>1, <2>2
  <2> QED BY <2>3 DEF m
<1>6. Matched(match, order, rules, docs) = IF hits = {} THEN Nothing ELSE order[Min(hits)]
  BY DEF Matched, hits
<1> QED BY <1>1, <1>2, <1>5, <1>6

LEMMA MatchedEnding ==
  ASSUME NEW order, NEW rules, NEW docs,
         Len(order) \in Nat, DOMAIN order = 1..Len(order)
  PROVE  Matched({}, order, rules, docs) =
           IF \E k \in 1..Len(order) : Hits(order[k], {}, rules, docs) THEN Manual ELSE Nothing
<1> DEFINE hits == {i \in DOMAIN order : Hits(order[i], {}, rules, docs)}
<1>1. Matched({}, order, rules, docs) = IF hits = {} THEN Nothing ELSE order[Min(hits)]
  BY DEF Matched
<1>2. hits # {} <=> \E k \in 1..Len(order) : Hits(order[k], {}, rules, docs)
  OBVIOUS
<1>3. \A i \in hits : order[i] = Manual
  BY DEF Hits
<1>4. hits \subseteq Nat
  OBVIOUS
<1> HIDE DEF hits
<1>5. hits # {} => Min(hits) \in hits
  BY <1>4, MinIs
<1> QED BY <1>1, <1>2, <1>3, <1>5

\* Without a node source there is a rule for the end, when there is none yet.
EndsAs(ended, profile) ==
  \/ ended = profile
  \/ (\A k \in DOMAIN profile : ~Final(profile[k])) /\ ended = profile \o managed_empty

\* The first rule of its conditions
IsFirst(list, i) == i \in DOMAIN list /\ \A j \in 1..(i - 1) : list[j].match # list[i].match

\* A profile that mirrors an order, with what is compiled without a node source
LEMMA MirrorsMatched ==
  ASSUME NEW order, NEW rules, NEW docs, Len(order) \in Nat, DOMAIN order = 1..Len(order),
         NEW profile, Mirrors(profile, Len(order), order, rules, docs),
         NEW ended, EndsAs(ended, profile), NEW i, IsFirst(ended, i)
  PROVE  Matched(ended[i].match, order, rules, docs) = ended[i].from
<1> DEFINE n == Len(order)
<1>1. PICK head, tail \in Seq(ProfileRule) :
        /\ profile = head \o tail /\ Specific(head) /\ Ending(tail)
        /\ \A match : match # {} => Attributed(head, match, n, order, rules, docs)
        /\ tail # <<>> <=> \E k \in 1..n : Hits(order[k], {}, rules, docs)
  BY DEF Mirrors
<1> DEFINE a == Len(head)
           b == Len(tail)
<1>2. /\ a \in Nat /\ b \in Nat /\ DOMAIN head = 1..a /\ DOMAIN tail = 1..b /\ Len(profile) = a + b
      /\ profile \in Seq(ProfileRule) /\ DOMAIN profile = 1..(a + b)
      /\ \A k \in 1..(a + b) : profile[k] = IF k <= a THEN head[k] ELSE tail[k - a]
  BY <1>1, PartsOfConcat
<1> HIDE DEF a, b, n
<1>3. ASSUME NEW k \in 1..(a + b), \A j \in 1..(k - 1) : profile[j].match # profile[k].match
      PROVE  Matched(profile[k].match, order, rules, docs) = profile[k].from
  <2>1. CASE k <= a
    <3>1. k \in DOMAIN head /\ profile[k] = head[k]
      BY <1>2, <2>1
    <3>2. \A j \in 1..(k - 1) : head[j].match # head[k].match
      <4>1. ASSUME NEW j \in 1..(k - 1) PROVE head[j].match # head[k].match
        <5>1. j \in 1..(a + b) /\ j <= a
          BY <1>2, <2>1
        <5> QED BY <1>2, <1>3, <3>1, <5>1
      <4> QED BY <4>1
    <3>3. head[k].match # {}
      BY <1>1, <3>1 DEF Specific, Final
    <3>4. Attributed(head, head[k].match, n, order, rules, docs)
      BY <1>1, <3>3
    <3>5. FirstHit(head[k].from, head[k].match, n, order, rules, docs)
      BY <3>1, <3>2, <3>4 DEF Attributed
    <3> QED BY <3>1, <3>5, MatchedFirst DEF n
  <2>2. CASE ~(k <= a)
    <3>1. k - a \in DOMAIN tail /\ profile[k] = tail[k - a]
      BY <1>2, <2>2
    <3>2. profile[k].match = {} /\ profile[k].from = Manual /\ tail # <<>>
      BY <1>1, <3>1 DEF Ending, Final
    <3> QED BY <1>1, <3>2, MatchedEnding DEF n
  <2> QED BY <2>1, <2>2
<1>4. CASE ended = profile
  <2>1. i \in 1..(a + b) /\ \A j \in 1..(i - 1) : profile[j].match # profile[i].match
    BY <1>2, <1>4 DEF IsFirst
  <2>2. Matched(profile[i].match, order, rules, docs) = profile[i].from
    BY <1>3, <2>1
  <2> QED BY <1>4, <2>2
<1>5. CASE (\A k \in DOMAIN profile : ~Final(profile[k])) /\ ended = profile \o managed_empty
  <2> DEFINE r == [match |-> {}, to |-> Direct, from |-> Nothing]
             S == ProfileRule \cup {r}
  <2>1. managed_empty = <<r>>
    BY DEF managed_empty
  <2> HIDE DEF r
  <2>2. profile \in Seq(S) /\ <<r>> \in Seq(S) /\ Len(<<r>>) = 1
    BY <1>2
  <2> HIDE DEF S
  <2>3. /\ DOMAIN ended = 1..((a + b) + 1)
        /\ \A k \in 1..((a + b) + 1) : ended[k] = IF k <= a + b THEN profile[k] ELSE <<r>>[k - (a + b)]
    BY <1>2, <1>5, <2>1, <2>2, PartsOfConcat
  <2>4. \A k \in 1..(a + b) : k \in 1..((a + b) + 1) /\ ended[k] = profile[k]
    BY <1>2, <2>3
  <2>5. tail = <<>>
    <3>1. ASSUME tail # <<>> PROVE FALSE
      <4>1. b # 0
        BY <1>1, <3>1 DEF b
      <4>2. a + 1 \in 1..(a + b) /\ ~(a + 1 <= a) /\ (a + 1) - a = 1 /\ 1 \in 1..b
        BY <1>2, <4>1
      <4>3. profile[a + 1] = tail[1]
        BY <1>2, <4>2
      <4> QED BY <1>1, <1>2, <1>5, <4>2, <4>3 DEF Ending
    <3> QED BY <3>1
  <2>6. CASE i \in 1..(a + b)
    <3>1. \A j \in 1..(i - 1) : j \in 1..(a + b)
      BY <1>2, <2>6
    <3>2. \A j \in 1..(i - 1) : profile[j].match # profile[i].match
      BY <2>4, <2>6, <3>1 DEF IsFirst
    <3>3. Matched(profile[i].match, order, rules, docs) = profile[i].from
      BY <1>3, <2>6, <3>2
    <3> QED BY <2>4, <2>6, <3>3
  <2>7. CASE i = (a + b) + 1
    <3>1. ~(i <= a + b) /\ i - (a + b) = 1 /\ i \in 1..((a + b) + 1)
      BY <1>2, <2>7
    <3>2. ended[i] = r
      BY <2>3, <3>1
    <3>3. ended[i].match = {} /\ ended[i].from = Nothing
      BY <3>2 DEF r
    <3>4. ~\E k \in 1..n : Hits(order[k], {}, rules, docs)
      BY <1>1, <2>5
    <3> QED BY <3>3, <3>4, MatchedEnding DEF n
  <2>8. i \in 1..(a + b) \/ i = (a + b) + 1
    BY <1>2, <2>3 DEF IsFirst
  <2> QED BY <2>6, <2>7, <2>8
<1> QED BY <1>4, <1>5 DEF EndsAs

\* What a profile is compiled from, unless it is refused
IsCompiled(ended, order, rules, docs) ==
  /\ rules \in Seq(Rule) /\ order \in Seq(Groups)
  /\ \A k \in 1..Len(order) : IsListed(order[k], docs)
  /\ \E pol, nodes : ended = CompileIn(order, rules, docs, pol, nodes)
IsAttributed(ended, order, rules, docs) ==
  \A i : IsFirst(ended, i) => Matched(ended[i].match, order, rules, docs) = ended[i].from

\* Such a profile is attributed as the page does it.
LEMMA CompiledMirrors ==
  ASSUME NEW ended, NEW order, NEW rules, NEW docs,
         IsCompiled(ended, order, rules, docs), ended # Refused
  PROVE  IsAttributed(ended, order, rules, docs)
<1> DEFINE profile == Appended(order, rules, docs)
           n == Len(order)
<1> SUFFICES ASSUME NEW i, IsFirst(ended, i)
             PROVE  Matched(ended[i].match, order, rules, docs) = ended[i].from
  BY DEF IsAttributed
<1> PICK pol, nodes : ended = CompileIn(order, rules, docs, pol, nodes)
  BY DEF IsCompiled
<1>1. /\ rules \in Seq(Rule) /\ n \in Nat /\ DOMAIN order = 1..n
      /\ \A k \in 1..n : IsListed(order[k], docs)
  BY DEF IsCompiled
<1>2. Mirrors(profile, n, order, rules, docs)
  BY <1>1, AppendedMirrors
<1>3. ended = IF \E k \in DOMAIN profile : Final(profile[k]) THEN profile
              ELSE profile \o Fallback(nodes)
  BY DEF CompileIn
<1> HIDE DEF profile
<1>4. profile \o <<>> = profile
  <2>1. profile \in Seq(ProfileRule)
    BY <1>2, ConcatProperties DEF Mirrors
  <2> QED BY <2>1, ConcatEmptySeq
<1>5. EndsAs(ended, profile)
  BY <1>3, <1>4 DEF EndsAs, Fallback
<1>6. Mirrors(profile, Len(order), order, rules, docs) /\ Len(order) \in Nat /\ DOMAIN order = 1..Len(order)
  BY <1>1, <1>2
<1> HIDE DEF n
<1>7. \A p : Mirrors(p, Len(order), order, rules, docs) /\ EndsAs(ended, p)
               => Matched(ended[i].match, order, rules, docs) = ended[i].from
  BY <1>6, MirrorsMatched
<1> QED BY <1>5, <1>6, <1>7

\* The kernel is never given a profile that was refused.
KernelRuns == kernel # Refused

LEMMA KernelStep == kernel # Refused /\ [RoutingNext]_routingVars => kernel' # Refused
<1> SUFFICES ASSUME kernel # Refused, [RoutingNext]_routingVars PROVE kernel' # Refused
  OBVIOUS
<1>1. CASE Relaunch
  BY <1>1 DEF Relaunch
<1>2. CASE Accept
  BY <1>2 DEF Accept
<1>3. CASE FinishSource
  BY <1>3 DEF FinishSource
<1>4. CASE OpenPage \/ CloseDraft \/ SubmitMissing \/ FinishPage
  BY <1>4 DEF OpenPage, CloseDraft, SubmitMissing, FinishPage, FinishPageAs
<1>5. CASE InstallAll \/ RollBack \/ \E t \in Tasks : Begin(t)
  BY <1>5 DEF InstallAll, RollBack, Begin
<1>6. ASSUME NEW u, NEW undo, Apply(u, undo) PROVE UNCHANGED kernel
  BY <1>6 DEF Apply
<1>7. ASSUME NEW rules, ChangeRules(rules) PROVE UNCHANGED kernel
  BY <1>6, <1>7 DEF ChangeRules
<1>8. ASSUME NEW order, Reorder(order) PROVE UNCHANGED kernel
  BY <1>6, <1>8 DEF Reorder
<1>9. ASSUME NEW t, NEW item, NEW new, StartTask(t, item, new) PROVE UNCHANGED kernel
  BY <1>9 DEF StartTask
<1>10. CASE \E mode \in {"append", "prepend"} : OpenDraft(mode)
  BY <1>10 DEF OpenDraft
<1>11. CASE \E i \in 1..MaxRules : OpenEdit(i) \/ RemoveRule(i) \/ ToggleRule(i)
  BY <1>7, <1>11 DEF OpenEdit, RemoveRule, ToggleRule
<1>12. CASE \E r \in Texts : SubmitNew(r) \/ SubmitEdit(r)
  BY <1>7, <1>12 DEF SubmitNew, SubmitEdit
<1>13. CASE \/ \E g, anchor \in Groups, behind \in BOOLEAN : PlaceGroup(g, anchor, behind)
            \/ \E g \in Groups, upward \in BOOLEAN : MoveGroup(g, upward)
  BY <1>8, <1>13 DEF PlaceGroup, MoveGroup
<1>14. CASE \E s \in Sources : RemoveSource(s) \/ ToggleSource(s)
  BY <1>9, <1>14 DEF RemoveSource, ToggleSource
<1>15. CASE \E s \in Sources, to \in Targets : AddSource(s, to) \/ TargetSource(s, to)
  BY <1>9, <1>15 DEF AddSource, TargetSource
<1>16. CASE \E p \in Policies : \E m \in SUBSET (Policies \cup {Node}) \cup {Absent} : SavePolicy(p, m)
  BY <1>9, <1>16 DEF SavePolicy
<1>17. CASE UNCHANGED routingVars
  BY <1>17 DEF routingVars
<1> QED BY <1>1, <1>2, <1>3, <1>4, <1>5, <1>10, <1>11, <1>12, <1>13, <1>14, <1>15, <1>16, <1>17
  DEF RoutingNext

\* The order that the page shows is the one that is compiled, of groups that are there.
LEMMA ShownIsCompiled ==
  ASSUME RoutingInv, Idle, ui.loaded, astray = {}
  PROVE  /\ ShownOrder(ui) \in Seq(Groups) /\ ui.rules \in Seq(Rule)
         /\ \A k \in 1..Len(ShownOrder(ui)) : IsListed(ShownOrder(ui)[k], ui.docs)
         /\ kernel = CompileIn(ShownOrder(ui), ui.rules, ui.docs, store.pol, store.nodes)
<1> DEFINE L == Listed(ui.docs)
           m == ui.rules # <<>>
           order == ShownOrder(ui)
<1>1. Clear({"mingled", "unsaved", "unread"}) /\ Clear({"mingled", "blind", "unread"})
  BY DEF Clear
<1>2. /\ ui.rules = store.rules /\ ui.docs = store.docs
      /\ ShownOrder(ui) = Normalized(store.order, store.rules # <<>>, Listed(store.docs))
  BY <1>1, PageFollows
<1>3. tx.stage # "installed"
  BY DEF Idle, NoJob, RoutingInv, RulesInv, StateTyped, LockIsHeld, NoTx
<1>4. kernel = Compile(store)
  BY <1>1, <1>3, NothingToUndo DEF RoutingInv, RulesInv, KernelInStep
<1>5. kernel = CompileIn(order, ui.rules, ui.docs, store.pol, store.nodes)
  BY <1>2, <1>4 DEF Compile
<1>6. ui.order \in Seq(Groups) /\ ui.rules \in Seq(Rule) /\ ui.docs \in Docs
  BY DEF RoutingInv, RulesInv, StateTyped
<1>7. L \in Seq(Sources) /\ Range(L) = Live(ui.docs)
  BY ListedAre
<1>8. m \in BOOLEAN
  OBVIOUS
<1>9. order = Normalized(ui.order, m, L)
  BY DEF ShownOrder
<1> HIDE DEF L, m, order
<1>10. order \in Seq(Groups) /\ Range(order) = Live(ui.docs) \cup IfManual(m)
  BY <1>6, <1>7, <1>8, <1>9, NormalizedGroups
<1>11. ASSUME NEW k \in 1..Len(order) PROVE IsListed(order[k], ui.docs)
  <2>1. order[k] \in Live(ui.docs) \cup IfManual(m)
    BY <1>10 DEF Range
  <2>2. CASE order[k] \in Live(ui.docs)
    <3>1. order[k] \in Sources /\ ui.docs[order[k]] \in Doc
      BY <1>6, <2>2 DEF Live, Docs
    <3> QED BY <3>1 DEF IsListed
  <2>3. CASE order[k] \in IfManual(m)
    BY <2>3 DEF IfManual, IsListed
  <2> QED BY <2>1, <2>2, <2>3
<1> QED BY <1>5, <1>6, <1>10, <1>11 DEF order

\* A connection is shown with the group that its rule was compiled from,
\* whatever the rules, the sources and their order.
THEOREM ActivityMirrors == RoutingSpec => []ActivityMirrorsProfile
<1>1. RoutingInit => KernelRuns
  BY DEF RoutingInit, KernelRuns
<1>2. KernelRuns /\ [RoutingNext]_routingVars => KernelRuns'
  BY KernelStep DEF KernelRuns
<1>3. RoutingInv /\ KernelRuns => ActivityMirrorsProfile
  <2> SUFFICES ASSUME RoutingInv, KernelRuns, Idle, ui.loaded, astray = {},
                      NEW i \in DOMAIN kernel,
                      \A j \in 1..(i - 1) : kernel[j].match # kernel[i].match
               PROVE  MatchingGroup(kernel[i].match) = kernel[i].from
    BY DEF ActivityMirrorsProfile
  <2> DEFINE order == ShownOrder(ui)
  <2>1. /\ order \in Seq(Groups) /\ ui.rules \in Seq(Rule)
        /\ \A k \in 1..Len(order) : IsListed(order[k], ui.docs)
        /\ kernel = CompileIn(order, ui.rules, ui.docs, store.pol, store.nodes)
    BY ShownIsCompiled
  <2>2. IsFirst(kernel, i)
    BY DEF IsFirst
  <2>3. MatchingGroup(kernel[i].match) = Matched(kernel[i].match, order, ui.rules, ui.docs)
    BY DEF MatchingGroup, Matched
  <2> HIDE DEF order
  <2>4. Matched(kernel[i].match, order, ui.rules, ui.docs) = kernel[i].from
    <3>1. IsCompiled(kernel, order, ui.rules, ui.docs)
      BY <2>1 DEF IsCompiled
    <3>2. IsAttributed(kernel, order, ui.rules, ui.docs)
      BY <3>1, CompiledMirrors DEF KernelRuns
    <3> QED BY <2>2, <3>2 DEF IsAttributed
  <2> QED BY <2>3, <2>4
<1> QED BY <1>1, <1>2, <1>3, RoutingInvariant, PTL DEF RoutingSpec

-----------------------------------------------------------------------------
(* The live streams (LiveStream)                                           *)

\* Numbers in their order, each of them once
Increasing(s) == \A i, j \in DOMAIN s : i < j => s[i] < s[j]

\* Two sequences are in order one after the other when each of them is and the
\* first has the smaller numbers.
LEMMA IncreasingConcat ==
  ASSUME NEW s \in Seq(Nat), NEW t \in Seq(Nat)
  PROVE  Increasing(s \o t) <=>
           Increasing(s) /\ Increasing(t) /\ \A x \in Range(s), y \in Range(t) : x < y
<1> DEFINE m == Len(s)
           n == Len(t)
           st == s \o t
<1>1. /\ m \in Nat /\ n \in Nat /\ DOMAIN s = 1..m /\ DOMAIN t = 1..n /\ DOMAIN st = 1..(m + n)
      /\ \A i \in 1..m : st[i] = s[i]
      /\ \A i \in 1..n : st[m + i] = t[i]
  OBVIOUS
<1> HIDE DEF m, n, st
<1>2. ASSUME Increasing(st)
      PROVE  Increasing(s) /\ Increasing(t) /\ \A x \in Range(s), y \in Range(t) : x < y
  <2>1. Increasing(s)
    <3>1. ASSUME NEW i \in 1..m, NEW j \in 1..m, i < j PROVE s[i] < s[j]
      <4>1. i \in DOMAIN st /\ j \in DOMAIN st
        BY <1>1, <3>1
      <4>2. st[i] < st[j]
        BY <1>2, <3>1, <4>1 DEF Increasing
      <4> QED BY <1>1, <4>2
    <3> QED BY <1>1, <3>1 DEF Increasing
  <2>2. Increasing(t)
    <3>1. ASSUME NEW i \in 1..n, NEW j \in 1..n, i < j PROVE t[i] < t[j]
      <4>1. m + i \in 1..(m + n) /\ m + j \in 1..(m + n) /\ m + i < m + j
        BY <1>1, <3>1
      <4>2. st[m + i] < st[m + j]
        BY <1>1, <1>2, <4>1 DEF Increasing
      <4> QED BY <1>1, <4>2
    <3> QED BY <1>1, <3>1 DEF Increasing
  <2>3. ASSUME NEW x \in Range(s), NEW y \in Range(t) PROVE x < y
    <3>1. PICK i \in 1..m : x = s[i]
      BY <1>1 DEF Range
    <3>2. PICK j \in 1..n : y = t[j]
      BY <1>1 DEF Range
    <3>3. i \in 1..(m + n) /\ m + j \in 1..(m + n) /\ i < m + j
      BY <1>1
    <3>4. st[i] < st[m + j]
      BY <1>1, <1>2, <3>3 DEF Increasing
    <3> QED BY <1>1, <3>1, <3>2, <3>4
  <2> QED BY <2>1, <2>2, <2>3
<1>3. ASSUME Increasing(s), Increasing(t), \A x \in Range(s), y \in Range(t) : x < y
      PROVE  Increasing(st)
  <2>1. ASSUME NEW i \in 1..(m + n), NEW j \in 1..(m + n), i < j PROVE st[i] < st[j]
    <3>1. CASE j <= m
      <4>1. i \in 1..m /\ j \in 1..m
        BY <1>1, <2>1, <3>1
      <4>2. s[i] < s[j]
        BY <1>1, <1>3, <2>1, <4>1 DEF Increasing
      <4> QED BY <1>1, <4>1, <4>2
    <3>2. CASE i > m
      <4>1. i - m \in 1..n /\ j - m \in 1..n /\ i - m < j - m /\ m + (i - m) = i /\ m + (j - m) = j
        BY <1>1, <2>1, <3>2
      <4>2. t[i - m] < t[j - m]
        BY <1>1, <1>3, <4>1 DEF Increasing
      <4>3. st[m + (i - m)] = t[i - m] /\ st[m + (j - m)] = t[j - m]
        BY <1>1, <4>1
      <4> QED BY <4>1, <4>2, <4>3
    <3>3. CASE i <= m /\ j > m
      <4>1. i \in 1..m /\ j - m \in 1..n /\ m + (j - m) = j
        BY <1>1, <2>1, <3>3
      <4>2. s[i] \in Range(s) /\ t[j - m] \in Range(t)
        BY <1>1, <4>1 DEF Range
      <4>3. st[i] = s[i] /\ st[m + (j - m)] = t[j - m]
        BY <1>1, <4>1
      <4> QED BY <1>3, <4>1, <4>2, <4>3
    <3> QED BY <1>1, <3>1, <3>2, <3>3
  <2> QED BY <1>1, <2>1 DEF Increasing
<1> QED BY <1>2, <1>3 DEF st

\* What is left of a sequence in order when a part of it is lost is in order.
LEMMA IncreasingWithout ==
  ASSUME NEW s \in Seq(Nat), NEW t \in Seq(Nat), NEW u \in Seq(Nat), Increasing(s \o (t \o u))
  PROVE  /\ Increasing(s \o u)
         /\ Range(s \o u) \subseteq Range(s \o (t \o u))
         /\ Range(s \o (t \o u)) = Range(s \o u) \cup Range(t)
<1> DEFINE tu == t \o u
<1>1. tu \in Seq(Nat)
  OBVIOUS
<1>2. Range(tu) = Range(t) \cup Range(u)
  BY RangeConcat
<1>3. Increasing(t) /\ Increasing(u) <=> Increasing(t) /\ Increasing(u)
  OBVIOUS
<1>4. Increasing(tu) => Increasing(u)
  BY IncreasingConcat
<1> HIDE DEF tu
<1>5. Increasing(s) /\ Increasing(tu) /\ \A x \in Range(s), y \in Range(tu) : x < y
  BY <1>1, IncreasingConcat DEF tu
<1>6. Increasing(s \o u)
  BY <1>2, <1>4, <1>5, IncreasingConcat
<1>7. Range(s \o u) = Range(s) \cup Range(u)
  BY RangeConcat
<1>8. Range(s \o tu) = Range(s) \cup Range(tu)
  BY <1>1, RangeConcat
<1> QED BY <1>2, <1>6, <1>7, <1>8 DEF tu

\* A sequence that is cut down to its last elements loses a part before them.
LEMMA CutDown ==
  ASSUME NEW s \in Seq(Nat), NEW n \in Nat
  PROVE  LastOf(s, n) \in Seq(Nat) /\ \E lost \in Seq(Nat) : s = lost \o LastOf(s, n)
<1>1. CASE Len(s) <= n
  <2>1. LastOf(s, n) = s /\ s = <<>> \o s /\ <<>> \in Seq(Nat)
    BY <1>1 DEF LastOf
  <2> QED BY <2>1
<1>2. CASE Len(s) > n
  <2> DEFINE k == Len(s) - n
  <2>1. k \in 1..Len(s) /\ LastOf(s, n) = SubSeq(s, k + 1, Len(s))
    BY <1>2 DEF LastOf
  <2>2. SubSeq(s, 1, k) \o SubSeq(s, k + 1, Len(s)) = SubSeq(s, 1, Len(s))
    BY <2>1, ConcatAdjacentSubSeq
  <2>3. SubSeq(s, 1, Len(s)) = s
    OBVIOUS
  <2> HIDE DEF k
  <2>4. SubSeq(s, 1, k) \in Seq(Nat) /\ SubSeq(s, k + 1, Len(s)) \in Seq(Nat)
    BY <2>1, SMTT(30)
  <2>5. s = SubSeq(s, 1, k) \o LastOf(s, n)
    BY <2>1, <2>2, <2>3
  <2>6. LastOf(s, n) \in Seq(Nat)
    BY <2>1, <2>4
  <2>7. SubSeq(s, 1, k) \in Seq(Nat)
    BY <2>4
  <2>8. \E lost \in Seq(Nat) : s = lost \o LastOf(s, n)
    <3> WITNESS SubSeq(s, 1, k) \in Seq(Nat)
    <3> QED BY <2>5
  <2> QED BY <2>6, <2>8
<1>3. Len(s) <= n \/ Len(s) > n
  OBVIOUS
<1> QED BY <1>1, <1>2, <1>3, Zenon

\* A sequence of pieces has as many numbers.
LEMMA NumbersOfPieces ==
  ASSUME NEW s \in Seq(Pieces)
  PROVE  /\ Numbers(s) \in Seq(Nat) /\ Len(Numbers(s)) = Len(s)
         /\ \A i \in 1..Len(s) : Numbers(s)[i] = s[i][1]
<1>1. \A i \in 1..Len(s) : s[i][1] \in Nat
  BY DEF Pieces
<1>2. Numbers(s) = [i \in 1..Len(s) |-> s[i][1]]
  BY DEF Numbers
<1>3. Numbers(s) \in [1..Len(s) -> Nat]
  BY <1>1, <1>2
<1>4. Numbers(s) \in Seq(Nat) /\ Len(Numbers(s)) = Len(s)
  BY <1>3
<1> QED BY <1>2, <1>4

\* The numbers of two parts are those of the whole.
LEMMA NumbersConcat ==
  ASSUME NEW s \in Seq(Pieces), NEW t \in Seq(Pieces)
  PROVE  Numbers(s \o t) = Numbers(s) \o Numbers(t)
<1> DEFINE m == Len(s)
           n == Len(t)
           a == Numbers(s)
           b == Numbers(t)
           c == Numbers(s \o t)
<1>1. m \in Nat /\ n \in Nat /\ s \o t \in Seq(Pieces) /\ Len(s \o t) = m + n
  OBVIOUS
<1>2. a \in Seq(Nat) /\ Len(a) = m /\ \A i \in 1..m : a[i] = s[i][1]
  BY NumbersOfPieces
<1>3. b \in Seq(Nat) /\ Len(b) = n /\ \A i \in 1..n : b[i] = t[i][1]
  BY NumbersOfPieces
<1>4. c \in Seq(Nat) /\ Len(c) = m + n /\ \A i \in 1..(m + n) : c[i] = (s \o t)[i][1]
  BY <1>1, NumbersOfPieces
<1>5. \A i \in 1..(m + n) : (s \o t)[i] = IF i <= m THEN s[i] ELSE t[i - m]
  OBVIOUS
<1> HIDE DEF a, b, c
<1> HIDE DEF m, n
<1>6. /\ a \o b \in Seq(Nat) /\ Len(a \o b) = m + n
      /\ \A i \in 1..(m + n) : (a \o b)[i] = IF i <= m THEN a[i] ELSE b[i - m]
  <2>1. a \in Seq(Nat) /\ b \in Seq(Nat)
    BY <1>2, <1>3
  <2>2. /\ a \o b \in Seq(Nat)
        /\ Len(a \o b) = Len(a) + Len(b)
        /\ \A i \in 1..(Len(a) + Len(b)) : (a \o b)[i] = IF i <= Len(a) THEN a[i] ELSE b[i - Len(a)]
    BY <2>1, ConcatProperties
  <2> QED BY <1>2, <1>3, <2>2
<1>7. ASSUME NEW i \in 1..(m + n) PROVE c[i] = (a \o b)[i]
  <2>1. CASE i <= m
    <3>1. i \in 1..m
      BY <1>1, <2>1
    <3>2. c[i] = (s \o t)[i][1] /\ (s \o t)[i] = s[i]
      BY <1>4, <1>5, <2>1
    <3>3. (a \o b)[i] = a[i] /\ a[i] = s[i][1]
      BY <1>2, <1>6, <2>1, <3>1
    <3> QED BY <3>2, <3>3
  <2>2. CASE i > m
    <3>1. i - m \in 1..n /\ ~(i <= m)
      BY <1>1, <2>2
    <3>2. c[i] = (s \o t)[i][1] /\ (s \o t)[i] = t[i - m]
      BY <1>4, <1>5, <3>1
    <3>3. (a \o b)[i] = b[i - m] /\ b[i - m] = t[i - m][1]
      BY <1>3, <1>6, <3>1
    <3> QED BY <3>2, <3>3
  <2>3. i <= m \/ i > m
    BY <1>1
  <2> QED BY <2>1, <2>2, <2>3
<1>8. c = a \o b
  BY <1>4, <1>6, <1>7, SeqEqual
<1> QED BY <1>8 DEF a, b, c

\* The last place at which a chunk completes a frame
LEMMA LastPlace ==
  ASSUME NEW n \in Nat, NEW T, T \subseteq 1..n, T # {}
  PROVE  Max(T) \in T /\ \A i \in T : i <= Max(T)
<1> DEFINE U == {k \in Nat : \A i \in T : i <= k}
<1>1. n \in U /\ U \subseteq Nat
  OBVIOUS
<1>2. PICK m \in U : \A k \in U : m <= k
  <2> HIDE DEF U
  <2> QED BY <1>1, Least
<1>3. m \in Nat /\ \A i \in T : i <= m
  BY <1>2
<1>4. m \in T
  <2>1. SUFFICES ASSUME m \notin T PROVE FALSE
    OBVIOUS
  <2>2. \A i \in T : i <= m - 1
    BY <1>3, <2>1
  <2>3. m - 1 \in Nat
    <3>1. PICK i \in T : TRUE
      OBVIOUS
    <3> QED BY <1>3, <2>2, <3>1
  <2>4. m - 1 \in U
    BY <2>2, <2>3
  <2> QED BY <1>2, <1>3, <2>4
<1> QED BY <1>3, <1>4 DEF Max

\* What a chunk completes is received, and what is kept of it completes nothing.
LEMMA EmitIsComplete ==
  ASSUME NEW bytes \in Seq(Pieces)
  PROVE  /\ Emit(bytes).frames = Numbers(Filter(bytes, LastPieces))
         /\ Emit(bytes).rest \in Seq(Pieces)
         /\ Filter(Emit(bytes).rest, LastPieces) = <<>>
<1> DEFINE ends == {i \in DOMAIN bytes : bytes[i] \in LastPieces}
           consumed == IF ends = {} THEN 0 ELSE Max(ends)
           rest == SubSeq(bytes, consumed + 1, Len(bytes))
<1>1. Emit(bytes).frames = Numbers(Filter(bytes, LastPieces)) /\ Emit(bytes).rest = rest
  BY DEF Emit
<1>2. /\ consumed \in 0..Len(bytes)
      /\ \A i \in (consumed + 1)..Len(bytes) : bytes[i] \notin LastPieces
  <2>1. ends \subseteq 1..Len(bytes) /\ Len(bytes) \in Nat
    OBVIOUS
  <2>2. \A i \in 1..Len(bytes) : bytes[i] \in LastPieces => i \in ends
    OBVIOUS
  <2> HIDE DEF ends
  <2>3. CASE ends = {}
    BY <2>1, <2>2, <2>3
  <2>4. CASE ends # {}
    <3>1. Max(ends) \in ends /\ \A i \in ends : i <= Max(ends)
      BY <2>1, <2>4, LastPlace
    <3>2. consumed = Max(ends) /\ consumed \in 1..Len(bytes)
      BY <2>1, <2>4, <3>1
    <3> HIDE DEF consumed
    <3>3. ASSUME NEW i \in (consumed + 1)..Len(bytes) PROVE bytes[i] \notin LastPieces
      <4>1. i \in 1..Len(bytes) /\ ~(i <= consumed)
        BY <2>1, <3>2
      <4> QED BY <2>2, <3>1, <3>2, <4>1
    <3> QED BY <3>2, <3>3
  <2> QED BY <2>3, <2>4
<1> HIDE DEF consumed
<1>3. /\ rest \in Seq(Pieces) /\ Len(rest) = Len(bytes) - consumed
      /\ \A i \in 1..(Len(bytes) - consumed) : rest[i] = bytes[consumed + i]
  BY <1>2
<1> HIDE DEF rest
<1>4. Range(rest) \cap LastPieces = {}
  <2>1. ASSUME NEW x \in Range(rest) PROVE x \notin LastPieces
    <3>1. PICK i \in 1..(Len(bytes) - consumed) : x = bytes[consumed + i]
      BY <1>2, <1>3 DEF Range
    <3>2. consumed + i \in (consumed + 1)..Len(bytes)
      BY <1>2
    <3> QED BY <1>2, <3>1, <3>2
  <2> QED BY <2>1
<1>5. Filter(rest, LastPieces) = <<>>
  BY <1>3, <1>4, FilterNone
<1> QED BY <1>1, <1>3, <1>5

\* The frames that are complete among some pieces
Complete(pieces) == Numbers(Filter(pieces, LastPieces))

\* Those of two parts, one after the other
LEMMA CompleteConcat ==
  ASSUME NEW s \in Seq(Pieces), NEW t \in Seq(Pieces)
  PROVE  Complete(s \o t) = Complete(s) \o Complete(t)
<1>1. Filter(s, LastPieces) \in Seq(Pieces) /\ Filter(t, LastPieces) \in Seq(Pieces)
  BY FilterRange
<1>2. Filter(s \o t, LastPieces) = Filter(s, LastPieces) \o Filter(t, LastPieces)
  BY FilterConcat
<1> QED BY <1>1, <1>2, NumbersConcat DEF Complete

\* They are numbers, and each of them is the number of a piece.
LEMMA CompleteNumbers ==
  ASSUME NEW s \in Seq(Pieces)
  PROVE  Complete(s) \in Seq(Nat) /\ ToSet(Complete(s)) \subseteq Frames(s)
<1> DEFINE kept == Filter(s, LastPieces)
<1>1. kept \in Seq(Pieces) /\ Range(kept) \subseteq Range(s)
  BY FilterRange
<1> HIDE DEF kept
<1>2. /\ Numbers(kept) \in Seq(Nat) /\ Len(Numbers(kept)) = Len(kept)
      /\ \A i \in 1..Len(kept) : Numbers(kept)[i] = kept[i][1]
  BY <1>1, NumbersOfPieces
<1>3. /\ Numbers(s) \in Seq(Nat) /\ Len(Numbers(s)) = Len(s)
      /\ \A i \in 1..Len(s) : Numbers(s)[i] = s[i][1]
  BY NumbersOfPieces
<1>4. ASSUME NEW x \in ToSet(Numbers(kept)) PROVE x \in ToSet(Numbers(s))
  <2>1. PICK i \in 1..Len(kept) : x = Numbers(kept)[i]
    BY <1>2 DEF ToSet
  <2>2. kept[i] \in Range(s) /\ x = kept[i][1]
    <3>1. i \in DOMAIN kept
      BY <1>1
    <3>2. kept[i] \in Range(kept)
      BY <3>1 DEF Range
    <3> QED BY <1>1, <1>2, <2>1, <3>2
  <2>3. PICK j \in 1..Len(s) : kept[i] = s[j]
    BY <2>2 DEF Range
  <2>4. x = Numbers(s)[j]
    BY <1>3, <2>2, <2>3
  <2> QED BY <1>3, <2>4 DEF ToSet
<1> QED BY <1>2, <1>4 DEF Complete, Frames, kept

\* Members, by both names
LEMMA SetOfRange == ASSUME NEW s PROVE ToSet(s) = Range(s)
BY DEF ToSet, Range

StreamTyped ==
  /\ kind \in {"logs", "connections"} /\ written \in 0..MaxFrames
  /\ live \in BOOLEAN /\ generation \in Nat
  /\ wire \in Seq(Pieces) /\ buffer \in Seq(Pieces)
  /\ mailbox \in Seq(Nat) /\ page \in Seq(Nat)

\* Without a session nothing is on its way; a session has its timer.
SessionInv ==
  /\ ~live => wire = <<>> /\ buffer = <<>> /\ mailbox = <<>>
  /\ link \in {"connecting", "updating"} => ~live
  /\ live => generation \in timers

\* What is shown and on its way is in order and has been written, and the rest
\* of what has been written was lost where that may be.
FlowInv ==
  /\ Increasing(Flow)
  /\ Range(Flow) \subseteq 1..written
  /\ Accounted

StreamInv == StreamTyped /\ SessionInv /\ FlowInv /\ TroubleIsShown

\* Sequences, one after the other, by a name with which a step asks for them
Associates(A, s, t, u) == s \o t \in Seq(A) /\ (s \o t) \o u = s \o (t \o u)
LEMMA AllAssociate ==
  ASSUME NEW A, NEW s \in Seq(A), NEW t \in Seq(A), NEW u \in Seq(A)
  PROVE  Associates(A, s, t, u)
<1> DEFINE l == Len(s)
           m == Len(t)
           n == Len(u)
           st == s \o t
           tu == t \o u
           a == st \o u
           b == s \o tu
<1>1. l \in Nat /\ m \in Nat /\ n \in Nat
  OBVIOUS
<1>2. st \in Seq(A) /\ Len(st) = l + m /\ \A i \in 1..(l + m) : st[i] = IF i <= l THEN s[i] ELSE t[i - l]
  BY ConcatProperties
<1>3. tu \in Seq(A) /\ Len(tu) = m + n /\ \A i \in 1..(m + n) : tu[i] = IF i <= m THEN t[i] ELSE u[i - m]
  BY ConcatProperties
<1> HIDE DEF st, tu
<1>4. a \in Seq(A) /\ Len(a) = Len(st) + n /\ \A i \in 1..(Len(st) + n) : a[i] = IF i <= Len(st) THEN st[i] ELSE u[i - Len(st)]
  <2>1. st \in Seq(A)
    BY <1>2
  <2> QED BY <2>1, ConcatProperties
<1>5. b \in Seq(A) /\ Len(b) = l + Len(tu) /\ \A i \in 1..(l + Len(tu)) : b[i] = IF i <= l THEN s[i] ELSE tu[i - l]
  <2>1. tu \in Seq(A)
    BY <1>3
  <2> QED BY <2>1, ConcatProperties
<1> HIDE DEF a, b, l, m, n
<1>6. Len(a) = Len(b) /\ Len(a) = l + m + n
  BY <1>1, <1>2, <1>3, <1>4, <1>5
<1>7. ASSUME NEW i \in 1..Len(a) PROVE a[i] = b[i]
  <2>1. CASE i <= l
    <3>1. i \in 1..(l + m) /\ i \in 1..(l + m + n) /\ i <= l + m
      BY <1>1, <1>6, <2>1
    <3>2. a[i] = s[i]
      BY <1>1, <1>2, <1>4, <2>1, <3>1
    <3>3. b[i] = s[i]
      BY <1>1, <1>3, <1>5, <2>1, <3>1
    <3> QED BY <3>2, <3>3
  <2>2. CASE i > l /\ i <= l + m
    <3>1. i - l \in 1..m /\ ~(i <= l) /\ i \in 1..(l + m) /\ i - l \in 1..(m + n) /\ i \in 1..(l + m + n)
      BY <1>1, <1>6, <2>2
    <3>2. a[i] = t[i - l]
      BY <1>1, <1>2, <1>4, <2>2, <3>1
    <3>3. b[i] = t[i - l]
      BY <1>1, <1>3, <1>5, <2>2, <3>1
    <3> QED BY <3>2, <3>3
  <2>3. CASE i > l + m
    <3>1. /\ i - l \in 1..(m + n) /\ ~(i <= l) /\ ~(i <= l + m) /\ ~(i - l <= m)
          /\ i \in 1..(l + m + n) /\ i - (l + m) = (i - l) - m
      BY <1>1, <1>6, <2>3
    <3>2. a[i] = u[i - (l + m)]
      BY <1>1, <1>2, <1>4, <3>1
    <3>3. b[i] = u[(i - l) - m]
      BY <1>1, <1>3, <1>5, <3>1
    <3> QED BY <3>1, <3>2, <3>3
  <2>4. i <= l \/ (i > l /\ i <= l + m) \/ i > l + m
    BY <1>1, <1>6
  <2> QED BY <2>1, <2>2, <2>3, <2>4
<1>8. a = b
  BY <1>4, <1>5, <1>6, <1>7, SeqEqual
<1> QED BY <1>2, <1>8 DEF a, b, st, tu, Associates

\* and what they hold
LEMMA ConcatHolds ==
  ASSUME NEW s \in Seq(Nat), NEW t \in Seq(Nat)
  PROVE  Range(s \o t) = Range(s) \cup Range(t)
BY RangeConcat

\* The flow and its parts
LEMMA FlowShape ==
  ASSUME StreamTyped
  PROVE  /\ page \in Seq(Nat) /\ mailbox \in Seq(Nat)
         /\ buffer \in Seq(Pieces) /\ wire \in Seq(Pieces)
         /\ Complete(buffer \o wire) \in Seq(Nat)
         /\ Complete(buffer \o wire) = Complete(buffer) \o Complete(wire)
         /\ Flow = (page \o mailbox) \o Complete(buffer \o wire)
         /\ Flow = page \o (mailbox \o Complete(buffer \o wire))
<1> DEFINE c == Complete(buffer \o wire)
<1>1. page \in Seq(Nat) /\ mailbox \in Seq(Nat) /\ buffer \in Seq(Pieces) /\ wire \in Seq(Pieces)
  BY DEF StreamTyped
<1>2. buffer \o wire \in Seq(Pieces)
  BY <1>1
<1>3. c \in Seq(Nat)
  BY <1>2, CompleteNumbers
<1>4. c = Complete(buffer) \o Complete(wire)
  BY <1>1, CompleteConcat, Zenon
<1>5. Flow = (page \o mailbox) \o c
  BY DEF Flow, Complete
<1> HIDE DEF c
<1>6. Associates(Nat, page, mailbox, c)
  BY <1>1, <1>3, AllAssociate
<1> QED BY <1>1, <1>3, <1>4, <1>5, <1>6 DEF c, Associates

\* A part of the flow is lost, and it is noted.
LEMMA PartIsLost ==
  ASSUME FlowInv, written' = written, NEW a \in Seq(Nat), NEW b \in Seq(Nat), NEW c \in Seq(Nat),
         Flow = a \o (b \o c), Flow' = a \o c,
         NEW X, skipped' = skipped \cup X, Range(b) \subseteq X \cup Range(Flow')
  PROVE  FlowInv'
<1>1. Increasing(a \o (b \o c))
  BY DEF FlowInv
<1>2. /\ Increasing(a \o c) /\ Range(a \o c) \subseteq Range(a \o (b \o c))
      /\ Range(a \o (b \o c)) = Range(a \o c) \cup Range(b)
  BY <1>1, IncreasingWithout
<1>3. Increasing(Flow') /\ Range(Flow') \subseteq Range(Flow) /\ Range(Flow) = Range(Flow') \cup Range(b)
  BY <1>2
<1>4. 1..written \subseteq skipped \cup Range(Flow)
  BY SetOfRange DEF FlowInv, Accounted
<1>5. 1..written \subseteq skipped' \cup Range(Flow')
  BY <1>3, <1>4
<1>6. ToSet(Flow') = Range(Flow')
  BY SetOfRange
<1>7. Accounted'
  BY <1>5, <1>6 DEF Accounted
<1> QED BY <1>3, <1>7 DEF FlowInv

\* What has no pieces completes nothing.
LEMMA NothingIsComplete == Complete(<<>>) = <<>> /\ Complete(<<>> \o <<>>) = <<>>
<1>1. Complete(<<>>) = <<>>
  BY FilterEmpty DEF Complete, Numbers
<1> QED BY <1>1

\* Nothing is written, lost or moved.
LEMMA FlowStays ==
  ASSUME FlowInv, UNCHANGED <<written, page, mailbox, buffer, wire, skipped>>
  PROVE  FlowInv'
<1>1. Flow' = Flow
  BY DEF Flow
<1> QED BY <1>1 DEF FlowInv, Accounted

\* The session's thread gives up a round: what it has read of a frame and what
\* has not been read is lost.
LEMMA RoundIsLost ==
  ASSUME StreamTyped, FlowInv, UNCHANGED <<written, page, mailbox>>,
         wire' = <<>>, buffer' = <<>>, Skip(Frames(wire) \cup Frames(buffer))
  PROVE  FlowInv'
<1> DEFINE a == page \o mailbox
           b == Complete(buffer \o wire)
           c == <<>>
           X == Frames(wire) \cup Frames(buffer)
<1>1. /\ a \in Seq(Nat) /\ b \in Seq(Nat) /\ c \in Seq(Nat)
      /\ b = Complete(buffer) \o Complete(wire) /\ Flow = a \o b
  <2>1. /\ page \in Seq(Nat) /\ mailbox \in Seq(Nat) /\ b \in Seq(Nat)
        /\ b = Complete(buffer) \o Complete(wire) /\ Flow = a \o b
    BY FlowShape
  <2>2. Associates(Nat, page, mailbox, mailbox)
    BY <2>1, AllAssociate
  <2>3. a \in Seq(Nat) /\ c \in Seq(Nat)
    BY <2>2 DEF Associates
  <2> QED BY <2>1, <2>3
<1>2. Range(b) \subseteq X
  <2>1. /\ Complete(buffer) \in Seq(Nat) /\ ToSet(Complete(buffer)) \subseteq Frames(buffer)
        /\ Complete(wire) \in Seq(Nat) /\ ToSet(Complete(wire)) \subseteq Frames(wire)
    BY CompleteNumbers DEF StreamTyped
  <2>2. Range(b) = Range(Complete(buffer)) \cup Range(Complete(wire))
    BY <1>1, <2>1, ConcatHolds
  <2> QED BY <2>1, <2>2, SetOfRange
<1>3. Flow' = a \o c
  <2>1. Flow' = (page \o mailbox) \o Complete(<<>> \o <<>>)
    BY DEF Flow, Complete
  <2> QED BY <2>1, NothingIsComplete
<1> HIDE DEF a, b, X
<1>4. Flow = a \o (b \o c)
  BY <1>1
<1>5. skipped' = skipped \cup X
  BY DEF Skip, X
<1> HIDE DEF c
<1> QED BY <1>1, <1>2, <1>3, <1>4, <1>5, PartIsLost

\* The session is dropped, and the page keeps its first part.
LEMMA SessionIsLost ==
  ASSUME StreamTyped, FlowInv, written' = written, NEW cleared, NEW kept \in Seq(Nat), NEW gone \in Seq(Nat),
         page = kept \o gone, page' = kept, ToSet(gone) \subseteq cleared,
         mailbox' = <<>>, wire' = <<>>, buffer' = <<>>, Skip(OnTheWay \cup cleared)
  PROVE  FlowInv'
<1> DEFINE d == Complete(buffer \o wire)
           b == gone \o (mailbox \o d)
           c == <<>>
           X == OnTheWay \cup cleared
<1>1. /\ d \in Seq(Nat) /\ mailbox \in Seq(Nat) /\ page \in Seq(Nat)
      /\ d = Complete(buffer) \o Complete(wire) /\ Flow = page \o (mailbox \o d)
  BY FlowShape
<1>2. Range(d) \subseteq Frames(wire) \cup Frames(buffer)
  <2>1. /\ Complete(buffer) \in Seq(Nat) /\ ToSet(Complete(buffer)) \subseteq Frames(buffer)
        /\ Complete(wire) \in Seq(Nat) /\ ToSet(Complete(wire)) \subseteq Frames(wire)
    BY CompleteNumbers DEF StreamTyped
  <2>2. Range(d) = Range(Complete(buffer)) \cup Range(Complete(wire))
    BY <1>1, <2>1, ConcatHolds
  <2> QED BY <2>1, <2>2, SetOfRange
<1> HIDE DEF d
<1>3. b \in Seq(Nat) /\ Range(b) \subseteq X
  <2>1. mailbox \o d \in Seq(Nat) /\ b \in Seq(Nat)
    BY <1>1
  <2>2. Range(mailbox \o d) = Range(mailbox) \cup Range(d)
    BY <1>1, ConcatHolds
  <2>3. Range(b) = Range(gone) \cup Range(mailbox \o d)
    BY <2>1, ConcatHolds
  <2> QED BY <1>2, <2>1, <2>2, <2>3, SetOfRange DEF OnTheWay
<1>4. Flow' = kept \o c
  <2>1. Flow' = (kept \o <<>>) \o Complete(<<>> \o <<>>)
    BY DEF Flow, Complete
  <2> QED BY <2>1, NothingIsComplete
<1>5. Flow = kept \o (b \o c) /\ c \in Seq(Nat)
  <2>1. mailbox \o d \in Seq(Nat)
    BY <1>1
  <2>2. Associates(Nat, kept, gone, mailbox \o d)
    BY <2>1, AllAssociate
  <2>3. b \o c = b
    BY <1>3
  <2>4. (kept \o gone) \o (mailbox \o d) = kept \o b
    BY <2>2 DEF Associates
  <2> QED BY <1>1, <2>3, <2>4
<1>6. skipped' = skipped \cup X
  BY DEF Skip
<1> HIDE DEF b, c, X
<1> QED BY <1>3, <1>4, <1>5, <1>6, PartIsLost

\* A chunk is read.
LEMMA ChunkIsRead ==
  ASSUME StreamTyped, FlowInv, LiveStreamAssumption, Read
  PROVE  FlowInv' /\ StreamTyped'
<1>1. PICK n \in 1..Len(wire) :
        LET emitted == Emit(buffer \o SubSeq(wire, 1, n))
            all == mailbox \o emitted.frames
        IN /\ wire' = SubSeq(wire, n + 1, Len(wire)) /\ buffer' = emitted.rest
           /\ mailbox' = LastOf(all, MailboxHolds)
           /\ Skip(ToSet(all) \ ToSet(LastOf(all, MailboxHolds)))
           /\ UNCHANGED <<kind, written, live, generation, page>>
  BY DEF Read, pane, shown
<1> DEFINE low == SubSeq(wire, 1, n)
           high == SubSeq(wire, n + 1, Len(wire))
           bytes == buffer \o low
           frames == Complete(bytes)
           all == mailbox \o frames
           X == ToSet(all) \ ToSet(mailbox')
           more == Complete(high)
<1>2. wire \in Seq(Pieces) /\ buffer \in Seq(Pieces) /\ mailbox \in Seq(Nat) /\ page \in Seq(Nat)
  BY DEF StreamTyped
<1>3. low \in Seq(Pieces) /\ high \in Seq(Pieces) /\ wire = low \o high
  <2>1. low \in Seq(Pieces) /\ high \in Seq(Pieces)
    BY <1>2
  <2>2. low \o high = SubSeq(wire, 1, Len(wire))
    BY <1>2, ConcatAdjacentSubSeq
  <2>3. SubSeq(wire, 1, Len(wire)) = wire
    BY <1>2
  <2> QED BY <2>1, <2>2, <2>3
<1> HIDE DEF low, high
<1>4. bytes \in Seq(Pieces) /\ bytes \o high = buffer \o wire
  <2>1. Associates(Pieces, buffer, low, high)
    BY <1>2, <1>3, AllAssociate
  <2> QED BY <1>3, <2>1 DEF Associates
<1> HIDE DEF bytes
<1>5. /\ Emit(bytes).frames = frames /\ Emit(bytes).rest \in Seq(Pieces)
      /\ Complete(Emit(bytes).rest) = <<>>
  <2>1. /\ Emit(bytes).frames = frames /\ Emit(bytes).rest \in Seq(Pieces)
        /\ Filter(Emit(bytes).rest, LastPieces) = <<>>
    BY <1>4, EmitIsComplete DEF Complete
  <2>2. Numbers(<<>>) = <<>>
    BY DEF Numbers
  <2> QED BY <2>1, <2>2 DEF Complete
<1>6. /\ wire' = high /\ buffer' = Emit(bytes).rest /\ mailbox' = LastOf(all, MailboxHolds)
      /\ skipped' = skipped \cup X /\ page' = page
      /\ UNCHANGED <<kind, written, live, generation>>
  BY <1>1, <1>5 DEF Skip, low, high, bytes
<1>7. frames \in Seq(Nat) /\ more \in Seq(Nat) /\ Complete(bytes \o high) = frames \o more
  <2>1. frames \in Seq(Nat)
    BY <1>4, CompleteNumbers
  <2>2. more \in Seq(Nat)
    BY <1>3, CompleteNumbers
  <2>3. Complete(bytes \o high) = frames \o more
    BY <1>3, <1>4, CompleteConcat, Zenon
  <2> QED BY <2>1, <2>2, <2>3
<1> HIDE DEF frames, more
<1>8. all \in Seq(Nat)
  BY <1>2, <1>7
<1>9. Flow = page \o (all \o more)
  <2>1. Flow = page \o (mailbox \o Complete(buffer \o wire))
    BY FlowShape
  <2>2. mailbox \o (frames \o more) = all \o more
    <3>1. Associates(Nat, mailbox, frames, more)
      BY <1>2, <1>7, AllAssociate
    <3> QED BY <3>1 DEF Associates
  <2> QED BY <1>4, <1>7, <2>1, <2>2
<1> HIDE DEF all
<1>10. MailboxHolds \in Nat
  BY DEF MailboxHolds, LiveStreamAssumption
<1>11. PICK lost \in Seq(Nat) : mailbox' \in Seq(Nat) /\ all = lost \o mailbox'
  BY <1>6, <1>8, <1>10, CutDown
<1>12. Flow' = page \o (mailbox' \o more)
  <2>1. Complete(buffer' \o wire') = <<>> \o more
    BY <1>3, <1>5, <1>6, CompleteConcat DEF more
  <2>2. <<>> \o more = more
    BY <1>7
  <2>3. Flow' = page \o mailbox' \o Complete(buffer' \o wire')
    BY <1>6 DEF Flow, Complete
  <2>4. (page \o mailbox') \o more = page \o (mailbox' \o more)
    <3>1. page \in Seq(Nat) /\ mailbox' \in Seq(Nat) /\ more \in Seq(Nat)
      BY <1>2, <1>7, <1>11
    <3>2. Associates(Nat, page, mailbox', more)
      BY <3>1, AllAssociate
    <3> QED BY <3>2 DEF Associates
  <2> QED BY <2>1, <2>2, <2>3, <2>4
<1>13. StreamTyped'
  BY <1>3, <1>5, <1>6, <1>11 DEF StreamTyped
<1>14. FlowInv'
  <2> DEFINE c == mailbox' \o more
  <2>1. c \in Seq(Nat)
    <3>1. Associates(Nat, mailbox', more, more)
      BY <1>7, <1>11, AllAssociate
    <3> QED BY <3>1 DEF Associates
  <2>2. Flow = page \o (lost \o c)
    <3>1. Associates(Nat, lost, mailbox', more)
      BY <1>7, <1>11, AllAssociate
    <3> QED BY <1>9, <1>11, <3>1 DEF Associates
  <2>3. Flow' = page \o c
    BY <1>12
  <2>4. Range(lost) \subseteq X \cup Range(Flow')
    <3>1. Range(all) = Range(lost) \cup Range(mailbox')
      BY <1>11, ConcatHolds
    <3>2. Range(c) = Range(mailbox') \cup Range(more)
      BY <1>7, <1>11, ConcatHolds
    <3>3. Range(page \o c) = Range(page) \cup Range(c)
      BY <1>2, <2>1, ConcatHolds
    <3>4. ToSet(all) = Range(all) /\ ToSet(mailbox') = Range(mailbox')
      BY SetOfRange
    <3> QED BY <2>3, <3>1, <3>2, <3>3, <3>4
  <2> HIDE DEF c, X
  <2>5. written' = written /\ skipped' = skipped \cup X /\ page \in Seq(Nat)
    BY <1>2, <1>6
  <2> QED BY <1>11, <2>1, <2>2, <2>3, <2>4, <2>5, PartIsLost
<1> QED BY <1>13, <1>14

\* A frame that is written is the last of the flow.
LEMMA FrameIsWritten ==
  ASSUME StreamTyped, FlowInv, written' = written + 1, skipped' = skipped,
         Flow' = Flow \o <<written + 1>>, Flow \in Seq(Nat)
  PROVE  FlowInv'
<1> DEFINE last == <<written + 1>>
<1>1. written \in Nat /\ last \in Seq(Nat) /\ Range(last) = {written + 1}
  BY DEF StreamTyped, Range
<1>2. Increasing(last)
  BY DEF Increasing
<1> HIDE DEF last
<1>3. Increasing(Flow) /\ Range(Flow) \subseteq 1..written
  BY DEF FlowInv
<1>4. \A x \in Range(Flow), y \in Range(last) : x < y
  BY <1>1, <1>3
<1>5. Increasing(Flow \o last)
  BY <1>1, <1>2, <1>3, <1>4, IncreasingConcat
<1>6. Range(Flow \o last) = Range(Flow) \cup {written + 1}
  BY <1>1, ConcatHolds
<1>7. Flow' = Flow \o last
  BY DEF last
<1>8. Range(Flow') \subseteq 1..written' /\ Increasing(Flow')
  <2>1. Increasing(Flow')
    BY <1>5, <1>7
  <2>2. Range(Flow') = Range(Flow) \cup {written + 1}
    BY <1>6, <1>7
  <2>3. Range(Flow') \subseteq 1..written'
    BY <1>1, <1>3, <2>2
  <2> QED BY <2>1, <2>3
<1>9. Accounted'
  <2>1. 1..written \subseteq skipped \cup Range(Flow)
    BY SetOfRange DEF FlowInv, Accounted
  <2>2. 1..written' \subseteq skipped' \cup Range(Flow')
    BY <1>1, <1>6, <1>7, <2>1
  <2>3. ToSet(Flow') = Range(Flow')
    BY SetOfRange
  <2> QED BY <2>2, <2>3 DEF Accounted
<1> QED BY <1>8, <1>9 DEF FlowInv

\* A piece more
LEMMA PieceAppend ==
  ASSUME NEW s \in Seq(Pieces), NEW x \in Pieces
  PROVE  Filter(Append(s, x), LastPieces) =
           IF x \in LastPieces THEN Append(Filter(s, LastPieces), x) ELSE Filter(s, LastPieces)
BY FilterAppend

\* The two pieces of a frame complete it.
LEMMA TwoPieces ==
  ASSUME NEW f \in 1..MaxFrames, MaxFrames \in Nat
  PROVE  << <<f, 1>>, <<f, 2>> >> \in Seq(Pieces) /\ Complete(<< <<f, 1>>, <<f, 2>> >>) = <<f>>
<1> DEFINE a == << <<f, 1>> >>
           ab == << <<f, 1>>, <<f, 2>> >>
<1>1. ab \in Seq(Pieces) /\ a \in Seq(Pieces)
  BY DEF Pieces
<1>2. <<f, 1>> \notin LastPieces /\ <<f, 2>> \in LastPieces
  BY DEF LastPieces
<1>3. a = Append(<<>>, <<f, 1>>) /\ ab = Append(a, <<f, 2>>) /\ <<>> \in Seq(Pieces)
  BY DEF Pieces
<1>4. <<f, 1>> \in Pieces /\ <<f, 2>> \in Pieces
  BY DEF Pieces
<1> HIDE DEF a, ab
<1>5. Filter(a, LastPieces) = <<>>
  BY <1>2, <1>3, <1>4, FilterEmpty, PieceAppend
<1>6. Filter(ab, LastPieces) = Append(<<>>, <<f, 2>>)
  BY <1>1, <1>2, <1>3, <1>4, <1>5, PieceAppend
<1>7. Numbers(<< <<f, 2>> >>) = <<f>>
  BY DEF Numbers
<1>8. Complete(ab) = <<f>>
  BY <1>6, <1>7 DEF Complete
<1> QED BY <1>1, <1>8 DEF ab

\* The kernel writes a frame.
LEMMA WritesKeepFlow ==
  ASSUME StreamTyped, FlowInv, LiveStreamAssumption, KernelWrites
  PROVE  FlowInv' /\ wire' \in Seq(Pieces)
<1> DEFINE f == written + 1
           w == << <<f, 1>>, <<f, 2>> >>
           d == Complete(buffer \o wire)
           a == page \o mailbox
<1>1. f \in 1..MaxFrames /\ MaxFrames \in Nat /\ written' = f /\ written \in Nat
  BY DEF StreamTyped, KernelWrites, LiveStreamAssumption
<1>2. UNCHANGED <<page, mailbox, buffer>>
  BY DEF KernelWrites, shown
<1>3. w \in Seq(Pieces) /\ Complete(w) = <<f>>
  BY <1>1, TwoPieces
<1>4. /\ page \in Seq(Nat) /\ mailbox \in Seq(Nat) /\ d \in Seq(Nat) /\ Flow = a \o d
      /\ buffer \in Seq(Pieces) /\ wire \in Seq(Pieces)
  BY FlowShape
<1>5. CASE live /\ thread = "reading" /\ ~closed
  <2>1. wire' = wire \o w /\ skipped' = skipped
    BY <1>1, <1>5 DEF KernelWrites
  <2> HIDE DEF w, f
  <2>2. wire' \in Seq(Pieces) /\ buffer' \o wire' = (buffer \o wire) \o w /\ buffer \o wire \in Seq(Pieces)
    <3>1. wire' \in Seq(Pieces) /\ buffer \o wire \in Seq(Pieces)
      BY <1>3, <1>4, <2>1
    <3>2. buffer \o (wire \o w) = (buffer \o wire) \o w
      <4>1. Associates(Pieces, buffer, wire, w)
        BY <1>3, <1>4, AllAssociate
      <4> QED BY <4>1 DEF Associates
    <3> QED BY <1>2, <2>1, <3>1, <3>2
  <2>3. Complete(buffer' \o wire') = d \o <<f>>
    BY <1>3, <2>2, CompleteConcat
  <2>4. Flow' = a \o (d \o <<f>>)
    BY <1>2, <2>3 DEF Flow, Complete
  <2>5. a \in Seq(Nat) /\ <<f>> \in Seq(Nat)
    <3>1. Associates(Nat, page, mailbox, d)
      BY <1>4, AllAssociate
    <3> QED BY <1>1, <3>1 DEF Associates
  <2> HIDE DEF a, d
  <2>6. Associates(Nat, a, d, <<f>>)
    BY <1>4, <2>5, AllAssociate
  <2>7. Flow' = Flow \o <<f>> /\ Flow \in Seq(Nat)
    BY <1>4, <2>4, <2>6 DEF Associates
  <2>8. FlowInv'
    BY <1>1, <2>1, <2>7, FrameIsWritten DEF f
  <2> QED BY <2>2, <2>8
<1>6. CASE ~(live /\ thread = "reading" /\ ~closed)
  <2>1. wire' = wire /\ skipped' = skipped \cup {f}
    BY <1>1, <1>6 DEF KernelWrites, Skip
  <2>2. Flow' = Flow
    BY <1>2, <2>1 DEF Flow
  <2>3. FlowInv'
    BY <1>1, <2>1, <2>2 DEF FlowInv, Accounted
  <2> QED BY <1>4, <2>1, <2>3
<1> QED BY <1>5, <1>6, Zenon

\* The kernel stops, perhaps in the middle of a frame: its last piece is cut off.
LEMMA StopKeepsFlow ==
  ASSUME StreamTyped, FlowInv, KernelStops
  PROVE  FlowInv' /\ wire' \in Seq(Pieces)
<1>1. UNCHANGED <<written, page, mailbox, buffer>>
  BY DEF KernelStops, shown
<1>2. page \in Seq(Nat) /\ mailbox \in Seq(Nat) /\ buffer \in Seq(Pieces) /\ wire \in Seq(Pieces)
  BY FlowShape
<1>3. CASE UNCHANGED <<wire, skipped>>
  BY <1>1, <1>2, <1>3, FlowStays
<1>4. CASE wire # <<>> /\ wire' = Front(wire) /\ Skip({Last(wire)[1]})
  <2> DEFINE last == << Last(wire) >>
             cut == Complete(last)
             kept == Complete(buffer \o wire')
             a == page \o mailbox
  <2>1. wire' \in Seq(Pieces) /\ last \in Seq(Pieces) /\ wire = wire' \o last
    <3>1. wire' = SubSeq(wire, 1, Len(wire) - 1) /\ Last(wire) = wire[Len(wire)]
      BY <1>4 DEF Front, Last
    <3>2. Len(wire) \in Nat \ {0}
      BY <1>2, <1>4
    <3> QED BY <1>2, <3>1, <3>2
  <2>2. Range(cut) \subseteq {Last(wire)[1]}
    <3>1. ToSet(cut) \subseteq Frames(last)
      BY <2>1, CompleteNumbers
    <3>2. Frames(last) = {Last(wire)[1]}
      BY DEF Frames, Numbers, ToSet
    <3> QED BY <3>1, <3>2, SetOfRange
  <2> HIDE DEF last
  <2>3. buffer \o wire' \in Seq(Pieces) /\ buffer \o wire = (buffer \o wire') \o last
    <3>1. Associates(Pieces, buffer, wire', last)
      BY <1>2, <2>1, AllAssociate
    <3> QED BY <2>1, <3>1 DEF Associates
  <2>4. Complete(buffer \o wire) = kept \o cut
    BY <2>1, <2>3, CompleteConcat
  <2>5. kept \in Seq(Nat) /\ cut \in Seq(Nat)
    BY <2>1, <2>3, CompleteNumbers
  <2>6. Flow = a \o (kept \o cut) /\ Flow' = a \o kept
    <3>1. Flow = a \o Complete(buffer \o wire)
      BY FlowShape
    <3>2. Flow' = a \o kept
      BY <1>1 DEF Flow, Complete
    <3> QED BY <2>4, <3>1, <3>2
  <2> HIDE DEF kept, cut
  <2>7. a \in Seq(Nat)
    <3>1. Associates(Nat, page, mailbox, mailbox)
      BY <1>2, AllAssociate
    <3> QED BY <3>1 DEF Associates
  <2> HIDE DEF a
  <2> DEFINE b == a \o kept
  <2>8. b \in Seq(Nat) /\ Flow = b \o cut /\ Flow' = b
    <3>1. Associates(Nat, a, kept, cut)
      BY <2>5, <2>7, AllAssociate
    <3> QED BY <2>5, <2>6, <2>7, <3>1 DEF Associates
  <2> HIDE DEF b
  <2>9. cut \o <<>> = cut /\ b \o <<>> = b /\ <<>> \in Seq(Nat)
    BY <2>5, <2>8
  <2>10. Flow = b \o (cut \o <<>>) /\ Flow' = b \o <<>>
    BY <2>8, <2>9
  <2> DEFINE X == {Last(wire)[1]}
  <2>11. skipped' = skipped \cup X /\ Range(cut) \subseteq X \cup Range(Flow')
    BY <1>4, <2>2 DEF Skip
  <2> HIDE DEF X
  <2>12. FlowInv'
    BY <1>1, <2>5, <2>8, <2>9, <2>10, <2>11, PartIsLost
  <2> QED BY <2>1, <2>12
<1> QED BY <1>3, <1>4 DEF KernelStops

\* The window drains the mailbox: what its page cannot hold is lost.
LEMMA DrainKeepsFlow ==
  ASSUME StreamTyped, FlowInv, LiveStreamAssumption, Drain, written' = written, kind' = kind
  PROVE  FlowInv' /\ page' \in Seq(Nat) /\ mailbox' \in Seq(Nat)
<1> DEFINE all == page \o mailbox
           X == ToSet(all) \ ToSet(page')
           d == Complete(buffer \o wire)
           c == page' \o d
<1>1. page' = LastOf(all, Shows) /\ mailbox' = <<>> /\ UNCHANGED <<wire, buffer>> /\ skipped' = skipped \cup X
  BY DEF Drain, Skip
<1>2. page \in Seq(Nat) /\ mailbox \in Seq(Nat) /\ d \in Seq(Nat) /\ Flow = all \o d
  BY FlowShape
<1>3. all \in Seq(Nat)
  <2>1. Associates(Nat, page, mailbox, mailbox)
    BY <1>2, AllAssociate
  <2> QED BY <2>1 DEF Associates
<1>4. Shows \in Nat
  BY DEF Shows, LiveStreamAssumption
<1> HIDE DEF all, d
<1>5. PICK lost \in Seq(Nat) : page' \in Seq(Nat) /\ all = lost \o page'
  BY <1>1, <1>3, <1>4, CutDown
<1>6. c \in Seq(Nat) /\ Flow = lost \o c
  <2>1. Associates(Nat, lost, page', d)
    BY <1>2, <1>5, AllAssociate
  <2>2. Associates(Nat, page', d, d)
    BY <1>2, <1>5, AllAssociate
  <2> QED BY <1>2, <1>5, <2>1, <2>2 DEF Associates
<1>7. Flow' = c
  <2>1. Flow' = (page' \o <<>>) \o Complete(buffer \o wire)
    BY <1>1 DEF Flow, Complete
  <2>2. page' \o <<>> = page'
    BY <1>5
  <2> QED BY <2>1, <2>2 DEF d
<1>8. Range(lost) \subseteq X \cup Range(Flow')
  <2>1. Range(all) = Range(lost) \cup Range(page')
    BY <1>5, ConcatHolds
  <2>2. Range(c) = Range(page') \cup Range(d)
    BY <1>2, <1>5, ConcatHolds
  <2>3. ToSet(all) = Range(all) /\ ToSet(page') = Range(page')
    BY SetOfRange
  <2> QED BY <1>7, <2>1, <2>2, <2>3
<1> HIDE DEF X, c
<1>9. <<>> \o (lost \o c) = lost \o c /\ <<>> \o c = c /\ <<>> \in Seq(Nat)
  BY <1>5, <1>6
<1>10. Flow = <<>> \o (lost \o c) /\ Flow' = <<>> \o c
  BY <1>6, <1>7, <1>9
<1>11. FlowInv'
  BY <1>1, <1>5, <1>6, <1>8, <1>9, <1>10, PartIsLost
<1> QED BY <1>1, <1>5, <1>9, <1>11

\* A new session: without one nothing is on its way, and the page is all there is.
LEMMA ConnectedKeepsFlow ==
  ASSUME StreamTyped, FlowInv, SessionInv, LiveStreamAssumption, Connected
  PROVE  FlowInv' /\ page' \in Seq(Nat) /\ written' \in 0..MaxFrames
<1>1. wire = <<>> /\ buffer = <<>> /\ mailbox = <<>> /\ page \in Seq(Nat) /\ written \in 0..MaxFrames
  BY DEF Connected, SessionInv, StreamTyped
<1>2. wire' = <<>> /\ buffer' = <<>> /\ mailbox' = <<>>
  BY DEF Connected, FreshSession
<1>3. Flow = page
  <2>1. Flow = (page \o <<>>) \o Complete(<<>> \o <<>>)
    BY <1>1 DEF Flow, Complete
  <2> QED BY <1>1, <2>1, NothingIsComplete
<1>4. CASE kind = "logs"
  <2>1. UNCHANGED <<written, page>> /\ skipped' = skipped
    BY <1>4 DEF Connected, Skip
  <2> QED BY <1>1, <1>2, <2>1, FlowStays
<1>5. CASE kind # "logs"
  <2>1. /\ written < MaxFrames /\ written' = written + 1 /\ page' = <<written'>>
        /\ skipped' = skipped \cup ToSet(page)
    BY <1>5 DEF Connected, Skip
  <2>2. page' \in Seq(Nat) /\ written \in Nat /\ written' \in 0..MaxFrames
    BY <1>1, <2>1 DEF LiveStreamAssumption
  <2>3. Flow' = <<written + 1>>
    <3>1. Flow' = (page' \o <<>>) \o Complete(<<>> \o <<>>)
      BY <1>2 DEF Flow, Complete
    <3>2. page' \o <<>> = page' /\ (page' \o <<>>) \o <<>> = page'
      BY <2>2
    <3> QED BY <2>1, <3>1, <3>2, NothingIsComplete
  <2>4. Increasing(<<written + 1>>)
    BY <2>2 DEF Increasing
  <2>5. Range(<<written + 1>>) = {written + 1}
    BY DEF Range
  <2>6. 1..written \subseteq skipped \cup Range(page)
    BY <1>3, SetOfRange DEF FlowInv, Accounted
  <2>7. ToSet(page) = Range(page) /\ ToSet(Flow') = Range(Flow')
    BY SetOfRange
  <2>8. Range(Flow') = {written + 1} /\ Increasing(Flow')
    BY <2>3, <2>4, <2>5
  <2>9. 1..written' \subseteq skipped' \cup Range(Flow')
    BY <2>1, <2>2, <2>6, <2>7, <2>8
  <2>10. Accounted'
    BY <2>7, <2>9 DEF Accounted
  <2>11. Range(Flow') \subseteq 1..written'
    BY <2>1, <2>2, <2>8
  <2> QED BY <2>2, <2>8, <2>10, <2>11 DEF FlowInv
<1> QED BY <1>4, <1>5, Zenon

\* The session is dropped with what it holds, and with the page where that is cleared.
LEMMA DropKeepsFlow ==
  ASSUME StreamTyped, FlowInv, written' = written, NEW next, NEW cleared, Drop(next, cleared),
         \/ page' = page
         \/ page' = <<>> /\ cleared = ToSet(page)
  PROVE  FlowInv'
<1>1. mailbox' = <<>> /\ wire' = <<>> /\ buffer' = <<>> /\ Skip(OnTheWay \cup cleared)
  BY DEF Drop, FreshSession
<1>2. page \in Seq(Nat) /\ <<>> \in Seq(Nat) /\ page = page \o <<>> /\ page = <<>> \o page
  BY DEF StreamTyped
<1>3. ToSet(<<>>) = {}
  BY SetOfRange, RangeEmpty
<1>4. CASE page' = page
  <2>1. ToSet(<<>>) \subseteq cleared
    BY <1>3
  <2> QED BY <1>1, <1>2, <1>4, <2>1, SessionIsLost
<1>5. CASE page' = <<>> /\ cleared = ToSet(page)
  BY <1>1, <1>2, <1>5, SessionIsLost
<1> QED BY <1>4, <1>5

\* A step keeps what is true of sessions: a session has its timer, and without one
\* nothing is on its way.
LEMMA SessionStep ==
  ASSUME SessionInv, [StreamNext]_streamVars
  PROVE  SessionInv'
<1>1. CASE KernelWrites
  BY <1>1 DEF SessionInv, KernelWrites, pane
<1>2. CASE KernelStops
  BY <1>2 DEF SessionInv, KernelStops, pane
<1>3. CASE KernelStarts
  BY <1>3 DEF SessionInv, KernelStarts, pane, reader
<1>4. CASE ResponseEnds
  BY <1>4 DEF SessionInv, ResponseEnds, pane
<1>5. CASE Ask
  BY <1>5 DEF SessionInv, Ask, pane
<1>6. CASE Read
  BY <1>6 DEF SessionInv, Read, pane
<1>7. CASE ReadFails
  BY <1>7 DEF SessionInv, ReadFails, pane
<1>8. CASE ReadEnd
  BY <1>8 DEF SessionInv, ReadEnd, pane
<1>9. CASE Wake
  BY <1>9 DEF SessionInv, Wake, pane
<1>10. CASE BeginConnect
  BY <1>10 DEF SessionInv, BeginConnect, Drop, FreshSession
<1>11. CASE ConnectRefused
  BY <1>11 DEF SessionInv, ConnectRefused, reader
<1>12. CASE Connected
  BY <1>12 DEF SessionInv, Connected, FreshSession
<1>13. CASE PollLive
  BY <1>13 DEF SessionInv, PollLive, Drain, FailSafe, Drop, FreshSession, reader
<1>14. CASE Replaced
  BY <1>14 DEF SessionInv, Replaced, Drop, FreshSession
<1>15. CASE UNCHANGED streamVars
  BY <1>15 DEF SessionInv, streamVars
<1> QED BY <1>1, <1>2, <1>3, <1>4, <1>5, <1>6, <1>7, <1>8, <1>9, <1>10, <1>11, <1>12, <1>13,
           <1>14, <1>15 DEF StreamNext

\* A step keeps what a lost stream announces.
LEMMA TroubleStep ==
  ASSUME TroubleIsShown, [StreamNext]_streamVars
  PROVE  TroubleIsShown'
<1>1. CASE KernelWrites
  BY <1>1 DEF TroubleIsShown, KernelWrites, pane
<1>2. CASE KernelStops
  BY <1>2 DEF TroubleIsShown, KernelStops, pane
<1>3. CASE KernelStarts
  BY <1>3 DEF TroubleIsShown, KernelStarts, pane, reader
<1>4. CASE ResponseEnds
  BY <1>4 DEF TroubleIsShown, ResponseEnds, pane
<1>5. CASE Ask
  BY <1>5 DEF TroubleIsShown, Ask, Fails, pane
<1>6. CASE Read
  BY <1>6 DEF TroubleIsShown, Read, pane
<1>7. CASE ReadFails
  BY <1>7 DEF TroubleIsShown, ReadFails, Fails, pane
<1>8. CASE ReadEnd
  BY <1>8 DEF TroubleIsShown, ReadEnd, Fails, pane
<1>9. CASE Wake
  BY <1>9 DEF TroubleIsShown, Wake, pane
<1>10. CASE BeginConnect
  BY <1>10 DEF TroubleIsShown, BeginConnect, Drop, FreshSession
<1>11. CASE ConnectRefused
  BY <1>11 DEF TroubleIsShown, ConnectRefused, reader
<1>12. CASE Connected
  BY <1>12 DEF TroubleIsShown, Connected, FreshSession
<1>13. CASE PollLive
  BY <1>13 DEF TroubleIsShown, PollLive, Drain, FailSafe, Drop, FreshSession, reader
<1>14. CASE Replaced
  BY <1>14 DEF TroubleIsShown, Replaced, Drop, FreshSession
<1>15. CASE UNCHANGED streamVars
  BY <1>15 DEF TroubleIsShown, streamVars
<1> QED BY <1>1, <1>2, <1>3, <1>4, <1>5, <1>6, <1>7, <1>8, <1>9, <1>10, <1>11, <1>12, <1>13,
           <1>14, <1>15 DEF StreamNext

\* The end of a round keeps the types.
LEMMA RoundTyped ==
  ASSUME StreamTyped, UNCHANGED <<kind, written, live, generation, page, mailbox>>,
         wire' = <<>>, buffer' = <<>>
  PROVE  StreamTyped'
BY DEF StreamTyped

\* So does a session that is dropped.
LEMMA DropTyped ==
  ASSUME StreamTyped, UNCHANGED <<kind, written>>, NEW next, NEW cleared, Drop(next, cleared),
         page' \in {page, <<>>}
  PROVE  StreamTyped'
<1>1. live' = FALSE /\ generation' = generation + 1 /\ wire' = <<>> /\ buffer' = <<>> /\ mailbox' = <<>>
  BY DEF Drop, FreshSession
<1>2. <<>> \in Seq(Pieces) /\ <<>> \in Seq(Nat)
  OBVIOUS
<1>3. page \in Seq(Nat) /\ generation \in Nat
  BY DEF StreamTyped
<1>4. page' \in Seq(Nat)
  BY <1>2, <1>3
<1>5. generation' \in Nat
  BY <1>1, <1>3
<1> QED BY <1>1, <1>2, <1>4, <1>5 DEF StreamTyped

\* A step keeps the types, and the order and the account of the flow.
LEMMA FlowStep ==
  ASSUME LiveStreamAssumption, StreamTyped, SessionInv, FlowInv, [StreamNext]_streamVars
  PROVE  StreamTyped' /\ FlowInv'
<1>1. CASE KernelWrites
  <2>1. FlowInv' /\ wire' \in Seq(Pieces)
    BY <1>1, WritesKeepFlow
  <2>2. written' \in 0..MaxFrames
    BY <1>1 DEF KernelWrites, StreamTyped, LiveStreamAssumption
  <2>3. StreamTyped'
    BY <1>1, <2>1, <2>2 DEF KernelWrites, StreamTyped, pane, shown
  <2> QED BY <2>1, <2>3
<1>2. CASE KernelStops
  <2>1. FlowInv' /\ wire' \in Seq(Pieces)
    BY <1>2, StopKeepsFlow
  <2>2. StreamTyped'
    BY <1>2, <2>1 DEF KernelStops, StreamTyped, pane, shown
  <2> QED BY <2>1, <2>2
<1>3. CASE UNCHANGED <<kind, written, live, generation, wire, buffer, mailbox, page, skipped>>
  <2>1. StreamTyped'
    BY <1>3 DEF StreamTyped
  <2> QED BY <1>3, <2>1, FlowStays
<1>4. CASE Ask
  <2>1. CASE Fails(mailbox)
    <3>1. /\ UNCHANGED <<kind, written, live, generation, page, mailbox>>
          /\ wire' = <<>> /\ buffer' = <<>> /\ Skip(Frames(wire) \cup Frames(buffer))
      BY <1>4, <2>1 DEF Ask, Fails, pane, shown
    <3> QED BY <3>1, RoundIsLost, RoundTyped
  <2>2. CASE ~Fails(mailbox)
    BY <1>3, <1>4, <2>2 DEF Ask, pane, shown
  <2> QED BY <2>1, <2>2
<1>5. CASE Read
  BY <1>5, ChunkIsRead
<1>6. CASE ReadFails
  <2>1. /\ UNCHANGED <<kind, written, live, generation, page, mailbox>>
        /\ wire' = <<>> /\ buffer' = <<>> /\ Skip(Frames(wire) \cup Frames(buffer))
    BY <1>6 DEF ReadFails, Fails, pane, shown
  <2> QED BY <2>1, RoundIsLost, RoundTyped
<1>7. CASE ReadEnd
  <2>1. CASE buffer = <<>>
    BY <1>3, <1>7, <2>1 DEF ReadEnd, pane, shown
  <2>2. CASE buffer # <<>>
    <3>1. /\ UNCHANGED <<kind, written, live, generation, page, mailbox>>
          /\ wire' = <<>> /\ buffer' = <<>> /\ Skip(Frames(wire) \cup Frames(buffer))
      BY <1>7, <2>2 DEF ReadEnd, Fails, pane, shown
    <3> QED BY <3>1, RoundIsLost, RoundTyped
  <2> QED BY <2>1, <2>2
<1>8. CASE BeginConnect
  <2>1. PICK next \in {"connecting", "updating"} : Drop(next, {})
    BY <1>8 DEF BeginConnect
  <2>2. UNCHANGED <<kind, written, page>>
    BY <1>8 DEF BeginConnect
  <2> QED BY <2>1, <2>2, DropKeepsFlow, DropTyped
<1>9. CASE Connected
  <2>1. FlowInv' /\ page' \in Seq(Nat) /\ written' \in 0..MaxFrames
    BY <1>9, ConnectedKeepsFlow
  <2>2. StreamTyped'
    BY <1>9, <2>1 DEF Connected, FreshSession, StreamTyped
  <2> QED BY <2>1, <2>2
<1>10. CASE PollLive
  <2>1. PICK g \in timers :
          /\ UNCHANGED <<kind, up, written>>
          /\ \/ Drain
             \/ FailSafe
             \/ UNCHANGED <<link, live, generation, reader, shown, skipped>>
    BY <1>10 DEF PollLive
  <2>2. CASE Drain
    <3>1. FlowInv' /\ page' \in Seq(Nat) /\ mailbox' \in Seq(Nat)
      BY <2>1, <2>2, DrainKeepsFlow
    <3>2. StreamTyped'
      BY <2>1, <2>2, <3>1 DEF Drain, StreamTyped
    <3> QED BY <3>1, <3>2
  <2>3. CASE FailSafe
    <3>1. Drop("failed", {}) /\ UNCHANGED <<kind, written, page>>
      BY <2>1, <2>3 DEF FailSafe, shown
    <3> QED BY <3>1, DropKeepsFlow, DropTyped
  <2>4. CASE UNCHANGED <<link, live, generation, reader, shown, skipped>>
    BY <1>3, <2>1, <2>4 DEF reader, shown
  <2> QED BY <2>1, <2>2, <2>3, <2>4
<1>11. CASE Replaced
  <2>1. UNCHANGED <<kind, written>>
    BY <1>11 DEF Replaced
  <2>2. CASE kind = "logs"
    <3>1. Drop("disconnected", {}) /\ page' = page
      BY <1>11, <2>2 DEF Replaced
    <3> QED BY <2>1, <3>1, DropKeepsFlow, DropTyped
  <2>3. CASE kind # "logs"
    <3>1. Drop("disconnected", ToSet(page)) /\ page' = <<>>
      BY <1>11, <2>3 DEF Replaced
    <3> QED BY <2>1, <3>1, DropKeepsFlow, DropTyped
  <2> QED BY <2>2, <2>3
<1>12. CASE KernelStarts \/ ResponseEnds \/ Wake \/ ConnectRefused \/ UNCHANGED streamVars
  BY <1>3, <1>12 DEF KernelStarts, ResponseEnds, Wake, ConnectRefused, streamVars, pane, reader, shown
<1> QED BY <1>1, <1>2, <1>4, <1>5, <1>6, <1>7, <1>8, <1>9, <1>10, <1>11, <1>12 DEF StreamNext

\* The stream begins with nothing written and nothing on its way.
LEMMA StreamStarts ==
  ASSUME LiveStreamAssumption, StreamInit
  PROVE  StreamInv
<1>1. StreamTyped /\ SessionInv /\ TroubleIsShown
  <2>1. <<>> \in Seq(Pieces) /\ <<>> \in Seq(Nat) /\ 0 \in 0..MaxFrames
    BY DEF LiveStreamAssumption
  <2>2. StreamTyped
    BY <2>1 DEF StreamInit, StreamTyped
  <2>3. SessionInv
    BY DEF StreamInit, SessionInv
  <2>4. TroubleIsShown
    BY DEF StreamInit, TroubleIsShown
  <2> QED BY <2>2, <2>3, <2>4
<1>2. Flow = <<>>
  <2>1. Flow = (<<>> \o <<>>) \o Complete(<<>> \o <<>>)
    BY DEF StreamInit, Flow, Complete
  <2> QED BY <2>1, NothingIsComplete
<1>3. FlowInv
  <2>1. Increasing(<<>>) /\ written = 0
    BY DEF Increasing, StreamInit
  <2> QED BY <1>2, <2>1, RangeEmpty DEF FlowInv, Accounted
<1> QED BY <1>1, <1>3 DEF StreamInv

\* The invariant of the live streams
THEOREM StreamInvariant == StreamSpec => []StreamInv
<1>1. ASSUME StreamInit PROVE StreamInv
  BY <1>1, StreamStarts, LiveStreamAssumption
<1>2. ASSUME StreamInv, [StreamNext]_streamVars PROVE StreamInv'
  BY <1>2, FlowStep, SessionStep, TroubleStep, LiveStreamAssumption DEF StreamInv
<1> QED BY <1>1, <1>2, PTL DEF StreamSpec

\* What the kernel writes is shown once and in its order, and what is not was lost
\* where that may be.
THEOREM StreamsAreFaithful == StreamSpec => []StreamIsFaithful
<1>1. StreamInv => StreamIsFaithful
  BY DEF StreamInv, FlowInv, Increasing, SessionInv, StreamIsFaithful, InOrder
<1> QED BY <1>1, StreamInvariant, PTL

-----------------------------------------------------------------------------
(* The workspace of the phone (PhoneProfile)                               *)

\* A sequence without one of its elements
LEMMA RemoveAtIs ==
  ASSUME NEW A, NEW s \in Seq(A), NEW i \in 1..Len(s)
  PROVE  /\ RemoveAt(s, i) \in Seq(A) /\ Len(RemoveAt(s, i)) = Len(s) - 1
         /\ \A k \in 1..(Len(s) - 1) : RemoveAt(s, i)[k] = IF k < i THEN s[k] ELSE s[k + 1]
<1> DEFINE low == SubSeq(s, 1, i - 1)
           high == SubSeq(s, i + 1, Len(s))
           n == Len(s)
<1>1. n \in Nat /\ i \in 1..n
  OBVIOUS
<1>2. low \in Seq(A) /\ Len(low) = i - 1 /\ \A k \in 1..(i - 1) : low[k] = s[k]
  OBVIOUS
<1>3. high \in Seq(A) /\ Len(high) = n - i /\ \A k \in 1..(n - i) : high[k] = s[i + k]
  OBVIOUS
<1>4. RemoveAt(s, i) = low \o high
  BY DEF RemoveAt
<1> HIDE DEF low, high, n
<1>5. low \in Seq(A) /\ high \in Seq(A)
  BY <1>2, <1>3
<1>6. /\ low \o high \in Seq(A) /\ Len(low \o high) = Len(low) + Len(high)
      /\ \A k \in 1..(Len(low) + Len(high)) :
           (low \o high)[k] = IF k <= Len(low) THEN low[k] ELSE high[k - Len(low)]
  BY <1>5, ConcatProperties
<1>7. ASSUME NEW k \in 1..(n - 1) PROVE RemoveAt(s, i)[k] = IF k < i THEN s[k] ELSE s[k + 1]
  <2>1. RemoveAt(s, i)[k] = IF k <= i - 1 THEN low[k] ELSE high[k - (i - 1)]
    BY <1>1, <1>2, <1>3, <1>4, <1>6, SMTT(30)
  <2>2. CASE k < i
    <3>1. k \in 1..(i - 1) /\ k <= i - 1
      BY <1>1, <2>2
    <3> QED BY <1>2, <2>1, <2>2, <3>1
  <2>3. CASE ~(k < i)
    <3>1. k - (i - 1) \in 1..(n - i) /\ ~(k <= i - 1) /\ i + (k - (i - 1)) = k + 1
      BY <1>1, <2>3
    <3> QED BY <1>3, <2>1, <2>3, <3>1
  <2> QED BY <2>2, <2>3
<1>8. Len(low \o high) = n - 1
  BY <1>1, <1>2, <1>3, <1>6
<1> QED BY <1>4, <1>6, <1>7, <1>8 DEF n

\* The positions of a list, in their order
Places(list) == [i \in DOMAIN list |-> i]
LEMMA PlacesAre ==
  ASSUME NEW A, NEW list \in Seq(A)
  PROVE  Places(list) \in Seq(DOMAIN list) /\ Range(Places(list)) = DOMAIN list
<1>1. DOMAIN list = 1..Len(list) /\ Len(list) \in Nat
  OBVIOUS
<1>2. Places(list) \in [1..Len(list) -> DOMAIN list]
  BY <1>1 DEF Places
<1>3. Places(list) \in Seq(DOMAIN list)
  BY <1>1, <1>2
<1>4. Range(Places(list)) = DOMAIN list
  BY DEF Range, Places
<1> QED BY <1>3, <1>4

\* The positions of the enabled sources
LEMMA EnabledIs ==
  ASSUME NEW list \in Seq(PhoneSource)
  PROVE  /\ EnabledAt(list) \in Seq(DOMAIN list)
         /\ Range(EnabledAt(list)) = {i \in DOMAIN list : list[i].enabled}
<1> DEFINE S == {i \in DOMAIN list : list[i].enabled}
<1>1. EnabledAt(list) = Filter(Places(list), S)
  BY DEF EnabledAt, Places
<1>2. Places(list) \in Seq(DOMAIN list) /\ Range(Places(list)) = DOMAIN list
  BY PlacesAre
<1>3. S \subseteq DOMAIN list
  OBVIOUS
<1> HIDE DEF S
<1>4. Filter(Places(list), S) \in Seq(DOMAIN list) /\ Range(Filter(Places(list), S)) = Range(Places(list)) \cap S
  BY <1>2, FilterRange
<1>5. Range(Filter(Places(list), S)) = S
  BY <1>2, <1>3, <1>4
<1> QED BY <1>1, <1>4, <1>5 DEF S

\* When none is left out, all that are enabled are parsed.
LEMMA NoneIsSkipped ==
  ASSUME NEW list \in Seq(PhoneSource), NEW S, Skipped(list, Filter(EnabledAt(list), S)) = {}
  PROVE  Filter(EnabledAt(list), S) = EnabledAt(list)
<1> DEFINE e == EnabledAt(list)
<1>1. e \in Seq(DOMAIN list)
  BY EnabledIs
<1>2. Range(e) \ Range(Filter(e, S)) = {}
  BY DEF Skipped
<1> HIDE DEF e
<1>3. Range(Filter(e, S)) = Range(e) \cap S
  BY <1>1, FilterRange
<1>4. Range(e) \subseteq S
  BY <1>2, <1>3
<1>5. Filter(e, S) = e
  BY <1>1, <1>4, FilterAll
<1> QED BY <1>5 DEF e

\* The members of a group are then those of its positions that are enabled.
LEMMA MembersAre ==
  ASSUME NEW list \in Seq(PhoneSource), NEW wanted \in Seq(Nat)
  PROVE  LET m == Members(list, EnabledAt(list), wanted)
         IN  m \in Seq(Nat) /\ Range(m) = {list[i].id : i \in Range(wanted) \cap Range(EnabledAt(list))}
<1> DEFINE e == EnabledAt(list)
           kept == Filter(wanted, Range(e))
           m == Members(list, e, wanted)
<1>1. e \in Seq(DOMAIN list) /\ \A i \in DOMAIN list : list[i].id \in Nat
  <2>1. e \in Seq(DOMAIN list)
    BY EnabledIs
  <2>2. \A i \in DOMAIN list : list[i] \in PhoneSource
    OBVIOUS
  <2> QED BY <2>1, <2>2 DEF PhoneSource
<1>2. kept \in Seq(Nat) /\ Range(kept) = Range(wanted) \cap Range(e)
  BY FilterRange
<1>3. m = [k \in DOMAIN kept |->
             IF (CHOOSE p \in DOMAIN e : e[p] = kept[k]) <= Len(e)
             THEN list[e[CHOOSE p \in DOMAIN e : e[p] = kept[k]]].id ELSE 0]
  BY DEF Members
<1> HIDE DEF e, kept, m
<1>4. ASSUME NEW k \in DOMAIN kept PROVE m[k] = list[kept[k]].id /\ kept[k] \in DOMAIN list
  <2> DEFINE p == CHOOSE p \in DOMAIN e : e[p] = kept[k]
  <2>1. kept[k] \in Range(e)
    BY <1>2 DEF Range
  <2>2. p \in DOMAIN e /\ e[p] = kept[k]
    BY <2>1 DEF Range
  <2>3. m[k] = IF p <= Len(e) THEN list[e[p]].id ELSE 0
    BY <1>3
  <2> HIDE DEF p
  <2>4. p <= Len(e) /\ e[p] \in DOMAIN list
    BY <1>1, <2>2
  <2> QED BY <2>2, <2>3, <2>4
<1>5. DOMAIN m = DOMAIN kept
  BY <1>3
<1>6. m \in Seq(Nat)
  <2>1. DOMAIN m = 1..Len(kept) /\ Len(kept) \in Nat
    BY <1>2, <1>5
  <2>2. \A k \in 1..Len(kept) : m[k] \in Nat
    BY <1>1, <1>4, <1>5, <2>1
  <2>3. m = [k \in 1..Len(kept) |-> m[k]]
    BY <1>3, <1>5, <2>1
  <2> QED BY <2>1, <2>2, <2>3
<1>7. Range(m) = {list[i].id : i \in Range(kept)}
  BY <1>4, <1>5 DEF Range
<1> QED BY <1>2, <1>6, <1>7 DEF m, e

\* What is at some positions of a list
LEMMA IdsOfPlaces ==
  ASSUME NEW list, NEW positions
  PROVE  IdsAt(list, positions) = {list[i].id : i \in Range(positions)}
BY DEF IdsAt, Range

\* What is enabled of a list, of all of it and of a group's positions
LEMMA EnabledOfList ==
  ASSUME NEW list \in Seq(PhoneSource), Distinct(list), NEW wanted, Range(wanted) \subseteq DOMAIN list
  PROVE  /\ IdsAt(list, EnabledAt(list)) \subseteq AllIds(list)
         /\ {list[i].id : i \in Range(wanted) \cap Range(EnabledAt(list))}
              = IdsAt(list, wanted) \cap IdsAt(list, EnabledAt(list))
<1> DEFINE R == Range(EnabledAt(list))
           W == Range(wanted)
<1>1. R \subseteq DOMAIN list
  BY EnabledIs
<1>2. IdsAt(list, EnabledAt(list)) = {list[i].id : i \in R} /\ IdsAt(list, wanted) = {list[i].id : i \in W}
  BY IdsOfPlaces
<1> HIDE DEF R, W
<1>3. {list[i].id : i \in R} \subseteq AllIds(list)
  BY <1>1 DEF AllIds
<1>4. W \subseteq DOMAIN list
  BY DEF W
<1>5. {list[i].id : i \in W \cap R} = {list[i].id : i \in W} \cap {list[i].id : i \in R}
  <2>1. ASSUME NEW x \in {list[i].id : i \in W} \cap {list[i].id : i \in R}
        PROVE  x \in {list[i].id : i \in W \cap R}
    <3>1. PICK i \in W : x = list[i].id
      OBVIOUS
    <3>2. PICK j \in R : x = list[j].id
      OBVIOUS
    <3>3. i = j
      BY <1>1, <1>4, <3>1, <3>2 DEF Distinct
    <3> QED BY <3>1, <3>2, <3>3
  <2> QED BY <2>1
<1> QED BY <1>2, <1>3, <1>5 DEF R, W

\* When nothing is skipped, the group that a saved one is compiled to has the enabled
\* sources that were meant and are still there.
LEMMA GroupIsFaithful ==
  ASSUME NEW w, WorkspaceTyped(w), WorkspaceKept(w), NEW k \in DOMAIN w.groups,
         Skipped(w.subs, compile_subscriptions(w.subs)) = {},
         Skipped(w.nodes, compile_nodes(w.nodes)) = {}
  PROVE  LET g == CompiledGroup(w, w.groups[k])
             Enabled == IdsAt(w.subs, EnabledAt(w.subs)) \cup IdsAt(w.nodes, EnabledAt(w.nodes))
         IN  \/ g.filter = "none" /\ g.subs # <<>> /\ g.meant \cap Range(g.subs) = {}
             \/ Range(g.subs \o g.nodes) = g.meant \cap Enabled
<1> DEFINE h == w.groups[k]
           subs == w.subs
           nodes == w.nodes
           es == IdsAt(subs, EnabledAt(subs))
           en == IdsAt(nodes, EnabledAt(nodes))
           ms == Members(subs, compile_subscriptions(subs), h.subs)
           mn == Members(nodes, compile_nodes(nodes), h.nodes)
           meant == h.meant
<1>1. h \in PhoneGroup /\ subs \in Seq(PhoneSource) /\ nodes \in Seq(PhoneSource)
  BY DEF WorkspaceTyped
<1>2. MembersAreMeant(w, h) /\ Distinct(subs) /\ Distinct(nodes) /\ AllIds(subs) \cap AllIds(nodes) = {}
  BY DEF WorkspaceKept
<1>3. h.subs \in Seq(Nat) /\ h.nodes \in Seq(Nat)
  BY <1>1 DEF PhoneGroup
<1>4. Range(h.subs) \subseteq DOMAIN subs /\ Range(h.nodes) \subseteq DOMAIN nodes
  BY <1>2 DEF MembersAreMeant
<1> HIDE DEF h, subs, nodes
<1>5. compile_subscriptions(subs) = EnabledAt(subs)
  BY <1>1, NoneIsSkipped DEF compile_subscriptions, subs
<1>6. compile_nodes(nodes) = EnabledAt(nodes)
  BY <1>1, NoneIsSkipped DEF compile_nodes, nodes
<1>7. ms \in Seq(Nat) /\ Range(ms) = IdsAt(subs, h.subs) \cap es
  <2>1. ms \in Seq(Nat) /\ Range(ms) = {subs[i].id : i \in Range(h.subs) \cap Range(EnabledAt(subs))}
    BY <1>1, <1>3, <1>5, MembersAre
  <2> QED BY <1>1, <1>2, <1>4, <2>1, EnabledOfList
<1>8. mn \in Seq(Nat) /\ Range(mn) = IdsAt(nodes, h.nodes) \cap en
  <2>1. mn \in Seq(Nat) /\ Range(mn) = {nodes[i].id : i \in Range(h.nodes) \cap Range(EnabledAt(nodes))}
    BY <1>1, <1>3, <1>6, MembersAre
  <2> QED BY <1>1, <1>2, <1>4, <2>1, EnabledOfList
<1>9. es \subseteq AllIds(subs) /\ en \subseteq AllIds(nodes)
  <2>1. es \subseteq AllIds(subs)
    BY <1>1, <1>2, <1>4, EnabledOfList
  <2>2. en \subseteq AllIds(nodes)
    BY <1>1, <1>2, <1>4, EnabledOfList
  <2> QED BY <2>1, <2>2
<1>10. /\ IdsAt(nodes, h.nodes) = meant \cap AllIds(nodes)
       /\ \/ IdsAt(subs, h.subs) = meant \cap AllIds(subs)
          \/ h.filter = "none" /\ meant \cap AllIds(subs) = {}
  BY <1>2 DEF MembersAreMeant, h, subs, nodes
<1>11. IdsAt(subs, h.subs) \subseteq AllIds(subs)
  BY <1>4, IdsOfPlaces DEF AllIds
<1> HIDE DEF es, en, ms, mn, meant
<1>12. Range(ms \o mn) = Range(ms) \cup Range(mn)
  BY <1>7, <1>8, RangeConcat
<1>13. \/ h.filter = "none" /\ ms # <<>> /\ meant \cap Range(ms) = {}
       \/ Range(ms \o mn) = meant \cap (es \cup en)
  <2>1. CASE IdsAt(subs, h.subs) = meant \cap AllIds(subs)
    BY <1>7, <1>8, <1>9, <1>10, <1>12, <2>1
  <2>2. CASE h.filter = "none" /\ meant \cap AllIds(subs) = {} /\ ms # <<>>
    BY <1>7, <1>11, <2>2
  <2>3. CASE meant \cap AllIds(subs) = {} /\ ms = <<>>
    BY <1>8, <1>9, <1>10, <1>12, <2>3, RangeEmpty
  <2> QED BY <1>10, <2>1, <2>2, <2>3
<1>14. /\ CompiledGroup(w, h).filter = h.filter /\ CompiledGroup(w, h).meant = meant
       /\ CompiledGroup(w, h).subs = ms /\ CompiledGroup(w, h).nodes = mn
  BY DEF CompiledGroup, ms, mn, meant, subs, nodes
<1> QED BY <1>13, <1>14 DEF h, es, en, subs, nodes

\* A well-kept workspace compiles to groups with the members that were meant.
LEMMA KeptCompiles ==
  ASSUME WorkspaceTyped(workspace), WorkspaceKept(workspace)
  PROVE  GroupsKeepMembers
<1> DEFINE w == workspace
           groups == compile_groups(w)
           compiled == [i \in DOMAIN w.groups |-> CompiledGroup(w, w.groups[i])]
           some == {g \in Range(compiled) : HasMembers(g)}
<1>1. compile(w).groups = groups
  BY DEF compile
<1>2. groups = Filter(compiled, some)
  BY DEF compile_groups
<1>3. w.groups \in Seq(PhoneGroup)
  BY DEF WorkspaceTyped
<1>4. compiled \in Seq(Range(compiled))
  <2>1. DOMAIN compiled = 1..Len(w.groups) /\ Len(w.groups) \in Nat
    BY <1>3
  <2> DEFINE n == Len(w.groups)
             S == Range(compiled)
  <2>2. compiled \in [1..n -> S]
    BY <2>1 DEF Range
  <2> HIDE DEF compiled, n, S
  <2>3. compiled \in Seq(S)
    BY <2>1, <2>2, FunctionIsSeq DEF n
  <2> QED BY <2>3 DEF S
<1> HIDE DEF some
<1>5. Range(Filter(compiled, some)) \subseteq Range(compiled)
  <2> HIDE DEF compiled
  <2> QED BY <1>4, FilterRange
<1>6. ASSUME NEW j \in DOMAIN groups PROVE \E i \in DOMAIN w.groups : groups[j] = CompiledGroup(w, w.groups[i])
  <2>1. groups[j] \in Range(compiled)
    BY <1>2, <1>5 DEF Range
  <2> QED BY <2>1 DEF Range
<1>7. ASSUME Skipped(w.subs, compile_subscriptions(w.subs)) = {},
             Skipped(w.nodes, compile_nodes(w.nodes)) = {}, NEW j \in DOMAIN groups
      PROVE  LET g == groups[j]
                 Enabled == IdsAt(w.subs, EnabledAt(w.subs)) \cup IdsAt(w.nodes, EnabledAt(w.nodes))
             IN  \/ g.filter = "none" /\ g.subs # <<>> /\ g.meant \cap Range(g.subs) = {}
                 \/ Range(g.subs \o g.nodes) = g.meant \cap Enabled
  <2>1. PICK i \in DOMAIN w.groups : groups[j] = CompiledGroup(w, w.groups[i])
    BY <1>6
  <2> HIDE DEF groups
  <2> QED BY <1>7, <2>1, GroupIsFaithful
<1> QED BY <1>1, <1>7 DEF GroupsKeepMembers

\* The members of a group follow their list: those that leave the one leave the other.
Follows(list, p, next, q, meant) ==
  /\ Range(q) \subseteq DOMAIN next
  /\ \E gone : /\ IdsAt(next, q) = IdsAt(list, p) \ gone
               /\ meant \cap AllIds(next) = (meant \cap AllIds(list)) \ gone

\* A list that stays
LEMMA ListStays ==
  ASSUME NEW list, NEW p, Range(p) \subseteq DOMAIN list, NEW meant
  PROVE  Follows(list, p, list, p, meant)
<1>1. /\ IdsAt(list, p) = IdsAt(list, p) \ {}
      /\ meant \cap AllIds(list) = (meant \cap AllIds(list)) \ {}
  OBVIOUS
<1> QED BY <1>1 DEF Follows

\* A list with a new source
LEMMA ListGrows ==
  ASSUME NEW list \in Seq(PhoneSource), Distinct(list), NEW x \in PhoneSource, x.id \notin AllIds(list)
  PROVE  /\ Append(list, x) \in Seq(PhoneSource) /\ Distinct(Append(list, x))
         /\ AllIds(Append(list, x)) = AllIds(list) \cup {x.id}
         /\ \A p, meant : Range(p) \subseteq DOMAIN list /\ x.id \notin meant
              => Follows(list, p, Append(list, x), p, meant)
<1> DEFINE next == Append(list, x)
           n == Len(list)
<1>1. /\ next \in Seq(PhoneSource) /\ DOMAIN next = 1..(n + 1) /\ DOMAIN list = 1..n /\ n \in Nat
      /\ next[n + 1] = x /\ \A i \in 1..n : next[i] = list[i]
  OBVIOUS
<1> HIDE DEF next, n
<1>2. AllIds(next) = AllIds(list) \cup {x.id}
  <2>1. ASSUME NEW y \in AllIds(next) PROVE y \in AllIds(list) \cup {x.id}
    <3>1. PICK i \in 1..(n + 1) : y = next[i].id
      BY <1>1 DEF AllIds
    <3>2. CASE i \in 1..n
      BY <1>1, <3>1, <3>2 DEF AllIds
    <3>3. CASE i = n + 1
      BY <1>1, <3>1, <3>3
    <3> QED BY <1>1, <3>2, <3>3
  <2>2. ASSUME NEW y \in AllIds(list) PROVE y \in AllIds(next)
    <3>1. PICK i \in 1..n : y = list[i].id
      BY <1>1 DEF AllIds
    <3>2. i \in DOMAIN next /\ next[i] = list[i]
      BY <1>1
    <3> QED BY <3>1, <3>2 DEF AllIds
  <2>3. x.id \in AllIds(next)
    <3>1. n + 1 \in DOMAIN next /\ next[n + 1] = x
      BY <1>1
    <3> QED BY <3>1 DEF AllIds
  <2> QED BY <2>1, <2>2, <2>3
<1>3. Distinct(next)
  <2>1. \A i \in 1..n : next[i].id # x.id
    BY <1>1 DEF AllIds
  <2>2. \A i, j \in 1..n : next[i].id = next[j].id => i = j
    BY <1>1 DEF Distinct
  <2>3. ASSUME NEW i \in 1..(n + 1), NEW j \in 1..(n + 1), next[i].id = next[j].id PROVE i = j
    <3>1. i \in 1..n \/ i = n + 1
      BY <1>1
    <3>2. j \in 1..n \/ j = n + 1
      BY <1>1
    <3> QED BY <1>1, <2>1, <2>2, <2>3, <3>1, <3>2
  <2> QED BY <1>1, <2>3 DEF Distinct
<1>4. ASSUME NEW p, NEW meant, Range(p) \subseteq DOMAIN list, x.id \notin meant
      PROVE  Follows(list, p, next, p, meant)
  <2>1. Range(p) \subseteq DOMAIN next
    BY <1>1, <1>4
  <2>2. \A i \in Range(p) : next[i] = list[i]
    BY <1>1, <1>4
  <2>3. IdsAt(next, p) = IdsAt(list, p) \ {}
    BY <2>2, IdsOfPlaces
  <2>4. meant \cap AllIds(next) = (meant \cap AllIds(list)) \ {}
    BY <1>2, <1>4
  <2> QED BY <2>1, <2>3, <2>4 DEF Follows
<1> QED BY <1>1, <1>2, <1>3, <1>4 DEF next

\* A list with a source that is switched
LEMMA ListSwitches ==
  ASSUME NEW list \in Seq(PhoneSource), Distinct(list), NEW i \in DOMAIN list
  PROVE  /\ Switched(list, i) \in Seq(PhoneSource) /\ Distinct(Switched(list, i))
         /\ AllIds(Switched(list, i)) = AllIds(list)
         /\ \A p, meant : Range(p) \subseteq DOMAIN list => Follows(list, p, Switched(list, i), p, meant)
<1> DEFINE next == Switched(list, i)
<1>1. \A j \in DOMAIN list : list[j] \in PhoneSource
  OBVIOUS
<1>2. DOMAIN next = DOMAIN list /\ \A j \in DOMAIN list : next[j].id = list[j].id
  BY <1>1 DEF Switched, PhoneSource
<1>3. next \in Seq(PhoneSource)
  <2>1. [list[i] EXCEPT !.enabled = ~@] \in PhoneSource
    BY <1>1 DEF PhoneSource
  <2> QED BY <2>1 DEF Switched
<1> HIDE DEF next
<1>4. AllIds(next) = AllIds(list)
  BY <1>2 DEF AllIds
<1>5. Distinct(next)
  BY <1>2 DEF Distinct
<1>6. ASSUME NEW p, NEW meant, Range(p) \subseteq DOMAIN list
      PROVE  Follows(list, p, next, p, meant)
  <2>1. IdsAt(next, p) = IdsAt(list, p) \ {}
    BY <1>2, <1>6, IdsOfPlaces
  <2>2. meant \cap AllIds(next) = (meant \cap AllIds(list)) \ {}
    BY <1>4
  <2> QED BY <1>2, <1>6, <2>1, <2>2 DEF Follows
<1> QED BY <1>3, <1>4, <1>5, <1>6 DEF next

\* A list without one of its sources: its position is taken from the members, and those
\* behind it come one place nearer.
LEMMA ListShrinks ==
  ASSUME NEW list \in Seq(PhoneSource), Distinct(list), NEW i \in DOMAIN list
  PROVE  /\ RemoveAt(list, i) \in Seq(PhoneSource) /\ Distinct(RemoveAt(list, i))
         /\ AllIds(RemoveAt(list, i)) = AllIds(list) \ {list[i].id}
         /\ \A p \in Seq(Nat) : \A meant : Range(p) \subseteq DOMAIN list
              => /\ WithoutPosition(p, i) \in Seq(Nat)
                 /\ Follows(list, p, RemoveAt(list, i), WithoutPosition(p, i), meant)
<1> DEFINE next == RemoveAt(list, i)
           n == Len(list)
           Old(k) == IF k < i THEN k ELSE k + 1
           New(k) == IF k > i THEN k - 1 ELSE k
<1>1. n \in Nat /\ DOMAIN list = 1..n /\ i \in 1..n
  OBVIOUS
<1>2. /\ next \in Seq(PhoneSource) /\ DOMAIN next = 1..(n - 1)
      /\ \A k \in 1..(n - 1) : next[k] = list[Old(k)]
  <2>1. /\ next \in Seq(PhoneSource) /\ Len(next) = n - 1
        /\ \A k \in 1..(n - 1) : next[k] = IF k < i THEN list[k] ELSE list[k + 1]
    <3> HIDE DEF next
    <3>1. i \in 1..Len(list)
      OBVIOUS
    <3> QED BY <3>1, RemoveAtIs DEF next
  <2> HIDE DEF next
  <2>2. DOMAIN next = 1..(n - 1)
    BY <2>1
  <2>3. ASSUME NEW k \in 1..(n - 1) PROVE next[k] = list[Old(k)]
    <3>1. next[k] = IF k < i THEN list[k] ELSE list[k + 1]
      BY <2>1
    <3> QED BY <3>1
  <2> QED BY <2>1, <2>2, <2>3
<1> HIDE DEF next, n
<1>3. \A k \in 1..(n - 1) : Old(k) \in 1..n /\ Old(k) # i /\ New(Old(k)) = k
  BY <1>1
<1>4. \A k \in (1..n) \ {i} : New(k) \in 1..(n - 1) /\ Old(New(k)) = k
  BY <1>1
<1> HIDE DEF Old, New
<1>5. \A j, k \in 1..n : list[j].id = list[k].id => j = k
  BY <1>1 DEF Distinct
<1>6. Distinct(next)
  <2>1. ASSUME NEW j \in 1..(n - 1), NEW k \in 1..(n - 1), next[j].id = next[k].id PROVE j = k
    <3>1. Old(j) = Old(k)
      BY <1>2, <1>3, <1>5, <2>1
    <3> QED BY <1>3, <3>1
  <2> QED BY <1>2, <2>1 DEF Distinct
<1>7. AllIds(next) = AllIds(list) \ {list[i].id}
  <2>1. ASSUME NEW y \in AllIds(next) PROVE y \in AllIds(list) \ {list[i].id}
    <3>1. PICK k \in 1..(n - 1) : y = next[k].id
      BY <1>2 DEF AllIds
    <3>2. y = list[Old(k)].id /\ Old(k) \in 1..n /\ Old(k) # i
      BY <1>2, <1>3, <3>1
    <3> QED BY <1>1, <1>5, <3>2 DEF AllIds
  <2>2. ASSUME NEW y \in AllIds(list), y # list[i].id PROVE y \in AllIds(next)
    <3>1. PICK k \in 1..n : y = list[k].id
      BY <1>1 DEF AllIds
    <3>2. New(k) \in 1..(n - 1) /\ Old(New(k)) = k
      BY <1>4, <2>2, <3>1
    <3>3. next[New(k)].id = y
      BY <1>2, <3>1, <3>2
    <3> QED BY <1>2, <3>2, <3>3 DEF AllIds
  <2> QED BY <2>1, <2>2
<1>8. ASSUME NEW p \in Seq(Nat), NEW meant, Range(p) \subseteq DOMAIN list
      PROVE  /\ WithoutPosition(p, i) \in Seq(Nat)
             /\ Follows(list, p, next, WithoutPosition(p, i), meant)
  <2> DEFINE kept == Filter(p, Range(p) \ {i})
             q == WithoutPosition(p, i)
  <2>1. q = [k \in DOMAIN kept |-> New(kept[k])]
    BY DEF WithoutPosition, New
  <2>2. kept \in Seq(Nat) /\ Range(kept) = Range(p) \cap (Range(p) \ {i})
    BY FilterRange
  <2> HIDE DEF kept, q
  <2>3. Range(q) = {New(k) : k \in Range(kept)}
    BY <2>1 DEF Range
  <2>4. Range(kept) = Range(p) \ {i} /\ Range(kept) \subseteq (1..n) \ {i}
    BY <1>1, <1>8, <2>2
  <2>5. q \in Seq(Nat)
    <3>1. \A k \in DOMAIN kept : kept[k] \in Range(kept)
      BY DEF Range
    <3>2. \A k \in DOMAIN kept : New(kept[k]) \in Nat
      BY <1>1, <1>4, <2>4, <3>1
    <3>3. DOMAIN kept = 1..Len(kept) /\ Len(kept) \in Nat
      BY <2>2
    <3>4. q \in [1..Len(kept) -> Nat]
      BY <2>1, <3>2, <3>3
    <3> QED BY <3>3, <3>4, FunctionIsSeq
  <2>6. Range(q) \subseteq DOMAIN next
    BY <1>2, <1>4, <2>3, <2>4
  <2>7. \A k \in Range(kept) : next[New(k)] = list[k]
    BY <1>2, <1>4, <2>4
  <2>8. {next[j].id : j \in Range(q)} = {list[k].id : k \in Range(kept)}
    BY <2>3, <2>7
  <2>9. {list[k].id : k \in Range(kept)} = {list[k].id : k \in Range(p)} \ {list[i].id}
    BY <1>1, <1>5, <1>8, <2>4
  <2>10. IdsAt(next, q) = IdsAt(list, p) \ {list[i].id}
    BY <2>8, <2>9, IdsOfPlaces
  <2>11. meant \cap AllIds(next) = (meant \cap AllIds(list)) \ {list[i].id}
    BY <1>7
  <2>12. Follows(list, p, next, q, meant)
    BY <2>6, <2>10, <2>11 DEF Follows
  <2> QED BY <2>5, <2>12 DEF q
<1> QED BY <1>2, <1>6, <1>7, <1>8 DEF next

\* The identities that later edits give are not used yet.
Fit(w, n) == WorkspaceTyped(w) /\ WorkspaceKept(w) /\ Unused(w, (n + 1)..MaxEdits)
PhoneInv == edits \in 0..MaxEdits /\ Fit(workspace, edits)

\* A workspace with these lists and groups
HasLists(w, subs, nodes, groups) ==
  /\ DOMAIN w = {"subs", "nodes", "groups", "rules"}
  /\ w.subs = subs /\ w.nodes = nodes /\ w.groups = groups

LEMMA HasItsOwnLists ==
  ASSUME NEW w, WorkspaceTyped(w), NEW x
  PROVE  /\ HasLists(w, w.subs, w.nodes, w.groups)
         /\ HasLists([w EXCEPT !.subs = x], x, w.nodes, w.groups)
         /\ HasLists([w EXCEPT !.nodes = x], w.subs, x, w.groups)
         /\ HasLists([w EXCEPT !.groups = x], w.subs, w.nodes, x)
         /\ HasLists([w EXCEPT !.rules = x], w.subs, w.nodes, w.groups)
BY DEF HasLists, WorkspaceTyped

\* What a fit workspace holds
LEMMA FitHas ==
  ASSUME NEW w, NEW n, Fit(w, n)
  PROVE  /\ HasLists(w, w.subs, w.nodes, w.groups)
         /\ w.subs \in Seq(PhoneSource) /\ Distinct(w.subs)
         /\ w.nodes \in Seq(PhoneSource) /\ Distinct(w.nodes)
         /\ w.groups \in Seq(PhoneGroup)
         /\ AllIds(w.subs) \cap AllIds(w.nodes) = {}
         /\ ((n + 1)..MaxEdits) \cap (AllIds(w.subs) \cup AllIds(w.nodes)) = {}
         /\ \A k \in DOMAIN w.groups :
              /\ w.groups[k] \in PhoneGroup /\ MembersAreMeant(w, w.groups[k])
              /\ ((n + 1)..MaxEdits) \cap w.groups[k].meant = {}
<1>1. w.groups \in Seq(PhoneGroup)
  BY DEF Fit, WorkspaceTyped
<1>2. \A k \in DOMAIN w.groups : w.groups[k] \in PhoneGroup
  BY <1>1
<1>3. HasLists(w, w.subs, w.nodes, w.groups)
  BY DEF Fit, WorkspaceTyped, HasLists
<1>4. /\ w.subs \in Seq(PhoneSource) /\ Distinct(w.subs)
      /\ w.nodes \in Seq(PhoneSource) /\ Distinct(w.nodes)
  BY DEF Fit, WorkspaceTyped, WorkspaceKept
<1>5. /\ AllIds(w.subs) \cap AllIds(w.nodes) = {}
      /\ ((n + 1)..MaxEdits) \cap (AllIds(w.subs) \cup AllIds(w.nodes)) = {}
  BY DEF Fit, WorkspaceKept, Unused
<1>6. \A k \in DOMAIN w.groups :
        MembersAreMeant(w, w.groups[k]) /\ ((n + 1)..MaxEdits) \cap w.groups[k].meant = {}
  BY DEF Fit, WorkspaceKept, Unused
<1> QED BY <1>1, <1>2, <1>3, <1>4, <1>5, <1>6

\* A group is kept when its members follow both lists.
LEMMA GroupFollows ==
  ASSUME NEW w, NEW g, MembersAreMeant(w, g), NEW next, NEW h,
         h.filter = g.filter, h.meant = g.meant,
         Follows(w.subs, g.subs, next.subs, h.subs, g.meant),
         Follows(w.nodes, g.nodes, next.nodes, h.nodes, g.meant)
  PROVE  MembersAreMeant(next, h)
<1>1. /\ Range(h.subs) \subseteq DOMAIN next.subs /\ Range(h.nodes) \subseteq DOMAIN next.nodes
  BY DEF Follows
<1>2. PICK gone : /\ IdsAt(next.subs, h.subs) = IdsAt(w.subs, g.subs) \ gone
                  /\ g.meant \cap AllIds(next.subs) = (g.meant \cap AllIds(w.subs)) \ gone
  BY DEF Follows
<1>3. PICK left : /\ IdsAt(next.nodes, h.nodes) = IdsAt(w.nodes, g.nodes) \ left
                  /\ g.meant \cap AllIds(next.nodes) = (g.meant \cap AllIds(w.nodes)) \ left
  BY DEF Follows
<1>4. IdsAt(next.nodes, h.nodes) = h.meant \cap AllIds(next.nodes)
  BY <1>3 DEF MembersAreMeant
<1>5. \/ IdsAt(next.subs, h.subs) = h.meant \cap AllIds(next.subs)
      \/ h.filter = "none" /\ h.meant \cap AllIds(next.subs) = {}
  <2>1. CASE IdsAt(w.subs, g.subs) = g.meant \cap AllIds(w.subs)
    BY <1>2, <2>1
  <2>2. CASE g.filter = "none" /\ g.meant \cap AllIds(w.subs) = {}
    BY <1>2, <2>2
  <2> QED BY <2>1, <2>2 DEF MembersAreMeant
<1> QED BY <1>1, <1>4, <1>5 DEF MembersAreMeant

\* What the lists and the groups of a workspace become
LEMMA ListsChange ==
  ASSUME NEW w, NEW n \in Nat, Fit(w, n),
         NEW subs \in Seq(PhoneSource), Distinct(subs),
         NEW nodes \in Seq(PhoneSource), Distinct(nodes),
         AllIds(subs) \cap AllIds(nodes) = {},
         ((n + 2)..MaxEdits) \cap (AllIds(subs) \cup AllIds(nodes)) = {},
         NEW groups \in Seq(PhoneGroup), DOMAIN groups = DOMAIN w.groups,
         \A k \in DOMAIN w.groups :
           /\ groups[k].filter = w.groups[k].filter /\ groups[k].meant = w.groups[k].meant
           /\ Follows(w.subs, w.groups[k].subs, subs, groups[k].subs, w.groups[k].meant)
           /\ Follows(w.nodes, w.groups[k].nodes, nodes, groups[k].nodes, w.groups[k].meant),
         NEW next, HasLists(next, subs, nodes, groups)
  PROVE  Fit(next, n + 1)
<1>1. WorkspaceTyped(next)
  BY DEF WorkspaceTyped, HasLists
<1>2. ASSUME NEW k \in DOMAIN next.groups PROVE MembersAreMeant(next, next.groups[k])
  <2>1. k \in DOMAIN w.groups /\ MembersAreMeant(w, w.groups[k])
    BY <1>2, FitHas DEF HasLists
  <2>2. /\ next.groups[k].filter = w.groups[k].filter /\ next.groups[k].meant = w.groups[k].meant
        /\ Follows(w.subs, w.groups[k].subs, next.subs, next.groups[k].subs, w.groups[k].meant)
        /\ Follows(w.nodes, w.groups[k].nodes, next.nodes, next.groups[k].nodes, w.groups[k].meant)
    BY <2>1 DEF HasLists
  <2> QED BY <2>1, <2>2, GroupFollows
<1>3. WorkspaceKept(next)
  BY <1>2 DEF WorkspaceKept, HasLists
<1>4. (n + 1) + 1 = n + 2 /\ ((n + 2)..MaxEdits) \subseteq ((n + 1)..MaxEdits)
  BY PhoneAssumption
<1>5. ASSUME NEW k \in DOMAIN next.groups PROVE ((n + 2)..MaxEdits) \cap next.groups[k].meant = {}
  <2>1. k \in DOMAIN w.groups /\ next.groups[k].meant = w.groups[k].meant
    BY <1>5 DEF HasLists
  <2>2. ((n + 1)..MaxEdits) \cap w.groups[k].meant = {}
    BY <2>1, FitHas
  <2> QED BY <1>4, <2>1, <2>2
<1>6. Unused(next, (n + 2)..MaxEdits)
  BY <1>5 DEF Unused, HasLists
<1> QED BY <1>1, <1>3, <1>4, <1>6 DEF Fit

\* What the groups alone become
LEMMA GroupsChange ==
  ASSUME NEW w, NEW n \in Nat, Fit(w, n),
         NEW groups \in Seq(PhoneGroup),
         \A k \in DOMAIN groups :
           MembersAreMeant(w, groups[k]) /\ ((n + 1)..MaxEdits) \cap groups[k].meant = {},
         NEW next, HasLists(next, w.subs, w.nodes, groups)
  PROVE  Fit(next, n + 1)
<1>1. WorkspaceTyped(next)
  BY FitHas DEF WorkspaceTyped, HasLists
<1>2. ASSUME NEW k \in DOMAIN next.groups PROVE MembersAreMeant(next, next.groups[k])
  BY <1>2 DEF HasLists, MembersAreMeant
<1>3. WorkspaceKept(next)
  BY <1>2, FitHas DEF WorkspaceKept, HasLists
<1>4. (n + 1) + 1 = n + 2 /\ ((n + 2)..MaxEdits) \subseteq ((n + 1)..MaxEdits)
  BY PhoneAssumption
<1>5. \A k \in DOMAIN next.groups : ((n + 2)..MaxEdits) \cap next.groups[k].meant = {}
  BY <1>4 DEF HasLists
<1>6. ((n + 2)..MaxEdits) \cap (AllIds(next.subs) \cup AllIds(next.nodes)) = {}
  BY <1>4, FitHas DEF HasLists
<1>7. Unused(next, (n + 2)..MaxEdits)
  BY <1>5, <1>6 DEF Unused
<1> QED BY <1>1, <1>3, <1>4, <1>7 DEF Fit

\* An edit of the rules alone
LEMMA RulesChange ==
  ASSUME NEW w, NEW n \in Nat, Fit(w, n), NEW next, HasLists(next, w.subs, w.nodes, w.groups)
  PROVE  Fit(next, n + 1)
BY FitHas, GroupsChange

\* The next identity is new.
LEMMA NextIsNew ==
  ASSUME NEW w, NEW n \in 0..MaxEdits, n < MaxEdits, Fit(w, n)
  PROVE  /\ n + 1 \notin AllIds(w.subs) /\ n + 1 \notin AllIds(w.nodes)
         /\ \A k \in DOMAIN w.groups : n + 1 \notin w.groups[k].meant
         /\ n \in Nat /\ n + 1 \notin (n + 2)..MaxEdits
         /\ ((n + 2)..MaxEdits) \cap (AllIds(w.subs) \cup AllIds(w.nodes)) = {}
<1>1. /\ n \in Nat /\ n + 1 \in (n + 1)..MaxEdits /\ n + 1 \notin (n + 2)..MaxEdits
      /\ ((n + 2)..MaxEdits) \subseteq ((n + 1)..MaxEdits)
  BY PhoneAssumption
<1>2. /\ ((n + 1)..MaxEdits) \cap (AllIds(w.subs) \cup AllIds(w.nodes)) = {}
      /\ \A k \in DOMAIN w.groups : ((n + 1)..MaxEdits) \cap w.groups[k].meant = {}
  BY FitHas
<1> QED BY <1>1, <1>2

\* The places of the members of a group
LEMMA MembersArePlaces ==
  ASSUME NEW w, NEW n, Fit(w, n), NEW k \in DOMAIN w.groups
  PROVE  /\ w.groups[k].subs \in Seq(Nat) /\ Range(w.groups[k].subs) \subseteq DOMAIN w.subs
         /\ w.groups[k].nodes \in Seq(Nat) /\ Range(w.groups[k].nodes) \subseteq DOMAIN w.nodes
<1>1. w.groups[k] \in PhoneGroup /\ MembersAreMeant(w, w.groups[k])
  BY FitHas
<1> QED BY <1>1 DEF PhoneGroup, MembersAreMeant

\* A source is added.
LEMMA SourceIsOne ==
  ASSUME NEW what \in Urls \cup Links, NEW n \in Nat
  PROVE  Source(what, n) \in PhoneSource /\ Source(what, n).id = n
BY DEF Source, PhoneSource

LEMMA SubscriptionFits ==
  ASSUME NEW w, NEW n \in 0..MaxEdits, n < MaxEdits, Fit(w, n), NEW url \in Urls
  PROVE  Fit([w EXCEPT !.subs = Append(@, Source(url, n + 1))], n + 1)
<1> DEFINE x == Source(url, n + 1)
           subs == Append(w.subs, x)
           next == [w EXCEPT !.subs = Append(@, x)]
<1>1. n \in Nat /\ n + 1 \in Nat
  BY NextIsNew
<1>2. x \in PhoneSource /\ x.id = n + 1
  BY <1>1, SourceIsOne
<1>3. HasLists(next, subs, w.nodes, w.groups)
  <2>1. WorkspaceTyped(w)
    BY DEF Fit
  <2> HIDE DEF x
  <2>2. next = [w EXCEPT !.subs = subs]
    OBVIOUS
  <2> HIDE DEF subs
  <2> QED BY <2>1, <2>2, HasItsOwnLists
<1> HIDE DEF x, next
<1>4. /\ subs \in Seq(PhoneSource) /\ Distinct(subs) /\ AllIds(subs) = AllIds(w.subs) \cup {n + 1}
      /\ \A p, meant : Range(p) \subseteq DOMAIN w.subs /\ n + 1 \notin meant
           => Follows(w.subs, p, subs, p, meant)
  <2>1. w.subs \in Seq(PhoneSource) /\ Distinct(w.subs) /\ x.id \notin AllIds(w.subs)
    BY <1>2, FitHas, NextIsNew
  <2> QED BY <1>2, <2>1, ListGrows
<1> HIDE DEF subs
<1>5. ASSUME NEW k \in DOMAIN w.groups
      PROVE  /\ Follows(w.subs, w.groups[k].subs, subs, w.groups[k].subs, w.groups[k].meant)
             /\ Follows(w.nodes, w.groups[k].nodes, w.nodes, w.groups[k].nodes, w.groups[k].meant)
  BY <1>4, MembersArePlaces, NextIsNew, ListStays
<1>6. /\ AllIds(subs) \cap AllIds(w.nodes) = {}
      /\ ((n + 2)..MaxEdits) \cap (AllIds(subs) \cup AllIds(w.nodes)) = {}
  BY <1>4, NextIsNew, FitHas
<1>7. w.nodes \in Seq(PhoneSource) /\ Distinct(w.nodes) /\ w.groups \in Seq(PhoneGroup)
  BY FitHas
<1>8. Fit(next, n + 1)
  BY <1>1, <1>3, <1>4, <1>5, <1>6, <1>7, ListsChange
<1> QED BY <1>8 DEF next, x

LEMMA NodeFits ==
  ASSUME NEW w, NEW n \in 0..MaxEdits, n < MaxEdits, Fit(w, n), NEW share \in Links
  PROVE  Fit([w EXCEPT !.nodes = Append(@, Source(share, n + 1))], n + 1)
<1> DEFINE x == Source(share, n + 1)
           nodes == Append(w.nodes, x)
           next == [w EXCEPT !.nodes = Append(@, x)]
<1>1. n \in Nat /\ n + 1 \in Nat
  BY NextIsNew
<1>2. x \in PhoneSource /\ x.id = n + 1
  BY <1>1, SourceIsOne
<1>3. HasLists(next, w.subs, nodes, w.groups)
  <2>1. WorkspaceTyped(w)
    BY DEF Fit
  <2> HIDE DEF x
  <2>2. next = [w EXCEPT !.nodes = nodes]
    OBVIOUS
  <2> HIDE DEF nodes
  <2> QED BY <2>1, <2>2, HasItsOwnLists
<1> HIDE DEF x, next
<1>4. /\ nodes \in Seq(PhoneSource) /\ Distinct(nodes) /\ AllIds(nodes) = AllIds(w.nodes) \cup {n + 1}
      /\ \A p, meant : Range(p) \subseteq DOMAIN w.nodes /\ n + 1 \notin meant
           => Follows(w.nodes, p, nodes, p, meant)
  <2>1. w.nodes \in Seq(PhoneSource) /\ Distinct(w.nodes) /\ x.id \notin AllIds(w.nodes)
    BY <1>2, FitHas, NextIsNew
  <2> QED BY <1>2, <2>1, ListGrows
<1> HIDE DEF nodes
<1>5. ASSUME NEW k \in DOMAIN w.groups
      PROVE  /\ Follows(w.subs, w.groups[k].subs, w.subs, w.groups[k].subs, w.groups[k].meant)
             /\ Follows(w.nodes, w.groups[k].nodes, nodes, w.groups[k].nodes, w.groups[k].meant)
  BY <1>4, MembersArePlaces, NextIsNew, ListStays
<1>6. /\ AllIds(w.subs) \cap AllIds(nodes) = {}
      /\ ((n + 2)..MaxEdits) \cap (AllIds(w.subs) \cup AllIds(nodes)) = {}
  BY <1>4, NextIsNew, FitHas
<1>7. w.subs \in Seq(PhoneSource) /\ Distinct(w.subs) /\ w.groups \in Seq(PhoneGroup)
  BY FitHas
<1>8. Fit(next, n + 1)
  BY <1>1, <1>3, <1>4, <1>5, <1>6, <1>7, ListsChange
<1> QED BY <1>8 DEF next, x

\* A source is switched.
LEMMA SwitchedSubscriptionFits ==
  ASSUME NEW w, NEW n \in 0..MaxEdits, n < MaxEdits, Fit(w, n), NEW i \in DOMAIN w.subs
  PROVE  Fit([w EXCEPT !.subs = Switched(@, i)], n + 1)
<1> DEFINE subs == Switched(w.subs, i)
           next == [w EXCEPT !.subs = Switched(@, i)]
<1>1. HasLists(next, subs, w.nodes, w.groups)
  <2>1. WorkspaceTyped(w) /\ next = [w EXCEPT !.subs = subs]
    BY DEF Fit
  <2> HIDE DEF subs
  <2> QED BY <2>1, HasItsOwnLists
<1> HIDE DEF next
<1>2. /\ w.subs \in Seq(PhoneSource) /\ Distinct(w.subs) /\ AllIds(w.subs) \cap AllIds(w.nodes) = {}
      /\ w.nodes \in Seq(PhoneSource) /\ Distinct(w.nodes) /\ w.groups \in Seq(PhoneGroup)
  BY FitHas
<1>3. /\ subs \in Seq(PhoneSource) /\ Distinct(subs) /\ AllIds(subs) = AllIds(w.subs)
      /\ \A p, meant : Range(p) \subseteq DOMAIN w.subs => Follows(w.subs, p, subs, p, meant)
  BY <1>2, ListSwitches
<1> HIDE DEF subs
<1>4. ASSUME NEW k \in DOMAIN w.groups
      PROVE  /\ Follows(w.subs, w.groups[k].subs, subs, w.groups[k].subs, w.groups[k].meant)
             /\ Follows(w.nodes, w.groups[k].nodes, w.nodes, w.groups[k].nodes, w.groups[k].meant)
  BY <1>3, MembersArePlaces, ListStays
<1>5. /\ n \in Nat /\ ((n + 2)..MaxEdits) \cap (AllIds(subs) \cup AllIds(w.nodes)) = {}
      /\ AllIds(subs) \cap AllIds(w.nodes) = {}
  BY <1>2, <1>3, NextIsNew
<1>6. Fit(next, n + 1)
  BY <1>1, <1>2, <1>3, <1>4, <1>5, ListsChange
<1> QED BY <1>6 DEF next

LEMMA SwitchedNodeFits ==
  ASSUME NEW w, NEW n \in 0..MaxEdits, n < MaxEdits, Fit(w, n), NEW i \in DOMAIN w.nodes
  PROVE  Fit([w EXCEPT !.nodes = Switched(@, i)], n + 1)
<1> DEFINE nodes == Switched(w.nodes, i)
           next == [w EXCEPT !.nodes = Switched(@, i)]
<1>1. HasLists(next, w.subs, nodes, w.groups)
  <2>1. WorkspaceTyped(w) /\ next = [w EXCEPT !.nodes = nodes]
    BY DEF Fit
  <2> HIDE DEF nodes
  <2> QED BY <2>1, HasItsOwnLists
<1> HIDE DEF next
<1>2. /\ w.subs \in Seq(PhoneSource) /\ Distinct(w.subs) /\ AllIds(w.subs) \cap AllIds(w.nodes) = {}
      /\ w.nodes \in Seq(PhoneSource) /\ Distinct(w.nodes) /\ w.groups \in Seq(PhoneGroup)
  BY FitHas
<1>3. /\ nodes \in Seq(PhoneSource) /\ Distinct(nodes) /\ AllIds(nodes) = AllIds(w.nodes)
      /\ \A p, meant : Range(p) \subseteq DOMAIN w.nodes => Follows(w.nodes, p, nodes, p, meant)
  BY <1>2, ListSwitches
<1> HIDE DEF nodes
<1>4. ASSUME NEW k \in DOMAIN w.groups
      PROVE  /\ Follows(w.subs, w.groups[k].subs, w.subs, w.groups[k].subs, w.groups[k].meant)
             /\ Follows(w.nodes, w.groups[k].nodes, nodes, w.groups[k].nodes, w.groups[k].meant)
  BY <1>3, MembersArePlaces, ListStays
<1>5. /\ n \in Nat /\ ((n + 2)..MaxEdits) \cap (AllIds(w.subs) \cup AllIds(nodes)) = {}
      /\ AllIds(w.subs) \cap AllIds(nodes) = {}
  BY <1>2, <1>3, NextIsNew
<1>6. Fit(next, n + 1)
  BY <1>1, <1>2, <1>3, <1>4, <1>5, ListsChange
<1> QED BY <1>6 DEF next

\* A source is removed, and its position from the groups.
LEMMA RemovedSubscriptionFits ==
  ASSUME NEW w, NEW n \in 0..MaxEdits, n < MaxEdits, Fit(w, n), NEW i \in DOMAIN w.subs
  PROVE  Fit([w EXCEPT !.subs = RemoveAt(@, i),
                !.groups = [k \in DOMAIN @ |-> withoutSubscription(@[k], i)]], n + 1)
<1> DEFINE list == RemoveAt(w.subs, i)
           groups == [k \in DOMAIN w.groups |-> withoutSubscription(w.groups[k], i)]
           next == [w EXCEPT !.subs = RemoveAt(@, i),
                      !.groups = [k \in DOMAIN @ |-> withoutSubscription(@[k], i)]]
<1>1. HasLists(next, list, w.nodes, groups)
  <2>1. DOMAIN w = {"subs", "nodes", "groups", "rules"}
    BY DEF Fit, WorkspaceTyped
  <2>2. /\ DOMAIN next = DOMAIN w /\ next.subs = list /\ next.nodes = w.nodes
    BY <2>1
  <2>3. next.groups = groups
    BY <2>1
  <2> HIDE DEF list, groups, next
  <2> QED BY <2>1, <2>2, <2>3 DEF HasLists
<1> HIDE DEF next
<1>2. /\ w.subs \in Seq(PhoneSource) /\ Distinct(w.subs) /\ AllIds(w.subs) \cap AllIds(w.nodes) = {}
      /\ w.nodes \in Seq(PhoneSource) /\ Distinct(w.nodes) /\ w.groups \in Seq(PhoneGroup)
  BY FitHas
<1>3. /\ list \in Seq(PhoneSource) /\ Distinct(list) /\ AllIds(list) = AllIds(w.subs) \ {w.subs[i].id}
      /\ \A p \in Seq(Nat) : \A meant : Range(p) \subseteq DOMAIN w.subs
           => /\ WithoutPosition(p, i) \in Seq(Nat)
              /\ Follows(w.subs, p, list, WithoutPosition(p, i), meant)
  BY <1>2, ListShrinks
<1> HIDE DEF list
<1>4. ASSUME NEW k \in DOMAIN w.groups
      PROVE  /\ groups[k] \in PhoneGroup
             /\ groups[k].filter = w.groups[k].filter /\ groups[k].meant = w.groups[k].meant
             /\ Follows(w.subs, w.groups[k].subs, list, groups[k].subs, w.groups[k].meant)
             /\ Follows(w.nodes, w.groups[k].nodes, w.nodes, groups[k].nodes, w.groups[k].meant)
  <2>1. /\ w.groups[k].subs \in Seq(Nat) /\ Range(w.groups[k].subs) \subseteq DOMAIN w.subs
        /\ Range(w.groups[k].nodes) \subseteq DOMAIN w.nodes /\ w.groups[k] \in PhoneGroup
    BY MembersArePlaces, FitHas
  <2> DEFINE q == WithoutPosition(w.groups[k].subs, i)
  <2>2. q \in Seq(Nat) /\ Follows(w.subs, w.groups[k].subs, list, q, w.groups[k].meant)
    BY <1>3, <2>1
  <2>3. groups[k] = [w.groups[k] EXCEPT !.subs = q]
    BY DEF withoutSubscription
  <2> HIDE DEF q, groups
  <2>4. /\ groups[k] \in PhoneGroup /\ groups[k].subs = q /\ groups[k].nodes = w.groups[k].nodes
        /\ groups[k].filter = w.groups[k].filter /\ groups[k].meant = w.groups[k].meant
    BY <2>1, <2>2, <2>3 DEF PhoneGroup
  <2>5. Follows(w.nodes, w.groups[k].nodes, w.nodes, groups[k].nodes, w.groups[k].meant)
    BY <2>1, <2>4, ListStays
  <2> QED BY <2>2, <2>4, <2>5
<1>5. DOMAIN groups = DOMAIN w.groups
  OBVIOUS
<1> HIDE DEF groups
<1>6. groups \in Seq(PhoneGroup)
  <2>1. DOMAIN groups = 1..Len(w.groups) /\ Len(w.groups) \in Nat
    BY <1>2, <1>5
  <2> DEFINE m == Len(w.groups)
  <2>2. groups = [k \in DOMAIN groups |-> groups[k]]
    BY DEF groups
  <2>3. groups \in [1..m -> PhoneGroup]
    BY <1>4, <1>5, <2>1, <2>2
  <2> HIDE DEF m
  <2> QED BY <2>1, <2>3, FunctionIsSeq DEF m
<1>7. /\ n \in Nat /\ ((n + 2)..MaxEdits) \cap (AllIds(list) \cup AllIds(w.nodes)) = {}
      /\ AllIds(list) \cap AllIds(w.nodes) = {}
  BY <1>2, <1>3, NextIsNew
<1>8. Fit(next, n + 1)
  BY <1>1, <1>2, <1>3, <1>4, <1>5, <1>6, <1>7, ListsChange
<1> QED BY <1>8 DEF next

LEMMA RemovedNodeFits ==
  ASSUME NEW w, NEW n \in 0..MaxEdits, n < MaxEdits, Fit(w, n), NEW i \in DOMAIN w.nodes
  PROVE  Fit([w EXCEPT !.nodes = RemoveAt(@, i),
                !.groups = [k \in DOMAIN @ |-> withoutNode(@[k], i)]], n + 1)
<1> DEFINE list == RemoveAt(w.nodes, i)
           groups == [k \in DOMAIN w.groups |-> withoutNode(w.groups[k], i)]
           next == [w EXCEPT !.nodes = RemoveAt(@, i),
                      !.groups = [k \in DOMAIN @ |-> withoutNode(@[k], i)]]
<1>1. HasLists(next, w.subs, list, groups)
  <2>1. DOMAIN w = {"subs", "nodes", "groups", "rules"}
    BY DEF Fit, WorkspaceTyped
  <2>2. /\ DOMAIN next = DOMAIN w /\ next.nodes = list /\ next.subs = w.subs
    BY <2>1
  <2>3. next.groups = groups
    BY <2>1
  <2> HIDE DEF list, groups, next
  <2> QED BY <2>1, <2>2, <2>3 DEF HasLists
<1> HIDE DEF next
<1>2. /\ w.subs \in Seq(PhoneSource) /\ Distinct(w.subs) /\ AllIds(w.subs) \cap AllIds(w.nodes) = {}
      /\ w.nodes \in Seq(PhoneSource) /\ Distinct(w.nodes) /\ w.groups \in Seq(PhoneGroup)
  BY FitHas
<1>3. /\ list \in Seq(PhoneSource) /\ Distinct(list) /\ AllIds(list) = AllIds(w.nodes) \ {w.nodes[i].id}
      /\ \A p \in Seq(Nat) : \A meant : Range(p) \subseteq DOMAIN w.nodes
           => /\ WithoutPosition(p, i) \in Seq(Nat)
              /\ Follows(w.nodes, p, list, WithoutPosition(p, i), meant)
  BY <1>2, ListShrinks
<1> HIDE DEF list
<1>4. ASSUME NEW k \in DOMAIN w.groups
      PROVE  /\ groups[k] \in PhoneGroup
             /\ groups[k].filter = w.groups[k].filter /\ groups[k].meant = w.groups[k].meant
             /\ Follows(w.nodes, w.groups[k].nodes, list, groups[k].nodes, w.groups[k].meant)
             /\ Follows(w.subs, w.groups[k].subs, w.subs, groups[k].subs, w.groups[k].meant)
  <2>1. /\ w.groups[k].nodes \in Seq(Nat) /\ Range(w.groups[k].nodes) \subseteq DOMAIN w.nodes
        /\ Range(w.groups[k].subs) \subseteq DOMAIN w.subs /\ w.groups[k] \in PhoneGroup
    BY MembersArePlaces, FitHas
  <2> DEFINE q == WithoutPosition(w.groups[k].nodes, i)
  <2>2. q \in Seq(Nat) /\ Follows(w.nodes, w.groups[k].nodes, list, q, w.groups[k].meant)
    BY <1>3, <2>1
  <2>3. groups[k] = [w.groups[k] EXCEPT !.nodes = q]
    BY DEF withoutNode
  <2> HIDE DEF q, groups
  <2>4. /\ groups[k] \in PhoneGroup /\ groups[k].nodes = q /\ groups[k].subs = w.groups[k].subs
        /\ groups[k].filter = w.groups[k].filter /\ groups[k].meant = w.groups[k].meant
    BY <2>1, <2>2, <2>3 DEF PhoneGroup
  <2>5. Follows(w.subs, w.groups[k].subs, w.subs, groups[k].subs, w.groups[k].meant)
    BY <2>1, <2>4, ListStays
  <2> QED BY <2>2, <2>4, <2>5
<1>5. DOMAIN groups = DOMAIN w.groups
  OBVIOUS
<1> HIDE DEF groups
<1>6. groups \in Seq(PhoneGroup)
  <2>1. DOMAIN groups = 1..Len(w.groups) /\ Len(w.groups) \in Nat
    BY <1>2, <1>5
  <2> DEFINE m == Len(w.groups)
  <2>2. groups = [k \in DOMAIN groups |-> groups[k]]
    BY DEF groups
  <2>3. groups \in [1..m -> PhoneGroup]
    BY <1>4, <1>5, <2>1, <2>2
  <2> HIDE DEF m
  <2> QED BY <2>1, <2>3, FunctionIsSeq DEF m
<1>7. /\ n \in Nat /\ ((n + 2)..MaxEdits) \cap (AllIds(w.subs) \cup AllIds(list)) = {}
      /\ AllIds(w.subs) \cap AllIds(list) = {}
  BY <1>2, <1>3, NextIsNew
<1>8. Fit(next, n + 1)
  BY <1>1, <1>2, <1>3, <1>4, <1>5, <1>6, <1>7, ListsChange
<1> QED BY <1>8 DEF next

\* The group that is saved on the page
LEMMA GroupIsMeant ==
  ASSUME NEW n, Fit(workspace, n), NEW name \in GroupNames,
         NEW nodes \in Seq(Nat), Range(nodes) \subseteq DOMAIN workspace.nodes,
         NEW filter \in {"none", "names"}, NEW meant,
         \/ meant = IdsAt(workspace.subs, EnabledAt(workspace.subs))
         \/ meant = {} /\ filter = "none"
  PROVE  LET g == Group(name, nodes, filter, meant)
         IN  /\ g \in PhoneGroup /\ MembersAreMeant(workspace, g)
             /\ ((n + 1)..MaxEdits) \cap g.meant = {}
<1> DEFINE subs == workspace.subs
           e == EnabledAt(subs)
           g == Group(name, nodes, filter, meant)
           all == meant \cup IdsAt(workspace.nodes, nodes)
<1>1. /\ subs \in Seq(PhoneSource) /\ workspace.nodes \in Seq(PhoneSource)
      /\ AllIds(subs) \cap AllIds(workspace.nodes) = {}
      /\ ((n + 1)..MaxEdits) \cap (AllIds(subs) \cup AllIds(workspace.nodes)) = {}
  BY FitHas
<1>2. /\ \A i \in DOMAIN subs : subs[i].id \in Nat
      /\ \A i \in DOMAIN workspace.nodes : workspace.nodes[i].id \in Nat
  <2>1. /\ \A i \in DOMAIN subs : subs[i] \in PhoneSource
        /\ \A i \in DOMAIN workspace.nodes : workspace.nodes[i] \in PhoneSource
    BY <1>1
  <2> QED BY <2>1 DEF PhoneSource
<1>3. e \in Seq(DOMAIN subs) /\ Range(e) \subseteq DOMAIN subs /\ DOMAIN subs \subseteq Nat
  BY <1>1, EnabledIs
<1>4. e \in Seq(Nat)
  BY <1>3
<1>5. /\ IdsAt(subs, e) = {subs[i].id : i \in Range(e)}
      /\ IdsAt(workspace.nodes, nodes) = {workspace.nodes[i].id : i \in Range(nodes)}
  BY IdsOfPlaces
<1>6. IdsAt(subs, e) \subseteq AllIds(subs) /\ IdsAt(workspace.nodes, nodes) \subseteq AllIds(workspace.nodes)
  BY <1>3, <1>5 DEF AllIds
<1>7. AllIds(subs) \subseteq Nat /\ AllIds(workspace.nodes) \subseteq Nat
  BY <1>2 DEF AllIds
<1>8. /\ g = [name |-> name, subs |-> e, nodes |-> nodes, filter |-> filter, meant |-> all]
  BY DEF Group
<1>9. meant = IdsAt(subs, e) \/ (meant = {} /\ filter = "none")
  OBVIOUS
<1> HIDE DEF e, g
<1>10. all \subseteq AllIds(subs) \cup AllIds(workspace.nodes)
  BY <1>6, <1>9
<1>11. g \in PhoneGroup
  <2>1. all \in SUBSET Nat
    BY <1>7, <1>10
  <2> HIDE DEF all
  <2> QED BY <1>4, <1>8, <2>1 DEF PhoneGroup
<1>12. IdsAt(workspace.nodes, nodes) = all \cap AllIds(workspace.nodes)
  BY <1>1, <1>6, <1>9
<1>13. \/ IdsAt(subs, e) = all \cap AllIds(subs)
       \/ filter = "none" /\ all \cap AllIds(subs) = {}
  BY <1>1, <1>6, <1>9
<1> HIDE DEF all
<1>14. MembersAreMeant(workspace, g)
  BY <1>3, <1>8, <1>12, <1>13 DEF MembersAreMeant
<1>15. ((n + 1)..MaxEdits) \cap g.meant = {}
  BY <1>1, <1>8, <1>10
<1> QED BY <1>11, <1>14, <1>15 DEF g

LEMMA UpdateFits ==
  ASSUME PhoneInv, NEW w, Update(w), edits < MaxEdits => Fit(w, edits + 1)
  PROVE  PhoneInv'
<1>1. edits < MaxEdits /\ edits' = edits + 1 /\ workspace' = w
  BY DEF Update
<1>2. edits + 1 \in 0..MaxEdits
  BY <1>1, PhoneAssumption DEF PhoneInv
<1>3. Fit(w, edits + 1)
  BY <1>1
<1>4. Fit(workspace, edits)'
  BY <1>1, <1>3 DEF Fit, WorkspaceTyped, WorkspaceKept, Unused
<1> QED BY <1>1, <1>2, <1>4 DEF PhoneInv

\* The first workspace is empty.
LEMMA EmptyFits ==
  ASSUME PhoneInit
  PROVE  PhoneInv
<1>1. workspace = Empty /\ edits = 0 /\ edits \in 0..MaxEdits
  BY PhoneAssumption DEF PhoneInit
<1>2. /\ DOMAIN workspace = {"subs", "nodes", "groups", "rules"}
      /\ workspace.subs = <<>> /\ workspace.nodes = <<>> /\ workspace.groups = <<>>
  BY <1>1 DEF Empty
<1>3. WorkspaceTyped(workspace)
  BY <1>2 DEF WorkspaceTyped
<1>4. AllIds(workspace.subs) = {} /\ AllIds(workspace.nodes) = {}
  BY <1>2 DEF AllIds
<1>5. WorkspaceKept(workspace)
  BY <1>2, <1>4 DEF WorkspaceKept, Distinct
<1>6. Unused(workspace, (edits + 1)..MaxEdits)
  BY <1>2, <1>4 DEF Unused
<1> QED BY <1>1, <1>3, <1>5, <1>6 DEF PhoneInv, Fit

\* A group is saved or deleted.
LEMMA GroupFits ==
  ASSUME NEW n \in Nat, Fit(workspace, n), NEW g \in PhoneGroup, MembersAreMeant(workspace, g),
         ((n + 1)..MaxEdits) \cap g.meant = {}
  PROVE  Fit([workspace EXCEPT !.groups = Append(@, g)], n + 1)
<1> DEFINE groups == Append(workspace.groups, g)
           m == Len(workspace.groups)
           next == [workspace EXCEPT !.groups = groups]
<1>1. workspace.groups \in Seq(PhoneGroup)
  BY FitHas
<1>2. /\ groups \in Seq(PhoneGroup) /\ DOMAIN groups = 1..(m + 1) /\ m \in Nat
      /\ DOMAIN workspace.groups = 1..m
      /\ groups[m + 1] = g /\ \A k \in 1..m : groups[k] = workspace.groups[k]
  BY <1>1
<1>3. WorkspaceTyped(workspace)
  BY DEF Fit
<1> HIDE DEF groups, m
<1>4. HasLists(next, workspace.subs, workspace.nodes, groups)
  BY <1>3, HasItsOwnLists
<1> HIDE DEF next
<1>5. ASSUME NEW k \in DOMAIN groups
      PROVE  MembersAreMeant(workspace, groups[k]) /\ ((n + 1)..MaxEdits) \cap groups[k].meant = {}
  <2>1. k \in 1..m \/ k = m + 1
    BY <1>2
  <2>2. CASE k \in 1..m
    <3>1. k \in DOMAIN workspace.groups /\ groups[k] = workspace.groups[k]
      BY <1>2, <2>2
    <3> QED BY <3>1, FitHas
  <2>3. CASE k = m + 1
    BY <1>2, <2>3
  <2> QED BY <2>1, <2>2, <2>3
<1>6. Fit(next, n + 1)
  BY <1>2, <1>4, <1>5, GroupsChange
<1> QED BY <1>6 DEF next, groups

LEMMA FewerGroupsFit ==
  ASSUME NEW n \in Nat, Fit(workspace, n), NEW i \in DOMAIN workspace.groups
  PROVE  Fit([workspace EXCEPT !.groups = RemoveAt(@, i)], n + 1)
<1> DEFINE old == workspace.groups
           groups == RemoveAt(old, i)
           next == [workspace EXCEPT !.groups = groups]
<1>1. old \in Seq(PhoneGroup) /\ i \in 1..Len(old) /\ Len(old) \in Nat /\ DOMAIN old = 1..Len(old)
  BY FitHas, SMTT(30)
<1> HIDE DEF old
<1>2. /\ groups \in Seq(PhoneGroup) /\ Len(groups) = Len(old) - 1
      /\ \A k \in 1..(Len(old) - 1) : groups[k] = IF k < i THEN old[k] ELSE old[k + 1]
  BY <1>1, RemoveAtIs
<1>3. WorkspaceTyped(workspace)
  BY DEF Fit
<1> HIDE DEF groups
<1>4. HasLists(next, workspace.subs, workspace.nodes, groups)
  BY <1>3, HasItsOwnLists
<1> HIDE DEF next
<1>5. ASSUME NEW k \in DOMAIN groups
      PROVE  MembersAreMeant(workspace, groups[k]) /\ ((n + 1)..MaxEdits) \cap groups[k].meant = {}
  <2>1. k \in 1..(Len(old) - 1)
    BY <1>2
  <2>2. \E j \in DOMAIN old : groups[k] = old[j]
    <3>1. groups[k] = IF k < i THEN old[k] ELSE old[k + 1]
      BY <1>2, <2>1
    <3>2. k \in DOMAIN old /\ k + 1 \in DOMAIN old
      BY <1>1, <2>1
    <3> QED BY <3>1, <3>2
  <2>3. PICK j \in DOMAIN old : groups[k] = old[j]
    BY <2>2
  <2> QED BY <2>3, FitHas DEF old
<1>6. Fit(next, n + 1)
  BY <1>2, <1>4, <1>5, GroupsChange
<1> QED BY <1>6 DEF next, groups, old

\* The rules are edited.
LEMMA RuleEditsFit ==
  ASSUME PhoneInv, AddRule \/ EditRule \/ DeleteRule \/ SwitchRule \/ moveRule
  PROVE  PhoneInv'
<1>1. Fit(workspace, edits) /\ WorkspaceTyped(workspace) /\ edits \in Nat
  BY DEF PhoneInv, Fit
<1> DEFINE SameLists(w) == HasLists(w, workspace.subs, workspace.nodes, workspace.groups)
<1>2. \E w : Update(w) /\ SameLists(w)
  <2>1. \A x : SameLists([workspace EXCEPT !.rules = x])
    BY <1>1, HasItsOwnLists
  <2>2. \A i, x, y : SameLists([workspace EXCEPT !.rules[i].final = x, !.rules[i].policy = y])
    BY <1>1 DEF HasLists, WorkspaceTyped
  <2> HIDE DEF SameLists
  <2>3. CASE AddRule
    BY <2>1, <2>3 DEF AddRule
  <2>4. CASE EditRule
    BY <2>2, <2>4 DEF EditRule
  <2>5. CASE DeleteRule
    BY <2>1, <2>5 DEF DeleteRule
  <2>6. CASE SwitchRule
    BY <2>1, <2>6 DEF SwitchRule
  <2>7. CASE moveRule
    BY <2>1, <2>7 DEF moveRule
  <2> QED BY <2>3, <2>4, <2>5, <2>6, <2>7
<1>3. PICK w : Update(w) /\ SameLists(w)
  BY <1>2
<1>4. Fit(w, edits + 1)
  BY <1>1, <1>3, RulesChange
<1> QED BY <1>3, <1>4, UpdateFits

\* The group takes the nodes that are enabled, or those that are picked.
LEMMA AddGroupFits ==
  ASSUME PhoneInv, AddGroup
  PROVE  PhoneInv'
<1> DEFINE subs == IdsAt(workspace.subs, EnabledAt(workspace.subs))
           nodes == workspace.nodes
           Picked(names) == Filter([i \in DOMAIN nodes |-> i],
                              {i \in DOMAIN nodes : NameIn[nodes[i].what] \in names})
           SavesGroup(g) == Update([workspace EXCEPT !.groups = Append(@, g)])
<1>1. Fit(workspace, edits) /\ edits \in Nat /\ nodes \in Seq(PhoneSource)
  <2>1. Fit(workspace, edits) /\ edits \in Nat
    BY DEF PhoneInv
  <2> QED BY <2>1, FitHas
<1>2. PICK name \in GroupNames :
        \/ SavesGroup(Group(name, EnabledAt(nodes), "none", subs))
        \/ \E names \in SUBSET Range(NameIn), theirs \in BOOLEAN :
             SavesGroup(Group(name, Picked(names), IF theirs THEN "names" ELSE "none",
                         IF theirs THEN subs ELSE {}))
  <2> QED BY Zenon DEF AddGroup
<1>3. DOMAIN nodes \subseteq Nat
  BY <1>1
<1>4. EnabledAt(nodes) \in Seq(Nat) /\ Range(EnabledAt(nodes)) \subseteq DOMAIN nodes
  <2>1. EnabledAt(nodes) \in Seq(DOMAIN nodes) /\ Range(EnabledAt(nodes)) \subseteq DOMAIN nodes
    BY <1>1, EnabledIs
  <2> QED BY <1>3, <2>1
<1>5. ASSUME NEW names
      PROVE  Picked(names) \in Seq(Nat) /\ Range(Picked(names)) \subseteq DOMAIN nodes
  <2> DEFINE S == {i \in DOMAIN nodes : NameIn[nodes[i].what] \in names}
  <2>1. Picked(names) = Filter(Places(nodes), S)
    BY DEF Places
  <2>2. Places(nodes) \in Seq(DOMAIN nodes) /\ Range(Places(nodes)) = DOMAIN nodes
    BY <1>1, PlacesAre
  <2> HIDE DEF S, nodes
  <2>3. /\ Filter(Places(nodes), S) \in Seq(DOMAIN nodes)
        /\ Range(Filter(Places(nodes), S)) \subseteq DOMAIN nodes
    BY <2>2, FilterRange
  <2>4. Filter(Places(nodes), S) \in Seq(Nat)
    BY <1>3, <2>3
  <2> HIDE DEF Picked
  <2> QED BY <2>1, <2>3, <2>4
<1> HIDE DEF SavesGroup, Picked, subs
<1>6. PICK members, filter, meant :
        /\ SavesGroup(Group(name, members, filter, meant))
        /\ members \in Seq(Nat) /\ Range(members) \subseteq DOMAIN nodes
        /\ filter \in {"none", "names"}
        /\ meant = subs \/ (meant = {} /\ filter = "none")
  <2>1. CASE SavesGroup(Group(name, EnabledAt(nodes), "none", subs))
    BY <1>4, <2>1
  <2>2. CASE \E names \in SUBSET Range(NameIn), theirs \in BOOLEAN :
               SavesGroup(Group(name, Picked(names), IF theirs THEN "names" ELSE "none",
                           IF theirs THEN subs ELSE {}))
    BY <1>5, <2>2
  <2> QED BY <1>2, <2>1, <2>2
<1> DEFINE g == Group(name, members, filter, meant)
<1>7. /\ g \in PhoneGroup /\ MembersAreMeant(workspace, g)
      /\ ((edits + 1)..MaxEdits) \cap g.meant = {}
  BY <1>1, <1>6, GroupIsMeant DEF subs
<1>8. SavesGroup(g)
  BY <1>6
<1> HIDE DEF g
<1>9. Fit([workspace EXCEPT !.groups = Append(@, g)], edits + 1)
  BY <1>1, <1>7, GroupFits
<1> QED BY <1>8, <1>9, UpdateFits DEF SavesGroup

\* An imported workspace was copied from the application.
LEMMA ImportFits ==
  ASSUME PhoneInv, importWorkspace
  PROVE  PhoneInv'
<1>1. PICK w \in Backups : Update(w)
  BY DEF importWorkspace
<1>2. WorkspaceTyped(w) /\ WorkspaceKept(w) /\ Unused(w, 1..MaxEdits)
  BY PhoneAssumption
<1>3. ((edits + 1) + 1)..MaxEdits \subseteq 1..MaxEdits
  BY PhoneAssumption DEF PhoneInv
<1> DEFINE later == ((edits + 1) + 1)..MaxEdits
<1> HIDE DEF later
<1>4. Unused(w, later)
  BY <1>2, <1>3 DEF Unused, later
<1>5. Fit(w, edits + 1)
  BY <1>2, <1>4 DEF Fit, later
<1> QED BY <1>1, <1>5, UpdateFits

LEMMA PhoneStep ==
  ASSUME PhoneInv, [PhoneNext]_phoneVars
  PROVE  PhoneInv'
<1>1. Fit(workspace, edits) /\ edits \in 0..MaxEdits /\ edits \in Nat
  BY DEF PhoneInv
<1>2. CASE UNCHANGED phoneVars
  BY <1>2 DEF phoneVars, PhoneInv, Fit, WorkspaceTyped, WorkspaceKept, Unused
<1>3. CASE AddSubscription
  BY <1>1, <1>3, SubscriptionFits, UpdateFits DEF AddSubscription
<1>4. CASE AddNode
  BY <1>1, <1>4, NodeFits, UpdateFits DEF AddNode
<1>5. CASE ToggleSubscription
  BY <1>1, <1>5, SwitchedSubscriptionFits, UpdateFits DEF ToggleSubscription
<1>6. CASE ToggleNode
  BY <1>1, <1>6, SwitchedNodeFits, UpdateFits DEF ToggleNode
<1>7. CASE removeSubscription
  BY <1>1, <1>7, RemovedSubscriptionFits, UpdateFits DEF removeSubscription
<1>8. CASE removeNode
  BY <1>1, <1>8, RemovedNodeFits, UpdateFits DEF removeNode
<1>9. CASE DeleteGroup
  BY <1>1, <1>9, FewerGroupsFit, UpdateFits DEF DeleteGroup
<1> QED BY <1>2, <1>3, <1>4, <1>5, <1>6, <1>7, <1>8, <1>9, AddGroupFits, RuleEditsFit,
           ImportFits DEF PhoneNext

\* Identities stay distinct, and the positions of a group are those of the sources it was
\* saved with that are still on the lists, through every edit and import of the workspace.
THEOREM PhoneInvariant == PhoneSpec => []PhoneInv
<1>1. PhoneInit => PhoneInv
  BY EmptyFits
<1>2. PhoneInv /\ [PhoneNext]_phoneVars => PhoneInv'
  BY PhoneStep
<1> QED BY <1>1, <1>2, PTL DEF PhoneSpec

\* A group is compiled with the enabled sources that were put on it (withoutSubscription,
\* withoutNode, compile_groups), for any lists, groups and number of edits.
THEOREM GroupsAreKept == PhoneSpec => []GroupsKeepMembers
<1>1. PhoneInv => GroupsKeepMembers
  BY KeptCompiles DEF PhoneInv, Fit
<1> QED BY <1>1, PhoneInvariant, PTL

=============================================================================
