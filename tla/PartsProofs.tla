----------------------------- MODULE PartsProofs -----------------------------
(***************************************************************************)
(* The small parts, for any places, people, entries and bounds: two        *)
(* choices of the dinner picker have one id, and a draw finds none, only   *)
(* after a removal; a post stays where it was made while the tabs are up,  *)
(* whatever sessions arrive under them; a database iterator is where its   *)
(* snapshot says after any calls, turns and writes between them.           *)
(***************************************************************************)
EXTENDS Memories, DinnerPicker, MergedIterator, FiniteSetTheorems, WellFoundedInduction, TLAPS

-----------------------------------------------------------------------------
(* Numbers, and functions recursive over numbers. *)

\* What fails for some number fails for a smallest one.
LEMMA SmallestNumber ==
    ASSUME NEW S, S \subseteq Nat, S # {}
    PROVE  \E n \in S : \A m \in S : n <= m
<1>1. PICK n \in S : \A m \in S : ~(<<m, n>> \in OpToRel(<, Nat))
    BY NatLessThanWellFounded, WFMin
<1>2. \A m \in S : ~(m < n)
    BY <1>1 DEF OpToRel
<1> QED BY <1>2

\* A set that is closed under the next number has all of them.
LEMMA UpTo ==
    ASSUME NEW N \in Nat, NEW P, 0 \in P, \A n \in 1 .. N : n - 1 \in P => n \in P
    PROVE  N \in P /\ \A n \in 0 .. N : n \in P
<1>0. N \in 0 .. N
    OBVIOUS
<1> DEFINE Wrong == {n \in 0 .. N : n \notin P}
<1>1. SUFFICES ASSUME Wrong # {} PROVE FALSE
    BY <1>0
<1>2. PICK k \in Wrong : \A m \in Wrong : k <= m
    <2>1. Wrong \subseteq Nat
        OBVIOUS
    <2> HIDE DEF Wrong
    <2> QED BY <2>1, <1>1, SmallestNumber
<1>3. k \in 1 .. N
    BY <1>2
<1>4. k - 1 \in 0 .. N /\ ~(k <= k - 1)
    BY <1>3
<1>5. k - 1 \in P
    BY <1>2, <1>4
<1> QED BY <1>2, <1>3, <1>5

\* f is step, repeated from x on.
Repeats(step, x, N, f) ==
    /\ DOMAIN f = 0 .. N
    /\ f[0] = x
    /\ \A n \in 1 .. N : f[n] = step[<<n, f[n - 1]>>]

LEMMA RepeatsExist ==
    ASSUME NEW S, NEW x \in S, NEW N \in Nat, NEW step \in [(1 .. N) \X S -> S]
    PROVE  \E f \in [0 .. N -> S] : Repeats(step, x, N, f)
<1> DEFINE P == {n \in 0 .. N : \E f \in [0 .. n -> S] : Repeats(step, x, n, f)}
<1>1. 0 \in P
    <2> DEFINE f == [n \in 0 .. 0 |-> x]
    <2>1. f \in [0 .. 0 -> S] /\ Repeats(step, x, 0, f)
        BY DEF Repeats
    <2> HIDE DEF f
    <2> QED BY <2>1
<1>2. ASSUME NEW n \in 1 .. N, n - 1 \in P
      PROVE  n \in P
    <2>1. PICK f \in [0 .. n - 1 -> S] : Repeats(step, x, n - 1, f)
        BY <1>2
    <2> DEFINE g == [m \in 0 .. n |-> IF m = n THEN step[<<n, f[n - 1]>>] ELSE f[m]]
    <2>2. f[n - 1] \in S /\ step[<<n, f[n - 1]>>] \in S
        BY <2>1
    <2>3. g \in [0 .. n -> S]
        BY <2>1, <2>2
    <2>4. /\ g[0] = x
          /\ \A m \in 0 .. n - 1 : g[m] = f[m]
          /\ g[n] = step[<<n, f[n - 1]>>]
        BY <2>1 DEF Repeats
    <2>5. \A m \in 1 .. n : g[m] = step[<<m, g[m - 1]>>]
        <3> SUFFICES ASSUME NEW m \in 1 .. n PROVE g[m] = step[<<m, g[m - 1]>>]
            OBVIOUS
        <3>1. m - 1 \in 0 .. n - 1
            OBVIOUS
        <3>2. CASE m = n
            BY <2>4, <3>1, <3>2
        <3>3. CASE m # n
            <4>1. m \in 1 .. n - 1 /\ m \in 0 .. n - 1
                BY <3>3
            <4> QED BY <4>1, <3>1, <2>1, <2>4 DEF Repeats
        <3> QED BY <3>2, <3>3
    <2> HIDE DEF g
    <2>6. Repeats(step, x, n, g)
        BY <2>3, <2>4, <2>5 DEF Repeats
    <2> QED BY <2>3, <2>6
<1> HIDE DEF P
<1>3. N \in P
    BY <1>1, <1>2, UpTo
<1> QED BY <1>3 DEF P

-----------------------------------------------------------------------------
(* Selections. *)

\* f holds the selections from the first n elements.
Selects(s, chosen, f) ==
    f = [n \in 0 .. Len(s) |->
            IF n = 0 THEN <<>>
            ELSE IF s[n] \in chosen THEN Append(f[n - 1], s[n])
            ELSE f[n - 1]]

LEMMA SelectsStep ==
    ASSUME NEW S, NEW s \in Seq(S), NEW chosen, NEW f, Selects(s, chosen, f)
    PROVE  /\ f[0] = <<>>
           /\ \A n \in 1 .. Len(s) :
                f[n] = IF s[n] \in chosen THEN Append(f[n - 1], s[n]) ELSE f[n - 1]
<1> DEFINE N == Len(s)
<1>1. N \in Nat
    OBVIOUS
<1>2. f = [n \in 0 .. N |-> IF n = 0 THEN <<>>
                            ELSE IF s[n] \in chosen THEN Append(f[n - 1], s[n])
                            ELSE f[n - 1]]
    BY DEF Selects
<1> HIDE DEF N
<1>3. f[0] = <<>>
    BY <1>1, <1>2
<1>4. ASSUME NEW n \in 1 .. N
      PROVE  f[n] = IF s[n] \in chosen THEN Append(f[n - 1], s[n]) ELSE f[n - 1]
    <2>1. n \in 0 .. N /\ n # 0
        BY <1>1
    <2> QED BY <1>2, <2>1
<1> QED BY <1>3, <1>4 DEF N

LEMMA SelectionIs ==
    ASSUME NEW S, NEW s \in Seq(S), NEW chosen
    PROVE  \E f \in [0 .. Len(s) -> Seq(S)] : Selects(s, chosen, f) /\ Selection(s, chosen) = f[Len(s)]
<1> DEFINE N == Len(s)
           step == [p \in (1 .. N) \X Seq(S) |->
                        IF s[p[1]] \in chosen THEN Append(p[2], s[p[1]]) ELSE p[2]]
           picked[n \in 0 .. N] ==
               IF n = 0 THEN <<>>
               ELSE IF s[n] \in chosen THEN Append(picked[n - 1], s[n])
               ELSE picked[n - 1]
<1>1. N \in Nat /\ <<>> \in Seq(S) /\ \A n \in 1 .. N : s[n] \in S
    OBVIOUS
<1>2. step \in [(1 .. N) \X Seq(S) -> Seq(S)]
    BY <1>1
<1>3. \A n \in 1 .. N, t \in Seq(S) :
          step[<<n, t>>] = IF s[n] \in chosen THEN Append(t, s[n]) ELSE t
    OBVIOUS
<1> HIDE DEF step
<1>4. PICK f \in [0 .. N -> Seq(S)] : Repeats(step, <<>>, N, f)
    BY <1>1, <1>2, RepeatsExist
<1>5. Selects(s, chosen, f)
    <2>1. \A n \in 0 .. N : f[n] = IF n = 0 THEN <<>>
                                   ELSE IF s[n] \in chosen THEN Append(f[n - 1], s[n])
                                   ELSE f[n - 1]
        <3> SUFFICES ASSUME NEW n \in 0 .. N, n # 0
                     PROVE  f[n] = IF s[n] \in chosen THEN Append(f[n - 1], s[n]) ELSE f[n - 1]
            BY <1>4 DEF Repeats
        <3>1. n \in 1 .. N /\ f[n - 1] \in Seq(S)
            BY <1>4
        <3> QED BY <3>1, <1>3, <1>4 DEF Repeats
    <2> QED BY <1>4, <2>1 DEF Selects
<1>6. Selects(s, chosen, picked)
    BY <1>5 DEF Selects
<1>7. Selection(s, chosen) = picked[N]
    BY DEF Selection
<1> HIDE DEF picked
<1>8. \A n \in 0 .. N : picked[n] = f[n]
    <2> DEFINE P == {n \in 0 .. N : picked[n] = f[n]}
    <2>0. /\ f[0] = <<>> /\ picked[0] = <<>>
          /\ \A n \in 1 .. N :
                /\ f[n] = IF s[n] \in chosen THEN Append(f[n - 1], s[n]) ELSE f[n - 1]
                /\ picked[n] = IF s[n] \in chosen THEN Append(picked[n - 1], s[n]) ELSE picked[n - 1]
        BY <1>5, <1>6, SelectsStep
    <2>1. 0 \in P
        BY <1>1, <2>0
    <2>2. ASSUME NEW n \in 1 .. N, n - 1 \in P PROVE n \in P
        BY <1>1, <2>0, <2>2
    <2> HIDE DEF P
    <2>3. \A n \in 0 .. N : n \in P
        BY <1>1, <2>1, <2>2, UpTo
    <2> QED BY <2>3 DEF P
<1> QED BY <1>1, <1>5, <1>7, <1>8

LEMMA SelectionOfNone ==
    ASSUME NEW chosen
    PROVE  Selection(<<>>, chosen) = <<>>
<1> DEFINE s == <<>>
<1>1. s \in Seq({}) /\ Len(s) = 0
    OBVIOUS
<1> HIDE DEF s
<1>2. PICK f : Selects(s, chosen, f) /\ Selection(s, chosen) = f[Len(s)]
    BY <1>1, SelectionIs
<1>3. Selection(s, chosen) = <<>>
    BY <1>1, <1>2 DEF Selects
<1> QED BY <1>3 DEF s

\* Two sequences that begin alike have the same selections from what is alike.
LEMMA SelectsAgree ==
    ASSUME NEW S, NEW s \in Seq(S), NEW t \in Seq(S), NEW chosen, NEW other,
           NEW f, NEW g, Selects(s, chosen, f), Selects(t, other, g),
           NEW N \in Nat, N <= Len(s), N <= Len(t),
           \A n \in 1 .. N : s[n] = t[n] /\ (s[n] \in chosen <=> t[n] \in other)
    PROVE  f[N] = g[N]
<1> DEFINE P == {n \in 0 .. N : f[n] = g[n]}
<1>0. Len(s) \in Nat /\ Len(t) \in Nat
    OBVIOUS
<1>1. 0 \in P
    BY SelectsStep
<1>2. ASSUME NEW n \in 1 .. N, n - 1 \in P PROVE n \in P
    <2>1. n \in 1 .. Len(s) /\ n \in 1 .. Len(t)
        BY <1>0
    <2>2. f[n] = IF s[n] \in chosen THEN Append(f[n - 1], s[n]) ELSE f[n - 1]
        BY <2>1, SelectsStep
    <2>3. g[n] = IF t[n] \in other THEN Append(g[n - 1], t[n]) ELSE g[n - 1]
        BY <2>1, SelectsStep
    <2> QED BY <1>2, <2>2, <2>3
<1> HIDE DEF P
<1>3. N \in P
    BY <1>1, <1>2, UpTo
<1> QED BY <1>3 DEF P

LEMMA SelectionOfAppend ==
    ASSUME NEW S, NEW s \in Seq(S), NEW x \in S, NEW chosen
    PROVE  Selection(Append(s, x), chosen) =
               IF x \in chosen THEN Append(Selection(s, chosen), x) ELSE Selection(s, chosen)
<1> DEFINE t == Append(s, x)
           N == Len(s)
<1>1. /\ t \in Seq(S) /\ N \in Nat /\ Len(t) = N + 1 /\ t[N + 1] = x
      /\ \A n \in 1 .. N : t[n] = s[n]
    OBVIOUS
<1> HIDE DEF t
<1>2. PICK f : Selects(s, chosen, f) /\ Selection(s, chosen) = f[N]
    BY SelectionIs
<1>3. PICK g : Selects(t, chosen, g) /\ Selection(t, chosen) = g[N + 1]
    BY <1>1, SelectionIs
<1>4. g[N] = f[N]
    BY <1>1, <1>2, <1>3, SelectsAgree
<1>5. g[N + 1] = IF x \in chosen THEN Append(g[N], x) ELSE g[N]
    <2>1. N + 1 \in 1 .. Len(t) /\ (N + 1) - 1 = N
        BY <1>1
    <2>2. g[N + 1] = IF t[N + 1] \in chosen THEN Append(g[N + 1 - 1], t[N + 1]) ELSE g[N + 1 - 1]
        BY <1>1, <1>3, <2>1, SelectsStep
    <2> QED BY <1>1, <2>1, <2>2
<1> QED BY <1>2, <1>3, <1>4, <1>5 DEF t

LEMMA SelectionOfOne ==
    ASSUME NEW S, NEW x \in S, NEW chosen
    PROVE  Selection(<<x>>, chosen) = IF x \in chosen THEN <<x>> ELSE <<>>
<1> DEFINE none == <<>>
<1>1. none \in Seq(S) /\ <<x>> = Append(none, x)
    OBVIOUS
<1>2. Selection(none, chosen) = none
    BY SelectionOfNone
<1> HIDE DEF none
<1>3. Selection(Append(none, x), chosen) = IF x \in chosen THEN Append(none, x) ELSE none
    BY <1>1, <1>2, SelectionOfAppend, ZenonT(30)
<1> QED BY <1>1, <1>3 DEF none

\* Only what is in the sequence matters.
LEMMA SelectionSame ==
    ASSUME NEW S, NEW s \in Seq(S), NEW chosen, NEW other,
           \A n \in 1 .. Len(s) : s[n] \in chosen <=> s[n] \in other
    PROVE  Selection(s, chosen) = Selection(s, other)
<1>1. PICK f : Selects(s, chosen, f) /\ Selection(s, chosen) = f[Len(s)]
    BY SelectionIs
<1>2. PICK g : Selects(s, other, g) /\ Selection(s, other) = g[Len(s)]
    BY SelectionIs
<1>3. Len(s) \in Nat /\ Len(s) <= Len(s)
    OBVIOUS
<1>4. f[Len(s)] = g[Len(s)]
    BY <1>1, <1>2, <1>3, SelectsAgree
<1> QED BY <1>1, <1>2, <1>4

LEMMA SelectionEmpty ==
    ASSUME NEW S, NEW s \in Seq(S), NEW chosen, \A n \in 1 .. Len(s) : s[n] \notin chosen
    PROVE  Selection(s, chosen) = <<>>
<1> DEFINE N == Len(s)
<1>1. PICK f : Selects(s, chosen, f) /\ Selection(s, chosen) = f[N]
    BY SelectionIs
<1> DEFINE P == {n \in 0 .. N : f[n] = <<>>}
<1>2. N \in Nat
    OBVIOUS
<1>3. 0 \in P
    BY <1>1, <1>2, SelectsStep
<1>4. ASSUME NEW n \in 1 .. N, n - 1 \in P PROVE n \in P
    <2>1. f[n] = f[n - 1]
        BY <1>1, SelectsStep
    <2> QED BY <1>4, <2>1
<1> HIDE DEF P, N
<1>5. N \in P
    BY <1>2, <1>3, <1>4, UpTo
<1> QED BY <1>1, <1>5 DEF P

\* A selection keeps the order: each of its elements comes from a place, later
\* ones from later places.
Comes(from, picked, s, chosen, n) ==
    /\ from \in [1 .. Len(picked) -> 1 .. n]
    /\ \A i, j \in 1 .. Len(picked) : i < j => from[i] < from[j]
    /\ \A i \in 1 .. Len(picked) : picked[i] = s[from[i]] /\ picked[i] \in chosen

LEMMA SelectionComes ==
    ASSUME NEW S, NEW s \in Seq(S), NEW chosen
    PROVE  /\ Selection(s, chosen) \in Seq(S)
           /\ \E from : Comes(from, Selection(s, chosen), s, chosen, Len(s))
<1> DEFINE N == Len(s)
<1>1. PICK f \in [0 .. N -> Seq(S)] : Selects(s, chosen, f) /\ Selection(s, chosen) = f[N]
    BY SelectionIs
<1> DEFINE P == {n \in 0 .. N : \E from : Comes(from, f[n], s, chosen, n)}
<1>2. N \in Nat
    OBVIOUS
<1>3. 0 \in P
    <2>1. f[0] = <<>>
        BY <1>1, <1>2, SelectsStep
    <2> DEFINE from == [i \in 1 .. 0 |-> i]
    <2>2. Comes(from, <<>>, s, chosen, 0)
        BY DEF Comes
    <2> HIDE DEF from
    <2> QED BY <1>2, <2>1, <2>2
<1>4. ASSUME NEW n \in 1 .. N, n - 1 \in P PROVE n \in P
    <2>1. PICK from : Comes(from, f[n - 1], s, chosen, n - 1)
        BY <1>4
    <2>2. f[n] = IF s[n] \in chosen THEN Append(f[n - 1], s[n]) ELSE f[n - 1]
        BY <1>1, <1>2, SelectsStep
    <2>3. f[n - 1] \in Seq(S)
        BY <1>1
    <2>4. CASE s[n] \in chosen
        <3> DEFINE k == Len(f[n - 1])
                   q == Append(f[n - 1], s[n])
                   more == [i \in 1 .. k + 1 |-> IF i = k + 1 THEN n ELSE from[i]]
        <3>1. /\ k \in Nat /\ Len(q) = k + 1 /\ q[k + 1] = s[n]
              /\ \A i \in 1 .. k : q[i] = f[n - 1][i]
            BY <2>3
        <3>2. /\ \A i \in 1 .. k : from[i] \in 1 .. n - 1
              /\ \A i, j \in 1 .. k : i < j => from[i] < from[j]
              /\ \A i \in 1 .. k : f[n - 1][i] = s[from[i]] /\ f[n - 1][i] \in chosen
            BY <2>1 DEF Comes
        <3>3. more[k + 1] = n /\ \A i \in 1 .. k : more[i] = from[i]
            BY <3>1
        <3>4. more \in [1 .. k + 1 -> 1 .. n]
            BY <3>1, <3>2
        <3> HIDE DEF more, q, k
        <3>5. \A i \in 1 .. k + 1 : i \in 1 .. k \/ i = k + 1
            BY <3>1
        <3>6. \A i, j \in 1 .. k + 1 : i < j => more[i] < more[j]
            <4> SUFFICES ASSUME NEW i \in 1 .. k + 1, NEW j \in 1 .. k + 1, i < j
                         PROVE  more[i] < more[j]
                OBVIOUS
            <4>1. i \in 1 .. k
                BY <3>1
            <4> QED BY <4>1, <3>2, <3>3, <3>5
        <3>7. \A i \in 1 .. k + 1 : q[i] = s[more[i]] /\ q[i] \in chosen
            BY <2>4, <3>1, <3>2, <3>3, <3>5
        <3>8. Comes(more, q, s, chosen, n)
            BY <3>1, <3>4, <3>6, <3>7 DEF Comes
        <3>9. f[n] = q
            BY <2>2, <2>4 DEF q
        <3> QED BY <3>8, <3>9
    <2>5. CASE s[n] \notin chosen
        <3>1. \A i \in 1 .. n - 1 : i \in 1 .. n
            OBVIOUS
        <3>2. Comes(from, f[n - 1], s, chosen, n)
            BY <2>1, <3>1 DEF Comes
        <3> QED BY <2>2, <2>5, <3>2
    <2> QED BY <2>4, <2>5
<1> HIDE DEF P, N
<1>5. N \in P
    BY <1>2, <1>3, <1>4, UpTo
<1> QED BY <1>1, <1>2, <1>5 DEF P, N

-----------------------------------------------------------------------------
(* DinnerPicker.  A choice has a smaller number than the list is long, or a *)
(* removal came after it.                                                  *)

DinnerChoice == [id : Nat, name : Places, era : Nat]

DinnerInv ==
    /\ choices \in Seq(DinnerChoice)
    /\ removals \in Nat
    /\ \A i \in DOMAIN choices :
          /\ choices[i].era <= removals
          /\ choices[i].id < Len(choices) \/ choices[i].era < removals
    /\ removals = 0 => choices # <<>>
    /\ OnlyRemovalsConfuse

LEMMA AddRestaurantKeeps ==
    ASSUME DinnerInv, NEW name \in Places, AddRestaurant(name)
    PROVE  DinnerInv'
<1> DEFINE n == Len(choices)
           new == Choice(n, name)
<1>1. choices \in Seq(DinnerChoice) /\ n \in Nat /\ DOMAIN choices = 1 .. n
    BY DEF DinnerInv
<1>2. /\ new \in DinnerChoice /\ new.id = n /\ new.era = removals
      /\ choices' = Append(choices, new) /\ UNCHANGED <<dinner, trapped, removals>>
    BY <1>1 DEF DinnerInv, AddRestaurant, Choice, DinnerChoice
<1> HIDE DEF new
<1>3. /\ choices' \in Seq(DinnerChoice) /\ Len(choices') = n + 1 /\ DOMAIN choices' = 1 .. n + 1
      /\ choices'[n + 1] = new /\ \A i \in 1 .. n : choices'[i] = choices[i]
    BY <1>1, <1>2
<1>4. \A i \in 1 .. n : /\ choices[i].era \in Nat /\ choices[i].id \in Nat
                        /\ choices[i].era <= removals
                        /\ choices[i].id < n \/ choices[i].era < removals
    <2>1. \A i \in 1 .. n : choices[i] \in DinnerChoice
        BY <1>1
    <2> QED BY <1>1, <2>1 DEF DinnerInv, DinnerChoice
<1>5. \A i \in 1 .. n + 1 : i \in 1 .. n \/ i = n + 1
    BY <1>1
<1>6. removals \in Nat
    BY DEF DinnerInv
<1> HIDE DEF n
<1>7. \A i \in DOMAIN choices' :
          /\ choices'[i].era <= removals'
          /\ choices'[i].id < Len(choices') \/ choices'[i].era < removals'
    BY <1>1, <1>2, <1>3, <1>4, <1>5, <1>6
<1>8. OnlyRemovalsConfuse'
    <2>1. ASSUME NEW i \in DOMAIN choices', NEW j \in DOMAIN choices',
                 i < j, choices'[i].id = choices'[j].id
          PROVE  choices'[i].era < choices'[j].era
        <3>1. i \in 1 .. n /\ (j \in 1 .. n \/ j = n + 1)
            BY <1>1, <1>3, <2>1
        <3>2. CASE j \in 1 .. n
            BY <1>1, <1>3, <2>1, <3>1, <3>2 DEF DinnerInv, OnlyRemovalsConfuse
        <3>3. CASE j = n + 1
            BY <1>1, <1>2, <1>3, <1>4, <2>1, <3>1, <3>3
        <3> QED BY <3>1, <3>2, <3>3
    <2>2. trapped' => removals' > 0
        BY <1>2 DEF DinnerInv, OnlyRemovalsConfuse
    <2> QED BY <2>1, <2>2 DEF OnlyRemovalsConfuse
<1>9. choices' # <<>>
    BY <1>1, <1>3
<1> QED BY <1>2, <1>3, <1>6, <1>7, <1>8, <1>9 DEF DinnerInv

LEMMA TapChoiceKeeps ==
    ASSUME DinnerInv, NEW name \in Places, TapChoice(name)
    PROVE  DinnerInv'
<1> DEFINE others == {choices[i] : i \in {i \in DOMAIN choices : choices[i].name # name}}
           left == Selection(choices, others)
<1>1. /\ choices' = left
      /\ removals' = IF left = choices THEN removals ELSE removals + 1
      /\ UNCHANGED <<dinner, trapped>>
    BY DEF TapChoice
<1> HIDE DEF others
<1>2. choices \in Seq(DinnerChoice) /\ removals \in Nat
    BY DEF DinnerInv
<1>3. PICK from : Comes(from, left, choices, others, Len(choices))
    BY <1>2, SelectionComes
<1>4. left \in Seq(DinnerChoice)
    BY <1>2, SelectionComes
<1> HIDE DEF left
<1>5. CASE left = choices
    <2>1. UNCHANGED dinnerVars
        BY <1>1, <1>5 DEF dinnerVars
    <2> QED BY <2>1 DEF DinnerInv, OnlyRemovalsConfuse, dinnerVars
<1>6. CASE left # choices
    <2>1. removals' = removals + 1 /\ removals' \in Nat /\ removals' > 0
        BY <1>1, <1>2, <1>6
    <2>2. DOMAIN left = 1 .. Len(left) /\ DOMAIN choices = 1 .. Len(choices)
        BY <1>2, <1>4
    <2>3. /\ \A i \in DOMAIN left : from[i] \in DOMAIN choices /\ left[i] = choices[from[i]]
          /\ \A i, j \in DOMAIN left : i < j => from[i] < from[j]
        BY <1>3, <2>2 DEF Comes
    <2>4. \A i \in DOMAIN left : left[i].era \in Nat /\ left[i].era <= removals
        <3>1. \A i \in DOMAIN left : left[i] \in DinnerChoice
            BY <1>4
        <3> QED BY <2>3, <3>1 DEF DinnerInv, DinnerChoice
    <2>5. \A i \in DOMAIN left : left[i].era < removals'
        BY <1>2, <2>1, <2>4
    <2>6. ASSUME NEW i \in DOMAIN left, NEW j \in DOMAIN left, i < j, left[i].id = left[j].id
          PROVE  left[i].era < left[j].era
        BY <2>3, <2>6 DEF DinnerInv, OnlyRemovalsConfuse
    <2>7. OnlyRemovalsConfuse'
        BY <1>1, <2>1, <2>6 DEF OnlyRemovalsConfuse
    <2> QED BY <1>1, <1>2, <1>4, <2>1, <2>4, <2>5, <2>7 DEF DinnerInv
<1> QED BY <1>5, <1>6

LEMMA DinnerInvStarts == DinnerInit => DinnerInv
<1> SUFFICES ASSUME DinnerInit PROVE DinnerInv
    OBVIOUS
<1> DEFINE one == Choice(0, Manpuku)
           two == Choice(1, Me)
<1>1. /\ one \in DinnerChoice /\ one.id = 0 /\ one.era = 0
      /\ two \in DinnerChoice /\ two.id = 1 /\ two.era = 0
    BY DinnerAssumption DEF DinnerInit, Choice, DinnerChoice
<1>2. choices = <<one, two>> /\ removals = 0 /\ trapped = FALSE
    BY DEF DinnerInit
<1> HIDE DEF one, two
<1>3. /\ choices \in Seq(DinnerChoice) /\ Len(choices) = 2 /\ DOMAIN choices = {1, 2}
      /\ choices[1] = one /\ choices[2] = two /\ choices # <<>>
    BY <1>1, <1>2
<1> QED BY <1>1, <1>2, <1>3 DEF DinnerInv, OnlyRemovalsConfuse

LEMMA DinnerKeeps == DinnerInv /\ [DinnerNext]_dinnerVars => DinnerInv'
<1> SUFFICES ASSUME DinnerInv, [DinnerNext]_dinnerVars PROVE DinnerInv'
    OBVIOUS
<1>1. CASE UNCHANGED dinnerVars
    BY <1>1 DEF DinnerInv, OnlyRemovalsConfuse, dinnerVars
<1>2. CASE GenerateDinner
    <2>1. UNCHANGED <<choices, removals>> /\ (trapped' => trapped \/ choices = <<>>)
        BY <1>2 DEF GenerateDinner
    <2>2. OnlyRemovalsConfuse'
        BY <2>1 DEF DinnerInv, OnlyRemovalsConfuse
    <2> QED BY <2>1, <2>2 DEF DinnerInv
<1> QED BY <1>1, <1>2, AddRestaurantKeeps, TapChoiceKeeps DEF DinnerNext

(* SAFETY: two choices of FoodView have one id only if a tap removed       *)
(* something between them, and a draw finds nothing only after a removal,  *)
(* for any places and any bounds (addRestaurant's choices.count,           *)
(* removeAll(where:), randomElement()!).                                   *)
THEOREM RemovalsConfuse == DinnerSpec => []OnlyRemovalsConfuse
<1>1. DinnerInv => OnlyRemovalsConfuse
    BY DEF DinnerInv
<1> QED BY <1>1, DinnerInvStarts, DinnerKeeps, PTL DEF DinnerSpec

-----------------------------------------------------------------------------
(* Memories.  New posts are made only while the tabs are up, and a tab that *)
(* shows the placeholder has blocks to show, so that the one welcome that   *)
(* could meet new posts is given before there are any.                      *)

Block == [by : People, with : Names, id : 0 .. MaxPosts]

MemoriesTyped ==
    /\ viewer \in People \cup {NoUser}
    /\ blocks \in [Names -> Seq(Block)]
    /\ lastConversation \in Names
    /\ observed \subseteq People
    /\ posts \in Seq(Block)
    /\ before \in 0 .. Len(posts)
    /\ tab \in {"unopened", "shown", "editing", "trapped"}

MemoriesInv ==
    /\ MemoriesTyped
    /\ \A i \in DOMAIN posts : posts[i].id <= Len(posts)
    /\ \A name \in Names : \A i \in DOMAIN blocks[name] : blocks[name][i].id <= Len(posts)
    /\ tab = "unopened" => before = Len(posts) /\ lastConversation = Loading
    /\ tab \in {"shown", "editing"} /\ (viewer = NoUser \/ lastConversation = Loading) =>
          blocks[Loading] # <<>>
    /\ PostsKept

\* Nothing is new when the tabs come up.
LEMMA NothingNew ==
    ASSUME MemoriesTyped, NEW names,
           NEW s \in Seq(Block), \A i \in DOMAIN s : s[i].id <= before
    PROVE  Selection(s, New(names)) = <<>>
<1>1. \A i \in 1 .. Len(s) : s[i] \notin New(names)
    <2> SUFFICES ASSUME NEW i \in 1 .. Len(s), s[i] \in New(names) PROVE FALSE
        OBVIOUS
    <2>1. s[i].id \in before + 1 .. MaxPosts /\ s[i].id <= before
        BY DEF New
    <2>2. before \in Nat
        BY DEF MemoriesTyped
    <2> QED BY <2>1, <2>2, MemoriesAssumption
<1> QED BY <1>1, SelectionEmpty

\* A welcome where there is nothing new.
LEMMA WelcomeKeeps ==
    ASSUME MemoriesInv, NEW name \in Names, viewer # NoUser,
           blocks[name] = <<>> \/ before = Len(posts),
           blocks' = Welcomed(name), UNCHANGED <<posts, before>>
    PROVE  /\ blocks' \in [Names -> Seq(Block)]
           /\ \A other \in Names : \A i \in DOMAIN blocks'[other] : blocks'[other][i].id <= Len(posts)
           /\ \A other \in Names : blocks[other] # <<>> => blocks'[other] # <<>>
           /\ blocks'[name] # <<>>
           /\ PostsKept'
<1> DEFINE welcome == Welcome(viewer, name)
           list == <<welcome>>
<1>1. welcome \in Block /\ welcome.id = 0
    BY MemoriesAssumption DEF MemoriesInv, MemoriesTyped, Welcome, Block
<1>2. /\ blocks' = [blocks EXCEPT ![name] = list]
      /\ blocks \in [Names -> Seq(Block)] /\ posts \in Seq(Block) /\ before \in Nat
    BY DEF Welcomed, MemoriesInv, MemoriesTyped
<1> HIDE DEF welcome
<1>3. list \in Seq(Block) /\ DOMAIN list = {1} /\ list[1] = welcome /\ list # <<>>
    BY <1>1
<1> HIDE DEF list
<1>4. blocks'[name] = list /\ \A other \in Names \ {name} : blocks'[other] = blocks[other]
    BY <1>2
<1>5. blocks' \in [Names -> Seq(Block)]
    BY <1>2, <1>3
<1>6. Len(posts) \in Nat
    BY <1>2
<1>7. \A names : New(names)' = New(names)
    BY DEF New
<1>8. Selection(list, New(Names)) = <<>>
    <2>1. \A i \in DOMAIN list : list[i].id <= before
        BY <1>1, <1>2, <1>3
    <2> QED BY <1>3, <2>1, NothingNew DEF MemoriesInv
<1>9. Selection(posts, New({name})) = <<>>
    <2>1. CASE blocks[name] = <<>>
        BY <2>1, SelectionOfNone DEF MemoriesInv, PostsKept
    <2>2. CASE before = Len(posts)
        BY <1>2, <2>2, NothingNew DEF MemoriesInv
    <2> QED BY <2>1, <2>2
<1>10. PostsKept'
    <2>1. ASSUME NEW other \in Names
          PROVE  /\ Selection(blocks'[other], New(Names)) = Selection(posts, New({other}))
                 /\ \A i \in DOMAIN blocks'[other] : ~IsPost(blocks'[other][i]) => i = 1
        BY <1>3, <1>4, <1>8, <1>9 DEF MemoriesInv, PostsKept
    <2>2. \A other \in Names :
             /\ Selection(blocks'[other], New(Names)') = Selection(posts', New({other})')
             /\ \A i \in DOMAIN blocks'[other] : ~IsPost(blocks'[other][i]) => i = 1
        BY <1>7, <2>1
    <2> QED BY <2>2 DEF PostsKept
<1>11. \A other \in Names : \A i \in DOMAIN blocks'[other] : blocks'[other][i].id <= Len(posts)
    BY <1>1, <1>3, <1>4, <1>6 DEF MemoriesInv
<1> QED BY <1>3, <1>4, <1>5, <1>10, <1>11

LEMMA SignedOutKeeps ==
    ASSUME MemoriesInv, SignedOut
    PROVE  MemoriesInv'
<1>1. /\ viewer' = NoUser /\ lastConversation' = Loading /\ tab' = "unopened"
      /\ before' = Len(posts) /\ UNCHANGED <<blocks, observed, posts, arrivals>>
    BY DEF SignedOut
<1>2. /\ posts \in Seq(Block) /\ Len(posts) \in Nat /\ Loading \in Names
      /\ \A name \in Names : blocks[name] \in Seq(Block)
    BY DEF MemoriesInv, MemoriesTyped, Names
<1>3. MemoriesTyped'
    BY <1>1, <1>2 DEF MemoriesInv, MemoriesTyped
<1>4. PostsKept'
    <2>1. ASSUME NEW names, NEW s \in Seq(Block), \A i \in DOMAIN s : s[i].id <= Len(posts)
          PROVE  Selection(s, New(names)') = <<>>
        <3>1. \A i \in 1 .. Len(s) : s[i] \notin New(names)'
            <4> SUFFICES ASSUME NEW i \in 1 .. Len(s), s[i] \in New(names)' PROVE FALSE
                OBVIOUS
            <4>1. s[i].id \in Len(posts) + 1 .. MaxPosts /\ s[i].id <= Len(posts)
                BY <1>1, <2>1 DEF New
            <4> QED BY <1>2, <4>1, MemoriesAssumption
        <3> QED BY <3>1, SelectionEmpty
    <2>2. ASSUME NEW name \in Names
          PROVE  /\ Selection(blocks'[name], New(Names)') = Selection(posts', New({name})')
                 /\ \A i \in DOMAIN blocks'[name] : ~IsPost(blocks'[name][i]) => i = 1
        <3>1. Selection(blocks[name], New(Names)') = <<>>
            BY <1>2, <2>1 DEF MemoriesInv
        <3>2. Selection(posts, New({name})') = <<>>
            BY <1>2, <2>1 DEF MemoriesInv
        <3>3. \A i \in DOMAIN blocks[name] : ~IsPost(blocks[name][i]) => i = 1
            BY DEF MemoriesInv, PostsKept
        <3> QED BY <1>1, <3>1, <3>2, <3>3
    <2> QED BY <2>2 DEF PostsKept
<1> QED BY <1>1, <1>3, <1>4 DEF MemoriesInv

LEMMA AddBlockKeeps ==
    ASSUME MemoriesInv, AddBlock
    PROVE  MemoriesInv'
<1>0. /\ posts \in Seq(Block) /\ Len(posts) \in Nat /\ blocks \in [Names -> Seq(Block)]
      /\ before \in 0 .. Len(posts) /\ lastConversation \in Names
    BY DEF MemoriesInv, MemoriesTyped
<1>1. /\ tab = "editing" /\ tab' = "shown" /\ Len(posts) < MaxPosts
      /\ UNCHANGED <<viewer, lastConversation, observed, before, arrivals>>
    BY DEF AddBlock
<1>2. CASE viewer = NoUser
    <2>1. UNCHANGED <<blocks, posts>>
        BY <1>2 DEF AddBlock
    <2>2. PostsKept'
        BY <1>1, <2>1 DEF MemoriesInv, PostsKept, New
    <2> QED BY <1>1, <2>1, <2>2 DEF MemoriesInv, MemoriesTyped
<1>3. CASE viewer # NoUser
    <2> DEFINE last == lastConversation
               k == Len(posts) + 1
               post == Post(viewer, last, k)
    <2>1. blocks' = [blocks EXCEPT ![last] = Append(@, post)] /\ posts' = Append(posts, post)
        BY <1>3 DEF AddBlock
    <2>2. /\ post \in Block /\ post.id = k /\ post.with = last
          /\ k \in 0 .. MaxPosts /\ k # 0 /\ k \in before + 1 .. MaxPosts
        BY <1>0, <1>1, <1>3, MemoriesAssumption DEF MemoriesInv, MemoriesTyped, Post, Block
    <2>3. \A names : post \in New(names) <=> last \in names
        BY <1>3, <2>2 DEF MemoriesInv, MemoriesTyped, New, Block
    <2> HIDE DEF post
    <2>4. /\ posts' \in Seq(Block) /\ Len(posts') = Len(posts) + 1
          /\ DOMAIN posts' = 1 .. k /\ posts'[k] = post
          /\ \A i \in 1 .. Len(posts) : posts'[i] = posts[i]
        BY <1>0, <2>1, <2>2
    <2>5. /\ blocks'[last] = Append(blocks[last], post) /\ blocks[last] \in Seq(Block)
          /\ \A other \in Names \ {last} : blocks'[other] = blocks[other]
        BY <1>0, <2>1
    <2> DEFINE n == Len(blocks[last])
               list == blocks[last]
               more == Append(list, post)
    <2>6. /\ n \in Nat /\ more \in Seq(Block) /\ DOMAIN more = 1 .. n + 1 /\ more[n + 1] = post
          /\ \A i \in 1 .. n : more[i] = list[i]
          /\ DOMAIN list = 1 .. n /\ more # <<>>
        BY <2>2, <2>5
    <2>7. blocks' \in [Names -> Seq(Block)]
        BY <1>0, <2>1, <2>6
    <2>8. MemoriesTyped'
        BY <1>0, <1>1, <2>4, <2>7 DEF MemoriesInv, MemoriesTyped
    <2>9. \A i \in DOMAIN posts' : posts'[i].id <= Len(posts')
        <3> SUFFICES ASSUME NEW i \in 1 .. k PROVE posts'[i].id <= k
            BY <2>4
        <3>1. CASE i = k
            BY <1>0, <2>2, <2>4, <3>1
        <3>2. CASE i # k
            <4>1. i \in 1 .. Len(posts) /\ posts[i] \in Block
                BY <1>0, <3>2
            <4>2. posts[i].id <= Len(posts) /\ posts[i].id \in Nat
                BY <1>0, <4>1, MemoriesAssumption DEF MemoriesInv, Block
            <4> QED BY <1>0, <2>4, <4>1, <4>2
        <3> QED BY <3>1, <3>2
    <2>10. ASSUME NEW other \in Names, NEW i \in DOMAIN blocks'[other]
           PROVE  blocks'[other][i].id <= Len(posts') /\ (~IsPost(blocks'[other][i]) => i = 1)
        <3>1. ASSUME NEW j \in DOMAIN blocks[other]
              PROVE  blocks[other][j].id <= k /\ (~IsPost(blocks[other][j]) => j = 1)
            <4>1. blocks[other][j].id <= Len(posts) /\ blocks[other][j].id \in Nat
                <5>1. blocks[other][j] \in Block
                    BY <1>0
                <5> QED BY <5>1, MemoriesAssumption DEF MemoriesInv, Block
            <4>2. ~IsPost(blocks[other][j]) => j = 1
                BY DEF MemoriesInv, PostsKept
            <4> QED BY <1>0, <4>1, <4>2
        <3>2. CASE other # last
            BY <2>4, <2>5, <2>10, <3>1, <3>2
        <3>3. CASE other = last /\ i = n + 1
            BY <1>0, <2>2, <2>4, <2>5, <2>6, <3>3 DEF IsPost
        <3>4. CASE other = last /\ i # n + 1
            <4>1. i \in 1 .. n + 1
                BY <2>5, <2>6, <2>10, <3>4
            <4>2. i \in 1 .. n
                BY <2>6, <3>4, <4>1
            <4> QED BY <2>4, <2>5, <2>6, <3>1, <3>4, <4>2
        <3> QED BY <3>2, <3>3, <3>4
    <2>11. PostsKept'
        <3>1. \A names : New(names)' = New(names)
            BY <1>1 DEF New
        <3>2. ASSUME NEW other \in Names
              PROVE  Selection(blocks'[other], New(Names)) = Selection(posts', New({other}))
            <4>1. Selection(blocks[other], New(Names)) = Selection(posts, New({other}))
                BY DEF MemoriesInv, PostsKept
            <4>2. Selection(posts', New({other})) =
                      IF post \in New({other}) THEN Append(Selection(posts, New({other})), post)
                      ELSE Selection(posts, New({other}))
                BY <1>0, <2>1, <2>2, SelectionOfAppend
            <4>3. CASE other = last
                <5>1. Selection(more, New(Names)) =
                          IF post \in New(Names) THEN Append(Selection(list, New(Names)), post)
                          ELSE Selection(list, New(Names))
                    <6>1. list \in Seq(Block)
                        BY <2>5
                    <6> HIDE DEF list
                    <6> QED BY <2>2, <6>1, SelectionOfAppend
                <5> QED BY <1>0, <2>3, <2>5, <4>1, <4>2, <4>3, <5>1
            <4>4. CASE other # last
                BY <2>3, <2>5, <4>1, <4>2, <4>4
            <4> QED BY <4>3, <4>4
        <3>3. \A other \in Names :
                 /\ Selection(blocks'[other], New(Names)') = Selection(posts', New({other})')
                 /\ \A i \in DOMAIN blocks'[other] : ~IsPost(blocks'[other][i]) => i = 1
            BY <2>10, <3>1, <3>2
        <3> QED BY <3>3 DEF PostsKept
    <2>12. \A other \in Names : blocks[other] # <<>> => blocks'[other] # <<>>
        BY <2>5, <2>6
    <2>13. Loading \in Names
        BY DEF Names
    <2> QED BY <1>1, <2>8, <2>9, <2>10, <2>11, <2>12, <2>13 DEF MemoriesInv
<1> QED BY <1>2, <1>3

\* Steps that touch no block and no post.
LEMMA PostsKeptStay ==
    ASSUME MemoriesInv, UNCHANGED <<blocks, posts, before>>
    PROVE  /\ PostsKept'
           /\ \A i \in DOMAIN posts' : posts'[i].id <= Len(posts')
           /\ \A name \in Names : \A i \in DOMAIN blocks'[name] : blocks'[name][i].id <= Len(posts')
BY DEF MemoriesInv, PostsKept, New

LEMMA OpenMemoriesKeeps ==
    ASSUME MemoriesInv, OpenMemories
    PROVE  MemoriesInv'
<1>1. /\ tab \in {"unopened", "shown"}
      /\ lastConversation' = IF viewer # NoUser /\ lastConversation = Loading
                             THEN viewer ELSE lastConversation
      /\ UNCHANGED <<viewer, observed, posts, before, arrivals>>
    BY DEF OpenMemories
<1>2. Loading \in Names /\ lastConversation \in Names /\ lastConversation' \in Names
    BY <1>1 DEF MemoriesInv, MemoriesTyped, Names
<1>3. CASE blocks[lastConversation] # <<>> \/ tab = "shown"
    <2> SUFFICES ASSUME tab' = "shown", UNCHANGED blocks
                 PROVE  MemoriesInv'
        <3>1. ASSUME blocks[lastConversation] = <<>>, viewer # NoUser, tab' = "shown", 
                     NEW name \in {lastConversation, lastConversation'}, blocks' = Welcomed(name)
              PROVE  MemoriesInv'
            <4>1. lastConversation # Loading /\ lastConversation' = lastConversation
                BY <1>1, <1>3, <3>1 DEF MemoriesInv
            <4>2. /\ blocks' \in [Names -> Seq(Block)]
                  /\ \A other \in Names : \A i \in DOMAIN blocks'[other] : blocks'[other][i].id <= Len(posts)
                  /\ PostsKept'
                BY <1>1, <1>2, <3>1, <4>1, WelcomeKeeps
            <4>3. MemoriesTyped'
                BY <1>1, <1>2, <3>1, <4>2 DEF MemoriesInv, MemoriesTyped
            <4> QED BY <1>1, <3>1, <4>1, <4>2, <4>3 DEF MemoriesInv
        <3>2. ASSUME blocks[lastConversation] = <<>>, viewer = NoUser, tab' = "trapped", UNCHANGED blocks
              PROVE  MemoriesInv'
            <4>1. MemoriesTyped'
                BY <1>1, <1>2, <3>2 DEF MemoriesInv, MemoriesTyped
            <4> QED BY <1>1, <3>2, <4>1, PostsKeptStay DEF MemoriesInv
        <3> QED BY <3>1, <3>2 DEF OpenMemories
    <2>1. MemoriesTyped'
        BY <1>1, <1>2 DEF MemoriesInv, MemoriesTyped
    <2>2. viewer' = NoUser \/ lastConversation' = Loading => blocks'[Loading] # <<>>
        <3>1. lastConversation' = Loading => lastConversation = Loading
            BY <1>1, MemoriesAssumption DEF MemoriesInv, MemoriesTyped
        <3> QED BY <1>1, <1>3, <3>1 DEF MemoriesInv
    <2> QED BY <1>1, <2>1, <2>2, PostsKeptStay DEF MemoriesInv
<1>4. CASE blocks[lastConversation] = <<>> /\ tab = "unopened"
    <2>1. before = Len(posts) /\ lastConversation = Loading
        BY <1>4 DEF MemoriesInv
    <2>2. CASE viewer = NoUser
        <3>1. tab' = "trapped" /\ UNCHANGED blocks
            BY <1>4, <2>2 DEF OpenMemories
        <3>2. MemoriesTyped'
            BY <1>1, <1>2, <3>1 DEF MemoriesInv, MemoriesTyped
        <3> QED BY <1>1, <3>1, <3>2, PostsKeptStay DEF MemoriesInv
    <2>3. CASE viewer # NoUser
        <3>1. PICK name \in {lastConversation, lastConversation'} :
                    tab' = "shown" /\ blocks' = Welcomed(name)
            BY <1>4, <2>3 DEF OpenMemories
        <3>2. /\ blocks' \in [Names -> Seq(Block)]
              /\ \A other \in Names : \A i \in DOMAIN blocks'[other] : blocks'[other][i].id <= Len(posts)
              /\ PostsKept'
            BY <1>1, <1>2, <2>1, <2>3, <3>1, WelcomeKeeps
        <3>3. MemoriesTyped'
            BY <1>1, <1>2, <3>1, <3>2 DEF MemoriesInv, MemoriesTyped
        <3>4. viewer' # NoUser /\ lastConversation' # Loading
            BY <1>1, <2>1, <2>3, MemoriesAssumption DEF MemoriesInv, MemoriesTyped
        <3> QED BY <1>1, <3>1, <3>2, <3>3, <3>4 DEF MemoriesInv
    <2> QED BY <2>2, <2>3
<1> QED BY <1>1, <1>3, <1>4

LEMMA MemoriesInvStarts == MemoriesInit => MemoriesInv
<1> SUFFICES ASSUME MemoriesInit PROVE MemoriesInv
    OBVIOUS
<1>1. /\ posts = <<>> /\ before = 0 /\ Len(posts) = 0 /\ posts \in Seq(Block) /\ DOMAIN posts = {}
      /\ Loading \in Names /\ <<>> \in Seq(Block) /\ DOMAIN <<>> = {}
    BY DEF MemoriesInit, Names
<1>2. \A name \in Names : blocks[name] = <<>>
    BY DEF MemoriesInit
<1>3. MemoriesTyped
    BY <1>1 DEF MemoriesInit, MemoriesTyped
<1>4. PostsKept
    BY <1>1, <1>2, SelectionOfNone DEF PostsKept
<1> QED BY <1>1, <1>2, <1>3, <1>4 DEF MemoriesInit, MemoriesInv

LEMMA MemoriesKeeps == MemoriesInv /\ [MemoriesNext]_memoriesVars => MemoriesInv'
<1> SUFFICES ASSUME MemoriesInv, [MemoriesNext]_memoriesVars PROVE MemoriesInv'
    OBVIOUS
<1>1. CASE UNCHANGED memoriesVars
    <2>1. UNCHANGED <<viewer, blocks, lastConversation, tab, observed, posts, before>>
        BY <1>1 DEF memoriesVars
    <2> QED BY <2>1, PostsKeptStay DEF MemoriesInv, MemoriesTyped
<1>2. ASSUME NEW u \in People, SessionArrives(u) PROVE MemoriesInv'
    <2>1. /\ observed' = observed \cup {u} /\ viewer' = u /\ u # NoUser
          /\ UNCHANGED <<blocks, lastConversation, tab, posts, before>>
        BY <1>2, MemoriesAssumption DEF SessionArrives
    <2> QED BY <2>1, PostsKeptStay DEF MemoriesInv, MemoriesTyped
<1>3. CASE NothingAppears
    <2>1. /\ tab = "shown" /\ viewer # NoUser /\ blocks[lastConversation] = <<>>
          /\ blocks' = Welcomed(lastConversation)
          /\ UNCHANGED <<viewer, lastConversation, tab, observed, posts, before, arrivals>>
          /\ lastConversation \in Names
        BY <1>3 DEF NothingAppears, MemoriesInv, MemoriesTyped
    <2>2. /\ blocks' \in [Names -> Seq(Block)]
          /\ \A other \in Names : \A i \in DOMAIN blocks'[other] : blocks'[other][i].id <= Len(posts)
          /\ \A other \in Names : blocks[other] # <<>> => blocks'[other] # <<>>
          /\ PostsKept'
        BY <2>1, WelcomeKeeps
    <2>3. Loading \in Names
        BY DEF Names
    <2> QED BY <2>1, <2>2, <2>3 DEF MemoriesInv, MemoriesTyped
<1>4. ASSUME NEW name \in Names, PickRelationship(name) PROVE MemoriesInv'
    <2>1. /\ tab = "shown" /\ name \in (IF viewer = NoUser THEN {Loading} ELSE People)
          /\ lastConversation' = name
          /\ UNCHANGED <<viewer, blocks, tab, observed, posts, before, arrivals>>
        BY <1>4 DEF PickRelationship
    <2>2. name = Loading => viewer = NoUser
        BY <2>1, MemoriesAssumption
    <2> QED BY <2>1, <2>2, PostsKeptStay DEF MemoriesInv, MemoriesTyped
<1>5. CASE OpenEditor
    <2>1. /\ tab = "shown" /\ tab' = "editing"
          /\ UNCHANGED <<viewer, blocks, lastConversation, observed, posts, before>>
        BY <1>5 DEF OpenEditor
    <2> QED BY <2>1, PostsKeptStay DEF MemoriesInv, MemoriesTyped
<1>6. CASE CloseEditor
    <2>1. /\ tab = "editing" /\ tab' = "shown"
          /\ UNCHANGED <<viewer, blocks, lastConversation, observed, posts, before>>
        BY <1>6 DEF CloseEditor
    <2> QED BY <2>1, PostsKeptStay DEF MemoriesInv, MemoriesTyped
<1> QED BY <1>1, <1>2, <1>3, <1>4, <1>5, <1>6, SignedOutKeeps, OpenMemoriesKeeps, AddBlockKeeps
        DEF MemoriesNext

(* SAFETY: every post stays where it was made, in order, while the tabs    *)
(* are up, for any people, whatever sessions arrive under them             *)
(* (fetchDataFromLastConvo, addBlock, ProfileView's onAppear).             *)
THEOREM NewPostsStay == MemoriesSpec => []PostsKept
<1>1. MemoriesInv => PostsKept
    BY DEF MemoriesInv
<1> QED BY <1>1, MemoriesInvStarts, MemoriesKeeps, PTL DEF MemoriesSpec

-----------------------------------------------------------------------------
(* Iterators.  Sequence numbers are distinct, and those written while an    *)
(* iterator is used are above what its snapshot sees.                      *)

Everything == UNION {held[c] : c \in Children}

Visible == {e \in Everything : e.seq <= snapshot}

HeldInv ==
    /\ held \in [Children -> SUBSET Entries]
    /\ \A c, d \in Children : \A e \in held[c], f \in held[d] : e.seq = f.seq => e = f /\ c = d
    /\ snapshot \in 0 .. LastWritten
    /\ made => \E n \in LastWritten .. LastWritten + MaxLive : {e.seq : e \in Everything} = 1 .. n

LEMMA EntryNumbers ==
    /\ \A e \in Entries : e.key \in Nat /\ e.seq \in 1 .. LastWritten + MaxLive /\ e # Nowhere
    /\ LastWritten \in Nat /\ MaxLive \in Nat
<1>1. IterKeys \subseteq Nat /\ LastWritten \in Nat /\ MaxLive \in Nat
    BY IteratorAssumption
<1>2. \A e \in Entries : e # Nowhere
    BY IteratorAssumption
<1>3. \A e \in Entries : e.key \in Nat /\ e.seq \in 1 .. LastWritten + MaxLive
    BY <1>1 DEF Entries
<1> QED BY <1>1, <1>2, <1>3

LEMMA Order ==
    ASSUME HeldInv
    PROVE  /\ \A e \in Everything : e \in Entries /\ e.key \in Nat /\ e.seq \in Nat /\ e # Nowhere
           /\ \A e, f \in Everything : e = f \/ Precedes(e, f) \/ Precedes(f, e)
           /\ \A e, f \in Everything : ~(Precedes(e, f) /\ Precedes(f, e))
           /\ \A e, f, g \in Everything : Precedes(e, f) /\ Precedes(f, g) => Precedes(e, g)
           /\ \A e, f \in Everything : Precedes(e, f) => e.key <= f.key
           /\ \A e, f \in Everything : e.key < f.key => Precedes(e, f)
           /\ \A e, f \in Everything : e.key = f.key => (Precedes(e, f) <=> e.seq > f.seq)
<1>1. \A e \in Everything : e \in Entries /\ e.key \in Nat /\ e.seq \in Nat /\ e # Nowhere
    <2>1. \A e \in Everything : e \in Entries
        BY DEF Everything, HeldInv
    <2> QED BY <2>1, EntryNumbers
<1>2. \A e, f \in Everything : e.seq = f.seq => e = f
    BY DEF Everything, HeldInv
<1> QED BY <1>1, <1>2 DEF Precedes

LEMMA FirstExists ==
    ASSUME HeldInv, NEW S \in SUBSET Everything, S # {}
    PROVE  /\ FirstOf(S) \in S
           /\ \A f \in S : f = FirstOf(S) \/ Precedes(FirstOf(S), f)
<1> DEFINE N == LastWritten + MaxLive
           Best(n, e) == e.seq <= n /\ \A f \in S : f.seq <= n => f = e \/ Precedes(e, f)
           P == {n \in 0 .. N : (\A e \in S : e.seq > n) \/ \E e \in S : Best(n, e)}
<1>1. N \in Nat /\ \A e \in S : e.seq \in 1 .. N
    <2>1. \A e \in S : e \in Entries
        BY Order
    <2> QED BY <2>1, EntryNumbers
<1>2. 0 \in P
    BY <1>1
<1>3. ASSUME NEW n \in 1 .. N, n - 1 \in P PROVE n \in P
    <2>1. CASE \A e \in S : e.seq # n
        <3>1. \A e \in S : e.seq <= n => e.seq <= n - 1
            BY <1>1, <2>1
        <3>2. CASE \A e \in S : e.seq > n - 1
            BY <1>1, <2>1, <3>2
        <3>3. CASE \E e \in S : Best(n - 1, e)
            BY <1>1, <3>1, <3>3
        <3> QED BY <1>3, <3>2, <3>3
    <2>2. CASE \E e \in S : e.seq = n
        <3>1. PICK e \in S : e.seq = n
            BY <2>2
        <3>2. \A f \in S : f.seq <= n => f = e \/ f.seq <= n - 1
            <4>1. \A f \in S : f.seq = n => f = e
                BY <3>1 DEF HeldInv, Everything
            <4> QED BY <1>1, <4>1
        <3>3. CASE \A f \in S : f.seq > n - 1
            <4>1. Best(n, e)
                BY <1>1, <3>1, <3>2, <3>3
            <4> QED BY <4>1
        <3>4. CASE \E f \in S : Best(n - 1, f)
            <4>1. PICK f \in S : Best(n - 1, f)
                BY <3>4
            <4>2. f.seq <= n
                BY <1>1, <4>1
            <4>3. f = e \/ Precedes(e, f) \/ Precedes(f, e)
                BY Order
            <4>4. Best(n, e) \/ Best(n, f)
                BY <3>1, <3>2, <4>1, <4>2, <4>3, Order
            <4> QED BY <4>4
        <3> QED BY <1>3, <3>3, <3>4
    <2> QED BY <2>1, <2>2
<1> HIDE DEF P
<1>4. N \in P
    BY <1>1, <1>2, <1>3, UpTo
<1>5. PICK e \in S : Best(N, e)
    BY <1>1, <1>4 DEF P
<1>6. \A f \in S : f = e \/ Precedes(e, f)
    BY <1>1, <1>5
<1> HIDE DEF Best, N
<1> DEFINE first == CHOOSE g \in S : \A f \in S \ {g} : Precedes(g, f)
<1>7. first \in S /\ \A f \in S \ {first} : Precedes(first, f)
    BY <1>6
<1> QED BY <1>7 DEF FirstOf

LEMMA LastExists ==
    ASSUME HeldInv, NEW S \in SUBSET Everything, S # {}
    PROVE  /\ LastOf(S) \in S
           /\ \A f \in S : f = LastOf(S) \/ Precedes(f, LastOf(S))
<1> DEFINE N == LastWritten + MaxLive
           Best(n, e) == e.seq <= n /\ \A f \in S : f.seq <= n => f = e \/ Precedes(f, e)
           P == {n \in 0 .. N : (\A e \in S : e.seq > n) \/ \E e \in S : Best(n, e)}
<1>1. N \in Nat /\ \A e \in S : e.seq \in 1 .. N
    <2>1. \A e \in S : e \in Entries
        BY Order
    <2> QED BY <2>1, EntryNumbers
<1>2. 0 \in P
    BY <1>1
<1>3. ASSUME NEW n \in 1 .. N, n - 1 \in P PROVE n \in P
    <2>1. CASE \A e \in S : e.seq # n
        <3>1. \A e \in S : e.seq <= n => e.seq <= n - 1
            BY <1>1, <2>1
        <3>2. CASE \A e \in S : e.seq > n - 1
            BY <1>1, <2>1, <3>2
        <3>3. CASE \E e \in S : Best(n - 1, e)
            BY <1>1, <3>1, <3>3
        <3> QED BY <1>3, <3>2, <3>3
    <2>2. CASE \E e \in S : e.seq = n
        <3>1. PICK e \in S : e.seq = n
            BY <2>2
        <3>2. \A f \in S : f.seq <= n => f = e \/ f.seq <= n - 1
            <4>1. \A f \in S : f.seq = n => f = e
                BY <3>1 DEF HeldInv, Everything
            <4> QED BY <1>1, <4>1
        <3>3. CASE \A f \in S : f.seq > n - 1
            <4>1. Best(n, e)
                BY <1>1, <3>1, <3>2, <3>3
            <4> QED BY <4>1
        <3>4. CASE \E f \in S : Best(n - 1, f)
            <4>1. PICK f \in S : Best(n - 1, f)
                BY <3>4
            <4>2. f.seq <= n
                BY <1>1, <4>1
            <4>3. f = e \/ Precedes(e, f) \/ Precedes(f, e)
                BY Order
            <4>4. Best(n, e) \/ Best(n, f)
                BY <3>1, <3>2, <4>1, <4>2, <4>3, Order
            <4> QED BY <4>4
        <3> QED BY <1>3, <3>3, <3>4
    <2> QED BY <2>1, <2>2
<1> HIDE DEF P
<1>4. N \in P
    BY <1>1, <1>2, <1>3, UpTo
<1>5. PICK e \in S : Best(N, e)
    BY <1>1, <1>4 DEF P
<1>6. \A f \in S : f = e \/ Precedes(f, e)
    BY <1>1, <1>5
<1> HIDE DEF Best, N
<1> DEFINE last == CHOOSE g \in S : \A f \in S \ {g} : Precedes(f, g)
<1>7. last \in S /\ \A f \in S \ {last} : Precedes(f, last)
    BY <1>6
<1> QED BY <1>7 DEF LastOf

LEMMA EverythingFinite ==
    ASSUME HeldInv
    PROVE  IsFiniteSet(Everything)
<1> DEFINE N == LastWritten + MaxLive
           Upto(n) == {e \in Everything : e.seq <= n}
           P == {n \in 0 .. N : IsFiniteSet(Upto(n))}
<1>1. N \in Nat /\ \A e \in Everything : e.seq \in 1 .. N
    <2>1. \A e \in Everything : e \in Entries
        BY Order
    <2> QED BY <2>1, EntryNumbers
<1>2. 0 \in P
    <2>1. Upto(0) = {}
        BY <1>1
    <2>2. IsFiniteSet(Upto(0))
        BY <2>1, FS_EmptySet, Zenon
    <2> HIDE DEF Upto
    <2> QED BY <1>1, <2>2
<1>3. ASSUME NEW n \in 1 .. N, n - 1 \in P PROVE n \in P
    <2>0. n \in 0 .. N /\ \A e \in Everything : e.seq <= n <=> e.seq = n \/ e.seq <= n - 1
        BY <1>1
    <2>3. IsFiniteSet(Upto(n - 1))
        <3> HIDE DEF Upto
        <3> QED BY <1>3
    <2>1. CASE \A e \in Everything : e.seq # n
        <3>1. Upto(n) = Upto(n - 1)
            BY <2>0, <2>1
        <3> HIDE DEF Upto
        <3> QED BY <2>0, <2>3, <3>1
    <2>2. CASE \E e \in Everything : e.seq = n
        <3>1. PICK e \in Everything : e.seq = n
            BY <2>2
        <3>2. \A f \in Everything : f.seq = n => f = e
            BY <3>1 DEF HeldInv, Everything
        <3>3. Upto(n) = Upto(n - 1) \cup {e}
            BY <2>0, <3>1, <3>2
        <3> HIDE DEF Upto
        <3> QED BY <2>0, <2>3, <3>3, FS_AddElement
    <2> QED BY <2>1, <2>2
<1> HIDE DEF P
<1>4. N \in P
    BY <1>1, <1>2, <1>3, UpTo
<1>5. Upto(N) = Everything
    BY <1>1
<1> QED BY <1>4, <1>5 DEF P

\* What FirstOf and LastOf find of any entries.
LEMMA FirstIs ==
    ASSUME HeldInv, NEW S \in SUBSET Everything
    PROVE  /\ FirstOf(S) \in S \cup {Nowhere}
           /\ \A f \in S : FirstOf(S) \in S /\ ~Precedes(f, FirstOf(S))
<1>1. CASE S = {}
    BY <1>1 DEF FirstOf
<1>2. CASE S # {}
    BY <1>2, FirstExists, Order
<1> QED BY <1>1, <1>2

LEMMA LastIs ==
    ASSUME HeldInv, NEW S \in SUBSET Everything
    PROVE  /\ LastOf(S) \in S \cup {Nowhere}
           /\ \A f \in S : LastOf(S) \in S /\ ~Precedes(LastOf(S), f)
<1>1. CASE S = {}
    BY <1>1 DEF LastOf
<1>2. CASE S # {}
    BY <1>2, LastExists, Order
<1> QED BY <1>1, <1>2

Merged == [at : [Children -> Everything \cup {Nowhere}], forward : BOOLEAN, current : {0} \cup Children]

\* Standing at an entry with every other child at its first entry behind it, or
\* at its last before it; a write may have put an entry between that the
\* snapshot does not see.
FwdAt(m) ==
    /\ m.forward = TRUE
    /\ m.current \in Children /\ At(m) # Nowhere
    /\ \A c \in Children : m.at[c] \in held[c] \cup {Nowhere}
    /\ \A c \in Children \ {m.current} :
          /\ m.at[c] # Nowhere => Precedes(At(m), m.at[c])
          /\ \A f \in held[c] \cap Visible :
                Precedes(At(m), f) => m.at[c] # Nowhere /\ ~Precedes(f, m.at[c])

BwdAt(m) ==
    /\ m.forward = FALSE
    /\ m.current \in Children /\ At(m) # Nowhere
    /\ \A c \in Children : m.at[c] \in held[c] \cup {Nowhere}
    /\ \A c \in Children \ {m.current} :
          /\ m.at[c] # Nowhere => Precedes(m.at[c], At(m))
          /\ \A f \in held[c] \cap Visible :
                Precedes(f, At(m)) => m.at[c] # Nowhere /\ ~Precedes(m.at[c], f)

\* A set with all that comes after, or before, its entries.
Upward(rest) ==
    /\ rest \subseteq Everything
    /\ \A f \in rest, g \in Everything : Precedes(f, g) => g \in rest
Downward(rest) ==
    /\ rest \subseteq Everything
    /\ \A f \in rest, g \in Everything : Precedes(g, f) => g \in rest

\* Every child at its first, or last, entry of a set.
OnFirsts(at, rest) ==
    /\ at \in [Children -> Everything \cup {Nowhere}]
    /\ \A c \in Children :
          /\ at[c] \in (held[c] \cap rest) \cup {Nowhere}
          /\ \A f \in held[c] \cap Visible :
                f \in rest => at[c] # Nowhere /\ ~Precedes(f, at[c])
OnLasts(at, rest) ==
    /\ at \in [Children -> Everything \cup {Nowhere}]
    /\ \A c \in Children :
          /\ at[c] \in (held[c] \cap rest) \cup {Nowhere}
          /\ \A f \in held[c] \cap Visible :
                f \in rest => at[c] # Nowhere /\ ~Precedes(at[c], f)

\* Standing in a set, with nothing to see of it left out.
Reached(m, rest) ==
    /\ m \in Merged
    /\ Valid(m) => /\ FwdAt(m) /\ At(m) \in rest
                   /\ \A f \in Visible \cap rest : ~Precedes(f, At(m))
    /\ ~Valid(m) => Visible \cap rest = {}
ReachedBack(m, rest) ==
    /\ m \in Merged
    /\ Valid(m) => /\ BwdAt(m) /\ At(m) \in rest
                   /\ \A f \in Visible \cap rest : ~Precedes(At(m), f)
    /\ ~Valid(m) => Visible \cap rest = {}

LEMMA Owners ==
    ASSUME HeldInv
    PROVE  /\ \A c \in Children : held[c] \subseteq Everything
           /\ \A f \in Everything : \E c \in Children : f \in held[c]
           /\ \A c, d \in Children : c # d => held[c] \cap held[d] = {}
           /\ Visible \subseteq Everything
           /\ 0 \notin Children
BY DEF HeldInv, Everything, Visible, Children

LEMMA FindSmallestReaches ==
    ASSUME HeldInv, NEW rest, Upward(rest), NEW at, OnFirsts(at, rest)
    PROVE  Reached(FindSmallest(at), rest)
<1> DEFINE m == FindSmallest(at)
           S == Standing(at)
<1>1. /\ \A c \in Children : at[c] \in held[c] \cup {Nowhere}
      /\ \A c \in S : c \in Children /\ at[c] \in held[c] /\ at[c] \in rest /\ at[c] \in Everything
      /\ \A c \in Children \ S : at[c] = Nowhere
      /\ \A f \in Visible \cap rest : \E c \in S : f \in held[c] /\ ~Precedes(f, at[c])
    BY Owners DEF OnFirsts, Standing
<1>2. CASE S = {}
    <2>1. m = [at |-> at, forward |-> TRUE, current |-> 0]
        BY <1>2 DEF FindSmallest
    <2>2. m \in Merged /\ ~Valid(m)
        BY <2>1 DEF Merged, OnFirsts, Valid
    <2> HIDE DEF S
    <2> QED BY <1>1, <1>2, <2>2 DEF Reached
<1>3. CASE S # {}
    <2> DEFINE heads == {at[c] : c \in S}
               cur == CHOOSE c \in S : \A d \in S \ {c} : Precedes(at[c], at[d])
    <2>1. heads \in SUBSET Everything /\ heads # {}
        BY <1>1, <1>3
    <2>2. PICK c \in S : /\ at[c] = FirstOf(heads)
                         /\ \A f \in heads : f = at[c] \/ Precedes(at[c], f)
        <3>1. FirstOf(heads) \in heads /\ \A f \in heads : f = FirstOf(heads) \/ Precedes(FirstOf(heads), f)
            <4> HIDE DEF heads
            <4> QED BY <2>1, FirstExists
        <3>2. PICK c \in S : at[c] = FirstOf(heads)
            BY <3>1
        <3> HIDE DEF heads, S
        <3> QED BY <3>1, <3>2
    <2>3. \A d \in S \ {c} : Precedes(at[c], at[d])
        <3>1. \A d \in S \ {c} : at[d] # at[c]
            BY <1>1, Owners
        <3> QED BY <2>2, <3>1
    <2>4. cur \in S /\ \A d \in S \ {cur} : Precedes(at[cur], at[d])
        <3> HIDE DEF S
        <3> QED BY <2>3
    <2>5. m = [at |-> at, forward |-> TRUE, current |-> cur]
        BY <1>3 DEF FindSmallest
    <2> HIDE DEF cur, heads, m
    <2>6. /\ m.at = at /\ m.forward = TRUE /\ m.current = cur /\ At(m) = at[cur]
          /\ m \in Merged /\ Valid(m)
        BY <1>1, <2>4, <2>5, Owners DEF Merged, OnFirsts, Valid, At
    <2> DEFINE x == at[cur]
    <2>7. x \in Everything /\ x \in rest /\ x # Nowhere /\ cur \in Children
        BY <1>1, <2>4, Order
    <2>8. ASSUME NEW d \in Children \ {cur}
          PROVE  /\ at[d] # Nowhere => Precedes(x, at[d])
                 /\ \A f \in held[d] \cap Visible :
                       Precedes(x, f) => at[d] # Nowhere /\ ~Precedes(f, at[d])
        <3>1. at[d] # Nowhere => Precedes(x, at[d])
            BY <1>1, <2>4
        <3>2. \A f \in held[d] \cap Visible : Precedes(x, f) => f \in rest
            BY <2>7, Owners DEF Upward
        <3> QED BY <3>1, <3>2 DEF OnFirsts
    <2>9. \A f \in Visible \cap rest : ~Precedes(f, x)
        <3> SUFFICES ASSUME NEW f \in Visible \cap rest, Precedes(f, x) PROVE FALSE
            OBVIOUS
        <3>1. PICK d \in S : ~Precedes(f, at[d])
            BY <1>1
        <3>2. d # cur /\ Precedes(x, at[d])
            BY <2>4, <3>1
        <3> QED BY <1>1, <2>7, <3>1, <3>2, Order, Owners
    <2>10. FwdAt(m)
        BY <1>1, <2>6, <2>7, <2>8 DEF FwdAt
    <2> QED BY <2>6, <2>7, <2>9, <2>10 DEF Reached, m
<1> QED BY <1>2, <1>3

LEMMA FindLargestReaches ==
    ASSUME HeldInv, NEW rest, Downward(rest), NEW at, OnLasts(at, rest)
    PROVE  ReachedBack(FindLargest(at), rest)
<1> DEFINE m == FindLargest(at)
           S == Standing(at)
<1>1. /\ \A c \in Children : at[c] \in held[c] \cup {Nowhere}
      /\ \A c \in S : c \in Children /\ at[c] \in held[c] /\ at[c] \in rest /\ at[c] \in Everything
      /\ \A c \in Children \ S : at[c] = Nowhere
      /\ \A f \in Visible \cap rest : \E c \in S : f \in held[c] /\ ~Precedes(at[c], f)
    BY Owners DEF OnLasts, Standing
<1>2. CASE S = {}
    <2>1. m = [at |-> at, forward |-> FALSE, current |-> 0]
        BY <1>2 DEF FindLargest
    <2>2. m \in Merged /\ ~Valid(m)
        BY <2>1 DEF Merged, OnLasts, Valid
    <2> HIDE DEF S
    <2> QED BY <1>1, <1>2, <2>2 DEF ReachedBack
<1>3. CASE S # {}
    <2> DEFINE heads == {at[c] : c \in S}
               cur == CHOOSE c \in S : \A d \in S \ {c} : Precedes(at[d], at[c])
    <2>1. heads \in SUBSET Everything /\ heads # {}
        BY <1>1, <1>3
    <2>2. PICK c \in S : /\ at[c] = LastOf(heads)
                         /\ \A f \in heads : f = at[c] \/ Precedes(f, at[c])
        <3>1. LastOf(heads) \in heads /\ \A f \in heads : f = LastOf(heads) \/ Precedes(f, LastOf(heads))
            <4> HIDE DEF heads
            <4> QED BY <2>1, LastExists
        <3>2. PICK c \in S : at[c] = LastOf(heads)
            BY <3>1
        <3> HIDE DEF heads, S
        <3> QED BY <3>1, <3>2
    <2>3. \A d \in S \ {c} : Precedes(at[d], at[c])
        <3>1. \A d \in S \ {c} : at[d] # at[c]
            BY <1>1, Owners
        <3> QED BY <2>2, <3>1
    <2>4. cur \in S /\ \A d \in S \ {cur} : Precedes(at[d], at[cur])
        <3> HIDE DEF S
        <3> QED BY <2>3
    <2>5. m = [at |-> at, forward |-> FALSE, current |-> cur]
        BY <1>3 DEF FindLargest
    <2> HIDE DEF cur, heads, m
    <2>6. /\ m.at = at /\ m.forward = FALSE /\ m.current = cur /\ At(m) = at[cur]
          /\ m \in Merged /\ Valid(m)
        BY <1>1, <2>4, <2>5, Owners DEF Merged, OnLasts, Valid, At
    <2> DEFINE x == at[cur]
    <2>7. x \in Everything /\ x \in rest /\ x # Nowhere /\ cur \in Children
        BY <1>1, <2>4, Order
    <2>8. ASSUME NEW d \in Children \ {cur}
          PROVE  /\ at[d] # Nowhere => Precedes(at[d], x)
                 /\ \A f \in held[d] \cap Visible :
                       Precedes(f, x) => at[d] # Nowhere /\ ~Precedes(at[d], f)
        <3>1. at[d] # Nowhere => Precedes(at[d], x)
            BY <1>1, <2>4
        <3>2. \A f \in held[d] \cap Visible : Precedes(f, x) => f \in rest
            BY <2>7, Owners DEF Downward
        <3> QED BY <3>1, <3>2 DEF OnLasts
    <2>9. \A f \in Visible \cap rest : ~Precedes(x, f)
        <3> SUFFICES ASSUME NEW f \in Visible \cap rest, Precedes(x, f) PROVE FALSE
            OBVIOUS
        <3>1. PICK d \in S : ~Precedes(at[d], f)
            BY <1>1
        <3>2. d # cur /\ Precedes(at[d], x)
            BY <2>4, <3>1
        <3> QED BY <1>1, <2>7, <3>1, <3>2, Order, Owners
    <2>10. BwdAt(m)
        BY <1>1, <2>6, <2>7, <2>8 DEF BwdAt
    <2> QED BY <2>6, <2>7, <2>9, <2>10 DEF ReachedBack, m
<1> QED BY <1>2, <1>3

\* What comes after, or before, the entry a merged iterator stands at.
RestAfter(m)  == {f \in Everything : Precedes(At(m), f)}
RestBefore(m) == {f \in Everything : Precedes(f, At(m))}

LEMMA StandsAt ==
    ASSUME HeldInv, NEW m, m \in Merged, FwdAt(m) \/ BwdAt(m)
    PROVE  /\ m.current \in Children /\ At(m) \in held[m.current] /\ At(m) \in Everything
           /\ Valid(m) /\ At(m) = m.at[m.current]
           /\ FwdAt(m) => m.forward = TRUE
           /\ BwdAt(m) => m.forward = FALSE
BY Owners DEF FwdAt, BwdAt, At, Valid

LEMMA NextReaches ==
    ASSUME HeldInv, NEW m, m \in Merged, FwdAt(m) \/ BwdAt(m)
    PROVE  Reached(MergedNext(m), RestAfter(m))
<1> DEFINE x == At(m)
           rest == RestAfter(m)
           at == [c \in Children |->
                    IF c # m.current /\ m.forward THEN m.at[c] ELSE After(held[c], x)]
<1>1. MergedNext(m) = FindSmallest(at)
    BY DEF MergedNext
<1>2. x \in Everything /\ m.current \in Children
    BY StandsAt
<1>3. Upward(rest)
    BY <1>2, Order DEF Upward, RestAfter
<1>4. ASSUME NEW c \in Children
      PROVE  /\ at[c] \in (held[c] \cap rest) \cup {Nowhere}
             /\ \A f \in held[c] \cap Visible :
                   f \in rest => at[c] # Nowhere /\ ~Precedes(f, at[c])
    <2>1. CASE c # m.current /\ m.forward = TRUE
        <3>1. FwdAt(m) /\ at[c] = m.at[c]
            BY <2>1, StandsAt
        <3> QED BY <2>1, <3>1, Owners DEF FwdAt, RestAfter
    <2>2. CASE ~(c # m.current /\ m.forward = TRUE)
        <3> DEFINE S == {f \in held[c] : Precedes(x, f)}
        <3>1. at[c] = FirstOf(S)
            BY <2>2, StandsAt DEF After
        <3>2. S \in SUBSET Everything /\ S = held[c] \cap rest
            BY Owners DEF RestAfter
        <3> HIDE DEF S, at, rest
        <3>3. /\ at[c] \in S \cup {Nowhere}
              /\ \A f \in S : at[c] \in S /\ ~Precedes(f, at[c])
            BY <3>1, <3>2, FirstIs
        <3> QED BY <3>2, <3>3, Order
    <2> QED BY <2>1, <2>2
<1>5. at \in [Children -> Everything \cup {Nowhere}]
    <2>1. \A c \in Children : at[c] \in Everything \cup {Nowhere}
        BY <1>4, Owners
    <2> QED BY <2>1
<1> HIDE DEF at, rest
<1>6. OnFirsts(at, rest)
    BY <1>4, <1>5 DEF OnFirsts
<1> QED BY <1>1, <1>3, <1>6, FindSmallestReaches DEF rest

LEMMA PrevReaches ==
    ASSUME HeldInv, NEW m, m \in Merged, FwdAt(m) \/ BwdAt(m)
    PROVE  ReachedBack(MergedPrev(m), RestBefore(m))
<1> DEFINE x == At(m)
           rest == RestBefore(m)
           at == [c \in Children |->
                    IF c # m.current /\ ~m.forward THEN m.at[c] ELSE Before(held[c], x)]
<1>1. MergedPrev(m) = FindLargest(at)
    BY DEF MergedPrev
<1>2. x \in Everything /\ m.current \in Children
    BY StandsAt
<1>3. Downward(rest)
    BY <1>2, Order DEF Downward, RestBefore
<1>4. ASSUME NEW c \in Children
      PROVE  /\ at[c] \in (held[c] \cap rest) \cup {Nowhere}
             /\ \A f \in held[c] \cap Visible :
                   f \in rest => at[c] # Nowhere /\ ~Precedes(at[c], f)
    <2>1. CASE c # m.current /\ m.forward = FALSE
        <3>1. BwdAt(m) /\ at[c] = m.at[c]
            BY <2>1, StandsAt
        <3> QED BY <2>1, <3>1, Owners DEF BwdAt, RestBefore
    <2>2. CASE ~(c # m.current /\ m.forward = FALSE)
        <3> DEFINE S == {f \in held[c] : Precedes(f, x)}
        <3>1. at[c] = LastOf(S)
            BY <2>2, StandsAt DEF Before
        <3>2. S \in SUBSET Everything /\ S = held[c] \cap rest
            BY Owners DEF RestBefore
        <3> HIDE DEF S, at, rest
        <3>3. /\ at[c] \in S \cup {Nowhere}
              /\ \A f \in S : at[c] \in S /\ ~Precedes(at[c], f)
            BY <3>1, <3>2, LastIs
        <3> QED BY <3>2, <3>3, Order
    <2> QED BY <2>1, <2>2
<1>5. at \in [Children -> Everything \cup {Nowhere}]
    <2>1. \A c \in Children : at[c] \in Everything \cup {Nowhere}
        BY <1>4, Owners
    <2> QED BY <2>1
<1> HIDE DEF at, rest
<1>6. OnLasts(at, rest)
    BY <1>4, <1>5 DEF OnLasts
<1> QED BY <1>1, <1>3, <1>6, FindLargestReaches DEF rest

\* What Seek may stand at: an entry that is not before its target.
RestFrom(e) == {f \in Everything : ~Precedes(f, e)}

LEMMA SeekReaches ==
    ASSUME HeldInv, NEW e, e.key \in Nat, e.seq \in Nat
    PROVE  Reached(MergedSeek(e), RestFrom(e))
<1> DEFINE rest == RestFrom(e)
           at == [c \in Children |-> AtOrAfter(held[c], e)]
<1>1. MergedSeek(e) = FindSmallest(at)
    BY DEF MergedSeek
<1>2. Upward(rest)
    <2>1. \A f, g \in Everything : Precedes(g, e) /\ Precedes(f, g) => Precedes(f, e)
        BY Order DEF Precedes
    <2> QED BY <2>1 DEF Upward, RestFrom
<1>3. ASSUME NEW c \in Children
      PROVE  /\ at[c] \in (held[c] \cap rest) \cup {Nowhere}
             /\ \A f \in held[c] \cap Visible :
                   f \in rest => at[c] # Nowhere /\ ~Precedes(f, at[c])
    <2> DEFINE S == {f \in held[c] : ~Precedes(f, e)}
    <2>1. at[c] = FirstOf(S)
        BY DEF AtOrAfter
    <2>2. S \in SUBSET Everything /\ S = held[c] \cap rest
        BY Owners DEF RestFrom
    <2> HIDE DEF S, at, rest
    <2>3. /\ at[c] \in S \cup {Nowhere}
          /\ \A f \in S : at[c] \in S /\ ~Precedes(f, at[c])
        BY <2>1, <2>2, FirstIs
    <2> QED BY <2>2, <2>3, Order
<1>4. at \in [Children -> Everything \cup {Nowhere}]
    <2>1. \A c \in Children : at[c] \in Everything \cup {Nowhere}
        BY <1>3, Owners
    <2> QED BY <2>1
<1> HIDE DEF at, rest
<1>5. OnFirsts(at, rest)
    BY <1>3, <1>4 DEF OnFirsts
<1> QED BY <1>1, <1>2, <1>5, FindSmallestReaches DEF rest

LEMMA FirstReaches ==
    ASSUME HeldInv
    PROVE  Reached(MergedFirst, Everything)
<1> DEFINE at == [c \in Children |-> FirstOf(held[c])]
<1>1. MergedFirst = FindSmallest(at)
    BY DEF MergedFirst
<1>2. ASSUME NEW c \in Children
      PROVE  /\ at[c] \in (held[c] \cap Everything) \cup {Nowhere}
             /\ \A f \in held[c] \cap Visible :
                   f \in Everything => at[c] # Nowhere /\ ~Precedes(f, at[c])
    <2> DEFINE S == held[c]
    <2>1. at[c] = FirstOf(S)
        OBVIOUS
    <2>2. S \in SUBSET Everything
        BY Owners
    <2> HIDE DEF S, at
    <2>3. /\ at[c] \in S \cup {Nowhere}
          /\ \A f \in S : at[c] \in S /\ ~Precedes(f, at[c])
        BY <2>1, <2>2, FirstIs
    <2> QED BY <2>2, <2>3, Order DEF S
<1>3. at \in [Children -> Everything \cup {Nowhere}]
    <2>1. \A c \in Children : at[c] \in Everything \cup {Nowhere}
        BY <1>2, Owners
    <2> QED BY <2>1
<1> HIDE DEF at
<1>4. OnFirsts(at, Everything) /\ Upward(Everything)
    BY <1>2, <1>3 DEF OnFirsts, Upward
<1> QED BY <1>1, <1>4, FindSmallestReaches

LEMMA LastReaches ==
    ASSUME HeldInv
    PROVE  ReachedBack(MergedLast, Everything)
<1> DEFINE at == [c \in Children |-> LastOf(held[c])]
<1>1. MergedLast = FindLargest(at)
    BY DEF MergedLast
<1>2. ASSUME NEW c \in Children
      PROVE  /\ at[c] \in (held[c] \cap Everything) \cup {Nowhere}
             /\ \A f \in held[c] \cap Visible :
                   f \in Everything => at[c] # Nowhere /\ ~Precedes(at[c], f)
    <2> DEFINE S == held[c]
    <2>1. at[c] = LastOf(S)
        OBVIOUS
    <2>2. S \in SUBSET Everything
        BY Owners
    <2> HIDE DEF S, at
    <2>3. /\ at[c] \in S \cup {Nowhere}
          /\ \A f \in S : at[c] \in S /\ ~Precedes(at[c], f)
        BY <2>1, <2>2, LastIs
    <2> QED BY <2>2, <2>3, Order DEF S
<1>3. at \in [Children -> Everything \cup {Nowhere}]
    <2>1. \A c \in Children : at[c] \in Everything \cup {Nowhere}
        BY <1>2, Owners
    <2> QED BY <2>1
<1> HIDE DEF at
<1>4. OnLasts(at, Everything) /\ Downward(Everything)
    BY <1>2, <1>3 DEF OnLasts, Downward
<1> QED BY <1>1, <1>4, FindLargestReaches

LEMMA SeenIs ==
    ASSUME HeldInv
    PROVE  /\ \A j : \A g \in SeenOf(j) :
                /\ g \in Visible /\ g.key = j /\ g.kind = "value"
                /\ \A f \in Visible : f.key = j => f.seq <= g.seq
           /\ \A g \in Visible :
                g.kind = "value" /\ (\A f \in Visible : f.key = g.key => f.seq <= g.seq) =>
                    g \in SeenOf(g.key) /\ g.key \in Shown
           /\ Shown \subseteq Nat
           /\ \A j \in Shown : \E g : g \in SeenOf(j)
<1>1. \A j : \A g \in SeenOf(j) :
         /\ g \in Visible /\ g.key = j /\ g.kind = "value"
         /\ \A f \in Visible : f.key = j => f.seq <= g.seq
    BY DEF SeenOf, Visible, Everything
<1>2. \A g \in Visible :
         g.kind = "value" /\ (\A f \in Visible : f.key = g.key => f.seq <= g.seq) =>
            g \in SeenOf(g.key)
    BY DEF SeenOf, Visible, Everything
<1>3. \A g \in Visible : g.key \in IterKeys
    BY Order DEF Visible, Entries
<1>4. IterKeys \subseteq Nat
    BY IteratorAssumption
<1> QED BY <1>1, <1>2, <1>3, <1>4 DEF Shown

-----------------------------------------------------------------------------
(* FindNextUserEntry.  What it wants are the keys from lo on that the       *)
(* snapshot shows: none of them is behind, and what is ahead and not hidden *)
(* is wanted and has everything newer of its key ahead.                    *)

ForwardStates == [m : Merged, over : BOOLEAN, skipping : BOOLEAN, skip : Nat \cup {Nowhere}]

Hidden(s, f) == s.skipping /\ f.key <= s.skip

ForwardInv(s, lo) ==
    /\ s \in ForwardStates
    /\ s.skipping => s.skip \in Nat
    /\ s.over => ~Valid(s.m) \/ Yields(At(s.m), s)
    /\ ~Valid(s.m) => \A j \in Shown : j < lo
    /\ Valid(s.m) =>
          /\ FwdAt(s.m)
          /\ \A j \in Shown : j >= lo => /\ \A g \in SeenOf(j) : ~Precedes(g, At(s.m))
                                         /\ s.skipping => j > s.skip
          /\ \A f \in Visible : ~Precedes(f, At(s.m)) =>
                /\ s.skipping => f.key >= s.skip
                /\ ~Hidden(s, f) =>
                      /\ f.key >= lo
                      /\ \A h \in Visible :
                            h.key = f.key /\ h.seq > f.seq => ~Precedes(h, At(s.m))

LEMMA ForwardStep ==
    ASSUME HeldInv, NEW lo \in Nat, NEW s, ForwardInv(s, lo),
           Valid(s.m), ~Yields(At(s.m), s), s.over = FALSE
    PROVE  /\ ForwardInv(ForwardRound(s), lo)
           /\ ForwardRound(s).m = MergedNext(s.m)
<1> DEFINE x == At(s.m)
           n == MergedNext(s.m)
           t == ForwardRound(s)
<1>1. t = [m |-> n, over |-> FALSE, skipping |-> s.skipping \/ Skips(x),
           skip |-> IF Skips(x) THEN x.key ELSE s.skip]
    BY DEF ForwardRound
<1>2. s \in ForwardStates /\ s.m \in Merged /\ FwdAt(s.m) /\ (s.skipping => s.skip \in Nat)
    BY DEF ForwardInv, ForwardStates
<1>3. x \in Everything /\ x.key \in Nat /\ x.seq \in Nat
    BY <1>2, StandsAt, Order
<1>4. Reached(n, RestAfter(s.m))
    BY <1>2, NextReaches
<1>5. n \in Merged
    BY <1>4 DEF Reached
<1> HIDE DEF t, n
<1>6. t.m = n /\ t.over = FALSE /\ t \in ForwardStates /\ (t.skipping => t.skip \in Nat)
    BY <1>1, <1>2, <1>3, <1>5 DEF ForwardStates
<1>7. Skips(x) => t.skipping = TRUE /\ t.skip = x.key
    BY <1>1
<1>8. ~Skips(x) => t.skipping = s.skipping /\ t.skip = s.skip
    BY <1>1, <1>2 DEF ForwardStates
<1>9. Visible \subseteq Everything
    BY Owners
<1>10. ASSUME NEW j \in Shown, j >= lo, NEW g \in SeenOf(j)
       PROVE  Precedes(x, g) /\ (t.skipping => j > t.skip)
    <2>1. /\ ~Precedes(g, x) /\ (s.skipping => j > s.skip)
          /\ g \in Visible /\ g.key = j /\ g.kind = "value" /\ j \in Nat
          /\ \A f \in Visible : f.key = j => f.seq <= g.seq
        BY <1>10, SeenIs DEF ForwardInv
    <2>2. g # x
        <3>1. g = x => x.seq <= snapshot /\ x.kind = "value" /\ ~(s.skipping /\ x.key <= s.skip)
            BY <1>2, <2>1 DEF Visible
        <3> QED BY <3>1 DEF Yields
    <2>3. Precedes(x, g)
        BY <1>3, <1>9, <2>1, <2>2, Order
    <2>4. CASE Skips(x)
        <3>1. x \in Visible
            BY <1>3, <2>4 DEF Skips, Visible
        <3>2. x.key <= j /\ (x.key = j => x.seq > g.seq)
            BY <1>3, <1>9, <2>1, <2>3, Order
        <3>3. g.seq \in Nat
            BY <1>9, <2>1, Order
        <3>4. x.key # j
            BY <1>3, <2>1, <3>1, <3>2, <3>3
        <3> QED BY <1>3, <1>7, <2>1, <2>3, <2>4, <3>2, <3>4
    <2>5. CASE ~Skips(x)
        BY <1>8, <2>1, <2>3, <2>5
    <2> QED BY <2>4, <2>5
<1>11. ASSUME NEW f \in Visible, Precedes(x, f)
       PROVE  /\ t.skipping => f.key >= t.skip
              /\ ~Hidden(t, f) =>
                    /\ f.key >= lo
                    /\ \A h \in Visible : h.key = f.key /\ h.seq > f.seq => Precedes(x, h)
    <2>1. /\ ~Precedes(f, x) /\ f.key \in Nat /\ f.seq \in Nat /\ x.key <= f.key
          /\ x.key = f.key => x.seq > f.seq
        BY <1>3, <1>9, <1>11, Order
    <2>2. /\ s.skipping => f.key >= s.skip
          /\ ~Hidden(s, f) =>
                /\ f.key >= lo
                /\ \A h \in Visible : h.key = f.key /\ h.seq > f.seq => ~Precedes(h, x)
        BY <2>1 DEF ForwardInv
    <2>3. ASSUME NEW h \in Visible, h.key = f.key, h.seq > f.seq, ~Precedes(h, x)
          PROVE  h = x \/ Precedes(x, h)
        BY <1>3, <1>9, <2>3, Order
    <2>4. CASE Skips(x)
        <3>1. t.skipping = TRUE /\ t.skip = x.key /\ x \in Visible
            BY <1>3, <1>7, <2>4 DEF Skips, Visible
        <3>2. ~Precedes(x, x)
            BY <1>3, Order
        <3>3. s.skipping => x.key >= s.skip
            BY <3>1, <3>2 DEF ForwardInv
        <3>4. SUFFICES ASSUME ~Hidden(t, f)
                       PROVE  /\ f.key >= lo
                              /\ \A h \in Visible : h.key = f.key /\ h.seq > f.seq => Precedes(x, h)
            BY <2>1, <3>1
        <3>5. f.key > x.key
            BY <1>3, <2>1, <3>1, <3>4 DEF Hidden
        <3>6. ~Hidden(s, f)
            BY <1>2, <1>3, <2>1, <3>3, <3>5 DEF Hidden
        <3> QED BY <1>3, <2>2, <2>3, <3>5, <3>6
    <2>5. CASE ~Skips(x)
        <3>1. t.skipping = s.skipping /\ t.skip = s.skip
            BY <1>8, <2>5
        <3>2. Hidden(t, f) <=> Hidden(s, f)
            BY <3>1 DEF Hidden
        <3>3. ASSUME ~Hidden(s, f), NEW h \in Visible, h.key = f.key, h.seq > f.seq
              PROVE  Precedes(x, h)
            <4>1. h = x \/ Precedes(x, h)
                BY <2>2, <2>3, <3>3
            <4>2. h # x
                <5>1. h = x => x.seq <= snapshot /\ x.kind = "value"
                    <6>1. h = x => x.kind \in Kinds
                        BY <1>3, Order DEF Entries
                    <6> QED BY <2>5, <6>1 DEF Visible, Skips, Kinds
                <5>2. h = x => ~(s.skipping /\ x.key <= s.skip)
                    BY <3>3 DEF Hidden
                <5> QED BY <5>1, <5>2 DEF Yields
            <4> QED BY <4>1, <4>2
        <3> QED BY <2>2, <3>1, <3>2, <3>3
    <2> QED BY <2>4, <2>5
<1>12. CASE ~Valid(n)
    <2>1. \A j \in Shown : j < lo
        <3> SUFFICES ASSUME NEW j \in Shown, ~(j < lo) PROVE FALSE
            OBVIOUS
        <3>1. PICK g : g \in SeenOf(j)
            BY SeenIs
        <3>2. j >= lo /\ g \in Visible
            BY <3>1, SeenIs
        <3>3. g \in RestAfter(s.m)
            BY <1>9, <1>10, <3>1, <3>2 DEF RestAfter
        <3> QED BY <1>4, <1>12, <3>2, <3>3 DEF Reached
    <2>2. ForwardInv(t, lo)
        BY <1>6, <1>12, <2>1 DEF ForwardInv
    <2> QED BY <1>6, <2>2 DEF t, n
<1>13. CASE Valid(n)
    <2> DEFINE y == At(n)
    <2>1. /\ FwdAt(n) /\ y \in Everything /\ Precedes(x, y)
          /\ \A f \in Visible : Precedes(x, f) => ~Precedes(f, y)
        BY <1>4, <1>9, <1>13 DEF Reached, RestAfter
    <2>2. \A f \in Visible : ~Precedes(f, y) => Precedes(x, f)
        BY <1>3, <1>9, <2>1, Order
    <2>3. \A j \in Shown : j >= lo => /\ \A g \in SeenOf(j) : ~Precedes(g, y)
                                      /\ t.skipping => j > t.skip
        <3> SUFFICES ASSUME NEW j \in Shown, j >= lo
                     PROVE  /\ \A g \in SeenOf(j) : ~Precedes(g, y)
                            /\ t.skipping => j > t.skip
            OBVIOUS
        <3>1. PICK g : g \in SeenOf(j)
            BY SeenIs
        <3>2. t.skipping => j > t.skip
            BY <1>10, <3>1
        <3>3. \A e \in SeenOf(j) : ~Precedes(e, y)
            BY <1>10, <2>1, SeenIs
        <3> QED BY <3>2, <3>3
    <2>4. \A f \in Visible : ~Precedes(f, y) =>
             /\ t.skipping => f.key >= t.skip
             /\ ~Hidden(t, f) =>
                   /\ f.key >= lo
                   /\ \A h \in Visible : h.key = f.key /\ h.seq > f.seq => ~Precedes(h, y)
        BY <1>11, <2>1, <2>2
    <2> HIDE DEF y
    <2>5. ForwardInv(t, lo)
        BY <1>6, <1>13, <2>1, <2>3, <2>4 DEF ForwardInv, y
    <2> QED BY <1>6, <2>5 DEF t, n
<1> QED BY <1>6, <1>12, <1>13 DEF t, n

\* A loop whose rounds lower a rank until they are done.
LEMMA LoopEnds ==
    ASSUME NEW S, NEW x \in S, NEW N \in Nat, NEW round \in [S -> S], NEW rank \in [S -> Nat],
           NEW done \in SUBSET S, rank[x] < N,
           \A s \in done : round[s] \in done,
           \A s \in S \ done : round[s] \in done \/ rank[round[s]] < rank[s],
           NEW f, f[0] = x, \A n \in 1 .. N : f[n - 1] \in S => f[n] = round[f[n - 1]]
    PROVE  f[N] \in done
<1> DEFINE P == {n \in 0 .. N : f[n] \in S /\ (f[n] \in done \/ n + rank[f[n]] <= rank[x])}
<1>1. 0 \in P
    OBVIOUS
<1>2. ASSUME NEW n \in 1 .. N, n - 1 \in P PROVE n \in P
    <2> DEFINE s == f[n - 1]
    <2>1. s \in S /\ (s \in done \/ n - 1 + rank[s] <= rank[x]) /\ f[n] = round[s]
        BY <1>2
    <2> HIDE DEF s
    <2>2. round[s] \in S /\ rank[s] \in Nat /\ rank[round[s]] \in Nat /\ rank[x] \in Nat
        BY <2>1
    <2>3. round[s] \in done \/ n + rank[round[s]] <= rank[x]
        BY <2>1, <2>2
    <2> QED BY <2>1, <2>2, <2>3
<1> HIDE DEF P
<1>3. N \in P
    BY <1>1, <1>2, UpTo
<1>4. f[N] \in S /\ (f[N] \in done \/ N + rank[f[N]] <= rank[x])
    BY <1>3 DEF P
<1>5. rank[f[N]] \in Nat /\ rank[x] \in Nat
    BY <1>4
<1> QED BY <1>4, <1>5

Loop(round, x, N, f) == f = [n \in 0 .. N |-> IF n = 0 THEN x ELSE round[f[n - 1]]]

LEMMA LoopExists ==
    ASSUME NEW S, NEW x \in S, NEW N \in Nat, NEW round \in [S -> S]
    PROVE  \E f \in [0 .. N -> S] : Loop(round, x, N, f)
<1> DEFINE step == [p \in (1 .. N) \X S |-> round[p[2]]]
<1>1. step \in [(1 .. N) \X S -> S]
    OBVIOUS
<1>2. \A n \in 1 .. N : \A s \in S : step[<<n, s>>] = round[s]
    OBVIOUS
<1> HIDE DEF step
<1>3. PICK f \in [0 .. N -> S] : Repeats(step, x, N, f)
    BY <1>1, RepeatsExist
<1>4. f[0] = x /\ \A n \in 1 .. N : f[n] = step[<<n, f[n - 1]>>]
    BY <1>3 DEF Repeats
<1>5. \A n \in 0 .. N : f[n] = IF n = 0 THEN x ELSE round[f[n - 1]]
    <2> SUFFICES ASSUME NEW n \in 1 .. N PROVE f[n] = round[f[n - 1]]
        BY <1>4
    <2>1. f[n - 1] \in S
        OBVIOUS
    <2> QED BY <1>2, <1>4, <2>1
<1> QED BY <1>5 DEF Loop

LEMMA Fewer ==
    ASSUME NEW S, IsFiniteSet(S), NEW x \in S, NEW T, T \subseteq S \ {x}
    PROVE  Cardinality(T) < Cardinality(S)
<1>1. IsFiniteSet(S \ {x}) /\ Cardinality(S \ {x}) = Cardinality(S) - 1
    BY FS_RemoveElement
<1>2. IsFiniteSet(T) /\ Cardinality(T) <= Cardinality(S \ {x})
    BY <1>1, FS_Subset
<1>3. Cardinality(S) \in Nat /\ Cardinality(T) \in Nat
    BY <1>2, FS_CardinalityType
<1> QED BY <1>1, <1>2, <1>3

\* The entries a merged iterator has not passed, in either direction.
Ahead(m) == IF Valid(m) THEN {f \in Everything : ~Precedes(f, At(m))} ELSE {}
Left(m)  == IF Valid(m) THEN {f \in Everything : ~Precedes(At(m), f)} ELSE {}

LEMMA AheadShrinks ==
    ASSUME HeldInv, NEW m, m \in Merged, FwdAt(m)
    PROVE  Cardinality(Ahead(MergedNext(m))) < Cardinality(Ahead(m))
<1> DEFINE x == At(m)
           n == MergedNext(m)
<1>1. Reached(n, RestAfter(m)) /\ Valid(m) /\ x \in Everything
    BY NextReaches, StandsAt
<1> HIDE DEF n
<1>2. Ahead(n) \subseteq Ahead(m) \ {x}
    <2>1. CASE Valid(n)
        <3>1. At(n) \in Everything /\ Precedes(x, At(n))
            BY <1>1, <2>1 DEF Reached, RestAfter
        <3> QED BY <1>1, <2>1, <3>1, Order DEF Ahead
    <2> QED BY <2>1 DEF Ahead
<1>3. x \in Ahead(m)
    BY <1>1, Order DEF Ahead
<1>4. IsFiniteSet(Ahead(m))
    <2>1. Ahead(m) \subseteq Everything
        BY DEF Ahead
    <2> QED BY <2>1, EverythingFinite, FS_Subset
<1> QED BY <1>2, <1>3, <1>4, Fewer DEF n

LEMMA LeftShrinks ==
    ASSUME HeldInv, NEW m, m \in Merged, FwdAt(m) \/ BwdAt(m)
    PROVE  Cardinality(Left(MergedPrev(m))) < Cardinality(Left(m))
<1> DEFINE x == At(m)
           n == MergedPrev(m)
<1>1. ReachedBack(n, RestBefore(m)) /\ Valid(m) /\ x \in Everything
    BY PrevReaches, StandsAt
<1> HIDE DEF n
<1>2. Left(n) \subseteq Left(m) \ {x}
    <2>1. CASE Valid(n)
        <3>1. At(n) \in Everything /\ Precedes(At(n), x)
            BY <1>1, <2>1 DEF ReachedBack, RestBefore
        <3> QED BY <1>1, <2>1, <3>1, Order DEF Left
    <2> QED BY <2>1 DEF Left
<1>3. x \in Left(m)
    BY <1>1, Order DEF Left
<1>4. IsFiniteSet(Left(m))
    <2>1. Left(m) \subseteq Everything
        BY DEF Left
    <2> QED BY <2>1, EverythingFinite, FS_Subset
<1> QED BY <1>2, <1>3, <1>4, Fewer DEF n

LEMMA RoundsEnough ==
    ASSUME HeldInv
    PROVE  /\ Rounds \in Nat
           /\ \A m : Cardinality(Ahead(m)) \in Nat /\ Cardinality(Ahead(m)) < Rounds
           /\ \A m : Cardinality(Left(m)) \in Nat /\ Cardinality(Left(m)) < Rounds
<1>1. IsFiniteSet(Everything) /\ Cardinality(Everything) \in Nat /\ Rounds = Cardinality(Everything) + 1
    BY EverythingFinite, FS_CardinalityType DEF Rounds, Everything
<1>2. \A S \in SUBSET Everything : Cardinality(S) \in Nat /\ Cardinality(S) < Rounds
    <2> SUFFICES ASSUME NEW S \in SUBSET Everything
                 PROVE  Cardinality(S) \in Nat /\ Cardinality(S) < Rounds
        OBVIOUS
    <2>1. IsFiniteSet(S) /\ Cardinality(S) <= Cardinality(Everything)
        BY <1>1, FS_Subset
    <2>2. Cardinality(S) \in Nat
        BY <2>1, FS_CardinalityType
    <2> QED BY <1>1, <2>1, <2>2
<1>3. \A m : Ahead(m) \in SUBSET Everything /\ Left(m) \in SUBSET Everything
    BY DEF Ahead, Left
<1> QED BY <1>1, <1>2, <1>3

LEMMA ForwardKeeps ==
    ASSUME HeldInv, NEW lo \in Nat, NEW s, ForwardInv(s, lo)
    PROVE  /\ ForwardInv(ForwardRound(s), lo)
           /\ s.over = TRUE => ForwardRound(s).over = TRUE
           /\ s.over = FALSE =>
                 \/ ForwardRound(s).over = TRUE
                 \/ Cardinality(Ahead(ForwardRound(s).m)) < Cardinality(Ahead(s.m))
<1>0. s \in ForwardStates /\ s.over \in BOOLEAN /\ s.m \in Merged
    BY DEF ForwardInv, ForwardStates
<1>1. CASE s.over = TRUE \/ ~Valid(s.m) \/ Yields(At(s.m), s)
    <2> DEFINE t == ForwardRound(s)
    <2>1. t = [s EXCEPT !.over = TRUE]
        BY <1>0, <1>1 DEF ForwardRound
    <2> HIDE DEF t
    <2>2. /\ t \in ForwardStates /\ t.over = TRUE
          /\ t.m = s.m /\ t.skipping = s.skipping /\ t.skip = s.skip
        BY <1>0, <2>1 DEF ForwardStates
    <2>3. ~Valid(s.m) \/ Yields(At(s.m), s)
        BY <1>1 DEF ForwardInv
    <2>4. ForwardInv(t, lo)
        BY <2>2, <2>3 DEF ForwardInv, Hidden, Yields
    <2> QED BY <2>2, <2>4 DEF t
<1>2. CASE s.over = FALSE /\ Valid(s.m) /\ ~Yields(At(s.m), s)
    <2>1. ForwardInv(ForwardRound(s), lo) /\ ForwardRound(s).m = MergedNext(s.m)
        BY <1>2, ForwardStep
    <2>2. FwdAt(s.m)
        BY <1>2 DEF ForwardInv
    <2> QED BY <1>0, <1>2, <2>1, <2>2, AheadShrinks
<1> QED BY <1>0, <1>1, <1>2

LEMMA ForwardRuns ==
    ASSUME HeldInv, NEW lo \in Nat, NEW s, ForwardInv(s, lo), s.over = FALSE
    PROVE  \E end : /\ ForwardInv(end, lo) /\ end.over = TRUE
                    /\ FindNextUserEntry(s.m, s.skipping, s.skip) = Forward(end)
<1> DEFINE S == {r \in ForwardStates : ForwardInv(r, lo)}
           done == {r \in S : r.over = TRUE}
           round == [r \in S |-> ForwardRound(r)]
           rank == [r \in S |-> Cardinality(Ahead(r.m))]
           N == Rounds
           IsRun(f) == f = [n \in 0 .. N |->
                              IF n = 0
                              THEN [m |-> s.m, over |-> FALSE, skipping |-> s.skipping, skip |-> s.skip]
                              ELSE ForwardRound(f[n - 1])]
           run == CHOOSE f : IsRun(f)
<1>1. \A r \in S : /\ ForwardInv(r, lo) /\ r.over \in BOOLEAN
                   /\ round[r] = ForwardRound(r) /\ rank[r] = Cardinality(Ahead(r.m))
    BY DEF ForwardStates
<1>2. s \in S /\ \A r : ForwardInv(r, lo) => r \in S
    BY DEF ForwardInv
<1>0. s = [m |-> s.m, over |-> FALSE, skipping |-> s.skipping, skip |-> s.skip]
    BY <1>2 DEF ForwardStates
<1>3. round \in [S -> S]
    <2>1. \A r \in S : ForwardRound(r) \in S
        BY <1>1, <1>2, ForwardKeeps
    <2> QED BY <2>1
<1>4. N \in Nat /\ rank \in [S -> Nat] /\ rank[s] < N
    BY <1>2, RoundsEnough
<1>5. /\ done \in SUBSET S /\ \A r \in done : round[r] \in done
      /\ \A r \in S \ done : round[r] \in done \/ rank[round[r]] < rank[r]
    <2>1. done \in SUBSET S
        OBVIOUS
    <2>2. \A r \in S : r \in done <=> r.over = TRUE
        OBVIOUS
    <2> HIDE DEF S, done, round, rank
    <2>3. ASSUME NEW r \in S
          PROVE  /\ r \in done => round[r] \in done
                 /\ r \notin done => round[r] \in done \/ rank[round[r]] < rank[r]
        <3>1. /\ round[r] \in S /\ round[r] = ForwardRound(r)
              /\ rank[r] = Cardinality(Ahead(r.m)) /\ rank[round[r]] = Cardinality(Ahead(round[r].m))
              /\ ForwardInv(r, lo) /\ r.over \in BOOLEAN
            BY <1>1, <1>3
        <3>2. /\ r.over = TRUE => ForwardRound(r).over = TRUE
              /\ r.over = FALSE =>
                    \/ ForwardRound(r).over = TRUE
                    \/ Cardinality(Ahead(ForwardRound(r).m)) < Cardinality(Ahead(r.m))
            BY <3>1, ForwardKeeps
        <3> QED BY <2>2, <3>1, <3>2
    <2> QED BY <2>1, <2>3
<1> HIDE DEF S, done, round, rank, N
<1>6. \E f : IsRun(f)
    <2>1. PICK f \in [0 .. N -> S] : Loop(round, s, N, f)
        BY <1>2, <1>3, <1>4, LoopExists
    <2>2. \A n \in 0 .. N : n # 0 => f[n - 1] \in S
        BY <1>4, <2>1
    <2>3. f = [n \in 0 .. N |-> IF n = 0 THEN s ELSE ForwardRound(f[n - 1])]
        BY <1>1, <2>1, <2>2 DEF Loop
    <2> QED BY <1>0, <2>3
<1>7. run = [n \in 0 .. N |-> IF n = 0 THEN s ELSE ForwardRound(run[n - 1])]
    BY <1>0, <1>6
<1>8. FindNextUserEntry(s.m, s.skipping, s.skip) = Forward(run[N])
    BY DEF FindNextUserEntry, N
<1> HIDE DEF run
<1>9. run[0] = s /\ \A n \in 1 .. N : run[n - 1] \in S => run[n] = round[run[n - 1]]
    <2>1. \A n \in 0 .. N : run[n] = IF n = 0 THEN s ELSE ForwardRound(run[n - 1])
        BY <1>7
    <2>2. 0 \in 0 .. N /\ \A n \in 1 .. N : n \in 0 .. N /\ n # 0
        BY <1>4
    <2> QED BY <1>1, <2>1, <2>2
<1>10. run[N] \in done
    BY <1>2, <1>3, <1>4, <1>5, <1>9, LoopEnds
<1>11. run[N] \in S /\ run[N].over = TRUE
    BY <1>10 DEF done
<1> QED BY <1>1, <1>8, <1>11

-----------------------------------------------------------------------------
(* Where a call leaves an iterator.  A cursor that came forwards is at the  *)
(* merged iterator's entry; one that came backwards has it before its key,  *)
(* or before everything, with all it may see of smaller keys not passed.   *)

Landed(m, c, w) ==
    /\ c.valid \in BOOLEAN /\ c.forward \in BOOLEAN
    /\ c.valid = TRUE <=> w # Nowhere
    /\ c.valid = TRUE =>
          /\ m \in Merged /\ c.key = w /\ w \in Nat
          /\ \E e \in SeenOf(w) : c.value = e.seq
          /\ c.forward = TRUE => Valid(m) /\ FwdAt(m) /\ At(m).key = w
          /\ c.forward = FALSE =>
                /\ Valid(m) => BwdAt(m) /\ At(m).key < w
                /\ \A f \in Visible : f.key < w => Valid(m) /\ ~Precedes(At(m), f)

LEMMA LeastIs ==
    ASSUME NEW S, S \subseteq Nat
    PROVE  /\ S = {} => LeastOf(S) = Nowhere
           /\ \A k \in S : (\A j \in S : k <= j) => LeastOf(S) = k
<1>1. ASSUME NEW k \in S, \A j \in S : k <= j PROVE LeastOf(S) = k
    <2> DEFINE least == CHOOSE i \in S : \A j \in S : i <= j
    <2>1. least \in S /\ \A j \in S : least <= j
        BY <1>1
    <2>2. LeastOf(S) = least
        BY DEF LeastOf
    <2> HIDE DEF least
    <2> QED BY <1>1, <2>1, <2>2
<1> QED BY <1>1 DEF LeastOf

LEMMA GreatestIs ==
    ASSUME NEW S, S \subseteq Nat
    PROVE  /\ S = {} => GreatestOf(S) = Nowhere
           /\ \A k \in S : (\A j \in S : k >= j) => GreatestOf(S) = k
<1>1. ASSUME NEW k \in S, \A j \in S : k >= j PROVE GreatestOf(S) = k
    <2> DEFINE greatest == CHOOSE i \in S : \A j \in S : i >= j
    <2>1. greatest \in S /\ \A j \in S : greatest >= j
        BY <1>1
    <2>2. GreatestOf(S) = greatest
        BY DEF GreatestOf
    <2> HIDE DEF greatest
    <2> QED BY <1>1, <2>1, <2>2
<1> QED BY <1>1 DEF GreatestOf

LEMMA NowhereNumber == Nowhere \notin Nat
BY IteratorAssumption

LEMMA NotValidLands ==
    ASSUME NEW m, NEW forward \in BOOLEAN
    PROVE  Landed(NotValid(m, forward).m, NotValid(m, forward).cursor, Nowhere)
<1>1. /\ NotValid(m, forward).cursor.valid = FALSE
      /\ NotValid(m, forward).cursor.forward = forward
    BY DEF NotValid
<1> QED BY <1>1 DEF Landed

LEMMA ForwardLands ==
    ASSUME HeldInv, NEW lo \in Nat, NEW end, ForwardInv(end, lo), end.over = TRUE
    PROVE  Landed(Forward(end).m, Forward(end).cursor, LeastOf({j \in Shown : j >= lo}))
<1> DEFINE S == {j \in Shown : j >= lo}
<1>0. S \subseteq Nat
    BY SeenIs
<1>1. CASE ~Valid(end.m)
    <2>1. S = {}
        <3>1. \A j \in Shown : j < lo /\ j \in Nat
            BY <1>1, SeenIs DEF ForwardInv
        <3> QED BY <3>1
    <2>2. LeastOf(S) = Nowhere
        BY <1>0, <2>1, LeastIs
    <2>3. Forward(end) = NotValid(end.m, TRUE)
        BY <1>1 DEF Forward
    <2> QED BY <2>2, <2>3, NotValidLands
<1>2. CASE Valid(end.m)
    <2> DEFINE x == At(end.m)
               k == x.key
               c == [valid |-> TRUE, forward |-> TRUE, key |-> k, value |-> x.seq]
    <2>1. Forward(end) = [m |-> end.m, cursor |-> c]
        BY <1>2 DEF Forward
    <2>2. end.m \in Merged /\ FwdAt(end.m)
        BY <1>2 DEF ForwardInv, ForwardStates
    <2>3. x \in Everything /\ k \in Nat /\ x.seq \in Nat
        BY <2>2, StandsAt, Order
    <2>4. Yields(x, end)
        BY <1>2 DEF ForwardInv
    <2>5. x \in Visible /\ x.kind = "value" /\ ~Hidden(end, x)
        BY <2>3, <2>4 DEF Yields, Visible, Hidden
    <2>6. k >= lo /\ \A h \in Visible : h.key = k => h.seq <= x.seq
        <3>1. ~Precedes(x, x)
            BY <2>3, Order
        <3>2. k >= lo /\ \A h \in Visible : h.key = k /\ h.seq > x.seq => ~Precedes(h, x)
            BY <1>2, <2>5, <3>1 DEF ForwardInv
        <3>3. \A h \in Visible : h.seq \in Nat /\ (h.key = k /\ h.seq > x.seq => Precedes(h, x))
            BY <2>3, Order, Owners
        <3> QED BY <2>3, <3>2, <3>3
    <2>7. x \in SeenOf(k) /\ k \in S
        BY <2>5, <2>6, SeenIs
    <2>8. \A j \in S : k <= j
        <3> SUFFICES ASSUME NEW j \in S PROVE k <= j
            OBVIOUS
        <3>1. PICK g : g \in SeenOf(j)
            BY SeenIs
        <3>2. g \in Everything /\ g.key = j /\ ~Precedes(g, x)
            BY <1>2, <3>1, SeenIs, Owners DEF ForwardInv
        <3> QED BY <2>3, <3>2, Order
    <2>9. LeastOf(S) = k
        BY <1>0, <2>7, <2>8, LeastIs
    <2> HIDE DEF x, k, S
    <2>10. Landed(end.m, c, k)
        <3>1. /\ c.valid = TRUE /\ c.forward = TRUE /\ c.key = k /\ c.value = x.seq
              /\ At(end.m).key = k
            BY DEF k, x
        <3> HIDE DEF c
        <3> QED BY <1>2, <2>2, <2>3, <2>7, <3>1, NowhereNumber DEF Landed
    <2>11. Forward(end).m = end.m /\ Forward(end).cursor = c
        BY <2>1
    <2> QED BY <2>9, <2>10, <2>11 DEF S
<1> QED BY <1>1, <1>2

\* Nothing that is wanted is outside a rest, and nothing else to see is in it.
LEMMA SeekLands ==
    ASSUME HeldInv, NEW lo \in Nat, NEW rest, Upward(rest), NEW m, Reached(m, rest),
           \A f \in Visible : f \in rest <=> f.key >= lo
    PROVE  Landed(SeekFrom(m).m, SeekFrom(m).cursor, LeastOf({j \in Shown : j >= lo}))
<1> DEFINE S == {j \in Shown : j >= lo}
<1>1. CASE ~Valid(m)
    <2>1. S = {}
        <3> SUFFICES ASSUME NEW j \in S PROVE FALSE
            OBVIOUS
        <3>1. PICK g : g \in SeenOf(j)
            BY SeenIs
        <3>2. g \in Visible /\ g \in rest
            BY <3>1, SeenIs
        <3> QED BY <1>1, <3>2 DEF Reached
    <2>2. LeastOf(S) = Nowhere
        <3>1. S \subseteq Nat
            BY SeenIs
        <3> QED BY <2>1, <3>1, LeastIs
    <2>3. SeekFrom(m) = NotValid(m, TRUE)
        BY <1>1 DEF SeekFrom
    <2> QED BY <2>2, <2>3, NotValidLands
<1>2. CASE Valid(m)
    <2> DEFINE s == [m |-> m, over |-> FALSE, skipping |-> FALSE, skip |-> Nowhere]
               x == At(m)
    <2>1. SeekFrom(m) = FindNextUserEntry(m, FALSE, Nowhere)
        BY <1>2 DEF SeekFrom
    <2>2. /\ m \in Merged /\ FwdAt(m) /\ x \in rest /\ x \in Everything
          /\ \A f \in Visible : f \in rest => ~Precedes(f, x)
        BY <1>2 DEF Reached, Upward
    <2>3. \A f \in Visible : ~Precedes(f, x) => f \in rest
        BY <2>2, Owners, Order DEF Upward
    <2>4. /\ s.m = m /\ s.over = FALSE /\ s.skipping = FALSE /\ s \in ForwardStates
        BY <2>2 DEF ForwardStates
    <2> HIDE DEF s
    <2>5. \A j \in Shown : j >= lo => \A g \in SeenOf(j) : ~Precedes(g, x)
        BY <2>2, SeenIs
    <2>6. ASSUME NEW f \in Visible, ~Precedes(f, x)
          PROVE  /\ f.key >= lo
                 /\ \A h \in Visible : h.key = f.key /\ h.seq > f.seq => ~Precedes(h, x)
        BY <2>2, <2>3, <2>6
    <2> HIDE DEF x
    <2>7. ForwardInv(s, lo)
        BY <1>2, <2>2, <2>4, <2>5, <2>6 DEF ForwardInv, x
    <2>8. PICK end : /\ ForwardInv(end, lo) /\ end.over = TRUE
                     /\ FindNextUserEntry(m, FALSE, Nowhere) = Forward(end)
        <3>1. FindNextUserEntry(m, FALSE, Nowhere) = FindNextUserEntry(s.m, s.skipping, s.skip)
            BY DEF s
        <3> QED BY <2>4, <2>7, <3>1, ForwardRuns
    <2> QED BY <2>1, <2>8, ForwardLands
<1> QED BY <1>1, <1>2

LEMMA NextLands ==
    ASSUME HeldInv, NEW key \in Nat, NEW rest, Upward(rest), NEW m, Reached(m, rest),
           \A f \in Visible : f.key > key => f \in rest,
           \A f \in Visible : f \in rest => f.key >= key,
           NEW r, r = IF Valid(m) THEN FindNextUserEntry(m, TRUE, key) ELSE NotValid(m, TRUE)
    PROVE  Landed(r.m, r.cursor, LeastOf({j \in Shown : j > key}))
<1> DEFINE S == {j \in Shown : j > key}
           lo == key + 1
<1>0. lo \in Nat /\ S = {j \in Shown : j >= lo} /\ S \subseteq Nat
    BY SeenIs
<1>1. CASE ~Valid(m)
    <2>1. S = {}
        <3> SUFFICES ASSUME NEW j \in S PROVE FALSE
            OBVIOUS
        <3>1. PICK g : g \in SeenOf(j)
            BY SeenIs
        <3>2. g \in Visible /\ g \in rest
            BY <3>1, SeenIs
        <3> QED BY <1>1, <3>2 DEF Reached
    <2>2. LeastOf(S) = Nowhere
        BY <1>0, <2>1, LeastIs
    <2>3. r = NotValid(m, TRUE)
        BY <1>1
    <2> QED BY <2>2, <2>3, NotValidLands
<1>2. CASE Valid(m)
    <2> DEFINE s == [m |-> m, over |-> FALSE, skipping |-> TRUE, skip |-> key]
               x == At(m)
    <2>1. r = FindNextUserEntry(m, TRUE, key)
        BY <1>2
    <2>2. /\ m \in Merged /\ FwdAt(m) /\ x \in rest /\ x \in Everything
          /\ \A f \in Visible : f \in rest => ~Precedes(f, x)
        BY <1>2 DEF Reached, Upward
    <2>3. \A f \in Visible : ~Precedes(f, x) => f \in rest
        BY <2>2, Owners, Order DEF Upward
    <2>4. /\ s.m = m /\ s.over = FALSE /\ s.skipping = TRUE /\ s.skip = key /\ s \in ForwardStates
        BY <2>2 DEF ForwardStates
    <2> HIDE DEF s
    <2>5. \A j \in Shown : j >= lo => j > key /\ \A g \in SeenOf(j) : ~Precedes(g, x)
        <3>1. \A j \in Shown : j >= lo => j > key
            BY SeenIs
        <3> QED BY <2>2, <3>1, SeenIs
    <2>6. ASSUME NEW f \in Visible, ~Precedes(f, x)
          PROVE  /\ f.key >= key
                 /\ ~(f.key <= key) =>
                       /\ f.key >= lo
                       /\ \A h \in Visible : h.key = f.key /\ h.seq > f.seq => ~Precedes(h, x)
        <3>1. f.key \in Nat
            BY Order, Owners
        <3> QED BY <2>2, <2>3, <2>6, <3>1
    <2> HIDE DEF x, lo
    <2>7. ForwardInv(s, lo)
        BY <1>2, <2>2, <2>4, <2>5, <2>6 DEF ForwardInv, Hidden, x
    <2>8. PICK end : /\ ForwardInv(end, lo) /\ end.over = TRUE
                     /\ FindNextUserEntry(m, TRUE, key) = Forward(end)
        <3>1. FindNextUserEntry(m, TRUE, key) = FindNextUserEntry(s.m, s.skipping, s.skip)
            BY DEF s
        <3> QED BY <1>0, <2>4, <2>7, <3>1, ForwardRuns
    <2>9. Landed(r.m, r.cursor, LeastOf({j \in Shown : j >= lo}))
        BY <1>0, <2>1, <2>8, ForwardLands
    <2> QED BY <1>0, <2>9
<1> QED BY <1>1, <1>2

-----------------------------------------------------------------------------
(* FindPrevUserEntry.  Wanted are the shown keys in a set B: each is still  *)
(* to come or is the one kept, and what is kept is the newest of its key   *)
(* that was passed.                                                        *)

BackwardStates == [m : Merged, over : BOOLEAN, kind : Kinds,
                   key : Nat \cup {Nowhere}, value : Nat \cup {Nowhere}]

Passed(m, f) == ~Valid(m) \/ Precedes(At(m), f)

Keeps(s, g) ==
    /\ Passed(s.m, g) /\ g.kind = "value" /\ s.key = g.key /\ s.value = g.seq
    /\ \A h \in Visible :
          Passed(s.m, h) => h.key >= g.key /\ (h.key = g.key => h.seq <= g.seq)

BackwardInv(s, B) ==
    /\ s \in BackwardStates
    /\ s.over = TRUE => ~Valid(s.m) \/ StopsBefore(At(s.m), s)
    /\ Valid(s.m) => BwdAt(s.m)
    /\ \A f \in Visible : ~Passed(s.m, f) => f.key \in B
    /\ s.kind = "value" => \E g \in Visible : Keeps(s, g) /\ g.key \in B
    /\ \A j \in Shown \cap B : \A g \in SeenOf(j) :
          ~Passed(s.m, g) \/ (s.kind = "value" /\ s.key = j)

LEMMA PrevPasses ==
    ASSUME HeldInv, NEW m, m \in Merged, FwdAt(m) \/ BwdAt(m)
    PROVE  /\ MergedPrev(m) \in Merged
           /\ Valid(MergedPrev(m)) => BwdAt(MergedPrev(m))
           /\ \A f \in Visible : Passed(MergedPrev(m), f) <=> Passed(m, f) \/ f = At(m)
<1> DEFINE x == At(m)
           n == MergedPrev(m)
<1>1. ReachedBack(n, RestBefore(m)) /\ Valid(m) /\ x \in Everything
    BY PrevReaches, StandsAt
<1> HIDE DEF n
<1>2. Visible \subseteq Everything
    BY Owners
<1>3. ASSUME NEW f \in Visible PROVE Passed(n, f) <=> Passed(m, f) \/ f = x
    <2>1. CASE Valid(n)
        <3>1. /\ At(n) \in Everything /\ Precedes(At(n), x)
              /\ Precedes(f, x) => ~Precedes(At(n), f)
            BY <1>1, <1>2, <2>1 DEF ReachedBack, RestBefore
        <3> QED BY <1>1, <1>2, <2>1, <3>1, Order DEF Passed
    <2>2. CASE ~Valid(n)
        <3>1. ~Precedes(f, x)
            BY <1>1, <1>2, <2>2 DEF ReachedBack, RestBefore
        <3> QED BY <1>1, <1>2, <2>2, <3>1, Order DEF Passed
    <2> QED BY <2>1, <2>2
<1>4. n \in Merged /\ (Valid(n) => BwdAt(n))
    BY <1>1 DEF ReachedBack
<1> QED BY <1>3, <1>4 DEF n

LEMMA BackwardStep ==
    ASSUME HeldInv, NEW B, NEW s, BackwardInv(s, B),
           Valid(s.m), ~StopsBefore(At(s.m), s), s.over = FALSE
    PROVE  /\ BackwardInv(BackwardRound(s), B)
           /\ BackwardRound(s).m = MergedPrev(s.m)
<1> DEFINE x == At(s.m)
           n == MergedPrev(s.m)
           t == BackwardRound(s)
<1>1. s \in BackwardStates /\ s.m \in Merged /\ BwdAt(s.m)
    BY DEF BackwardInv, BackwardStates
<1>2. x \in Everything /\ x.key \in Nat /\ x.seq \in Nat /\ x.kind \in Kinds /\ snapshot \in Nat
    <2>1. x \in Everything /\ x \in Entries /\ x.key \in Nat /\ x.seq \in Nat
        BY <1>1, StandsAt, Order
    <2>2. x.kind \in Kinds
        BY <2>1 DEF Entries
    <2>3. snapshot \in Nat
        BY EntryNumbers DEF HeldInv
    <2> QED BY <2>1, <2>2, <2>3
<1>3. /\ n \in Merged
      /\ Valid(n) => BwdAt(n)
      /\ \A f \in Visible : Passed(n, f) <=> Passed(s.m, f) \/ f = x
    BY <1>1, PrevPasses
<1>4. Visible \subseteq Everything
    BY Owners
<1> HIDE DEF n
<1>5. CASE x.seq > snapshot
    <2>1. t = [s EXCEPT !.m = n]
        BY <1>5 DEF BackwardRound, n
    <2> HIDE DEF t
    <2>2. /\ t \in BackwardStates /\ t.over = FALSE
          /\ t.m = n /\ t.kind = s.kind /\ t.key = s.key /\ t.value = s.value
        BY <1>1, <1>3, <2>1 DEF BackwardStates
    <2>3. \A f \in Visible : Passed(n, f) <=> Passed(s.m, f)
        <3>1. x \notin Visible
            BY <1>2, <1>5 DEF Visible
        <3> QED BY <1>3, <3>1
    <2>4. \A g \in Visible : Keeps(s, g) => Keeps(t, g)
        BY <2>2, <2>3 DEF Keeps
    <2>5. \A j : \A g \in SeenOf(j) : g \in Visible
        BY SeenIs
    <2>6. BackwardInv(t, B)
        BY <1>3, <2>2, <2>3, <2>4, <2>5 DEF BackwardInv
    <2> QED BY <2>2, <2>6 DEF t, n
<1>6. CASE ~(x.seq > snapshot)
    <2>0. x \in Visible /\ ~Passed(s.m, x)
        BY <1>1, <1>2, <1>6, Order DEF Visible, Passed
    <2>1. t = [m |-> n, over |-> FALSE, kind |-> x.kind,
               key   |-> IF x.kind = "value" THEN x.key ELSE Nowhere,
               value |-> IF x.kind = "value" THEN x.seq ELSE Nowhere]
        BY <1>6 DEF BackwardRound, n
    <2> HIDE DEF t
    <2>2. /\ t \in BackwardStates /\ t.over = FALSE /\ t.m = n /\ t.kind = x.kind
          /\ x.kind = "value" => t.key = x.key /\ t.value = x.seq
        BY <1>2, <1>3, <2>1 DEF BackwardStates
    <2>3. \A f \in Visible : ~Passed(n, f) => f.key \in B
        BY <1>3 DEF BackwardInv
    <2>4. x.key \in B
        BY <2>0 DEF BackwardInv
    <2>5. \A h \in Visible : Passed(n, h) => h.key >= x.key /\ (h.key = x.key => h.seq <= x.seq)
        <3> SUFFICES ASSUME NEW h \in Visible, Passed(n, h)
                     PROVE  h.key >= x.key /\ (h.key = x.key => h.seq <= x.seq)
            OBVIOUS
        <3>1. h = x \/ Precedes(x, h)
            BY <1>3 DEF Passed
        <3>2. h.key \in Nat /\ h.seq \in Nat
            BY <1>4, Order
        <3> QED BY <1>2, <1>4, <3>1, <3>2, Order
    <2>6. t.kind = "value" => Keeps(t, x)
        BY <1>3, <2>0, <2>2, <2>5 DEF Keeps
    <2>7. ASSUME NEW j \in Shown \cap B, NEW g \in SeenOf(j)
          PROVE  ~Passed(n, g) \/ (t.kind = "value" /\ t.key = j)
        <3>1. /\ g \in Visible /\ g.key = j /\ g.kind = "value" /\ j \in Nat /\ g.seq \in Nat
              /\ \A f \in Visible : f.key = j => f.seq <= g.seq
            BY <1>4, SeenIs, Order
        <3>2. CASE ~Passed(s.m, g)
            BY <1>3, <2>2, <3>1, <3>2
        <3>3. CASE Passed(s.m, g)
            <4>1. s.kind = "value" /\ s.key = j
                BY <3>3 DEF BackwardInv
            <4>2. PICK e \in Visible : Keeps(s, e)
                BY <4>1 DEF BackwardInv
            <4>3. e.key = j /\ Precedes(x, e)
                BY <4>1, <4>2 DEF Keeps, Passed
            <4>4. x.key <= j
                BY <1>2, <1>4, <4>3, Order
            <4>5. ~(x.key < j)
                BY <1>2, <1>6, <4>1 DEF StopsBefore
            <4>6. x.key = j /\ Precedes(x, g)
                BY <1>2, <3>1, <3>3, <4>4, <4>5 DEF Passed
            <4>7. x.seq > g.seq
                BY <1>2, <1>4, <3>1, <4>6, Order
            <4> QED BY <1>2, <2>0, <3>1, <4>6, <4>7
        <3> QED BY <3>2, <3>3
    <2>8. BackwardInv(t, B)
        BY <1>3, <2>0, <2>2, <2>3, <2>4, <2>6, <2>7 DEF BackwardInv
    <2> QED BY <2>2, <2>8 DEF t, n
<1> QED BY <1>5, <1>6

LEMMA BackwardKeeps ==
    ASSUME HeldInv, NEW B, NEW s, BackwardInv(s, B)
    PROVE  /\ BackwardInv(BackwardRound(s), B)
           /\ s.over = TRUE => BackwardRound(s).over = TRUE
           /\ s.over = FALSE =>
                 \/ BackwardRound(s).over = TRUE
                 \/ Cardinality(Left(BackwardRound(s).m)) < Cardinality(Left(s.m))
<1>0. s \in BackwardStates /\ s.over \in BOOLEAN /\ s.m \in Merged
    BY DEF BackwardInv, BackwardStates
<1>1. CASE s.over = TRUE \/ ~Valid(s.m) \/ StopsBefore(At(s.m), s)
    <2> DEFINE t == BackwardRound(s)
    <2>1. t = [s EXCEPT !.over = TRUE]
        BY <1>0, <1>1 DEF BackwardRound
    <2> HIDE DEF t
    <2>2. /\ t \in BackwardStates /\ t.over = TRUE
          /\ t.m = s.m /\ t.kind = s.kind /\ t.key = s.key /\ t.value = s.value
        BY <1>0, <2>1 DEF BackwardStates
    <2>3. ~Valid(s.m) \/ StopsBefore(At(s.m), s)
        BY <1>1 DEF BackwardInv
    <2>4. BackwardInv(t, B)
        BY <2>2, <2>3 DEF BackwardInv, Keeps, StopsBefore
    <2> QED BY <2>2, <2>4 DEF t
<1>2. CASE s.over = FALSE /\ Valid(s.m) /\ ~StopsBefore(At(s.m), s)
    <2>1. BackwardInv(BackwardRound(s), B) /\ BackwardRound(s).m = MergedPrev(s.m)
        BY <1>2, BackwardStep
    <2>2. BwdAt(s.m)
        BY <1>2 DEF BackwardInv
    <2> QED BY <1>0, <1>2, <2>1, <2>2, LeftShrinks
<1> QED BY <1>0, <1>1, <1>2

LEMMA BackwardRuns ==
    ASSUME HeldInv, NEW B, NEW m,
           NEW s, s = [m |-> m, over |-> FALSE, kind |-> "deletion", key |-> Nowhere, value |-> Nowhere],
           BackwardInv(s, B)
    PROVE  \E end : /\ BackwardInv(end, B) /\ end.over = TRUE
                    /\ FindPrevUserEntry(m) = Backward(end)
<1> DEFINE S == {r \in BackwardStates : BackwardInv(r, B)}
           done == {r \in S : r.over = TRUE}
           round == [r \in S |-> BackwardRound(r)]
           rank == [r \in S |-> Cardinality(Left(r.m))]
           N == Rounds
           IsRun(f) == f = [n \in 0 .. N |->
                              IF n = 0
                              THEN [m |-> m, over |-> FALSE, kind |-> "deletion",
                                    key |-> Nowhere, value |-> Nowhere]
                              ELSE BackwardRound(f[n - 1])]
           run == CHOOSE f : IsRun(f)
<1>1. \A r \in S : /\ BackwardInv(r, B) /\ r.over \in BOOLEAN
                   /\ round[r] = BackwardRound(r) /\ rank[r] = Cardinality(Left(r.m))
    BY DEF BackwardStates
<1>2. s \in S /\ \A r : BackwardInv(r, B) => r \in S
    BY DEF BackwardInv
<1>3. round \in [S -> S]
    <2>1. \A r \in S : BackwardRound(r) \in S
        BY <1>1, <1>2, BackwardKeeps
    <2> QED BY <2>1
<1>4. N \in Nat /\ rank \in [S -> Nat] /\ rank[s] < N
    BY <1>2, RoundsEnough
<1>5. /\ done \in SUBSET S /\ \A r \in done : round[r] \in done
      /\ \A r \in S \ done : round[r] \in done \/ rank[round[r]] < rank[r]
    <2>1. done \in SUBSET S
        OBVIOUS
    <2>2. \A r \in S : r \in done <=> r.over = TRUE
        OBVIOUS
    <2> HIDE DEF S, done, round, rank
    <2>3. ASSUME NEW r \in S
          PROVE  /\ r \in done => round[r] \in done
                 /\ r \notin done => round[r] \in done \/ rank[round[r]] < rank[r]
        <3>1. /\ round[r] \in S /\ round[r] = BackwardRound(r)
              /\ rank[r] = Cardinality(Left(r.m)) /\ rank[round[r]] = Cardinality(Left(round[r].m))
              /\ BackwardInv(r, B) /\ r.over \in BOOLEAN
            BY <1>1, <1>3
        <3>2. /\ r.over = TRUE => BackwardRound(r).over = TRUE
              /\ r.over = FALSE =>
                    \/ BackwardRound(r).over = TRUE
                    \/ Cardinality(Left(BackwardRound(r).m)) < Cardinality(Left(r.m))
            BY <3>1, BackwardKeeps
        <3> QED BY <2>2, <3>1, <3>2
    <2> QED BY <2>1, <2>3
<1> HIDE DEF S, done, round, rank, N
<1>6. \E f : IsRun(f)
    <2>1. PICK f \in [0 .. N -> S] : Loop(round, s, N, f)
        BY <1>2, <1>3, <1>4, LoopExists
    <2>2. \A n \in 0 .. N : n # 0 => f[n - 1] \in S
        BY <1>4, <2>1
    <2>3. f = [n \in 0 .. N |-> IF n = 0 THEN s ELSE BackwardRound(f[n - 1])]
        BY <1>1, <2>1, <2>2 DEF Loop
    <2> QED BY <2>3
<1>7. run = [n \in 0 .. N |-> IF n = 0 THEN s ELSE BackwardRound(run[n - 1])]
    BY <1>6
<1>8. FindPrevUserEntry(m) = Backward(run[N])
    BY DEF FindPrevUserEntry, N
<1> HIDE DEF run
<1>9. run[0] = s /\ \A n \in 1 .. N : run[n - 1] \in S => run[n] = round[run[n - 1]]
    <2>1. \A n \in 0 .. N : run[n] = IF n = 0 THEN s ELSE BackwardRound(run[n - 1])
        BY <1>7
    <2>2. 0 \in 0 .. N /\ \A n \in 1 .. N : n \in 0 .. N /\ n # 0
        BY <1>4
    <2> QED BY <1>1, <2>1, <2>2
<1>10. run[N] \in done
    BY <1>2, <1>3, <1>4, <1>5, <1>9, LoopEnds
<1>11. run[N] \in S /\ run[N].over = TRUE
    BY <1>10 DEF done
<1> QED BY <1>1, <1>8, <1>11

LEMMA BackwardLands ==
    ASSUME HeldInv, NEW B, NEW end, BackwardInv(end, B), end.over = TRUE
    PROVE  Landed(Backward(end).m, Backward(end).cursor, GreatestOf({j \in Shown : j \in B}))
<1> DEFINE S == {j \in Shown : j \in B}
<1>0. /\ S \subseteq Nat /\ Visible \subseteq Everything
      /\ end \in BackwardStates /\ end.m \in Merged /\ end.kind \in Kinds
    BY SeenIs, Owners DEF BackwardInv, BackwardStates
<1>1. CASE end.kind # "value"
    <2>1. ~Valid(end.m)
        BY <1>1 DEF BackwardInv, StopsBefore
    <2>2. S = {}
        <3> SUFFICES ASSUME NEW j \in S PROVE FALSE
            OBVIOUS
        <3>1. PICK g : g \in SeenOf(j)
            BY SeenIs
        <3> QED BY <1>1, <2>1, <3>1 DEF BackwardInv, Passed
    <2>3. GreatestOf(S) = Nowhere
        BY <1>0, <2>2, GreatestIs
    <2>4. Backward(end) = NotValid(end.m, TRUE)
        BY <1>1 DEF Backward
    <2> QED BY <2>3, <2>4, NotValidLands
<1>2. CASE end.kind = "value"
    <2> DEFINE x == At(end.m)
    <2>1. PICK g \in Visible : Keeps(end, g) /\ g.key \in B
        BY <1>2 DEF BackwardInv
    <2> DEFINE k == g.key
               c == [valid |-> TRUE, forward |-> FALSE, key |-> end.key, value |-> end.value]
    <2>2. Backward(end) = [m |-> end.m, cursor |-> c]
        BY <1>2 DEF Backward
    <2>3. /\ end.key = k /\ end.value = g.seq /\ k \in Nat /\ g.seq \in Nat /\ g.kind = "value"
          /\ \A h \in Visible : Passed(end.m, h) => h.key >= k /\ (h.key = k => h.seq <= g.seq)
        BY <1>0, <2>1, Order DEF Keeps
    <2>4. Valid(end.m) => /\ BwdAt(end.m) /\ x \in Everything /\ x.key \in Nat /\ x.key < k
        <3>1. ASSUME Valid(end.m)
              PROVE  BwdAt(end.m) /\ x \in Everything /\ x.key \in Nat /\ x.key < k
            <4>1. BwdAt(end.m) /\ StopsBefore(x, end)
                BY <3>1 DEF BackwardInv
            <4>2. x \in Everything
                BY <1>0, <4>1, StandsAt
            <4> QED BY <2>3, <4>1, <4>2, Order DEF StopsBefore
        <3> QED BY <3>1
    <2>5. \A h \in Visible : ~Passed(end.m, h) => h.key < k
        <3> SUFFICES ASSUME NEW h \in Visible, ~Passed(end.m, h) PROVE h.key < k
            OBVIOUS
        <3>1. Valid(end.m) /\ ~Precedes(x, h)
            BY DEF Passed
        <3>2. h.key \in Nat /\ h.key <= x.key
            BY <1>0, <2>4, <3>1, Order
        <3> QED BY <2>3, <2>4, <3>1, <3>2
    <2>6. \A h \in Visible : h.key \in Nat /\ (h.key = k => h.seq <= g.seq)
        <3>1. \A h \in Visible : h.key \in Nat
            BY <1>0, Order
        <3> QED BY <2>3, <2>5, <3>1
    <2>7. g \in SeenOf(k) /\ k \in S
        BY <2>1, <2>3, <2>6, SeenIs
    <2>8. \A j \in S : k >= j
        <3> SUFFICES ASSUME NEW j \in S PROVE k >= j
            OBVIOUS
        <3>1. PICK e : e \in SeenOf(j)
            BY SeenIs
        <3>2. e \in Visible /\ e.key = j /\ j \in Nat
            BY <3>1, SeenIs
        <3>3. ~Passed(end.m, e) \/ end.key = j
            BY <3>1 DEF BackwardInv
        <3> QED BY <2>3, <2>5, <3>2, <3>3
    <2>9. GreatestOf(S) = k
        BY <1>0, <2>7, <2>8, GreatestIs
    <2>10. \A f \in Visible : f.key < k => Valid(end.m) /\ ~Precedes(x, f)
        <3> SUFFICES ASSUME NEW f \in Visible, f.key < k PROVE ~Passed(end.m, f)
            BY DEF Passed
        <3> QED BY <2>3, <2>6
    <2> HIDE DEF x, k, S
    <2>11. Landed(end.m, c, k)
        <3>1. c.valid = TRUE /\ c.forward = FALSE /\ c.key = end.key /\ c.value = end.value
            OBVIOUS
        <3>2. k \in Nat /\ \E e \in SeenOf(k) : c.value = e.seq
            BY <2>3, <2>7, <3>1
        <3> HIDE DEF c
        <3> QED BY <1>0, <2>3, <2>4, <2>10, <3>1, <3>2, NowhereNumber DEF Landed, x
    <2>12. Backward(end).m = end.m /\ Backward(end).cursor = c
        BY <2>2
    <2> QED BY <2>9, <2>11, <2>12 DEF S
<1> QED BY <1>0, <1>1, <1>2

\* What is not passed yet is what is wanted.
LEMMA PrevLands ==
    ASSUME HeldInv, NEW B, NEW m, m \in Merged, Valid(m) => BwdAt(m),
           \A f \in Visible : f.key \in B <=> ~Passed(m, f)
    PROVE  Landed(FindPrevUserEntry(m).m, FindPrevUserEntry(m).cursor,
                  GreatestOf({j \in Shown : j \in B}))
<1> DEFINE s == [m |-> m, over |-> FALSE, kind |-> "deletion", key |-> Nowhere, value |-> Nowhere]
<1>1. /\ s.m = m /\ s.over = FALSE /\ s.kind = "deletion" /\ s \in BackwardStates
    BY DEF BackwardStates, Kinds
<1>2. s = [m |-> m, over |-> FALSE, kind |-> "deletion", key |-> Nowhere, value |-> Nowhere]
    OBVIOUS
<1> HIDE DEF s
<1>3. \A j \in Shown \cap B : \A g \in SeenOf(j) : ~Passed(m, g)
    BY SeenIs
<1>4. BackwardInv(s, B)
    BY <1>1, <1>3 DEF BackwardInv
<1>5. PICK end : /\ BackwardInv(end, B) /\ end.over = TRUE
                 /\ FindPrevUserEntry(m) = Backward(end)
    BY <1>2, <1>4, BackwardRuns
<1> QED BY <1>5, BackwardLands

-----------------------------------------------------------------------------
(* BeforeKey: back from the key's entry until the key is smaller. *)

BeforeInv(m, key) ==
    /\ m \in Merged
    /\ Valid(m) => BwdAt(m) \/ (FwdAt(m) /\ At(m).key = key)
    /\ \A f \in Visible : f.key < key => ~Passed(m, f)

LEMMA BeforeKeeps ==
    ASSUME HeldInv, NEW key \in Nat, NEW m, BeforeInv(m, key)
    PROVE  /\ BeforeInv(StepBack(m, key), key)
           /\ \/ StepBack(m, key) = m /\ (Valid(m) => At(m).key < key)
              \/ Cardinality(Left(StepBack(m, key))) < Cardinality(Left(m))
           /\ (Valid(m) => At(m).key < key) => StepBack(m, key) = m
<1>1. CASE ~(Valid(m) /\ At(m).key >= key)
    <2>1. StepBack(m, key) = m
        BY <1>1 DEF StepBack
    <2>2. Valid(m) => At(m).key < key
        <3>1. Valid(m) => At(m).key \in Nat
            BY StandsAt, Order DEF BeforeInv
        <3> QED BY <1>1, <3>1
    <2> QED BY <2>1, <2>2
<1>2. CASE Valid(m) /\ At(m).key >= key
    <2> DEFINE x == At(m)
               n == MergedPrev(m)
    <2>1. StepBack(m, key) = n
        BY <1>2 DEF StepBack
    <2>2. m \in Merged /\ (FwdAt(m) \/ BwdAt(m))
        BY <1>2 DEF BeforeInv
    <2>3. x.key \in Nat
        BY <2>2, StandsAt, Order
    <2>4. /\ n \in Merged /\ (Valid(n) => BwdAt(n))
          /\ \A f \in Visible : Passed(n, f) <=> Passed(m, f) \/ f = x
        BY <2>2, PrevPasses
    <2>5. \A f \in Visible : f.key < key => f # x
        BY <1>2, <2>3
    <2>6. BeforeInv(n, key)
        <3> HIDE DEF n
        <3> QED BY <2>4, <2>5 DEF BeforeInv
    <2>7. Cardinality(Left(n)) < Cardinality(Left(m))
        BY <2>2, LeftShrinks
    <2>8. ~(Valid(m) => At(m).key < key)
        BY <1>2, <2>3
    <2> QED BY <2>1, <2>6, <2>7, <2>8
<1> QED BY <1>1, <1>2

LEMMA BeforeKeyReaches ==
    ASSUME HeldInv, NEW key \in Nat, NEW m, BeforeInv(m, key)
    PROVE  /\ BeforeKey(m, key) \in Merged
           /\ Valid(BeforeKey(m, key)) => BwdAt(BeforeKey(m, key))
           /\ \A f \in Visible : f.key < key <=> ~Passed(BeforeKey(m, key), f)
<1> DEFINE S == {r \in Merged : BeforeInv(r, key)}
           done == {r \in S : Valid(r) => At(r).key < key}
           round == [r \in S |-> StepBack(r, key)]
           rank == [r \in S |-> Cardinality(Left(r))]
           N == Rounds
           IsRun(f) == f = [n \in 0 .. N |-> IF n = 0 THEN m ELSE StepBack(f[n - 1], key)]
           run == CHOOSE f : IsRun(f)
<1>1. \A r \in S : /\ BeforeInv(r, key)
                   /\ round[r] = StepBack(r, key) /\ rank[r] = Cardinality(Left(r))
    OBVIOUS
<1>2. m \in S /\ \A r : BeforeInv(r, key) => r \in S
    BY DEF BeforeInv
<1>3. round \in [S -> S]
    <2>1. \A r \in S : StepBack(r, key) \in S
        BY <1>1, <1>2, BeforeKeeps
    <2> QED BY <2>1
<1>4. N \in Nat /\ rank \in [S -> Nat] /\ rank[m] < N
    BY <1>2, RoundsEnough
<1>5. /\ done \in SUBSET S /\ \A r \in done : round[r] \in done
      /\ \A r \in S \ done : round[r] \in done \/ rank[round[r]] < rank[r]
    <2>1. done \in SUBSET S
        OBVIOUS
    <2>2. \A r \in S : r \in done <=> (Valid(r) => At(r).key < key)
        OBVIOUS
    <2> HIDE DEF S, done, round, rank
    <2>3. ASSUME NEW r \in S
          PROVE  /\ r \in done => round[r] \in done
                 /\ r \notin done => round[r] \in done \/ rank[round[r]] < rank[r]
        <3>1. /\ round[r] \in S /\ round[r] = StepBack(r, key)
              /\ rank[r] = Cardinality(Left(r)) /\ rank[round[r]] = Cardinality(Left(round[r]))
              /\ BeforeInv(r, key)
            BY <1>1, <1>3
        <3>2. /\ \/ StepBack(r, key) = r /\ (Valid(r) => At(r).key < key)
                 \/ Cardinality(Left(StepBack(r, key))) < Cardinality(Left(r))
              /\ (Valid(r) => At(r).key < key) => StepBack(r, key) = r
            BY <3>1, BeforeKeeps
        <3> QED BY <2>2, <3>1, <3>2
    <2> QED BY <2>1, <2>3
<1> HIDE DEF S, done, round, rank, N
<1>6. \E f : IsRun(f)
    <2>1. PICK f \in [0 .. N -> S] : Loop(round, m, N, f)
        BY <1>2, <1>3, <1>4, LoopExists
    <2>2. \A n \in 0 .. N : n # 0 => f[n - 1] \in S
        BY <1>4, <2>1
    <2>3. f = [n \in 0 .. N |-> IF n = 0 THEN m ELSE StepBack(f[n - 1], key)]
        BY <1>1, <2>1, <2>2 DEF Loop
    <2> QED BY <2>3
<1>7. run = [n \in 0 .. N |-> IF n = 0 THEN m ELSE StepBack(run[n - 1], key)]
    BY <1>6
<1>8. BeforeKey(m, key) = run[N]
    BY DEF BeforeKey, N
<1> HIDE DEF run
<1>9. run[0] = m /\ \A n \in 1 .. N : run[n - 1] \in S => run[n] = round[run[n - 1]]
    <2>1. \A n \in 0 .. N : run[n] = IF n = 0 THEN m ELSE StepBack(run[n - 1], key)
        BY <1>7
    <2>2. 0 \in 0 .. N /\ \A n \in 1 .. N : n \in 0 .. N /\ n # 0
        BY <1>4
    <2> QED BY <1>1, <2>1, <2>2
<1>10. run[N] \in done
    BY <1>2, <1>3, <1>4, <1>5, <1>9, LoopEnds
<1>11. PICK b : b = run[N]
    OBVIOUS
<1>12. BeforeInv(b, key) /\ (Valid(b) => At(b).key < key)
    BY <1>1, <1>10, <1>11 DEF done
<1>13. b \in Merged /\ (Valid(b) => BwdAt(b))
    <2>1. FwdAt(b) /\ At(b).key = key => ~(At(b).key < key)
        OBVIOUS
    <2> QED BY <1>12, <2>1 DEF BeforeInv
<1>14. ASSUME NEW f \in Visible PROVE f.key < key <=> ~Passed(b, f)
    <2>1. ASSUME ~Passed(b, f) PROVE f.key < key
        <3>1. Valid(b) /\ ~Precedes(At(b), f) /\ f \in Everything
            BY <2>1, Owners DEF Passed
        <3>2. At(b) \in Everything /\ At(b).key < key
            BY <1>12, <1>13, <3>1, StandsAt
        <3>3. f.key \in Nat /\ At(b).key \in Nat /\ f.key <= At(b).key
            BY <3>1, <3>2, Order
        <3> QED BY <3>2, <3>3
    <2> QED BY <1>12, <2>1 DEF BeforeInv
<1> QED BY <1>8, <1>11, <1>13, <1>14

-----------------------------------------------------------------------------
(* The steps. *)

IterInv ==
    /\ HeldInv
    /\ Landed(merged, cursor, want)
    /\ cursor.valid = TRUE => made

SeenIn(V, k) == {e \in V : e.key = k /\ e.kind = "value" /\ \A f \in V : f.key = k => f.seq <= e.seq}

LEMMA SeenOfVisible ==
    /\ \A k : SeenOf(k) = SeenIn(Visible, k)
    /\ \A k : SeenOf(k)' = SeenIn(Visible', k)
<1>1. \A k : SeenOf(k) = SeenIn(Visible, k)
    BY DEF SeenOf, SeenIn, Visible, Everything
<1>2. \A k : SeenOf(k)' = SeenIn(Visible', k)
    BY DEF SeenOf, SeenIn, Visible, Everything
<1> QED BY <1>1, <1>2

\* More entries that the snapshot does not see change nothing.
LEMMA LandedStays ==
    ASSUME NEW m, NEW c, NEW w, Landed(m, c, w),
           merged' = m, cursor' = c, want' = w,
           Visible' = Visible, Everything \subseteq Everything',
           \A d \in Children : held[d] \subseteq held'[d] /\ held'[d] \cap Visible = held[d] \cap Visible
    PROVE  Landed(merged, cursor, want)'
<1>1. \A k : SeenOf(k)' = SeenOf(k)
    BY SeenOfVisible
<1>2. m \in Merged => merged' \in Merged'
    BY DEF Merged
<1>3. FwdAt(m) => FwdAt(merged)'
    BY DEF FwdAt, At
<1>4. BwdAt(m) => BwdAt(merged)'
    BY DEF BwdAt, At
<1>5. Valid(merged') <=> Valid(m)
    BY DEF Valid
<1>6. At(merged') = At(m)
    BY DEF At
<1> QED BY <1>1, <1>2, <1>3, <1>4, <1>5, <1>6 DEF Landed

LEMMA CallKeeps ==
    ASSUME IterInv, made, UNCHANGED <<made, held, snapshot>>,
           NEW r, NEW w, Landed(r.m, r.cursor, w), Settle(r), want' = w
    PROVE  IterInv'
<1>1. HeldInv'
    BY DEF IterInv, HeldInv, Everything
<1>2. Visible' = Visible /\ Everything' = Everything
    BY DEF Visible, Everything
<1>3. Landed(merged, cursor, want)'
    <2>1. merged' = r.m /\ cursor' = r.cursor
        BY DEF Settle
    <2> QED BY <1>2, <2>1, LandedStays
<1> QED BY <1>1, <1>3 DEF IterInv

LEMMA IteratorStarts == IteratorInit => IterInv
<1> SUFFICES ASSUME IteratorInit PROVE IterInv
    OBVIOUS
<1>1. /\ made = FALSE /\ snapshot = 0 /\ \A c \in Children : held[c] = {}
      /\ cursor.valid = FALSE /\ cursor.forward = TRUE /\ want = Nowhere
      /\ held \in [Children -> SUBSET Entries]
    BY DEF IteratorInit, NoCursor
<1>2. HeldInv
    BY <1>1, EntryNumbers DEF HeldInv
<1> QED BY <1>1, <1>2 DEF IterInv, Landed

LEMMA MakeIteratorKeeps ==
    ASSUME IterInv, MakeIterator
    PROVE  IterInv'
<1>1. PICK place \in Layouts, s \in 0 .. LastWritten :
         /\ snapshot' = s
         /\ held' = [c \in Children |->
               {[key |-> place[q].key, seq |-> q, kind |-> place[q].kind] :
                   q \in {q \in 1 .. LastWritten : place[q].child = c}}]
    BY DEF MakeIterator
<1> DEFINE entry == [q \in 1 .. LastWritten |-> [key |-> place[q].key, seq |-> q, kind |-> place[q].kind]]
           child == [q \in 1 .. LastWritten |-> place[q].child]
<1>2. \A q \in 1 .. LastWritten : entry[q] \in Entries /\ entry[q].seq = q /\ child[q] \in Children
    <2>1. \A q \in 1 .. LastWritten : place[q] \in [key : IterKeys, child : Children, kind : Kinds]
        BY DEF Layouts
    <2>2. \A q \in 1 .. LastWritten : q \in 1 .. LastWritten + MaxLive
        BY EntryNumbers
    <2> QED BY <2>1, <2>2 DEF Entries
<1>3. held' = [c \in Children |-> {entry[q] : q \in {q \in 1 .. LastWritten : child[q] = c}}]
    BY <1>1
<1> HIDE DEF entry, child
<1>4. held' \in [Children -> SUBSET Entries]
    BY <1>2, <1>3
<1>5. \A c \in Children : \A e \in held'[c] :
         \E q \in 1 .. LastWritten : e = entry[q] /\ child[q] = c /\ e.seq = q
    BY <1>2, <1>3
<1>6. \A q \in 1 .. LastWritten : entry[q] \in held'[child[q]]
    BY <1>2, <1>3
<1>7. {e.seq : e \in Everything'} = 1 .. LastWritten
    <2>1. \A e \in Everything' : e.seq \in 1 .. LastWritten
        BY <1>5 DEF Everything
    <2>2. \A q \in 1 .. LastWritten : \E e \in Everything' : e.seq = q
        BY <1>2, <1>6 DEF Everything
    <2> QED BY <2>1, <2>2
<1>8. LastWritten \in LastWritten .. LastWritten + MaxLive
    BY EntryNumbers
<1>9. HeldInv'
    BY <1>1, <1>4, <1>5, <1>7, <1>8 DEF HeldInv
<1>10. cursor.valid = FALSE /\ cursor' = cursor /\ want' = want /\ want = Nowhere /\ cursor.forward \in BOOLEAN
    BY DEF MakeIterator, IterInv, Landed
<1> QED BY <1>9, <1>10 DEF IterInv, Landed

LEMMA WriteLiveKeeps ==
    ASSUME IterInv, NEW k \in IterKeys, NEW kind \in Kinds, WriteLive(k, kind)
    PROVE  IterInv'
<1> DEFINE written == {e.seq : e \in Everything}
           new == [key |-> k, seq |-> Cardinality(written) + 1, kind |-> kind]
<1>1. /\ made /\ Cardinality(written) < LastWritten + MaxLive
      /\ held' = [held EXCEPT ![1] = @ \cup {new}]
      /\ UNCHANGED <<made, snapshot, merged, cursor, want>>
    BY DEF WriteLive, Everything
<1>2. PICK n \in LastWritten .. LastWritten + MaxLive : written = 1 .. n
    BY <1>1 DEF IterInv, HeldInv
<1>3. Cardinality(written) = n /\ n \in Nat /\ LastWritten \in Nat /\ MaxLive \in Nat /\ n >= LastWritten
    <2>1. LastWritten \in Nat /\ MaxLive \in Nat
        BY EntryNumbers
    <2>2. n \in Nat /\ n >= LastWritten
        BY <2>1
    <2>3. Cardinality(1 .. n) = n
        <3>1. 1 \in Int /\ n \in Int /\ (IF 1 > n THEN 0 ELSE n - 1 + 1) = n
            BY <2>2
        <3> HIDE DEF written, new
        <3> QED BY <3>1, FS_Interval
    <2> QED BY <1>2, <2>1, <2>2, <2>3
<1>4. new \in Entries /\ new.seq = n + 1
    BY <1>1, <1>3 DEF Entries
<1>5. \A e \in Everything : e.seq \in 1 .. n
    BY <1>2
<1> HIDE DEF new, written
<1>6. 1 \in Children
    BY IteratorAssumption DEF Children
<1>7. /\ held \in [Children -> SUBSET Entries]
      /\ held'[1] = held[1] \cup {new} /\ \A c \in Children \ {1} : held'[c] = held[c]
      /\ held' \in [Children -> SUBSET Entries]
    BY <1>1, <1>4, <1>6 DEF IterInv, HeldInv
<1>8. Everything' = Everything \cup {new}
    BY <1>6, <1>7 DEF Everything
<1>9. {e.seq : e \in Everything'} = 1 .. n + 1
    <2>1. {e.seq : e \in Everything'} = {e.seq : e \in Everything} \cup {n + 1}
        BY <1>4, <1>8
    <2>2. 1 .. n + 1 = (1 .. n) \cup {n + 1}
        BY <1>3
    <2> QED BY <1>2, <2>1, <2>2 DEF written
<1>10. ASSUME NEW c \in Children, NEW d \in Children, NEW e \in held'[c], NEW f \in held'[d], e.seq = f.seq
       PROVE  e = f /\ c = d
    <2>1. (e \in held[c] \/ (e = new /\ c = 1)) /\ (f \in held[d] \/ (f = new /\ d = 1))
        BY <1>7
    <2>2. /\ e \in held[c] => e \in Everything /\ e.seq # n + 1
          /\ f \in held[d] => f \in Everything /\ f.seq # n + 1
        BY <1>3, <1>5 DEF Everything
    <2>3. CASE e \in held[c] /\ f \in held[d]
        BY <1>10, <2>3 DEF IterInv, HeldInv
    <2>4. CASE e = new /\ c = 1 /\ f = new /\ d = 1
        BY <2>4
    <2> QED BY <1>4, <1>10, <2>1, <2>2, <2>3, <2>4
<1>11. n + 1 \in LastWritten .. LastWritten + MaxLive
    BY <1>1, <1>2, <1>3
<1>12. HeldInv'
    <2>1. made' => \E i \in LastWritten .. LastWritten + MaxLive : {e.seq : e \in Everything'} = 1 .. i
        BY <1>9, <1>11
    <2>2. snapshot' \in 0 .. LastWritten
        BY <1>1 DEF IterInv, HeldInv
    <2> QED BY <1>7, <1>10, <2>1, <2>2 DEF HeldInv
<1>13. snapshot' = snapshot /\ ~(new.seq <= snapshot) /\ new \notin Visible
    <2>1. snapshot \in 0 .. LastWritten
        BY DEF IterInv, HeldInv
    <2> QED BY <1>1, <1>3, <1>4, <2>1 DEF Visible
<1>14. Visible' = Visible
    <2>1. Visible' = {e \in Everything' : e.seq <= snapshot'}
        BY DEF Visible
    <2> QED BY <1>8, <1>13, <2>1 DEF Visible
<1>15. Landed(merged, cursor, want)'
    <2>1. \A d \in Children : held[d] \subseteq held'[d] /\ held'[d] \cap Visible = held[d] \cap Visible
        BY <1>7, <1>13
    <2>2. Everything \subseteq Everything'
        BY <1>8
    <2> QED BY <1>1, <1>14, <2>1, <2>2, LandedStays DEF IterInv
<1> QED BY <1>1, <1>12, <1>15 DEF IterInv

LEMMA SeekKeeps ==
    ASSUME IterInv, NEW k \in IterKeys, Seek(k)
    PROVE  IterInv'
<1> DEFINE e == [key |-> k, seq |-> snapshot]
           m == MergedSeek(e)
           r == SeekFrom(m)
<1>1. /\ made /\ Settle(r) /\ want' = LeastOf({j \in Shown : j >= k})
      /\ UNCHANGED <<made, held, snapshot>>
    BY DEF Seek
<1>2. HeldInv /\ k \in Nat /\ snapshot \in Nat
    BY IteratorAssumption, EntryNumbers DEF IterInv, HeldInv
<1>3. e.key = k /\ e.seq = snapshot
    OBVIOUS
<1> HIDE DEF e
<1>4. Reached(m, RestFrom(e))
    BY <1>2, <1>3, SeekReaches
<1>5. Upward(RestFrom(e))
    <2>1. \A f, g \in Everything : Precedes(g, e) /\ Precedes(f, g) => Precedes(f, e)
        BY <1>2, <1>3, Order DEF Precedes
    <2> QED BY <2>1 DEF Upward, RestFrom
<1>6. \A f \in Visible : f \in RestFrom(e) <=> f.key >= k
    <2> SUFFICES ASSUME NEW f \in Visible PROVE ~Precedes(f, e) <=> f.key >= k
        BY <1>2, Owners DEF RestFrom
    <2>1. f \in Everything /\ f.key \in Nat /\ f.seq \in Nat /\ f.seq <= snapshot
        BY <1>2, Order DEF Visible
    <2> QED BY <1>2, <1>3, <2>1 DEF Precedes
<1> HIDE DEF m
<1>7. Landed(r.m, r.cursor, LeastOf({j \in Shown : j >= k}))
    BY <1>2, <1>4, <1>5, <1>6, SeekLands
<1> HIDE DEF r
<1> QED BY <1>1, <1>7, CallKeeps

LEMMA SeekToFirstKeeps ==
    ASSUME IterInv, SeekToFirst
    PROVE  IterInv'
<1> DEFINE m == MergedFirst
           r == SeekFrom(m)
<1>1. /\ made /\ Settle(r) /\ want' = LeastOf(Shown) /\ UNCHANGED <<made, held, snapshot>>
    BY DEF SeekToFirst
<1>2. HeldInv /\ 0 \in Nat
    BY DEF IterInv
<1>3. Reached(m, Everything) /\ Upward(Everything)
    BY <1>2, FirstReaches DEF Upward
<1>4. \A f \in Visible : f \in Everything <=> f.key >= 0
    BY <1>2, Owners, Order
<1> HIDE DEF m
<1>5. Landed(r.m, r.cursor, LeastOf({j \in Shown : j >= 0}))
    BY <1>2, <1>3, <1>4, SeekLands
<1>6. {j \in Shown : j >= 0} = Shown
    BY <1>2, SeenIs
<1> HIDE DEF r
<1> QED BY <1>1, <1>5, <1>6, CallKeeps

LEMMA SeekToLastKeeps ==
    ASSUME IterInv, SeekToLast
    PROVE  IterInv'
<1> DEFINE m == MergedLast
           r == FindPrevUserEntry(m)
<1>1. /\ made /\ Settle(r) /\ want' = GreatestOf(Shown) /\ UNCHANGED <<made, held, snapshot>>
    BY DEF SeekToLast
<1>2. HeldInv
    BY DEF IterInv
<1>3. ReachedBack(m, Everything)
    BY <1>2, LastReaches
<1> HIDE DEF m
<1>4. m \in Merged /\ (Valid(m) => BwdAt(m))
    BY <1>3 DEF ReachedBack
<1>5. \A f \in Visible : f.key \in Nat <=> ~Passed(m, f)
    <2> SUFFICES ASSUME NEW f \in Visible PROVE f.key \in Nat /\ ~Passed(m, f)
        OBVIOUS
    <2>1. f \in Everything /\ f.key \in Nat
        BY <1>2, Owners, Order
    <2> QED BY <1>3, <2>1 DEF ReachedBack, Passed
<1>6. Landed(r.m, r.cursor, GreatestOf({j \in Shown : j \in Nat}))
    BY <1>2, <1>4, <1>5, PrevLands
<1>7. {j \in Shown : j \in Nat} = Shown
    BY <1>2, SeenIs
<1> HIDE DEF r
<1> QED BY <1>1, <1>6, <1>7, CallKeeps

LEMMA IterNextKeeps ==
    ASSUME IterInv, IterNext
    PROVE  IterInv'
<1> DEFINE key == want
           m == NextFrom
           r == IF Valid(m) THEN FindNextUserEntry(m, TRUE, cursor.key) ELSE NotValid(m, TRUE)
<1>1. /\ made /\ cursor.valid = TRUE /\ Settle(r) /\ want' = LeastOf({j \in Shown : j > want})
      /\ UNCHANGED <<made, held, snapshot>>
    BY DEF IterNext, IterInv, Landed
<1>2. HeldInv /\ Visible \subseteq Everything
    BY Owners DEF IterInv
<1>3. /\ merged \in Merged /\ cursor.key = want /\ want \in Nat /\ cursor.forward \in BOOLEAN
      /\ cursor.forward = TRUE => Valid(merged) /\ FwdAt(merged) /\ At(merged).key = want
      /\ cursor.forward = FALSE =>
            /\ Valid(merged) => BwdAt(merged) /\ At(merged).key < want
            /\ \A f \in Visible : f.key < want => Valid(merged) /\ ~Precedes(At(merged), f)
    BY <1>1 DEF IterInv, Landed
<1>4. \A f \in Visible : f.key \in Nat
    BY <1>2, Order
<1>5. \E rest : /\ Upward(rest) /\ Reached(m, rest)
                /\ \A f \in Visible : f.key > want => f \in rest
                /\ \A f \in Visible : f \in rest => f.key >= want
    <2>1. CASE cursor.forward = TRUE
        <3> DEFINE x == At(merged)
                   rest == {f \in Everything : ~Precedes(f, x)}
        <3>1. m = merged
            BY <2>1 DEF NextFrom
        <3>2. Valid(merged) /\ FwdAt(merged) /\ x \in Everything /\ x.key = want
            BY <1>2, <1>3, <2>1, StandsAt
        <3>3. Upward(rest)
            BY <1>2, <3>2, Order DEF Upward
        <3>4. x \in rest
            BY <1>2, <3>2, Order
        <3>5. Reached(merged, rest)
            BY <1>3, <3>2, <3>4 DEF Reached
        <3>6. \A f \in Visible : f.key > want => f \in rest
            BY <1>2, <1>3, <1>4, <3>2, Order
        <3>7. \A f \in Visible : f \in rest => f.key >= want
            BY <1>2, <1>3, <1>4, <3>2, Order
        <3> HIDE DEF rest, m
        <3> QED BY <3>1, <3>3, <3>5, <3>6, <3>7
    <2>2. CASE cursor.forward = FALSE /\ Valid(merged)
        <3> DEFINE z == At(merged)
                   rest == RestAfter(merged)
        <3>1. m = MergedNext(merged)
            BY <2>2 DEF NextFrom
        <3>2. BwdAt(merged) /\ z \in Everything /\ z.key < want /\ z.key \in Nat
            BY <1>2, <1>3, <2>2, StandsAt, Order
        <3>3. Upward(rest)
            BY <1>2, <3>2, Order DEF Upward, RestAfter
        <3>4. Reached(m, rest)
            BY <1>2, <1>3, <3>1, <3>2, NextReaches
        <3>5. \A f \in Visible : f.key > want => f \in rest
            BY <1>2, <1>3, <1>4, <3>2, Order DEF RestAfter
        <3>6. \A f \in Visible : f \in rest => f.key >= want
            BY <1>3, <1>4, <2>2 DEF RestAfter
        <3> HIDE DEF rest, m
        <3> QED BY <3>3, <3>4, <3>5, <3>6
    <2>3. CASE cursor.forward = FALSE /\ ~Valid(merged)
        <3>1. m = MergedFirst
            BY <2>3 DEF NextFrom
        <3>2. Upward(Everything) /\ Reached(m, Everything)
            BY <1>2, <3>1, FirstReaches DEF Upward
        <3>3. \A f \in Visible : f.key >= want
            BY <1>3, <1>4, <2>3
        <3> HIDE DEF m
        <3> QED BY <1>2, <3>2, <3>3
    <2> QED BY <1>3, <2>1, <2>2, <2>3
<1> HIDE DEF m
<1>6. r = IF Valid(m) THEN FindNextUserEntry(m, TRUE, want) ELSE NotValid(m, TRUE)
    BY <1>3
<1> HIDE DEF r
<1>7. Landed(r.m, r.cursor, LeastOf({j \in Shown : j > want}))
    BY <1>2, <1>3, <1>5, <1>6, NextLands
<1> QED BY <1>1, <1>7, CallKeeps

LEMMA IterPrevKeeps ==
    ASSUME IterInv, IterPrev
    PROVE  IterInv'
<1> DEFINE start == IF cursor.forward THEN BeforeKey(merged, cursor.key) ELSE merged
           r == IF cursor.forward /\ ~Valid(start) THEN NotValid(start, TRUE)
                ELSE FindPrevUserEntry(start)
<1>1. /\ made /\ cursor.valid = TRUE /\ Settle(r) /\ want' = GreatestOf({j \in Shown : j < want})
      /\ UNCHANGED <<made, held, snapshot>>
    BY DEF IterPrev, IterInv, Landed
<1>2. HeldInv /\ Visible \subseteq Everything
    BY Owners DEF IterInv
<1>3. /\ merged \in Merged /\ cursor.key = want /\ want \in Nat /\ cursor.forward \in BOOLEAN
      /\ cursor.forward = TRUE => Valid(merged) /\ FwdAt(merged) /\ At(merged).key = want
      /\ cursor.forward = FALSE =>
            /\ Valid(merged) => BwdAt(merged) /\ At(merged).key < want
            /\ \A f \in Visible : f.key < want => Valid(merged) /\ ~Precedes(At(merged), f)
    BY <1>1 DEF IterInv, Landed
<1>4. \A f \in Visible : f.key \in Nat
    BY <1>2, Order
<1>5. /\ start \in Merged /\ (Valid(start) => BwdAt(start))
      /\ \A f \in Visible : f.key < want <=> ~Passed(start, f)
    <2>1. CASE cursor.forward = TRUE
        <3>1. start = BeforeKey(merged, want)
            BY <1>3, <2>1
        <3>2. At(merged) \in Everything
            BY <1>2, <1>3, <2>1, StandsAt
        <3>3. \A f \in Visible : f.key < want => ~Passed(merged, f)
            BY <1>2, <1>3, <1>4, <2>1, <3>2, Order DEF Passed
        <3>4. BeforeInv(merged, want)
            BY <1>3, <2>1, <3>3 DEF BeforeInv
        <3> HIDE DEF start
        <3> QED BY <1>2, <1>3, <3>1, <3>4, BeforeKeyReaches
    <2>2. CASE cursor.forward = FALSE
        <3>1. start = merged
            BY <2>2
        <3>2. ASSUME NEW f \in Visible, ~Passed(merged, f) PROVE f.key < want
            <4>1. Valid(merged) /\ ~Precedes(At(merged), f)
                BY <3>2 DEF Passed
            <4>2. At(merged) \in Everything /\ At(merged).key < want
                BY <1>2, <1>3, <2>2, <4>1, StandsAt
            <4>3. f.key <= At(merged).key /\ At(merged).key \in Nat /\ f.key \in Nat
                BY <1>2, <4>1, <4>2, Order
            <4> QED BY <1>3, <4>2, <4>3
        <3>3. \A f \in Visible : f.key < want => ~Passed(merged, f)
            BY <1>3, <2>2 DEF Passed
        <3> HIDE DEF start
        <3> QED BY <1>3, <2>2, <3>1, <3>2, <3>3
    <2> QED BY <1>3, <2>1, <2>2
<1> HIDE DEF start
<1> DEFINE B == {j \in Nat : j < want}
<1>6. {j \in Shown : j \in B} = {j \in Shown : j < want}
    BY <1>2, SeenIs
<1>7. \A f \in Visible : f.key \in B <=> ~Passed(start, f)
    BY <1>4, <1>5
<1>8. Landed(r.m, r.cursor, GreatestOf({j \in Shown : j < want}))
    <2>1. CASE cursor.forward /\ ~Valid(start)
        <3>1. {j \in Shown : j < want} = {}
            <4> SUFFICES ASSUME NEW j \in Shown, j < want PROVE FALSE
                OBVIOUS
            <4>1. PICK g : g \in SeenOf(j)
                BY <1>2, SeenIs
            <4>2. g \in Visible /\ g.key < want
                BY <1>2, <4>1, SeenIs
            <4> QED BY <1>5, <2>1, <4>2 DEF Passed
        <3>2. GreatestOf({j \in Shown : j < want}) = Nowhere
            BY <3>1, GreatestIs
        <3>3. r = NotValid(start, TRUE)
            BY <2>1
        <3> HIDE DEF r
        <3> QED BY <3>2, <3>3, NotValidLands
    <2>2. CASE ~(cursor.forward /\ ~Valid(start))
        <3>1. r = FindPrevUserEntry(start)
            BY <2>2
        <3> HIDE DEF r, B
        <3>2. Landed(r.m, r.cursor, GreatestOf({j \in Shown : j \in B}))
            BY <1>2, <1>5, <1>7, <3>1, PrevLands
        <3> QED BY <1>6, <3>2
    <2> QED BY <2>1, <2>2
<1> HIDE DEF r
<1> QED BY <1>1, <1>8, CallKeeps

LEMMA IterKeeps == IterInv /\ [IteratorNext]_iteratorVars => IterInv'
<1> SUFFICES ASSUME IterInv, [IteratorNext]_iteratorVars PROVE IterInv'
    OBVIOUS
<1>1. CASE UNCHANGED iteratorVars
    <2>1. UNCHANGED <<made, held, snapshot, merged, cursor, want>>
        BY <1>1 DEF iteratorVars
    <2>2. HeldInv'
        BY <2>1 DEF IterInv, HeldInv, Everything
    <2>3. Visible' = Visible /\ Everything' = Everything
        BY <2>1 DEF Visible, Everything
    <2>4. Landed(merged, cursor, want)'
        BY <2>1, <2>3, LandedStays DEF IterInv
    <2> QED BY <2>1, <2>2, <2>4 DEF IterInv
<1> QED BY <1>1, MakeIteratorKeeps, WriteLiveKeeps, SeekKeeps, SeekToFirstKeeps, SeekToLastKeeps,
           IterNextKeeps, IterPrevKeeps DEF IteratorNext

(* SAFETY: an iterator is where its snapshot says, with the snapshot's      *)
(* value, after any calls in any order, turns at any entry and writes       *)
(* between them, for any number of children, entries, keys and writes       *)
(* (DBIter's FindNextUserEntry, FindPrevUserEntry and Prev over             *)
(* MergingIterator's Next and Prev).                                        *)
THEOREM IteratorFollows == IteratorSpec => []FollowsSnapshot
<1>1. IterInv => FollowsSnapshot
    BY DEF IterInv, Landed, FollowsSnapshot
<1> QED BY <1>1, IteratorStarts, IterKeeps, PTL DEF IteratorSpec

=============================================================================
