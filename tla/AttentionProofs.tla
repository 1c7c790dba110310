--------------------------- MODULE AttentionProofs ---------------------------
(***************************************************************************)
(* The device tokens of AttentionRequests are well typed and, when nothing *)
(* is on its way and neither a fetch failed nor a token was renewed, the   *)
(* stored token of a user is that of every phone whose closure observes    *)
(* the user.                                                               *)
(*                                                                         *)
(* A quiet moment alone is not inductive.  On the way to it, what a phone  *)
(* has in its copy and on its line together is what is stored, its         *)
(* acknowledgements answer its uploads in their order, and a phone that    *)
(* does not show its own token has a fetch or an event that will upload    *)
(* it again.                                                               *)
(***************************************************************************)
EXTENDS AttentionProperties, FiniteSetTheorems, SequenceTheorems, WellFoundedInduction, TLAPS

Has(list, u) == \E i \in DOMAIN list : list[i] = u

Rank(messages, i) == Cardinality({j \in AckIndices(messages) : j <= i})

Matched(messages, list) ==
    /\ Cardinality(AckIndices(messages)) <= Len(list)
    /\ \A i \in AckIndices(messages) : messages[i].user = list[Rank(messages, i)].user

Counted == \A d \in Devices : \A u \in Users : closures[d][u] <= signIns

(* What a phone has queued is about users its closures observe. *)
Attended ==
    \A d \in Devices :
        /\ \A i \in DOMAIN fetches[d] : closures[d][fetches[d][i]] > 0
        /\ \A i \in DOMAIN events[d] : closures[d][events[d][i]] > 0
        /\ \A i \in DOMAIN puts[d] : closures[d][puts[d][i].user] > 0
        /\ \A i \in DOMAIN down[d] : closures[d][down[d][i].user] > 0

AcksInOrder == \A d \in Devices : Matched(down[d], puts[d])

(* A client hears of everything stored under a user it observes. *)
Heard ==
    \A d \in Devices : \A u \in Users :
        closures[d][u] > 0 => Overlay(seen[d][u], down[d], u) = stored[u]

(* A phone shows its own token, or will upload it again. *)
Insists(d, u) == View(d, u) = token[d] \/ Has(fetches[d], u) \/ Has(events[d], u)

OwnTokens ==
    failures = 0 /\ refreshes = 0 =>
        \A d \in Devices :
            /\ \A i \in DOMAIN puts[d] : puts[d][i].token = token[d]
            /\ \A u \in Users : closures[d][u] > 0 => Insists(d, u)

Inv == TypeOK /\ Counted /\ Attended /\ AcksInOrder /\ Heard

-----------------------------------------------------------------------------
(* Queues. *)

LEMMA Appended ==
    ASSUME NEW S, NEW s \in Seq(S), NEW x \in S
    PROVE  /\ Append(s, x) \in Seq(S) /\ Len(Append(s, x)) = Len(s) + 1 /\ Len(s) \in Nat
           /\ DOMAIN s = 1..Len(s) /\ DOMAIN Append(s, x) = 1..(Len(s) + 1)
           /\ \A i \in DOMAIN s : i \in DOMAIN Append(s, x) /\ Append(s, x)[i] = s[i]
           /\ Append(s, x)[Len(s) + 1] = x
           /\ \A i \in DOMAIN Append(s, x) : i \in DOMAIN s \/ i = Len(s) + 1
BY AppendProperties, LenProperties

LEMMA Taken ==
    ASSUME NEW S, NEW s \in Seq(S), s # <<>>
    PROVE  /\ Tail(s) \in Seq(S) /\ Len(Tail(s)) = Len(s) - 1 /\ Len(s) \in Nat \ {0}
           /\ Head(s) \in S /\ Head(s) = s[1] /\ 1 \in DOMAIN s
           /\ DOMAIN s = 1..Len(s) /\ DOMAIN Tail(s) = 1..(Len(s) - 1)
           /\ \A i \in DOMAIN Tail(s) : i + 1 \in DOMAIN s /\ Tail(s)[i] = s[i + 1]
BY EmptySeq, HeadTailProperties, LenProperties

LEMMA AppendedHas ==
    ASSUME NEW S, NEW s \in Seq(S), NEW x \in S
    PROVE  /\ Has(Append(s, x), x)
           /\ \A u : Has(s, u) => Has(Append(s, x), u)
<1>1. Len(s) + 1 \in DOMAIN Append(s, x) /\ Append(s, x)[Len(s) + 1] = x
    BY Appended
<1>2. \A i \in DOMAIN s : i \in DOMAIN Append(s, x) /\ Append(s, x)[i] = s[i]
    BY Appended
<1> QED BY <1>1, <1>2 DEF Has

LEMMA TakenHas ==
    ASSUME NEW S, NEW s \in Seq(S), s # <<>>, NEW u, Has(s, u), Head(s) # u
    PROVE  Has(Tail(s), u)
<1>1. PICK i \in DOMAIN s : s[i] = u
    BY DEF Has
<1>2. i \in 1..Len(s) /\ i # 1 /\ Len(s) \in Nat
    BY <1>1, Taken
<1>3. i - 1 \in DOMAIN Tail(s) /\ (i - 1) + 1 = i
    BY <1>2, Taken
<1>4. Tail(s)[i - 1] = s[(i - 1) + 1]
    BY <1>3, Taken
<1> QED BY <1>1, <1>3, <1>4 DEF Has

-----------------------------------------------------------------------------
(* The last word about a user. *)

LastAbout(list, u, i) ==
    /\ i \in DOMAIN list /\ list[i].user = u
    /\ \A j \in DOMAIN list : list[j].user = u => j <= i

LEMMA SomeLast ==
    ASSUME NEW S, NEW list \in Seq(S), NEW u, NEW k \in DOMAIN list, list[k].user = u
    PROVE  \E i : LastAbout(list, u, i)
<1> DEFINE n == Len(list)
           mine == {i \in DOMAIN list : list[i].user = u}
           fromEnd == {n - i : i \in mine}
<1>1. DOMAIN list = 1..n /\ n \in Nat
    BY LenProperties
<1>2. fromEnd \subseteq Nat /\ n - k \in fromEnd
    BY <1>1
<1>3. PICK x \in fromEnd : \A y \in fromEnd : ~(<<y, x>> \in OpToRel(<, Nat))
    BY <1>2, NatLessThanWellFounded, WFMin
<1>4. PICK i \in mine : x = n - i
    BY <1>3
<1>5. ASSUME NEW j \in DOMAIN list, list[j].user = u
      PROVE  j <= i
    <2>1. n - j \in fromEnd /\ n - j \in Nat /\ x \in Nat
        BY <1>1, <1>2, <1>5
    <2>2. ~(n - j < x)
        BY <1>3, <2>1 DEF OpToRel
    <2> QED BY <1>1, <1>4, <2>2
<1> QED BY <1>4, <1>5 DEF LastAbout

LEMMA OverlayLast ==
    ASSUME NEW S, NEW list \in Seq(S), NEW u, NEW i, LastAbout(list, u, i), NEW copy
    PROVE  Overlay(copy, list, u) = list[i].token
<1> DEFINE mine == {j \in DOMAIN list : list[j].user = u}
           last == CHOOSE k \in mine : \A j \in mine : j <= k
<1>1. i \in mine /\ \A j \in mine : j <= i
    BY DEF LastAbout
<1>2. last \in mine /\ \A j \in mine : j <= last
    BY <1>1
<1>3. DOMAIN list \subseteq Int
    BY LenProperties
<1>4. last = i
    <2>1. last <= i /\ i <= last /\ i \in Int /\ last \in Int
        BY <1>1, <1>2, <1>3
    <2> QED BY <2>1
<1>5. mine # {}
    BY <1>1
<1> QED BY <1>4, <1>5 DEF Overlay

LEMMA OverlayNone ==
    ASSUME NEW list, NEW u, \A i \in DOMAIN list : list[i].user # u, NEW copy
    PROVE  Overlay(copy, list, u) = copy
<1>1. {i \in DOMAIN list : list[i].user = u} = {}
    OBVIOUS
<1> QED BY <1>1 DEF Overlay

LEMMA OverlayAppended ==
    ASSUME NEW S, NEW s \in Seq(S), NEW x \in S, NEW u, NEW copy
    PROVE  Overlay(copy, Append(s, x), u) = IF x.user = u THEN x.token ELSE Overlay(copy, s, u)
<1> DEFINE t == Append(s, x)
<1>1. /\ t \in Seq(S) /\ Len(s) \in Nat
      /\ DOMAIN s = 1..Len(s) /\ DOMAIN t = 1..(Len(s) + 1)
      /\ \A i \in DOMAIN s : i \in DOMAIN t /\ t[i] = s[i]
      /\ t[Len(s) + 1] = x
    BY Appended
<1> HIDE DEF t
<1>2. CASE x.user = u
    <2>1. LastAbout(t, u, Len(s) + 1)
        BY <1>1, <1>2 DEF LastAbout
    <2>2. Overlay(copy, t, u) = t[Len(s) + 1].token
        BY <1>1, <2>1, OverlayLast
    <2> QED BY <1>1, <1>2, <2>2 DEF t
<1>3. CASE x.user # u
    <2>1. \A i \in DOMAIN t : t[i].user = u => i \in DOMAIN s /\ s[i].user = u
        BY <1>1, <1>3
    <2>2. CASE \E k \in DOMAIN s : s[k].user = u
        <3>1. PICK i : LastAbout(s, u, i)
            BY <2>2, SomeLast
        <3>2. LastAbout(t, u, i) /\ t[i] = s[i]
            BY <1>1, <2>1, <3>1 DEF LastAbout
        <3>3. Overlay(copy, t, u) = t[i].token /\ Overlay(copy, s, u) = s[i].token
            BY <1>1, <3>1, <3>2, OverlayLast
        <3> QED BY <1>3, <3>2, <3>3 DEF t
    <2>3. CASE \A k \in DOMAIN s : s[k].user # u
        <3>1. Overlay(copy, t, u) = copy /\ Overlay(copy, s, u) = copy
            BY <2>1, <2>3, OverlayNone
        <3> QED BY <1>3, <3>1 DEF t
    <2> QED BY <2>2, <2>3
<1> QED BY <1>2, <1>3

LEMMA OverlayTaken ==
    ASSUME NEW S, NEW s \in Seq(S), s # <<>>, NEW u, NEW copy
    PROVE  Overlay(IF Head(s).user = u THEN Head(s).token ELSE copy, Tail(s), u) = Overlay(copy, s, u)
<1> DEFINE t == Tail(s)
           under == IF Head(s).user = u THEN Head(s).token ELSE copy
<1>1. /\ t \in Seq(S) /\ Len(s) \in Nat \ {0}
      /\ Head(s) = s[1] /\ 1 \in DOMAIN s
      /\ DOMAIN s = 1..Len(s) /\ DOMAIN t = 1..(Len(s) - 1)
      /\ \A i \in DOMAIN t : i + 1 \in DOMAIN s /\ t[i] = s[i + 1]
    BY Taken
<1> HIDE DEF t
<1>2. CASE \E k \in DOMAIN t : t[k].user = u
    <2>1. PICK i : LastAbout(t, u, i)
        BY <1>1, <1>2, SomeLast
    <2>2. i + 1 \in DOMAIN s /\ t[i] = s[i + 1] /\ s[i + 1].user = u /\ i \in Nat
        BY <1>1, <2>1 DEF LastAbout
    <2>3. ASSUME NEW j \in DOMAIN s, s[j].user = u
          PROVE  j <= i + 1
        <3>1. CASE j = 1
            BY <2>2, <3>1
        <3>2. CASE j # 1
            <4>1. j - 1 \in DOMAIN t /\ (j - 1) + 1 = j
                BY <1>1, <2>3, <3>2
            <4>2. t[j - 1] = s[j]
                BY <1>1, <4>1
            <4>3. j - 1 <= i
                BY <2>1, <2>3, <4>1, <4>2 DEF LastAbout
            <4> QED BY <1>1, <2>2, <2>3, <4>3
        <3> QED BY <3>1, <3>2
    <2>4. LastAbout(s, u, i + 1)
        BY <2>2, <2>3 DEF LastAbout
    <2>5. Overlay(under, t, u) = t[i].token /\ Overlay(copy, s, u) = s[i + 1].token
        BY <1>1, <2>1, <2>4, OverlayLast
    <2> QED BY <2>2, <2>5 DEF t
<1>3. CASE \A k \in DOMAIN t : t[k].user # u
    <2>1. Overlay(under, t, u) = under
        BY <1>3, OverlayNone
    <2>2. ASSUME NEW j \in DOMAIN s, s[j].user = u
          PROVE  j = 1
        <3>1. CASE j # 1
            <4>1. j - 1 \in DOMAIN t /\ (j - 1) + 1 = j
                BY <1>1, <2>2, <3>1
            <4> QED BY <1>1, <1>3, <2>2, <4>1
        <3> QED BY <3>1
    <2>3. CASE Head(s).user = u
        <3>1. LastAbout(s, u, 1)
            BY <1>1, <2>2, <2>3 DEF LastAbout
        <3>2. Overlay(copy, s, u) = s[1].token
            BY <3>1, OverlayLast
        <3> QED BY <1>1, <2>1, <2>3, <3>2 DEF t
    <2>4. CASE Head(s).user # u
        <3>1. Overlay(copy, s, u) = copy
            BY <1>1, <2>2, <2>4, OverlayNone
        <3> QED BY <2>1, <2>4, <3>1 DEF t
    <2> QED BY <2>3, <2>4
<1> QED BY <1>2, <1>3

-----------------------------------------------------------------------------
(* The acknowledgements answer the uploads in their order. *)

LEMMA AckIndicesFinite ==
    ASSUME NEW S, NEW s \in Seq(S)
    PROVE  /\ AckIndices(s) \subseteq 1..Len(s) /\ Len(s) \in Nat
           /\ IsFiniteSet(AckIndices(s)) /\ Cardinality(AckIndices(s)) \in Nat
           /\ \A i : IsFiniteSet({j \in AckIndices(s) : j <= i})
<1>1. AckIndices(s) \subseteq 1..Len(s) /\ Len(s) \in Nat
    BY LenProperties DEF AckIndices
<1>2. IsFiniteSet(AckIndices(s))
    <2>1. IsFiniteSet(1..Len(s))
        BY <1>1, FS_Interval
    <2> QED BY <1>1, <2>1, FS_Subset
<1>3. \A i : IsFiniteSet({j \in AckIndices(s) : j <= i})
    BY <1>2, FS_Subset
<1> QED BY <1>1, <1>2, <1>3, FS_CardinalityType

LEMMA RankBounds ==
    ASSUME NEW S, NEW s \in Seq(S), NEW i \in AckIndices(s)
    PROVE  Rank(s, i) \in 1..Cardinality(AckIndices(s))
<1> DEFINE upTo == {j \in AckIndices(s) : j <= i}
<1>1. upTo \subseteq AckIndices(s) /\ i \in upTo /\ IsFiniteSet(upTo)
    <2>1. i \in Nat
        BY AckIndicesFinite
    <2>2. IsFiniteSet(upTo)
        BY AckIndicesFinite
    <2> QED BY <2>1, <2>2
<1>2. Cardinality(upTo) <= Cardinality(AckIndices(s)) /\ Cardinality(upTo) \in Nat
    BY <1>1, AckIndicesFinite, FS_Subset, FS_CardinalityType
<1>3. Cardinality(upTo) # 0
    BY <1>1, FS_EmptySet
<1> QED BY <1>2, <1>3, AckIndicesFinite DEF Rank

(* Counting from one place further on. *)
LEMMA CountShifted ==
    ASSUME NEW A, A \subseteq Nat \ {0}, IsFiniteSet(A)
    PROVE  Cardinality({a - 1 : a \in A \ {1}}) = Cardinality(A) - (IF 1 \in A THEN 1 ELSE 0)
<1> DEFINE rest == A \ {1}
           back == [a \in rest |-> a - 1]
           B == {a - 1 : a \in rest}
<1>1. IsFiniteSet(rest) /\ Cardinality(rest) = Cardinality(A) - (IF 1 \in A THEN 1 ELSE 0)
    BY FS_RemoveElement, FS_CardinalityType
<1>2. back \in [rest -> B] /\ \A b \in B : \E a \in rest : back[a] = b
    OBVIOUS
<1>3. \A a, b \in rest : back[a] = back[b] => a = b
    OBVIOUS
<1>4. back \in Bijection(rest, B)
    BY <1>2, <1>3 DEF Bijection, Injection, Surjection, IsInjective
<1>5. Cardinality(B) = Cardinality(rest)
    BY <1>1, <1>4, FS_Bijection DEF ExistsBijection
<1> QED BY <1>1, <1>5

LEMMA AckAppended ==
    ASSUME NEW S, NEW s \in Seq(S), NEW m \in S
    PROVE  /\ AckIndices(Append(s, m)) =
                IF m.ack THEN AckIndices(s) \cup {Len(s) + 1} ELSE AckIndices(s)
           /\ Cardinality(AckIndices(Append(s, m))) =
                Cardinality(AckIndices(s)) + (IF m.ack THEN 1 ELSE 0)
           /\ \A i \in AckIndices(s) : Rank(Append(s, m), i) = Rank(s, i)
           /\ m.ack => Rank(Append(s, m), Len(s) + 1) = Cardinality(AckIndices(s)) + 1
<1>1. AckIndices(Append(s, m)) = IF m.ack THEN AckIndices(s) \cup {Len(s) + 1} ELSE AckIndices(s)
    BY Appended DEF AckIndices
<1>2. AckIndices(s) \subseteq 1..Len(s) /\ Len(s) \in Nat /\ IsFiniteSet(AckIndices(s))
    BY AckIndicesFinite
<1>3. m.ack => Cardinality(AckIndices(s) \cup {Len(s) + 1}) = Cardinality(AckIndices(s)) + 1
    <2>1. Len(s) + 1 \notin AckIndices(s)
        BY <1>2
    <2> QED BY <1>2, <2>1, FS_AddElement
<1>4. Cardinality(AckIndices(Append(s, m))) =
        Cardinality(AckIndices(s)) + (IF m.ack THEN 1 ELSE 0)
    BY <1>1, <1>3, AckIndicesFinite
<1>5. ASSUME NEW i \in AckIndices(s)
      PROVE  {j \in AckIndices(Append(s, m)) : j <= i} = {j \in AckIndices(s) : j <= i}
    BY <1>1, <1>2
<1>6. \A i \in AckIndices(s) : Rank(Append(s, m), i) = Rank(s, i)
    BY <1>5 DEF Rank
<1>7. ASSUME m.ack
      PROVE  Rank(Append(s, m), Len(s) + 1) = Cardinality(AckIndices(s)) + 1
    <2>1. {j \in AckIndices(Append(s, m)) : j <= Len(s) + 1} = AckIndices(s) \cup {Len(s) + 1}
        BY <1>1, <1>2, <1>7
    <2> QED BY <1>3, <1>7, <2>1 DEF Rank
<1> QED BY <1>1, <1>4, <1>6, <1>7

LEMMA AckTaken ==
    ASSUME NEW S, NEW s \in Seq(S), s # <<>>
    PROVE  /\ AckIndices(Tail(s)) = {a - 1 : a \in AckIndices(s) \ {1}}
           /\ 1 \in AckIndices(s) <=> Head(s).ack
           /\ Cardinality(AckIndices(Tail(s))) =
                Cardinality(AckIndices(s)) - (IF Head(s).ack THEN 1 ELSE 0)
           /\ \A i \in AckIndices(Tail(s)) :
                /\ i + 1 \in AckIndices(s) /\ Tail(s)[i] = s[i + 1]
                /\ Rank(Tail(s), i) = Rank(s, i + 1) - (IF Head(s).ack THEN 1 ELSE 0)
<1> DEFINE t == Tail(s)
<1>1. /\ t \in Seq(S) /\ Len(s) \in Nat \ {0} /\ Head(s) = s[1] /\ 1 \in DOMAIN s
      /\ DOMAIN s = 1..Len(s) /\ DOMAIN t = 1..(Len(s) - 1)
      /\ \A i \in DOMAIN t : i + 1 \in DOMAIN s /\ t[i] = s[i + 1]
    BY Taken
<1> HIDE DEF t
<1>2. 1 \in AckIndices(s) <=> Head(s).ack
    BY <1>1 DEF AckIndices
<1>3. \A i \in AckIndices(t) : i \in Nat /\ i + 1 \in AckIndices(s) \ {1} /\ (i + 1) - 1 = i /\ t[i] = s[i + 1]
    BY <1>1 DEF AckIndices
<1>4. ASSUME NEW a \in AckIndices(s) \ {1}
      PROVE  a - 1 \in AckIndices(t) /\ a \in Nat
    <2>1. a \in DOMAIN s /\ s[a].ack /\ a # 1
        BY DEF AckIndices
    <2>2. a - 1 \in DOMAIN t /\ (a - 1) + 1 = a
        BY <1>1, <2>1
    <2>3. t[a - 1] = s[a]
        BY <1>1, <2>2
    <2> QED BY <1>1, <2>1, <2>2, <2>3 DEF AckIndices
<1>5. AckIndices(t) = {a - 1 : a \in AckIndices(s) \ {1}}
    BY <1>3, <1>4
<1>6. AckIndices(s) \subseteq Nat \ {0} /\ IsFiniteSet(AckIndices(s))
    BY AckIndicesFinite
<1>7. Cardinality(AckIndices(t)) = Cardinality(AckIndices(s)) - (IF Head(s).ack THEN 1 ELSE 0)
    BY <1>2, <1>5, <1>6, CountShifted
<1>8. ASSUME NEW i \in AckIndices(t)
      PROVE  Rank(t, i) = Rank(s, i + 1) - (IF Head(s).ack THEN 1 ELSE 0)
    <2> DEFINE A == {j \in AckIndices(s) : j <= i + 1}
    <2>1. i \in Nat /\ i + 1 \in AckIndices(s) /\ i # 0
        BY <1>1, <1>3, <1>8 DEF AckIndices
    <2>2. A \subseteq Nat \ {0} /\ IsFiniteSet(A)
        BY <1>6, AckIndicesFinite
    <2>3. 1 \in A <=> Head(s).ack
        BY <1>2, <2>1
    <2>4. {j \in AckIndices(t) : j <= i} = {a - 1 : a \in A \ {1}}
        <3>1. ASSUME NEW j \in AckIndices(t), j <= i
              PROVE  j \in {a - 1 : a \in A \ {1}}
            <4>1. j + 1 \in AckIndices(s) \ {1} /\ (j + 1) - 1 = j /\ j + 1 <= i + 1
                BY <1>3, <2>1, <3>1
            <4> QED BY <4>1
        <3>2. ASSUME NEW a \in A \ {1}
              PROVE  a - 1 \in AckIndices(t) /\ a - 1 <= i
            BY <1>4, <2>1, <3>2
        <3> QED BY <3>1, <3>2
    <2> HIDE DEF A
    <2>5. Cardinality({a - 1 : a \in A \ {1}}) = Cardinality(A) - (IF Head(s).ack THEN 1 ELSE 0)
        BY <2>2, <2>3, CountShifted
    <2> QED BY <2>4, <2>5 DEF Rank, A
<1> QED BY <1>2, <1>3, <1>5, <1>7, <1>8 DEF t

LEMMA MatchedUpload ==
    ASSUME NEW S, NEW s \in Seq(S), NEW T, NEW l \in Seq(T), NEW x \in T, Matched(s, l)
    PROVE  Matched(s, Append(l, x))
<1>1. /\ Len(Append(l, x)) = Len(l) + 1 /\ Len(l) \in Nat /\ DOMAIN l = 1..Len(l)
      /\ \A i \in DOMAIN l : Append(l, x)[i] = l[i]
    BY Appended
<1>2. Cardinality(AckIndices(s)) \in Nat
    BY AckIndicesFinite
<1>3. \A i \in AckIndices(s) : Rank(s, i) \in DOMAIN l
    BY <1>1, <1>2, RankBounds DEF Matched
<1> QED BY <1>1, <1>2, <1>3 DEF Matched

LEMMA MatchedPush ==
    ASSUME NEW S, NEW s \in Seq(S), NEW T, NEW l \in Seq(T), NEW m \in S, Matched(s, l),
           m.ack => /\ Cardinality(AckIndices(s)) < Len(l)
                    /\ l[Cardinality(AckIndices(s)) + 1].user = m.user
    PROVE  Matched(Append(s, m), l)
<1> DEFINE t == Append(s, m)
           n == Cardinality(AckIndices(s))
<1>1. /\ AckIndices(t) = IF m.ack THEN AckIndices(s) \cup {Len(s) + 1} ELSE AckIndices(s)
      /\ Cardinality(AckIndices(t)) = n + (IF m.ack THEN 1 ELSE 0)
      /\ \A i \in AckIndices(s) : Rank(t, i) = Rank(s, i)
      /\ m.ack => Rank(t, Len(s) + 1) = n + 1
    BY AckAppended
<1>2. /\ \A i \in DOMAIN s : t[i] = s[i]
      /\ t[Len(s) + 1] = m
    BY Appended
<1>3. AckIndices(s) \subseteq DOMAIN s /\ n \in Nat /\ Len(l) \in Nat
    BY AckIndicesFinite, LenProperties DEF AckIndices
<1> HIDE DEF t, n
<1>4. Cardinality(AckIndices(t)) <= Len(l)
    BY <1>1, <1>3 DEF Matched, n
<1>5. ASSUME NEW i \in AckIndices(t)
      PROVE  t[i].user = l[Rank(t, i)].user
    <2>1. CASE i \in AckIndices(s)
        BY <1>1, <1>2, <1>3, <2>1 DEF Matched
    <2>2. CASE i \notin AckIndices(s)
        <3>1. m.ack /\ i = Len(s) + 1
            BY <1>1, <1>5, <2>2
        <3> QED BY <1>1, <1>2, <3>1 DEF n
    <2> QED BY <2>1, <2>2
<1> QED BY <1>4, <1>5 DEF Matched, t

LEMMA MatchedTaken ==
    ASSUME NEW S, NEW s \in Seq(S), s # <<>>, NEW T, NEW l \in Seq(T), Matched(s, l)
    PROVE  /\ Head(s).ack => l # <<>> /\ Head(l).user = Head(s).user
           /\ Matched(Tail(s), IF Head(s).ack THEN Tail(l) ELSE l)
<1>1. /\ 1 \in AckIndices(s) <=> Head(s).ack
      /\ Cardinality(AckIndices(Tail(s))) =
            Cardinality(AckIndices(s)) - (IF Head(s).ack THEN 1 ELSE 0)
      /\ \A i \in AckIndices(Tail(s)) :
            /\ i + 1 \in AckIndices(s) /\ Tail(s)[i] = s[i + 1]
            /\ Rank(Tail(s), i) = Rank(s, i + 1) - (IF Head(s).ack THEN 1 ELSE 0)
    BY AckTaken
<1>2. Cardinality(AckIndices(s)) \in Nat /\ Len(l) \in Nat
    BY AckIndicesFinite, LenProperties
<1>3. \A i \in AckIndices(s) : Rank(s, i) \in 1..Cardinality(AckIndices(s))
    BY RankBounds
<1>4. CASE ~Head(s).ack
    <2>1. Cardinality(AckIndices(Tail(s))) <= Len(l)
        BY <1>1, <1>2, <1>4 DEF Matched
    <2>2. ASSUME NEW i \in AckIndices(Tail(s))
          PROVE  Tail(s)[i].user = l[Rank(Tail(s), i)].user
        <3>1. i + 1 \in AckIndices(s) /\ Tail(s)[i] = s[i + 1] /\ Rank(Tail(s), i) = Rank(s, i + 1) - 0
            BY <1>1, <1>4, <2>2
        <3>2. Rank(s, i + 1) \in 1..Cardinality(AckIndices(s))
            BY <1>3, <3>1
        <3>3. Rank(s, i + 1) - 0 = Rank(s, i + 1)
            BY <1>2, <3>2
        <3> QED BY <3>1, <3>3 DEF Matched
    <2> QED BY <1>4, <2>1, <2>2 DEF Matched
<1>5. CASE Head(s).ack
    <2>1. Rank(s, 1) = 1
        <3>1. {j \in AckIndices(s) : j <= 1} = {1}
            BY <1>1, <1>5, AckIndicesFinite
        <3> QED BY <3>1, FS_Singleton DEF Rank
    <2>2. l # <<>>
        BY <1>1, <1>2, <1>3, <1>5, EmptySeq DEF Matched
    <2>3. /\ Head(l) = l[1] /\ Len(Tail(l)) = Len(l) - 1 /\ DOMAIN Tail(l) = 1..(Len(l) - 1)
          /\ \A i \in DOMAIN Tail(l) : Tail(l)[i] = l[i + 1]
        BY <2>2, Taken
    <2>4. Head(l).user = Head(s).user
        BY <1>1, <1>5, <2>1, <2>3, Taken DEF Matched
    <2>5. Cardinality(AckIndices(Tail(s))) <= Len(Tail(l))
        BY <1>1, <1>2, <1>5, <2>3 DEF Matched
    <2>6. ASSUME NEW i \in AckIndices(Tail(s))
          PROVE  Tail(s)[i].user = Tail(l)[Rank(Tail(s), i)].user
        <3> DEFINE r == Rank(s, i + 1)
        <3>1. i + 1 \in AckIndices(s) /\ Tail(s)[i] = s[i + 1] /\ Rank(Tail(s), i) = r - 1
            BY <1>1, <1>5, <2>6
        <3>2. r \in 1..Cardinality(AckIndices(s)) /\ s[i + 1].user = l[r].user
            BY <1>3, <3>1 DEF Matched
        <3>3. Rank(Tail(s), i) \in 1..Cardinality(AckIndices(Tail(s)))
            <4>1. Tail(s) \in Seq(S)
                BY Taken
            <4> QED BY <2>6, <4>1, RankBounds
        <3> HIDE DEF r
        <3>4. r - 1 \in DOMAIN Tail(l) /\ (r - 1) + 1 = r
            BY <1>1, <1>2, <1>5, <2>3, <3>1, <3>2, <3>3 DEF Matched
        <3>5. Tail(l)[r - 1] = l[r]
            BY <2>3, <3>4
        <3> QED BY <3>1, <3>2, <3>5
    <2> QED BY <1>5, <2>2, <2>4, <2>5, <2>6 DEF Matched
<1> QED BY <1>4, <1>5

-----------------------------------------------------------------------------
(* The steps that leave every queue of the phones alone. *)

LEMMA InitInv == Init => Inv /\ OwnTokens
<1> SUFFICES ASSUME Init PROVE Inv /\ OwnTokens
    OBVIOUS
<1>1. TypeOK
    BY AttentionAssumption DEF Init, TypeOK, Tokens
<1>2. Counted /\ Attended /\ Heard /\ OwnTokens
    BY DEF Init, Counted, Attended, Heard, OwnTokens
<1>3. Matched(<<>>, <<>>)
    BY FS_EmptySet DEF Matched, AckIndices
<1>4. AcksInOrder
    BY <1>3 DEF Init, AcksInOrder
<1> QED BY <1>1, <1>2, <1>4 DEF Inv

LEMMA SameQueues ==
    ASSUME Counted, Attended, AcksInOrder, Heard, UNCHANGED <<stored, closures, seen, events, fetches, puts, down>>,
           signIns' = signIns
    PROVE  Counted' /\ Attended' /\ AcksInOrder' /\ Heard'
<1>1. Counted' /\ Attended'
    BY DEF Counted, Attended
<1>2. AcksInOrder'
    BY DEF AcksInOrder
<1>3. Heard'
    BY DEF Heard
<1> QED BY <1>1, <1>2, <1>3

LEMMA SameTokens ==
    ASSUME OwnTokens, UNCHANGED <<token, closures, seen, events, fetches, puts, failures, refreshes>>
    PROVE  OwnTokens'
BY DEF OwnTokens, Insists, View

LEMMA RequestInv ==
    ASSUME Inv, OwnTokens, UNCHANGED <<stored, deviceVars, signIns, failures, refreshes, restarts>>,
           \/ \E d \in Devices, r \in Requests, to \in Users \cup {Loading} : sendNotification(d, r, to)
           \/ \E r \in Requests : newNodeDetected(r) \/ submitPayload(r) \/ Retire(r)
    PROVE  Inv' /\ OwnTokens'
<1>1. Counted' /\ Attended' /\ AcksInOrder' /\ Heard'
    BY SameQueues DEF Inv, deviceVars
<1>2. OwnTokens'
    BY SameTokens DEF deviceVars
<1>3. request' \in [Requests -> Sent \cup {Nil}]
    <2>1. ASSUME NEW r \in Requests, NEW state \in {"watched", "retired"}, request[r] # Nil,
                 request' = [request EXCEPT ![r].state = state]
          PROVE  request' \in [Requests -> Sent \cup {Nil}]
        <3>1. request[r] \in Sent /\ request \in [Requests -> Sent \cup {Nil}]
            BY <2>1 DEF Inv, TypeOK
        <3>2. [request[r] EXCEPT !.state = state] \in Sent
            BY <2>1, <3>1 DEF Sent
        <3> QED BY <2>1, <3>1, <3>2
    <2>2. ASSUME NEW d \in Devices, NEW r \in Requests, NEW to \in Users \cup {Loading},
                 sendNotification(d, r, to)
          PROVE  request' \in [Requests -> Sent \cup {Nil}]
        BY <2>2 DEF sendNotification, Inv, TypeOK, Sent
    <2>3. ASSUME NEW r \in Requests, submitPayload(r)
          PROVE  request' \in [Requests -> Sent \cup {Nil}]
        BY <2>3 DEF submitPayload, Inv, TypeOK
    <2>4. ASSUME NEW r \in Requests, newNodeDetected(r) \/ Retire(r)
          PROVE  request' \in [Requests -> Sent \cup {Nil}]
        <3>1. request[r] # Nil
            BY <2>4 DEF newNodeDetected, Retire, InState
        <3> QED BY <2>1, <2>4, <3>1 DEF newNodeDetected, Retire
    <2> QED BY <2>2, <2>3, <2>4
<1>4. told' \in [Requests -> Tokens \cup {Nil, Unheard}]
    <2>1. ASSUME NEW r \in Requests, submitPayload(r)
          PROVE  told' \in [Requests -> Tokens \cup {Nil, Unheard}]
        <3>1. request[r] \in Sent
            BY <2>1 DEF submitPayload, InState, Inv, TypeOK
        <3>2. request[r].to = Loading \/ request[r].to \in Users
            BY <3>1 DEF Sent
        <3>3. Addressed(r) \in Tokens \cup {Nil}
            BY <3>2 DEF Addressed, Inv, TypeOK
        <3> QED BY <2>1, <3>3 DEF submitPayload, Inv, TypeOK
    <2>2. told' = told \/ \E r \in Requests : submitPayload(r)
        BY DEF sendNotification, newNodeDetected, Retire
    <2> QED BY <2>1, <2>2 DEF Inv, TypeOK
<1>5. reached' \subseteq Requests
    BY DEF Inv, TypeOK, sendNotification, newNodeDetected, submitPayload, Retire
<1>6. retires' \in 0..MaxFaults
    BY AttentionAssumption DEF Inv, TypeOK, sendNotification, newNodeDetected, submitPayload, Retire,
       MayFail, countVars
<1>7. TypeOK'
    BY <1>3, <1>4, <1>5, <1>6 DEF Inv, TypeOK, deviceVars
<1> QED BY <1>1, <1>2, <1>7 DEF Inv

LEMMA AccountInv ==
    ASSUME Inv, OwnTokens, NEW d \in Devices, signOut(d) \/ Refresh(d)
    PROVE  Inv' /\ OwnTokens'
<1>1. Counted' /\ Attended' /\ AcksInOrder' /\ Heard'
    BY SameQueues DEF Inv, signOut, Refresh, countVars
<1>2. CASE signOut(d)
    <2>1. OwnTokens'
        BY <1>2, SameTokens DEF signOut, countVars
    <2>2. TypeOK'
        BY <1>2 DEF Inv, TypeOK, signOut, countVars, requestVars
    <2> QED BY <1>1, <2>1, <2>2 DEF Inv
<1>3. CASE Refresh(d)
    <2>1. refreshes' \in 1..MaxFaults /\ refreshes + 1 \in 0..MaxFaults
        BY <1>3, AttentionAssumption, SMTT(30) DEF Refresh, MayFail, Inv, TypeOK
    <2>2. OwnTokens'
        BY <2>1 DEF OwnTokens
    <2>3. token' \in [Devices -> Tokens]
        BY <1>3, <2>1 DEF Refresh, Inv, TypeOK, Tokens
    <2>4. TypeOK'
        BY <1>3, <2>1, <2>3 DEF Inv, TypeOK, Refresh, requestVars
    <2> QED BY <1>1, <2>2, <2>4 DEF Inv
<1> QED BY <1>2, <1>3

LEMMA RestartInv ==
    ASSUME Inv, OwnTokens, NEW d \in Devices, Restart(d)
    PROVE  Inv' /\ OwnTokens'
<1>1. TypeOK'
    <2>1. closures' \in [Devices -> [Users -> 0..MaxSignIns]]
        BY AttentionAssumption DEF Restart, Inv, TypeOK
    <2>2. seen' \in [Devices -> [Users -> Tokens \cup {Nil}]]
        BY DEF Restart, Inv, TypeOK
    <2>3. events' \in [Devices -> Seq(Users)] /\ fetches' \in [Devices -> Seq(Users)]
        BY DEF Restart, Inv, TypeOK
    <2>4. puts' \in [Devices -> Seq(Uploads)] /\ down' \in [Devices -> Seq(Messages)]
        BY DEF Restart, Inv, TypeOK
    <2>5. restarts' \in 0..MaxFaults
        BY AttentionAssumption DEF Restart, MayFail, Inv, TypeOK
    <2> QED BY <2>1, <2>2, <2>3, <2>4, <2>5 DEF Restart, Inv, TypeOK, requestVars
<1>2. /\ \A u \in Users : closures'[d][u] = 0
      /\ events'[d] = <<>> /\ fetches'[d] = <<>> /\ puts'[d] = <<>> /\ down'[d] = <<>>
      /\ \A e \in Devices \ {d} :
            /\ closures'[e] = closures[e] /\ seen'[e] = seen[e] /\ events'[e] = events[e]
            /\ fetches'[e] = fetches[e] /\ puts'[e] = puts[e] /\ down'[e] = down[e]
      /\ UNCHANGED <<stored, token, signIns, failures, refreshes>> /\ signIns \in Nat
    BY DEF Restart, Inv, TypeOK
<1>3. Counted' /\ Attended' /\ Heard'
    BY <1>2 DEF Inv, Counted, Attended, Heard
<1>4. AcksInOrder'
    <2>1. Matched(<<>>, <<>>)
        BY FS_EmptySet DEF Matched, AckIndices
    <2>2. ASSUME NEW e \in Devices
          PROVE  Matched(down'[e], puts'[e])
        BY <1>2, <2>1 DEF Inv, AcksInOrder
    <2> QED BY <2>2 DEF AcksInOrder
<1>5. OwnTokens'
    BY <1>2 DEF OwnTokens, Insists, View
<1> QED BY <1>1, <1>3, <1>4, <1>5 DEF Inv

-----------------------------------------------------------------------------
(* The steps that move something on its way. *)

LEMMA RaisedEvents ==
    ASSUME TypeOK, NEW d \in Devices, NEW u \in Users, NEW changed \in BOOLEAN, Raise(d, u, changed)
    PROVE  /\ events' \in [Devices -> Seq(Users)]
           /\ \A e \in Devices \ {d} : events'[e] = events[e]
           /\ \A i \in DOMAIN events'[d] :
                (\E j \in DOMAIN events[d] : events'[d][i] = events[d][j]) \/ events'[d][i] = u
           /\ \A w : Has(events[d], w) => Has(events'[d], w)
           /\ changed /\ closures[d][u] > 0 => Has(events'[d], u)
<1>1. events \in [Devices -> Seq(Users)] /\ events[d] \in Seq(Users)
    BY DEF TypeOK
<1>2. CASE ~changed
    BY <1>1, <1>2 DEF Raise
<1>3. CASE changed
    <2> DEFINE n == closures[d][u]
               new == [i \in 1..n |-> u]
               s == events[d]
    <2>1. n \in Nat /\ new \in Seq(Users) /\ Len(new) = n /\ DOMAIN new = 1..n /\ \A i \in 1..n : new[i] = u
        <3>1. n \in Nat
            BY DEF TypeOK
        <3> HIDE DEF n
        <3>2. new \in [1..n -> Users] /\ DOMAIN new = 1..n /\ \A i \in 1..n : new[i] = u
            OBVIOUS
        <3> HIDE DEF new
        <3>3. new \in Seq(Users)
            BY <3>1, <3>2, SeqDef
        <3>4. Len(new) \in Nat /\ 1..n = 1..Len(new)
            BY <3>2, <3>3, LenProperties
        <3>5. Len(new) = n
            BY <3>1, <3>4
        <3> QED BY <3>1, <3>2, <3>3, <3>5
    <2>2. events' = [events EXCEPT ![d] = s \o new]
        BY <1>3 DEF Raise
    <2> HIDE DEF n, new, s
    <2>3. /\ s \o new \in Seq(Users) /\ Len(s) \in Nat
          /\ DOMAIN s = 1..Len(s) /\ DOMAIN (s \o new) = 1..(Len(s) + n)
          /\ \A i \in 1..(Len(s) + n) : (s \o new)[i] = IF i <= Len(s) THEN s[i] ELSE new[i - Len(s)]
        <3>1. s \in Seq(Users)
            BY <1>1 DEF s
        <3>2. /\ s \o new \in Seq(Users) /\ Len(s \o new) = Len(s) + n
              /\ \A i \in 1..(Len(s) + n) : (s \o new)[i] = IF i <= Len(s) THEN s[i] ELSE new[i - Len(s)]
            BY <2>1, <3>1, ConcatProperties
        <3> QED BY <3>1, <3>2, LenProperties
    <2>4. ASSUME NEW i \in DOMAIN (s \o new)
          PROVE  (\E j \in DOMAIN s : (s \o new)[i] = s[j]) \/ (s \o new)[i] = u
        <3>1. i <= Len(s) => i \in DOMAIN s
            BY <2>3, <2>4
        <3>2. ~(i <= Len(s)) => i - Len(s) \in 1..n
            BY <2>1, <2>3, <2>4
        <3> QED BY <2>1, <2>3, <2>4, <3>1, <3>2
    <2>5. ASSUME NEW j \in DOMAIN s
          PROVE  j \in DOMAIN (s \o new) /\ (s \o new)[j] = s[j]
        BY <2>1, <2>3, <2>5
    <2>6. ASSUME n > 0
          PROVE  \E j \in DOMAIN (s \o new) : (s \o new)[j] = u
        <3>1. Len(s) + 1 \in 1..(Len(s) + n) /\ (Len(s) + 1) - Len(s) = 1 /\ ~(Len(s) + 1 <= Len(s)) /\ 1 \in 1..n
            BY <2>1, <2>3, <2>6
        <3>2. (s \o new)[Len(s) + 1] = new[(Len(s) + 1) - Len(s)]
            BY <2>3, <3>1
        <3> QED BY <2>1, <2>3, <3>1, <3>2
    <2>7. events'[d] = s \o new /\ \A e \in Devices \ {d} : events'[e] = events[e]
        BY <1>1, <2>2
    <2>8. events' \in [Devices -> Seq(Users)]
        BY <1>1, <2>2, <2>3
    <2> QED BY <1>3, <2>4, <2>5, <2>6, <2>7, <2>8 DEF Has, s, n
<1> QED BY <1>2, <1>3

LEMMA signInInv ==
    ASSUME Inv, OwnTokens, NEW d \in Devices, NEW u \in Users, signIn(d, u)
    PROVE  Inv' /\ OwnTokens'
<1>1. /\ UNCHANGED <<stored, token, events, puts, down, failures, refreshes>>
      /\ signIns \in Nat /\ signIns' = signIns + 1 /\ signIns' \in 0..MaxSignIns
      /\ closures[d][u] \in Nat /\ closures'[d][u] = closures[d][u] + 1
      /\ \A e \in Devices : \A w \in Users :
            /\ closures[e][w] \in Nat
            /\ e # d \/ w # u => closures'[e][w] = closures[e][w] /\ seen'[e][w] = seen[e][w]
      /\ seen'[d][u] = IF closures[d][u] > 0 THEN seen[d][u] ELSE stored[u]
      /\ fetches'[d] = Append(fetches[d], u)
      /\ \A e \in Devices \ {d} : fetches'[e] = fetches[e]
      /\ fetches[d] \in Seq(Users)
    <2>1. /\ UNCHANGED <<stored, token, events, puts, down, failures, refreshes>>
          /\ signIns \in Nat /\ signIns' = signIns + 1 /\ signIns' \in 0..MaxSignIns
        BY AttentionAssumption DEF signIn, Inv, TypeOK
    <2>2. \A e \in Devices : \A w \in Users : closures[e][w] \in Nat
        BY DEF Inv, TypeOK
    <2>3. /\ closures'[d][u] = closures[d][u] + 1
          /\ \A e \in Devices : \A w \in Users :
                e # d \/ w # u => closures'[e][w] = closures[e][w]
        BY DEF signIn, Inv, TypeOK
    <2>4. /\ seen'[d][u] = IF closures[d][u] > 0 THEN seen[d][u] ELSE stored[u]
          /\ \A e \in Devices : \A w \in Users :
                e # d \/ w # u => seen'[e][w] = seen[e][w]
        BY DEF signIn, Inv, TypeOK
    <2>5. /\ fetches'[d] = Append(fetches[d], u) /\ fetches[d] \in Seq(Users)
          /\ \A e \in Devices \ {d} : fetches'[e] = fetches[e]
        BY DEF signIn, Inv, TypeOK
    <2> QED BY <2>1, <2>2, <2>3, <2>4, <2>5
<1>2. \A e \in Devices : \A w \in Users : closures'[e][w] >= closures[e][w]
    BY <1>1
<1>3. Counted'
    BY <1>1 DEF Inv, Counted
<1>4. closures' \in [Devices -> [Users -> 0..MaxSignIns]]
    <2>1. closures'[d][u] \in 0..MaxSignIns
        BY <1>1, <1>3, AttentionAssumption DEF Counted
    <2> QED BY <1>1, <2>1 DEF signIn, Inv, TypeOK
<1>5. TypeOK'
    <2>1. fetches' \in [Devices -> Seq(Users)]
        BY <1>1, Appended DEF signIn, Inv, TypeOK
    <2>2. seen' \in [Devices -> [Users -> Tokens \cup {Nil}]]
        BY DEF signIn, Inv, TypeOK
    <2>3. signedIn' \in [Devices -> Users \cup {Nil}]
        BY DEF signIn, Inv, TypeOK
    <2> QED BY <1>1, <1>4, <2>1, <2>2, <2>3 DEF signIn, Inv, TypeOK, requestVars
<1>6. Attended'
    <2>1. \A i \in DOMAIN fetches'[d] : fetches'[d][i] = u \/ \E j \in DOMAIN fetches[d] : fetches'[d][i] = fetches[d][j]
        BY <1>1, Appended
    <2>2. \A e \in Devices : /\ \A i \in DOMAIN fetches[e] : fetches[e][i] \in Users
                             /\ \A i \in DOMAIN events[e] : events[e][i] \in Users
                             /\ \A i \in DOMAIN puts[e] : puts[e][i].user \in Users
                             /\ \A i \in DOMAIN down[e] : down[e][i].user \in Users
        <3>1. ASSUME NEW e \in Devices
              PROVE  /\ \A i \in DOMAIN puts[e] : puts[e][i] \in Uploads
                     /\ \A i \in DOMAIN down[e] : down[e][i] \in Messages
                     /\ \A i \in DOMAIN fetches[e] : fetches[e][i] \in Users
                     /\ \A i \in DOMAIN events[e] : events[e][i] \in Users
            BY ElementOfSeq, LenProperties DEF Inv, TypeOK
        <3> QED BY <3>1 DEF Uploads, Messages
    <2>3. ASSUME NEW e \in Devices, NEW w \in Users, closures[e][w] > 0
          PROVE  closures'[e][w] > 0
        BY <1>1, <1>2, <2>3
    <2>4. closures'[d][u] > 0
        BY <1>1
    <2>5. ASSUME NEW e \in Devices
          PROVE  \A i \in DOMAIN fetches'[e] : closures'[e][fetches'[e][i]] > 0
        <3>1. CASE e # d
            BY <1>1, <2>2, <2>3, <3>1 DEF Inv, Attended
        <3>2. CASE e = d
            <4>1. \A j \in DOMAIN fetches[d] : closures'[d][fetches[d][j]] > 0
                BY <2>2, <2>3 DEF Inv, Attended
            <4> QED BY <2>1, <2>4, <3>2, <4>1
        <3> QED BY <3>1, <3>2
    <2>6. ASSUME NEW e \in Devices
          PROVE  /\ \A i \in DOMAIN events[e] : closures'[e][events[e][i]] > 0
                 /\ \A i \in DOMAIN puts[e] : closures'[e][puts[e][i].user] > 0
                 /\ \A i \in DOMAIN down[e] : closures'[e][down[e][i].user] > 0
        BY <2>2, <2>3 DEF Inv, Attended
    <2> QED BY <1>1, <2>5, <2>6 DEF Attended
<1>7. AcksInOrder'
    BY <1>1 DEF Inv, AcksInOrder
<1>8. Heard'
    <2>1. CASE closures[d][u] > 0
        BY <1>1, <2>1 DEF Inv, Heard
    <2>2. CASE ~(closures[d][u] > 0)
        <3>1. \A i \in DOMAIN down[d] : down[d][i].user # u
            BY <2>2 DEF Inv, Attended
        <3>2. Overlay(seen'[d][u], down[d], u) = stored[u]
            BY <1>1, <2>2, <3>1, OverlayNone
        <3> QED BY <1>1, <3>2 DEF Inv, Heard
    <2> QED BY <2>1, <2>2
<1>9. OwnTokens'
    <2> SUFFICES ASSUME failures = 0, refreshes = 0, NEW e \in Devices, NEW w \in Users, closures'[e][w] > 0
                 PROVE  Insists(e, w)'
        BY <1>1 DEF OwnTokens
    <2>1. CASE e = d /\ w = u
        <3>1. Has(fetches'[d], u)
            BY <1>1, AppendedHas
        <3> QED BY <2>1, <3>1 DEF Insists
    <2>2. CASE e # d \/ w # u
        <3>1. Insists(e, w)
            BY <1>1, <2>2 DEF OwnTokens
        <3>2. Has(fetches[e], w) => Has(fetches'[e], w)
            <4>1. Has(fetches[d], w) => Has(fetches'[d], w)
                BY <1>1, AppendedHas
            <4> QED BY <1>1, <4>1
        <3> QED BY <1>1, <2>2, <3>1, <3>2 DEF Insists, View
    <2> QED BY <2>1, <2>2
<1> QED BY <1>3, <1>5, <1>6, <1>7, <1>8, <1>9 DEF Inv

(* A token comes: it is put, or an error is printed. *)
LEMMA FetchesTaken ==
    ASSUME TypeOK, NEW d \in Devices, fetches[d] # <<>>, fetches' = [fetches EXCEPT ![d] = Tail(@)]
    PROVE  /\ fetches' \in [Devices -> Seq(Users)] /\ Head(fetches[d]) \in Users
           /\ \A e \in Devices \ {d} : fetches'[e] = fetches[e]
           /\ \A i \in DOMAIN fetches'[d] : \E j \in DOMAIN fetches[d] : fetches'[d][i] = fetches[d][j]
           /\ \A w : Has(fetches[d], w) /\ w # Head(fetches[d]) => Has(fetches'[d], w)
           /\ \E j \in DOMAIN fetches[d] : fetches[d][j] = Head(fetches[d])
<1>1. fetches[d] \in Seq(Users) /\ fetches \in [Devices -> Seq(Users)]
    BY DEF TypeOK
<1>2. Tail(fetches[d]) \in Seq(Users) /\ Head(fetches[d]) \in Users
    BY <1>1, Taken
<1>3. fetches'[d] = Tail(fetches[d]) /\ \A e \in Devices \ {d} : fetches'[e] = fetches[e]
    BY <1>1
<1>4. \A i \in DOMAIN Tail(fetches[d]) : \E j \in DOMAIN fetches[d] : Tail(fetches[d])[i] = fetches[d][j]
    BY <1>1, Taken
<1>5. \A w : Has(fetches[d], w) /\ w # Head(fetches[d]) => Has(Tail(fetches[d]), w)
    BY <1>1, TakenHas
<1>6. \E j \in DOMAIN fetches[d] : fetches[d][j] = Head(fetches[d])
    BY <1>1, Taken
<1> QED BY <1>1, <1>2, <1>3, <1>4, <1>5, <1>6

LEMMA TokenFailsInv ==
    ASSUME Inv, OwnTokens, NEW d \in Devices, TokenFails(d)
    PROVE  Inv' /\ OwnTokens'
<1>1. /\ UNCHANGED <<stored, closures, seen, events, puts, down, signIns>>
      /\ fetches[d] # <<>> /\ fetches' = [fetches EXCEPT ![d] = Tail(@)]
    BY DEF TokenFails
<1>2. /\ fetches' \in [Devices -> Seq(Users)]
      /\ \A e \in Devices \ {d} : fetches'[e] = fetches[e]
      /\ \A i \in DOMAIN fetches'[d] : \E j \in DOMAIN fetches[d] : fetches'[d][i] = fetches[d][j]
    BY <1>1, FetchesTaken DEF Inv
<1>3. failures' \in 1..MaxFaults
    BY AttentionAssumption, SMTT(30) DEF TokenFails, MayFail, Inv, TypeOK
<1>4. TypeOK'
    BY <1>2, <1>3 DEF TokenFails, Inv, TypeOK, requestVars
<1>5. Attended'
    <2>1. ASSUME NEW e \in Devices
          PROVE  \A i \in DOMAIN fetches'[e] : closures[e][fetches'[e][i]] > 0
        <3>1. \A i \in DOMAIN fetches[e] : closures[e][fetches[e][i]] > 0
            BY DEF Inv, Attended
        <3> QED BY <1>2, <3>1
    <2> QED BY <1>1, <2>1 DEF Inv, Attended
<1>6. Counted' /\ AcksInOrder' /\ Heard'
    BY <1>1 DEF Inv, Counted, AcksInOrder, Heard
<1>7. OwnTokens'
    BY <1>3 DEF OwnTokens
<1> QED BY <1>4, <1>5, <1>6, <1>7 DEF Inv

LEMMA TokenFetchedInv ==
    ASSUME Inv, OwnTokens, NEW d \in Devices, TokenFetched(d)
    PROVE  Inv' /\ OwnTokens'
<1> DEFINE u == Head(fetches[d])
           put == [user |-> u, token |-> token[d]]
           changed == View(d, u) # token[d]
<1>1. /\ UNCHANGED <<stored, token, closures, seen, down, signIns, failures, refreshes>>
      /\ fetches[d] # <<>> /\ fetches' = [fetches EXCEPT ![d] = Tail(@)]
      /\ puts' = [puts EXCEPT ![d] = Append(@, put)]
      /\ Raise(d, u, changed)
    BY DEF TokenFetched, countVars
<1>2. /\ fetches' \in [Devices -> Seq(Users)] /\ u \in Users
      /\ \A e \in Devices \ {d} : fetches'[e] = fetches[e]
      /\ \A i \in DOMAIN fetches'[d] : \E j \in DOMAIN fetches[d] : fetches'[d][i] = fetches[d][j]
      /\ \A w : Has(fetches[d], w) /\ w # u => Has(fetches'[d], w)
      /\ \E j \in DOMAIN fetches[d] : fetches[d][j] = u
    BY <1>1, FetchesTaken DEF Inv
<1>3. closures[d][u] > 0
    BY <1>2 DEF Inv, Attended
<1>4. put \in Uploads /\ put.user = u /\ put.token = token[d]
    BY <1>2 DEF Inv, TypeOK, Uploads
<1>5. changed \in BOOLEAN
    OBVIOUS
<1> HIDE DEF u, put, changed
<1>6. /\ events' \in [Devices -> Seq(Users)]
      /\ \A e \in Devices \ {d} : events'[e] = events[e]
      /\ \A i \in DOMAIN events'[d] :
            (\E j \in DOMAIN events[d] : events'[d][i] = events[d][j]) \/ events'[d][i] = u
      /\ \A w : Has(events[d], w) => Has(events'[d], w)
    <2>1. TypeOK /\ Raise(d, u, changed)
        BY <1>1 DEF Inv
    <2> QED BY <1>2, <1>5, <2>1, RaisedEvents
<1>7. /\ puts \in [Devices -> Seq(Uploads)] /\ puts[d] \in Seq(Uploads)
      /\ puts'[d] = Append(puts[d], put) /\ \A e \in Devices \ {d} : puts'[e] = puts[e]
    BY <1>1 DEF Inv, TypeOK
<1>8. \A i \in DOMAIN puts'[d] : puts'[d][i] = put \/ \E j \in DOMAIN puts[d] : puts'[d][i] = puts[d][j]
    BY <1>4, <1>7, Appended
<1>9. TypeOK'
    <2>1. puts' \in [Devices -> Seq(Uploads)]
        BY <1>1, <1>4, <1>7, Appended
    <2> QED BY <1>2, <1>6, <2>1 DEF TokenFetched, Inv, TypeOK, requestVars, countVars
<1>10. Attended'
    <2>1. ASSUME NEW e \in Devices
          PROVE  /\ \A i \in DOMAIN fetches[e] : closures[e][fetches[e][i]] > 0
                 /\ \A i \in DOMAIN events[e] : closures[e][events[e][i]] > 0
                 /\ \A i \in DOMAIN puts[e] : closures[e][puts[e][i].user] > 0
                 /\ \A i \in DOMAIN down[e] : closures[e][down[e][i].user] > 0
        BY DEF Inv, Attended
    <2>2. ASSUME NEW e \in Devices
          PROVE  /\ \A i \in DOMAIN fetches'[e] : closures[e][fetches'[e][i]] > 0
                 /\ \A i \in DOMAIN events'[e] : closures[e][events'[e][i]] > 0
                 /\ \A i \in DOMAIN puts'[e] : closures[e][puts'[e][i].user] > 0
        <3>1. CASE e # d
            BY <1>2, <1>6, <1>7, <2>1, <3>1, ZenonT(30)
        <3>2. CASE e = d
            <4>1. \A i \in DOMAIN fetches'[e] : closures[e][fetches'[e][i]] > 0
                BY <1>2, <2>1, <3>2
            <4>2. \A i \in DOMAIN events'[e] : closures[e][events'[e][i]] > 0
                BY <1>3, <1>6, <2>1, <3>2
            <4>3. \A i \in DOMAIN puts'[e] : closures[e][puts'[e][i].user] > 0
                BY <1>3, <1>4, <1>8, <2>1, <3>2
            <4> QED BY <4>1, <4>2, <4>3
        <3> QED BY <3>1, <3>2
    <2> QED BY <1>1, <2>1, <2>2 DEF Attended
<1>11. AcksInOrder'
    <2>1. down[d] \in Seq(Messages) /\ Matched(down[d], puts[d])
        BY DEF Inv, TypeOK, AcksInOrder
    <2>2. Matched(down[d], puts'[d])
        BY <1>4, <1>7, <2>1, MatchedUpload
    <2> QED BY <1>1, <1>7, <2>2 DEF Inv, AcksInOrder
<1>12. Counted' /\ Heard'
    BY <1>1 DEF Inv, Counted, Heard
<1>13. OwnTokens'
    <2> SUFFICES ASSUME failures = 0, refreshes = 0
                 PROVE  \A e \in Devices :
                            /\ \A i \in DOMAIN puts'[e] : puts'[e][i].token = token[e]
                            /\ \A w \in Users : closures[e][w] > 0 => Insists(e, w)'
        BY <1>1 DEF OwnTokens
    <2>1. ASSUME NEW e \in Devices
          PROVE  \A i \in DOMAIN puts'[e] : puts'[e][i].token = token[e]
        <3>1. \A i \in DOMAIN puts[e] : puts[e][i].token = token[e]
            BY DEF OwnTokens
        <3>2. CASE e # d
            BY <1>7, <3>1, <3>2
        <3>3. CASE e = d
            BY <1>4, <1>8, <3>1, <3>3
        <3> QED BY <3>2, <3>3
    <2>2. ASSUME NEW e \in Devices, NEW w \in Users, closures[e][w] > 0
          PROVE  Insists(e, w)'
        <3>1. Insists(e, w)
            BY <2>2 DEF OwnTokens
        <3>2. CASE e # d
            BY <1>1, <1>2, <1>6, <1>7, <3>1, <3>2 DEF Insists, View
        <3>3. CASE e = d
            <4>1. View(d, w)' = IF u = w THEN token[d] ELSE View(d, w)
                BY <1>1, <1>4, <1>7, OverlayAppended DEF View
            <4>2. CASE w = u
                BY <1>1, <3>3, <4>1, <4>2 DEF Insists
            <4>3. CASE w # u
                BY <1>1, <1>2, <1>6, <3>1, <3>3, <4>1, <4>3 DEF Insists
            <4> QED BY <4>2, <4>3
        <3> QED BY <3>2, <3>3
    <2> QED BY <2>1, <2>2
<1> QED BY <1>9, <1>10, <1>11, <1>12, <1>13 DEF Inv

(* The closure runs, and asks for the token again. *)
LEMMA ObserverCalledInv ==
    ASSUME Inv, OwnTokens, NEW d \in Devices, ObserverCalled(d)
    PROVE  Inv' /\ OwnTokens'
<1> DEFINE u == Head(events[d])
<1>1. /\ UNCHANGED <<stored, token, closures, seen, puts, down, signIns, failures, refreshes>>
      /\ events[d] # <<>> /\ events' = [events EXCEPT ![d] = Tail(@)]
      /\ fetches' = [fetches EXCEPT ![d] = Append(@, u)]
    BY DEF ObserverCalled, countVars
<1>2. events[d] \in Seq(Users) /\ fetches[d] \in Seq(Users)
    BY DEF Inv, TypeOK
<1>3. u \in Users /\ Tail(events[d]) \in Seq(Users) /\ \E j \in DOMAIN events[d] : events[d][j] = u
    BY <1>1, <1>2, Taken
<1>4. closures[d][u] > 0
    BY <1>3 DEF Inv, Attended
<1> HIDE DEF u
<1>5. /\ events'[d] = Tail(events[d]) /\ fetches'[d] = Append(fetches[d], u)
      /\ \A e \in Devices \ {d} : events'[e] = events[e] /\ fetches'[e] = fetches[e]
    BY <1>1 DEF Inv, TypeOK
<1>6. /\ \A i \in DOMAIN events'[d] : \E j \in DOMAIN events[d] : events'[d][i] = events[d][j]
      /\ \A i \in DOMAIN fetches'[d] :
            fetches'[d][i] = u \/ \E j \in DOMAIN fetches[d] : fetches'[d][i] = fetches[d][j]
    <2>1. \A i \in DOMAIN events'[d] : \E j \in DOMAIN events[d] : events'[d][i] = events[d][j]
        BY <1>1, <1>2, <1>5, Taken
    <2>2. \A i \in DOMAIN fetches'[d] :
            fetches'[d][i] = u \/ \E j \in DOMAIN fetches[d] : fetches'[d][i] = fetches[d][j]
        BY <1>2, <1>3, <1>5, Appended
    <2> QED BY <2>1, <2>2
<1>7. TypeOK'
    <2>1. Append(fetches[d], u) \in Seq(Users)
        BY <1>2, <1>3, Appended
    <2>2. events' \in [Devices -> Seq(Users)] /\ fetches' \in [Devices -> Seq(Users)]
        BY <1>1, <1>3, <2>1 DEF Inv, TypeOK
    <2> QED BY <2>2 DEF ObserverCalled, Inv, TypeOK, requestVars, countVars
<1>8. Attended'
    <2>1. ASSUME NEW e \in Devices
          PROVE  /\ \A i \in DOMAIN fetches'[e] : closures[e][fetches'[e][i]] > 0
                 /\ \A i \in DOMAIN events'[e] : closures[e][events'[e][i]] > 0
        <3>1. /\ \A i \in DOMAIN fetches[e] : closures[e][fetches[e][i]] > 0
              /\ \A i \in DOMAIN events[e] : closures[e][events[e][i]] > 0
            BY DEF Inv, Attended
        <3>2. CASE e # d
            BY <1>5, <3>1, <3>2
        <3>3. CASE e = d
            <4>1. \A i \in DOMAIN fetches'[e] : closures[e][fetches'[e][i]] > 0
                BY <1>4, <1>6, <3>1, <3>3
            <4>2. \A i \in DOMAIN events'[e] : closures[e][events'[e][i]] > 0
                BY <1>6, <3>1, <3>3
            <4> QED BY <4>1, <4>2
        <3> QED BY <3>2, <3>3
    <2> QED BY <1>1, <2>1 DEF Inv, Attended
<1>9. Counted' /\ AcksInOrder' /\ Heard'
    BY <1>1 DEF Inv, Counted, AcksInOrder, Heard
<1>10. OwnTokens'
    <2> SUFFICES ASSUME failures = 0, refreshes = 0, NEW e \in Devices, NEW w \in Users, closures[e][w] > 0
                 PROVE  Insists(e, w)'
        BY <1>1 DEF OwnTokens
    <2>1. Insists(e, w)
        BY DEF OwnTokens
    <2>2. CASE e # d
        BY <1>1, <1>5, <2>1, <2>2 DEF Insists, View
    <2>3. CASE e = d
        <3>1. Has(fetches'[d], u) /\ (Has(fetches[d], w) => Has(fetches'[d], w))
            BY <1>2, <1>3, <1>5, AppendedHas
        <3>2. Has(events[d], w) => Has(events'[d], w) \/ w = u
            BY <1>1, <1>2, <1>5, TakenHas DEF u
        <3> QED BY <1>1, <2>1, <2>3, <3>1, <3>2 DEF Insists, View
    <2> QED BY <2>2, <2>3
<1> QED BY <1>7, <1>8, <1>9, <1>10 DEF Inv

(* The server applies an upload and tells everyone who observes the user. *)
LEMMA ServerApplyInv ==
    ASSUME Inv, OwnTokens, NEW d \in Devices, ServerApply(d)
    PROVE  Inv' /\ OwnTokens'
<1> DEFINE n == Applied(d)
           put == puts[d][n + 1]
           message(e) == [user |-> put.user, token |-> put.token, ack |-> e = d]
           told_(e) == e = d \/ closures[e][put.user] > 0
<1>1. /\ UNCHANGED <<token, signedIn, closures, seen, events, fetches, puts, requestVars, countVars>>
      /\ n < Len(puts[d]) /\ stored' = [stored EXCEPT ![put.user] = put.token]
      /\ \A e \in Devices : down'[e] = IF told_(e) THEN Append(down[e], message(e)) ELSE down[e]
      /\ DOMAIN down' = Devices
    BY DEF ServerApply
<1>2. /\ puts[d] \in Seq(Uploads) /\ Len(puts[d]) \in Nat /\ DOMAIN puts[d] = 1..Len(puts[d])
      /\ \A e \in Devices : down[e] \in Seq(Messages)
    BY LenProperties DEF Inv, TypeOK
<1>3. n \in Nat
    BY <1>2, AckIndicesFinite DEF Applied
<1> HIDE DEF n
<1>4. n + 1 \in DOMAIN puts[d] /\ put \in Uploads
    <2>1. n + 1 \in 1..Len(puts[d])
        BY <1>1, <1>2, <1>3
    <2> QED BY <1>2, <2>1, ElementOfSeq
<1>5. put.user \in Users /\ put.token \in Tokens /\ closures[d][put.user] > 0
    BY <1>4 DEF Uploads, Inv, Attended
<1>6. AcksInOrder'
    <2>1. ASSUME NEW e \in Devices
          PROVE  Matched(down'[e], puts[e])
        <3>1. Matched(down[e], puts[e]) /\ puts[e] \in Seq(Uploads)
            BY DEF Inv, TypeOK, AcksInOrder
        <3>2. message(e) \in Messages /\ message(e).user = put.user /\ message(e).ack = (e = d)
            BY <1>5 DEF Messages
        <3>3. message(e).ack =>
                /\ Cardinality(AckIndices(down[e])) < Len(puts[e])
                /\ puts[e][Cardinality(AckIndices(down[e])) + 1].user = message(e).user
            BY <1>1, <3>2 DEF Applied, n
        <3>4. down[e] \in Seq(Messages)
            BY <1>2
        <3> HIDE DEF put, message
        <3>5. ASSUME NEW x \in Messages, x = message(e)
              PROVE  Matched(Append(down[e], x), puts[e])
            BY <3>1, <3>3, <3>4, <3>5, MatchedPush
        <3>6. Matched(Append(down[e], message(e)), puts[e])
            BY <3>2, <3>5
        <3> QED BY <1>1, <3>1, <3>6
    <2> QED BY <1>1, <2>1 DEF AcksInOrder
<1> HIDE DEF put
<1>7. /\ \A e \in Devices : message(e) \in Messages
      /\ \A e \in Devices : message(e).user = put.user /\ message(e).token = put.token
    BY <1>5 DEF Messages
<1> HIDE DEF message
<1>8. TypeOK'
    <2>1. ASSUME NEW e \in Devices
          PROVE  down'[e] \in Seq(Messages)
        <3>1. down[e] \in Seq(Messages) /\ Append(down[e], message(e)) \in Seq(Messages)
            BY <1>2, <1>7, Appended
        <3>2. down'[e] = Append(down[e], message(e)) \/ down'[e] = down[e]
            BY <1>1
        <3> QED BY <3>1, <3>2
    <2>2. stored' \in [Users -> Tokens \cup {Nil}]
        BY <1>1, <1>5 DEF Inv, TypeOK
    <2>3. down' = [e \in Devices |-> down'[e]]
        BY DEF ServerApply
    <2>4. down' \in [Devices -> Seq(Messages)]
        BY <2>1, <2>3
    <2> QED BY <1>1, <2>2, <2>4 DEF Inv, TypeOK, requestVars, countVars
<1>9. Attended'
    <2>1. ASSUME NEW e \in Devices, NEW i \in DOMAIN down'[e]
          PROVE  closures[e][down'[e][i].user] > 0
        <3>1. \A j \in DOMAIN down[e] : closures[e][down[e][j].user] > 0
            BY DEF Inv, Attended
        <3>2. CASE told_(e)
            <4>1. closures[e][put.user] > 0
                BY <1>5, <3>2
            <4>2. down'[e] = Append(down[e], message(e))
                BY <1>1, <3>2
            <4>3. down'[e][i] = message(e) \/ \E j \in DOMAIN down[e] : down'[e][i] = down[e][j]
                BY <1>2, <1>7, <2>1, <4>2, Appended
            <4> QED BY <1>7, <3>1, <4>1, <4>3
        <3>3. CASE ~told_(e)
            BY <1>1, <2>1, <3>1, <3>3
        <3> QED BY <3>2, <3>3
    <2> QED BY <1>1, <2>1 DEF Inv, Attended
<1>10. Heard'
    <2> SUFFICES ASSUME NEW e \in Devices, NEW w \in Users, closures[e][w] > 0
                 PROVE  Overlay(seen[e][w], down'[e], w) = stored'[w]
        BY <1>1 DEF Heard
    <2>1. Overlay(seen[e][w], down[e], w) = stored[w]
        BY DEF Inv, Heard
    <2>2. Overlay(seen[e][w], Append(down[e], message(e)), w) = IF put.user = w THEN put.token ELSE stored[w]
        BY <1>2, <1>7, <2>1, OverlayAppended
    <2>3. stored'[w] = IF put.user = w THEN put.token ELSE stored[w]
        BY <1>1, <1>5 DEF Inv, TypeOK
    <2> QED BY <1>1, <2>1, <2>2, <2>3
<1>11. Counted' /\ OwnTokens'
    BY <1>1, SameTokens DEF Inv, Counted, countVars
<1> QED BY <1>6, <1>8, <1>9, <1>10, <1>11 DEF Inv

(* The client handles a message: what it shows of other users stays, and   *)
(* if it changes of this one, every closure hears of it.                   *)
LEMMA ReceiveInv ==
    ASSUME Inv, OwnTokens, NEW d \in Devices, Receive(d)
    PROVE  Inv' /\ OwnTokens'
<1> DEFINE m    == Head(down[d])
           left == IF m.ack THEN Tail(puts[d]) ELSE puts[d]
           changed == Overlay(m.token, left, m.user) # View(d, m.user)
<1>1. /\ UNCHANGED <<stored, token, closures, fetches, signIns, failures, refreshes>>
      /\ down[d] # <<>> /\ down' = [down EXCEPT ![d] = Tail(@)]
      /\ seen' = [seen EXCEPT ![d][m.user] = m.token] /\ puts' = [puts EXCEPT ![d] = left]
      /\ Raise(d, m.user, changed)
    BY DEF Receive, countVars
<1>2. down[d] \in Seq(Messages) /\ puts[d] \in Seq(Uploads) /\ Matched(down[d], puts[d])
    BY DEF Inv, TypeOK, AcksInOrder
<1>3. /\ m \in Messages /\ Tail(down[d]) \in Seq(Messages) /\ 1 \in DOMAIN down[d] /\ m = down[d][1]
      /\ \A i \in DOMAIN Tail(down[d]) : \E j \in DOMAIN down[d] : Tail(down[d])[i] = down[d][j]
    BY <1>1, <1>2, Taken
<1>4. m.user \in Users /\ m.token \in Tokens /\ closures[d][m.user] > 0
    BY <1>3 DEF Messages, Inv, Attended
<1>5. /\ m.ack => puts[d] # <<>> /\ Head(puts[d]).user = m.user
      /\ Matched(Tail(down[d]), left)
    BY <1>1, <1>2, MatchedTaken
<1> HIDE DEF m
<1>6. left \in Seq(Uploads) /\ \A i \in DOMAIN left : \E j \in DOMAIN puts[d] : left[i] = puts[d][j]
    BY <1>2, <1>5, Taken
<1>7. \A w \in Users : w # m.user => Overlay(seen[d][w], left, w) = View(d, w)
    <2>1. CASE m.ack
        BY <1>2, <1>5, <2>1, OverlayTaken DEF View
    <2>2. CASE ~m.ack
        BY <2>2 DEF View
    <2> QED BY <2>1, <2>2
<1>8. changed \in BOOLEAN
    OBVIOUS
<1> HIDE DEF left, changed
<1>9. /\ events' \in [Devices -> Seq(Users)]
      /\ \A e \in Devices \ {d} : events'[e] = events[e]
      /\ \A i \in DOMAIN events'[d] :
            (\E j \in DOMAIN events[d] : events'[d][i] = events[d][j]) \/ events'[d][i] = m.user
      /\ \A w : Has(events[d], w) => Has(events'[d], w)
      /\ changed => Has(events'[d], m.user)
    <2>1. TypeOK
        BY DEF Inv
    <2>2. PICK u \in Users : u = m.user
        BY <1>4
    <2>3. PICK c \in BOOLEAN : c = changed
        BY <1>8
    <2>4. Raise(d, u, c)
        BY <1>1, <2>2, <2>3
    <2>5. closures[d][u] > 0
        BY <1>4, <2>2
    <2>6. /\ events' \in [Devices -> Seq(Users)]
          /\ \A e \in Devices \ {d} : events'[e] = events[e]
          /\ \A i \in DOMAIN events'[d] :
                (\E j \in DOMAIN events[d] : events'[d][i] = events[d][j]) \/ events'[d][i] = u
          /\ \A w : Has(events[d], w) => Has(events'[d], w)
          /\ c /\ closures[d][u] > 0 => Has(events'[d], u)
        BY <2>1, <2>4, RaisedEvents
    <2>7. changed => Has(events'[d], m.user)
        BY <2>2, <2>3, <2>5, <2>6
    <2> QED BY <2>2, <2>6, <2>7
<1>10. /\ down'[d] = Tail(down[d]) /\ puts'[d] = left
       /\ seen'[d][m.user] = m.token /\ \A w \in Users : w # m.user => seen'[d][w] = seen[d][w]
       /\ \A e \in Devices \ {d} : down'[e] = down[e] /\ puts'[e] = puts[e] /\ seen'[e] = seen[e]
    BY <1>1, <1>4 DEF Inv, TypeOK
<1>11. TypeOK'
    <2>1. down' \in [Devices -> Seq(Messages)] /\ puts' \in [Devices -> Seq(Uploads)]
        BY <1>1, <1>3, <1>6 DEF Inv, TypeOK
    <2>2. seen' \in [Devices -> [Users -> Tokens \cup {Nil}]]
        BY <1>1, <1>4 DEF Inv, TypeOK
    <2> QED BY <1>9, <2>1, <2>2 DEF Receive, Inv, TypeOK, requestVars, countVars
<1>12. Attended'
    <2>1. ASSUME NEW e \in Devices
          PROVE  /\ \A i \in DOMAIN events'[e] : closures[e][events'[e][i]] > 0
                 /\ \A i \in DOMAIN puts'[e] : closures[e][puts'[e][i].user] > 0
                 /\ \A i \in DOMAIN down'[e] : closures[e][down'[e][i].user] > 0
        <3>1. /\ \A i \in DOMAIN events[e] : closures[e][events[e][i]] > 0
              /\ \A i \in DOMAIN puts[e] : closures[e][puts[e][i].user] > 0
              /\ \A i \in DOMAIN down[e] : closures[e][down[e][i].user] > 0
            BY DEF Inv, Attended
        <3>2. CASE e # d
            BY <1>9, <1>10, <3>1, <3>2
        <3>3. CASE e = d
            <4>1. \A i \in DOMAIN events'[e] : closures[e][events'[e][i]] > 0
                BY <1>4, <1>9, <3>1, <3>3
            <4>2. \A i \in DOMAIN puts'[e] : closures[e][puts'[e][i].user] > 0
                BY <1>6, <1>10, <3>1, <3>3
            <4>3. ASSUME NEW i \in DOMAIN down'[e]
                  PROVE  closures[e][down'[e][i].user] > 0
                <5>1. down'[e] = Tail(down[e])
                    BY <1>10, <3>3
                <5>2. PICK j \in DOMAIN down[e] : Tail(down[e])[i] = down[e][j]
                    BY <1>3, <3>3, <5>1
                <5> QED BY <3>1, <5>1, <5>2
            <4> QED BY <4>1, <4>2, <4>3
        <3> QED BY <3>2, <3>3
    <2> QED BY <1>1, <2>1 DEF Inv, Attended
<1>13. AcksInOrder'
    <2>1. ASSUME NEW e \in Devices
          PROVE  Matched(down'[e], puts'[e])
        BY <1>5, <1>10 DEF Inv, AcksInOrder
    <2> QED BY <2>1 DEF AcksInOrder
<1>14. Heard'
    <2> SUFFICES ASSUME NEW e \in Devices, NEW w \in Users, closures[e][w] > 0
                 PROVE  Overlay(seen'[e][w], down'[e], w) = stored[w]
        BY <1>1 DEF Heard
    <2>1. Overlay(seen[e][w], down[e], w) = stored[w]
        BY DEF Inv, Heard
    <2>2. CASE e # d
        BY <1>10, <2>1, <2>2
    <2>3. CASE e = d
        <3>1. Overlay(IF m.user = w THEN m.token ELSE seen[d][w], Tail(down[d]), w) = Overlay(seen[d][w], down[d], w)
            BY <1>1, <1>2, OverlayTaken DEF m
        <3>2. seen'[d][w] = IF m.user = w THEN m.token ELSE seen[d][w]
            BY <1>10
        <3> QED BY <1>10, <2>1, <2>3, <3>1, <3>2
    <2> QED BY <2>2, <2>3
<1>15. Counted'
    BY <1>1 DEF Inv, Counted
<1>16. OwnTokens'
    <2> SUFFICES ASSUME failures = 0, refreshes = 0
                 PROVE  \A e \in Devices :
                            /\ \A i \in DOMAIN puts'[e] : puts'[e][i].token = token[e]
                            /\ \A w \in Users : closures[e][w] > 0 => Insists(e, w)'
        BY <1>1 DEF OwnTokens
    <2>1. ASSUME NEW e \in Devices
          PROVE  \A i \in DOMAIN puts'[e] : puts'[e][i].token = token[e]
        <3>1. \A i \in DOMAIN puts[e] : puts[e][i].token = token[e]
            BY DEF OwnTokens
        <3>2. CASE e # d
            BY <1>10, <3>1, <3>2
        <3>3. CASE e = d
            BY <1>6, <1>10, <3>1, <3>3
        <3> QED BY <3>2, <3>3
    <2>2. ASSUME NEW e \in Devices, NEW w \in Users, closures[e][w] > 0
          PROVE  Insists(e, w)'
        <3>1. Insists(e, w)
            BY <2>2 DEF OwnTokens
        <3>2. CASE e # d
            BY <1>1, <1>9, <1>10, <3>1, <3>2 DEF Insists, View
        <3>3. CASE e = d /\ w # m.user
            <4>1. View(d, w)' = View(d, w)
                BY <1>7, <1>10, <3>3 DEF View
            <4> QED BY <1>1, <1>9, <3>1, <3>3, <4>1 DEF Insists
        <3>4. CASE e = d /\ w = m.user
            <4>1. View(d, w)' = Overlay(m.token, left, m.user)
                BY <1>10, <3>4 DEF View
            <4>2. CASE changed
                BY <1>9, <3>4, <4>2 DEF Insists
            <4>3. CASE ~changed
                <5>1. View(d, w)' = View(d, w)
                    BY <3>4, <4>1, <4>3 DEF changed
                <5> QED BY <1>1, <1>9, <3>1, <3>4, <5>1 DEF Insists
            <4> QED BY <4>2, <4>3
        <3> QED BY <3>2, <3>3, <3>4
    <2> QED BY <2>1, <2>2
<1> QED BY <1>11, <1>12, <1>13, <1>14, <1>15, <1>16 DEF Inv

-----------------------------------------------------------------------------
LEMMA StepInv == Inv /\ OwnTokens /\ [Next]_vars => Inv' /\ OwnTokens'
<1> SUFFICES ASSUME Inv, OwnTokens, [Next]_vars PROVE Inv' /\ OwnTokens'
    OBVIOUS
<1>1. CASE UNCHANGED vars
    <2>1. Counted' /\ Attended' /\ AcksInOrder' /\ Heard' /\ OwnTokens'
        BY <1>1, SameQueues, SameTokens DEF Inv, vars, deviceVars, countVars
    <2>2. TypeOK'
        BY <1>1 DEF Inv, TypeOK, vars, deviceVars, requestVars, countVars
    <2> QED BY <2>1, <2>2 DEF Inv
<1>2. CASE UserStep
    <2>1. ASSUME NEW d \in Devices, NEW r \in Requests, NEW to \in Users \cup {Loading},
                 sendNotification(d, r, to)
          PROVE  Inv' /\ OwnTokens'
        BY <2>1, RequestInv DEF sendNotification, countVars
    <2> QED BY <1>2, <2>1, signInInv, AccountInv DEF UserStep
<1>3. CASE WorldStep
    <2>1. ASSUME NEW r \in Requests, Retire(r)
          PROVE  Inv' /\ OwnTokens'
        BY <2>1, RequestInv DEF Retire
    <2> QED BY <1>3, <2>1, AccountInv, RestartInv, TokenFailsInv DEF WorldStep
<1>4. ASSUME NEW d \in Devices, DeviceStep(d)
      PROVE  Inv' /\ OwnTokens'
    BY <1>4, TokenFetchedInv, ObserverCalledInv, ServerApplyInv, ReceiveInv DEF DeviceStep
<1>5. ASSUME NEW r \in Requests, FunctionStep(r)
      PROVE  Inv' /\ OwnTokens'
    BY <1>5, RequestInv DEF FunctionStep, newNodeDetected, submitPayload, countVars
<1> QED BY <1>1, <1>2, <1>3, <1>4, <1>5 DEF Next

LEMMA TokenInvariance == Spec => [](Inv /\ OwnTokens)
BY InitInv, StepInv, PTL DEF Spec

(* The variables of the phones, the server and the functions keep their    *)
(* types: no acknowledgement finds the uploads empty.                      *)
THEOREM TypeCorrect == Spec => []TypeOK
<1>1. Inv => TypeOK
    BY DEF Inv
<1> QED BY <1>1, TokenInvariance, PTL

(* When everything has been delivered, and neither a fetch failed nor a    *)
(* token was renewed, the stored token of a user is that of every phone    *)
(* whose signIn closure observes the user.                                 *)
THEOREM TokensSettle == Spec => []QuietTokens
<1>1. Inv /\ OwnTokens => QuietTokens
    <2> SUFFICES ASSUME Inv, OwnTokens, Quiet, failures = 0, refreshes = 0,
                        NEW d \in Devices, NEW u \in Users, closures[d][u] > 0
                 PROVE  stored[u] = token[d]
        BY DEF QuietTokens
    <2>1. events[d] = <<>> /\ fetches[d] = <<>> /\ puts[d] = <<>> /\ down[d] = <<>>
        BY DEF Quiet
    <2>2. View(d, u) = token[d]
        BY <2>1 DEF OwnTokens, Insists, Has
    <2>3. Overlay(seen[d][u], <<>>, u) = seen[d][u]
        BY OverlayNone
    <2>4. View(d, u) = seen[d][u] /\ seen[d][u] = stored[u]
        BY <2>1, <2>3 DEF View, Inv, Heard
    <2> QED BY <2>2, <2>4
<1> QED BY <1>1, TokenInvariance, PTL

=============================================================================
