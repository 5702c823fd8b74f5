------------------------- MODULE Attachments_proofs -------------------------
(***************************************************************************)
(* Proofs about Attachments, for any submissions with forms of any files   *)
(* in any order, any limits, any number of removals at once, and any       *)
(* number of failures.                                                     *)
(***************************************************************************)
EXTENDS Attachments, FiniteSetTheorems, TLAPS

\* Until its rows are inserted a submission is not there; from its verification
\* on, what counts as verified is what the loop accepted of what was found.
RequestsFit ==
    \A f \in Submission :
        /\ request[f].pc \in {"new", "insert"} => saved[f] = "none"
        /\ request[f].pc = "deliver" => saved[f] # "none"
        /\ request[f].pc # "new" =>
              /\ request[f].found \subseteq DOMAIN form[f]
              /\ request[f].verified = Accepted(form[f], request[f].found)

\* A row says what was decided about its attachment.
RowsFit ==
    \A f \in Submission : \A i \in DOMAIN media[f] :
        media[f][i] = IF i \in request[f].verified THEN "VERIFIED" ELSE "REJECTED"

\* Nothing is removed of a submission that is not there yet.
UnsavedIsWhole ==
    \A f \in Submission : saved[f] = "none" =>
        \A i \in DOMAIN form[f] : <<f, i>> \in asset

\* A removal is of a submission that was there; what it is done with has no
\* asset, unless destroying it failed; and one of a whole submission knows all
\* the rows there are.
DiscardsFit ==
    \A r \in Remover :
        /\ discard[r].pc = "idle" => discard[r].items = {}
        /\ discard[r].pc = "destroy" =>
              /\ discard[r].f \in Submission
              /\ saved[discard[r].f] # "none"
              /\ discard[r].left \subseteq discard[r].items
              /\ \A i \in discard[r].items \ discard[r].left :
                    <<discard[r].f, i>> \in asset => <<discard[r].f, i>> \in spared
              /\ discard[r].what = "feedback" =>
                    DOMAIN media[discard[r].f] \subseteq discard[r].items

IInv ==
    /\ AttachmentTypeOK
    /\ RequestsFit
    /\ RowsFit
    /\ UnsavedIsWhole
    /\ DiscardsFit
    /\ ReasonsFit
    /\ RowsAndAssetsAgree

-----------------------------------------------------------------------------
(* Induction, over sets of numbers *)

LEMMA LeastOf ==
    ASSUME NEW S \in SUBSET Nat, S # {}
    PROVE  \E x \in S : \A y \in S : x <= y
<1> DEFINE R == {ss \in Nat \X Nat : ss[1] < ss[2]}
<1>1. IsWellFoundedOn(R, Nat)
  BY NatLessThanWellFounded DEF OpToRel
<1> HIDE DEF R
<1>2. PICK x \in S : \A y \in S : <<y, x>> \notin R
  BY <1>1, WFMin
<1>3. \A y \in S : ~(y < x)
  BY <1>2 DEF R
<1>4. QED
  BY <1>3

LEMMA SetInduction ==
    ASSUME NEW S, 0 \in S, \A n \in Nat : n \in S => n + 1 \in S
    PROVE  \A n \in Nat : n \in S
<1> DEFINE T == Nat \ S
<1> SUFFICES ASSUME T # {} PROVE FALSE
  OBVIOUS
<1>1. T \in SUBSET Nat
  OBVIOUS
<1> HIDE DEF T
<1>2. PICK x \in T : \A y \in T : x <= y
  BY <1>1, LeastOf
<1>3. x \in Nat /\ x # 0
  BY <1>2 DEF T
<1>4. x - 1 \in Nat /\ ~(x <= x - 1) /\ x - 1 + 1 = x
  BY <1>3
<1>5. x - 1 \in S
  BY <1>2, <1>4 DEF T
<1>6. x \in S
  BY <1>4, <1>5
<1>7. QED
  BY <1>6 DEF T

-----------------------------------------------------------------------------
(* BytesOf is a sum *)

AnyOf(s) == CHOOSE x \in s : TRUE

\* What MapThenSumSet computes on the way to the sum over U.
SumsUp(g, f, U) ==
    g = [s \in SUBSET U |-> IF s = {} THEN 0
                            ELSE form[f][AnyOf(s)].bytes + g[s \ {AnyOf(s)}]]

LEMMA AnyOfIsIn == ASSUME NEW s, s # {} PROVE AnyOf(s) \in s
BY DEF AnyOf

LEMMA FewerWithout ==
    ASSUME NEW s, IsFiniteSet(s), NEW x \in s
    PROVE  /\ IsFiniteSet(s \ {x})
           /\ Cardinality(s) \in Nat /\ Cardinality(s \ {x}) \in Nat
           /\ Cardinality(s) = Cardinality(s \ {x}) + 1
<1>1. /\ IsFiniteSet(s \ {x})
      /\ Cardinality(s \ {x}) = Cardinality(s) - 1
  BY FS_RemoveElement
<1>2. Cardinality(s) \in Nat /\ Cardinality(s \ {x}) \in Nat
  BY <1>1, FS_CardinalityType
<1>3. QED
  BY <1>1, <1>2

\* The recursion is well-founded: there is such a function.
LEMMA SumsExist ==
    ASSUME NEW f, NEW U, IsFiniteSet(U)
    PROVE  \E g : SumsUp(g, f, U)
<1> DEFINE Value(g, s) == IF s = {} THEN 0
                          ELSE form[f][AnyOf(s)].bytes + g[s \ {AnyOf(s)}]
           UpTo(n) == {s \in SUBSET U : Cardinality(s) <= n}
           S == {n \in Nat : \E g : \A s \in UpTo(n) : g[s] = Value(g, s)}
<1>1. \A s \in SUBSET U : IsFiniteSet(s) /\ Cardinality(s) \in Nat
  BY FS_Subset, FS_CardinalityType
<1>2. \A s \in SUBSET U : s # {} => /\ s \ {AnyOf(s)} \in SUBSET U
                                    /\ Cardinality(s) = Cardinality(s \ {AnyOf(s)}) + 1
  BY <1>1, AnyOfIsIn, FewerWithout
<1>3. 0 \in S
  <2> DEFINE g == [s \in SUBSET U |-> 0]
  <2>1. \A s \in UpTo(0) : s = {}
    BY <1>1, FS_EmptySet
  <2>2. \A s \in UpTo(0) : g[s] = Value(g, s)
    BY <2>1
  <2>3. QED
    BY <2>2
<1>4. ASSUME NEW n \in Nat, n \in S
      PROVE  n + 1 \in S
  <2>1. PICK g : \A s \in UpTo(n) : g[s] = Value(g, s)
    BY <1>4
  <2> DEFINE h == [s \in SUBSET U |-> IF s \in UpTo(n) THEN g[s] ELSE Value(g, s)]
  <2>2. ASSUME NEW s \in UpTo(n + 1)
        PROVE  h[s] = Value(h, s)
    <3>1. h[s] = Value(g, s)
      BY <2>1
    <3>2. CASE s = {}
      BY <3>1, <3>2
    <3>3. CASE s # {}
      <4>1. s \ {AnyOf(s)} \in UpTo(n)
        BY <1>1, <1>2, <3>3
      <4>2. h[s \ {AnyOf(s)}] = g[s \ {AnyOf(s)}]
        BY <4>1
      <4> HIDE DEF h
      <4>3. QED
        BY <3>1, <3>3, <4>2
    <3>4. QED
      BY <3>2, <3>3
  <2> HIDE DEF h, Value
  <2>3. QED
    BY <2>2
<1> HIDE DEF S
<1>5. Cardinality(U) \in S
  BY <1>1, <1>3, <1>4, SetInduction
<1>6. PICK g : \A s \in UpTo(Cardinality(U)) : g[s] = Value(g, s)
  BY <1>5 DEF S
<1>7. UpTo(Cardinality(U)) = SUBSET U
  BY FS_Subset
<1> DEFINE h == [s \in SUBSET U |-> g[s]]
<1>8. ASSUME NEW s \in SUBSET U
      PROVE  h[s] = Value(h, s)
  <2>1. CASE s = {}
    BY <2>1, <1>6, <1>7
  <2>2. CASE s # {}
    <3>1. h[s] = g[s] /\ h[s \ {AnyOf(s)}] = g[s \ {AnyOf(s)}]
      BY <1>2, <2>2
    <3> HIDE DEF h
    <3>2. QED
      BY <3>1, <1>6, <1>7, <2>2
  <2>3. QED
    BY <2>1, <2>2
<1>9. h = [s \in SUBSET U |-> h[s]]
  OBVIOUS
<1> HIDE DEF h
<1>10. SumsUp(h, f, U)
  BY <1>8, <1>9 DEF SumsUp
<1>11. QED
  BY <1>10

LEMMA BytesOfSumsUp ==
    ASSUME NEW f, NEW P, IsFiniteSet(P)
    PROVE  \E g : SumsUp(g, f, P) /\ BytesOf(f, P) = g[P]
<1> DEFINE g == CHOOSE g : SumsUp(g, f, P)
<1>1. SumsUp(g, f, P)
  BY SumsExist
<1>2. BytesOf(f, P) = g[P]
  BY DEF BytesOf, MapThenSumSet, MapThenFoldSet, SumsUp, AnyOf
<1>3. QED
  BY <1>1, <1>2

\* Every function of that kind says the same of a set.
LEMMA SumsAgree ==
    ASSUME NEW f, NEW U, NEW V, NEW g, NEW h, SumsUp(g, f, U), SumsUp(h, f, V),
           NEW P, P \subseteq U, P \subseteq V, IsFiniteSet(P)
    PROVE  g[P] = h[P]
<1> DEFINE S == {n \in Nat : \A s \in SUBSET P : Cardinality(s) = n => g[s] = h[s]}
<1>1. \A s \in SUBSET P : IsFiniteSet(s) /\ Cardinality(s) \in Nat
  BY FS_Subset, FS_CardinalityType
<1>2. \A s \in SUBSET P :
         /\ g[s] = IF s = {} THEN 0 ELSE form[f][AnyOf(s)].bytes + g[s \ {AnyOf(s)}]
         /\ h[s] = IF s = {} THEN 0 ELSE form[f][AnyOf(s)].bytes + h[s \ {AnyOf(s)}]
  BY DEF SumsUp
<1>3. 0 \in S
  BY <1>1, <1>2, FS_EmptySet
<1>4. ASSUME NEW n \in Nat, n \in S
      PROVE  n + 1 \in S
  <2>1. ASSUME NEW s \in SUBSET P, Cardinality(s) = n + 1
        PROVE  g[s] = h[s]
    <3>1. s # {}
      BY <2>1, FS_EmptySet
    <3>2. Cardinality(s \ {AnyOf(s)}) = n
      BY <2>1, <3>1, <1>1, AnyOfIsIn, FewerWithout
    <3>3. g[s \ {AnyOf(s)}] = h[s \ {AnyOf(s)}]
      BY <3>2, <1>4
    <3>4. QED
      BY <3>1, <3>3, <1>2
  <2>2. QED
    BY <2>1
<1> HIDE DEF S
<1>5. Cardinality(P) \in S
  BY <1>1, <1>3, <1>4, SetInduction
<1>6. QED
  BY <1>5 DEF S

LEMMA SumsAreNat ==
    ASSUME NEW f, NEW U, NEW g, SumsUp(g, f, U), IsFiniteSet(U),
           \A i \in U : form[f][i].bytes \in Nat
    PROVE  \A s \in SUBSET U : g[s] \in Nat
<1> DEFINE S == {n \in Nat : \A s \in SUBSET U : Cardinality(s) = n => g[s] \in Nat}
<1>1. \A s \in SUBSET U : IsFiniteSet(s) /\ Cardinality(s) \in Nat
  BY FS_Subset, FS_CardinalityType
<1>2. \A s \in SUBSET U :
         g[s] = IF s = {} THEN 0 ELSE form[f][AnyOf(s)].bytes + g[s \ {AnyOf(s)}]
  BY DEF SumsUp
<1>3. 0 \in S
  BY <1>1, <1>2, FS_EmptySet
<1>4. ASSUME NEW n \in Nat, n \in S
      PROVE  n + 1 \in S
  <2>1. ASSUME NEW s \in SUBSET U, Cardinality(s) = n + 1
        PROVE  g[s] \in Nat
    <3>1. s # {}
      BY <2>1, FS_EmptySet
    <3>2. AnyOf(s) \in U
      BY <3>1, AnyOfIsIn
    <3>3. Cardinality(s \ {AnyOf(s)}) = n
      BY <2>1, <3>1, <1>1, AnyOfIsIn, FewerWithout
    <3>4. g[s \ {AnyOf(s)}] \in Nat
      BY <3>3, <1>4
    <3>5. form[f][AnyOf(s)].bytes \in Nat
      BY <3>2
    <3>6. QED
      <4>1. g[s] = form[f][AnyOf(s)].bytes + g[s \ {AnyOf(s)}]
        BY <3>1, <1>2
      <4>2. QED
        BY <4>1, <3>4, <3>5
  <2>2. QED
    BY <2>1
<1> HIDE DEF S
<1>5. \A n \in Nat : n \in S
  BY <1>3, <1>4, SetInduction
<1>6. QED
  BY <1>1, <1>5 DEF S

\* Whichever element the sum takes first.
LEMMA SumsAdd ==
    ASSUME NEW f, NEW U, NEW g, SumsUp(g, f, U), IsFiniteSet(U),
           \A i \in U : form[f][i].bytes \in Nat
    PROVE  \A s \in SUBSET U : \A x \in s : g[s] = form[f][x].bytes + g[s \ {x}]
<1> DEFINE B(x) == form[f][x].bytes
           Adds(s) == \A x \in s : g[s] = B(x) + g[s \ {x}]
           S == {n \in Nat : \A s \in SUBSET U : Cardinality(s) = n => Adds(s)}
<1>1. \A s \in SUBSET U : IsFiniteSet(s) /\ Cardinality(s) \in Nat
  BY FS_Subset, FS_CardinalityType
<1>2. \A s \in SUBSET U : g[s] = IF s = {} THEN 0 ELSE B(AnyOf(s)) + g[s \ {AnyOf(s)}]
  BY DEF SumsUp
<1>3. \A x \in U : B(x) \in Nat
  OBVIOUS
<1>4. \A s \in SUBSET U : g[s] \in Nat
  BY SumsAreNat
<1> HIDE DEF B
<1>5. 0 \in S
  BY <1>1, FS_EmptySet
<1>6. ASSUME NEW n \in Nat, n \in S
      PROVE  n + 1 \in S
  <2>1. ASSUME NEW s \in SUBSET U, Cardinality(s) = n + 1, NEW x \in s
        PROVE  g[s] = B(x) + g[s \ {x}]
    <3> DEFINE y == AnyOf(s)
    <3>1. s # {} /\ y \in s
      BY AnyOfIsIn
    <3>2. \A z \in s : Cardinality(s \ {z}) = n
      BY <2>1, <1>1, FewerWithout
    <3> HIDE DEF Adds
    <3>3. Adds(s \ {x}) /\ Adds(s \ {y})
      BY <3>1, <3>2, <1>6
    <3>4. g[s] = B(y) + g[s \ {y}]
      BY <1>2, <3>1
    <3> HIDE DEF y
    <3>5. CASE x = y
      BY <3>4, <3>5
    <3>6. CASE x # y
      <4>1. x \in s \ {y} /\ y \in s \ {x} /\ (s \ {y}) \ {x} = (s \ {x}) \ {y}
        BY <3>1, <3>6
      <4> DEFINE rest == (s \ {y}) \ {x}
      <4>2. g[s \ {y}] = B(x) + g[rest]
        BY <4>1, <3>3 DEF Adds
      <4>3. g[s \ {x}] = B(y) + g[rest]
        BY <4>1, <3>3 DEF Adds
      <4>4. g[rest] \in Nat /\ B(x) \in Nat /\ B(y) \in Nat
        BY <1>3, <1>4, <3>1
      <4> HIDE DEF rest
      <4>5. QED
        BY <4>2, <4>3, <4>4, <3>4
    <3>7. QED
      BY <3>5, <3>6
  <2>2. QED
    BY <2>1
<1> HIDE DEF S, Adds
<1>7. \A n \in Nat : n \in S
  BY <1>5, <1>6, SetInduction
<1>8. \A s \in SUBSET U : Adds(s)
  BY <1>1, <1>7 DEF S
<1>9. QED
  BY <1>8 DEF Adds, B

LEMMA BytesOfTypes ==
    ASSUME NEW f, NEW P, IsFiniteSet(P), \A i \in P : form[f][i].bytes \in Nat
    PROVE  BytesOf(f, P) \in Nat
BY BytesOfSumsUp, SumsAreNat

LEMMA BytesOfNothing == ASSUME NEW f PROVE BytesOf(f, {}) = 0
<1>1. PICK g : SumsUp(g, f, {}) /\ BytesOf(f, {}) = g[{}]
  BY BytesOfSumsUp, FS_EmptySet
<1>2. QED
  BY <1>1 DEF SumsUp

LEMMA BytesOfOneMore ==
    ASSUME NEW f, NEW P, NEW x, IsFiniteSet(P), x \notin P,
           \A i \in P \cup {x} : form[f][i].bytes \in Nat
    PROVE  BytesOf(f, P \cup {x}) = BytesOf(f, P) + form[f][x].bytes
<1> DEFINE Q == P \cup {x}
<1>1. IsFiniteSet(Q)
  BY FS_AddElement
<1>2. PICK g : SumsUp(g, f, P) /\ BytesOf(f, P) = g[P]
  BY BytesOfSumsUp
<1>3. PICK h : SumsUp(h, f, Q) /\ BytesOf(f, Q) = h[Q]
  BY <1>1, BytesOfSumsUp
<1>4. Q \ {x} = P /\ x \in Q /\ Q \in SUBSET Q
  OBVIOUS
<1>5. h[Q] = form[f][x].bytes + h[P]
  <2> \A i \in Q : form[f][i].bytes \in Nat
    OBVIOUS
  <2> HIDE DEF Q
  <2>1. QED
    BY <1>1, <1>3, <1>4, SumsAdd
<1>6. g[P] = h[P]
  BY <1>2, <1>3, SumsAgree
<1>7. g[P] \in Nat /\ form[f][x].bytes \in Nat
  BY <1>2, BytesOfTypes
<1>8. QED
  BY <1>2, <1>3, <1>5, <1>6, <1>7

\* Fewer attachments are no more bytes.
LEMMA BytesOfGrows ==
    ASSUME NEW f, NEW n \in Nat, NEW Q \in SUBSET (1 .. n), NEW P \in SUBSET Q,
           \A i \in Q : form[f][i].bytes \in Nat
    PROVE  BytesOf(f, P) <= BytesOf(f, Q)
<1> DEFINE Upto(m) == P \cup {i \in Q : i <= m}
<1>1. IsFiniteSet(Q) /\ \A m : IsFiniteSet(Upto(m)) /\ Upto(m) \subseteq Q
  <2>1. IsFiniteSet(1 .. n)
    BY FS_Interval
  <2>2. IsFiniteSet(Q)
    BY <2>1, FS_Subset
  <2>3. \A m : Upto(m) \subseteq Q
    OBVIOUS
  <2> HIDE DEF Upto
  <2>4. QED
    BY <2>2, <2>3, FS_Subset
<1>2. \A i \in Q : i \in Nat /\ 1 <= i /\ i <= n
  OBVIOUS
<1>3. Upto(0) = P
  <2>1. \A i \in Q : ~(i <= 0)
    BY <1>2
  <2>2. QED
    BY <2>1
<1>4. Upto(n) = Q
  BY <1>2
<1>5. ASSUME NEW m \in Nat
      PROVE  Upto(m + 1) = IF m + 1 \in Q THEN Upto(m) \cup {m + 1} ELSE Upto(m)
  <2>1. \A i \in Q : i <= m + 1 <=> i <= m \/ i = m + 1
    BY <1>2
  <2>2. QED
    BY <2>1
<1>6. ASSUME NEW m \in Nat, m + 1 \notin P
      PROVE  m + 1 \notin Upto(m)
  BY <1>6
<1>7. \A m \in Nat : m + 1 \in P => Upto(m) \cup {m + 1} = Upto(m)
  OBVIOUS
<1> HIDE DEF Upto
<1>8. \A m : BytesOf(f, Upto(m)) \in Nat
  BY <1>1, BytesOfTypes
<1>9. BytesOf(f, P) \in Nat
  BY <1>3, <1>8
<1> DEFINE S == {m \in Nat : BytesOf(f, P) <= BytesOf(f, Upto(m))}
<1>10. 0 \in S
  BY <1>3, <1>9
<1>11. ASSUME NEW m \in Nat, m \in S
       PROVE  m + 1 \in S
  <2>1. CASE m + 1 \in Q /\ m + 1 \notin P
    <3>1. Upto(m + 1) = Upto(m) \cup {m + 1} /\ m + 1 \notin Upto(m)
      BY <2>1, <1>5, <1>6
    <3>2. \A i \in Upto(m) \cup {m + 1} : form[f][i].bytes \in Nat
      BY <1>1, <2>1
    <3>3. BytesOf(f, Upto(m + 1)) = BytesOf(f, Upto(m)) + form[f][m + 1].bytes
      BY <3>1, <3>2, <1>1, BytesOfOneMore
    <3>4. form[f][m + 1].bytes \in Nat
      BY <2>1
    <3>5. QED
      BY <3>3, <3>4, <1>8, <1>9, <1>11
  <2>2. CASE ~(m + 1 \in Q /\ m + 1 \notin P)
    <3>1. Upto(m + 1) = Upto(m)
      BY <2>2, <1>5, <1>7
    <3>2. QED
      BY <3>1, <1>11
  <2>3. QED
    BY <2>1, <2>2
<1> HIDE DEF S
<1>12. n \in S
  BY <1>10, <1>11, SetInduction
<1>13. QED
  BY <1>4, <1>12 DEF S

LEMMA VideosOfOneMore ==
    ASSUME NEW f, NEW P, NEW x, IsFiniteSet(P), x \notin P
    PROVE  VideosOf(f, P \cup {x}) =
              VideosOf(f, P) + (IF form[f][x].kind = "VIDEO" THEN 1 ELSE 0)
<1> DEFINE V(Q) == {i \in Q : form[f][i].kind = "VIDEO"}
<1>1. IsFiniteSet(V(P)) /\ x \notin V(P)
  BY FS_Subset
<1>2. Cardinality(V(P)) \in Nat
  BY <1>1, FS_CardinalityType
<1>3. V(P \cup {x}) = IF form[f][x].kind = "VIDEO" THEN V(P) \cup {x} ELSE V(P)
  OBVIOUS
<1>4. VideosOf(f, P) = Cardinality(V(P)) /\ VideosOf(f, P \cup {x}) = Cardinality(V(P \cup {x}))
  BY DEF VideosOf
<1> HIDE DEF V
<1>5. Cardinality(V(P) \cup {x}) = Cardinality(V(P)) + 1
  BY <1>1, FS_AddElement
<1>6. QED
  BY <1>2, <1>3, <1>4, <1>5

LEMMA VideosOfTypes ==
    ASSUME NEW f, NEW Q, IsFiniteSet(Q), NEW P \in SUBSET Q
    PROVE  /\ VideosOf(f, P) \in Nat
           /\ VideosOf(f, P) <= VideosOf(f, Q)
<1> DEFINE V(R) == {i \in R : form[f][i].kind = "VIDEO"}
<1>1. V(P) \subseteq V(Q) /\ V(Q) \subseteq Q
  OBVIOUS
<1>2. VideosOf(f, P) = Cardinality(V(P)) /\ VideosOf(f, Q) = Cardinality(V(Q))
  BY DEF VideosOf
<1> HIDE DEF V
<1>3. IsFiniteSet(V(Q))
  BY <1>1, FS_Subset
<1>4. IsFiniteSet(V(P)) /\ Cardinality(V(P)) <= Cardinality(V(Q))
  BY <1>1, <1>3, FS_Subset
<1>5. QED
  BY <1>2, <1>4, FS_CardinalityType

-----------------------------------------------------------------------------
(* What is accepted *)

Nothing == [bytes |-> 0, videos |-> 0, verified |-> {}]

\* One round of the loop over the attachments.
CountOn(files, found, n, before) ==
    IF n \in found /\ Acceptable(files[n], before)
    THEN [Counted(files[n], before) EXCEPT !.verified = @ \cup {n}]
    ELSE before

CountsUp(c, files, found) ==
    c = [n \in 0 .. Len(files) |-> IF n = 0 THEN Nothing
                                   ELSE CountOn(files, found, n, c[n - 1])]

LEMMA CountsExist ==
    ASSUME NEW files, NEW found, Len(files) \in Nat
    PROVE  \E c : CountsUp(c, files, found)
<1> DEFINE Value(c, n) == IF n = 0 THEN Nothing ELSE CountOn(files, found, n, c[n - 1])
           S == {n \in Nat : \E c : \A m \in 0 .. n : c[m] = Value(c, m)}
<1>1. 0 \in S
  <2> DEFINE c == [m \in {0} |-> Nothing]
  <2>1. \A m \in 0 .. 0 : c[m] = Value(c, m)
    OBVIOUS
  <2> HIDE DEF c, Value
  <2>2. QED
    BY <2>1
<1>2. ASSUME NEW n \in Nat, n \in S
      PROVE  n + 1 \in S
  <2>1. PICK c : \A m \in 0 .. n : c[m] = Value(c, m)
    BY <1>2
  <2> DEFINE d == [m \in 0 .. n + 1 |-> IF m <= n THEN c[m] ELSE CountOn(files, found, m, c[n])]
  <2>2. \A m \in 0 .. n : d[m] = c[m]
    OBVIOUS
  <2>3. d[n + 1] = CountOn(files, found, n + 1, c[n])
    OBVIOUS
  <2> HIDE DEF d
  <2>4. ASSUME NEW m \in 0 .. n + 1
        PROVE  d[m] = Value(d, m)
    <3>1. CASE m = 0
      BY <3>1, <2>1, <2>2
    <3>2. CASE m \in 1 .. n
      <4>1. m - 1 \in 0 .. n /\ m \in 0 .. n /\ m # 0
        BY <3>2
      <4>2. QED
        BY <4>1, <2>1, <2>2
    <3>3. CASE m = n + 1
      <4>1. m - 1 = n /\ n \in 0 .. n /\ m # 0
        BY <3>3
      <4>2. QED
        BY <4>1, <3>3, <2>2, <2>3
    <3>4. QED
      BY <3>1, <3>2, <3>3
  <2> HIDE DEF Value
  <2>5. QED
    BY <2>4
<1> HIDE DEF S
<1>3. Len(files) \in S
  BY <1>1, <1>2, SetInduction
<1>4. PICK c : \A m \in 0 .. Len(files) : c[m] = Value(c, m)
  BY <1>3 DEF S
<1> DEFINE d == [m \in 0 .. Len(files) |-> c[m]]
<1>5. ASSUME NEW m \in 0 .. Len(files)
      PROVE  d[m] = Value(d, m)
  <2>1. CASE m = 0
    BY <2>1, <1>4
  <2>2. CASE m # 0
    <3>1. m - 1 \in 0 .. Len(files)
      BY <2>2
    <3>2. d[m] = c[m] /\ d[m - 1] = c[m - 1]
      BY <3>1
    <3> HIDE DEF d
    <3>3. QED
      BY <3>2, <2>2, <1>4
  <2>3. QED
    BY <2>1, <2>2
<1>6. d = [m \in 0 .. Len(files) |-> d[m]]
  OBVIOUS
<1> HIDE DEF d
<1>7. CountsUp(d, files, found)
  BY <1>5, <1>6 DEF CountsUp
<1>8. QED
  BY <1>7

LEMMA AcceptedCountsUp ==
    ASSUME NEW files, NEW found, Len(files) \in Nat
    PROVE  \E c : CountsUp(c, files, found) /\ Accepted(files, found) = c[Len(files)].verified
<1> DEFINE c == CHOOSE c : CountsUp(c, files, found)
<1>1. CountsUp(c, files, found)
  BY CountsExist
<1>2. Accepted(files, found) = c[Len(files)].verified
  BY DEF Accepted, CountsUp, CountOn, Nothing
<1>3. QED
  BY <1>1, <1>2

\* What the first n attachments of a form are worth once the loop has seen them.
Fits(f, i, found, verified) ==
    LET m      == form[f][i]
        before == {j \in verified : j < i}
    IN
    /\ i \in found
    /\ m.allowed
    /\ m.bytes <= MaxBytes(m.kind)
    /\ m.kind = "VIDEO" => VideosOf(f, before) + 1 <= MAX_VIDEOS_PER_SUBMISSION
    /\ BytesOf(f, before \cup {i}) <= MAX_TOTAL_BYTES

CountIsRight(f, n, found, count) ==
    /\ count = [bytes |-> BytesOf(f, count.verified), videos |-> VideosOf(f, count.verified),
                verified |-> count.verified]
    /\ count.verified \subseteq found \cap (1 .. n)
    /\ BytesOf(f, count.verified) <= MAX_TOTAL_BYTES
    /\ VideosOf(f, count.verified) <= MAX_VIDEOS_PER_SUBMISSION
    /\ \A i \in 1 .. n : i \in count.verified <=> Fits(f, i, found, count.verified)

LEMMA CountOnIsRight ==
    ASSUME NEW f, NEW found, NEW n \in Nat, NEW old, CountIsRight(f, n, found, old),
           \A i \in 1 .. n + 1 : form[f][i] \in File
    PROVE  CountIsRight(f, n + 1, found, CountOn(form[f], found, n + 1, old))
<1> DEFINE m   == form[f][n + 1]
           new == CountOn(form[f], found, n + 1, old)
           Old == old.verified
           New == new.verified
<1>1. /\ m.bytes \in Nat /\ \A i \in 1 .. n + 1 : form[f][i].bytes \in Nat
      /\ MAX_TOTAL_BYTES \in Nat /\ MAX_VIDEOS_PER_SUBMISSION \in Nat
  BY AttachmentAssumption
<1>2. /\ old = [bytes |-> BytesOf(f, Old), videos |-> VideosOf(f, Old), verified |-> Old]
      /\ Old \subseteq found \cap (1 .. n)
      /\ BytesOf(f, Old) <= MAX_TOTAL_BYTES
      /\ VideosOf(f, Old) <= MAX_VIDEOS_PER_SUBMISSION
      /\ \A i \in 1 .. n : i \in Old <=> Fits(f, i, found, Old)
  BY DEF CountIsRight
<1>3. IsFiniteSet(Old) /\ n + 1 \notin Old
  <2>1. IsFiniteSet(1 .. n)
    BY FS_Interval
  <2>2. Old \subseteq 1 .. n /\ n + 1 \notin 1 .. n
    BY <1>2
  <2> HIDE DEF Old
  <2>3. QED
    BY <2>1, <2>2, FS_Subset
<1>4. BytesOf(f, Old) \in Nat /\ VideosOf(f, Old) \in Nat
  <2> HIDE DEF Old
  <2>1. \A i \in Old : form[f][i].bytes \in Nat
    BY <1>1, <1>2
  <2>2. QED
    BY <1>3, <2>1, BytesOfTypes, VideosOfTypes
<1>5. /\ BytesOf(f, Old \cup {n + 1}) = BytesOf(f, Old) + m.bytes
      /\ VideosOf(f, Old \cup {n + 1}) = VideosOf(f, Old) + (IF m.kind = "VIDEO" THEN 1 ELSE 0)
  <2> HIDE DEF Old
  <2>1. \A i \in Old \cup {n + 1} : form[f][i].bytes \in Nat
    BY <1>1, <1>2
  <2>2. QED
    BY <1>3, <2>1, BytesOfOneMore, VideosOfOneMore
<1>6. Acceptable(m, old) <=> /\ m.allowed
                             /\ m.bytes <= MaxBytes(m.kind)
                             /\ m.kind = "VIDEO" => VideosOf(f, Old) < MAX_VIDEOS_PER_SUBMISSION
                             /\ BytesOf(f, Old) + m.bytes <= MAX_TOTAL_BYTES
  <2>1. old.bytes = BytesOf(f, Old) /\ old.videos = VideosOf(f, Old)
    BY <1>2
  <2>2. QED
    BY <2>1 DEF Acceptable
<1>7. \A i \in 1 .. n : {j \in Old \cup {n + 1} : j < i} = {j \in Old : j < i}
  BY <1>2
<1>8. {j \in Old \cup {n + 1} : j < n + 1} = Old /\ {j \in Old : j < n + 1} = Old
  BY <1>2
<1>9. \A V : {j \in V : j < n + 1} = Old =>
         (Fits(f, n + 1, found, V) <=> n + 1 \in found /\ Acceptable(m, old))
  <2> SUFFICES ASSUME NEW V, {j \in V : j < n + 1} = Old
               PROVE  Fits(f, n + 1, found, V) <=> n + 1 \in found /\ Acceptable(m, old)
    OBVIOUS
  <2>1. Fits(f, n + 1, found, V) <=>
           /\ n + 1 \in found
           /\ m.allowed
           /\ m.bytes <= MaxBytes(m.kind)
           /\ m.kind = "VIDEO" => VideosOf(f, Old) + 1 <= MAX_VIDEOS_PER_SUBMISSION
           /\ BytesOf(f, Old \cup {n + 1}) <= MAX_TOTAL_BYTES
    BY Zenon DEF Fits
  <2> HIDE DEF Old, m
  <2>2. VideosOf(f, Old) + 1 <= MAX_VIDEOS_PER_SUBMISSION <=>
           VideosOf(f, Old) < MAX_VIDEOS_PER_SUBMISSION
    BY <1>1, <1>4
  <2>3. QED
    BY <2>1, <2>2, <1>5, <1>6
<1>10. CASE n + 1 \in found /\ Acceptable(m, old)
  <2>1. new = [bytes |-> BytesOf(f, Old) + m.bytes,
               videos |-> VideosOf(f, Old) + (IF m.kind = "VIDEO" THEN 1 ELSE 0),
               verified |-> Old \cup {n + 1}]
    <3>1. new = [Counted(m, old) EXCEPT !.verified = @ \cup {n + 1}]
      BY <1>10 DEF CountOn
    <3>2. QED
      <4>1. Counted(m, old) = [bytes |-> old.bytes + m.bytes,
               videos |-> old.videos + (IF m.kind = "VIDEO" THEN 1 ELSE 0),
               verified |-> Old]
        BY DEF Counted
      <4>2. old.bytes = BytesOf(f, Old) /\ old.videos = VideosOf(f, Old)
        BY <1>2
      <4> HIDE DEF new, m, Old
      <4>3. Counted(m, old) = [bytes |-> BytesOf(f, Old) + m.bytes,
               videos |-> VideosOf(f, Old) + (IF m.kind = "VIDEO" THEN 1 ELSE 0),
               verified |-> Old]
        BY <4>1, <4>2, Zenon
      <4>4. \A r : r = Counted(m, old) =>
               [r EXCEPT !.verified = @ \cup {n + 1}] =
                  [bytes |-> r.bytes, videos |-> r.videos, verified |-> r.verified \cup {n + 1}]
        BY <4>1
      <4>5. QED
        BY <3>1, <4>3, <4>4
  <2>2. New = Old \cup {n + 1}
    BY <2>1
  <2> HIDE DEF new, Old, New
  <2>3. new = [bytes |-> BytesOf(f, New), videos |-> VideosOf(f, New), verified |-> New]
    BY <2>1, <2>2, <1>5
  <2>4. New \subseteq found \cap (1 .. n + 1)
    BY <2>2, <1>2, <1>10
  <2>5. BytesOf(f, New) <= MAX_TOTAL_BYTES
    BY <2>2, <1>5, <1>6, <1>10
  <2>6. VideosOf(f, New) <= MAX_VIDEOS_PER_SUBMISSION
    BY <2>2, <1>1, <1>2, <1>4, <1>5, <1>6, <1>10
  <2>7. \A i \in 1 .. n : i \in New <=> Fits(f, i, found, New)
    <3>1. \A i \in 1 .. n : i \in New <=> i \in Old
      BY <2>2
    <3>2. \A i \in 1 .. n : {j \in New : j < i} = {j \in Old : j < i}
      BY <2>2, <1>7
    <3>3. \A i \in 1 .. n : Fits(f, i, found, New) <=> Fits(f, i, found, Old)
      BY <3>2 DEF Fits
    <3>4. QED
      BY <3>1, <3>3, <1>2
  <2>8. n + 1 \in New <=> Fits(f, n + 1, found, New)
    BY <2>2, <1>8, <1>9, <1>10
  <2>9. \A i \in 1 .. n + 1 : i \in New <=> Fits(f, i, found, New)
    BY <2>7, <2>8
  <2>10. QED
    BY <2>3, <2>4, <2>5, <2>6, <2>9 DEF CountIsRight, New, new
<1>11. CASE ~(n + 1 \in found /\ Acceptable(m, old))
  <2>1. new = old
    BY <1>11 DEF CountOn
  <2>2. n + 1 \in Old <=> Fits(f, n + 1, found, Old)
    BY <1>3, <1>8, <1>9, <1>11
  <2>3. \A i \in 1 .. n + 1 : i \in Old <=> Fits(f, i, found, Old)
    BY <2>2, <1>2
  <2>4. Old \subseteq found \cap (1 .. n + 1)
    BY <1>2
  <2>5. CountIsRight(f, n + 1, found, old)
    BY <2>3, <2>4, <1>2 DEF CountIsRight
  <2>6. QED
    BY <2>1, <2>5
<1>12. QED
  BY <1>10, <1>11

\* The counters stay right to the end of the loop.
LEMMA AcceptedIsRight ==
    ASSUME NEW f, NEW found, form[f] \in Form
    PROVE  \E count : /\ CountIsRight(f, Len(form[f]), found, count)
                      /\ Accepted(form[f], found) = count.verified
<1> DEFINE len == Len(form[f])
<1>1. len \in Nat /\ \A i \in 1 .. len : form[f][i] \in File
  BY AttachmentAssumption DEF Form
<1>2. PICK c : CountsUp(c, form[f], found) /\ Accepted(form[f], found) = c[len].verified
  BY <1>1, AcceptedCountsUp
<1>3. c[0] = Nothing /\ \A n \in 1 .. len : c[n] = CountOn(form[f], found, n, c[n - 1])
  <2>1. c = [n \in 0 .. len |-> IF n = 0 THEN Nothing
                                ELSE CountOn(form[f], found, n, c[n - 1])]
    BY <1>2 DEF CountsUp
  <2> HIDE DEF len
  <2>2. 0 \in 0 .. len /\ \A n \in 1 .. len : n \in 0 .. len /\ n # 0
    BY <1>1
  <2>3. QED
    BY <2>1, <2>2, Zenon
<1> HIDE DEF len
<1> DEFINE S == {n \in Nat : n <= len => CountIsRight(f, n, found, c[n])}
<1>4. 0 \in S
  <2>1. BytesOf(f, {}) = 0 /\ VideosOf(f, {}) = 0
    <3>1. {i \in {} : form[f][i].kind = "VIDEO"} = {}
      OBVIOUS
    <3>2. QED
      BY <3>1, BytesOfNothing, FS_EmptySet DEF VideosOf
  <2>2. Nothing.verified = {}
    BY DEF Nothing
  <2>3. CountIsRight(f, 0, found, Nothing)
    BY <2>1, <2>2, AttachmentAssumption DEF CountIsRight, Nothing
  <2>4. QED
    BY <2>3, <1>3
<1>5. ASSUME NEW n \in Nat, n \in S
      PROVE  n + 1 \in S
  <2> SUFFICES ASSUME n + 1 <= len PROVE CountIsRight(f, n + 1, found, c[n + 1])
    OBVIOUS
  <2>1. CountIsRight(f, n, found, c[n])
    BY <1>1, <1>5
  <2>2. c[n + 1] = CountOn(form[f], found, n + 1, c[n])
    <3>1. n + 1 \in 1 .. len /\ (n + 1) - 1 = n
      BY <1>1
    <3>2. QED
      BY <3>1, <1>3
  <2>3. \A i \in 1 .. n + 1 : form[f][i] \in File
    BY <1>1
  <2>4. QED
    BY <2>1, <2>2, <2>3, CountOnIsRight
<1> HIDE DEF S
<1>6. len \in S
  BY <1>1, <1>4, <1>5, SetInduction
<1>7. QED
  BY <1>1, <1>2, <1>6 DEF S, len

-----------------------------------------------------------------------------
(* The n-th of the rows *)

\* Counting through a set of positions misses no number.
LEMMA NthIsThere ==
    ASSUME NEW len \in Nat, NEW P \in SUBSET (1 .. len), NEW n \in 1 .. Cardinality(P)
    PROVE  Nth(P, n) \in P /\ Cardinality({j \in P : j <= Nth(P, n)}) = n
<1> DEFINE G(i) == {j \in P : j <= i}
<1>1. IsFiniteSet(P) /\ \A i : IsFiniteSet(G(i)) /\ Cardinality(G(i)) \in Nat
  <2>1. IsFiniteSet(1 .. len)
    BY FS_Interval
  <2>2. IsFiniteSet(P)
    BY <2>1, FS_Subset
  <2>3. QED
    BY <2>2, FS_Subset, FS_CardinalityType
<1>2. \A j \in P : j \in Nat /\ 1 <= j /\ j <= len
  OBVIOUS
<1>3. G(len) = P
  BY <1>2
<1>4. G(0) = {}
  <2>1. \A j \in P : ~(j <= 0)
    BY <1>2
  <2>2. QED
    BY <2>1
<1>5. ASSUME NEW i \in Nat, i # 0
      PROVE  G(i) = IF i \in P THEN G(i - 1) \cup {i} ELSE G(i - 1)
  <2>1. \A j \in P : j <= i <=> j <= i - 1 \/ j = i
    BY <1>2, <1>5
  <2>2. QED
    BY <2>1
<1>6. \A i \in Nat : i # 0 => i \notin G(i - 1)
  BY <1>2
<1> HIDE DEF G
<1>7. n \in Nat /\ n # 0 /\ n <= Cardinality(P)
  BY <1>1, FS_CardinalityType
<1> DEFINE T == {i \in Nat : n <= Cardinality(G(i))}
<1>8. T \in SUBSET Nat /\ len \in T
  BY <1>3, <1>7
<1>9. PICK i \in T : \A j \in T : i <= j
  BY <1>8, LeastOf
<1>10. i \in Nat /\ n <= Cardinality(G(i))
  BY <1>9
<1>11. i # 0
  BY <1>4, <1>7, <1>10, FS_EmptySet
<1>12. i - 1 \in Nat /\ ~(i <= i - 1)
  BY <1>10, <1>11
<1>13. Cardinality(G(i - 1)) < n
  <2>1. i - 1 \notin T
    BY <1>9, <1>12
  <2>2. QED
    BY <2>1, <1>1, <1>7, <1>12
<1>14. i \in P
  BY <1>1, <1>5, <1>7, <1>10, <1>11, <1>13
<1>15. Cardinality(G(i)) = Cardinality(G(i - 1)) + 1
  <2>1. G(i) = G(i - 1) \cup {i} /\ i \notin G(i - 1)
    BY <1>5, <1>6, <1>10, <1>11, <1>14
  <2>2. QED
    BY <2>1, <1>1, FS_AddElement
<1>16. Cardinality(G(i)) = n
  BY <1>1, <1>7, <1>10, <1>13, <1>15
<1>17. \E x \in P : Cardinality({j \in P : j <= x}) = n
  BY <1>14, <1>16 DEF G
<1>18. QED
  BY <1>17 DEF Nth

\* If no row is missing, the n-th row is the n-th attachment's.
LEMMA NthOfAll ==
    ASSUME NEW len \in Nat, NEW n \in 1 .. len
    PROVE  Nth(1 .. len, n) = n
<1>1. Cardinality(1 .. len) = len
  BY FS_Interval
<1> DEFINE i == Nth(1 .. len, n)
<1>2. i \in 1 .. len /\ Cardinality({j \in 1 .. len : j <= i}) = n
  BY <1>1, NthIsThere
<1> HIDE DEF i
<1>3. {j \in 1 .. len : j <= i} = 1 .. i
  BY <1>2
<1>4. Cardinality(1 .. i) = i
  BY <1>2, FS_Interval
<1>5. QED
  BY <1>2, <1>3, <1>4 DEF i

-----------------------------------------------------------------------------
(* Steps *)

LEMMA FormShape ==
    ASSUME form \in [Submission -> Form], NEW f \in Submission
    PROVE  /\ form[f] \in Form
           /\ Len(form[f]) \in Nat
           /\ DOMAIN form[f] = 1 .. Len(form[f])
           /\ DOMAIN form[f] \subseteq Position
           /\ \A i \in DOMAIN form[f] : form[f][i] \in File
BY AttachmentAssumption DEF Form, Position

LEMMA AcceptedType ==
    ASSUME form \in [Submission -> Form], NEW f \in Submission, NEW found
    PROVE  Accepted(form[f], found) \subseteq found \cap DOMAIN form[f]
<1>1. PICK count : /\ CountIsRight(f, Len(form[f]), found, count)
                   /\ Accepted(form[f], found) = count.verified
  BY FormShape, AcceptedIsRight
<1>2. QED
  BY <1>1, FormShape DEF CountIsRight

LEMMA InitIInv == AttachmentInit => IInv
<1> SUFFICES ASSUME AttachmentInit PROVE IInv
  OBVIOUS
<1>1. form \in [Submission -> Form]
  BY DEF AttachmentInit
<1>2. AttachmentTypeOK
  BY <1>1, AttachmentAssumption
     DEF AttachmentInit, AttachmentTypeOK, NoRequest, NoDiscard
<1>3. UnsavedIsWhole
  BY <1>1, FormShape DEF AttachmentInit, UnsavedIsWhole, Place
<1>4. RequestsFit /\ RowsFit /\ DiscardsFit /\ ReasonsFit /\ RowsAndAssetsAgree
  BY DEF AttachmentInit, RequestsFit, RowsFit, DiscardsFit, ReasonsFit, RowsAndAssetsAgree,
         NoRequest, NoDiscard
<1>5. QED
  BY <1>2, <1>3, <1>4 DEF IInv

LEMMA FailuresShrink ==
    ASSUME AttachmentTypeOK, MediaFails
    PROVE  mediaFailures' \in 0 .. MaxMediaFailures
BY AttachmentAssumption DEF AttachmentTypeOK, MediaFails

RequestType == [pc : {"new", "insert", "deliver", "ended"},
                found : SUBSET Position, verified : SUBSET Position]

LEMMA RequestMoves ==
    ASSUME AttachmentTypeOK, NEW f \in Submission, NEW pc \in {"deliver", "ended"},
           request' = [request EXCEPT ![f].pc = pc]
    PROVE  /\ request' \in [Submission -> RequestType]
           /\ \A x \in Submission :
                 /\ request'[x].pc = IF x = f THEN pc ELSE request[x].pc
                 /\ request'[x].found = request[x].found
                 /\ request'[x].verified = request[x].verified
<1>1. request \in [Submission -> RequestType]
  BY DEF AttachmentTypeOK, RequestType
<1>2. PICK q : q = [request[f] EXCEPT !.pc = pc]
  OBVIOUS
<1>3. request[f] \in RequestType
  BY <1>1
<1>4. /\ q \in RequestType
      /\ q.pc = pc /\ q.found = request[f].found /\ q.verified = request[f].verified
  BY <1>2, <1>3 DEF RequestType
<1>5. request' = [request EXCEPT ![f] = q]
  BY <1>2
<1>6. QED
  BY <1>1, <1>4, <1>5

LEMMA VerifyMediaIInv ==
    ASSUME IInv, NEW f \in Submission, VerifyMedia(f)
    PROVE  IInv'
<1> DEFINE there == {i \in DOMAIN form[f] : <<f, i>> \in asset}
<1>1. PICK found \in {there} \cup {there \ {i} : i \in there} :
         /\ request' = [request EXCEPT ![f] =
               [pc |-> "insert", found |-> found, verified |-> Accepted(form[f], found)]]
         /\ IF found = there THEN UNCHANGED mediaFailures ELSE MediaFails
  BY DEF VerifyMedia
<1>2. UNCHANGED <<form, asset, saved, media, answer, discard, spared, cutShort>>
  BY DEF VerifyMedia
<1>3. request[f].pc = "new" /\ saved[f] = "none" /\ AttachmentTypeOK
  BY DEF VerifyMedia, IInv, RequestsFit
<1>4. form \in [Submission -> Form] /\ media[f] = <<>>
  BY <1>3 DEF AttachmentTypeOK
<1>5. found \subseteq DOMAIN form[f] /\ DOMAIN form[f] \subseteq Position
  BY <1>4, FormShape
<1> DEFINE verified == Accepted(form[f], found)
<1>6. verified \subseteq DOMAIN form[f]
  BY <1>4, AcceptedType
<1> DEFINE q == [pc |-> "insert", found |-> found, verified |-> verified]
<1>7. request' = [request EXCEPT ![f] = q]
  BY <1>1
<1> HIDE DEF verified, there
<1>8. request' \in [Submission -> [pc : {"new", "insert", "deliver", "ended"},
                                  found : SUBSET Position, verified : SUBSET Position]]
  BY <1>3, <1>5, <1>6, <1>7 DEF AttachmentTypeOK
<1>9. mediaFailures' \in 0 .. MaxMediaFailures
  BY <1>1, <1>3, FailuresShrink DEF AttachmentTypeOK
<1>10. AttachmentTypeOK'
  BY <1>2, <1>3, <1>8, <1>9 DEF AttachmentTypeOK
<1>11. \A x \in Submission : request'[x] = IF x = f THEN q ELSE request[x]
  BY <1>3, <1>7 DEF AttachmentTypeOK
<1>12. RequestsFit'
  BY <1>2, <1>3, <1>5, <1>11 DEF IInv, RequestsFit, verified
<1>13. RowsFit'
  BY <1>2, <1>4, <1>11 DEF IInv, RowsFit
<1>14. UnsavedIsWhole' /\ DiscardsFit' /\ ReasonsFit' /\ RowsAndAssetsAgree'
  BY <1>2 DEF IInv, UnsavedIsWhole, DiscardsFit, ReasonsFit, RowsAndAssetsAgree, ItemsOf
<1>15. QED
  BY <1>10, <1>12, <1>13, <1>14 DEF IInv

LEMMA SaveSubmissionIInv ==
    ASSUME IInv, NEW f \in Submission, SaveSubmission(f)
    PROVE  IInv'
<1> DEFINE rows == [i \in DOMAIN form[f] |->
                       IF i \in request[f].verified THEN "VERIFIED" ELSE "REJECTED"]
<1>1. /\ request' = [request EXCEPT ![f].pc = "deliver"]
      /\ saved' = [saved EXCEPT ![f] = "stored"]
      /\ media' = [media EXCEPT ![f] = rows]
      /\ UNCHANGED <<form, asset, answer, discard, mediaFailures, spared, cutShort>>
  BY DEF SaveSubmission
<1>2. request[f].pc = "insert" /\ saved[f] = "none" /\ AttachmentTypeOK
  BY DEF SaveSubmission, IInv, RequestsFit
<1>3. DOMAIN rows = DOMAIN form[f] /\ \A i \in DOMAIN rows : rows[i] \in MediaStatus
  BY DEF MediaStatus
<1>4. \A i \in DOMAIN rows :
         rows[i] = IF i \in request[f].verified THEN "VERIFIED" ELSE "REJECTED"
  OBVIOUS
<1> HIDE DEF rows
<1>5. \A x \in Submission :
         /\ request'[x].pc = IF x = f THEN "deliver" ELSE request[x].pc
         /\ request'[x].found = request[x].found
         /\ request'[x].verified = request[x].verified
         /\ saved'[x] = IF x = f THEN "stored" ELSE saved[x]
         /\ media'[x] = IF x = f THEN rows ELSE media[x]
  BY <1>1, <1>2, RequestMoves DEF AttachmentTypeOK
<1>6. AttachmentTypeOK'
  <2>1. request' \in [Submission -> RequestType]
    BY <1>1, <1>2, RequestMoves
  <2>2. saved' \in [Submission -> {"none", "stored", "removed"}]
    BY <1>1, <1>2 DEF AttachmentTypeOK
  <2>3. DOMAIN media' = Submission
    BY <1>1, <1>2 DEF AttachmentTypeOK
  <2>4. \A x \in Submission :
           /\ DOMAIN media'[x] \subseteq DOMAIN form[x]
           /\ \A i \in DOMAIN media'[x] : media'[x][i] \in MediaStatus
           /\ saved'[x] # "stored" => media'[x] = <<>>
    BY <1>2, <1>3, <1>5 DEF AttachmentTypeOK
  <2>5. QED
    BY <2>1, <2>2, <2>3, <2>4, <1>1, <1>2 DEF AttachmentTypeOK, RequestType
<1>7. RequestsFit'
  BY <1>1, <1>2, <1>5 DEF IInv, RequestsFit
<1>8. RowsFit'
  BY <1>4, <1>5 DEF IInv, RowsFit
<1>9. UnsavedIsWhole'
  BY <1>1, <1>5 DEF IInv, UnsavedIsWhole
<1>10. DiscardsFit'
  BY <1>1, <1>2, <1>5 DEF IInv, DiscardsFit
<1>11. ReasonsFit'
  BY <1>1 DEF IInv, ReasonsFit
<1>12. RowsAndAssetsAgree'
  <2>1. \A i \in DOMAIN form[f] : i \in DOMAIN media'[f] /\ <<f, i>> \in asset
    BY <1>2, <1>3, <1>5 DEF IInv, UnsavedIsWhole
  <2>2. QED
    BY <2>1, <1>1, <1>5 DEF IInv, RowsAndAssetsAgree, ItemsOf
<1>13. QED
  BY <1>6, <1>7, <1>8, <1>9, <1>10, <1>11, <1>12 DEF IInv

LEMMA RespondIInv ==
    ASSUME IInv, NEW f \in Submission, Respond(f)
    PROVE  IInv'
<1> DEFINE rows == DOMAIN media[f]
           len  == Len(form[f])
           said == [n \in 1 .. Cardinality(rows) |->
                       [status |-> media[f][Nth(rows, n)], reason |-> Reasons(f)[n]]]
<1>1. /\ request' = [request EXCEPT ![f].pc = "ended"]
      /\ answer' = [answer EXCEPT ![f] = said] \/ UNCHANGED answer
      /\ UNCHANGED <<form, asset, saved, media, discard, mediaFailures, spared, cutShort>>
  BY DEF Respond
<1>2. request[f].pc = "deliver" /\ AttachmentTypeOK
  BY DEF Respond, IInv
<1>3. len \in Nat /\ DOMAIN form[f] = 1 .. len /\ rows \subseteq 1 .. len
  BY <1>2, FormShape DEF AttachmentTypeOK
<1>4. Cardinality(rows) \in Nat /\ Cardinality(rows) <= len
      /\ (Cardinality(rows) = len => rows = 1 .. len)
  <2> HIDE DEF rows, len
  <2>1. IsFiniteSet(1 .. len) /\ Cardinality(1 .. len) = len
    BY <1>3, FS_Interval
  <2>2. QED
    BY <2>1, <1>3, FS_Subset, FS_CardinalityType
<1>5. \A n \in 1 .. Cardinality(rows) : Nth(rows, n) \in rows
  BY <1>3, NthIsThere
<1>6. \A n \in 1 .. Cardinality(rows) : Reasons(f)[n] = (n \notin request[f].verified)
  BY <1>3, <1>4 DEF Reasons
<1>7. /\ said \in Seq(Answered) /\ Len(said) = Cardinality(rows)
      /\ \A n \in 1 .. Cardinality(rows) :
            /\ said[n].status = media[f][Nth(rows, n)]
            /\ said[n].reason = (n \notin request[f].verified)
  <2>1. \A n \in 1 .. Cardinality(rows) : media[f][Nth(rows, n)] \in MediaStatus
    BY <1>2, <1>5 DEF AttachmentTypeOK
  <2> HIDE DEF rows, len
  <2>2. \A n \in 1 .. Cardinality(rows) : said[n] \in Answered
    BY <2>1, <1>6 DEF Answered
  <2>3. said \in Seq(Answered) /\ Len(said) = Cardinality(rows)
    BY <2>2, <1>4
  <2>4. QED
    BY <2>3, <1>6
<1>8. ASSUME Len(said) = len, NEW n \in 1 .. len
      PROVE  said[n].reason <=> said[n].status = "REJECTED"
  <2> HIDE DEF said
  <2>1. rows = 1 .. len
    BY <1>4, <1>7, <1>8
  <2>2. Nth(rows, n) = n
    BY <2>1, <1>3, NthOfAll
  <2>3. media[f][n] = IF n \in request[f].verified THEN "VERIFIED" ELSE "REJECTED"
    BY <2>1 DEF IInv, RowsFit
  <2>4. n \in 1 .. Cardinality(rows)
    BY <1>7, <1>8
  <2>5. QED
    BY <2>2, <2>3, <2>4, <1>7
<1> HIDE DEF said, rows, len
<1>9. \A x \in Submission :
         /\ request'[x].pc = IF x = f THEN "ended" ELSE request[x].pc
         /\ request'[x].found = request[x].found
         /\ request'[x].verified = request[x].verified
         /\ answer'[x] = answer[x] \/ (x = f /\ answer'[x] = said)
  <2>1. ASSUME NEW x \in Submission
        PROVE  answer'[x] = answer[x] \/ (x = f /\ answer'[x] = said)
    <3>1. DOMAIN answer = Submission
      BY <1>2 DEF AttachmentTypeOK
    <3>2. CASE answer' = [answer EXCEPT ![f] = said]
      <4>1. CASE x = f
        BY <3>1, <3>2, <4>1
      <4>2. CASE x # f
        BY <3>1, <3>2, <4>2
      <4>3. QED
        BY <4>1, <4>2
    <3>3. CASE UNCHANGED answer
      BY <3>3
    <3>4. QED
      BY <3>2, <3>3, <1>1
  <2>2. QED
    BY <2>1, <1>1, <1>2, RequestMoves
<1>10. AttachmentTypeOK'
  <2>1. request' \in [Submission -> RequestType]
    BY <1>1, <1>2, RequestMoves
  <2>2. answer' \in [Submission -> Seq(Answered)]
    BY <1>1, <1>2, <1>7 DEF AttachmentTypeOK
  <2>3. QED
    BY <2>1, <2>2, <1>1, <1>2 DEF AttachmentTypeOK, RequestType
<1>11. RequestsFit'
  BY <1>1, <1>2, <1>9 DEF IInv, RequestsFit
<1>12. RowsFit'
  BY <1>1, <1>9 DEF IInv, RowsFit
<1>13. ReasonsFit'
  <2>1. ASSUME NEW x \in Submission, Len(answer'[x]) = Len(form[x]),
               NEW n \in DOMAIN answer'[x]
        PROVE  answer'[x][n].reason <=> answer'[x][n].status = "REJECTED"
    <3>1. CASE answer'[x] = answer[x]
      BY <3>1, <2>1 DEF IInv, ReasonsFit
    <3>2. CASE x = f /\ answer'[x] = said
      <4>1. Len(said) = len /\ n \in 1 .. len
        BY <3>2, <2>1, <1>7 DEF len
      <4>2. QED
        BY <4>1, <3>2, <1>8
    <3>3. QED
      BY <3>1, <3>2, <1>9
  <2>2. QED
    BY <2>1, <1>1 DEF ReasonsFit
<1>14. UnsavedIsWhole' /\ DiscardsFit' /\ RowsAndAssetsAgree'
  BY <1>1 DEF IInv, UnsavedIsWhole, DiscardsFit, RowsAndAssetsAgree, ItemsOf
<1>15. QED
  BY <1>10, <1>11, <1>12, <1>13, <1>14 DEF IInv

LEMMA RequestFailsIInv ==
    ASSUME IInv, NEW f \in Submission, RequestFails(f)
    PROVE  IInv'
<1>1. /\ request[f].pc \in {"insert", "deliver"} /\ MediaFails
      /\ request' = [request EXCEPT ![f].pc = "ended"]
      /\ UNCHANGED <<form, asset, saved, media, answer, discard, spared, cutShort>>
  BY DEF RequestFails
<1>2. AttachmentTypeOK
  BY DEF IInv
<1>3. \A x \in Submission :
         /\ request'[x].pc = IF x = f THEN "ended" ELSE request[x].pc
         /\ request'[x].found = request[x].found
         /\ request'[x].verified = request[x].verified
  BY <1>1, <1>2, RequestMoves
<1>4. request' \in [Submission -> RequestType]
  BY <1>1, <1>2, RequestMoves
<1>5. AttachmentTypeOK'
  BY <1>1, <1>2, <1>4, FailuresShrink DEF AttachmentTypeOK, RequestType
<1>6. RequestsFit' /\ RowsFit'
  BY <1>1, <1>3 DEF IInv, RequestsFit, RowsFit
<1>7. UnsavedIsWhole' /\ DiscardsFit' /\ ReasonsFit' /\ RowsAndAssetsAgree'
  BY <1>1 DEF IInv, UnsavedIsWhole, DiscardsFit, ReasonsFit, RowsAndAssetsAgree, ItemsOf
<1>8. QED
  BY <1>5, <1>6, <1>7 DEF IInv

DiscardType == [pc : {"idle", "destroy"}, what : {"media", "feedback"},
                f : Submission \cup {NoSubmission},
                items : SUBSET Position, left : SUBSET Position]

\* One removal moves on while rows and submissions stay.
LEMMA DiscardMoves ==
    ASSUME AttachmentTypeOK, DiscardsFit, NEW r \in Remover, NEW d \in DiscardType,
           discard' = [discard EXCEPT ![r] = d],
           UNCHANGED <<saved, media>>, asset' \subseteq asset, spared \subseteq spared',
           d.pc = "idle" => d.items = {},
           d.pc = "destroy" =>
              /\ d.f \in Submission
              /\ saved[d.f] # "none"
              /\ d.left \subseteq d.items
              /\ \A i \in d.items \ d.left : <<d.f, i>> \in asset' => <<d.f, i>> \in spared'
              /\ d.what = "feedback" => DOMAIN media[d.f] \subseteq d.items
    PROVE  /\ discard' \in [Remover -> DiscardType]
           /\ \A q \in Remover : discard'[q] = IF q = r THEN d ELSE discard[q]
           /\ DiscardsFit'
<1>1. discard \in [Remover -> DiscardType]
  BY DEF AttachmentTypeOK, DiscardType
<1>2. /\ discard' \in [Remover -> DiscardType]
      /\ \A q \in Remover : discard'[q] = IF q = r THEN d ELSE discard[q]
  BY <1>1
<1>3. DiscardsFit'
  BY <1>2 DEF DiscardsFit
<1>4. QED
  BY <1>2, <1>3

\* What a removal that begins and one that is idle are busy with.
LEMMA FoundIInv ==
    ASSUME IInv, NEW r \in Remover, NEW f \in Submission, NEW what \in {"media", "feedback"},
           NEW items \in SUBSET Position, discard[r].pc = "idle", saved[f] # "none",
           what = "feedback" => DOMAIN media[f] \subseteq items,
           discard' = [discard EXCEPT ![r] =
              [pc |-> "destroy", what |-> what, f |-> f, items |-> items, left |-> items]],
           UNCHANGED <<form, asset, request, saved, media, answer, mediaFailures, spared,
                       cutShort>>
    PROVE  IInv'
<1> DEFINE d == [pc |-> "destroy", what |-> what, f |-> f, items |-> items, left |-> items]
<1>1. /\ d \in DiscardType
      /\ d.pc = "destroy" /\ d.f = f /\ d.items = items /\ d.left = items /\ d.what = what
  BY DEF DiscardType
<1>2. discard' = [discard EXCEPT ![r] = d]
  OBVIOUS
<1> HIDE DEF d
<1>3. /\ discard' \in [Remover -> DiscardType]
      /\ \A q \in Remover : discard'[q] = IF q = r THEN d ELSE discard[q]
      /\ DiscardsFit'
  BY <1>1, <1>2, DiscardMoves DEF IInv
<1>4. AttachmentTypeOK'
  BY <1>3 DEF IInv, AttachmentTypeOK, DiscardType
<1>5. RequestsFit' /\ RowsFit' /\ UnsavedIsWhole' /\ ReasonsFit'
  BY DEF IInv, RequestsFit, RowsFit, UnsavedIsWhole, ReasonsFit
<1>6. RowsAndAssetsAgree'
  <2>1. \A q \in Remover : ItemsOf(q) \subseteq ItemsOf(q)'
    BY <1>3 DEF IInv, DiscardsFit, ItemsOf
  <2>2. QED
    BY <2>1 DEF IInv, RowsAndAssetsAgree
<1>7. QED
  BY <1>3, <1>4, <1>5, <1>6 DEF IInv

LEMMA StoredIfRows ==
    ASSUME AttachmentTypeOK, NEW f \in Submission, NEW i, i \in DOMAIN media[f]
    PROVE  saved[f] = "stored"
BY DEF AttachmentTypeOK

LEMMA FindMediaIInv ==
    ASSUME IInv, NEW r \in Remover, NEW f \in Submission, NEW i \in Position,
           FindMedia(r, f, i)
    PROVE  IInv'
<1>1. saved[f] # "none"
  BY StoredIfRows DEF IInv, FindMedia
<1>2. QED
  BY <1>1, FoundIInv DEF FindMedia

LEMMA FindSubmissionIInv ==
    ASSUME IInv, NEW r \in Remover, NEW f \in Submission, FindSubmission(r, f)
    PROVE  IInv'
<1>1. MediaOf(f) \in SUBSET Position /\ DOMAIN media[f] \subseteq MediaOf(f)
  BY FormShape DEF IInv, AttachmentTypeOK, MediaOf
<1>2. QED
  BY <1>1, FoundIInv DEF FindSubmission

LEMMA DestroyNextIInv ==
    ASSUME IInv, NEW r \in Remover, DestroyNext(r)
    PROVE  IInv'
<1> DEFINE i == CHOOSE n \in discard[r].left : \A j \in discard[r].left : n <= j
           f == discard[r].f
           p == <<f, i>>
<1>1. /\ discard[r].pc = "destroy" /\ discard[r].left # {}
      /\ discard' = [discard EXCEPT ![r].left = @ \ {i}]
      /\ \/ asset' = asset \ {p} /\ UNCHANGED <<mediaFailures, spared>>
         \/ MediaFails /\ spared' = spared \cup {p} /\ UNCHANGED asset
      /\ UNCHANGED <<form, request, saved, media, answer, cutShort>>
  BY DEF DestroyNext
<1>2. AttachmentTypeOK /\ DiscardsFit
  BY DEF IInv
<1>3. discard[r] \in DiscardType
  BY <1>2 DEF AttachmentTypeOK, DiscardType
<1>4. i \in discard[r].left /\ i \in Position
  <2>1. discard[r].left \in SUBSET Nat /\ discard[r].left \subseteq Position
    BY <1>3 DEF DiscardType, Position
  <2>2. QED
    BY <2>1, <1>1, LeastOf
<1>5. f \in Submission /\ saved[f] # "none"
  BY <1>1, <1>2 DEF DiscardsFit
<1> HIDE DEF i
<1>6. PICK d : d = [discard[r] EXCEPT !.left = discard[r].left \ {i}]
  OBVIOUS
<1>7. /\ d \in DiscardType
      /\ d.pc = "destroy" /\ d.f = f /\ d.items = discard[r].items
      /\ d.what = discard[r].what /\ d.left = discard[r].left \ {i}
  BY <1>1, <1>3, <1>6 DEF DiscardType
<1>8. discard' = [discard EXCEPT ![r] = d]
  BY <1>1, <1>6
<1>9. asset' \subseteq asset /\ spared \subseteq spared' /\ (p \in asset' => p \in spared')
  BY <1>1
<1>10. \A j \in d.items \ d.left : <<d.f, j>> \in asset' => <<d.f, j>> \in spared'
  <2>1. ASSUME NEW j \in d.items \ d.left, j # i, <<d.f, j>> \in asset'
        PROVE  <<d.f, j>> \in spared'
    BY <2>1, <1>1, <1>2, <1>7, <1>9 DEF DiscardsFit
  <2>2. QED
    BY <2>1, <1>7, <1>9
<1>11. d.left \subseteq d.items /\ (d.what = "feedback" => DOMAIN media[d.f] \subseteq d.items)
  BY <1>1, <1>2, <1>7 DEF DiscardsFit
<1>12. /\ discard' \in [Remover -> DiscardType]
       /\ \A q \in Remover : discard'[q] = IF q = r THEN d ELSE discard[q]
       /\ DiscardsFit'
  BY <1>1, <1>2, <1>5, <1>7, <1>8, <1>9, <1>10, <1>11, DiscardMoves
<1>13. p \in Place
  BY <1>4, <1>5 DEF Place
<1>14. AttachmentTypeOK'
  <2>1. mediaFailures' \in 0 .. MaxMediaFailures
    BY <1>1, <1>2, FailuresShrink DEF AttachmentTypeOK
  <2>2. asset' \subseteq Place /\ spared' \subseteq Place
    BY <1>1, <1>2, <1>13 DEF AttachmentTypeOK
  <2>3. QED
    BY <2>1, <2>2, <1>1, <1>2, <1>12 DEF AttachmentTypeOK, DiscardType
<1>15. RequestsFit' /\ RowsFit' /\ ReasonsFit'
  BY <1>1 DEF IInv, RequestsFit, RowsFit, ReasonsFit
<1>16. UnsavedIsWhole'
  BY <1>1, <1>5 DEF IInv, UnsavedIsWhole
<1>17. RowsAndAssetsAgree'
  <2>1. \A q \in Remover : ItemsOf(q)' = ItemsOf(q)
    BY <1>7, <1>12 DEF ItemsOf
  <2>2. p \in ItemsOf(r)
    BY <1>1, <1>2, <1>4 DEF DiscardsFit, ItemsOf
  <2>3. ASSUME NEW x \in Submission, NEW j \in DOMAIN form[x], <<x, j>> \in asset',
               saved[x] # "none", j \notin DOMAIN media[x]
        PROVE  <<x, j>> \in spared'
    <3>1. j \in Position
      BY <1>2, FormShape DEF AttachmentTypeOK
    <3>2. QED
      BY <2>3, <3>1, <1>9 DEF IInv, RowsAndAssetsAgree
  <2>4. ASSUME NEW x \in Submission, NEW j \in DOMAIN form[x], <<x, j>> \notin asset',
               saved[x] # "none", j \in DOMAIN media[x]
        PROVE  <<x, j>> \in cutShort \cup UNION {ItemsOf(q) : q \in Remover}
    <3>1. CASE <<x, j>> = p
      BY <2>2, <3>1
    <3>2. CASE <<x, j>> # p
      <4>1. j \in Position /\ <<x, j>> \notin asset
        BY <1>1, <1>2, <2>4, <3>2, FormShape DEF AttachmentTypeOK
      <4>2. QED
        BY <2>4, <4>1 DEF IInv, RowsAndAssetsAgree
    <3>3. QED
      BY <3>1, <3>2
  <2>5. UNION {ItemsOf(q) : q \in Remover}' = UNION {ItemsOf(q) : q \in Remover}
    BY <2>1
  <2>6. QED
    BY <2>3, <2>4, <2>5, <1>1 DEF RowsAndAssetsAgree
<1>18. QED
  BY <1>12, <1>14, <1>15, <1>16, <1>17 DEF IInv

\* A removal's last step: what it removes of one submission's rows.
LEMMA DeleteRowsIInv ==
    ASSUME IInv, NEW r \in Remover, DeleteRows(r)
    PROVE  IInv'
<1> DEFINE f == discard[r].f
           items == discard[r].items
<1>1. /\ discard[r].pc = "destroy" /\ discard[r].left = {}
      /\ discard' = [discard EXCEPT ![r] = NoDiscard]
      /\ UNCHANGED <<form, asset, request, answer, spared>>
  BY DEF DeleteRows
<1>2. AttachmentTypeOK /\ DiscardsFit /\ RowsAndAssetsAgree /\ RowsFit
  BY DEF IInv
<1>3. discard \in [Remover -> DiscardType] /\ discard[r] \in DiscardType
  BY <1>2 DEF AttachmentTypeOK, DiscardType
<1>4. /\ f \in Submission /\ saved[f] # "none"
      /\ \A i \in items : <<f, i>> \in asset => <<f, i>> \in spared
      /\ discard[r].what = "feedback" => DOMAIN media[f] \subseteq items
  BY <1>1, <1>2 DEF DiscardsFit
<1>5. NoDiscard \in DiscardType /\ NoDiscard.pc = "idle" /\ NoDiscard.items = {}
  BY DEF NoDiscard, DiscardType
<1>6. /\ discard' \in [Remover -> DiscardType]
      /\ \A q \in Remover : discard'[q] = IF q = r THEN NoDiscard ELSE discard[q]
  BY <1>1, <1>3, <1>5
<1>7. ItemsOf(r) \subseteq Place /\ \A i : <<f, i>> \in ItemsOf(r) <=> i \in items
  BY <1>3, <1>4 DEF ItemsOf, Place, DiscardType
<1>8. \A q \in Remover : q # r => ItemsOf(q)' = ItemsOf(q)
  BY <1>6 DEF ItemsOf
\* What is left of the rows in each of the three ways.
<1>9. /\ saved' \in [Submission -> {"none", "stored", "removed"}]
      /\ DOMAIN media' = Submission
      /\ \A x \in Submission :
            /\ saved'[x] = "none" <=> saved[x] = "none"
            /\ saved'[x] = "stored" => saved[x] = "stored"
            /\ DOMAIN media'[x] \subseteq DOMAIN media[x]
            /\ \A i \in DOMAIN media'[x] : media'[x][i] = media[x][i]
            /\ x # f => media'[x] = media[x] /\ saved'[x] = saved[x]
            /\ saved'[x] # "stored" => media'[x] = <<>>
      /\ \A i \in DOMAIN media[f] \ DOMAIN media'[f] : i \in items
      /\ cutShort \subseteq cutShort' /\ cutShort' \subseteq Place
      /\ mediaFailures' \in 0 .. MaxMediaFailures
      /\ \A i \in DOMAIN media'[f] : i \in items => <<f, i>> \in cutShort'
  <2>1. CASE /\ discard[r].what = "media"
             /\ media' = [media EXCEPT ![f] = [i \in DOMAIN media[f] \ items |-> media[f][i]]]
             /\ UNCHANGED <<saved, mediaFailures, cutShort>>
    <3> DEFINE rest == [i \in DOMAIN media[f] \ items |-> media[f][i]]
    <3>1. saved[f] # "stored" => rest = <<>>
      <4>1. saved[f] # "stored" => DOMAIN media[f] \ items = {}
        BY <1>2, <1>4 DEF AttachmentTypeOK
      <4>2. QED
        BY <4>1
    <3>2. /\ DOMAIN rest = DOMAIN media[f] \ items
          /\ \A i \in DOMAIN rest : rest[i] = media[f][i]
      OBVIOUS
    <3> HIDE DEF rest
    <3>3. DOMAIN media' = Submission /\ media'[f] = rest
          /\ \A x \in Submission : x # f => media'[x] = media[x]
      BY <2>1, <1>2, <1>4 DEF AttachmentTypeOK, rest
    <3>4. QED
      BY <2>1, <3>1, <3>2, <3>3, <1>2 DEF AttachmentTypeOK
  <2>2. CASE /\ discard[r].what = "feedback"
             /\ saved' = [saved EXCEPT ![f] = "removed"]
             /\ media' = [media EXCEPT ![f] = <<>>]
             /\ UNCHANGED <<mediaFailures, cutShort>>
    <3>1. DOMAIN media' = Submission /\ media'[f] = <<>> /\ saved'[f] = "removed"
          /\ \A x \in Submission : x # f => media'[x] = media[x] /\ saved'[x] = saved[x]
      BY <2>2, <1>2, <1>4 DEF AttachmentTypeOK
    <3>2. saved' \in [Submission -> {"none", "stored", "removed"}]
      BY <2>2, <1>2 DEF AttachmentTypeOK
    <3>3. DOMAIN <<>> = {}
      OBVIOUS
    <3>4. QED
      BY <2>2, <3>1, <3>2, <3>3, <1>2, <1>4 DEF AttachmentTypeOK
  <2>3. CASE /\ MediaFails
             /\ cutShort' = cutShort \cup ItemsOf(r)
             /\ UNCHANGED <<saved, media>>
    BY <2>3, <1>2, <1>4, <1>7, FailuresShrink DEF AttachmentTypeOK
  <2>4. QED
    BY <2>1, <2>2, <2>3 DEF DeleteRows, CascadedTo
<1>10. AttachmentTypeOK'
  BY <1>1, <1>2, <1>6, <1>9 DEF AttachmentTypeOK, DiscardType
<1>11. RequestsFit' /\ ReasonsFit' /\ UnsavedIsWhole'
  BY <1>1, <1>9 DEF IInv, RequestsFit, ReasonsFit, UnsavedIsWhole
<1>12. RowsFit'
  BY <1>1, <1>2, <1>9 DEF RowsFit
<1>13. DiscardsFit'
  <2>1. ASSUME NEW q \in Remover, q # r, discard[q].pc = "destroy"
        PROVE  saved'[discard[q].f] # "none"
               /\ DOMAIN media'[discard[q].f] \subseteq DOMAIN media[discard[q].f]
    BY <2>1, <1>2, <1>9 DEF DiscardsFit
  <2>2. QED
    BY <2>1, <1>1, <1>2, <1>5, <1>6 DEF DiscardsFit
<1>14. RowsAndAssetsAgree'
  <2>1. ASSUME NEW x \in Submission, NEW i \in Position, saved'[x] # "none", i \in DOMAIN form[x],
               i \notin DOMAIN media'[x], <<x, i>> \in asset
        PROVE  <<x, i>> \in spared
    <3>1. CASE i \in DOMAIN media[x]
      <4>1. x = f /\ i \in items
        BY <2>1, <3>1, <1>9
      <4>2. QED
        BY <4>1, <2>1, <1>4
    <3>2. CASE i \notin DOMAIN media[x]
      BY <2>1, <3>2, <1>2, <1>9 DEF RowsAndAssetsAgree
    <3>3. QED
      BY <3>1, <3>2
  <2>2. ASSUME NEW x \in Submission, NEW i \in Position, saved'[x] # "none", i \in DOMAIN form[x],
               i \in DOMAIN media'[x], <<x, i>> \notin asset
        PROVE  <<x, i>> \in cutShort' \cup UNION {ItemsOf(q)' : q \in Remover}
    <3>1. <<x, i>> \in cutShort \cup UNION {ItemsOf(q) : q \in Remover}
      BY <2>2, <1>2, <1>9 DEF RowsAndAssetsAgree
    <3>2. CASE <<x, i>> \in cutShort
      BY <3>2, <1>9
    <3>3. CASE \E q \in Remover : <<x, i>> \in ItemsOf(q)
      <4>1. PICK q \in Remover : <<x, i>> \in ItemsOf(q)
        BY <3>3
      <4>2. CASE q = r
        <5>1. x = f /\ i \in items
          BY <4>1, <4>2 DEF ItemsOf
        <5>2. QED
          BY <5>1, <2>2, <1>9
      <4>3. CASE q # r
        BY <4>1, <4>3, <1>8
      <4>4. QED
        BY <4>2, <4>3
    <3>4. QED
      BY <3>1, <3>2, <3>3
  <2>3. QED
    BY <2>1, <2>2, <1>1 DEF RowsAndAssetsAgree
<1>15. QED
  BY <1>10, <1>11, <1>12, <1>13, <1>14 DEF IInv

LEMMA RestartIInv == ASSUME IInv, RestartOfMedia PROVE IInv'
<1>1. /\ MediaFails
      /\ request' = [f \in Submission |->
            IF request[f].pc = "new" THEN request[f] ELSE [request[f] EXCEPT !.pc = "ended"]]
      /\ discard' = [r \in Remover |-> NoDiscard]
      /\ cutShort' = cutShort \cup UNION {ItemsOf(r) : r \in Remover}
      /\ UNCHANGED <<form, asset, saved, media, answer, spared>>
  BY DEF RestartOfMedia
<1>2. AttachmentTypeOK /\ DiscardsFit
  BY DEF IInv
<1>3. request \in [Submission -> RequestType] /\ discard \in [Remover -> DiscardType]
  BY <1>2 DEF AttachmentTypeOK, RequestType, DiscardType
<1>4. \A f \in Submission :
         /\ request'[f] \in RequestType
         /\ request'[f].pc = IF request[f].pc = "new" THEN "new" ELSE "ended"
         /\ request'[f].found = request[f].found
         /\ request'[f].verified = request[f].verified
  BY <1>1, <1>3 DEF RequestType
<1>5. request' \in [Submission -> RequestType]
  BY <1>1, <1>4
<1>6. NoDiscard \in DiscardType /\ NoDiscard.pc = "idle" /\ NoDiscard.items = {}
  BY DEF NoDiscard, DiscardType
<1>7. discard' \in [Remover -> DiscardType] /\ \A r \in Remover : discard'[r] = NoDiscard
  BY <1>1, <1>6
<1>8. \A r \in Remover : ItemsOf(r) \subseteq Place
  BY <1>2, <1>3 DEF DiscardsFit, DiscardType, ItemsOf, Place
<1>9. AttachmentTypeOK'
  <2>1. mediaFailures' \in 0 .. MaxMediaFailures
    BY <1>1, <1>2, FailuresShrink
  <2>2. cutShort' \subseteq Place
    BY <1>1, <1>2, <1>8 DEF AttachmentTypeOK
  <2>3. QED
    BY <2>1, <2>2, <1>1, <1>2, <1>5, <1>7 DEF AttachmentTypeOK, RequestType, DiscardType
<1>10. RequestsFit' /\ RowsFit'
  BY <1>1, <1>4 DEF IInv, RequestsFit, RowsFit
<1>11. UnsavedIsWhole' /\ ReasonsFit'
  BY <1>1 DEF IInv, UnsavedIsWhole, ReasonsFit
<1>12. DiscardsFit'
  BY <1>6, <1>7 DEF DiscardsFit
<1>13. RowsAndAssetsAgree'
  BY <1>1 DEF IInv, RowsAndAssetsAgree
<1>14. QED
  BY <1>9, <1>10, <1>11, <1>12, <1>13 DEF IInv

LEMMA NextIInv == ASSUME IInv, AttachmentNext PROVE IInv'
<1>1. ASSUME NEW f \in Submission, VerifyMedia(f) PROVE IInv'
  BY <1>1, VerifyMediaIInv
<1>2. ASSUME NEW f \in Submission, SaveSubmission(f) PROVE IInv'
  BY <1>2, SaveSubmissionIInv
<1>3. ASSUME NEW f \in Submission, Respond(f) PROVE IInv'
  BY <1>3, RespondIInv
<1>4. ASSUME NEW f \in Submission, RequestFails(f) PROVE IInv'
  BY <1>4, RequestFailsIInv
<1>5. ASSUME NEW r \in Remover, NEW f \in Submission, FindSubmission(r, f) PROVE IInv'
  BY <1>5, FindSubmissionIInv
<1>6. ASSUME NEW r \in Remover, NEW f \in Submission, NEW i \in Position, FindMedia(r, f, i)
      PROVE  IInv'
  BY <1>6, FindMediaIInv
<1>7. ASSUME NEW r \in Remover, DestroyNext(r) PROVE IInv'
  BY <1>7, DestroyNextIInv
<1>8. ASSUME NEW r \in Remover, DeleteRows(r) PROVE IInv'
  BY <1>8, DeleteRowsIInv
<1>9. CASE RestartOfMedia
  BY <1>9, RestartIInv
<1>10. QED
  BY <1>1, <1>2, <1>3, <1>4, <1>5, <1>6, <1>7, <1>8, <1>9 DEF AttachmentNext

LEMMA StutterIInv == ASSUME IInv, UNCHANGED attachmentVars PROVE IInv'
BY DEF IInv, attachmentVars, AttachmentTypeOK, RequestsFit, RowsFit, UnsavedIsWhole,
       DiscardsFit, ReasonsFit, RowsAndAssetsAgree, ItemsOf

LEMMA AlwaysIInv == AttachmentSpec => []IInv
<1>1. IInv /\ [AttachmentNext]_attachmentVars => IInv'
  BY NextIInv, StutterIInv
<1>2. QED
  BY <1>1, InitIInv, PTL DEF AttachmentSpec

-----------------------------------------------------------------------------
(* The limits *)

LEMMA VerifiedRows ==
    ASSUME IInv, NEW f \in Submission
    PROVE  /\ Verified(f) = DOMAIN media[f] \cap request[f].verified
           /\ DOMAIN media[f] # {} =>
                 request[f].verified = Accepted(form[f], request[f].found)
<1>1. Verified(f) = DOMAIN media[f] \cap request[f].verified
  BY DEF IInv, RowsFit, Verified
<1>2. ASSUME DOMAIN media[f] # {}
      PROVE  request[f].pc # "new"
  <2>1. saved[f] = "stored"
    BY <1>2, StoredIfRows DEF IInv
  <2>2. QED
    BY <2>1 DEF IInv, RequestsFit
<1>3. QED
  BY <1>1, <1>2 DEF IInv, RequestsFit

LEMMA StoredWithin == ASSUME IInv PROVE StoredWithinLimits
<1> SUFFICES ASSUME NEW f \in Submission
             PROVE  /\ BytesOf(f, Verified(f)) <= MAX_TOTAL_BYTES
                    /\ VideosOf(f, Verified(f)) <= MAX_VIDEOS_PER_SUBMISSION
                    /\ \A i \in Verified(f) : form[f][i].bytes <= MaxBytes(form[f][i].kind)
  BY DEF StoredWithinLimits
<1>1. /\ Len(form[f]) \in Nat /\ DOMAIN form[f] = 1 .. Len(form[f]) /\ form[f] \in Form
      /\ \A i \in DOMAIN form[f] : form[f][i] \in File
  BY FormShape DEF IInv, AttachmentTypeOK
<1>2. \A i \in 1 .. Len(form[f]) : form[f][i].bytes \in Nat
  BY <1>1, AttachmentAssumption
<1>3. /\ MAX_TOTAL_BYTES \in Nat /\ MAX_VIDEOS_PER_SUBMISSION \in Nat
  BY AttachmentAssumption
<1>4. CASE DOMAIN media[f] = {}
  <2>1. Verified(f) = {}
    BY <1>4 DEF Verified
  <2>2. BytesOf(f, {}) = 0 /\ VideosOf(f, {}) = 0
    <3>1. {i \in {} : form[f][i].kind = "VIDEO"} = {}
      OBVIOUS
    <3>2. QED
      BY <3>1, BytesOfNothing, FS_EmptySet DEF VideosOf
  <2>3. QED
    BY <2>1, <2>2, <1>3
<1>5. CASE DOMAIN media[f] # {}
  <2> DEFINE found == request[f].found
             all   == Accepted(form[f], found)
  <2>1. Verified(f) \subseteq all
    BY <1>5, VerifiedRows
  <2>2. PICK count : /\ CountIsRight(f, Len(form[f]), found, count)
                     /\ all = count.verified
    BY <1>1, AcceptedIsRight
  <2>3. /\ all \subseteq 1 .. Len(form[f])
        /\ BytesOf(f, all) <= MAX_TOTAL_BYTES
        /\ VideosOf(f, all) <= MAX_VIDEOS_PER_SUBMISSION
        /\ \A i \in all : Fits(f, i, found, all)
    BY <2>2 DEF CountIsRight
  <2> HIDE DEF all
  <2>4. \A i \in all : form[f][i].bytes <= MaxBytes(form[f][i].kind)
    BY <2>3 DEF Fits
  <2>5. BytesOf(f, Verified(f)) <= BytesOf(f, all)
    BY <2>1, <2>3, <1>1, <1>2, BytesOfGrows
  <2>6. IsFiniteSet(all) /\ IsFiniteSet(Verified(f))
    <3>1. IsFiniteSet(1 .. Len(form[f]))
      BY <1>1, FS_Interval
    <3>2. QED
      BY <3>1, <2>1, <2>3, FS_Subset
  <2>7. VideosOf(f, Verified(f)) <= VideosOf(f, all)
        /\ VideosOf(f, Verified(f)) \in Nat /\ VideosOf(f, all) \in Nat
    BY <2>1, <2>6, VideosOfTypes
  <2>8. BytesOf(f, Verified(f)) \in Nat /\ BytesOf(f, all) \in Nat
    <3>1. \A i \in all : form[f][i].bytes \in Nat
      BY <2>3, <1>2
    <3>2. QED
      BY <3>1, <2>1, <2>6, BytesOfTypes
  <2>9. BytesOf(f, Verified(f)) <= MAX_TOTAL_BYTES
    BY <2>3, <2>5, <2>8, <1>3
  <2>10. VideosOf(f, Verified(f)) <= MAX_VIDEOS_PER_SUBMISSION
    BY <2>3, <2>7, <1>3
  <2>11. QED
    BY <2>1, <2>4, <2>9, <2>10
<1>6. QED
  BY <1>4, <1>5

LEMMA RefusedOnly == ASSUME IInv PROVE RefusedOnlyIfNoRoom
<1> SUFFICES ASSUME NEW f \in Submission, DOMAIN media[f] = DOMAIN form[f],
                    NEW i \in DOMAIN form[f]
             PROVE  i \in Verified(f) <=> Fits(f, i, request[f].found, Verified(f))
  BY DEF RefusedOnlyIfNoRoom, Fits
<1>1. /\ DOMAIN form[f] = 1 .. Len(form[f]) /\ form[f] \in Form
      /\ form \in [Submission -> Form]
  BY FormShape DEF IInv, AttachmentTypeOK
<1> DEFINE found == request[f].found
           all   == Accepted(form[f], found)
<1>2. all \subseteq DOMAIN form[f]
  BY <1>1, AcceptedType
<1>3. Verified(f) = all
  BY <1>2, VerifiedRows
<1>4. PICK count : /\ CountIsRight(f, Len(form[f]), found, count)
                   /\ all = count.verified
  BY <1>1, AcceptedIsRight
<1>5. QED
  BY <1>1, <1>3, <1>4 DEF CountIsRight

-----------------------------------------------------------------------------
(* Theorems *)

\* The variables keep their types: above all only what the form names is ever
\* found or accepted, and a row is of an attachment of its own submission.
THEOREM TypesOfAttachments == AttachmentSpec => []AttachmentTypeOK
BY AlwaysIInv, PTL DEF IInv

\* submit keeps no submission whose accepted attachments exceed the limits,
\* whatever the form holds, in whatever order, and whatever is removed later.
THEOREM LimitsAreKept == AttachmentSpec => []StoredWithinLimits
BY AlwaysIInv, StoredWithin, PTL

\* submit's loop refuses an attachment exactly if its own check failed or it
\* does not fit beside what was accepted before it.
THEOREM FirstComeFirstServed == AttachmentSpec => []RefusedOnlyIfNoRoom
BY AlwaysIInv, RefusedOnly, PTL

\* The reasons of the response stand with exactly the refused attachments, as
\* long as the response still has all of them.
THEOREM ReasonsAreWithTheRefused == AttachmentSpec => []ReasonsFit
BY AlwaysIInv, PTL DEF IInv

\* Removals of attachments and of their submission, at once and interrupted
\* anywhere, leave no asset without a row and no row without an asset, other
\* than by a failure that is on record.
THEOREM RowsAgreeWithAssets == AttachmentSpec => []RowsAndAssetsAgree
BY AlwaysIInv, PTL DEF IInv

=============================================================================
