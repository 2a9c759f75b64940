-------------------------- MODULE PolicyCSVProofs ---------------------------
(***************************************************************************)
(* Theorems about PolicyCSV: the reader finds what the records of a text   *)
(* grant, and hence what its lines grant unless a quote stays open, for    *)
(* any text, words and identifiers.                                        *)
(*                                                                         *)
(* What the scan of a text does is shown by induction over the positions,  *)
(* stated for a set of positions (Climb), for which the least element of a *)
(* set of naturals serves.                                                 *)
(***************************************************************************)
EXTENDS PolicyCSV, Integers, WellFoundedInduction, TLAPS

-----------------------------------------------------------------------------
(* Induction.                                                              *)

Less == {ss \in Nat \X Nat : ss[1] < ss[2]}

LEMMA LessIsWellFounded == IsWellFoundedOn(Less, Nat)
  BY NatLessThanWellFounded DEF OpToRel, Less

LEMMA Least ==
  ASSUME NEW S \in SUBSET Nat, S # {}
  PROVE  \E m \in S : \A k \in S : ~(k < m)
  <1>1. PICK m \in S : \A k \in S : <<k, m>> \notin Less
    BY WFMin, LessIsWellFounded
  <1>2. \A k \in S : ~(k < m)
    BY <1>1 DEF Less
  <1> QED
    BY <1>2

LEMMA Climb ==
  ASSUME NEW a \in Int, NEW b \in Int, NEW S, a <= b => a \in S,
         \A i \in a .. b-1 : i \in S => i + 1 \in S
  PROVE  a .. b \subseteq S
  <1> DEFINE Bad == {n \in Nat : a + n <= b /\ a + n \notin S}
  <1> SUFFICES ASSUME NEW x \in a .. b, x \notin S PROVE FALSE
    OBVIOUS
  <1>1. x - a \in Bad
    OBVIOUS
  <1>2. PICK m \in Bad : \A k \in Bad : ~(k < m)
    BY <1>1, Least
  <1>3. m # 0
    OBVIOUS
  <1>4. m - 1 \notin Bad /\ m - 1 \in Nat
    BY <1>2, <1>3
  <1>5. a + (m - 1) \in S
    BY <1>4
  <1>6. a + m \in S
    <2>1. a + (m - 1) \in a .. b-1 /\ (a + (m - 1)) + 1 = a + m
      OBVIOUS
    <2> QED
      BY <1>5, <2>1
  <1> QED
    BY <1>6

-----------------------------------------------------------------------------
(* The scan of a text.                                                     *)

State == {"start", "plain", "quoted", "closing", "wrong"}

Scanned(t, q) ==
    /\ t \in Seq(Token)
    /\ q \in [0 .. Len(t) -> State]
    /\ q[0] = "start"
    /\ \A i \in 1 .. Len(t) : q[i] = Step(q[i - 1], t[i])

LEMMA StepType ==
  ASSUME NEW s \in State, NEW token
  PROVE  Step(s, token) \in State
  BY DEF State, Step

LEMMA ScanIsScanned ==
  ASSUME NEW t \in Seq(Token)
  PROVE  Scanned(t, Scan(t))
  <1> DEFINE N == Len(t)
  <1> DEFINE Good(r, n) == /\ r \in [0 .. n -> State]
                           /\ r[0] = "start"
                           /\ \A i \in 1 .. n : r[i] = Step(r[i - 1], t[i])
  <1> DEFINE Reach == {n \in Nat : \E r : Good(r, n)}
  <1>0. N \in Nat
    OBVIOUS
  <1>1. 0 \in Reach
    <2>1. Good([i \in 0 .. 0 |-> "start"], 0)
      BY DEF State
    <2> QED
      BY <2>1
  <1>2. ASSUME NEW n \in 0 .. N-1, n \in Reach PROVE n + 1 \in Reach
    <2>1. PICK r : Good(r, n)
      BY <1>2
    <2> DEFINE s == Step(r[n], t[n + 1])
               r2 == [i \in 0 .. n+1 |-> IF i = n + 1 THEN s ELSE r[i]]
    <2>2. s \in State
      BY <2>1, StepType
    <2>3. r2 \in [0 .. n+1 -> State]
      <3> HIDE DEF s
      <3> QED
        BY <2>1, <2>2
    <2>4. r2[0] = "start"
      BY <2>1
    <2>5. ASSUME NEW i \in 1 .. n+1 PROVE r2[i] = Step(r2[i - 1], t[i])
      <3>1. CASE i = n + 1
        <4>1. r2[i] = s /\ r2[i - 1] = r[n]
          BY <3>1
        <4> QED
          BY <4>1, <3>1
      <3>2. CASE i # n + 1
        <4>1. i \in 1 .. n /\ r2[i] = r[i] /\ r2[i - 1] = r[i - 1]
          BY <3>2
        <4> QED
          BY <4>1, <2>1
      <3> QED
        BY <3>1, <3>2
    <2>6. Good(r2, n + 1)
      BY <2>3, <2>4, <2>5
    <2>7. \E r3 : Good(r3, n + 1)
      <3> HIDE DEF Good, r2
      <3> QED
        BY <2>6
    <2>8. n + 1 \in Nat
      OBVIOUS
    <2> HIDE DEF Good
    <2> QED
      BY <2>7, <2>8
  <1>3. N \in Reach
    <2>1. 0 .. N \subseteq Reach
      <3>1. \A i \in 0 .. N-1 : i \in Reach => i + 1 \in Reach
        BY <1>2
      <3>2. 0 \in Int /\ N \in Int
        BY <1>0
      <3> HIDE DEF Reach, N
      <3> QED
        BY <1>1, <3>1, <3>2, Climb
    <2>2. N \in 0 .. N
      BY <1>0
    <2> HIDE DEF Reach, N
    <2> QED
      BY <2>1, <2>2
  <1>4. PICK r : Good(r, N)
    BY <1>3
  <1>5. r = [i \in 0 .. N |-> IF i = 0 THEN "start" ELSE Step(r[i - 1], t[i])]
    BY <1>4, <1>0
  <1>6. Scan(t) = [i \in 0 .. N |-> IF i = 0 THEN "start" ELSE Step(Scan(t)[i - 1], t[i])]
    BY <1>5 DEF Scan
  <1> QED
    <2> DEFINE q == Scan(t)
    <2>1. q[0] = "start" /\ \A i \in 1 .. N : q[i] = Step(q[i - 1], t[i])
      BY <1>0, <1>6
    <2> DEFINE P == {i \in 0 .. N : q[i] \in State}
    <2>2. 0 .. N \subseteq P
      <3>1. 0 \in P
        BY <1>0, <2>1 DEF State
      <3>2. ASSUME NEW i \in 0 .. N-1, i \in P PROVE i + 1 \in P
        <4>1. q[i + 1] = Step(q[i], t[i + 1])
          BY <1>0, <2>1
        <4> QED
          BY <1>0, <3>2, <4>1, StepType
      <3>3. \A i \in 0 .. N-1 : i \in P => i + 1 \in P
        BY <3>2
      <3>4. 0 \in Int /\ N \in Int
        BY <1>0
      <3> HIDE DEF P, N
      <3> QED
        BY <3>1, <3>3, <3>4, Climb
    <2>3. q = [i \in 0 .. N |-> q[i]]
      BY <1>6
    <2>4. q \in [0 .. N -> State]
      <3> HIDE DEF q
      <3> QED
        BY <2>2, <2>3
    <2> QED
      BY <2>1, <2>4 DEF Scanned

(* A set of states that the tokens up to hi do not leave is not left. *)
LEMMA Stays ==
  ASSUME NEW t, NEW q, Scanned(t, q), NEW S,
         NEW lo \in 0 .. Len(t), NEW hi \in 0 .. Len(t), q[lo] \in S,
         \A j \in lo+1 .. hi : \A s \in S : Step(s, t[j]) \in S
  PROVE  \A j \in lo .. hi : q[j] \in S
  <1> DEFINE P == {j \in 0 .. Len(t) : q[j] \in S}
  <1>1. ASSUME NEW i \in lo .. hi-1, i \in P PROVE i + 1 \in P
    <2>1. Len(t) \in Nat
      BY DEF Scanned
    <2>2. q[i + 1] = Step(q[i], t[i + 1]) /\ i + 1 \in lo+1 .. hi
      BY <2>1 DEF Scanned
    <2> QED
      BY <1>1, <2>1, <2>2
  <1>2. lo .. hi \subseteq P
    <2>1. lo \in P /\ \A i \in lo .. hi-1 : i \in P => i + 1 \in P
      BY <1>1
    <2>2. lo \in Int /\ hi \in Int
      BY DEF Scanned
    <2> HIDE DEF P
    <2> QED
      BY <2>1, <2>2, Climb
  <1> QED
    BY <1>2

LEMMA Tokens ==
  /\ Word \subseteq Token /\ Id \subseteq Word /\ "g" \in Word
  /\ \A w \in Word : w \notin {"blank", "newline", "quote", "comma"}
  BY WordAssumption DEF Token, Space

(* Blanks before a field leave the scan at its start. *)
LEMMA StartStays ==
  ASSUME NEW t, NEW q, Scanned(t, q),
         NEW lo \in 0 .. Len(t), NEW hi \in 0 .. Len(t), q[lo] = "start",
         \A j \in lo+1 .. hi : t[j] = "blank"
  PROVE  \A j \in lo .. hi : q[j] = "start"
  <1>1. \A j \in lo+1 .. hi : \A s \in {"start"} : Step(s, t[j]) \in {"start"}
    BY DEF Step
  <1>2. \A j \in lo .. hi : q[j] \in {"start"}
    BY <1>1, Stays
  <1> QED
    BY <1>2

LEMMA PlainStays ==
  ASSUME NEW t, NEW q, Scanned(t, q),
         NEW lo \in 0 .. Len(t), NEW hi \in 0 .. Len(t), q[lo] = "start",
         \A j \in lo+1 .. hi : t[j] \notin {"quote", "comma", "newline"}
  PROVE  \A j \in lo .. hi : q[j] \in {"start", "plain"}
  <1>1. \A j \in lo+1 .. hi : \A s \in {"start", "plain"} :
            Step(s, t[j]) \in {"start", "plain"}
    BY DEF Step
  <1> QED
    BY <1>1, Stays

LEMMA QuotedStays ==
  ASSUME NEW t, NEW q, Scanned(t, q),
         NEW lo \in 0 .. Len(t), NEW hi \in 0 .. Len(t), q[lo] = "quoted",
         \A j \in lo+1 .. hi : t[j] # "quote"
  PROVE  \A j \in lo .. hi : q[j] = "quoted"
  <1>1. \A j \in lo+1 .. hi : \A s \in {"quoted"} : Step(s, t[j]) \in {"quoted"}
    BY DEF Step
  <1>2. \A j \in lo .. hi : q[j] \in {"quoted"}
    BY <1>1, Stays
  <1> QED
    BY <1>2

LEMMA WrongStays ==
  ASSUME NEW t, NEW q, Scanned(t, q),
         NEW lo \in 0 .. Len(t), NEW hi \in 0 .. Len(t), q[lo] = "wrong",
         \A j \in lo+1 .. hi : t[j] # "newline"
  PROVE  \A j \in lo .. hi : q[j] = "wrong"
  <1>1. \A j \in lo+1 .. hi : \A s \in {"wrong"} : Step(s, t[j]) \in {"wrong"}
    BY DEF Step
  <1>2. \A j \in lo .. hi : q[j] \in {"wrong"}
    BY <1>1, Stays
  <1> QED
    BY <1>2

(* A quote in a field that began without one makes no sense. *)
LEMMA BareIsWrong ==
  ASSUME NEW t, NEW q, Scanned(t, q),
         NEW i \in 1 .. Len(t), NEW hi \in i .. Len(t), NEW k \in i .. hi,
         q[i - 1] = "start", t[i] \notin {"blank", "quote"}, t[k] = "quote",
         \A j \in i .. hi : t[j] \notin {"comma", "newline"}
  PROVE  q[hi] = "wrong"
  <1>0. Len(t) \in Nat /\ \A j \in 1 .. Len(t) : q[j] = Step(q[j - 1], t[j])
    BY DEF Scanned
  <1>1. q[i] = "plain"
    BY <1>0 DEF Step
  <1>2. k - 1 \in i .. hi /\ k \in 0 .. Len(t) /\ hi \in 0 .. Len(t) /\ i \in 0 .. Len(t)
    BY <1>0
  <1>3. \A j \in i+1 .. hi : \A s \in {"plain", "wrong"} :
            Step(s, t[j]) \in {"plain", "wrong"}
    BY DEF Step
  <1>4. \A j \in i .. hi : q[j] \in {"plain", "wrong"}
    BY <1>1, <1>2, <1>3, Stays
  <1>5. q[k] = "wrong"
    BY <1>0, <1>2, <1>4 DEF Step
  <1>6. \A j \in k .. hi : q[j] = "wrong"
    BY <1>2, <1>5, WrongStays
  <1> QED
    BY <1>6

-----------------------------------------------------------------------------
(* A field and the part of the text it was read from.                      *)

BlankField(f) == \A k \in DOMAIN f : f[k] \in Space

AllIgnored(t, q, lo, hi) == \A j \in lo+1 .. hi-1 : Ignored(t, q, j)

(* f is what counts between lo and hi. *)
Same(t, q, f, lo, hi) ==
    /\ BlankField(f) <=> AllIgnored(t, q, lo, hi)
    /\ \A w \in Word : Is(f, w) <=> OneWord(t, q, lo, hi, w)

LEMMA IsConcat ==
  ASSUME NEW f \in Seq(Token), NEW g \in Seq(Token), NEW w \in Word
  PROVE  /\ BlankField(f \o g) <=> BlankField(f) /\ BlankField(g)
         /\ Is(f \o g, w)
               <=> \/ Is(f, w) /\ BlankField(g)
                   \/ BlankField(f) /\ Is(g, w)
  <1> DEFINE h == f \o g
  <1>1. /\ DOMAIN f = 1 .. Len(f) /\ DOMAIN g = 1 .. Len(g)
        /\ Len(f) \in Nat /\ Len(g) \in Nat
        /\ DOMAIN h = 1 .. Len(f) + Len(g)
        /\ \A k \in 1 .. Len(f) : h[k] = f[k]
        /\ \A k \in 1 .. Len(g) : h[Len(f) + k] = g[k]
    OBVIOUS
  <1>2. \A k \in Len(f)+1 .. Len(f)+Len(g) :
            k - Len(f) \in 1 .. Len(g) /\ h[k] = g[k - Len(f)]
    BY <1>1
  <1>3. w \notin Space
    BY Tokens DEF Space
  <1> HIDE DEF h
  <1>4. BlankField(h) <=> BlankField(f) /\ BlankField(g)
    <2>1. BlankField(h) => BlankField(f)
      BY <1>1 DEF BlankField
    <2>2. BlankField(h) => BlankField(g)
      BY <1>1 DEF BlankField
    <2>3. ASSUME BlankField(f), BlankField(g), NEW k \in DOMAIN h PROVE h[k] \in Space
      <3>1. CASE k \in 1 .. Len(f)
        BY <1>1, <2>3, <3>1 DEF BlankField
      <3>2. CASE k \in Len(f)+1 .. Len(f)+Len(g)
        BY <1>1, <1>2, <2>3, <3>2 DEF BlankField
      <3> QED
        BY <1>1, <3>1, <3>2
    <2> QED
      BY <2>1, <2>2, <2>3 DEF BlankField
  <1>5. ASSUME Is(f, w), BlankField(g) PROVE Is(h, w)
    <2>1. PICK i \in 1 .. Len(f) : /\ f[i] = w
                                   /\ \A j \in 1 .. Len(f) : j # i => f[j] \in Space
      BY <1>1, <1>5 DEF Is
    <2>2. i \in DOMAIN h /\ h[i] = w
      BY <1>1, <2>1
    <2>3. ASSUME NEW j \in DOMAIN h, j # i PROVE h[j] \in Space
      <3>1. CASE j \in 1 .. Len(f)
        BY <1>1, <2>1, <2>3, <3>1
      <3>2. CASE j \in Len(f)+1 .. Len(f)+Len(g)
        BY <1>1, <1>2, <1>5, <3>2 DEF BlankField
      <3> QED
        BY <1>1, <3>1, <3>2
    <2> QED
      BY <2>2, <2>3 DEF Is
  <1>6. ASSUME BlankField(f), Is(g, w) PROVE Is(h, w)
    <2>1. PICK k \in 1 .. Len(g) : /\ g[k] = w
                                   /\ \A j \in 1 .. Len(g) : j # k => g[j] \in Space
      BY <1>1, <1>6 DEF Is
    <2>2. Len(f) + k \in DOMAIN h /\ h[Len(f) + k] = w
      BY <1>1, <2>1
    <2>3. ASSUME NEW j \in DOMAIN h, j # Len(f) + k PROVE h[j] \in Space
      <3>1. CASE j \in 1 .. Len(f)
        BY <1>1, <1>6, <3>1 DEF BlankField
      <3>2. CASE j \in Len(f)+1 .. Len(f)+Len(g)
        <4>1. j - Len(f) \in 1 .. Len(g) /\ h[j] = g[j - Len(f)]
          BY <1>2, <3>2
        <4>2. j \in Int /\ k \in Int /\ Len(f) \in Int
          BY <1>1, <3>2
        <4>3. j - Len(f) # k
          BY <2>3, <4>2
        <4> QED
          BY <2>1, <4>1, <4>3
      <3> QED
        BY <1>1, <3>1, <3>2
    <2> QED
      BY <2>2, <2>3 DEF Is
  <1>7. ASSUME Is(h, w)
        PROVE  (Is(f, w) /\ BlankField(g)) \/ (BlankField(f) /\ Is(g, w))
    <2>1. PICK i \in DOMAIN h : h[i] = w /\ \A j \in DOMAIN h : j # i => h[j] \in Space
      BY <1>7 DEF Is
    <2>2. CASE i \in 1 .. Len(f)
      <3>1. Is(f, w)
        BY <1>1, <2>1, <2>2 DEF Is
      <3>2. BlankField(g)
        BY <1>1, <2>1, <2>2 DEF BlankField
      <3> QED
        BY <3>1, <3>2
    <2>3. CASE i \notin 1 .. Len(f)
      <3>1. BlankField(f)
        BY <1>1, <2>1, <2>3 DEF BlankField
      <3>2. i \in Len(f)+1 .. Len(f)+Len(g)
        BY <1>1, <2>1, <2>3
      <3>3. g[i - Len(f)] = w /\ i - Len(f) \in DOMAIN g
        BY <1>1, <1>2, <2>1, <3>2
      <3>4. \A j \in DOMAIN g : j # i - Len(f) => g[j] \in Space
        BY <1>1, <2>1, <3>2
      <3> QED
        BY <3>1, <3>3, <3>4 DEF Is
    <2> QED
      BY <2>2, <2>3
  <1> QED
    BY <1>4, <1>5, <1>6, <1>7 DEF h

LEMMA OneWordConcat ==
  ASSUME NEW t, NEW q, NEW w, NEW lo \in Int, NEW m \in Int, NEW hi \in Int,
         lo < m, m <= hi
  PROVE  /\ AllIgnored(t, q, lo, hi)
               <=> AllIgnored(t, q, lo, m) /\ AllIgnored(t, q, m - 1, hi)
         /\ OneWord(t, q, lo, hi, w)
               <=> \/ OneWord(t, q, lo, m, w) /\ AllIgnored(t, q, m - 1, hi)
                   \/ AllIgnored(t, q, lo, m) /\ OneWord(t, q, m - 1, hi, w)
  BY DEF AllIgnored, OneWord

LEMMA SameConcat ==
  ASSUME NEW t, NEW q, NEW f \in Seq(Token), NEW g \in Seq(Token),
         NEW lo \in Int, NEW m \in Int, NEW hi \in Int, lo < m, m <= hi,
         Same(t, q, f, lo, m), Same(t, q, g, m - 1, hi)
  PROVE  Same(t, q, f \o g, lo, hi)
  <1>1. BlankField(f \o g) <=> AllIgnored(t, q, lo, hi)
    BY IsConcat, OneWordConcat, Tokens DEF Same
  <1>2. ASSUME NEW w \in Word PROVE Is(f \o g, w) <=> OneWord(t, q, lo, hi, w)
    BY IsConcat, OneWordConcat DEF Same
  <1> QED
    BY <1>1, <1>2 DEF Same

(* Nothing is read from what is ignored. *)
LEMMA SameNothing ==
  ASSUME NEW t, NEW q, NEW lo \in Int, NEW hi \in Int, AllIgnored(t, q, lo, hi),
         \A j \in lo+1 .. hi-1 : t[j] \notin Word
  PROVE  Same(t, q, << >>, lo, hi)
  <1>1. BlankField(<< >>) /\ \A w : ~Is(<< >>, w)
    BY DEF BlankField, Is
  <1>2. \A w \in Word : ~OneWord(t, q, lo, hi, w)
    BY DEF OneWord
  <1> QED
    BY <1>1, <1>2 DEF Same

(* What has no quote is read as it is. *)
LEMMA SamePart ==
  ASSUME NEW t \in Seq(Token), NEW q, NEW lo \in Nat, NEW hi \in 1 .. Len(t), lo < hi,
         \A j \in lo+1 .. hi-1 : t[j] # "quote"
  PROVE  /\ SubSeq(t, lo + 1, hi - 1) \in Seq(Token)
         /\ Same(t, q, SubSeq(t, lo + 1, hi - 1), lo, hi)
  <1> DEFINE f == SubSeq(t, lo + 1, hi - 1)
  <1>1. /\ f \in Seq(Token)
        /\ DOMAIN f = 1 .. hi-1-lo
        /\ \A k \in 1 .. hi-1-lo : f[k] = t[lo + k]
    OBVIOUS
  <1>2. \A j \in lo+1 .. hi-1 : j - lo \in DOMAIN f /\ t[j] = f[j - lo]
    BY <1>1
  <1>3. \A j \in lo+1 .. hi-1 : Ignored(t, q, j) <=> t[j] \in Space
    BY DEF Ignored
  <1> HIDE DEF f
  <1>4. BlankField(f) <=> AllIgnored(t, q, lo, hi)
    <2>1. \A k \in DOMAIN f : lo + k \in lo+1 .. hi-1 /\ f[k] = t[lo + k]
      BY <1>1
    <2>2. ASSUME AllIgnored(t, q, lo, hi), NEW k \in DOMAIN f PROVE f[k] \in Space
      BY <1>3, <2>1, <2>2 DEF AllIgnored
    <2>3. ASSUME BlankField(f), NEW j \in lo+1 .. hi-1 PROVE Ignored(t, q, j)
      BY <1>2, <1>3, <2>3 DEF BlankField
    <2> QED
      BY <2>2, <2>3 DEF BlankField, AllIgnored
  <1>5. ASSUME NEW w \in Word, Is(f, w) PROVE OneWord(t, q, lo, hi, w)
    <2>1. PICK i \in DOMAIN f : f[i] = w /\ \A j \in DOMAIN f : j # i => f[j] \in Space
      BY <1>5 DEF Is
    <2>2. lo + i \in lo+1 .. hi-1 /\ t[lo + i] = w
      BY <1>1, <2>1
    <2>3. ASSUME NEW j \in lo+1 .. hi-1, j # lo + i PROVE Ignored(t, q, j)
      <3>1. j - lo \in DOMAIN f /\ j - lo # i /\ t[j] = f[j - lo]
        BY <1>1, <1>2, <2>3
      <3> QED
        BY <1>3, <2>1, <3>1
    <2> QED
      BY <2>2, <2>3 DEF OneWord
  <1>6. ASSUME NEW w \in Word, OneWord(t, q, lo, hi, w) PROVE Is(f, w)
    <2>1. PICK i \in lo+1 .. hi-1 : /\ t[i] = w
                                    /\ \A j \in lo+1 .. hi-1 : j # i => Ignored(t, q, j)
      BY <1>6 DEF OneWord
    <2>2. i - lo \in DOMAIN f /\ f[i - lo] = w
      BY <1>2, <2>1
    <2>3. \A j \in DOMAIN f : j # i - lo => f[j] \in Space
      BY <1>1, <1>2, <1>3, <2>1
    <2> QED
      BY <2>2, <2>3 DEF Is
  <1> QED
    BY <1>1, <1>4, <1>5, <1>6 DEF Same, f

(* A doubled quote is read as one. *)
LEMMA SameQuote ==
  ASSUME NEW t, NEW q, NEW i \in Int, t[i] = "quote", q[i - 1] = "closing"
  PROVE  Same(t, q, <<"quote">>, i - 1, i + 1)
  <1>1. ~Ignored(t, q, i) /\ i \in (i-1)+1 .. (i+1)-1
    BY DEF Ignored, Space
  <1>2. ~AllIgnored(t, q, i - 1, i + 1)
    BY <1>1 DEF AllIgnored
  <1>3. ~BlankField(<<"quote">>)
    BY DEF BlankField, Space
  <1>4. \A w \in Word : w # "quote"
    BY Tokens
  <1>5. \A w \in Word : ~Is(<<"quote">>, w)
    BY <1>4 DEF Is
  <1>6. \A w \in Word : ~OneWord(t, q, i - 1, i + 1, w)
    BY <1>4 DEF OneWord
  <1> QED
    BY <1>2, <1>3, <1>5, <1>6 DEF Same

(* A plain field, from its first token i to the end e, begun after p. *)
LEMMA PlainRead ==
  ASSUME NEW t, NEW q, Scanned(t, q), NEW p \in 0 .. Len(t), q[p] = "start",
         NEW i \in p+1 .. Len(t), NEW e \in i .. Len(t),
         \A j \in p+1 .. i-1 : t[j] = "blank",
         \A j \in i .. e-1 : t[j] \notin {"quote", "comma", "newline"},
         t[e] \in {"comma", "newline"}
  PROVE  /\ q[e] = "start" /\ q[e - 1] # "wrong"
         /\ SubSeq(t, i, e - 1) \in Seq(Token)
         /\ Same(t, q, SubSeq(t, i, e - 1), p, e)
  <1>0. /\ t \in Seq(Token) /\ Len(t) \in Nat
        /\ \A j \in 1 .. Len(t) : q[j] = Step(q[j - 1], t[j])
    BY DEF Scanned
  <1>1. \A j \in p+1 .. e-1 : t[j] \notin {"quote", "comma", "newline"}
    BY <1>0
  <1>2. q[e - 1] \in {"start", "plain"}
    <2>1. e - 1 \in 0 .. Len(t) /\ e - 1 \in p .. e-1
      BY <1>0
    <2>2. \A j \in p .. e-1 : q[j] \in {"start", "plain"}
      BY <1>1, <2>1, PlainStays
    <2> QED
      BY <2>1, <2>2
  <1>3. q[e] = "start"
    BY <1>0, <1>2 DEF Step
  <1>4. Same(t, q, << >>, p, i)
    <2>1. AllIgnored(t, q, p, i)
      BY DEF AllIgnored, Ignored, Space
    <2>2. \A j \in p+1 .. i-1 : t[j] \notin Word
      BY Tokens
    <2> QED
      BY <1>0, <2>1, <2>2, SameNothing
  <1>5. SubSeq(t, i, e - 1) \in Seq(Token) /\ Same(t, q, SubSeq(t, i, e - 1), i - 1, e)
    <2>1. i - 1 \in Nat /\ e \in 1 .. Len(t) /\ i - 1 < e /\ (i - 1) + 1 = i
      BY <1>0
    <2>2. \A j \in (i-1)+1 .. e-1 : t[j] # "quote"
      BY <2>1
    <2>3. /\ SubSeq(t, (i - 1) + 1, e - 1) \in Seq(Token)
          /\ Same(t, q, SubSeq(t, (i - 1) + 1, e - 1), i - 1, e)
      BY <1>0, <2>1, <2>2, SamePart
    <2> QED
      BY <2>1, <2>3
  <1>6. Same(t, q, << >> \o SubSeq(t, i, e - 1), p, e)
    <2>1. << >> \in Seq(Token) /\ p \in Int /\ i \in Int /\ e \in Int /\ p < i /\ i <= e
      BY <1>0
    <2> QED
      BY <1>4, <1>5, <2>1, SameConcat
  <1>7. << >> \o SubSeq(t, i, e - 1) = SubSeq(t, i, e - 1)
    BY <1>5
  <1> QED
    BY <1>2, <1>3, <1>5, <1>6, <1>7

(* What is read within quotes, from after p to the next quote at i, if f    *)
(* was read before.                                                        *)
LEMMA QuotedRead ==
  ASSUME NEW t, NEW q, Scanned(t, q), NEW p \in 0 .. Len(t), q[p] = "quoted",
         NEW i \in p+1 .. Len(t), t[i] = "quote",
         \A j \in p+1 .. i-1 : t[j] # "quote",
         NEW f \in Seq(Token), NEW c \in 0 .. p, Same(t, q, f, c, p + 1)
  PROVE  LET read == f \o SubSeq(t, p + 1, i - 1)
         IN  /\ \A j \in p .. i-1 : q[j] = "quoted"
             /\ q[i] = "closing"
             /\ read \in Seq(Token)
             /\ Same(t, q, read, c, i + 1)
             /\ i < Len(t) /\ t[i + 1] = "quote" =>
                    Same(t, q, Append(read, "quote"), c, i + 2)
  <1> DEFINE g == SubSeq(t, p + 1, i - 1)
             read == f \o g
  <1>0. /\ t \in Seq(Token) /\ Len(t) \in Nat /\ p \in Nat /\ i \in Nat /\ c \in Nat
        /\ c <= p /\ p < i
        /\ \A j \in 1 .. Len(t) : q[j] = Step(q[j - 1], t[j])
    BY DEF Scanned
  <1>1. \A j \in p .. i-1 : q[j] = "quoted"
    <2>1. i - 1 \in 0 .. Len(t)
      BY <1>0
    <2> QED
      BY <2>1, QuotedStays
  <1>2. q[i - 1] = "quoted"
    BY <1>0, <1>1
  <1>3. q[i] = "closing"
    <2>1. q[i] = Step("quoted", "quote")
      BY <1>0, <1>2
    <2> QED
      BY <2>1 DEF Step
  <1>4. g \in Seq(Token) /\ Same(t, q, g, p, i)
    BY <1>0, SamePart
  <1>5. read \in Seq(Token)
    BY <1>4
  <1>6. Same(t, q, read, c, i)
    <2>1. /\ c \in Int /\ p + 1 \in Int /\ i \in Int /\ c < p + 1 /\ p + 1 <= i
          /\ (p + 1) - 1 = p
      BY <1>0
    <2>2. Same(t, q, g, (p + 1) - 1, i)
      BY <1>4, <2>1
    <2> HIDE DEF g
    <2> QED
      BY <1>4, <2>1, <2>2, SameConcat
  <1>7. Same(t, q, read, c, i + 1)
    <2>1. Same(t, q, << >>, i - 1, i + 1)
      <3>1. \A j \in (i-1)+1 .. (i+1)-1 : j = i
        BY <1>0
      <3>2. AllIgnored(t, q, i - 1, i + 1)
        BY <1>2, <3>1 DEF AllIgnored, Ignored
      <3>3. \A j \in (i-1)+1 .. (i+1)-1 : t[j] \notin Word
        BY <3>1, Tokens
      <3>4. i - 1 \in Int /\ i + 1 \in Int
        BY <1>0
      <3> QED
        BY <3>2, <3>3, <3>4, SameNothing
    <2>2. /\ c \in Int /\ i \in Int /\ i + 1 \in Int /\ c < i /\ i <= i + 1
          /\ << >> \in Seq(Token)
      BY <1>0
    <2> HIDE DEF read
    <2>3. Same(t, q, read \o << >>, c, i + 1)
      BY <1>5, <1>6, <2>1, <2>2, SameConcat
    <2>4. read \o << >> = read
      BY <1>5
    <2> QED
      BY <2>3, <2>4
  <1>8. ASSUME i < Len(t), t[i + 1] = "quote"
        PROVE  Same(t, q, Append(read, "quote"), c, i + 2)
    <2>1. Same(t, q, <<"quote">>, i, i + 2)
      <3>1. i + 1 \in Int /\ (i + 1) - 1 = i /\ (i + 1) + 1 = i + 2
        BY <1>0
      <3>2. Same(t, q, <<"quote">>, (i + 1) - 1, (i + 1) + 1)
        BY <1>3, <1>8, <3>1, SameQuote
      <3> QED
        BY <3>1, <3>2
    <2>2. <<"quote">> \in Seq(Token)
      BY DEF Token
    <2>3. /\ c \in Int /\ i + 1 \in Int /\ i + 2 \in Int /\ c < i + 1 /\ i + 1 <= i + 2
          /\ (i + 1) - 1 = i
      BY <1>0
    <2>4. Same(t, q, <<"quote">>, (i + 1) - 1, i + 2)
      BY <2>1, <2>3
    <2> HIDE DEF read
    <2>5. Same(t, q, read \o <<"quote">>, c, i + 2)
      BY <1>5, <1>7, <2>2, <2>3, <2>4, SameConcat
    <2>6. read \o <<"quote">> = Append(read, "quote")
      BY <1>5, <2>2
    <2> QED
      BY <2>5, <2>6
  <1> QED
    BY <1>1, <1>3, <1>5, <1>7, <1>8

-----------------------------------------------------------------------------
(* Records.                                                                *)

(* The groups that records up to n grant. *)
FoundUpTo(t, q, n) ==
    {id \in Id : \E a, b \in 0 .. Len(t) :
        b <= n /\ IsRecord(t, q, a, b) /\ Grants(t, q, a, b, id)}

(* The record that begins after a has not ended at p. *)
Begun(t, q, a, p) ==
    /\ a \in 0 .. p
    /\ RecordEnds(t, q, a)
    /\ \A i \in a+1 .. p : ~RecordEnds(t, q, i)

LEMMA NothingEnds ==
  ASSUME NEW t, NEW q, NEW a \in Nat, NEW n \in Nat, a <= n, Len(t) \in Nat,
         \A i \in a+1 .. n : ~RecordEnds(t, q, i)
  PROVE  FoundUpTo(t, q, n) = FoundUpTo(t, q, a)
  <1>1. \A b \in 0 .. Len(t), o \in 0 .. Len(t) :
            IsRecord(t, q, o, b) => (b <= n <=> b <= a)
    BY DEF IsRecord
  <1> QED
    BY <1>1 DEF FoundUpTo

LEMMA RecordEnded ==
  ASSUME NEW t, NEW q, Len(t) \in Nat, NEW p \in Nat, NEW a, Begun(t, q, a, p),
         NEW n \in p+1 .. Len(t), RecordEnds(t, q, n),
         \A i \in p+1 .. n-1 : ~RecordEnds(t, q, i)
  PROVE  FoundUpTo(t, q, n) = FoundUpTo(t, q, a) \cup {id \in Id : Grants(t, q, a, n, id)}
  <1>0. a \in Nat /\ a <= p /\ p < n /\ n <= Len(t) /\ n \in Nat
    BY DEF Begun
  <1>1. IsRecord(t, q, a, n)
    <2>1. \A i \in a+1 .. n-1 : i \in a+1 .. p \/ i \in p+1 .. n-1
      BY <1>0
    <2> QED
      BY <1>0, <2>1 DEF Begun, IsRecord
  <1>2. ASSUME NEW o \in 0 .. Len(t), NEW b \in 0 .. Len(t), IsRecord(t, q, o, b), b <= n
        PROVE  b <= a \/ (o = a /\ b = n)
    <2>1. b > a => b = n
      BY <1>0, <1>1, <1>2 DEF IsRecord
    <2>2. b = n => o = a
      BY <1>0, <1>1, <1>2 DEF IsRecord
    <2> QED
      BY <1>0, <2>1, <2>2
  <1>3. \A b \in 0 .. Len(t) : b <= a => b <= n
    BY <1>0
  <1>4. a \in 0 .. Len(t) /\ n \in 0 .. Len(t) /\ n <= n
    BY <1>0
  <1> QED
    BY <1>1, <1>2, <1>3, <1>4 DEF FoundUpTo

LEMMA NextIsUnique ==
  ASSUME NEW t, NEW q, NEW lo \in Nat, NEW c \in Nat, NEW d \in Nat,
         NextSeparator(t, q, lo, c), NextSeparator(t, q, lo, d)
  PROVE  c = d
  BY DEF NextSeparator

(* The fields fs were read between the first separators after a. *)
Cuts(t, q, a, fs, cuts) ==
    /\ cuts \in Seq(0 .. Len(t))
    /\ Len(cuts) = Len(fs) + 1
    /\ cuts[1] = a
    /\ \A k \in 1 .. Len(cuts) : cuts[k] <= cuts[Len(cuts)]
    /\ \A k \in 1 .. Len(fs) :
          /\ NextSeparator(t, q, cuts[k], cuts[k + 1])
          /\ Same(t, q, fs[k], cuts[k], cuts[k + 1])

LEMMA CutsAppend ==
  ASSUME NEW t \in Seq(Token), NEW q, NEW a, NEW fs \in Seq(Seq(Token)), NEW cuts,
         Cuts(t, q, a, fs, cuts), NEW f \in Seq(Token), NEW e \in 0 .. Len(t),
         NextSeparator(t, q, cuts[Len(cuts)], e), Same(t, q, f, cuts[Len(cuts)], e)
  PROVE  Cuts(t, q, a, Append(fs, f), Append(cuts, e))
  <1> DEFINE fs2 == Append(fs, f)
             cuts2 == Append(cuts, e)
             m == Len(fs)
  <1>0. /\ m \in Nat /\ Len(cuts) = m + 1 /\ Len(t) \in Nat
        /\ cuts \in Seq(0 .. Len(t)) /\ cuts[m + 1] \in 0 .. Len(t)
    BY DEF Cuts
  <1>1. /\ cuts2 \in Seq(0 .. Len(t)) /\ Len(cuts2) = m + 2 /\ cuts2[m + 2] = e
        /\ \A k \in 1 .. m+1 : cuts2[k] = cuts[k] /\ cuts[k] \in 0 .. Len(t)
    <2> HIDE DEF m
    <2>1. cuts2 \in Seq(0 .. Len(t)) /\ Len(cuts2) = m + 2
      BY <1>0
    <2>2. cuts2[m + 2] = e
      BY <1>0
    <2>3. \A k \in 1 .. m+1 : cuts2[k] = cuts[k] /\ cuts[k] \in 0 .. Len(t)
      BY <1>0
    <2> QED
      BY <2>1, <2>2, <2>3
  <1>2. /\ Len(fs2) = m + 1 /\ fs2[m + 1] = f
        /\ \A k \in 1 .. m : fs2[k] = fs[k]
    BY <1>0
  <1>3. cuts[m + 1] < e
    BY <1>0 DEF NextSeparator
  <1>4. \A k \in 1 .. m+1 : cuts[k] <= cuts[m + 1]
    BY <1>0 DEF Cuts
  <1>5. cuts2[1] = a
    BY <1>0, <1>1 DEF Cuts
  <1> HIDE DEF fs2, cuts2, m
  <1>6. \A k \in 1 .. m+2 : cuts2[k] <= cuts2[m + 2]
    <2>1. \A k \in 1 .. m+1 : cuts[k] <= e
      <3>1. cuts[m + 1] \in Nat /\ e \in Nat /\ \A k \in 1 .. m+1 : cuts[k] \in Nat
        BY <1>0, <1>1
      <3> QED
        BY <1>3, <1>4, <3>1
    <2>2. \A k \in 1 .. m+2 : k \in 1 .. m+1 \/ k = m + 2
      BY <1>0
    <2>3. e <= e
      BY <1>0
    <2> QED
      BY <1>1, <2>1, <2>2, <2>3
  <1>7. ASSUME NEW k \in 1 .. m+1
        PROVE  /\ NextSeparator(t, q, cuts2[k], cuts2[k + 1])
               /\ Same(t, q, fs2[k], cuts2[k], cuts2[k + 1])
    <2>1. CASE k = m + 1
      <3>1. cuts2[k] = cuts[Len(cuts)] /\ cuts2[k + 1] = e /\ fs2[k] = f
        BY <1>0, <1>1, <1>2, <2>1
      <3> QED
        BY <3>1
    <2>2. CASE k # m + 1
      <3>1. k \in 1 .. m
        BY <1>0, <2>2
      <3>2. cuts2[k] = cuts[k] /\ cuts2[k + 1] = cuts[k + 1] /\ fs2[k] = fs[k]
        <4>1. k \in 1 .. m+1 /\ k + 1 \in 1 .. m+1
          BY <1>0, <3>1
        <4> QED
          BY <1>1, <1>2, <3>1, <4>1
      <3> QED
        BY <3>1, <3>2 DEF Cuts, m
    <2> QED
      BY <2>1, <2>2
  <1>8. Cuts(t, q, a, fs2, cuts2)
    BY <1>0, <1>1, <1>2, <1>5, <1>6, <1>7 DEF Cuts
  <1> QED
    BY <1>8 DEF fs2, cuts2

(* What the loop takes from the fields of a record that ends at b, f the    *)
(* last of them, is what the text from a to b grants.                      *)
LEMMA GrantsAtEnd ==
  ASSUME NEW t \in Seq(Token), NEW q, NEW a, NEW fs \in Seq(Seq(Token)), NEW cuts,
         Cuts(t, q, a, fs, cuts), NEW f \in Seq(Token), NEW b \in 0 .. Len(t),
         cuts[Len(cuts)] < b, q[b - 1] # "wrong",
         \A j \in cuts[Len(cuts)]+1 .. b-1 : ~Separates(t, q, j)
  PROVE  Granted(Append(fs, f)) = {id \in Id : Grants(t, q, a, b, id)}
  <1> DEFINE fs2 == Append(fs, f)
             m == Len(fs)
  <1>0. /\ m \in Nat /\ Len(cuts) = m + 1 /\ Len(t) \in Nat
        /\ b \in Nat
        /\ \A k \in 1 .. m+1 : cuts[k] \in Nat /\ cuts[k] <= cuts[m + 1]
        /\ cuts[1] = a /\ a \in Nat
        /\ cuts[m + 1] < b
    <2>1. m \in Nat /\ Len(cuts) = m + 1 /\ Len(t) \in Nat /\ cuts \in Seq(0 .. Len(t))
      BY DEF Cuts
    <2>2. \A k \in 1 .. m+1 : cuts[k] \in 0 .. Len(t)
      BY <2>1
    <2> QED
      BY <2>1, <2>2 DEF Cuts
  <1>1. /\ Len(fs2) = m + 1
        /\ m >= 2 => fs2[1] = fs[1] /\ fs2[2] = fs[2]
    OBVIOUS
  <1>2. /\ m >= 1 => NextSeparator(t, q, a, cuts[2]) /\ Same(t, q, fs[1], a, cuts[2])
        /\ m >= 2 => NextSeparator(t, q, cuts[2], cuts[3]) /\ Same(t, q, fs[2], cuts[2], cuts[3])
    <2>1. \A k \in 1 .. m : /\ NextSeparator(t, q, cuts[k], cuts[k + 1])
                            /\ Same(t, q, fs[k], cuts[k], cuts[k + 1])
      BY DEF Cuts
    <2> HIDE DEF m
    <2>2. m >= 1 => 1 \in 1 .. m /\ 1 + 1 = 2
      BY <1>0
    <2>3. m >= 2 => 2 \in 1 .. m /\ 2 + 1 = 3
      BY <1>0
    <2>4. m >= 1 => NextSeparator(t, q, cuts[1], cuts[2]) /\ Same(t, q, fs[1], cuts[1], cuts[2])
      BY <2>1, <2>2
    <2>5. m >= 2 => NextSeparator(t, q, cuts[2], cuts[3]) /\ Same(t, q, fs[2], cuts[2], cuts[3])
      BY <2>1, <2>3
    <2> QED
      BY <1>0, <2>4, <2>5
  <1>3. \A id \in Id : id \in Word
    BY Tokens
  <1> HIDE DEF fs2, m
  <1>4. ASSUME NEW id \in Id, m >= 2, Is(fs[1], "g"), Is(fs[2], id)
        PROVE  Grants(t, q, a, b, id)
    <2>1. OneWord(t, q, a, cuts[2], "g") /\ OneWord(t, q, cuts[2], cuts[3], id)
      BY <1>0, <1>2, <1>3, <1>4, Tokens DEF Same
    <2>2. /\ cuts[2] \in Nat /\ cuts[3] \in Nat /\ a < cuts[2] /\ cuts[2] < cuts[3]
          /\ cuts[3] <= cuts[m + 1]
      BY <1>0, <1>2, <1>4 DEF NextSeparator
    <2>3. cuts[2] \in a+1 .. b-1 /\ cuts[3] \in a+1 .. b-1
      BY <1>0, <2>2
    <2>4. PICK c, d : c = cuts[2] /\ d = cuts[3]
      OBVIOUS
    <2>5. /\ c \in a+1 .. b-1 /\ d \in a+1 .. b-1
          /\ NextSeparator(t, q, a, c) /\ OneWord(t, q, a, c, "g")
          /\ NextSeparator(t, q, c, d) /\ OneWord(t, q, c, d, id)
      BY <1>0, <1>2, <1>4, <2>1, <2>3, <2>4
    <2> QED
      BY <2>5 DEF Grants
  <1>5. ASSUME NEW id \in Id, Grants(t, q, a, b, id)
        PROVE  m >= 2 /\ Is(fs[1], "g") /\ Is(fs[2], id)
    <2>1. PICK c \in a+1 .. b-1, d \in a+1 .. b-1 :
              /\ NextSeparator(t, q, a, c) /\ OneWord(t, q, a, c, "g")
              /\ NextSeparator(t, q, c, d) /\ OneWord(t, q, c, d, id)
      BY <1>5 DEF Grants
    <2>2. c \in Nat /\ d \in Nat /\ c < b /\ d < b
      BY <1>0, <2>1
    <2>3. m # 0
      BY <1>0, <2>1, <2>2 DEF NextSeparator
    <2>4. NextSeparator(t, q, a, cuts[2]) /\ Same(t, q, fs[1], a, cuts[2]) /\ cuts[2] \in Nat
      BY <1>0, <1>2, <2>3
    <2>5. c = cuts[2]
      BY <1>0, <2>1, <2>2, <2>4, NextIsUnique
    <2>6. m # 1
      BY <1>0, <2>1, <2>2, <2>5 DEF NextSeparator
    <2>7. m >= 2 /\ cuts[3] \in Nat
      BY <1>0, <2>3, <2>6
    <2>8. d = cuts[3]
      BY <1>2, <2>1, <2>2, <2>5, <2>7, NextIsUnique
    <2> QED
      BY <1>0, <1>2, <1>3, <2>1, <2>5, <2>7, <2>8, Tokens DEF Same
  <1>6. \A id \in Id : Len(fs2) >= 3 /\ Is(fs2[1], "g") /\ Is(fs2[2], id)
            <=> Grants(t, q, a, b, id)
    BY <1>0, <1>1, <1>4, <1>5
  <1> QED
    BY <1>6 DEF Granted, fs2

-----------------------------------------------------------------------------
(* The invariant.                                                          *)

(* Before a record, and at the end, what the records up to here grant is    *)
(* found; only a record that the end of the text cut short may be open.    *)
BetweenRecords ==
    /\ fields = << >> /\ text = << >>
    /\ pos = Len(policy) \/ RecordEnds(policy, Scan(policy), pos)
    /\ found = FoundUpTo(policy, Scan(policy), pos)

(* In a record begun after a, the fields are those between its separators, *)
(* and the quoted field is what counts since the last of these.            *)
InRecord(a, cuts) ==
    LET q == Scan(policy)
        last == cuts[Len(cuts)]
    IN  /\ Begun(policy, q, a, pos)
        /\ found = FoundUpTo(policy, q, a)
        /\ Cuts(policy, q, a, fields, cuts)
        /\ mode = "field" => pos = last /\ q[pos] = "start" /\ text = << >>
        /\ mode = "quoted" => /\ last <= pos /\ q[pos] = "quoted"
                              /\ \A j \in last+1 .. pos : ~Separates(policy, q, j)
                              /\ Same(policy, q, text, last, pos + 1)

IInv ==
    /\ TypeOK
    /\ policy \in Policies
    /\ mode \in {"record", "done"} => BetweenRecords
    /\ mode = "done" => pos = Len(policy)
    /\ mode \in {"field", "quoted"} => \E a, cuts : InRecord(a, cuts)

LEMMA InvInit == Init => IInv
  <1> SUFFICES ASSUME Init PROVE IInv
    OBVIOUS
  <1>1. policy \in Seq(Token)
    BY PolicyAssumption DEF Init
  <1>2. Scanned(policy, Scan(policy))
    BY <1>1, ScanIsScanned
  <1>3. Len(policy) \in Nat /\ pos \in 0 .. Len(policy)
    BY <1>1 DEF Init
  <1>4. TypeOK
    BY <1>1, <1>3 DEF Init, TypeOK
  <1>5. RecordEnds(policy, Scan(policy), pos)
    BY <1>2 DEF Init, RecordEnds, Ends, Scanned
  <1>6. found = FoundUpTo(policy, Scan(policy), pos)
    BY DEF Init, FoundUpTo, IsRecord
  <1> QED
    BY <1>4, <1>5, <1>6 DEF Init, IInv, BetweenRecords

LEMMA InvFacts ==
  ASSUME IInv
  PROVE  /\ policy \in Seq(Token) /\ Len(policy) \in Nat
         /\ pos \in Nat /\ pos <= Len(policy)
         /\ Scanned(policy, Scan(policy))
         /\ \A j \in 1 .. Len(policy) : policy[j] \in Token
         /\ policy # << >> => policy[Len(policy)] = "newline"
         /\ fields \in Seq(Seq(Token)) /\ text \in Seq(Token) /\ found \in SUBSET Id
  <1>1. policy \in Seq(Token) /\ pos \in 0 .. Len(policy)
    BY DEF IInv, TypeOK
  <1>2. Len(policy) \in Nat /\ \A j \in 1 .. Len(policy) : policy[j] \in Token
    BY <1>1
  <1>3. policy # << >> => policy[Len(policy)] = "newline"
    BY PolicyAssumption DEF IInv
  <1>4. Scanned(policy, Scan(policy))
    BY <1>1, ScanIsScanned
  <1> QED
    BY <1>1, <1>2, <1>3, <1>4 DEF IInv, TypeOK

(* In the next lemmas t and q are the text and its scan. *)
LEMMA BackToRecords ==
  ASSUME IInv, NEW t, NEW q, t = policy, q = Scan(policy), policy' = policy,
         mode' = "record", fields' = << >>, text' = << >>, pos' \in 0 .. Len(t),
         pos' = Len(t) \/ RecordEnds(t, q, pos'), found' = FoundUpTo(t, q, pos')
  PROVE  IInv'
  <1>1. found' \in SUBSET Id
    BY DEF FoundUpTo
  <1>2. TypeOK'
    BY <1>1 DEF IInv, TypeOK
  <1>3. BetweenRecords'
    BY DEF BetweenRecords
  <1> QED
    BY <1>2, <1>3 DEF IInv

LEMMA StaysInRecord ==
  ASSUME IInv, NEW t, NEW q, t = policy, q = Scan(policy), policy' = policy,
         NEW a, NEW cuts, Begun(t, q, a, pos'), found' = FoundUpTo(t, q, a),
         Cuts(t, q, a, fields', cuts),
         pos' \in 0 .. Len(t), fields' \in Seq(Seq(Token)), text' \in Seq(Token),
         \/ /\ mode' = "field"
            /\ pos' = cuts[Len(cuts)] /\ q[pos'] = "start" /\ text' = << >>
         \/ /\ mode' = "quoted"
            /\ cuts[Len(cuts)] <= pos' /\ q[pos'] = "quoted"
            /\ \A j \in cuts[Len(cuts)]+1 .. pos' : ~Separates(t, q, j)
            /\ Same(t, q, text', cuts[Len(cuts)], pos' + 1)
  PROVE  IInv'
  <1>1. found' \in SUBSET Id
    BY DEF FoundUpTo
  <1>2. TypeOK'
    BY <1>1 DEF IInv, TypeOK
  <1>3. InRecord(a, cuts)'
    BY DEF InRecord
  <1>4. mode' \notin {"record", "done"}
    OBVIOUS
  <1> QED
    BY <1>2, <1>3, <1>4 DEF IInv

(* The record is read up to the end of the line at n. *)
LEMMA RecordIsRead ==
  ASSUME IInv, NEW t, NEW q, t = policy, q = Scan(policy), policy' = policy,
         NEW a, NEW cuts, InRecord(a, cuts), mode \in {"field", "quoted"},
         NEW f \in Seq(Token), NEW n \in pos+1 .. Len(t),
         t[n] = "newline", q[n] = "start", q[n - 1] # "wrong",
         \A j \in pos+1 .. n-1 : ~RecordEnds(t, q, j) /\ ~Separates(t, q, j),
         EndRecord(Append(fields, f), n), Same(t, q, f, cuts[Len(cuts)], n)
  PROVE  IInv'
  <1> DEFINE last == cuts[Len(cuts)]
  <1>1. /\ t \in Seq(Token) /\ Len(t) \in Nat /\ pos \in Nat /\ pos <= Len(t)
        /\ fields \in Seq(Seq(Token))
    BY InvFacts
  <1>2. n \in 0 .. Len(t) /\ n \in Nat /\ pos < n
    BY <1>1
  <1>3. RecordEnds(t, q, n)
    BY DEF RecordEnds, Ends
  <1>4. Cuts(t, q, a, fields, cuts) /\ Begun(t, q, a, pos) /\ found = FoundUpTo(t, q, a)
    BY DEF InRecord
  <1>5. last < n /\ \A j \in last+1 .. n-1 : ~Separates(t, q, j)
    <2>1. last \in Nat
      BY <1>1, <1>4 DEF Cuts
    <2>2. CASE mode = "field"
      <3>1. last = pos
        BY <2>2 DEF InRecord
      <3> QED
        BY <1>2, <3>1
    <2>3. CASE mode = "quoted"
      <3>1. last <= pos /\ \A j \in last+1 .. pos : ~Separates(t, q, j)
        BY <2>3 DEF InRecord
      <3>2. \A j \in last+1 .. n-1 : j \in last+1 .. pos \/ j \in pos+1 .. n-1
        BY <1>1, <2>1
      <3> QED
        BY <1>1, <1>2, <2>1, <3>1, <3>2
    <2> QED
      BY <2>2, <2>3
  <1>6. Granted(Append(fields, f)) = {id \in Id : Grants(t, q, a, n, id)}
    BY <1>1, <1>2, <1>4, <1>5, GrantsAtEnd
  <1>7. FoundUpTo(t, q, n) = FoundUpTo(t, q, a) \cup {id \in Id : Grants(t, q, a, n, id)}
    BY <1>1, <1>3, <1>4, RecordEnded
  <1>8. /\ mode' = "record" /\ pos' = n /\ fields' = << >> /\ text' = << >>
        /\ found' = found \cup Granted(Append(fields, f))
    BY DEF EndRecord
  <1>9. found' = FoundUpTo(t, q, n)
    BY <1>4, <1>6, <1>7, <1>8
  <1> QED
    BY <1>2, <1>3, <1>8, <1>9, BackToRecords

(* The scan has gone wrong when the reader gives the line up. *)
LEMMA RecordIsAbandoned ==
  ASSUME IInv, NEW t, NEW q, t = policy, q = Scan(policy), policy' = policy,
         NEW a, NEW cuts, InRecord(a, cuts),
         NEW p \in Nat, NEW w \in p .. p+1, pos <= p, w <= Len(t), q[w] = "wrong",
         \A j \in p+1 .. w : t[j] # "newline",
         \A j \in pos+1 .. p : ~RecordEnds(t, q, j),
         Abandon(p)
  PROVE  IInv'
  <1>1. /\ t \in Seq(Token) /\ Len(t) \in Nat /\ pos \in Nat /\ Scanned(t, q)
    BY InvFacts
  <1>2. PICK n \in 1 .. Len(t) : FirstAfter(p, n, {"newline"}) /\ pos' = n
    BY DEF Abandon, Position
  <1>3. /\ n > p /\ t[n] = "newline" /\ \A j \in p+1 .. n-1 : t[j] # "newline"
    BY <1>2 DEF FirstAfter
  <1>4. w < n /\ w \in 0 .. Len(t) /\ n - 1 \in 0 .. Len(t) /\ n \in 0 .. Len(t)
    <2>1. w # n
      BY <1>3
    <2> QED
      BY <1>1, <1>2, <1>3, <2>1
  <1>5. q[n - 1] = "wrong"
    <2>1. \A j \in w+1 .. n-1 : t[j] # "newline"
      BY <1>3
    <2>2. \A j \in w .. n-1 : q[j] = "wrong"
      BY <1>1, <1>4, <2>1, WrongStays
    <2> QED
      BY <1>4, <2>2
  <1>6. q[n] = "start"
    <2>1. q[n] = Step(q[n - 1], t[n])
      BY <1>1, <1>2 DEF Scanned
    <2> QED
      BY <1>3, <1>5, <2>1 DEF Step
  <1>7. RecordEnds(t, q, n)
    BY <1>3, <1>6 DEF RecordEnds, Ends
  <1>8. \A j \in pos+1 .. n-1 : ~RecordEnds(t, q, j)
    <2>1. \A j \in p+1 .. n-1 : ~RecordEnds(t, q, j)
      BY <1>1, <1>3 DEF RecordEnds, Ends
    <2>2. \A j \in pos+1 .. n-1 : j \in pos+1 .. p \/ j \in p+1 .. n-1
      BY <1>1
    <2> QED
      BY <2>1, <2>2
  <1>9. FoundUpTo(t, q, n) = FoundUpTo(t, q, a) \cup {id \in Id : Grants(t, q, a, n, id)}
    <2>1. Begun(t, q, a, pos) /\ n \in pos+1 .. Len(t)
      BY <1>1, <1>2, <1>3 DEF InRecord
    <2> QED
      BY <1>1, <1>7, <1>8, <2>1, RecordEnded
  <1>10. \A id : ~Grants(t, q, a, n, id)
    BY <1>5 DEF Grants
  <1>11. found = FoundUpTo(t, q, a)
    BY DEF InRecord
  <1>12. /\ mode' = "record" /\ fields' = << >> /\ text' = << >> /\ found' = found
    BY DEF Abandon
  <1>13. found' = FoundUpTo(t, q, n)
    BY <1>9, <1>10, <1>11, <1>12
  <1> QED
    BY <1>2, <1>4, <1>7, <1>12, <1>13, BackToRecords

(* A comma at e ends the field. *)
LEMMA FieldIsRead ==
  ASSUME IInv, NEW t, NEW q, t = policy, q = Scan(policy), policy' = policy,
         NEW a, NEW cuts, InRecord(a, cuts), mode \in {"field", "quoted"},
         NEW f \in Seq(Token), NEW e \in pos+1 .. Len(t),
         t[e] = "comma", q[e] = "start",
         \A j \in pos+1 .. e-1 : ~RecordEnds(t, q, j) /\ ~Separates(t, q, j),
         Same(t, q, f, cuts[Len(cuts)], e),
         fields' = Append(fields, f), pos' = e, mode' = "field", text' = << >>,
         found' = found
  PROVE  IInv'
  <1> DEFINE last == cuts[Len(cuts)]
             cuts2 == Append(cuts, e)
  <1>1. /\ t \in Seq(Token) /\ Len(t) \in Nat /\ pos \in Nat /\ pos <= Len(t)
        /\ fields \in Seq(Seq(Token))
    BY InvFacts
  <1>2. e \in 0 .. Len(t) /\ e \in Nat /\ pos < e
    BY <1>1
  <1>3. Cuts(t, q, a, fields, cuts) /\ Begun(t, q, a, pos) /\ found = FoundUpTo(t, q, a)
    BY DEF InRecord
  <1>4. NextSeparator(t, q, last, e)
    <2>1. last \in Nat
      BY <1>1, <1>3 DEF Cuts
    <2>2. Separates(t, q, e)
      BY DEF Separates
    <2>3. CASE mode = "field"
      <3>1. last = pos
        BY <2>3 DEF InRecord
      <3> QED
        BY <1>2, <2>2, <3>1 DEF NextSeparator
    <2>4. CASE mode = "quoted"
      <3>1. last <= pos /\ \A j \in last+1 .. pos : ~Separates(t, q, j)
        BY <2>4 DEF InRecord
      <3>2. \A j \in last+1 .. e-1 : j \in last+1 .. pos \/ j \in pos+1 .. e-1
        BY <1>1, <2>1
      <3>3. last < e
        BY <1>1, <1>2, <2>1, <3>1
      <3> QED
        BY <2>2, <3>1, <3>2, <3>3 DEF NextSeparator
    <2> QED
      BY <2>3, <2>4
  <1>5. Cuts(t, q, a, Append(fields, f), cuts2)
    BY <1>1, <1>2, <1>3, <1>4, CutsAppend
  <1>6. cuts2[Len(cuts2)] = e
    BY <1>2, <1>3 DEF Cuts
  <1>7. Begun(t, q, a, e)
    <2>1. e # 0 /\ t[e] # "newline"
      BY <1>1, <1>2
    <2>2. ~RecordEnds(t, q, e)
      BY <2>1 DEF RecordEnds, Ends
    <2>3. a \in Nat /\ a <= pos
      BY <1>1, <1>3 DEF Begun
    <2>4. \A j \in a+1 .. e : j \in a+1 .. pos \/ j \in pos+1 .. e-1 \/ j = e
      BY <1>1, <1>2, <2>3
    <2>5. \A j \in a+1 .. e : ~RecordEnds(t, q, j)
      BY <1>3, <2>2, <2>4 DEF Begun
    <2>6. a \in 0 .. e
      BY <1>1, <1>2, <2>3
    <2> QED
      BY <1>3, <2>5, <2>6 DEF Begun
  <1>8. fields' \in Seq(Seq(Token)) /\ text' \in Seq(Token)
    BY <1>1
  <1> HIDE DEF cuts2
  <1> QED
    BY <1>2, <1>3, <1>5, <1>6, <1>7, <1>8, StaysInRecord

-----------------------------------------------------------------------------
(* Every step keeps it.                                                    *)

LEMMA SkipEmptyLineInv == IInv /\ SkipEmptyLine => IInv'
  <1> SUFFICES ASSUME IInv, SkipEmptyLine PROVE IInv'
    OBVIOUS
  <1>1. PICK t, q : t = policy /\ q = Scan(policy)
    OBVIOUS
  <1>2. /\ t \in Seq(Token) /\ Len(t) \in Nat /\ pos \in Nat /\ Scanned(t, q)
    BY <1>1, InvFacts
  <1>3. /\ mode = "record" /\ pos < Len(t) /\ t[pos + 1] = "newline"
        /\ pos' = pos + 1 /\ policy' = policy /\ mode' = mode
        /\ fields' = fields /\ text' = text /\ found' = found
    BY <1>1 DEF SkipEmptyLine
  <1>4. /\ fields = << >> /\ text = << >> /\ RecordEnds(t, q, pos)
        /\ found = FoundUpTo(t, q, pos)
    BY <1>1, <1>2, <1>3 DEF IInv, BetweenRecords
  <1>5. pos + 1 \in pos+1 .. Len(t) /\ pos + 1 \in 0 .. Len(t)
    BY <1>2, <1>3
  <1>6. RecordEnds(t, q, pos + 1)
    <2>1. q[pos + 1] = Step(q[pos], t[pos + 1]) /\ q[pos] = "start"
      BY <1>2, <1>4, <1>5 DEF Scanned, RecordEnds
    <2> QED
      BY <1>3, <2>1 DEF Step, RecordEnds, Ends
  <1>7. FoundUpTo(t, q, pos + 1)
            = FoundUpTo(t, q, pos) \cup {id \in Id : Grants(t, q, pos, pos + 1, id)}
    <2>1. PICK p, n : p = pos /\ n = pos + 1
      OBVIOUS
    <2>2. Begun(t, q, p, p)
      BY <1>2, <1>4, <2>1 DEF Begun
    <2>3. p \in Nat /\ n \in p+1 .. Len(t) /\ RecordEnds(t, q, n)
      BY <1>2, <1>5, <1>6, <2>1
    <2>4. \A i \in p+1 .. n-1 : ~RecordEnds(t, q, i)
      BY <1>2, <2>1
    <2>5. FoundUpTo(t, q, n) = FoundUpTo(t, q, p) \cup {id \in Id : Grants(t, q, p, n, id)}
      BY <1>2, <2>2, <2>3, <2>4, RecordEnded
    <2> QED
      BY <2>1, <2>5
  <1>8. \A id : ~Grants(t, q, pos, pos + 1, id)
    BY <1>2 DEF Grants
  <1>9. found' = FoundUpTo(t, q, pos')
    BY <1>3, <1>4, <1>7, <1>8
  <1> QED
    BY <1>1, <1>3, <1>4, <1>5, <1>6, <1>9, BackToRecords

LEMMA BeginRecordInv == IInv /\ BeginRecord => IInv'
  <1> SUFFICES ASSUME IInv, BeginRecord PROVE IInv'
    OBVIOUS
  <1>1. PICK t, q : t = policy /\ q = Scan(policy)
    OBVIOUS
  <1>2. /\ t \in Seq(Token) /\ Len(t) \in Nat /\ pos \in Nat
    BY <1>1, InvFacts
  <1>3. /\ mode = "record" /\ pos < Len(t) /\ mode' = "field"
        /\ pos' = pos /\ policy' = policy
        /\ fields' = fields /\ text' = text /\ found' = found
    BY <1>1 DEF BeginRecord
  <1>4. /\ fields = << >> /\ text = << >> /\ RecordEnds(t, q, pos)
        /\ found = FoundUpTo(t, q, pos)
    BY <1>1, <1>2, <1>3 DEF IInv, BetweenRecords
  <1>5. PICK a : a = pos
    OBVIOUS
  <1> DEFINE cuts == <<a>>
  <1>6. a \in 0 .. Len(t) /\ a \in Nat
    BY <1>2, <1>3, <1>5
  <1>7. Cuts(t, q, a, << >>, cuts) /\ cuts[Len(cuts)] = a
    BY <1>6 DEF Cuts
  <1>8. Begun(t, q, a, a) /\ q[a] = "start"
    BY <1>4, <1>5, <1>6 DEF Begun, RecordEnds
  <1>9. << >> \in Seq(Seq(Token)) /\ << >> \in Seq(Token)
    OBVIOUS
  <1> HIDE DEF cuts
  <1> QED
    BY <1>1, <1>3, <1>4, <1>5, <1>6, <1>7, <1>8, <1>9, StaysInRecord

LEMMA EndOfTextInv == IInv /\ EndOfText => IInv'
  BY DEF IInv, EndOfText, TypeOK, BetweenRecords

LEMMA FieldAtFacts ==
  ASSUME IInv, NEW i \in Position, FieldAt(i)
  PROVE  /\ i \in pos+1 .. Len(policy) /\ policy[i] # "blank"
         /\ \A j \in pos+1 .. i-1 : policy[j] = "blank"
  <1>1. /\ Len(policy) \in Nat /\ pos \in Nat
        /\ \A j \in 1 .. Len(policy) : policy[j] \in Token
    BY InvFacts
  <1>2. i > pos /\ i \in 1 .. Len(policy)
    BY DEF FieldAt, FirstAfter, Position
  <1>3. \A j \in pos+1 .. i-1 : j \in 1 .. Len(policy)
    BY <1>1, <1>2
  <1> QED
    BY <1>1, <1>2, <1>3 DEF FieldAt, FirstAfter

LEMMA PlainFieldInv == IInv /\ PlainField => IInv'
  <1> SUFFICES ASSUME IInv, PlainField PROVE IInv'
    OBVIOUS
  <1>1. PICK t, q : t = policy /\ q = Scan(policy)
    OBVIOUS
  <1>2. /\ t \in Seq(Token) /\ Len(t) \in Nat /\ pos \in Nat /\ pos <= Len(t)
        /\ Scanned(t, q) /\ pos \in 0 .. Len(t)
    BY <1>1, InvFacts
  <1>3. mode = "field" /\ policy' = policy
    BY DEF PlainField
  <1>4. PICK a, cuts : InRecord(a, cuts)
    BY <1>3 DEF IInv
  <1>5. q[pos] = "start" /\ pos = cuts[Len(cuts)] /\ text = << >>
    BY <1>1, <1>3, <1>4 DEF InRecord
  <1> DEFINE bare(i, e) == \E j \in i .. e-1 : policy[j] = "quote"
             field(i, e) == SubSeq(policy, i, e - 1)
  <1>6. PICK i \in Position, e \in Position :
            /\ FieldAt(i) /\ policy[i] # "quote"
            /\ FirstAfter(i - 1, e, {"comma", "newline"})
            /\ \/ bare(i, e) /\ Abandon(e - 1)
               \/ /\ ~bare(i, e) /\ policy[e] = "newline"
                  /\ EndRecord(Append(fields, field(i, e)), e)
               \/ /\ ~bare(i, e) /\ policy[e] = "comma"
                  /\ fields' = Append(fields, field(i, e))
                  /\ pos' = e
                  /\ UNCHANGED <<mode, text, found>>
    BY DEF PlainField
  <1>7. /\ i \in pos+1 .. Len(t) /\ t[i] \notin {"blank", "quote"}
        /\ \A j \in pos+1 .. i-1 : t[j] = "blank"
    BY <1>1, <1>6, FieldAtFacts
  <1>8. /\ e \in i .. Len(t) /\ t[e] \in {"comma", "newline"}
        /\ \A j \in i .. e-1 : t[j] \notin {"comma", "newline"}
    BY <1>1, <1>2, <1>6, <1>7 DEF FirstAfter, Position
  <1>9. e \in pos+1 .. Len(t) /\ i \in Nat /\ e \in Nat
    BY <1>2, <1>7, <1>8
  <1>10. \A j \in pos+1 .. e-1 : t[j] \notin {"comma", "newline"} /\ j # 0
    <2>1. \A j \in pos+1 .. e-1 : j \in pos+1 .. i-1 \/ j \in i .. e-1
      BY <1>2, <1>9
    <2>2. \A j \in pos+1 .. e-1 : j # 0
      BY <1>2
    <2> QED
      BY <1>7, <1>8, <2>1, <2>2
  <1>11. \A j \in pos+1 .. e-1 : ~RecordEnds(t, q, j) /\ ~Separates(t, q, j)
    BY <1>10 DEF RecordEnds, Ends, Separates
  <1> HIDE DEF bare, field
  <1>12. CASE bare(i, e) /\ Abandon(e - 1)
    <2>1. PICK k \in i .. e-1 : t[k] = "quote"
      BY <1>1, <1>12 DEF bare
    <2>2. PICK w : w = e - 1
      OBVIOUS
    <2>3. /\ w \in Nat /\ w \in i .. Len(t) /\ k \in i .. w /\ i \in 1 .. Len(t)
          /\ pos <= w /\ w <= Len(t) /\ w \in w .. w+1
      BY <1>2, <1>7, <1>9, <2>1, <2>2
    <2>4. q[i - 1] = "start"
      <3>1. PICK p, h : p = pos /\ h = i - 1
        OBVIOUS
      <3>2. /\ p \in 0 .. Len(t) /\ h \in 0 .. Len(t) /\ h \in p .. h /\ q[p] = "start"
            /\ \A j \in p+1 .. h : t[j] = "blank"
        BY <1>2, <1>5, <1>7, <1>9, <3>1
      <3>3. \A j \in p .. h : q[j] = "start"
        BY <1>2, <3>2, StartStays
      <3> QED
        BY <3>1, <3>2, <3>3
    <2>5. q[w] = "wrong"
      BY <1>2, <1>7, <1>8, <2>1, <2>2, <2>3, <2>4, BareIsWrong
    <2>6. /\ \A j \in w+1 .. w : t[j] # "newline"
          /\ \A j \in pos+1 .. w : ~RecordEnds(t, q, j)
      BY <1>11, <2>2, <2>3
    <2>7. Abandon(w)
      BY <1>12, <2>2
    <2> QED
      BY <1>1, <1>3, <1>4, <2>3, <2>5, <2>6, <2>7, RecordIsAbandoned
  <1>13. ASSUME ~bare(i, e)
         PROVE  /\ q[e] = "start" /\ q[e - 1] # "wrong"
                /\ field(i, e) \in Seq(Token)
                /\ Same(t, q, field(i, e), pos, e)
    <2>1. \A j \in i .. e-1 : t[j] \notin {"quote", "comma", "newline"}
      BY <1>1, <1>8, <1>13 DEF bare
    <2>2. PICK p : p = pos
      OBVIOUS
    <2>3. /\ p \in 0 .. Len(t) /\ q[p] = "start" /\ i \in p+1 .. Len(t)
          /\ \A j \in p+1 .. i-1 : t[j] = "blank"
      BY <1>2, <1>5, <1>7, <2>2
    <2>4. /\ q[e] = "start" /\ q[e - 1] # "wrong"
          /\ SubSeq(t, i, e - 1) \in Seq(Token)
          /\ Same(t, q, SubSeq(t, i, e - 1), p, e)
      BY <1>2, <1>8, <2>1, <2>3, PlainRead
    <2> QED
      BY <1>1, <2>2, <2>4 DEF field
  <1>14. CASE /\ ~bare(i, e) /\ policy[e] = "newline"
              /\ EndRecord(Append(fields, field(i, e)), e)
    BY <1>1, <1>3, <1>4, <1>5, <1>9, <1>11, <1>13, <1>14, RecordIsRead
  <1>15. CASE /\ ~bare(i, e) /\ policy[e] = "comma"
              /\ fields' = Append(fields, field(i, e))
              /\ pos' = e
              /\ UNCHANGED <<mode, text, found>>
    BY <1>1, <1>3, <1>4, <1>5, <1>9, <1>11, <1>13, <1>15, FieldIsRead
  <1> QED
    BY <1>6, <1>12, <1>14, <1>15

LEMMA OpenQuoteInv == IInv /\ OpenQuote => IInv'
  <1> SUFFICES ASSUME IInv, OpenQuote PROVE IInv'
    OBVIOUS
  <1>1. PICK t, q : t = policy /\ q = Scan(policy)
    OBVIOUS
  <1>2. /\ t \in Seq(Token) /\ Len(t) \in Nat /\ pos \in Nat /\ pos <= Len(t)
        /\ Scanned(t, q) /\ pos \in 0 .. Len(t) /\ fields \in Seq(Seq(Token))
    BY <1>1, InvFacts
  <1>3. /\ mode = "field" /\ mode' = "quoted" /\ policy' = policy
        /\ fields' = fields /\ text' = text /\ found' = found
    BY DEF OpenQuote
  <1>4. PICK a, cuts : InRecord(a, cuts)
    BY <1>3 DEF IInv
  <1>5. /\ q[pos] = "start" /\ pos = cuts[Len(cuts)] /\ text = << >>
        /\ Begun(t, q, a, pos) /\ found = FoundUpTo(t, q, a) /\ Cuts(t, q, a, fields, cuts)
    BY <1>1, <1>3, <1>4 DEF InRecord
  <1>6. PICK i \in Position : FieldAt(i) /\ policy[i] = "quote" /\ pos' = i
    BY DEF OpenQuote
  <1>7. /\ i \in pos+1 .. Len(t) /\ t[i] = "quote"
        /\ \A j \in pos+1 .. i-1 : t[j] = "blank"
    BY <1>1, <1>6, FieldAtFacts
  <1>8. i \in Nat /\ pos < i /\ i \in 0 .. Len(t) /\ i - 1 \in 0 .. Len(t)
    BY <1>2, <1>7
  <1>9. \A j \in pos+1 .. i : j # 0 /\ t[j] \notin Word \cup {"comma", "newline"}
    <2>1. \A j \in pos+1 .. i : j # 0 /\ (j \in pos+1 .. i-1 \/ j = i)
      BY <1>2, <1>8
    <2> QED
      BY <1>7, <2>1, Tokens
  <1>10. q[i - 1] = "start"
    <2>1. PICK p, h : p = pos /\ h = i - 1
      OBVIOUS
    <2>2. /\ p \in 0 .. Len(t) /\ h \in 0 .. Len(t) /\ h \in p .. h /\ q[p] = "start"
          /\ \A j \in p+1 .. h : t[j] = "blank"
      BY <1>2, <1>5, <1>7, <1>8, <2>1
    <2>3. \A j \in p .. h : q[j] = "start"
      BY <1>2, <2>2, StartStays
    <2> QED
      BY <2>1, <2>2, <2>3
  <1>11. q[i] = "quoted"
    <2>1. q[i] = Step("start", "quote")
      BY <1>2, <1>7, <1>8, <1>10 DEF Scanned
    <2> QED
      BY <2>1 DEF Step
  <1>12. Begun(t, q, a, i)
    <2>1. \A j \in pos+1 .. i : ~RecordEnds(t, q, j)
      BY <1>9 DEF RecordEnds, Ends
    <2>2. a \in Nat /\ a <= pos
      BY <1>2, <1>5 DEF Begun
    <2>3. \A j \in a+1 .. i : j \in a+1 .. pos \/ j \in pos+1 .. i
      BY <1>2, <1>8, <2>2
    <2>4. \A j \in a+1 .. i : ~RecordEnds(t, q, j)
      BY <1>5, <2>1, <2>3 DEF Begun
    <2>5. a \in 0 .. i
      BY <1>2, <1>8, <2>2
    <2> QED
      BY <1>5, <2>4, <2>5 DEF Begun
  <1>13. \A j \in pos+1 .. i : ~Separates(t, q, j)
    BY <1>9 DEF Separates
  <1>14. Same(t, q, << >>, pos, i + 1)
    <2>1. \A j \in pos+1 .. (i+1)-1 : j \in pos+1 .. i-1 \/ j = i
      BY <1>2, <1>8
    <2>2. AllIgnored(t, q, pos, i + 1)
      BY <1>7, <1>10, <2>1 DEF AllIgnored, Ignored, Space
    <2>3. \A j \in pos+1 .. (i+1)-1 : t[j] \notin Word
      BY <1>8, <1>9
    <2>4. pos \in Int /\ i + 1 \in Int
      BY <1>2, <1>8
    <2> QED
      BY <2>2, <2>3, <2>4, SameNothing
  <1>15. << >> \in Seq(Token) /\ pos <= i
    BY <1>2, <1>8
  <1> QED
    BY <1>1, <1>2, <1>3, <1>5, <1>6, <1>8, <1>11, <1>12, <1>13, <1>14, <1>15, StaysInRecord

LEMMA NextQuoteInv == IInv /\ NextQuote => IInv'
  <1> SUFFICES ASSUME IInv, NextQuote PROVE IInv'
    OBVIOUS
  <1>1. PICK t, q, p, f : t = policy /\ q = Scan(policy) /\ p = pos /\ f = text
    OBVIOUS
  <1>2. /\ t \in Seq(Token) /\ Len(t) \in Nat /\ p \in Nat /\ p <= Len(t)
        /\ Scanned(t, q) /\ p \in 0 .. Len(t) /\ f \in Seq(Token)
        /\ fields \in Seq(Seq(Token))
        /\ t # << >> => t[Len(t)] = "newline"
        /\ \A j \in 1 .. Len(t) : q[j] = Step(q[j - 1], t[j])
    BY <1>1, InvFacts DEF Scanned
  <1>3. mode = "quoted" /\ policy' = policy
    BY DEF NextQuote
  <1>4. PICK a, cuts : InRecord(a, cuts)
    BY <1>3 DEF IInv
  <1>5. PICK c : c = cuts[Len(cuts)]
    OBVIOUS
  <1>6. /\ q[p] = "quoted" /\ c <= p /\ Same(t, q, f, c, p + 1)
        /\ \A j \in c+1 .. p : ~Separates(t, q, j)
        /\ Begun(t, q, a, p) /\ found = FoundUpTo(t, q, a) /\ Cuts(t, q, a, fields, cuts)
    BY <1>1, <1>3, <1>4, <1>5 DEF InRecord
  <1>7. c \in Nat /\ c \in 0 .. p
    <2>1. c \in Nat
      BY <1>2, <1>5, <1>6 DEF Cuts
    <2> QED
      BY <1>2, <1>6, <2>1
  <1> DEFINE read(i) == f \o SubSeq(t, p + 1, i - 1)
             next(i) == t[i + 1]
  <1>8. PICK i \in Position :
            /\ FirstAfter(pos, i, {"quote"})
            /\ \/ /\ next(i) = "quote"
                  /\ text' = Append(read(i), "quote")
                  /\ pos' = i + 1
                  /\ UNCHANGED <<mode, fields, found>>
               \/ /\ next(i) = "newline"
                  /\ EndRecord(Append(fields, read(i)), i + 1)
               \/ /\ next(i) = "comma"
                  /\ fields' = Append(fields, read(i))
                  /\ text' = << >>
                  /\ pos' = i + 1
                  /\ mode' = "field"
                  /\ UNCHANGED found
               \/ /\ next(i) \notin {"quote", "newline", "comma"}
                  /\ Abandon(i)
    BY <1>1 DEF NextQuote
  <1>9. /\ i \in p+1 .. Len(t) /\ t[i] = "quote"
        /\ \A j \in p+1 .. i-1 : t[j] # "quote"
    BY <1>1, <1>2, <1>8 DEF FirstAfter, Position
  <1>10. /\ \A j \in p .. i-1 : q[j] = "quoted"
         /\ q[i] = "closing"
         /\ read(i) \in Seq(Token)
         /\ Same(t, q, read(i), c, i + 1)
         /\ i < Len(t) /\ t[i + 1] = "quote" => Same(t, q, Append(read(i), "quote"), c, i + 2)
    BY <1>2, <1>6, <1>7, <1>9, QuotedRead
  <1> HIDE DEF read
  <1>11. PICK e : e = i + 1
    OBVIOUS
  <1>12. i \in Nat /\ p < i /\ i < Len(t) /\ e \in p+1 .. Len(t) /\ e \in 0 .. Len(t) /\ e \in Nat
    <2>1. t # << >>
      BY <1>2, <1>9
    <2>2. t[i] # t[Len(t)]
      <3>1. t[Len(t)] = "newline"
        BY <1>2, <2>1
      <3> QED
        BY <1>9, <3>1
    <2>3. i # Len(t)
      BY <2>2
    <2> QED
      BY <1>2, <1>9, <1>11, <2>3
  <1>13. q[e] = Step("closing", t[e]) /\ q[e - 1] = "closing"
    <2>1. e \in 1 .. Len(t) /\ e - 1 = i
      BY <1>11, <1>12
    <2> QED
      BY <1>2, <1>10, <2>1
  <1>14. \A j \in p+1 .. e-1 : ~RecordEnds(t, q, j) /\ ~Separates(t, q, j)
    <2>1. \A j \in p+1 .. e-1 : j \in p .. i-1 \/ j = i
      BY <1>2, <1>11, <1>12
    <2>2. \A j \in p+1 .. e-1 : q[j] # "start"
      BY <1>10, <2>1
    <2> QED
      BY <2>2 DEF RecordEnds, Separates
  <1>15. CASE /\ next(i) = "quote"
              /\ text' = Append(read(i), "quote")
              /\ pos' = i + 1
              /\ UNCHANGED <<mode, fields, found>>
    <2>1. q[e] = "quoted" /\ t[e] = "quote"
      BY <1>11, <1>13, <1>15 DEF Step
    <2>2. Same(t, q, text', c, e + 1) /\ text' \in Seq(Token)
      <3>1. e + 1 = i + 2
        BY <1>11, <1>12
      <3>2. "quote" \in Token
        BY DEF Token
      <3> QED
        BY <1>10, <1>12, <1>15, <3>1, <3>2
    <2>3. \A j \in p+1 .. e : ~RecordEnds(t, q, j) /\ ~Separates(t, q, j)
      <3>1. \A j \in p+1 .. e : j \in p+1 .. e-1 \/ j = e
        BY <1>2, <1>12
      <3>2. ~RecordEnds(t, q, e) /\ ~Separates(t, q, e)
        BY <2>1 DEF RecordEnds, Separates
      <3> QED
        BY <1>14, <3>1, <3>2
    <2>4. \A j \in c+1 .. e : ~Separates(t, q, j)
      <3>1. \A j \in c+1 .. e : j \in c+1 .. p \/ j \in p+1 .. e
        BY <1>2, <1>7, <1>12
      <3> QED
        BY <1>6, <2>3, <3>1
    <2>5. Begun(t, q, a, e)
      <3>1. a \in Nat /\ a <= p
        BY <1>2, <1>6 DEF Begun
      <3>2. \A j \in a+1 .. e : j \in a+1 .. p \/ j \in p+1 .. e
        BY <1>2, <1>12, <3>1
      <3>3. \A j \in a+1 .. e : ~RecordEnds(t, q, j)
        BY <1>6, <2>3, <3>2 DEF Begun
      <3>4. a \in 0 .. e
        BY <1>2, <1>12, <3>1
      <3> QED
        BY <1>6, <3>3, <3>4 DEF Begun
    <2>6. c <= e
      BY <1>2, <1>6, <1>7, <1>12
    <2>7. /\ pos' = e /\ mode' = "quoted" /\ fields' = fields /\ found' = found
      BY <1>3, <1>11, <1>15
    <2>8. /\ cuts[Len(cuts)] <= pos' /\ q[pos'] = "quoted"
          /\ \A j \in cuts[Len(cuts)]+1 .. pos' : ~Separates(t, q, j)
          /\ Same(t, q, text', cuts[Len(cuts)], pos' + 1)
      BY <1>5, <2>1, <2>2, <2>4, <2>6, <2>7
    <2>9. /\ Begun(t, q, a, pos') /\ found' = FoundUpTo(t, q, a)
          /\ Cuts(t, q, a, fields', cuts) /\ pos' \in 0 .. Len(t)
          /\ fields' \in Seq(Seq(Token))
      <3>1. fields' = fields /\ fields \in Seq(Seq(Token))
        BY <1>2, <2>7
      <3>2. Cuts(t, q, a, fields', cuts)
        BY <1>6, <3>1
      <3> QED
        BY <1>6, <1>12, <2>5, <2>7, <3>1, <3>2
    <2> QED
      BY <1>1, <1>3, <2>2, <2>7, <2>8, <2>9, StaysInRecord
  <1>16. CASE next(i) = "newline" /\ EndRecord(Append(fields, read(i)), i + 1)
    <2>1. q[e] = "start" /\ t[e] = "newline" /\ q[e - 1] # "wrong"
      BY <1>11, <1>13, <1>16 DEF Step
    <2>2. EndRecord(Append(fields, read(i)), e) /\ Same(t, q, read(i), cuts[Len(cuts)], e)
      BY <1>5, <1>10, <1>11, <1>16
    <2> QED
      BY <1>1, <1>3, <1>4, <1>10, <1>12, <1>14, <2>1, <2>2, RecordIsRead
  <1>17. CASE /\ next(i) = "comma"
              /\ fields' = Append(fields, read(i))
              /\ text' = << >>
              /\ pos' = i + 1
              /\ mode' = "field"
              /\ UNCHANGED found
    <2>1. q[e] = "start" /\ t[e] = "comma"
      BY <1>11, <1>13, <1>17 DEF Step
    <2>2. pos' = e /\ Same(t, q, read(i), cuts[Len(cuts)], e)
      BY <1>5, <1>10, <1>11, <1>17
    <2> QED
      BY <1>1, <1>3, <1>4, <1>10, <1>12, <1>14, <1>17, <2>1, <2>2, FieldIsRead
  <1>18. CASE next(i) \notin {"quote", "newline", "comma"} /\ Abandon(i)
    <2>1. q[e] = "wrong" /\ t[e] # "newline"
      BY <1>11, <1>13, <1>18 DEF Step
    <2>2. e \in i .. i+1 /\ e <= Len(t) /\ pos <= i
      BY <1>1, <1>2, <1>11, <1>12
    <2>3. \A j \in i+1 .. e : t[j] # "newline"
      BY <1>11, <1>12, <2>1
    <2>4. \A j \in pos+1 .. i : ~RecordEnds(t, q, j)
      BY <1>1, <1>11, <1>12, <1>14
    <2> QED
      BY <1>1, <1>3, <1>4, <1>12, <1>18, <2>1, <2>2, <2>3, <2>4, RecordIsAbandoned
  <1> QED
    BY <1>8, <1>15, <1>16, <1>17, <1>18

LEMMA NoQuoteInv == IInv /\ NoQuote => IInv'
  <1> SUFFICES ASSUME IInv, NoQuote PROVE IInv'
    OBVIOUS
  <1>1. PICK t, q, p, N : t = policy /\ q = Scan(policy) /\ p = pos /\ N = Len(policy)
    OBVIOUS
  <1>2. /\ N \in Nat /\ N = Len(t) /\ p \in Nat /\ p <= N /\ Scanned(t, q)
        /\ p \in 0 .. N /\ N \in 0 .. N
    BY <1>1, InvFacts
  <1>3. /\ mode = "quoted" /\ policy' = policy /\ \A j \in p+1 .. N : t[j] # "quote"
        /\ Abandon(N - 1)
    BY <1>1 DEF NoQuote
  <1>4. PICK a, cuts : InRecord(a, cuts)
    BY <1>3 DEF IInv
  <1>5. q[p] = "quoted" /\ Begun(t, q, a, p) /\ found = FoundUpTo(t, q, a)
    BY <1>1, <1>3, <1>4 DEF InRecord
  <1>6. /\ pos' = N /\ mode' = "record" /\ fields' = << >> /\ text' = << >>
        /\ found' = found
    BY <1>1, <1>2, <1>3 DEF Abandon, FirstAfter, Position
  <1>7. \A j \in p+1 .. N : ~RecordEnds(t, q, j)
    <2>1. \A j \in p .. N : q[j] = "quoted"
      BY <1>2, <1>3, <1>5, QuotedStays
    <2> QED
      BY <1>2, <2>1 DEF RecordEnds
  <1>8. FoundUpTo(t, q, N) = FoundUpTo(t, q, a)
    <2>1. a \in Nat /\ a <= p
      BY <1>2, <1>5 DEF Begun
    <2>2. \A j \in a+1 .. N : j \in a+1 .. p \/ j \in p+1 .. N
      BY <1>2, <2>1
    <2>3. \A j \in a+1 .. N : ~RecordEnds(t, q, j)
      BY <1>5, <1>7, <2>2 DEF Begun
    <2>4. a <= N
      BY <1>2, <2>1
    <2> QED
      BY <1>2, <2>1, <2>3, <2>4, NothingEnds
  <1> QED
    BY <1>1, <1>2, <1>3, <1>5, <1>6, <1>8, BackToRecords

LEMMA InvNext == IInv /\ [Next]_vars => IInv'
  <1>1. IInv /\ UNCHANGED vars => IInv'
    BY DEF vars, IInv, TypeOK, BetweenRecords, InRecord
  <1> QED
    BY <1>1, SkipEmptyLineInv, BeginRecordInv, EndOfTextInv, PlainFieldInv, OpenQuoteInv,
       NextQuoteInv, NoQuoteInv DEF Next, Done

LEMMA InvAlways == Spec => []IInv
  BY InvInit, InvNext, PTL DEF Spec

-----------------------------------------------------------------------------
(* Theorems.                                                               *)

(* The parts of the state have their types. *)
THEOREM TypeCorrect == Spec => []TypeOK
  <1>1. IInv => TypeOK
    BY DEF IInv
  <1> QED
    BY <1>1, InvAlways, PTL

LEMMA ReadWhenDone == IInv => ReadsRecords
  <1> SUFFICES ASSUME IInv, mode = "done" PROVE ReadsRecords
    BY DEF ReadsRecords
  <1>1. found = FoundUpTo(policy, Scan(policy), Len(policy)) /\ Len(policy) \in Nat
    BY InvFacts DEF IInv, BetweenRecords
  <1> QED
    BY <1>1 DEF ReadsRecords, FoundUpTo

(* What is read by record, over all errors, is what the text's records      *)
(* grant when it is read token by token.                                   *)
THEOREM RecordsAreRead == Spec => []ReadsRecords
  BY ReadWhenDone, InvAlways, PTL

(* Where no line leaves a quote open, it is what the lines grant. *)
THEOREM LinesAreRead == Spec => []ReadsLineByLine
  <1>1. ASSUME IInv PROVE ReadsLineByLine
    <2> SUFFICES ASSUME mode = "done",
                        \A i \in Position : Ends(policy, i) => Scan(policy)[i] = "start"
                 PROVE  found = {id \in Id : \E a, b \in 0 .. Len(policy) :
                            /\ IsLine(policy, a, b)
                            /\ Grants(policy, Scan(policy), a, b, id)}
      BY DEF ReadsLineByLine
    <2>1. PICK t, q : t = policy /\ q = Scan(policy)
      OBVIOUS
    <2>2. Len(t) \in Nat /\ Scanned(t, q)
      BY <1>1, <2>1, InvFacts
    <2>3. \A i \in 0 .. Len(t) : Ends(t, i) <=> RecordEnds(t, q, i)
      BY <2>1, <2>2 DEF Position, RecordEnds, Scanned
    <2>4. \A a, b \in 0 .. Len(t) : IsLine(t, a, b) <=> IsRecord(t, q, a, b)
      <3>1. ASSUME NEW a \in 0 .. Len(t), NEW b \in 0 .. Len(t), NEW i \in a+1 .. b-1
            PROVE  i \in 0 .. Len(t)
        BY <2>2
      <3> QED
        BY <2>3, <3>1 DEF IsLine, IsRecord
    <2>5. found = {id \in Id : \E a, b \in 0 .. Len(t) :
                      IsRecord(t, q, a, b) /\ Grants(t, q, a, b, id)}
      BY <1>1, <2>1, ReadWhenDone DEF ReadsRecords
    <2> QED
      BY <2>1, <2>4, <2>5
  <1> QED
    BY <1>1, InvAlways, PTL

(* A line that begins and ends outside of quotes is read, whatever errors   *)
(* there are on others.                                                    *)
THEOREM OnlyOpenQuotesHideLines == Spec => []OnlyOpenQuotesHide
  <1>1. ASSUME IInv PROVE OnlyOpenQuotesHide
    <2> SUFFICES ASSUME mode = "done", NEW a \in 0 .. Len(policy), NEW b \in 0 .. Len(policy),
                        NEW id \in Id, IsLine(policy, a, b),
                        Scan(policy)[a] = "start", Scan(policy)[b] = "start",
                        Grants(policy, Scan(policy), a, b, id)
                 PROVE  id \in found
      BY DEF OnlyOpenQuotesHide
    <2>1. IsRecord(policy, Scan(policy), a, b)
      BY DEF IsLine, IsRecord, RecordEnds
    <2> QED
      BY <1>1, <2>1, ReadWhenDone DEF ReadsRecords
  <1> QED
    BY <1>1, InvAlways, PTL
=============================================================================
