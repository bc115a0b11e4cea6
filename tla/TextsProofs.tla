------------------------------ MODULE TextsProofs ------------------------------
(***************************************************************************)
(* Theorems about the texts of version 2, for any texts, objects and calls: *)
(* the order of keys, values and pairs (EnvValues), and the arrays of words *)
(* of class shell (Commands).                                              *)
(***************************************************************************)
EXTENDS EnvValues, FiniteSetTheorems, WellFoundedInduction, TLAPS

CONSTANTS Lines, Typed, Broken, Shells, SsoLen, null,
          Keys, Texts, Lists, Given, Inits, Programs, Executables, BufLen, MaxBlocks, EnvCalls
VARIABLES launcher, shell, live, wanted, child,
          block, used, environ, env, fresh, executable, request, answer, iter, seen

Cmd == INSTANCE Commands
Env == INSTANCE Environment WITH MaxCalls <- EnvCalls

-------------------------------------------------------------------------------
(***************************************************************************)
(* The least and the greatest of some numbers, and folds.                  *)
(***************************************************************************)
LEMMA MinIsMember ==
  ASSUME NEW S, S \subseteq Nat, S # {}
  PROVE  Min(S) \in S /\ \A y \in S : Min(S) <= y
<1>1. PICK x \in S : \A y \in S : ~(<<y, x>> \in OpToRel(<, Nat))
  BY NatLessThanWellFounded, WFMin
<1>2. \A y \in S : ~(y < x)
  BY <1>1 DEF OpToRel
<1>3. \A y \in S : x =< y
  BY <1>2
<1> QED
  BY <1>3 DEF Min

LEMMA MaxOfRun == ASSUME NEW n \in Nat \ {0} PROVE Max(1..n) = n
BY DEF Max

LEMMA MaxWithTop ==
  ASSUME NEW n \in Nat, NEW s \in SUBSET (1..n), n \in s
  PROVE  Max(s) = n
<1>1. \A y \in s : n >= y /\ y \in Nat OBVIOUS
<1>2. \A x \in s : x >= n => x = n BY <1>1
<1> QED BY <1>1, <1>2 DEF Max

LEMMA MaxIsMember ==
  ASSUME NEW n \in Nat, NEW s \in SUBSET (1..n), s # {}
  PROVE  Max(s) \in s
<1> DEFINE short == {d \in 0..n : n - d \in s}
<1>1. PICK y \in s : TRUE OBVIOUS
<1>2. y \in 1..n /\ n - y \in 0..n /\ n - (n - y) = y BY <1>1
<1>3. short \subseteq Nat /\ n - y \in short BY <1>1, <1>2
<1>4. PICK d \in short : \A e \in short : d <= e BY <1>3, MinIsMember
<1>5. d \in 0..n /\ n - d \in s BY <1>4
<1>6. ASSUME NEW z \in s PROVE n - d >= z
  <2>1. z \in 1..n /\ n - z \in 0..n /\ n - (n - z) = z OBVIOUS
  <2>2. n - z \in short BY <2>1
  <2>3. d <= n - z BY <1>4, <2>2
  <2> HIDE DEF short
  <2> QED BY <1>5, <2>1, <2>3
<1> QED BY <1>5, <1>6 DEF Max

LEMMA PartsOfRun ==
  ASSUME NEW n \in Nat, NEW m \in 1..n
  PROVE  1..m # {} /\ 1..m \in SUBSET (1..n) /\ (1..m) \ {m} = 1..(m - 1)
<1>1. m \in 1..m OBVIOUS
<1> QED BY <1>1

\* A fold of a sequence of n elements: f is folding its parts.
Folding(f, X, n, base, step) ==
  /\ f \in [SUBSET (1..n) -> X]
  /\ \A s \in SUBSET (1..n) : f[s] = IF s = {} THEN base ELSE step[Max(s)][f[s \ {Max(s)}]]

LEMMA FoldExists ==
  ASSUME NEW X, NEW base \in X, NEW n \in Nat, NEW step \in [1..n -> [X -> X]]
  PROVE  \E f : Folding(f, X, n, base, step)
<1> DEFINE bad == {m \in 0..n : ~ \E f : Folding(f, X, m, base, step)}
<1>1. SUFFICES ASSUME bad # {} PROVE FALSE OBVIOUS
<1>2. bad \subseteq Nat OBVIOUS
<1>3. PICK m \in bad : \A k \in bad : m <= k BY <1>1, <1>2, MinIsMember
<1>4. Folding([s \in SUBSET (1..0) |-> base], X, 0, base, step)
  <2>1. SUBSET (1..0) = {{}} OBVIOUS
  <2> QED BY <2>1 DEF Folding
<1>5. m \in 1..n /\ m - 1 \in 0..n /\ m - 1 \notin bad BY <1>3, <1>4
<1>6. PICK h : Folding(h, X, m - 1, base, step) BY <1>5
<1> HIDE DEF bad
<1> DEFINE g == [s \in SUBSET (1..m) |-> IF m \in s THEN step[m][h[s \ {m}]] ELSE h[s]]
<1>7. \A s \in SUBSET (1..m) : m \notin s => s \in SUBSET (1..(m - 1)) BY <1>5
<1>8. \A s \in SUBSET (1..m) : s \ {m} \in SUBSET (1..(m - 1)) BY <1>5
<1>9. g \in [SUBSET (1..m) -> X]
  <2> SUFFICES ASSUME NEW s \in SUBSET (1..m) PROVE (IF m \in s THEN step[m][h[s \ {m}]] ELSE h[s]) \in X OBVIOUS
  <2>1. CASE m \in s
    <3>1. h[s \ {m}] \in X BY <1>6, <1>8 DEF Folding
    <3> QED BY <2>1, <3>1, <1>5
  <2>2. CASE m \notin s BY <2>2, <1>6, <1>7 DEF Folding
  <2> QED BY <2>1, <2>2
<1>10. ASSUME NEW s \in SUBSET (1..m)
       PROVE  g[s] = IF s = {} THEN base ELSE step[Max(s)][g[s \ {Max(s)}]]
  <2>1. CASE m \in s
    <3>1. Max(s) = m BY <2>1, <1>5, MaxWithTop
    <3>2. g[s \ {m}] = h[s \ {m}] BY <1>8
    <3>3. g[s] = step[m][h[s \ {m}]] BY <2>1
    <3> HIDE DEF g
    <3> QED BY <2>1, <3>1, <3>2, <3>3
  <2>2. CASE m \notin s
    <3>1. s \in SUBSET (1..(m - 1)) /\ g[s] = h[s] BY <2>2, <1>7
    <3>2. m \notin s \ {Max(s)} /\ s \ {Max(s)} \in SUBSET (1..m) BY <2>2
    <3>3. g[s \ {Max(s)}] = h[s \ {Max(s)}] BY <3>2
    <3> HIDE DEF g
    <3> QED BY <3>1, <3>3, <1>6 DEF Folding
  <2> QED BY <2>1, <2>2
<1>11. Folding(g, X, m, base, step) BY <1>9, <1>10 DEF Folding
<1> QED BY <1>3, <1>11 DEF bad

-------------------------------------------------------------------------------
(***************************************************************************)
(* Texts over the characters that the order of characters knows.           *)
(***************************************************************************)
Chars == {Alphabet[i] : i \in DOMAIN Alphabet}
\* The provers do not know that "a" is a string.
CharsAreStrings == Chars \subseteq STRING

LEMMA CharsKnown ==
  /\ equality_sign \in Chars /\ delimiter \in Chars
  /\ \A c \in Chars : Code(c) \in Nat \ {0} /\ Alphabet[Code(c)] = c /\ to_lower(c) \in Chars
<1>1. DOMAIN Alphabet = 1..14 BY DEF Alphabet
<1>2. equality_sign \in Chars /\ delimiter \in Chars
  <2>1. Alphabet[4] = "=" /\ Alphabet[2] = ":" /\ Alphabet[3] = ";" BY DEF Alphabet
  <2>2. Alphabet[4] \in Chars /\ Alphabet[2] \in Chars /\ Alphabet[3] \in Chars BY <1>1 DEF Chars
  <2>3. delimiter \in {":", ";"} BY DEF delimiter
  <2> QED BY <2>1, <2>2, <2>3 DEF equality_sign
<1>3. ASSUME NEW c \in Chars PROVE Code(c) \in DOMAIN Alphabet /\ Alphabet[Code(c)] = c
  BY DEF Chars, Code
<1>4. ASSUME NEW c \in Chars PROVE to_lower(c) \in Chars
  <2>1. Alphabet[10] = "a" /\ Alphabet[11] = "b" /\ Alphabet[12] = "h" /\ Alphabet[13] = "p" /\ Alphabet[14] = "x"
    BY DEF Alphabet
  <2>2. {"a", "b", "h", "p", "x"} \subseteq Chars BY <1>1, <2>1 DEF Chars
  <2>3. c \in DOMAIN Lower => Lower[c] \in {"a", "b", "h", "p", "x"} BY DEF Lower
  <2> QED BY <2>2, <2>3 DEF to_lower
<1> QED BY <1>1, <1>2, <1>3, <1>4

LEMMA FoldedKept ==
  ASSUME NEW t \in Seq(Chars)
  PROVE  Folded(t) \in Seq(Chars) /\ Len(Folded(t)) = Len(t)
BY CharsKnown DEF Folded

LEMMA CodesTell ==
  ASSUME NEW s \in Seq(Chars), NEW t \in Seq(Chars)
  PROVE  /\ Codes(s) \in Seq(Nat \ {0}) /\ Len(Codes(s)) = Len(s)
         /\ Codes(s) = Codes(t) <=> s = t
<1>1. Codes(s) \in Seq(Nat \ {0}) /\ Len(Codes(s)) = Len(s) BY CharsKnown DEF Codes
<1>2. Codes(t) \in Seq(Nat \ {0}) /\ Len(Codes(t)) = Len(t) BY CharsKnown DEF Codes
<1>3. ASSUME Codes(s) = Codes(t) PROVE s = t
  <2>1. Len(s) = Len(t) BY <1>1, <1>2, <1>3
  <2>2. ASSUME NEW i \in 1..Len(s) PROVE s[i] = t[i]
    <3>1. s[i] \in Chars /\ t[i] \in Chars BY <2>1
    <3>2. Codes(s)[i] = Code(s[i]) /\ Codes(t)[i] = Code(t[i]) BY <2>1 DEF Codes
    <3> QED BY <1>3, <3>1, <3>2, CharsKnown
  <2> QED BY <2>1, <2>2
<1> QED BY <1>1, <1>3

-------------------------------------------------------------------------------
(***************************************************************************)
(* The order of texts: the first difference decides, or else the length.   *)
(***************************************************************************)
Codings == Seq(Nat \ {0})
Precedes(s, t) ==
  \/ \E i \in 1..Len(s) : i <= Len(t) /\ s[i] < t[i] /\ \A j \in 1..(i - 1) : s[j] = t[j]
  \/ Len(s) < Len(t) /\ \A j \in 1..Len(s) : s[j] = t[j]

LEMMA FirstDifference ==
  ASSUME NEW s \in Codings, NEW t \in Codings, Differ(s, t) # {}
  PROVE  /\ Min(Differ(s, t)) \in Nat \ {0} /\ Min(Differ(s, t)) <= Len(s) /\ Min(Differ(s, t)) <= Len(t)
         /\ s[Min(Differ(s, t))] # t[Min(Differ(s, t))]
         /\ \A j \in 1..(Min(Differ(s, t)) - 1) : s[j] = t[j]
<1>1. Differ(s, t) \subseteq Nat BY DEF Differ, Codings
<1> DEFINE i == Min(Differ(s, t))
<1>2. i \in Differ(s, t) /\ \A y \in Differ(s, t) : i <= y BY <1>1, MinIsMember
<1>3. i \in 1..Len(s) /\ i \in 1..Len(t) /\ s[i] # t[i] BY <1>2 DEF Differ, Codings
<1> HIDE DEF i
<1>4. ASSUME NEW j \in 1..(i - 1) PROVE s[j] = t[j]
  <2>1. j \notin Differ(s, t) BY <1>2, <1>3
  <2> QED BY <1>3, <2>1 DEF Differ, Codings
<1> QED BY <1>3, <1>4 DEF i

LEMMA NoDifference ==
  ASSUME NEW s \in Codings, NEW t \in Codings, Differ(s, t) = {}
  PROVE  \A j \in 1..Len(s) : j <= Len(t) => s[j] = t[j]
BY DEF Differ, Codings

LEMMA PrecedesApart ==
  ASSUME NEW s \in Codings, NEW t \in Codings, Precedes(s, t)
  PROVE  ~Precedes(t, s) /\ s # t
<1>1. ASSUME NEW i \in 1..Len(s), i <= Len(t), s[i] < t[i], \A j \in 1..(i - 1) : s[j] = t[j]
      PROVE ~Precedes(t, s) /\ s # t
  <2>1. \A j \in 1..Len(s) : s[j] \in Nat BY DEF Codings
  <2>2. \A j \in 1..Len(t) : t[j] \in Nat BY DEF Codings
  <2>3. Len(s) \in Nat /\ Len(t) \in Nat BY DEF Codings
  <2>4. ~Precedes(t, s)
    <3>1. ASSUME NEW k \in 1..Len(t), k <= Len(s), t[k] < s[k], \A j \in 1..(k - 1) : t[j] = s[j] PROVE FALSE
      <4>1. CASE k < i BY <4>1, <1>1, <3>1, <2>1, <2>2, <2>3
      <4>2. CASE i < k BY <4>2, <1>1, <3>1, <2>1, <2>2, <2>3
      <4>3. CASE i = k BY <4>3, <1>1, <3>1, <2>1, <2>2, <2>3
      <4> QED BY <4>1, <4>2, <4>3, <2>3
    <3>2. ~ \A j \in 1..Len(t) : t[j] = s[j] BY <1>1, <2>1, <2>2, <2>3
    <3> QED BY <3>1, <3>2 DEF Precedes
  <2>5. s # t BY <1>1, <2>1
  <2> QED BY <2>4, <2>5
<1>2. ASSUME Len(s) < Len(t), \A j \in 1..Len(s) : s[j] = t[j]
      PROVE ~Precedes(t, s) /\ s # t
  BY <1>2 DEF Precedes, Codings
<1> QED BY <1>1, <1>2 DEF Precedes

LEMMA string_compareOrders ==
  ASSUME NEW s \in Codings, NEW t \in Codings
  PROVE  /\ string_compare(s, t) \in Int
         /\ string_compare(s, t) < 0 <=> Precedes(s, t)
         /\ string_compare(s, t) > 0 <=> Precedes(t, s)
         /\ string_compare(s, t) = 0 <=> s = t
<1>0. Len(s) \in Nat /\ Len(t) \in Nat BY DEF Codings
<1>1. CASE Differ(s, t) # {}
  <2> DEFINE i == Min(Differ(s, t))
  <2>1. /\ i \in Nat \ {0} /\ i <= Len(s) /\ i <= Len(t) /\ s[i] # t[i]
        /\ \A j \in 1..(i - 1) : s[j] = t[j]
    BY <1>1, FirstDifference
  <2>2. string_compare(s, t) = IF s[i] < t[i] THEN -1 ELSE 1 BY <1>1 DEF string_compare, Order
  <2> HIDE DEF i
  <2>3. s[i] \in Nat /\ t[i] \in Nat BY <2>1 DEF Codings
  <2>4. s[i] < t[i] => Precedes(s, t) BY <1>0, <2>1 DEF Precedes
  <2>5. t[i] < s[i] => Precedes(t, s) BY <1>0, <2>1 DEF Precedes
  <2> QED BY <2>1, <2>2, <2>3, <2>4, <2>5, PrecedesApart
<1>2. CASE Differ(s, t) = {}
  <2>1. string_compare(s, t) = Len(s) - Len(t) BY <1>2 DEF string_compare
  <2>2. \A j \in 1..Len(s) : j <= Len(t) => s[j] = t[j] BY <1>2, NoDifference
  <2>3. Len(s) < Len(t) => Precedes(s, t) BY <1>0, <2>2 DEF Precedes
  <2>4. Len(t) < Len(s) => Precedes(t, s) BY <1>0, <2>2 DEF Precedes
  <2>5. Len(s) = Len(t) => s = t BY <1>0, <2>2 DEF Codings
  <2> QED BY <1>0, <2>1, <2>3, <2>4, <2>5, PrecedesApart
<1> QED BY <1>1, <1>2

LEMMA cstring_compareOrders ==
  ASSUME NEW s \in Codings, NEW t \in Codings
  PROVE  /\ cstring_compare(s, t) \in Int
         /\ cstring_compare(s, t) < 0 <=> string_compare(s, t) < 0
         /\ cstring_compare(s, t) > 0 <=> string_compare(s, t) > 0
<1>0. Len(s) \in Nat /\ Len(t) \in Nat BY DEF Codings
<1>1. Len(s) \in Nat /\ Len(t) \in Nat /\ DOMAIN s = 1..Len(s) /\ DOMAIN t = 1..Len(t)
      /\ (\A i \in 1..Len(s) : s[i] \in Nat \ {0}) /\ (\A i \in 1..Len(t) : t[i] \in Nat \ {0})
  BY DEF Codings
<1>2. CASE Differ(s, t) # {}
  <2>1. cstring_compare(s, t) = string_compare(s, t) BY <1>2 DEF cstring_compare, string_compare
  <2> QED BY <2>1, string_compareOrders
<1>3. CASE Differ(s, t) = {}
  <2> DEFINE end == Min({Len(s), Len(t)}) + 1
  <2>1. Min({Len(s), Len(t)}) \in {Len(s), Len(t)} /\ \A y \in {Len(s), Len(t)} : Min({Len(s), Len(t)}) <= y
    BY <1>1, MinIsMember
  <2>2. end = IF Len(s) < Len(t) THEN Len(s) + 1 ELSE Len(t) + 1 BY <1>1, <2>1
  <2>3. cstring_compare(s, t) = At(s, end) - At(t, end) /\ string_compare(s, t) = Len(s) - Len(t)
    BY <1>3 DEF cstring_compare, string_compare
  <2> HIDE DEF end
  <2>4. CASE Len(s) < Len(t)
    <3>1. end = Len(s) + 1 /\ end \in 1..Len(t) BY <1>1, <2>2, <2>4
    <3>2. At(s, end) = 0 /\ At(t, end) \in Nat \ {0} BY <1>1, <3>1 DEF At
    <3> QED BY <1>1, <2>3, <2>4, <3>2
  <2>5. CASE Len(t) < Len(s)
    <3>1. end = Len(t) + 1 /\ end \in 1..Len(s) BY <1>1, <2>2, <2>5
    <3>2. At(t, end) = 0 /\ At(s, end) \in Nat \ {0} BY <1>1, <3>1 DEF At
    <3> QED BY <1>1, <2>3, <2>5, <3>2
  <2>6. CASE Len(t) = Len(s)
    <3>1. end = Len(t) + 1 BY <1>1, <2>2, <2>6
    <3>2. At(t, end) = 0 /\ At(s, end) = 0 BY <1>1, <2>6, <3>1 DEF At
    <3> QED BY <1>1, <2>3, <2>6, <3>2
  <2>7. Len(s) < Len(t) \/ Len(t) < Len(s) \/ Len(t) = Len(s) BY <1>0
  <2> QED BY <2>4, <2>5, <2>6, <2>7, Zenon
<1> QED BY <1>2, <1>3

LEMMA PrecedesTransitive ==
  ASSUME NEW s \in Codings, NEW t \in Codings, NEW u \in Codings, Precedes(s, t), Precedes(t, u)
  PROVE  Precedes(s, u)
<1>1. Len(s) \in Nat /\ Len(t) \in Nat /\ Len(u) \in Nat
      /\ (\A i \in 1..Len(s) : s[i] \in Nat) /\ (\A i \in 1..Len(t) : t[i] \in Nat) /\ (\A i \in 1..Len(u) : u[i] \in Nat)
  BY DEF Codings
<1>2. ASSUME NEW i \in 1..Len(s), i <= Len(t), s[i] < t[i], \A j \in 1..(i - 1) : s[j] = t[j]
      PROVE  Precedes(s, u)
  <2>1. ASSUME NEW k \in 1..Len(t), k <= Len(u), t[k] < u[k], \A j \in 1..(k - 1) : t[j] = u[j]
        PROVE  Precedes(s, u)
    <3>1. CASE i <= k
      <4>1. i <= Len(u) /\ s[i] < u[i] BY <1>1, <1>2, <2>1, <3>1
      <4>2. \A j \in 1..(i - 1) : s[j] = u[j] BY <1>1, <1>2, <2>1, <3>1
      <4> QED BY <1>1, <4>1, <4>2 DEF Precedes
    <3>2. CASE k < i
      <4>1. k \in 1..Len(s) /\ s[k] < u[k] BY <1>1, <1>2, <2>1, <3>2
      <4>2. \A j \in 1..(k - 1) : s[j] = u[j] BY <1>1, <1>2, <2>1, <3>2
      <4> QED BY <1>1, <2>1, <4>1, <4>2 DEF Precedes
    <3> QED BY <1>1, <3>1, <3>2
  <2>2. ASSUME Len(t) < Len(u), \A j \in 1..Len(t) : t[j] = u[j] PROVE Precedes(s, u)
    <3>1. i <= Len(u) /\ s[i] < u[i] /\ \A j \in 1..(i - 1) : s[j] = u[j] BY <1>1, <1>2, <2>2
    <3> QED BY <3>1 DEF Precedes
  <2> QED BY <2>1, <2>2 DEF Precedes
<1>3. ASSUME Len(s) < Len(t), \A j \in 1..Len(s) : s[j] = t[j] PROVE Precedes(s, u)
  <2>1. ASSUME NEW k \in 1..Len(t), k <= Len(u), t[k] < u[k], \A j \in 1..(k - 1) : t[j] = u[j]
        PROVE  Precedes(s, u)
    <3>1. CASE k <= Len(s)
      <4>1. k \in 1..Len(s) /\ s[k] < u[k] /\ \A j \in 1..(k - 1) : s[j] = u[j] BY <1>1, <1>3, <2>1, <3>1
      <4> QED BY <2>1, <4>1 DEF Precedes
    <3>2. CASE Len(s) < k
      <4>1. Len(s) < Len(u) /\ \A j \in 1..Len(s) : s[j] = u[j] BY <1>1, <1>3, <2>1, <3>2
      <4> QED BY <4>1 DEF Precedes
    <3> QED BY <1>1, <3>1, <3>2
  <2>2. ASSUME Len(t) < Len(u), \A j \in 1..Len(t) : t[j] = u[j] PROVE Precedes(s, u)
    BY <1>1, <1>3, <2>2 DEF Precedes
  <2> QED BY <2>1, <2>2 DEF Precedes
<1> QED BY <1>2, <1>3 DEF Precedes

-------------------------------------------------------------------------------
(***************************************************************************)
(* The two parts of an entry are the entry, if it has a '='.               *)
(***************************************************************************)
LEMMA SeqGrows ==
  ASSUME NEW S, NEW T, S \subseteq T
  PROVE  Seq(S) \subseteq Seq(T)
<1> SUFFICES ASSUME NEW t \in Seq(S) PROVE t \in Seq(T) OBVIOUS
<1>1. t \in [1..Len(t) -> S] /\ Len(t) \in Nat OBVIOUS
<1>2. t \in [1..Len(t) -> T] BY <1>1
<1> QED BY <1>1, <1>2

LEMMA JoinedOf ==
  ASSUME NEW S, NEW t \in Seq(S), NEW c \in Seq(S), NEW b \in Seq(S), NEW e \in 0..Len(t),
         Len(c) = e, Len(b) = Len(t) - e,
         \A i \in 1..e : c[i] = t[i], \A i \in 1..(Len(t) - e) : b[i] = t[e + i]
  PROVE  t = c \o b
<1>0. Len(t) \in Nat OBVIOUS
<1>1. c \o b \in Seq(S) /\ Len(c \o b) = Len(t) BY <1>0
<1>2. ASSUME NEW i \in 1..Len(t) PROVE (c \o b)[i] = t[i]
  <2>1. CASE i <= e BY <2>1, <1>0
  <2>2. CASE i > e
    <3>1. i - e \in 1..(Len(t) - e) /\ e + (i - e) = i BY <2>2, <1>0
    <3>2. (c \o b)[i] = b[i - e] BY <2>2, <1>0
    <3> QED BY <3>1, <3>2
  <2> QED BY <2>1, <2>2, <1>0
<1> DEFINE d == c \o b
<1>3. d \in Seq(S) /\ Len(d) = Len(t) /\ \A i \in 1..Len(t) : d[i] = t[i] BY <1>1, <1>2
<1> HIDE DEF d
<1>4. d = t BY <1>3, <1>0
<1> QED BY <1>4 DEF d

LEMMA Rejoined ==
  ASSUME NEW S, NEW t \in Seq(S), NEW e \in 1..Len(t)
  PROVE  t = SubSeq(t, 1, e - 1) \o <<t[e]>> \o SubSeq(t, e + 1, Len(t))
<1> DEFINE a == SubSeq(t, 1, e - 1)
<1> DEFINE b == SubSeq(t, e + 1, Len(t))
<1> DEFINE c == a \o <<t[e]>>
<1>1. Len(t) \in Nat /\ e \in 0..Len(t) /\ e \in Nat /\ e <= Len(t) /\ t[e] \in S OBVIOUS
<1>2. a \in Seq(S) /\ Len(a) = e - 1 /\ \A i \in 1..(e - 1) : a[i] = t[i] BY <1>1
<1>3. b \in Seq(S) /\ Len(b) = Len(t) - e /\ \A i \in 1..(Len(t) - e) : b[i] = t[e + i] BY <1>1
<1> HIDE DEF a, b
<1>4. c \in Seq(S) /\ Len(c) = e /\ (\A i \in 1..(e - 1) : c[i] = t[i]) /\ c[e] = t[e] BY <1>1, <1>2
<1> HIDE DEF c
<1>5. \A i \in 1..e : c[i] = t[i] BY <1>1, <1>4
<1>6. t = c \o b BY <1>1, <1>3, <1>4, <1>5, JoinedOf
<1> QED BY <1>6 DEF a, b, c

LEMMA EqualitySignIsThere ==
  ASSUME NEW t \in Seq(Chars)
  PROVE  /\ EqualitySign(t) \in 0..Len(t)
         /\ EqualitySign(t) # 0 => t[EqualitySign(t)] = equality_sign
         /\ EqualitySign(t) # 0 <=> Find(t, equality_sign) # 0
<1> DEFINE P == Places(t, equality_sign)
<1>1. P \subseteq 1..Len(t) /\ \A i \in P : t[i] = equality_sign BY DEF Places
<1>2. P \subseteq Nat \ {0} BY <1>1
<1>3. CASE P = {} BY <1>3 DEF EqualitySign, Find
<1>4. CASE P # {}
  <2>1. Min(P) \in P BY <1>2, <1>4, MinIsMember
  <2>2. P \ {1} # {} => Min(P \ {1}) \in P \ {1} BY <1>2, MinIsMember
  <2>3. EqualitySign(t) \in {Min(P)} \cup {x \in {Min(P \ {1})} : P \ {1} # {}} BY <1>4 DEF EqualitySign
  <2>4. EqualitySign(t) \in P BY <2>1, <2>2, <2>3
  <2>5. Find(t, equality_sign) \in P BY <1>4, <2>1 DEF Find
  <2> QED BY <1>1, <1>2, <2>4, <2>5
<1> QED BY <1>3, <1>4

LEMMA PartsOfEntry ==
  ASSUME CharsAreStrings, NEW t \in Seq(Chars)
  PROVE  /\ Key[t] \in Seq(Chars) /\ Value[t] \in Seq(Chars)
         /\ Len(Key[t]) <= Len(t) /\ Len(Value[t]) <= Len(t)
         /\ Find(t, equality_sign) # 0 => t = Entry(Key[t], Value[t])
<1> DEFINE eq == EqualitySign(t)
<1>1. eq \in 0..Len(t) /\ (eq # 0 => t[eq] = equality_sign) /\ (eq # 0 <=> Find(t, equality_sign) # 0)
  BY EqualitySignIsThere
<1>2. t \in Text BY SeqGrows DEF CharsAreStrings, Text
<1>3. Key[t] = IF eq = 0 THEN t ELSE SubSeq(t, 1, eq - 1) BY <1>2 DEF Key
<1>4. Value[t] = SubSeq(t, eq + 1, Len(t)) BY <1>2 DEF Value
<1> HIDE DEF eq
<1>5. Len(t) \in Nat OBVIOUS
<1>6. Key[t] \in Seq(Chars) /\ Len(Key[t]) <= Len(t) BY <1>1, <1>3, <1>5
<1>7. Value[t] \in Seq(Chars) /\ Len(Value[t]) = Len(t) - eq BY <1>1, <1>4, <1>5
<1>8. ASSUME eq # 0 PROVE t = Entry(Key[t], Value[t])
  <2>1. Entry(Key[t], Value[t]) = SubSeq(t, 1, eq - 1) \o <<equality_sign>> \o SubSeq(t, eq + 1, Len(t))
    BY <1>3, <1>4, <1>8 DEF Entry
  <2>2. eq \in 1..Len(t) /\ t[eq] = equality_sign BY <1>1, <1>5, <1>8
  <2>3. t = SubSeq(t, 1, eq - 1) \o <<equality_sign>> \o SubSeq(t, eq + 1, Len(t)) BY <2>2, Rejoined
  <2> QED BY <2>1, <2>3, Zenon
<1> QED BY <1>1, <1>5, <1>6, <1>7, <1>8

-------------------------------------------------------------------------------
(***************************************************************************)
(* The objects: an owner has a text, a view is inside the text of an owner *)
(* that is there, and ends with it unless it is the view of a key.         *)
(***************************************************************************)
Owners == {"key", "value", "pair"}
Views  == {"key_view", "value_view", "pair_view"}

IsOwner(o) == \E k \in Owners, t \in Seq(Chars) : \E m : o = [kind |-> k, text |-> t, meant |-> m]
IsView(f, o) ==
  \E k \in Views, b \in Names, x \in Nat \ {0}, y \in Nat :
    /\ o = [kind |-> k, of |-> b, from |-> x, to |-> y]
    /\ f[b] # none /\ IsOwner(f[b])
    /\ x <= y + 1 /\ y <= Len(f[b].text)
    /\ k # "key_view" => y = Len(f[b].text)

ObjectsFit(f) ==
  /\ f = [n \in Names |-> f[n]]
  /\ \A n \in Names : f[n] = none \/ IsOwner(f[n]) \/ IsView(f, f[n])

\* What the program is given: texts over the characters of the model, and none is no object.
TextsGiven ==
  /\ CharsAreStrings
  /\ KeyTexts \cup ValueTexts \cup PairTexts \subseteq Seq(Chars)
  /\ ValueLists \subseteq Seq(Seq(Chars))
  /\ ~IsOwner(none)

LEMMA OwnerFields ==
  ASSUME NEW o, IsOwner(o)
  PROVE  o.kind \in Owners /\ o.text \in Seq(Chars) /\ o.kind \notin Views
BY DEF IsOwner, Owners, Views

LEMMA ViewFields ==
  ASSUME NEW f, NEW o, IsView(f, o)
  PROVE  /\ o.kind \in Views /\ o.kind \notin Owners /\ o.of \in Names /\ o.from \in Nat \ {0} /\ o.to \in Nat
         /\ f[o.of] # none /\ IsOwner(f[o.of]) /\ o.from <= o.to + 1 /\ o.to <= Len(f[o.of].text)
         /\ o.kind # "key_view" => o.to = Len(f[o.of].text)
BY DEF IsView, Owners, Views

LEMMA ViewOfSame ==
  ASSUME NEW f, NEW g, NEW o, IsView(f, o), g[o.of] = f[o.of]
  PROVE  IsView(g, o)
<1>1. PICK k \in Views, b \in Names, x \in Nat \ {0}, y \in Nat :
        /\ o = [kind |-> k, of |-> b, from |-> x, to |-> y]
        /\ f[b] # none /\ IsOwner(f[b])
        /\ x <= y + 1 /\ y <= Len(f[b].text)
        /\ k # "key_view" => y = Len(f[b].text)
  BY DEF IsView
<1>2. o.of = b BY <1>1
<1>3. g[b] = f[b] BY <1>2
<1> QED BY <1>1, <1>3, Zenon DEF IsView

LEMMA KindsOfObjects ==
  ASSUME ObjectsFit(object), NEW n \in Live
  PROVE  /\ n \in Names
         /\ IsOwner(object[n]) \/ IsView(object, object[n])
         /\ Owns(n) <=> IsOwner(object[n])
         /\ Owns(n) <=> object[n].kind \in Owners
         /\ Is(n, "key") <=> object[n].kind \in {"key", "key_view"}
         /\ Is(n, "value") <=> object[n].kind \in {"value", "value_view"}
         /\ Is(n, "pair") <=> object[n].kind \in {"pair", "pair_view"}
<1>1. n \in Names /\ (IsOwner(object[n]) \/ IsView(object, object[n])) BY DEF ObjectsFit, Live
<1>2. Owns(n) <=> object[n].kind \in Owners BY DEF Owns, Owner, Owners
<1>3. IsView(object, object[n]) => object[n].kind \notin Owners BY ViewFields
<1>4. IsOwner(object[n]) => object[n].kind \in Owners BY OwnerFields
<1>5. ViewOf["key"] = "key_view" /\ ViewOf["value"] = "value_view" /\ ViewOf["pair"] = "pair_view" BY DEF ViewOf
<1> QED BY <1>1, <1>2, <1>3, <1>4, <1>5 DEF Is

LEMMA TextsOfObjects ==
  ASSUME ObjectsFit(object), NEW n \in Live
  PROVE  /\ Base(n) \in Names /\ object[Base(n)] # none /\ IsOwner(object[Base(n)])
         /\ From(n) \in Nat \ {0} /\ To(n) \in Nat /\ From(n) <= To(n) + 1 /\ To(n) <= Len(object[Base(n)].text)
         /\ TextOf(n) \in Seq(Chars) /\ Len(TextOf(n)) = To(n) + 1 - From(n)
         /\ Is(n, "value") \/ Is(n, "pair") => To(n) = Len(object[Base(n)].text)
<1>1. CASE Owns(n)
  <2>1. IsOwner(object[n]) /\ n \in Names /\ object[n] # none BY <1>1, KindsOfObjects DEF Live
  <2>2. Base(n) = n /\ From(n) = 1 /\ To(n) = Len(object[n].text) BY <1>1 DEF Base, From, To
  <2>3. object[n].text \in Seq(Chars) BY <2>1, OwnerFields
  <2>4. TextOf(n) = object[n].text BY <2>2, <2>3 DEF TextOf
  <2> QED BY <2>1, <2>2, <2>3, <2>4
<1>2. CASE ~Owns(n)
  <2>1. IsView(object, object[n]) BY <1>2, KindsOfObjects
  <2>2. Base(n) = object[n].of /\ From(n) = object[n].from /\ To(n) = object[n].to BY <1>2 DEF Base, From, To
  <2>3. /\ Base(n) \in Names /\ From(n) \in Nat \ {0} /\ To(n) \in Nat
        /\ object[Base(n)] # none /\ IsOwner(object[Base(n)]) /\ From(n) <= To(n) + 1 /\ To(n) <= Len(object[Base(n)].text)
        /\ object[n].kind # "key_view" => To(n) = Len(object[Base(n)].text)
        /\ object[n].kind \in Views
    BY <2>1, <2>2, ViewFields
  <2>4. object[Base(n)].text \in Seq(Chars) BY <2>3, OwnerFields
  <2>5. TextOf(n) \in Seq(Chars) /\ Len(TextOf(n)) = To(n) + 1 - From(n) BY <2>3, <2>4 DEF TextOf
  <2>6. Is(n, "value") \/ Is(n, "pair") => object[n].kind # "key_view" BY KindsOfObjects
  <2> QED BY <2>3, <2>5, <2>6
<1> QED BY <1>1, <1>2

-------------------------------------------------------------------------------
(***************************************************************************)
(* Every call leaves the objects fit.                                      *)
(***************************************************************************)
LEMMA OwnerMade ==
  ASSUME ObjectsFit(object), TextsGiven, NEW n \in Names, NEW kind \in Owners, NEW text \in Seq(Chars), NEW meant,
         NewOwner(n, kind, text, meant)
  PROVE  ObjectsFit(object')
<1> DEFINE o == [kind |-> kind, text |-> text, meant |-> meant]
<1>1. object[n] = none /\ object' = [object EXCEPT ![n] = o] BY DEF NewOwner
<1>2. IsOwner(o) BY DEF IsOwner
<1> HIDE DEF o
<1>3. \A k \in Names : object'[k] = IF k = n THEN o ELSE object[k] BY <1>1 DEF ObjectsFit
<1>4. object' = [k \in Names |-> object'[k]] BY <1>1 DEF ObjectsFit
<1>5. ASSUME NEW k \in Names PROVE object'[k] = none \/ IsOwner(object'[k]) \/ IsView(object', object'[k])
  <2>1. CASE k = n BY <2>1, <1>2, <1>3
  <2>2. CASE k # n
    <3>1. object'[k] = object[k] BY <2>2, <1>3
    <3>2. ASSUME IsView(object, object[k]) PROVE IsView(object', object[k])
      <4>1. object[k].of \in Names /\ object[object[k].of] # none BY <3>2, ViewFields
      <4>2. object'[object[k].of] = object[object[k].of] BY <4>1, <1>1, <1>3
      <4> QED BY <3>2, <4>2, ViewOfSame
    <3>3. object[k] = none \/ IsOwner(object[k]) \/ IsView(object, object[k]) BY DEF ObjectsFit
    <3> QED BY <3>1, <3>2, <3>3
  <2> QED BY <2>1, <2>2
<1> QED BY <1>4, <1>5 DEF ObjectsFit

\* The views of n are gone, whatever becomes of n itself.
LEMMA WithoutFits ==
  ASSUME ObjectsFit(object), NEW n \in Names, NEW o, o = none \/ IsOwner(o)
  PROVE  ObjectsFit([Without(n) EXCEPT ![n] = o])
<1> DEFINE g == [Without(n) EXCEPT ![n] = o]
<1>1. \A k \in Names : g[k] = IF k = n THEN o
                              ELSE IF k \in Live /\ ~Owns(k) /\ object[k].of = n THEN none ELSE object[k]
  BY DEF Without
<1>2. g = [k \in Names |-> g[k]] BY DEF Without
<1> HIDE DEF g
<1>3. ASSUME NEW k \in Names PROVE g[k] = none \/ IsOwner(g[k]) \/ IsView(g, g[k])
  <2>1. CASE k = n BY <2>1, <1>1
  <2>2. CASE k # n /\ g[k] # none
    <3>1. g[k] = object[k] /\ k \in Live BY <2>2, <1>1 DEF Live
    <3>2. ~Owns(k) => object[k].of # n BY <2>2, <3>1, <1>1
    <3>3. IsOwner(object[k]) \/ (IsView(object, object[k]) /\ ~Owns(k)) BY <3>1, KindsOfObjects
    <3>4. ASSUME IsView(object, object[k]), ~Owns(k) PROVE IsView(g, object[k])
      <4> DEFINE b == object[k].of
      <4>1. b \in Names /\ b # n /\ object[b] # none /\ IsOwner(object[b]) BY <3>2, <3>4, ViewFields
      <4>2. b \in Live BY <4>1 DEF Live
      <4>3. Owns(b) BY <4>1, <4>2, KindsOfObjects
      <4>4. g[b] = object[b] BY <4>1, <4>3, <1>1
      <4> QED BY <3>4, <4>4, ViewOfSame
    <3> QED BY <3>1, <3>3, <3>4
  <2> QED BY <2>1, <2>2
<1>4. ObjectsFit(g) BY <1>2, <1>3 DEF ObjectsFit
<1> QED BY <1>4 DEF g

LEMMA SwapFits ==
  ASSUME ObjectsFit(object), NEW n \in Names, NEW m \in Names, IsOwner(object[n]), IsOwner(object[m]),
         object' = [k \in Names |-> IF k \in {n, m} \/ k \notin Live \/ Owns(k) \/ object[k].of \notin {n, m}
                                   THEN [object EXCEPT ![n] = object[m], ![m] = object[n]][k] ELSE none]
  PROVE  ObjectsFit(object')
<1>1. \A k \in Names : [object EXCEPT ![n] = object[m], ![m] = object[n]][k]
                         = IF k = m THEN object[n] ELSE IF k = n THEN object[m] ELSE object[k]
  BY DEF ObjectsFit
<1>2. ASSUME NEW k \in Names PROVE object'[k] = none \/ IsOwner(object'[k]) \/ IsView(object', object'[k])
  <2>1. CASE k \in {n, m} BY <2>1, <1>1
  <2>2. CASE k \notin {n, m} /\ object'[k] # none
    <3>1. object'[k] = object[k] /\ k \in Live BY <2>2, <1>1 DEF Live
    <3>2. ~Owns(k) => object[k].of \notin {n, m} BY <2>2, <3>1
    <3>3. IsOwner(object[k]) \/ (IsView(object, object[k]) /\ ~Owns(k)) BY <3>1, KindsOfObjects
    <3>4. ASSUME IsView(object, object[k]), ~Owns(k) PROVE IsView(object', object[k])
      <4> DEFINE b == object[k].of
      <4>1. b \in Names /\ b \notin {n, m} /\ object[b] # none /\ IsOwner(object[b]) BY <3>2, <3>4, ViewFields
      <4>2. b \in Live BY <4>1 DEF Live
      <4>3. Owns(b) BY <4>1, <4>2, KindsOfObjects
      <4>4. object'[b] = object[b] BY <4>1, <4>3, <1>1
      <4> QED BY <3>4, <4>4, ViewOfSame
    <3> QED BY <3>1, <3>3, <3>4
  <2> QED BY <2>1, <2>2
<1>3. object' = [k \in Names |-> object'[k]] OBVIOUS
<1> QED BY <1>2, <1>3 DEF ObjectsFit

LEMMA ViewMade ==
  ASSUME ObjectsFit(object), NEW n \in Names, object[n] = none, NEW o, IsView(object, o),
         object' = [object EXCEPT ![n] = o]
  PROVE  ObjectsFit(object')
<1>1. \A k \in Names : object'[k] = IF k = n THEN o ELSE object[k] BY DEF ObjectsFit
<1>2. object' = [k \in Names |-> object'[k]] BY DEF ObjectsFit
<1>3. ASSUME NEW v, IsView(object, v) PROVE IsView(object', v)
  <2>1. v.of \in Names /\ object[v.of] # none BY <1>3, ViewFields
  <2>2. object'[v.of] = object[v.of] BY <2>1, <1>1
  <2> QED BY <1>3, <2>2, ViewOfSame
<1>4. ASSUME NEW k \in Names PROVE object'[k] = none \/ IsOwner(object'[k]) \/ IsView(object', object'[k])
  BY <1>1, <1>3 DEF ObjectsFit
<1> QED BY <1>2, <1>4 DEF ObjectsFit

LEMMA ViewsFit ==
  ASSUME ObjectsFit(object), NEW m \in Live, NEW kind \in Views, NEW x \in Nat, NEW y \in Nat,
         From(m) <= x, x <= y + 1, y <= To(m), kind # "key_view" => y = To(m) /\ ~Is(m, "key")
  PROVE  IsView(object, View(kind, m, x, y))
<1>1. /\ Base(m) \in Names /\ object[Base(m)] # none /\ IsOwner(object[Base(m)])
      /\ From(m) \in Nat \ {0} /\ To(m) \in Nat /\ To(m) <= Len(object[Base(m)].text)
      /\ (Is(m, "value") \/ Is(m, "pair") => To(m) = Len(object[Base(m)].text))
  BY TextsOfObjects
<1>2. object[Base(m)].text \in Seq(Chars) BY <1>1, OwnerFields
<1>3. kind # "key_view" => y = Len(object[Base(m)].text)
  <2>1. Is(m, "key") \/ Is(m, "value") \/ Is(m, "pair")
    <3>1. object[m].kind \in Owners \cup Views
      <4>1. IsOwner(object[m]) \/ IsView(object, object[m]) BY KindsOfObjects
      <4> QED BY <4>1, OwnerFields, ViewFields
    <3> QED BY <3>1, KindsOfObjects DEF Owners, Views
  <2> QED BY <1>1, <2>1
<1>4. x \in Nat \ {0} /\ y <= Len(object[Base(m)].text) BY <1>1, <1>2
<1> QED BY <1>1, <1>3, <1>4, Zenon DEF IsView, View

LEMMA EntriesOfLists ==
  ASSUME NEW k \in Seq(Chars), NEW vs \in Seq(Seq(Chars))
  PROVE  EntryOfList(k, vs) \in Seq(Chars)
<1> DEFINE n    == Len(vs)
<1> DEFINE X    == Seq(Chars)
<1> DEFINE base == Append(k, equality_sign)
<1> DEFINE step == [i \in 1..n |-> [r \in X |-> AppendValue(r, vs[i])]]
<1> DEFINE F(f) == f = [s \in SUBSET (DOMAIN vs) |-> IF s = {} THEN base ELSE AppendValue(f[s \ {Max(s)}], vs[Max(s)])]
<1>1. EntryOfList(k, vs) = (CHOOSE f : F(f))[DOMAIN vs]
  BY DEF EntryOfList, FoldLeft, MapThenFoldSet
<1>2. n \in Nat /\ DOMAIN vs = 1..n /\ base \in X /\ \A i \in 1..n : vs[i] \in X BY CharsKnown
<1>3. ASSUME NEW i \in 1..n, NEW r \in X PROVE AppendValue(r, vs[i]) \in X
  <2>1. Append(r, delimiter) \in X /\ vs[i] \in X BY <1>2, CharsKnown
  <2> QED BY <2>1 DEF AppendValue
<1>4. step \in [1..n -> [X -> X]] BY <1>3
<1>5. \A i \in 1..n, r \in X : step[i][r] = AppendValue(r, vs[i]) OBVIOUS
<1> HIDE DEF n, X, base, step
<1>6. PICK h : Folding(h, X, n, base, step) BY <1>2, <1>4, FoldExists
<1>7. \A s \in SUBSET (1..n) : s # {} => Max(s) \in s BY <1>2, MaxIsMember
<1>8. F(h)
  <2>1. ASSUME NEW s \in SUBSET (1..n)
        PROVE  h[s] = IF s = {} THEN base ELSE AppendValue(h[s \ {Max(s)}], vs[Max(s)])
    <3>1. s # {} => Max(s) \in 1..n BY <1>7
    <3>2. s # {} => h[s \ {Max(s)}] \in X BY <1>6 DEF Folding
    <3>3. h[s] = IF s = {} THEN base ELSE step[Max(s)][h[s \ {Max(s)}]] BY <1>6 DEF Folding
    <3> QED BY <3>1, <3>2, <3>3, <1>5
  <2>2. h = [s \in SUBSET (1..n) |-> h[s]] BY <1>6 DEF Folding
  <2> QED BY <2>1, <2>2, <1>2
<1> DEFINE g == CHOOSE f : F(f)
<1>9. F(g) BY <1>8
<1> HIDE DEF g
<1>10. g[1..n] \in X
  <2>1. g[{}] = base BY <1>9, <1>2
  <2>2. ASSUME NEW m \in 1..n, g[1..(m - 1)] \in X PROVE g[1..m] \in X
    <3>1. 1..m # {} /\ 1..m \in SUBSET (1..n) /\ (1..m) \ {m} = 1..(m - 1) BY <1>2, PartsOfRun
    <3>2. Max(1..m) = m BY MaxOfRun
    <3>3. (1..m) \ {m} = 1..(m - 1) BY <3>1
    <3>4. g[1..m] = AppendValue(g[(1..m) \ {Max(1..m)}], vs[Max(1..m)]) BY <1>9, <1>2, <3>1
    <3>5. g[1..m] = AppendValue(g[1..(m - 1)], vs[m]) BY <3>2, <3>3, <3>4
    <3> QED BY <3>5, <2>2, <1>3
  <2> DEFINE bad == {m \in 0..n : g[1..m] \notin X}
  <2> HIDE DEF bad
  <2>3. SUFFICES ASSUME bad # {} PROVE FALSE
    BY <1>2 DEF bad
  <2>4. bad \subseteq Nat BY DEF bad
  <2>5. PICK m \in bad : \A j \in bad : m <= j BY <2>3, <2>4, MinIsMember
  <2>6. m \in 0..n /\ g[1..m] \notin X BY <2>5 DEF bad
  <2>7. m # 0
    <3>1. 1..0 = {} OBVIOUS
    <3> QED BY <2>6, <1>2, <2>1, <3>1
  <2>8. m - 1 \in 0..n /\ m - 1 \notin bad /\ m \in 1..n BY <2>4, <2>5, <2>6, <2>7, <1>2
  <2>9. g[1..(m - 1)] \in X BY <2>8 DEF bad
  <2> QED BY <2>2, <2>6, <2>8, <2>9
<1> QED BY <1>1, <1>2, <1>10 DEF g, X

LEMMA EndOfKey ==
  ASSUME NEW f \in Nat \ {0}, NEW t \in Nat, NEW l \in Nat, l <= t + 1 - f
  PROVE  f + l - 1 \in Nat /\ f + l - 1 <= t /\ f <= (f + l - 1) + 1
OBVIOUS

LEMMA CallsFit ==
  ASSUME ObjectsFit(object), TextsGiven, [Next]_vars
  PROVE  ObjectsFit(object')
<1>1. ASSUME NEW n \in Names, make(n) PROVE ObjectsFit(object')
  <2>1. PICK kind \in Owners, t \in Seq(Chars) : \E m : NewOwner(n, kind, t, m)
    BY <1>1, Zenon DEF make, Owners, TextsGiven
  <2>2. PICK m : NewOwner(n, kind, t, m) BY <2>1
  <2> QED BY <2>2, OwnerMade
<1>2. ASSUME NEW n \in Names, NEW k \in Live, NEW v \in Live, make_pair(n, k, v) PROVE ObjectsFit(object')
  <2>1. TextOf(k) \in Seq(Chars) /\ TextOf(v) \in Seq(Chars) BY TextsOfObjects
  <2>2. Entry(TextOf(k), TextOf(v)) \in Seq(Chars) BY <2>1, CharsKnown DEF Entry
  <2>3. PICK m : NewOwner(n, "pair", Entry(TextOf(k), TextOf(v)), m) BY <1>2 DEF make_pair
  <2> QED BY <2>2, <2>3, OwnerMade DEF Owners
<1>3. ASSUME NEW n \in Names, NEW k \in Live, NEW vs \in ValueLists, make_list(n, k, vs) PROVE ObjectsFit(object')
  <2>1. TextOf(k) \in Seq(Chars) /\ vs \in Seq(Seq(Chars)) BY TextsOfObjects DEF TextsGiven
  <2>2. EntryOfList(TextOf(k), vs) \in Seq(Chars) BY <2>1, EntriesOfLists
  <2>3. PICK m : NewOwner(n, "pair", EntryOfList(TextOf(k), vs), m) BY <1>3 DEF make_list
  <2> QED BY <2>2, <2>3, OwnerMade DEF Owners
<1>4. ASSUME NEW n \in Names, NEW m \in Names, copy(n, m) PROVE ObjectsFit(object')
  <2>1. PICK family \in DOMAIN Owner : Is(m, family) /\ \E t : NewOwner(n, family, TextOf(m), t) BY <1>4 DEF copy
  <2>2. PICK t : NewOwner(n, family, TextOf(m), t) BY <2>1
  <2>3. m \in Live /\ family \in Owners BY <2>1 DEF Is, Owner, Owners
  <2> QED BY <2>2, <2>3, TextsOfObjects, OwnerMade
<1>5. ASSUME NEW n \in Names, NEW v \in Names, push_back(n, v) PROVE ObjectsFit(object')
  <2>1. Owns(n) /\ n \in Live /\ v \in Live BY <1>5 DEF push_back, Owns, Is
  <2>2. object[n].text \in Seq(Chars) /\ TextOf(v) \in Seq(Chars)
    BY <2>1, KindsOfObjects, OwnerFields, TextsOfObjects
  <2> DEFINE t == Append(object[n].text, delimiter)
  <2>3. t \in Seq(Chars) BY <2>2, CharsKnown
  <2>4. t \o (IF v = n THEN t ELSE TextOf(v)) \in Seq(Chars) BY <2>2, <2>3
  <2>5. PICK m : object' = [Without(n) EXCEPT ![n] = [kind |-> "value", text |-> t \o (IF v = n THEN t ELSE TextOf(v)),
                                                    meant |-> m]]
    BY <1>5 DEF push_back
  <2> HIDE DEF t
  <2>6. IsOwner([kind |-> "value", text |-> t \o (IF v = n THEN t ELSE TextOf(v)), meant |-> m])
    BY <2>4, Zenon DEF IsOwner, Owners
  <2> QED BY <2>5, <2>6, WithoutFits
<1>6. ASSUME NEW n \in Names, NEW m \in Names, assign(n, m) PROVE ObjectsFit(object')
  <2>1. Owns(n) /\ Owns(m) /\ n \in Live /\ m \in Live BY <1>6 DEF assign, Owns
  <2>2. IsOwner(object[n]) /\ IsOwner(object[m]) BY <2>1, KindsOfObjects
  <2>3. CASE object' = [Without(n) EXCEPT ![n] = object[m]] BY <2>2, <2>3, WithoutFits
  <2>4. CASE object' = [k \in Names |-> IF k \in {n, m} \/ k \notin Live \/ Owns(k) \/ object[k].of \notin {n, m}
                                       THEN [object EXCEPT ![n] = object[m], ![m] = object[n]][k] ELSE none]
    BY <2>2, <2>4, SwapFits
  <2> QED BY <1>6, <2>3, <2>4 DEF assign
<1>7. ASSUME NEW n \in Names, clear(n) PROVE ObjectsFit(object')
  <2>1. Owns(n) /\ n \in Live BY <1>7 DEF clear, Owns
  <2>2. object[n].kind \in Owners BY <2>1, KindsOfObjects
  <2>3. PICK m : object' = [Without(n) EXCEPT ![n] = [kind |-> object[n].kind, text |-> <<>>, meant |-> m]]
    BY <1>7 DEF clear
  <2>4. IsOwner([kind |-> object[n].kind, text |-> <<>>, meant |-> m])
    <3>1. <<>> \in Seq(Chars) OBVIOUS
    <3> QED BY <2>2, <3>1, Zenon DEF IsOwner
  <2> QED BY <2>3, <2>4, WithoutFits
<1>8. ASSUME NEW n \in Names, destroy(n) PROVE ObjectsFit(object')
  <2>1. object' = [Without(n) EXCEPT ![n] = none] BY <1>8 DEF destroy
  <2> QED BY <2>1, WithoutFits
<1>9. ASSUME NEW n \in Names, NEW m \in Names, look(n, m) PROVE ObjectsFit(object')
  <2>1. object[n] = none BY <1>9 DEF look
  <2>2. ASSUME m \in Live
        PROVE  From(m) \in Nat \ {0} /\ To(m) \in Nat /\ From(m) <= To(m) + 1
    BY <2>2, TextsOfObjects
  <2>3. ASSUME NEW family \in DOMAIN Owner, Is(m, family),
               object' = [object EXCEPT ![n] = View(ViewOf[family], m, From(m), To(m))]
        PROVE  ObjectsFit(object')
    <3>1. m \in Live BY <2>3 DEF Is
    <3>2. /\ ViewOf[family] \in Views
          /\ ViewOf[family] # "key_view" => ~Is(m, "key")
      <4>1. family \in Owners BY DEF Owner, Owners
      <4>2. ViewOf["key"] = "key_view" /\ ViewOf["value"] = "value_view" /\ ViewOf["pair"] = "pair_view" BY DEF ViewOf
      <4>3. family # "key" => ~Is(m, "key") BY <2>3, <3>1, <4>1, KindsOfObjects DEF Owners
      <4> QED BY <4>1, <4>2, <4>3 DEF Owners, Views
    <3>3. IsView(object, View(ViewOf[family], m, From(m), To(m))) BY <2>2, <3>1, <3>2, ViewsFit
    <3> QED BY <2>1, <2>3, <3>3, ViewMade
  <2>4. ASSUME Is(m, "pair")
        PROVE  IsView(object, key_of(m)) /\ IsView(object, value_of(m))
    <3>1. m \in Live /\ ~Is(m, "key")
      <4>1. m \in Live BY <2>4 DEF Is
      <4> QED BY <2>4, <4>1, KindsOfObjects
    <3>2. TextOf(m) \in Seq(Chars) /\ Len(TextOf(m)) = To(m) + 1 - From(m) BY <3>1, TextsOfObjects
    <3>3. /\ Len(Key[TextOf(m)]) \in Nat /\ Len(Value[TextOf(m)]) \in Nat
          /\ Len(Key[TextOf(m)]) <= Len(TextOf(m)) /\ Len(Value[TextOf(m)]) <= Len(TextOf(m))
      <4>1. Key[TextOf(m)] \in Seq(Chars) /\ Value[TextOf(m)] \in Seq(Chars) BY <3>2, PartsOfEntry DEF TextsGiven
      <4> QED BY <4>1, <3>2, PartsOfEntry DEF TextsGiven
    <3>4. IsView(object, View("key_view", m, From(m), From(m) + Len(Key[TextOf(m)]) - 1))
      <4>1. /\ From(m) + Len(Key[TextOf(m)]) - 1 \in Nat
            /\ From(m) + Len(Key[TextOf(m)]) - 1 <= To(m)
            /\ From(m) <= (From(m) + Len(Key[TextOf(m)]) - 1) + 1
        <5>1. Len(Key[TextOf(m)]) <= To(m) + 1 - From(m) BY <3>2, <3>3
        <5> QED BY <5>1, <2>2, <3>1, <3>3, EndOfKey
      <4> QED BY <4>1, <2>2, <3>1, ViewsFit DEF Views
    <3>5. IsView(object, View("value_view", m, To(m) + 1 - Len(Value[TextOf(m)]), To(m)))
      <4>1. /\ To(m) + 1 - Len(Value[TextOf(m)]) \in Nat
            /\ From(m) <= To(m) + 1 - Len(Value[TextOf(m)])
            /\ To(m) + 1 - Len(Value[TextOf(m)]) <= To(m) + 1
        BY <2>2, <3>1, <3>2, <3>3
      <4> QED BY <4>1, <2>2, <3>1, ViewsFit DEF Views
    <3> QED BY <3>4, <3>5 DEF key_of, value_of
  <2>5. CASE Is(m, "pair") /\ object' = [object EXCEPT ![n] = key_of(m)] BY <2>1, <2>4, <2>5, ViewMade
  <2>6. CASE Is(m, "pair") /\ object' = [object EXCEPT ![n] = value_of(m)] BY <2>1, <2>4, <2>6, ViewMade
  <2> QED BY <1>9, <2>3, <2>5, <2>6 DEF look
<1>10. CASE UNCHANGED vars
  <2>1. object' = object BY <1>10 DEF vars
  <2> QED BY <2>1
<1> QED BY <1>1, <1>2, <1>3, <1>4, <1>5, <1>6, <1>7, <1>8, <1>9, <1>10 DEF Next

-------------------------------------------------------------------------------
(***************************************************************************)
(* Comparing objects is comparing what they are about.                     *)
(***************************************************************************)
KeyCoding(t)   == Codes(Folded(t))
Smaller(s, t, u, v) == Precedes(s, t) \/ (s = t /\ Precedes(u, v))

LEMMA KeysCompared ==
  ASSUME NEW s \in Seq(Chars), NEW t \in Seq(Chars)
  PROVE  /\ KeyCoding(s) \in Codings /\ KeyCoding(t) \in Codings
         /\ KeyCoding(s) = KeyCoding(t) <=> Folded(s) = Folded(t)
         /\ CompareKeys(s, t) \in Int
         /\ CompareKeys(s, t) < 0 <=> Precedes(KeyCoding(s), KeyCoding(t))
         /\ CompareKeys(s, t) > 0 <=> Precedes(KeyCoding(t), KeyCoding(s))
         /\ CompareKeys(s, t) = 0 <=> Folded(s) = Folded(t)
<1>1. Folded(s) \in Seq(Chars) /\ Folded(t) \in Seq(Chars) BY FoldedKept
<1>2. KeyCoding(s) \in Codings /\ KeyCoding(t) \in Codings
      /\ (KeyCoding(s) = KeyCoding(t) <=> Folded(s) = Folded(t))
  BY <1>1, CodesTell DEF KeyCoding, Codings
<1> QED BY <1>2, string_compareOrders DEF CompareKeys, KeyCoding

LEMMA ValuesCompared ==
  ASSUME NEW s \in Seq(Chars), NEW t \in Seq(Chars), NEW own \in BOOLEAN
  PROVE  /\ Codes(s) \in Codings /\ Codes(t) \in Codings
         /\ Codes(s) = Codes(t) <=> s = t
         /\ CompareValues(s, t, own) \in Int
         /\ CompareValues(s, t, own) < 0 <=> Precedes(Codes(s), Codes(t))
         /\ CompareValues(s, t, own) > 0 <=> Precedes(Codes(t), Codes(s))
         /\ CompareValues(s, t, own) = 0 <=> s = t
<1>1. Codes(s) \in Codings /\ Codes(t) \in Codings /\ (Codes(s) = Codes(t) <=> s = t)
  BY CodesTell DEF Codings
<1>2. CompareValues(s, t, own) \in {string_compare(Codes(s), Codes(t)), cstring_compare(Codes(s), Codes(t))}
  BY DEF CompareValues
<1>3. /\ string_compare(Codes(s), Codes(t)) \in Int
      /\ string_compare(Codes(s), Codes(t)) < 0 <=> Precedes(Codes(s), Codes(t))
      /\ string_compare(Codes(s), Codes(t)) > 0 <=> Precedes(Codes(t), Codes(s))
      /\ string_compare(Codes(s), Codes(t)) = 0 <=> s = t
  BY <1>1, string_compareOrders
<1>4. /\ cstring_compare(Codes(s), Codes(t)) \in Int
      /\ cstring_compare(Codes(s), Codes(t)) < 0 <=> string_compare(Codes(s), Codes(t)) < 0
      /\ cstring_compare(Codes(s), Codes(t)) > 0 <=> string_compare(Codes(s), Codes(t)) > 0
  BY <1>1, cstring_compareOrders
<1>5. cstring_compare(Codes(s), Codes(t)) = 0 <=> s = t BY <1>3, <1>4
<1> QED BY <1>1, <1>2, <1>3, <1>4, <1>5

LEMMA PairsCompared ==
  ASSUME CharsAreStrings, NEW s \in Seq(Chars), NEW t \in Seq(Chars)
  PROVE  /\ ComparePairs(s, t) \in Int
         /\ ComparePairs(s, t) < 0 <=> Smaller(KeyCoding(Key[s]), KeyCoding(Key[t]), Codes(Value[s]), Codes(Value[t]))
         /\ ComparePairs(s, t) > 0 <=> Smaller(KeyCoding(Key[t]), KeyCoding(Key[s]), Codes(Value[t]), Codes(Value[s]))
         /\ ComparePairs(s, t) = 0 <=> Folded(Key[s]) = Folded(Key[t]) /\ Value[s] = Value[t]
<1>1. Key[s] \in Seq(Chars) /\ Key[t] \in Seq(Chars) /\ Value[s] \in Seq(Chars) /\ Value[t] \in Seq(Chars)
  BY PartsOfEntry
<1> DEFINE c == CompareKeys(Key[s], Key[t])
<1> DEFINE d == CompareValues(Value[s], Value[t], FALSE)
<1>2. ComparePairs(s, t) = IF c # 0 THEN c ELSE d BY DEF ComparePairs
<1>3. /\ KeyCoding(Key[s]) \in Codings /\ KeyCoding(Key[t]) \in Codings
      /\ KeyCoding(Key[s]) = KeyCoding(Key[t]) <=> Folded(Key[s]) = Folded(Key[t])
      /\ c \in Int
      /\ c < 0 <=> Precedes(KeyCoding(Key[s]), KeyCoding(Key[t]))
      /\ c > 0 <=> Precedes(KeyCoding(Key[t]), KeyCoding(Key[s]))
      /\ c = 0 <=> Folded(Key[s]) = Folded(Key[t])
  BY <1>1, KeysCompared
<1>4. /\ d \in Int
      /\ d < 0 <=> Precedes(Codes(Value[s]), Codes(Value[t]))
      /\ d > 0 <=> Precedes(Codes(Value[t]), Codes(Value[s]))
      /\ d = 0 <=> Value[s] = Value[t]
  BY <1>1, ValuesCompared
<1> HIDE DEF c, d
<1>5. CASE c = 0
  <2>1. ~Precedes(KeyCoding(Key[s]), KeyCoding(Key[t])) /\ ~Precedes(KeyCoding(Key[t]), KeyCoding(Key[s]))
        /\ KeyCoding(Key[s]) = KeyCoding(Key[t]) /\ KeyCoding(Key[t]) = KeyCoding(Key[s])
    BY <1>3, <1>5
  <2> QED BY <1>2, <1>3, <1>4, <1>5, <2>1 DEF Smaller
<1>6. CASE c # 0
  <2>1. KeyCoding(Key[s]) # KeyCoding(Key[t]) /\ KeyCoding(Key[t]) # KeyCoding(Key[s]) BY <1>3, <1>6
  <2> QED BY <1>2, <1>3, <1>6, <2>1 DEF Smaller
<1> QED BY <1>5, <1>6

First(n) == IF Is(n, "value") THEN Codes(TextOf(n))
            ELSE IF Is(n, "key") THEN KeyCoding(TextOf(n)) ELSE KeyCoding(Key[TextOf(n)])
Second(n) == IF Is(n, "pair") THEN Codes(Value[TextOf(n)]) ELSE <<>>

LEMMA SmallerTransitive ==
  ASSUME NEW a \in Codings, NEW b \in Codings, NEW c \in Codings,
         NEW x \in Codings, NEW y \in Codings, NEW z \in Codings,
         (a = b /\ x = y) \/ Smaller(a, b, x, y), (b = c /\ y = z) \/ Smaller(b, c, y, z)
  PROVE  (a = c /\ x = z) \/ Smaller(a, c, x, z)
<1>1. Precedes(a, b) /\ Precedes(b, c) => Precedes(a, c) BY PrecedesTransitive
<1>2. Precedes(x, y) /\ Precedes(y, z) => Precedes(x, z) BY PrecedesTransitive
<1> QED BY <1>1, <1>2 DEF Smaller

LEMMA NothingPrecedes == <<>> \in Codings /\ ~Precedes(<<>>, <<>>)
BY DEF Codings, Precedes

LEMMA OneFamily ==
  ASSUME ObjectsFit(object), NEW n \in Live, NEW family \in DOMAIN Owner, Is(n, family)
  PROVE  /\ family = "key" => Is(n, "key") /\ ~Is(n, "value") /\ ~Is(n, "pair")
         /\ family = "value" => Is(n, "value") /\ ~Is(n, "key") /\ ~Is(n, "pair")
         /\ family = "pair" => Is(n, "pair") /\ ~Is(n, "key") /\ ~Is(n, "value")
<1>1. object[n].kind \in {family, ViewOf[family]} BY DEF Is
<1>2. CASE family = "key"
  <2>1. object[n].kind \in {"key", "key_view"} BY <1>1, <1>2 DEF ViewOf
  <2> QED BY <2>1, <1>2, KindsOfObjects
<1>3. CASE family = "value"
  <2>1. object[n].kind \in {"value", "value_view"} BY <1>1, <1>3 DEF ViewOf
  <2> QED BY <2>1, <1>3, KindsOfObjects
<1>4. CASE family = "pair"
  <2>1. object[n].kind \in {"pair", "pair_view"} BY <1>1, <1>4 DEF ViewOf
  <2> QED BY <2>1, <1>4, KindsOfObjects
<1>5. family \in {"key", "value", "pair"} BY DEF Owner
<1> QED BY <1>2, <1>3, <1>4, <1>5

LEMMA TurnedSign ==
  ASSUME NEW c, NEW d \in Int, c = -d
  PROVE  c \in Int /\ (c < 0 <=> d > 0) /\ (c > 0 <=> d < 0) /\ (c = 0 <=> d = 0)
OBVIOUS

LEMMA ObjectsCompared ==
  ASSUME ObjectsFit(object), TextsGiven, NEW family \in DOMAIN Owner, NEW n \in Live, NEW m \in Live,
         Is(n, family), Is(m, family)
  PROVE  /\ First(n) \in Codings /\ Second(n) \in Codings
         /\ compare(n, m) \in Int
         /\ compare(n, m) < 0 <=> Smaller(First(n), First(m), Second(n), Second(m))
         /\ compare(n, m) > 0 <=> Smaller(First(m), First(n), Second(m), Second(n))
         /\ compare(n, m) = 0 <=> First(n) = First(m) /\ Second(n) = Second(m)
         /\ compare(n, m) = 0 <=> About(n) = About(m)
<1> DEFINE s == TextOf(n)
<1> DEFINE t == TextOf(m)
<1>1. s \in Seq(Chars) /\ t \in Seq(Chars) BY TextsOfObjects
<1>2. CharsAreStrings BY DEF TextsGiven
<1>3. family \in {"key", "value", "pair"} BY DEF Owner
<1>4. /\ family = "key" => /\ Is(n, "key") /\ ~Is(n, "value") /\ ~Is(n, "pair")
                           /\ Is(m, "key") /\ ~Is(m, "value") /\ ~Is(m, "pair")
      /\ family = "value" => /\ Is(n, "value") /\ ~Is(n, "key") /\ ~Is(n, "pair")
                             /\ Is(m, "value") /\ ~Is(m, "key") /\ ~Is(m, "pair")
      /\ family = "pair" => /\ Is(n, "pair") /\ ~Is(n, "key") /\ ~Is(n, "value")
                            /\ Is(m, "pair") /\ ~Is(m, "key") /\ ~Is(m, "value")
  BY OneFamily
<1>5. CASE family = "key"
  <2>1. Is(n, "key") /\ ~Is(n, "value") /\ ~Is(n, "pair") /\ Is(m, "key") /\ ~Is(m, "value") /\ ~Is(m, "pair")
    BY <1>4, <1>5
  <2>2. First(n) = KeyCoding(s) /\ First(m) = KeyCoding(t) /\ Second(n) = <<>> /\ Second(m) = <<>>
        /\ About(n) = Folded(s) /\ About(m) = Folded(t)
    BY <2>1 DEF First, Second, About
  <2>3. compare(n, m) = IF Turned(n, m) THEN -CompareKeys(t, s) ELSE CompareKeys(s, t) BY <2>1 DEF compare
  <2> HIDE DEF s, t
  <2>4. /\ KeyCoding(s) \in Codings /\ KeyCoding(t) \in Codings
        /\ KeyCoding(s) = KeyCoding(t) <=> Folded(s) = Folded(t)
        /\ CompareKeys(s, t) \in Int
        /\ CompareKeys(s, t) < 0 <=> Precedes(KeyCoding(s), KeyCoding(t))
        /\ CompareKeys(s, t) > 0 <=> Precedes(KeyCoding(t), KeyCoding(s))
        /\ CompareKeys(s, t) = 0 <=> Folded(s) = Folded(t)
    BY <1>1, KeysCompared
  <2>5. /\ CompareKeys(t, s) \in Int
        /\ CompareKeys(t, s) < 0 <=> Precedes(KeyCoding(t), KeyCoding(s))
        /\ CompareKeys(t, s) > 0 <=> Precedes(KeyCoding(s), KeyCoding(t))
        /\ CompareKeys(t, s) = 0 <=> Folded(t) = Folded(s)
    BY <1>1, KeysCompared
  <2> HIDE DEF First, Second
  <2>6. /\ compare(n, m) \in Int
        /\ compare(n, m) < 0 <=> Precedes(KeyCoding(s), KeyCoding(t))
        /\ compare(n, m) > 0 <=> Precedes(KeyCoding(t), KeyCoding(s))
        /\ compare(n, m) = 0 <=> Folded(s) = Folded(t)
    BY <2>3, <2>4, <2>5
  <2> QED BY <2>2, <2>4, <2>6, NothingPrecedes DEF Smaller
<1>6. CASE family = "value"
  <2>1. Is(n, "value") /\ ~Is(n, "key") /\ ~Is(n, "pair") /\ Is(m, "value") /\ ~Is(m, "key") /\ ~Is(m, "pair")
    BY <1>4, <1>6
  <2>2. First(n) = Codes(s) /\ First(m) = Codes(t) /\ Second(n) = <<>> /\ Second(m) = <<>>
        /\ About(n) = s /\ About(m) = t
    BY <2>1 DEF First, Second, About
  <2> DEFINE own == Owns(n) /\ Owns(m)
  <2>3. compare(n, m) = IF Turned(n, m) THEN -CompareValues(t, s, FALSE) ELSE CompareValues(s, t, own)
    BY <2>1 DEF compare
  <2>7. own \in BOOLEAN OBVIOUS
  <2> HIDE DEF s, t, own
  <2>4. /\ Codes(s) \in Codings /\ Codes(t) \in Codings
        /\ Codes(s) = Codes(t) <=> s = t
        /\ CompareValues(s, t, own) \in Int
        /\ CompareValues(s, t, own) < 0 <=> Precedes(Codes(s), Codes(t))
        /\ CompareValues(s, t, own) > 0 <=> Precedes(Codes(t), Codes(s))
        /\ CompareValues(s, t, own) = 0 <=> s = t
    BY <1>1, <2>7, ValuesCompared
  <2>5. /\ CompareValues(t, s, FALSE) \in Int
        /\ CompareValues(t, s, FALSE) < 0 <=> Precedes(Codes(t), Codes(s))
        /\ CompareValues(t, s, FALSE) > 0 <=> Precedes(Codes(s), Codes(t))
        /\ CompareValues(t, s, FALSE) = 0 <=> t = s
    BY <1>1, ValuesCompared
  <2>6. /\ compare(n, m) \in Int
        /\ compare(n, m) < 0 <=> Precedes(Codes(s), Codes(t))
        /\ compare(n, m) > 0 <=> Precedes(Codes(t), Codes(s))
        /\ compare(n, m) = 0 <=> s = t
    <3>1. CASE Turned(n, m)
      <4>1. compare(n, m) = -CompareValues(t, s, FALSE) BY <2>3, <3>1
      <4>2. /\ compare(n, m) \in Int
            /\ compare(n, m) < 0 <=> CompareValues(t, s, FALSE) > 0
            /\ compare(n, m) > 0 <=> CompareValues(t, s, FALSE) < 0
            /\ compare(n, m) = 0 <=> CompareValues(t, s, FALSE) = 0
        BY <4>1, <2>5, TurnedSign
      <4> QED BY <4>2, <2>5
    <3>2. CASE ~Turned(n, m)
      <4>1. compare(n, m) = CompareValues(s, t, own) BY <2>3, <3>2
      <4> QED BY <4>1, <2>4
    <3> QED BY <3>1, <3>2
  <2> QED BY <2>2, <2>4, <2>6, NothingPrecedes DEF Smaller
<1>7. CASE family = "pair"
  <2>1. Is(n, "pair") /\ ~Is(n, "key") /\ ~Is(n, "value") /\ Is(m, "pair") /\ ~Is(m, "key") /\ ~Is(m, "value")
    BY <1>4, <1>7
  <2>2. /\ First(n) = KeyCoding(Key[s]) /\ First(m) = KeyCoding(Key[t])
        /\ Second(n) = Codes(Value[s]) /\ Second(m) = Codes(Value[t])
        /\ About(n) = <<Folded(Key[s]), Value[s]>> /\ About(m) = <<Folded(Key[t]), Value[t]>>
    BY <2>1 DEF First, Second, About
  <2>3. compare(n, m) = ComparePairs(s, t) BY <2>1 DEF compare
  <2> HIDE DEF s, t
  <2>4. Key[s] \in Seq(Chars) /\ Key[t] \in Seq(Chars) /\ Value[s] \in Seq(Chars) /\ Value[t] \in Seq(Chars)
    BY <1>1, <1>2, PartsOfEntry
  <2>5. KeyCoding(Key[s]) \in Codings /\ (KeyCoding(Key[s]) = KeyCoding(Key[t]) <=> Folded(Key[s]) = Folded(Key[t]))
    BY <2>4, KeysCompared
  <2>6. Codes(Value[s]) \in Codings /\ (Codes(Value[s]) = Codes(Value[t]) <=> Value[s] = Value[t])
    BY <2>4, ValuesCompared
  <2>7. /\ ComparePairs(s, t) \in Int
        /\ ComparePairs(s, t) < 0 <=> Smaller(KeyCoding(Key[s]), KeyCoding(Key[t]), Codes(Value[s]), Codes(Value[t]))
        /\ ComparePairs(s, t) > 0 <=> Smaller(KeyCoding(Key[t]), KeyCoding(Key[s]), Codes(Value[t]), Codes(Value[s]))
        /\ ComparePairs(s, t) = 0 <=> Folded(Key[s]) = Folded(Key[t]) /\ Value[s] = Value[t]
    BY <1>1, <1>2, PairsCompared
  <2> QED BY <2>2, <2>3, <2>5, <2>6, <2>7
<1> QED BY <1>3, <1>5, <1>6, <1>7

LEMMA FoldedAlike ==
  ASSUME ~windows, NEW k \in Seq(Chars)
  PROVE  Folded(k) = k
BY DEF Folded, to_lower

LEMMA WholeTexts ==
  ASSUME ObjectsFit(object), NEW n \in Live, To(n) = Len(object[Base(n)].text)
  PROVE  UpToNul(n) = TextOf(n)
BY DEF UpToNul, TextOf

LEMMA HashesAgree ==
  ASSUME ObjectsFit(object), TextsGiven, NEW family \in DOMAIN Owner, NEW n \in Live, NEW m \in Live,
         Is(n, family), Is(m, family), About(n) = About(m), Hashed(n), Hashed(m)
  PROVE  hash_value(n) = hash_value(m)
<1> DEFINE s == TextOf(n)
<1> DEFINE t == TextOf(m)
<1>1. s \in Seq(Chars) /\ t \in Seq(Chars) BY TextsOfObjects
<1>2. CharsAreStrings BY DEF TextsGiven
<1>3. family \in {"key", "value", "pair"} BY DEF Owner
<1>4. /\ family = "key" => /\ Is(n, "key") /\ ~Is(n, "value") /\ ~Is(n, "pair")
                           /\ Is(m, "key") /\ ~Is(m, "value") /\ ~Is(m, "pair")
      /\ family = "value" => /\ Is(n, "value") /\ ~Is(n, "key") /\ ~Is(n, "pair")
                             /\ Is(m, "value") /\ ~Is(m, "key") /\ ~Is(m, "pair")
      /\ family = "pair" => /\ Is(n, "pair") /\ ~Is(n, "key") /\ ~Is(n, "value")
                            /\ Is(m, "pair") /\ ~Is(m, "key") /\ ~Is(m, "value")
  BY OneFamily
<1>5. CASE family = "key"
  <2>1. Is(n, "key") /\ ~Is(n, "value") /\ ~Is(n, "pair") /\ Is(m, "key") /\ ~Is(m, "value") /\ ~Is(m, "pair")
    BY <1>4, <1>5
  <2>2. Folded(s) = Folded(t) BY <2>1 DEF About
  <2>3. UpToNul(n) = s /\ UpToNul(m) = t BY <2>1, WholeTexts DEF Hashed
  <2> QED BY <2>1, <2>2, <2>3 DEF hash_value
<1>6. CASE family = "value"
  <2>1. Is(n, "value") /\ ~Is(n, "key") /\ ~Is(n, "pair") /\ Is(m, "value") /\ ~Is(m, "key") /\ ~Is(m, "pair")
    BY <1>4, <1>6
  <2>2. s = t BY <2>1 DEF About
  <2>3. UpToNul(n) = s /\ UpToNul(m) = t BY <2>1, WholeTexts, TextsOfObjects
  <2> QED BY <2>1, <2>2, <2>3 DEF hash_value
<1>7. CASE family = "pair"
  <2>1. Is(n, "pair") /\ ~Is(n, "key") /\ ~Is(n, "value") /\ Is(m, "pair") /\ ~Is(m, "key") /\ ~Is(m, "value")
    BY <1>4, <1>7
  <2>2. Folded(Key[s]) = Folded(Key[t]) /\ Value[s] = Value[t] BY <2>1 DEF About
  <2>3. UpToNul(n) = s /\ UpToNul(m) = t BY <2>1, WholeTexts, TextsOfObjects
  <2>4. ~windows /\ Find(s, equality_sign) # 0 /\ Find(t, equality_sign) # 0 BY <2>1 DEF Hashed
  <2> HIDE DEF s, t
  <2>5. Key[s] = Key[t] BY <1>1, <1>2, <2>2, <2>4, PartsOfEntry, FoldedAlike
  <2>6. s = Entry(Key[s], Value[s]) /\ t = Entry(Key[t], Value[t]) BY <1>1, <1>2, <2>4, PartsOfEntry
  <2>7. s = t BY <2>2, <2>5, <2>6
  <2> QED BY <2>1, <2>3, <2>7 DEF hash_value
<1> QED BY <1>3, <1>5, <1>6, <1>7

LEMMA FitIsCoherent ==
  ASSUME ObjectsFit(object), TextsGiven
  PROVE  OrderCoherent
<1>1. ASSUME NEW family \in DOMAIN Owner, NEW n \in Live, NEW m \in Live, Is(n, family), Is(m, family)
      PROVE  /\ compare(n, m) = 0 <=> About(n) = About(m)
             /\ compare(n, m) < 0 <=> compare(m, n) > 0
             /\ About(n) = About(m) /\ Hashed(n) /\ Hashed(m) => hash_value(n) = hash_value(m)
             /\ \A k \in Live : Is(k, family) /\ compare(n, m) <= 0 /\ compare(m, k) <= 0 => compare(n, k) <= 0
  <2>1. compare(n, m) = 0 <=> About(n) = About(m) BY <1>1, ObjectsCompared
  <2>2. compare(n, m) < 0 <=> compare(m, n) > 0
    <3>1. compare(n, m) < 0 <=> Smaller(First(n), First(m), Second(n), Second(m)) BY <1>1, ObjectsCompared
    <3>2. compare(m, n) > 0 <=> Smaller(First(n), First(m), Second(n), Second(m)) BY <1>1, ObjectsCompared
    <3> QED BY <3>1, <3>2
  <2>3. About(n) = About(m) /\ Hashed(n) /\ Hashed(m) => hash_value(n) = hash_value(m) BY <1>1, HashesAgree
  <2>4. ASSUME NEW k \in Live, Is(k, family), compare(n, m) <= 0, compare(m, k) <= 0 PROVE compare(n, k) <= 0
    <3>1. First(n) \in Codings /\ Second(n) \in Codings /\ First(m) \in Codings /\ Second(m) \in Codings
          /\ First(k) \in Codings /\ Second(k) \in Codings
      BY <1>1, <2>4, ObjectsCompared
    <3>2. (First(n) = First(m) /\ Second(n) = Second(m)) \/ Smaller(First(n), First(m), Second(n), Second(m))
      <4>1. compare(n, m) \in Int
            /\ (compare(n, m) < 0 <=> Smaller(First(n), First(m), Second(n), Second(m)))
            /\ (compare(n, m) = 0 <=> First(n) = First(m) /\ Second(n) = Second(m))
        BY <1>1, ObjectsCompared
      <4> QED BY <4>1, <2>4
    <3>3. (First(m) = First(k) /\ Second(m) = Second(k)) \/ Smaller(First(m), First(k), Second(m), Second(k))
      <4>1. compare(m, k) \in Int
            /\ (compare(m, k) < 0 <=> Smaller(First(m), First(k), Second(m), Second(k)))
            /\ (compare(m, k) = 0 <=> First(m) = First(k) /\ Second(m) = Second(k))
        BY <1>1, <2>4, ObjectsCompared
      <4> QED BY <4>1, <2>4
    <3>4. (First(n) = First(k) /\ Second(n) = Second(k)) \/ Smaller(First(n), First(k), Second(n), Second(k))
      BY <3>1, <3>2, <3>3, SmallerTransitive
    <3>5. compare(n, k) \in Int
          /\ (compare(n, k) < 0 <=> Smaller(First(n), First(k), Second(n), Second(k)))
          /\ (compare(n, k) = 0 <=> First(n) = First(k) /\ Second(n) = Second(k))
      BY <1>1, <2>4, ObjectsCompared
    <3> QED BY <3>4, <3>5
  <2> QED BY <2>1, <2>2, <2>3, <2>4
<1> QED BY <1>1, Zenon DEF OrderCoherent

\* However keys, values, pairs and their views are made, copied, appended to, assigned, swapped,
\* cleared and destroyed, comparing them is a total order in which exactly those are equal that
\* are about the same, from both sides, and those have the same hash, but for the views of a
\* pair's key and a pair without a '='.
THEOREM OrderCoherentHolds == ASSUME TextsGiven PROVE Spec => []OrderCoherent
<1>1. Init => ObjectsFit(object) BY DEF Init, ObjectsFit
<1>2. ObjectsFit(object) /\ [Next]_vars => ObjectsFit(object)' BY CallsFit
<1>3. ObjectsFit(object) => OrderCoherent BY FitIsCoherent
<1> QED BY <1>1, <1>2, <1>3, PTL DEF Spec

-------------------------------------------------------------------------------
(***************************************************************************)
(* Objects of class shell.  Arrays are numbered by the call that made them; *)
(* none is made twice.                                                     *)
(***************************************************************************)
IsObject(o) == \E a, w, l, v, m : o = [array |-> a, words |-> w, line |-> l, view |-> v, meant |-> m]
\* The mark of a shell that does not exist is no shell.
NoneIsNoObject == ~IsObject(none)

Holds(f, s, a) == f[s] # none /\ f[s].array = a
Owned(f, arrays) ==
  /\ f = [s \in Shells |-> f[s]]
  /\ \A s \in Shells : f[s] = none \/ IsObject(f[s])
  /\ \A s \in Shells : f[s] # none => f[s].array \in arrays \cup {0}
  /\ \A a \in arrays : \E s \in Shells : Holds(f, s, a) /\ \A t \in Shells : Holds(f, t, a) => t = s

ShellInv == calls \in Nat /\ live \subseteq 1..calls /\ Owned(shell, live)

LEMMA MovedKeepsArray ==
  ASSUME NEW o, IsObject(o)
  PROVE  IsObject(Cmd!Moved(o)) /\ Cmd!Moved(o).array = o.array
<1>1. PICK a, w, l, v, m : o = [array |-> a, words |-> w, line |-> l, view |-> v, meant |-> m]
  BY DEF IsObject
<1>2. ASSUME NEW y
      PROVE  IsObject([o EXCEPT !.view = y]) /\ [o EXCEPT !.view = y].array = o.array
  <2>1. [o EXCEPT !.view = y] = [array |-> a, words |-> w, line |-> l, view |-> y, meant |-> m] BY <1>1
  <2>2. IsObject([o EXCEPT !.view = y]) BY <2>1, Zenon DEF IsObject
  <2>3. [o EXCEPT !.view = y].array = o.array BY <1>1, <2>1
  <2> QED BY <2>2, <2>3
<1>4. \E y : Cmd!Moved(o) = [o EXCEPT !.view = y] BY Zenon DEF Cmd!Moved
<1> QED BY <1>2, <1>4, Zenon

LEMMA EmptyIsObject == IsObject(Cmd!Empty) /\ Cmd!Empty.array = 0
BY DEF IsObject, Cmd!Empty

LEMMA CallOwned ==
  ASSUME ShellInv, Cmd!Call, NEW gone, live' = live \ {gone}, Owned(shell', live')
  PROVE  ShellInv'
<1>1. calls' = calls + 1 /\ calls \in Nat /\ live \subseteq 1..calls BY DEF Cmd!Call, ShellInv
<1>2. \A x \in live' : x \in 1..calls BY <1>1
<1>3. \A x \in 1..calls : x \in 1..calls' BY <1>1
<1>4. calls' \in Nat /\ live' \subseteq 1..calls'
  <2>1. calls' \in Nat BY <1>1
  <2>2. live' \subseteq 1..calls' BY <1>2, <1>3, Zenon
  <2> QED BY <2>1, <2>2
<1> QED BY <1>4 DEF ShellInv

\* What a call does to the shells and the arrays, whatever the system and the texts.
Parsed(s) ==
  /\ Cmd!Call /\ shell[s] = none /\ live' = live \cup {calls'}
  /\ \E words, line, view, meant :
       shell' = [shell EXCEPT ![s] = [array |-> calls', words |-> words, line |-> line,
                                      view |-> view, meant |-> meant]]
ShellStep ==
  \/ UNCHANGED <<shell, live>> /\ calls' \in {calls, calls + 1}
  \/ \E s \in Shells : \/ Parsed(s) \/ Cmd!default(s) \/ Cmd!destroy(s)
                       \/ \E t \in Shells : Cmd!move_construct(s, t) \/ Cmd!move_assign(s, t)

LEMMA CallsAreShellSteps == [Cmd!Next]_(Cmd!vars) => ShellStep
<1>1. ASSUME NEW ws, Cmd!Launch(ws) PROVE ShellStep
  BY <1>1 DEF Cmd!Launch, ShellStep
<1>2. ASSUME NEW s \in Shells, Cmd!launch_shell(s) PROVE ShellStep
  BY <1>2 DEF Cmd!launch_shell, Cmd!Call, ShellStep
<1>3. ASSUME NEW s \in Shells, NEW line, NEW meant, NEW view, Cmd!parse(s, line, meant, view) PROVE ShellStep
  <2>1. Cmd!Call /\ shell[s] = none /\ calls' = calls + 1 BY <1>3 DEF Cmd!parse, Cmd!Call
  <2>2. PICK words : IF ~windows /\ Cmd!ShellFails(line) THEN UNCHANGED <<shell, live>>
                     ELSE /\ shell' = [shell EXCEPT ![s] = [array |-> calls', words |-> words, line |-> line,
                                                            view |-> view, meant |-> meant]]
                          /\ live' = live \cup {calls'}
    BY <1>3 DEF Cmd!parse
  <2>3. CASE UNCHANGED <<shell, live>> BY <2>1, <2>3 DEF ShellStep
  <2>4. CASE ~UNCHANGED <<shell, live>>
    <3>1. live' = live \cup {calls'} /\ shell' = [shell EXCEPT ![s] = [array |-> calls', words |-> words, line |-> line,
                                                                      view |-> view, meant |-> meant]]
      BY <2>2, <2>4
    <3>2. Parsed(s) BY <2>1, <3>1, Zenon DEF Parsed
    <3> QED BY <3>2 DEF ShellStep
  <2> QED BY <2>3, <2>4
<1>4. CASE UNCHANGED Cmd!vars BY <1>4 DEF Cmd!vars, ShellStep
<1>5. ASSUME NEW s \in Shells,
             \/ Cmd!default(s) \/ Cmd!destroy(s)
             \/ \E t \in Shells : Cmd!move_construct(s, t) \/ Cmd!move_assign(s, t)
      PROVE  ShellStep
  BY <1>5, Zenon DEF ShellStep
<1>6. Cmd!Next => ShellStep BY <1>1, <1>2, <1>3, <1>5, Zenon DEF Cmd!Next
<1> QED BY <1>4, <1>6

LEMMA ShellInvInit ==
  ASSUME shell = [s \in Shells |-> none], live = {}, calls = 0
  PROVE  ShellInv
BY DEF ShellInv, Owned

LEMMA ShellInvStep ==
  ASSUME ShellInv, NoneIsNoObject, ShellStep
  PROVE  ShellInv'
<1>1. /\ calls \in Nat /\ live \subseteq 1..calls /\ 0 \notin live
      /\ shell = [s \in Shells |-> shell[s]]
      /\ \A s \in Shells : shell[s] = none \/ IsObject(shell[s])
      /\ \A s \in Shells : shell[s] # none => shell[s].array \in live \cup {0}
      /\ \A a \in live : \E s \in Shells : Holds(shell, s, a) /\ \A t \in Shells : Holds(shell, t, a) => t = s
  BY DEF ShellInv, Owned
<1>2. ~IsObject(none) BY DEF NoneIsNoObject
<1>3. ASSUME UNCHANGED <<shell, live>>, calls' \in {calls, calls + 1} PROVE ShellInv'
  <2>1. calls' \in Nat /\ live' \subseteq 1..calls' BY <1>1, <1>3
  <2> QED BY <2>1, <1>1, <1>3 DEF ShellInv
<1>6. ASSUME NEW s \in Shells, Cmd!default(s) PROVE ShellInv'
  <2>1. /\ Cmd!Call /\ shell[s] = none /\ shell' = [shell EXCEPT ![s] = Cmd!Empty] /\ live' = live \ {0}
    BY <1>1, <1>6 DEF Cmd!default
  <2>2. \A t \in Shells : shell'[t] = IF t = s THEN Cmd!Empty ELSE shell[t] BY <2>1, <1>1
  <2>3. shell' = [t \in Shells |-> shell'[t]] BY <2>1, <1>1
  <2>4. \A a \in live, t \in Shells : Holds(shell', t, a) <=> Holds(shell, t, a)
    BY <2>1, <2>2, <1>1, EmptyIsObject DEF Holds
  <2>5. \A a \in live' : \E t \in Shells : Holds(shell', t, a) /\ \A r \in Shells : Holds(shell', r, a) => r = t
    BY <2>1, <2>4, <1>1
  <2>6. \A t \in Shells : shell'[t] = none \/ IsObject(shell'[t]) BY <2>2, <1>1, EmptyIsObject
  <2>7. \A t \in Shells : shell'[t] # none => shell'[t].array \in live' \cup {0}
    BY <2>1, <2>2, <1>1, EmptyIsObject
  <2>20. Owned(shell', live') BY <2>1, <2>3, <2>5, <2>6, <2>7 DEF Owned
  <2> QED BY <2>1, <2>20, CallOwned
<1>7. ASSUME NEW s \in Shells, Parsed(s) PROVE ShellInv'
  <2>1. Cmd!Call /\ shell[s] = none /\ calls' = calls + 1 BY <1>7 DEF Parsed, Cmd!Call
  <2>2. PICK words, line, view, meant :
          /\ live' = live \cup {calls'}
          /\ shell' = [shell EXCEPT ![s] = [array |-> calls', words |-> words, line |-> line,
                                            view |-> view, meant |-> meant]]
    BY <1>7 DEF Parsed
  <2>3. QED
    <3> DEFINE o == [array |-> calls', words |-> words, line |-> line, view |-> view, meant |-> meant]
    <3>1. shell' = [shell EXCEPT ![s] = o] /\ live' = live \cup {calls'} BY <2>2
    <3>2. IsObject(o) /\ o.array = calls' BY DEF IsObject
    <3>3. \A t \in Shells : shell'[t] = IF t = s THEN o ELSE shell[t] BY <3>1, <1>1
    <3>4. shell' = [t \in Shells |-> shell'[t]] BY <3>1, <1>1
    <3> HIDE DEF o
    <3>5. calls' \in Nat /\ live' \subseteq 1..calls' /\ calls' \notin live /\ calls' # 0 BY <3>1, <2>1, <1>1
    <3>6. \A a \in live, t \in Shells : Holds(shell', t, a) <=> Holds(shell, t, a)
      BY <2>1, <3>2, <3>3, <3>5, <1>1 DEF Holds
    <3>7. \A t \in Shells : Holds(shell', t, calls') <=> t = s
      BY <2>1, <3>2, <3>3, <3>5, <1>1, <1>2 DEF Holds
    <3>8. \A a \in live' : \E t \in Shells : Holds(shell', t, a) /\ \A r \in Shells : Holds(shell', r, a) => r = t
      <4> TAKE a \in live'
      <4>1. CASE a \in live
        <5>1. PICK t \in Shells : Holds(shell, t, a) /\ \A r \in Shells : Holds(shell, r, a) => r = t
          BY <4>1, <1>1
        <5> QED BY <4>1, <5>1, <3>6
      <4>2. CASE a = calls' BY <4>2, <3>7
      <4> QED BY <4>1, <4>2, <3>1
    <3>9. \A t \in Shells : shell'[t] = none \/ IsObject(shell'[t]) BY <3>2, <3>3, <1>1
    <3>10. \A t \in Shells : shell'[t] # none => shell'[t].array \in live' \cup {0}
      BY <3>1, <3>2, <3>3, <1>1
    <3>11. Owned(shell', live') BY <3>4, <3>8, <3>9, <3>10 DEF Owned
    <3> QED BY <3>5, <3>11 DEF ShellInv
<1>8. ASSUME NEW s \in Shells, Cmd!destroy(s) PROVE ShellInv'
  <2>1. /\ Cmd!Call /\ shell[s] # none /\ shell' = [shell EXCEPT ![s] = none] /\ live' = live \ {shell[s].array}
    BY <1>8 DEF Cmd!destroy
  <2>2. \A t \in Shells : shell'[t] = IF t = s THEN none ELSE shell[t] BY <2>1, <1>1
  <2>3. shell' = [t \in Shells |-> shell'[t]] BY <2>1, <1>1
  <2>4. \A a \in live', t \in Shells : Holds(shell', t, a) <=> Holds(shell, t, a)
    BY <2>1, <2>2 DEF Holds
  <2>5. \A a \in live' : \E t \in Shells : Holds(shell', t, a) /\ \A r \in Shells : Holds(shell', r, a) => r = t
    BY <2>1, <2>4, <1>1
  <2>6. \A t \in Shells : shell'[t] # none => shell'[t].array \in live' \cup {0}
    <3> SUFFICES ASSUME NEW t \in Shells, shell'[t] # none PROVE shell'[t].array \in live' \cup {0} OBVIOUS
    <3>1. t # s /\ shell'[t] = shell[t] /\ shell[t].array \in live \cup {0} BY <2>2, <1>1
    <3>2. shell[t].array \in live => shell[t].array # shell[s].array BY <3>1, <2>1, <2>2, <1>1 DEF Holds
    <3> QED BY <3>1, <3>2, <2>1
  <2>20. Owned(shell', live') BY <2>1, <2>2, <2>3, <2>5, <2>6, <1>1 DEF Owned
  <2> QED BY <2>1, <2>20, CallOwned
<1>9. ASSUME NEW s \in Shells, NEW t \in Shells, Cmd!move_construct(s, t) PROVE ShellInv'
  <2>1. /\ Cmd!Call /\ shell[s] = none /\ shell[t] # none /\ s # t /\ live' = live \ {0}
        /\ shell' = [shell EXCEPT ![s] = Cmd!Moved(shell[t]), ![t] = Cmd!Empty]
    BY <1>1, <1>9 DEF Cmd!move_construct
  <2>2. \A r \in Shells : shell'[r] = IF r = t THEN Cmd!Empty ELSE IF r = s THEN Cmd!Moved(shell[t]) ELSE shell[r]
    BY <2>1, <1>1
  <2>3. shell' = [r \in Shells |-> shell'[r]] BY <2>1, <1>1
  <2>4. IsObject(Cmd!Moved(shell[t])) /\ Cmd!Moved(shell[t]).array = shell[t].array BY <2>1, <1>1, MovedKeepsArray
  <2>5. \A a \in live, r \in Shells : Holds(shell', r, a) <=> (r = s /\ Holds(shell, t, a)) \/ (r # t /\ Holds(shell, r, a))
    BY <2>1, <2>2, <2>4, <1>1, <1>2, EmptyIsObject DEF Holds
  <2>6. \A a \in live' : \E r \in Shells : Holds(shell', r, a) /\ \A q \in Shells : Holds(shell', q, a) => q = r
    <3> TAKE a \in live'
    <3>1. a \in live BY <2>1
    <3>2. PICK r \in Shells : Holds(shell, r, a) /\ \A q \in Shells : Holds(shell, q, a) => q = r BY <3>1, <1>1
    <3>3. CASE r = t BY <3>1, <3>2, <3>3, <2>5
    <3>4. CASE r # t BY <3>1, <3>2, <3>4, <2>5
    <3> QED BY <3>3, <3>4
  <2>7. \A r \in Shells : shell'[r] = none \/ IsObject(shell'[r]) BY <2>2, <2>4, <1>1, EmptyIsObject
  <2>8. \A r \in Shells : shell'[r] # none => shell'[r].array \in live' \cup {0}
    BY <2>1, <2>2, <2>4, <1>1, EmptyIsObject
  <2>20. Owned(shell', live') BY <2>1, <2>3, <2>6, <2>7, <2>8 DEF Owned
  <2> QED BY <2>1, <2>20, CallOwned
<1>10. ASSUME NEW s \in Shells, NEW t \in Shells, Cmd!move_assign(s, t) PROVE ShellInv'
  <2>1. /\ Cmd!Call /\ shell[s] # none /\ shell[t] # none /\ live' = live \ {shell[s].array}
    BY <1>10 DEF Cmd!move_assign
  <2>2. CASE s = t
    <3>1. shell' = [shell EXCEPT ![s] = Cmd!Empty] BY <1>10, <2>2 DEF Cmd!move_assign
    <3>2. \A r \in Shells : shell'[r] = IF r = s THEN Cmd!Empty ELSE shell[r] BY <3>1, <1>1
    <3>3. shell' = [r \in Shells |-> shell'[r]] BY <3>1, <1>1
    <3>4. \A a \in live', r \in Shells : Holds(shell', r, a) <=> Holds(shell, r, a)
      BY <2>1, <3>2, <1>1, <1>2, EmptyIsObject DEF Holds
    <3>5. \A a \in live' : \E r \in Shells : Holds(shell', r, a) /\ \A q \in Shells : Holds(shell', q, a) => q = r
      BY <2>1, <3>4, <1>1
    <3>6. \A r \in Shells : shell'[r] = none \/ IsObject(shell'[r]) BY <3>2, <1>1, EmptyIsObject
    <3>7. \A r \in Shells : shell'[r] # none => shell'[r].array \in live' \cup {0}
      <4> SUFFICES ASSUME NEW r \in Shells, shell'[r] # none PROVE shell'[r].array \in live' \cup {0} OBVIOUS
      <4>1. CASE r = s BY <4>1, <3>2, EmptyIsObject
      <4>2. CASE r # s
        <5>1. shell'[r] = shell[r] /\ shell[r].array \in live \cup {0} BY <4>2, <3>2, <1>1
        <5>2. shell[r].array \in live => shell[r].array # shell[s].array BY <4>2, <5>1, <2>1, <1>1 DEF Holds
        <5> QED BY <5>1, <5>2, <2>1
      <4> QED BY <4>1, <4>2
    <3>20. Owned(shell', live') BY <2>1, <3>3, <3>5, <3>6, <3>7 DEF Owned
    <3> QED BY <2>1, <3>20, CallOwned
  <2>3. CASE s # t
    <3>1. shell' = [shell EXCEPT ![s] = Cmd!Moved(shell[t]), ![t] = Cmd!Empty] BY <1>10, <2>3 DEF Cmd!move_assign
    <3>2. \A r \in Shells : shell'[r] = IF r = t THEN Cmd!Empty ELSE IF r = s THEN Cmd!Moved(shell[t]) ELSE shell[r]
      BY <3>1, <1>1
    <3>3. shell' = [r \in Shells |-> shell'[r]] BY <3>1, <1>1
    <3>4. IsObject(Cmd!Moved(shell[t])) /\ Cmd!Moved(shell[t]).array = shell[t].array BY <2>1, <1>1, MovedKeepsArray
    <3>5. \A a \in live', r \in Shells :
            Holds(shell', r, a) <=> (r = s /\ Holds(shell, t, a)) \/ (r \notin {s, t} /\ Holds(shell, r, a))
      BY <2>1, <2>3, <3>2, <3>4, <1>1, <1>2, EmptyIsObject DEF Holds
    <3>6. \A a \in live' : \E r \in Shells : Holds(shell', r, a) /\ \A q \in Shells : Holds(shell', q, a) => q = r
      <4> TAKE a \in live'
      <4>1. a \in live /\ ~Holds(shell, s, a) BY <2>1 DEF Holds
      <4>2. PICK r \in Shells : Holds(shell, r, a) /\ \A q \in Shells : Holds(shell, q, a) => q = r BY <4>1, <1>1
      <4>3. CASE r = t BY <4>1, <4>2, <4>3, <3>5
      <4>4. CASE r # t BY <4>1, <4>2, <4>4, <3>5
      <4> QED BY <4>3, <4>4
    <3>7. \A r \in Shells : shell'[r] = none \/ IsObject(shell'[r]) BY <3>2, <3>4, <1>1, EmptyIsObject
    <3>8. \A r \in Shells : shell'[r] # none => shell'[r].array \in live' \cup {0}
      <4> SUFFICES ASSUME NEW r \in Shells, shell'[r] # none PROVE shell'[r].array \in live' \cup {0} OBVIOUS
      <4>1. CASE r = t BY <4>1, <3>2, EmptyIsObject
      <4>2. CASE r # t
        <5> DEFINE q == IF r = s THEN t ELSE r
        <5>1. q \in Shells /\ q # s /\ shell[q] # none /\ shell'[r].array = shell[q].array
          BY <4>2, <2>1, <2>3, <3>2, <3>4
        <5> HIDE DEF q
        <5>2. shell[q].array \in live \cup {0} BY <5>1, <1>1
        <5>3. shell[q].array \in live => shell[q].array # shell[s].array BY <5>1, <2>1, <1>1 DEF Holds
        <5> QED BY <5>1, <5>2, <5>3, <2>1
      <4> QED BY <4>1, <4>2
    <3>20. Owned(shell', live') BY <2>1, <3>3, <3>6, <3>7, <3>8 DEF Owned
    <3> QED BY <2>1, <3>20, CallOwned
  <2> QED BY <2>2, <2>3
<1> QED BY <1>3, <1>6, <1>7, <1>8, <1>9, <1>10 DEF ShellStep

LEMMA SameCardinality == \A S : Cmd!Cardinality(S) = Cardinality(S)
BY DEF Cmd!Cardinality, Cardinality

LEMMA OwnedOnce ==
  ASSUME ShellInv
  PROVE  Cmd!ArraysOwned
<1>1. ASSUME NEW a \in live PROVE Cardinality({s \in Shells : shell[s] # none /\ shell[s].array = a}) = 1
  <2>1. PICK s \in Shells : Holds(shell, s, a) /\ \A t \in Shells : Holds(shell, t, a) => t = s BY DEF ShellInv, Owned
  <2>2. {t \in Shells : shell[t] # none /\ shell[t].array = a} = {s} BY <2>1 DEF Holds
  <2> QED BY <2>2, FS_Singleton
<1> QED BY <1>1, SameCardinality DEF Cmd!ArraysOwned, ShellInv, Owned

\* Whatever shells are made, moved, moved to themselves and destroyed in whatever order, every
\* array of words that wordexp allocated has one owner, and an owner's array is still there: it
\* is freed, and freed once.
THEOREM ArraysOwnedHolds == ASSUME NoneIsNoObject PROVE Cmd!Spec => []Cmd!ArraysOwned
<1>1. Cmd!Init => ShellInv BY ShellInvInit DEF Cmd!Init
<1>2. ShellInv /\ [Cmd!Next]_(Cmd!vars) => ShellInv' BY CallsAreShellSteps, ShellInvStep
<1>3. ShellInv => Cmd!ArraysOwned BY OwnedOnce
<1> QED BY <1>1, <1>2, <1>3, PTL DEF Cmd!Spec

-------------------------------------------------------------------------------
(***************************************************************************)
(* Environment: the entries of an array, their keys, and what setenv and    *)
(* unsetenv do to them.                                                    *)
(***************************************************************************)
\* The constants are texts; the provers do not know that "=" is a string, nor that the mark of a
\* freed array is no entry.
EnvGiven ==
  /\ Keys \cup Texts \subseteq Env!Text /\ Lists \subseteq Seq(Env!Text) /\ Inits \subseteq Seq(Env!Text)
  /\ {Env!equality_sign, Env!delimiter} \subseteq STRING /\ "freed" \notin Env!Text
  /\ MaxBlocks \in Nat \ {0}

\* The texts "k=...".
Starting(k) == {t \in Env!Text : /\ Len(t) > Len(k) /\ t[Len(k) + 1] = Env!equality_sign
                                 /\ \A i \in 1..Len(k) : t[i] = k[i]}

LEMMA EnvMin ==
  ASSUME NEW S, S \subseteq Nat, S # {}
  PROVE  Env!Min(S) \in S /\ \A y \in S : Env!Min(S) <= y
<1>1. Env!Min(S) = Min(S) BY Zenon DEF Env!Min, Min
<1> QED BY <1>1, MinIsMember

LEMMA PartOfText ==
  ASSUME NEW S, NEW t \in Seq(S), NEW a \in Nat \ {0}, NEW b \in Nat, b <= Len(t), a <= b + 1
  PROVE  /\ SubSeq(t, a, b) \in Seq(S) /\ Len(SubSeq(t, a, b)) = b - a + 1
         /\ \A i \in 1..(b - a + 1) : SubSeq(t, a, b)[i] = t[a + i - 1]
<1>1. \A i \in a..b : i \in 1..Len(t) /\ t[i] \in S OBVIOUS
<1>2. SubSeq(t, a, b) \in Seq(S) BY <1>1
<1>3. Len(SubSeq(t, a, b)) = b - a + 1 BY <1>1
<1>4. \A i \in 1..(b - a + 1) : SubSeq(t, a, b)[i] = t[a + i - 1] BY <1>1
<1> QED BY <1>2, <1>3, <1>4

LEMMA SameText ==
  ASSUME NEW S, NEW s \in Seq(S), NEW t \in Seq(S), Len(s) = Len(t), \A i \in 1..Len(s) : s[i] = t[i]
  PROVE  s = t
OBVIOUS

LEMMA Joined ==
  ASSUME NEW S, NEW s \in Seq(S), NEW t \in Seq(S)
  PROVE  /\ s \o t \in Seq(S) /\ Len(s \o t) = Len(s) + Len(t)
         /\ \A i \in 1..Len(s) : (s \o t)[i] = s[i]
         /\ \A i \in 1..Len(t) : (s \o t)[Len(s) + i] = t[i]
OBVIOUS

LEMMA Appended ==
  ASSUME NEW S, NEW s \in Seq(S), NEW c \in S
  PROVE  Append(s, c) = s \o <<c>> /\ s \o <<>> = s
<1>1. Append(s, c) \in Seq(S) /\ s \o <<c>> \in Seq(S) /\ s \o <<>> \in Seq(S) OBVIOUS
<1>2. Len(Append(s, c)) = Len(s) + 1 /\ Len(s \o <<c>>) = Len(s) + 1 /\ Len(s \o <<>>) = Len(s) OBVIOUS
<1>3. \A i \in 1..(Len(s) + 1) : Append(s, c)[i] = (s \o <<c>>)[i] OBVIOUS
<1>4. \A i \in 1..Len(s) : (s \o <<>>)[i] = s[i] OBVIOUS
<1>5. Append(s, c) = s \o <<c>> BY <1>1, <1>2, <1>3, SameText
<1>6. s \o <<>> = s BY <1>1, <1>2, <1>4, SameText
<1> QED BY <1>5, <1>6

LEMMA SignIsPlace ==
  ASSUME NEW t \in Env!Text
  PROVE  Env!EqualitySign(t) \in 0..Len(t)
<1> DEFINE at == Env!Places(t, Env!equality_sign)
<1>1. at \subseteq 1..Len(t) /\ at \subseteq Nat /\ Len(t) \in Nat BY DEF Env!Places, Env!Text
<1> HIDE DEF at
<1>2. CASE at = {} BY <1>1, <1>2 DEF Env!EqualitySign, at
<1>3. CASE at # {} /\ 1 \in at /\ at # {1}
  <2>1. at \ {1} # {} /\ at \ {1} \subseteq Nat BY <1>1, <1>3
  <2>2. Env!Min(at \ {1}) \in 1..Len(t) BY <1>1, <2>1, EnvMin
  <2>3. Env!EqualitySign(t) = Env!Min(at \ {1}) BY <1>3, Zenon DEF Env!EqualitySign, at
  <2> QED BY <2>2, <2>3
<1>4. CASE at # {} /\ ~(1 \in at /\ at # {1})
  <2>1. Env!Min(at) \in 1..Len(t) BY <1>1, <1>4, EnvMin
  <2>2. Env!EqualitySign(t) = Env!Min(at) BY <1>4, Zenon DEF Env!EqualitySign, at
  <2> QED BY <2>1, <2>2
<1> QED BY <1>2, <1>3, <1>4

LEMMA PartsTyped ==
  ASSUME NEW t \in Env!Text
  PROVE  Env!Key[t] \in Env!Text /\ Env!Value[t] \in Env!Text
<1> DEFINE eq == Env!EqualitySign(t)
<1>1. eq \in 0..Len(t) /\ t \in Seq(STRING) BY SignIsPlace DEF Env!Text
<1>2. Env!Key[t] = IF eq = 0 THEN t ELSE SubSeq(t, 1, eq - 1) BY DEF Env!Key
<1>3. Env!Value[t] = SubSeq(t, eq + 1, Len(t)) BY DEF Env!Value
<1> HIDE DEF eq
<1>4. eq # 0 => SubSeq(t, 1, eq - 1) \in Seq(STRING) BY <1>1, PartOfText
<1>5. SubSeq(t, eq + 1, Len(t)) \in Seq(STRING) BY <1>1, PartOfText
<1> QED BY <1>1, <1>2, <1>3, <1>4, <1>5, Zenon DEF Env!Text

LEMMA EntryStarts ==
  ASSUME EnvGiven, NEW k \in Env!Text, NEW v \in Env!Text
  PROVE  Env!Entry(k, v) \in Starting(k)
<1> DEFINE eq == <<Env!equality_sign>>
<1>1. eq \in Seq(STRING) /\ Len(eq) = 1 /\ eq[1] = Env!equality_sign BY DEF EnvGiven
<1>2. k \in Seq(STRING) /\ v \in Seq(STRING) /\ Env!Entry(k, v) = (k \o eq) \o v BY DEF Env!Entry, Env!Text
<1> HIDE DEF eq
<1>3. /\ k \o eq \in Seq(STRING) /\ Len(k \o eq) = Len(k) + 1 /\ (k \o eq)[Len(k) + 1] = Env!equality_sign
      /\ \A i \in 1..Len(k) : (k \o eq)[i] = k[i]
  <2>1. /\ k \o eq \in Seq(STRING) /\ Len(k \o eq) = Len(k) + 1
        /\ \A i \in 1..Len(k) : (k \o eq)[i] = k[i]
        /\ \A i \in 1..Len(eq) : (k \o eq)[Len(k) + i] = eq[i]
    <3>1. k \o eq \in Seq(STRING) /\ Len(k \o eq) = Len(k) + Len(eq) BY <1>1, <1>2, Joined
    <3>2. \A i \in 1..Len(k) : (k \o eq)[i] = k[i] BY <1>1, <1>2, Joined
    <3>3. \A i \in 1..Len(eq) : (k \o eq)[Len(k) + i] = eq[i]
      <4>1. eq \in Seq(STRING) /\ k \in Seq(STRING) BY <1>1, <1>2
      <4> QED BY <4>1, Joined
    <3> QED BY <1>1, <3>1, <3>2, <3>3
  <2>2. 1 \in 1..Len(eq) BY <1>1
  <2> QED BY <1>1, <2>1, <2>2
<1> DEFINE b == k \o eq
<1> HIDE DEF b
<1>4. /\ b \o v \in Seq(STRING) /\ Len(b \o v) = Len(b) + Len(v)
      /\ \A i \in 1..Len(b) : (b \o v)[i] = b[i]
  BY <1>2, <1>3, Joined DEF b
<1>5. Len(b) = Len(k) + 1 /\ b[Len(k) + 1] = Env!equality_sign /\ \A i \in 1..Len(k) : b[i] = k[i] BY <1>3 DEF b
<1>6. Len(k) \in Nat /\ Len(v) \in Nat BY <1>2
<1>7. Env!Entry(k, v) = b \o v BY <1>2 DEF b
<1> DEFINE t == Env!Entry(k, v)
<1>8. t \in Seq(STRING) /\ Len(t) > Len(k) /\ t[Len(k) + 1] = Env!equality_sign /\ \A i \in 1..Len(k) : t[i] = k[i]
  BY <1>4, <1>5, <1>6, <1>7
<1> QED BY <1>8 DEF Starting, Env!Text

\* A key without '=' is the key of each entry that starts with it.
LEMMA KeyOfEntry ==
  ASSUME NEW k \in Env!Text, Env!IsKey(k), NEW t \in Starting(k)
  PROVE  Env!Key[t] = k
<1> DEFINE eq == Env!equality_sign
           at == Env!Places(t, eq)
           n  == Len(k) + 1
<1>1. t \in Env!Text /\ t \in Seq(STRING) /\ k \in Seq(STRING) BY DEF Starting, Env!Text
<1>2. n \in 1..Len(t) /\ t[n] = eq /\ \A i \in 1..(n - 1) : t[i] = k[i] BY <1>1 DEF Starting
<1>3. n > 1 /\ \A i \in 1..(n - 1) : k[i] # eq
  <2>1. k # <<>> /\ Env!Find(k, eq) = 0 BY Zenon DEF Env!IsKey
  <2>2. Env!Places(k, eq) = {}
    <3>1. SUFFICES ASSUME Env!Places(k, eq) # {} PROVE FALSE OBVIOUS
    <3>2. Env!Places(k, eq) \subseteq Nat \ {0} BY <1>1 DEF Env!Places
    <3>3. Env!Min(Env!Places(k, eq)) \in Nat \ {0} BY <3>1, <3>2, EnvMin
    <3> QED BY <2>1, <3>1, <3>3 DEF Env!Find
  <2> QED BY <2>1, <2>2, <1>1 DEF Env!Places
<1>4. n \in at /\ 1 \notin at /\ \A i \in at : n <= i /\ i \in Nat
  BY <1>1, <1>2, <1>3 DEF Env!Places
<1>5. Env!EqualitySign(t) = Env!Min(at) BY <1>4, Zenon DEF Env!EqualitySign
<1>6. n \in Nat BY <1>1
<1> HIDE DEF at, n
<1>7. Env!Min(at) \in at /\ Env!Min(at) <= n
  <2>1. at \subseteq Nat /\ at # {} BY <1>4
  <2> QED BY <2>1, <1>4, EnvMin
<1>8. Env!Min(at) = n
  <2> DEFINE m == Env!Min(at)
  <2>1. n <= m /\ m \in Nat /\ m <= n BY <1>4, <1>7
  <2> HIDE DEF m
  <2>2. m = n BY <2>1, <1>6
  <2> QED BY <2>2 DEF m
<1>9. Env!Key[t] = SubSeq(t, 1, n - 1) BY <1>1, <1>3, <1>5, <1>6, <1>8 DEF Env!Key
<1>10. SubSeq(t, 1, n - 1) = k
  <2>1. n - 1 = Len(k) BY <1>1 DEF n
  <2>2. Len(SubSeq(t, 1, n - 1)) = n - 1 BY <1>1, <1>2, <1>3
  <2>3. \A i \in 1..(n - 1) : SubSeq(t, 1, n - 1)[i] = k[i] BY <1>1, <1>2, <1>3
  <2>4. SubSeq(t, 1, n - 1) \in Seq(STRING) BY <1>1, <1>2, <1>3
  <2> QED BY <1>1, <2>1, <2>2, <2>3, <2>4, SameText
<1> QED BY <1>9, <1>10

LEMMA StartKept ==
  ASSUME NEW k \in Env!Text, NEW t \in Starting(k), NEW v \in Env!Text
  PROVE  t \o v \in Starting(k)
<1>1. k \in Seq(STRING) /\ t \in Seq(STRING) /\ v \in Seq(STRING) BY DEF Starting, Env!Text
<1>2. /\ t \o v \in Seq(STRING) /\ Len(t \o v) = Len(t) + Len(v)
      /\ \A i \in 1..Len(t) : (t \o v)[i] = t[i]
  BY <1>1, Joined
<1>3. /\ Len(t) > Len(k) /\ t[Len(k) + 1] = Env!equality_sign
      /\ \A i \in 1..Len(k) : t[i] = k[i]
  BY DEF Starting
<1>4. Len(k) \in Nat /\ Len(t) \in Nat /\ Len(v) \in Nat BY <1>1
<1> DEFINE r == t \o v
<1>5. \A i \in 1..Len(k) : i \in 1..Len(t) BY <1>3, <1>4
<1>6. Len(k) + 1 \in 1..Len(t) BY <1>3, <1>4
<1>7. r \in Seq(STRING) /\ Len(r) > Len(k) /\ r[Len(k) + 1] = Env!equality_sign /\ \A i \in 1..Len(k) : r[i] = k[i]
  BY <1>2, <1>3, <1>4, <1>5, <1>6
<1> HIDE DEF r
<1>8. r \in Starting(k) BY <1>7 DEF Starting, Env!Text
<1> QED BY <1>8 DEF r

\* What holds of no element and with each one more holds of all.
LEMMA AlongRun ==
  ASSUME NEW n \in Nat, NEW P, P \subseteq 0..n, 0 \in P, \A m \in 1..n : m - 1 \in P => m \in P
  PROVE  n \in P
<1> DEFINE bad == (0..n) \ P
<1>1. bad \subseteq Nat /\ n \in 0..n OBVIOUS
<1>2. SUFFICES ASSUME bad # {} PROVE FALSE BY <1>1
<1>3. PICK m \in bad : \A j \in bad : m <= j BY <1>1, <1>2, MinIsMember
<1>4. m \in 1..n /\ m - 1 \in 0..n BY <1>3
<1>5. m - 1 \notin bad
  <2>1. ~(m <= m - 1) BY <1>4
  <2> QED BY <1>3, <2>1
<1> QED BY <1>3, <1>4, <1>5

\* An entry built of a list starts with its key, whatever the elements.
LEMMA ListStarts ==
  ASSUME EnvGiven, NEW k \in Env!Text, NEW vs \in Seq(Env!Text)
  PROVE  Env!EntryOfList(k, vs) \in Starting(k)
<1> DEFINE n    == Len(vs)
           X    == Starting(k)
           base == Append(k, Env!equality_sign)
           step == [i \in 1..n |-> [r \in X |-> Env!AppendValue(r, vs[i])]]
           F(f) == f = [s \in SUBSET (DOMAIN vs) |-> IF s = {} THEN base
                                                     ELSE Env!AppendValue(f[s \ {Env!Max(s)}], vs[Env!Max(s)])]
<1>1. Env!EntryOfList(k, vs) = (CHOOSE f : F(f))[DOMAIN vs]
  BY DEF Env!EntryOfList, Env!FoldLeft, Env!MapThenFoldSet
<1>2. n \in Nat /\ DOMAIN vs = 1..n /\ \A i \in 1..n : vs[i] \in Env!Text OBVIOUS
<1>3. base \in X
  <2>1. <<>> \in Env!Text /\ k \in Seq(STRING) /\ Env!equality_sign \in STRING BY DEF Env!Text, EnvGiven
  <2>2. Env!Entry(k, <<>>) \in X BY <2>1, EntryStarts
  <2>3. Env!Entry(k, <<>>) = Append(k, Env!equality_sign)
    <3>1. Append(k, Env!equality_sign) = k \o <<Env!equality_sign>> BY <2>1, Appended
    <3>2. <<Env!equality_sign>> \in Seq(STRING) /\ k \o <<Env!equality_sign>> \in Seq(STRING)
      <4>1. <<Env!equality_sign>> \in Seq(STRING) BY DEF EnvGiven
      <4>2. k \in Seq(STRING) BY <2>1
      <4> QED BY <4>1, <4>2, Joined
    <3>3. (k \o <<Env!equality_sign>>) \o <<>> = k \o <<Env!equality_sign>> BY <2>1, <3>2, Appended
    <3> QED BY <3>1, <3>3 DEF Env!Entry
  <2> QED BY <2>2, <2>3
<1>4. ASSUME NEW i \in 1..n, NEW r \in X PROVE Env!AppendValue(r, vs[i]) \in X
  <2>1. <<Env!delimiter>> \in Env!Text BY DEF EnvGiven, Env!Text
  <2>2. Append(r, Env!delimiter) \in X
    <3>1. r \o <<Env!delimiter>> \in X BY <2>1, StartKept
    <3>2. r \in Seq(STRING) /\ Env!delimiter \in STRING BY DEF Starting, Env!Text, EnvGiven
    <3>3. Append(r, Env!delimiter) = r \o <<Env!delimiter>> BY <3>2, Appended
    <3> QED BY <3>1, <3>3
  <2> HIDE DEF X
  <2>3. r \o vs[i] \in X /\ Append(r, Env!delimiter) \o vs[i] \in X BY <2>2, <1>2, StartKept DEF X
  <2> QED BY <2>3 DEF Env!AppendValue
<1>5. step \in [1..n -> [X -> X]] BY <1>4
<1>6. \A i \in 1..n, r \in X : step[i][r] = Env!AppendValue(r, vs[i]) OBVIOUS
<1>7. \A s : Env!Max(s) = Max(s) BY Zenon DEF Env!Max, Max
<1> HIDE DEF n, X, base, step
<1>8. PICK h : Folding(h, X, n, base, step) BY <1>2, <1>3, <1>5, FoldExists
<1>9. F(h)
  <2>1. ASSUME NEW s \in SUBSET (1..n)
        PROVE  h[s] = IF s = {} THEN base ELSE Env!AppendValue(h[s \ {Env!Max(s)}], vs[Env!Max(s)])
    <3>1. s # {} => Max(s) \in 1..n /\ Env!Max(s) = Max(s) BY <1>2, <1>7, MaxIsMember
    <3>2. s # {} => h[s \ {Max(s)}] \in X BY <1>8 DEF Folding
    <3>3. h[s] = IF s = {} THEN base ELSE step[Max(s)][h[s \ {Max(s)}]] BY <1>8 DEF Folding
    <3> QED BY <3>1, <3>2, <3>3, <1>6
  <2>2. h = [s \in SUBSET (1..n) |-> h[s]] BY <1>8 DEF Folding
  <2> QED BY <2>1, <2>2, <1>2
<1> DEFINE g == CHOOSE f : F(f)
           P == {m \in 0..n : g[1..m] \in X}
<1>10. F(g) BY <1>9
<1> HIDE DEF g
<1>11. 0 \in P
  <2>1. 1..0 = {} /\ g[{}] = base BY <1>10, <1>2
  <2> QED BY <2>1, <1>2, <1>3
<1>12. ASSUME NEW m \in 1..n, m - 1 \in P PROVE m \in P
  <2>1. 1..m # {} /\ 1..m \in SUBSET (1..n) /\ (1..m) \ {m} = 1..(m - 1) BY <1>2, PartsOfRun
  <2>2. Env!Max(1..m) = m BY <1>7, MaxOfRun
  <2>3. g[1..m] = Env!AppendValue(g[(1..m) \ {Env!Max(1..m)}], vs[Env!Max(1..m)]) BY <1>10, <1>2, <2>1
  <2>4. g[1..m] = Env!AppendValue(g[1..(m - 1)], vs[m]) BY <2>1, <2>2, <2>3
  <2> QED BY <2>4, <1>12, <1>4
<1>13. n \in P
  <2>1. P \subseteq 0..n OBVIOUS
  <2> HIDE DEF P
  <2> QED BY <1>2, <1>11, <1>12, <2>1, AlongRun
<1> QED BY <1>1, <1>2, <1>13 DEF g, X

\* unsetenv keeps texts; if it drops none, the array is what it was.
LEMMA WithoutKeeps ==
  ASSUME NEW k, NEW e \in Seq(Env!Text)
  PROVE  /\ Env!Without(e, k) \in Seq(Env!Text)
         /\ Len(Env!Without(e, k)) = Len(e) => Env!Without(e, k) = e
<1> DEFINE n    == Len(e)
           X    == Seq(Env!Text)
           next(r, t) == IF Env!Defines(t, k) THEN r ELSE Append(r, t)
           step == [i \in 1..n |-> [r \in X |-> next(r, e[i])]]
           F(f) == f = [s \in SUBSET (DOMAIN e) |-> IF s = {} THEN <<>>
                                                    ELSE next(f[s \ {Env!Max(s)}], e[Env!Max(s)])]
<1>1. Env!Without(e, k) = (CHOOSE f : F(f))[DOMAIN e]
  BY DEF Env!Without, Env!FoldLeft, Env!MapThenFoldSet
<1>2. n \in Nat /\ DOMAIN e = 1..n /\ \A i \in 1..n : e[i] \in Env!Text OBVIOUS
<1>3. <<>> \in X OBVIOUS
<1>4. ASSUME NEW i \in 1..n, NEW r \in X PROVE next(r, e[i]) \in X BY <1>2
<1>5. step \in [1..n -> [X -> X]] BY <1>4
<1>6. \A i \in 1..n, r \in X : step[i][r] = next(r, e[i]) OBVIOUS
<1>7. \A s : Env!Max(s) = Max(s) BY Zenon DEF Env!Max, Max
<1> HIDE DEF n, X, step, next
<1>8. PICK h : Folding(h, X, n, <<>>, step) BY <1>2, <1>3, <1>5, FoldExists
<1>9. F(h)
  <2>1. ASSUME NEW s \in SUBSET (1..n)
        PROVE  h[s] = IF s = {} THEN <<>> ELSE next(h[s \ {Env!Max(s)}], e[Env!Max(s)])
    <3>1. s # {} => Max(s) \in 1..n /\ Env!Max(s) = Max(s) BY <1>2, <1>7, MaxIsMember
    <3>2. s # {} => h[s \ {Max(s)}] \in X BY <1>8 DEF Folding
    <3>3. h[s] = IF s = {} THEN <<>> ELSE step[Max(s)][h[s \ {Max(s)}]] BY <1>8 DEF Folding
    <3> QED BY <3>1, <3>2, <3>3, <1>6
  <2>2. h = [s \in SUBSET (1..n) |-> h[s]] BY <1>8 DEF Folding
  <2> QED BY <2>1, <2>2, <1>2
<1> DEFINE g == CHOOSE f : F(f)
           Kept(m) == /\ g[1..m] \in Seq(Env!Text) /\ Len(g[1..m]) <= m
                      /\ Len(g[1..m]) = m => \A i \in 1..m : g[1..m][i] = e[i]
           P == {m \in 0..n : Kept(m)}
<1>10. F(g) BY <1>9
<1> HIDE DEF g
<1>11. 0 \in P
  <2>1. 1..0 = {} /\ g[{}] = <<>> BY <1>10, <1>2
  <2>2. Kept(0)
    <3>1. <<>> \in Seq(Env!Text) /\ Len(<<>>) = 0 OBVIOUS
    <3>2. g[1..0] = <<>> BY <2>1
    <3>3. \A i \in 1..0 : g[1..0][i] = e[i] BY <2>1
    <3>4. g[1..0] \in Seq(Env!Text) /\ Len(g[1..0]) <= 0 BY <3>1, <3>2
    <3> QED BY <3>3, <3>4
  <2> HIDE DEF Kept
  <2> QED BY <2>2, <1>2
<1>12. ASSUME NEW m \in 1..n, m - 1 \in P PROVE m \in P
  <2>1. 1..m # {} /\ 1..m \in SUBSET (1..n) /\ (1..m) \ {m} = 1..(m - 1) BY <1>2, PartsOfRun
  <2>2. Env!Max(1..m) = m BY <1>7, MaxOfRun
  <2>3. g[1..m] = next(g[(1..m) \ {Env!Max(1..m)}], e[Env!Max(1..m)]) BY <1>10, <1>2, <2>1
  <2>4. g[1..m] = next(g[1..(m - 1)], e[m]) BY <2>1, <2>2, <2>3
  <2> DEFINE r == g[1..(m - 1)]
  <2>5. /\ r \in Seq(Env!Text) /\ Len(r) <= m - 1
        /\ Len(r) = m - 1 => \A i \in 1..(m - 1) : r[i] = e[i]
    BY <1>12
  <2>6. g[1..m] = r \/ g[1..m] = Append(r, e[m]) BY <2>4 DEF next
  <2>7. m \in 0..n /\ e[m] \in Env!Text BY <1>2
  <2> HIDE DEF r
  <2>8. CASE g[1..m] = r
    <3>1. Len(r) # m BY <2>5
    <3>2. Kept(m) BY <2>5, <2>8, <3>1
    <3> HIDE DEF Kept
    <3> QED BY <2>7, <3>2
  <2>9. CASE g[1..m] = Append(r, e[m])
    <3>1. Append(r, e[m]) \in Seq(Env!Text) /\ Len(Append(r, e[m])) = Len(r) + 1 BY <2>5, <2>7
    <3>2. Len(r) = m - 1 => \A i \in 1..m : Append(r, e[m])[i] = e[i] BY <2>5, <2>7
    <3>3. Len(r) \in Nat BY <2>5
    <3>4. Kept(m)
      <4> DEFINE a == Append(r, e[m])
      <4>1. a \in Seq(Env!Text) /\ Len(a) = Len(r) + 1 /\ g[1..m] = a BY <2>9, <3>1
      <4>2. Len(r) = m - 1 => \A i \in 1..m : a[i] = e[i] BY <3>2
      <4> HIDE DEF a
      <4>3. Len(a) = m => Len(r) = m - 1 BY <4>1, <3>3
      <4> QED BY <2>5, <3>3, <4>1, <4>2, <4>3
    <3> HIDE DEF Kept
    <3> QED BY <2>7, <3>4
  <2> QED BY <2>6, <2>8, <2>9
<1>13. n \in P
  <2>1. P \subseteq 0..n OBVIOUS
  <2> HIDE DEF P
  <2> QED BY <1>2, <1>11, <1>12, <2>1, AlongRun
<1>14. Kept(n) BY <1>13
<1>15. Env!Without(e, k) = g[1..n] BY <1>1, <1>2 DEF g
<1> HIDE DEF F
<1>16. Len(g[1..n]) = n => g[1..n] = e BY <1>14, <1>2, SameText DEF n
<1> QED BY <1>14, <1>15, <1>16 DEF n

\* On POSIX the system takes for the variable k the entries that start with "k=".
LEMMA DefinedStarts ==
  ASSUME ~windows, NEW k \in Env!Text, NEW t \in Env!Text, Env!Defines(t, k)
  PROVE  t \in Starting(k)
<1>1. PICK i \in DOMAIN t : t[i] = Env!equality_sign /\ Env!SameKey(SubSeq(t, 1, i - 1), k) BY DEF Env!Defines
<1>2. t \in Seq(STRING) /\ k \in Seq(STRING) /\ i \in 1..Len(t) BY DEF Env!Text
<1>3. \A s \in Seq(STRING) : Env!Folded(s) = s BY DEF Env!Folded, Env!to_lower
<1>4. SubSeq(t, 1, i - 1) \in Seq(STRING) /\ Len(SubSeq(t, 1, i - 1)) = i - 1
      /\ \A j \in 1..(i - 1) : SubSeq(t, 1, i - 1)[j] = t[j]
  BY <1>2
<1>5. SubSeq(t, 1, i - 1) = k BY <1>1, <1>2, <1>3, <1>4 DEF Env!SameKey
<1>6. Len(k) = i - 1 /\ \A j \in 1..(i - 1) : k[j] = t[j] BY <1>4, <1>5
<1> QED BY <1>1, <1>2, <1>6 DEF Starting
(***************************************************************************)
(* A loop over current().  Its array stays where it is, with the keys it    *)
(* has visited, unless a step moves or shortens the environment.            *)
(***************************************************************************)
Visited(e) == /\ iter.pos \in 1..iter.end /\ iter.end = Len(e) + 1
              /\ seen \in Seq(Env!Text) /\ Len(seen) = iter.pos - 1
              /\ \A i \in 1..Len(seen) : seen[i] = Env!Key[e[i]]

EnvOk ==
  /\ used \in 1..MaxBlocks /\ environ \in 1..used
  /\ block = [b \in 1..MaxBlocks |-> block[b]]
  /\ block[environ] \in Seq(Env!Text)
  /\ iter \in [at : 0..used, pos : Nat, end : Nat, steady : BOOLEAN]
  /\ iter # Env!Idle =>
       /\ iter.at # 0
       /\ windows => iter.at # environ
       /\ ~windows /\ iter.steady => iter.at = environ
       /\ windows \/ iter.steady => block[iter.at] \in Seq(Env!Text) /\ Visited(block[iter.at])

\* What the calls do to the arrays: only the environment changes, keeping its keys, or it moves
\* to a new array.
ArrayStep ==
  /\ used' \in used..MaxBlocks /\ environ' \in 1..used'
  /\ block' = [b \in 1..MaxBlocks |-> block'[b]]
  /\ block'[environ'] \in Seq(Env!Text)
  /\ \A b \in 1..used : b # environ => block'[b] = block[b]
  /\ environ' # environ => environ' > used
  /\ ~windows /\ environ' = environ /\ Len(block'[environ]) = Len(block[environ]) =>
       \A i \in 1..Len(block[environ]) : Env!Key[block'[environ][i]] = Env!Key[block[environ][i]]

LEMMA SetIsArrayStep ==
  ASSUME EnvGiven, EnvOk, NEW k \in Env!Text, Env!IsKey(k), NEW v \in Env!Text, Env!setenv(k, v)
  PROVE  ArrayStep
<1> DEFINE e  == block[environ]
           at == Env!Vars(e, k)
           t  == Env!Entry(k, v)
<1>1. used \in 1..MaxBlocks /\ environ \in 1..used /\ e \in Seq(Env!Text) /\ MaxBlocks \in Nat
      /\ block = [b \in 1..MaxBlocks |-> block[b]]
  BY DEF EnvOk, EnvGiven
<1>2. t \in Starting(k) /\ t \in Env!Text /\ Env!Key[t] = k BY EntryStarts, KeyOfEntry DEF Starting
<1>3. at \subseteq DOMAIN e /\ at \subseteq Nat BY <1>1 DEF Env!Vars
<1>4. CASE at # {}
  <2> DEFINE m == Env!Min(at)
  <2>1. m \in at BY <1>3, <1>4, EnvMin
  <2>2. block' = [block EXCEPT ![environ][m] = t] /\ used' = used /\ environ' = environ
    BY <1>4, Zenon DEF Env!setenv, Env!entries
  <2>3. m \in DOMAIN e /\ e[m] \in Env!Text /\ Env!Defines(e[m], k)
    <3>1. \A i \in at : i \in DOMAIN e /\ Env!Defines(e[i], k) BY Zenon DEF Env!Vars
    <3>2. \A i \in DOMAIN e : e[i] \in Env!Text BY <1>1
    <3> HIDE DEF at, m
    <3> QED BY <2>1, <3>1, <3>2
  <2>4. ~windows => Env!Key[e[m]] = k BY <2>3, DefinedStarts, KeyOfEntry
  <2> DEFINE f == [e EXCEPT ![m] = t]
  <2> HIDE DEF m, t, at
  <2>5. f \in Seq(Env!Text) /\ Len(f) = Len(e) /\ f[m] = t /\ \A i \in 1..Len(e) : i # m => f[i] = e[i]
    BY <2>3, <1>1, <1>2
  <2>6. block' = [block EXCEPT ![environ] = f] BY <2>2, <1>1, Zenon
  <2>7. ~windows => \A i \in 1..Len(e) : Env!Key[f[i]] = Env!Key[e[i]] BY <2>4, <2>5, <1>2
  <2> HIDE DEF f
  <2>8. block'[environ] = f /\ \A b \in 1..used : b # environ => block'[b] = block[b] BY <2>6, <1>1
  <2>9. block' = [b \in 1..MaxBlocks |-> block'[b]] BY <2>6, <1>1
  <2>10. used' \in used..MaxBlocks /\ environ' \in 1..used' BY <2>2, <1>1
  <2> QED BY <2>2, <2>5, <2>7, <2>8, <2>9, <2>10 DEF ArrayStep
<1>5. CASE at = {}
  <2>1. /\ used < MaxBlocks /\ used' = used + 1 /\ environ' = used'
        /\ block' = [block EXCEPT ![used'] = Append(e, t),
                                  ![environ] = IF environ = 1 THEN @ ELSE Env!freed]
    BY <1>5, Zenon DEF Env!setenv, Env!entries
  <2>2. used' \in 1..MaxBlocks /\ environ' > used /\ environ' # environ /\ used' # environ BY <2>1, <1>1
  <2>3. Append(e, t) \in Seq(Env!Text) BY <1>1, <1>2
  <2> HIDE DEF t, at
  <2>4. block'[environ'] = Append(e, t) /\ block' = [b \in 1..MaxBlocks |-> block'[b]] BY <2>1, <2>2, <1>1
  <2>5. \A b \in 1..used : b # environ => block'[b] = block[b] BY <2>1, <2>2, <1>1
  <2>6. used' \in used..MaxBlocks /\ environ' \in 1..used' BY <2>1, <1>1
  <2> QED BY <2>2, <2>3, <2>4, <2>5, <2>6 DEF ArrayStep
<1> QED BY <1>4, <1>5

LEMMA UnsetIsArrayStep ==
  ASSUME EnvGiven, EnvOk, NEW k, Env!unsetenv(k)
  PROVE  ArrayStep
<1> DEFINE e == block[environ]
           f == Env!Without(e, k)
<1>1. used \in 1..MaxBlocks /\ environ \in 1..used /\ e \in Seq(Env!Text) /\ MaxBlocks \in Nat
      /\ block = [b \in 1..MaxBlocks |-> block[b]]
  BY DEF EnvOk, EnvGiven
<1>2. f \in Seq(Env!Text) /\ (Len(f) = Len(e) => f = e) BY <1>1, WithoutKeeps
<1>3. block' = [block EXCEPT ![environ] = f] /\ used' = used /\ environ' = environ BY DEF Env!unsetenv
<1> HIDE DEF f
<1>4. block'[environ] = f /\ \A b \in 1..used : b # environ => block'[b] = block[b] BY <1>1, <1>3
<1>5. block' = [b \in 1..MaxBlocks |-> block'[b]] BY <1>1, <1>3
<1>6. used' \in used..MaxBlocks /\ environ' \in 1..used' BY <1>1, <1>3
<1> QED BY <1>2, <1>3, <1>4, <1>5, <1>6 DEF ArrayStep

LEMMA NothingIsArrayStep ==
  ASSUME EnvGiven, EnvOk, UNCHANGED Env!state
  PROVE  ArrayStep
<1>1. used' = used /\ environ' = environ /\ block' = block BY DEF Env!state
<1> QED BY <1>1 DEF EnvOk, ArrayStep, EnvGiven

\* The loop goes on over what it began with.
LEMMA LoopKept ==
  ASSUME EnvGiven, EnvOk, ArrayStep, seen' = seen, iter' \in [at : 0..used, pos : Nat, end : Nat, steady : BOOLEAN],
         iter'.at = iter.at, iter'.pos = iter.pos, iter'.end = iter.end,
         iter = Env!Idle <=> iter' = Env!Idle,
         iter # Env!Idle /\ iter'.steady =>
           iter.steady /\ environ' = environ /\ Len(block'[environ]) = Len(block[environ])
  PROVE  EnvOk'
<1>1. used \in 1..MaxBlocks /\ environ \in 1..used /\ MaxBlocks \in Nat BY DEF EnvOk, EnvGiven
<1>2. used' \in used..MaxBlocks /\ environ' \in 1..used' BY DEF ArrayStep
<1>3. iter' \in [at : 0..used', pos : Nat, end : Nat, steady : BOOLEAN]
  <2>1. 0..used \subseteq 0..used' BY <1>1, <1>2
  <2> QED BY <2>1
<1>4. ASSUME iter' # Env!Idle
      PROVE  /\ iter'.at # 0
             /\ windows => iter'.at # environ'
             /\ ~windows /\ iter'.steady => iter'.at = environ'
             /\ windows \/ iter'.steady => block'[iter'.at] \in Seq(Env!Text) /\ Visited(block[iter.at])'
  <2>1. iter # Env!Idle /\ iter.at \in 1..used BY <1>1, <1>4 DEF EnvOk
  <2>2. windows => iter.at # environ' BY <2>1, <1>1, <1>2 DEF EnvOk, ArrayStep
  <2>3. ~windows /\ iter'.steady => iter.at = environ' /\ iter.at = environ BY <2>1 DEF EnvOk
  <2>4. ASSUME windows PROVE block'[iter.at] = block[iter.at] BY <2>1, <2>4 DEF EnvOk, ArrayStep
  <2>5. ASSUME windows \/ iter'.steady
        PROVE  block'[iter'.at] \in Seq(Env!Text) /\ Visited(block[iter.at])'
    <3>1. block[iter.at] \in Seq(Env!Text) /\ Visited(block[iter.at]) BY <2>1, <2>5 DEF EnvOk
    <3>2. CASE windows
      <4>1. block'[iter'.at] = block[iter.at] BY <2>4, <3>2
      <4> QED BY <3>1, <4>1 DEF Visited
    <3>3. CASE ~windows
      <4> DEFINE e == block[environ]
                 f == block'[environ]
      <4>1. iter.at = environ /\ environ' = environ /\ Len(f) = Len(e) BY <2>1, <2>3, <2>5, <3>3
      <4>2. f \in Seq(Env!Text) /\ \A i \in 1..Len(e) : Env!Key[f[i]] = Env!Key[e[i]]
        BY <4>1, <3>3 DEF ArrayStep
      <4>3. Visited(e) BY <3>1, <4>1
      <4>4. block'[iter'.at] = f BY <4>1
      <4> HIDE DEF e, f
      <4>5. 1..Len(seen) \subseteq 1..Len(e) BY <4>3, <3>1, <4>1 DEF Visited, e
      <4> QED BY <4>1, <4>2, <4>3, <4>4, <4>5 DEF Visited
    <3> QED BY <3>2, <3>3
  <2> QED BY <2>1, <2>2, <2>3, <2>5
<1> QED BY <1>1, <1>2, <1>3, <1>4 DEF EnvOk, ArrayStep

LEMMA EnvOkInit == ASSUME EnvGiven, Env!Init PROVE EnvOk
<1>1. PICK e \in Inits : block = [b \in 1..MaxBlocks |-> IF b = 1 THEN e ELSE <<>>] BY Zenon DEF Env!Init
<1>2. used = 1 /\ environ = 1 /\ iter = Env!Idle BY Zenon DEF Env!Init
<1>3. e \in Seq(Env!Text) /\ 1 \in 1..MaxBlocks BY DEF EnvGiven
<1>4. block = [b \in 1..MaxBlocks |-> block[b]] BY <1>1
<1>5. block[1] = e BY <1>1, <1>3
<1>6. iter \in [at : 0..used, pos : Nat, end : Nat, steady : BOOLEAN] BY <1>2 DEF Env!Idle
<1> QED BY <1>2, <1>3, <1>4, <1>5, <1>6 DEF EnvOk

LEMMA ChangeKeepsEnv ==
  ASSUME EnvGiven, EnvOk, NEW r, NEW k, NEW how, Env!Change(r, k, how), how /\ Env!IsKey(k) => ArrayStep
  PROVE  EnvOk'
<1>1. ArrayStep
  <2>1. Env!IsKey(k) => how BY Zenon DEF Env!Change
  <2>2. ~Env!IsKey(k) => UNCHANGED Env!state BY Zenon DEF Env!Change
  <2> QED BY <2>1, <2>2, NothingIsArrayStep
<1> DEFINE idle == iter = Env!Idle
           same == environ' = environ /\ Len(block'[environ']) = Len(block[environ])
<1>2. seen' = seen /\ iter' = [iter EXCEPT !.steady = idle \/ (@ /\ same)]
  BY Zenon DEF Env!Change, Env!entries
<1>3. iter \in [at : 0..used, pos : Nat, end : Nat, steady : BOOLEAN] BY DEF EnvOk
<1> DEFINE steady == idle \/ (iter.steady /\ same)
<1>4. steady \in BOOLEAN OBVIOUS
<1>5. iter' = [iter EXCEPT !.steady = steady] BY <1>2
<1>6. steady => idle \/ (iter.steady /\ same) OBVIOUS
<1>7. idle => steady OBVIOUS
<1> HIDE DEF steady
<1>8. /\ iter' \in [at : 0..used, pos : Nat, end : Nat, steady : BOOLEAN]
      /\ iter'.at = iter.at /\ iter'.pos = iter.pos /\ iter'.end = iter.end /\ iter'.steady = steady
  BY <1>3, <1>4, <1>5
<1>9. iter = Env!Idle <=> iter' = Env!Idle
  <2>1. ASSUME iter = Env!Idle PROVE iter' = Env!Idle
    <3>1. steady = TRUE BY <1>4, <1>7, <2>1
    <3>2. iter' = [at |-> 0, pos |-> 0, end |-> 0, steady |-> TRUE] BY <1>5, <2>1, <3>1 DEF Env!Idle
    <3> QED BY <3>2 DEF Env!Idle
  <2>2. ASSUME iter' = Env!Idle PROVE iter = Env!Idle
    <3>1. iter.at = 0 BY <1>8, <2>2 DEF Env!Idle
    <3> QED BY <3>1 DEF EnvOk
  <2> QED BY <2>1, <2>2
<1>10. iter # Env!Idle /\ iter'.steady =>
         iter.steady /\ environ' = environ /\ Len(block'[environ]) = Len(block[environ])
  BY <1>6, <1>8
<1> QED BY <1>1, <1>2, <1>8, <1>9, <1>10, LoopKept

LEMMA BeginKeepsEnv == ASSUME EnvGiven, EnvOk, Env!begin PROVE EnvOk'
<1> DEFINE e == block[environ]
<1>1. used \in 1..MaxBlocks /\ environ \in 1..used /\ e \in Seq(Env!Text) /\ MaxBlocks \in Nat
      /\ block = [b \in 1..MaxBlocks |-> block[b]]
  BY DEF EnvOk, EnvGiven
<1>2. /\ seen' = <<>> /\ environ' = environ
      /\ iter' = [at |-> IF windows THEN used' ELSE environ, pos |-> 1, end |-> Len(e) + 1, steady |-> TRUE]
  BY Zenon DEF Env!begin, Env!find_end, Env!entries, Env!state
<1>3. IF windows THEN used < MaxBlocks /\ used' = used + 1 /\ block' = [block EXCEPT ![used'] = e]
                 ELSE used' = used /\ block' = block
  BY Zenon DEF Env!begin, Env!entries, Env!state
<1>4. /\ used' \in 1..MaxBlocks /\ environ' \in 1..used' /\ block' = [b \in 1..MaxBlocks |-> block'[b]]
      /\ block'[environ'] = e
  BY <1>1, <1>2, <1>3
<1>5. /\ iter'.at \in 1..used' /\ block'[iter'.at] = e
      /\ windows => iter'.at # environ'
      /\ ~windows => iter'.at = environ'
  BY <1>1, <1>2, <1>3
<1>6. iter' \in [at : 0..used', pos : Nat, end : Nat, steady : BOOLEAN] /\ iter'.pos = 1 /\ iter'.end = Len(e) + 1
  <2>1. iter'.at \in 0..used' BY <1>1, <1>4, <1>5
  <2> QED BY <1>1, <1>2, <2>1
<1>7. Visited(block[iter.at])' BY <1>1, <1>2, <1>5, <1>6 DEF Visited
<1> HIDE DEF e
<1>8. iter'.at # 0 BY <1>1, <1>4, <1>5
<1> QED BY <1>1, <1>4, <1>5, <1>6, <1>7, <1>8 DEF EnvOk

\* An array of texts is not a freed one.
LEMMA TextsAreNotFreed ==
  ASSUME EnvGiven, NEW e \in Seq(Env!Text)
  PROVE  e # Env!freed
<1>1. SUFFICES ASSUME e = Env!freed PROVE FALSE OBVIOUS
<1>2. e = <<"freed">> BY <1>1 DEF Env!freed
<1>3. Len(e) = 1 /\ e[1] = "freed" BY <1>2
<1>4. e[1] \in Env!Text BY <1>3
<1> QED BY <1>3, <1>4 DEF EnvGiven

LEMMA NextKeepsEnv == ASSUME EnvGiven, EnvOk, Env!next PROVE EnvOk'
<1> DEFINE e == block[iter.at]
<1>1. /\ iter # Env!Idle /\ iter.pos # iter.end /\ seen' = Append(seen, Env!dereference)
      /\ iter' = [iter EXCEPT !.pos = @ + 1]
      /\ block' = block /\ used' = used /\ environ' = environ
  BY Zenon DEF Env!next, Env!state
<1>2. iter \in [at : 0..used, pos : Nat, end : Nat, steady : BOOLEAN] BY DEF EnvOk
<1>3. /\ iter' \in [at : 0..used, pos : Nat, end : Nat, steady : BOOLEAN]
      /\ iter'.at = iter.at /\ iter'.pos = iter.pos + 1 /\ iter'.end = iter.end /\ iter'.steady = iter.steady
  BY <1>1, <1>2
<1>4. ASSUME windows \/ iter.steady PROVE Visited(block[iter.at])'
  <2>1. e \in Seq(Env!Text) /\ Visited(e) BY <1>1, <1>4 DEF EnvOk
  <2>2. e # Env!freed BY <2>1, TextsAreNotFreed
  <2>3. iter.pos \in 1..Len(e) /\ ~(iter.pos > Len(e)) BY <1>1, <2>1 DEF Visited
  <2>4. Env!dereference = Env!Key[e[iter.pos]] BY <2>2, <2>3, Zenon DEF Env!dereference
  <2> DEFINE d == Env!Key[e[iter.pos]]
  <2>5. d \in Env!Text
    <3>1. e[iter.pos] \in Env!Text BY <2>1, <2>3
    <3> QED BY <3>1, PartsTyped
  <2>6. block'[iter'.at] = e BY <1>1, <1>3
  <2> HIDE DEF e, d
  <2>7. seen' = Append(seen, d) BY <1>1, <2>4 DEF d
  <2>8. /\ seen \in Seq(Env!Text) /\ Len(seen) = iter.pos - 1 /\ iter.end = Len(e) + 1
        /\ \A i \in 1..Len(seen) : seen[i] = Env!Key[e[i]]
    BY <2>1 DEF Visited
  <2>9. seen' \in Seq(Env!Text) /\ Len(seen') = iter.pos BY <2>3, <2>5, <2>7, <2>8
  <2>10. \A i \in 1..Len(seen') : seen'[i] = Env!Key[e[i]]
    <3> SUFFICES ASSUME NEW i \in 1..Len(seen') PROVE seen'[i] = Env!Key[e[i]] OBVIOUS
    <3>1. CASE i = iter.pos
      <4>1. Append(seen, d)[iter.pos] = d BY <2>3, <2>5, <2>8
      <4> QED BY <3>1, <4>1, <2>7 DEF d
    <3>2. CASE i # iter.pos
      <4>1. i \in 1..Len(seen) BY <3>2, <2>3, <2>8, <2>9
      <4>2. Append(seen, d)[i] = seen[i] BY <4>1, <2>5, <2>8
      <4> QED BY <4>1, <4>2, <2>7, <2>8
    <3> QED BY <3>1, <3>2
  <2>11. iter'.pos \in 1..iter'.end /\ iter'.end = Len(e) + 1 /\ Len(seen') = iter'.pos - 1
    BY <1>3, <2>3, <2>8, <2>9
  <2> QED BY <2>6, <2>9, <2>10, <2>11 DEF Visited
<1>5. iter'.at # 0 BY <1>1, <1>3 DEF EnvOk
<1> QED BY <1>1, <1>3, <1>4, <1>5 DEF EnvOk

LEMMA FinishKeepsEnv == ASSUME EnvGiven, EnvOk, Env!finish PROVE EnvOk'
<1>1. /\ iter # Env!Idle /\ iter' = Env!Idle /\ used' = used /\ environ' = environ
      /\ block' = IF windows THEN [block EXCEPT ![iter.at] = Env!freed] ELSE block
  BY Zenon DEF Env!finish
<1>2. used \in 1..MaxBlocks /\ environ \in 1..used /\ MaxBlocks \in Nat
      /\ block = [b \in 1..MaxBlocks |-> block[b]]
  BY DEF EnvOk, EnvGiven
<1>3. block' = [b \in 1..MaxBlocks |-> block'[b]] /\ block'[environ] = block[environ]
  <2>1. CASE windows
    <3>1. block' = [block EXCEPT ![iter.at] = Env!freed] BY <1>1, <2>1
    <3>2. iter.at # environ BY <1>1, <2>1 DEF EnvOk
    <3> QED BY <1>2, <3>1, <3>2
  <2>2. CASE ~windows BY <1>1, <1>2, <2>2
  <2> QED BY <2>1, <2>2
<1>4. iter' \in [at : 0..used, pos : Nat, end : Nat, steady : BOOLEAN] BY <1>1, <1>2 DEF Env!Idle
<1> QED BY <1>1, <1>3, <1>4 DEF EnvOk

\* The loop is none of the other calls' business; a process_environment takes a new array.
RestStep ==
  /\ iter' = iter /\ seen' = seen
  /\ \/ UNCHANGED Env!state
     \/ /\ used < MaxBlocks /\ used' = used + 1 /\ environ' = environ
        /\ block' = [block EXCEPT ![used'] = Env!freed]

LEMMA RestKeepsEnv == ASSUME EnvGiven, EnvOk, RestStep PROVE EnvOk'
<1>0. iter' = iter /\ seen' = seen BY DEF RestStep
<1>1. used \in 1..MaxBlocks /\ environ \in 1..used /\ MaxBlocks \in Nat
      /\ block = [b \in 1..MaxBlocks |-> block[b]] /\ block[environ] \in Seq(Env!Text)
      /\ iter \in [at : 0..used, pos : Nat, end : Nat, steady : BOOLEAN]
  BY DEF EnvOk, EnvGiven
<1>2. ArrayStep /\ environ' = environ /\ block'[environ] = block[environ]
  <2>1. CASE UNCHANGED Env!state
    <3>1. environ' = environ /\ block' = block BY <2>1 DEF Env!state
    <3> QED BY <2>1, <3>1, NothingIsArrayStep
  <2>2. CASE /\ used < MaxBlocks /\ used' = used + 1 /\ environ' = environ
             /\ block' = [block EXCEPT ![used'] = Env!freed]
    <3>1. block' = [b \in 1..MaxBlocks |-> block'[b]] BY <1>1, <2>2
    <3>2. \A b \in 1..used : block'[b] = block[b] BY <1>1, <2>2
    <3>3. used' \in used..MaxBlocks /\ environ' \in 1..used' BY <1>1, <2>2
    <3> QED BY <1>1, <2>2, <3>1, <3>2, <3>3 DEF ArrayStep
  <2> QED BY <2>1, <2>2 DEF RestStep
<1>3. iter # Env!Idle /\ iter'.steady =>
        iter.steady /\ environ' = environ /\ Len(block'[environ]) = Len(block[environ])
  BY <1>0, <1>2
<1> QED BY <1>0, <1>1, <1>2, <1>3, LoopKept

EnvStep ==
  \/ \E k \in Keys : Env!unset_key(k)
  \/ \E k \in Keys, v \in Texts : Env!set(k, v)
  \/ \E k \in Keys, vs \in Lists : Env!set_list(k, vs)
  \/ Env!begin \/ Env!next \/ Env!finish
  \/ RestStep

LEMMA CallsAreEnvSteps == [Env!Next]_(Env!vars) => EnvStep
<1>1. ASSUME NEW r, NEW a, Env!Reply(r, a) PROVE RestStep
  BY <1>1, Zenon DEF Env!Reply, Env!view, RestStep
<1>2. ASSUME NEW k \in Keys, Env!get(k) \/ Env!list(k) PROVE RestStep
  BY <1>1, <1>2, Zenon DEF Env!get, Env!list
<1>3. ASSUME Env!home \/ \E n \in Programs : Env!find_executable(n) PROVE RestStep
  BY <1>1, <1>3, Zenon DEF Env!home, Env!find_executable
<1>4. ASSUME Env!NewLauncher \/ Env!LaunchDefault \/ Env!LaunchAgain PROVE RestStep
  BY <1>4, Zenon DEF Env!NewLauncher, Env!LaunchDefault, Env!LaunchAgain, Env!view, RestStep
<1>5. ASSUME NEW m \in Given, Env!LaunchWith(m) PROVE RestStep
  BY <1>5, Zenon DEF Env!LaunchWith, Env!view, RestStep
<1>6. ASSUME UNCHANGED Env!vars PROVE RestStep BY <1>6, Zenon DEF Env!vars, Env!view, RestStep
<1> QED BY <1>2, <1>3, <1>4, <1>5, <1>6, Zenon DEF Env!Next, EnvStep

LEMMA EnvOkStep == ASSUME EnvGiven PROVE EnvOk /\ EnvStep => EnvOk'
<1> SUFFICES ASSUME EnvOk, EnvStep PROVE EnvOk' OBVIOUS
<1>1. Keys \subseteq Env!Text /\ Texts \subseteq Env!Text /\ Lists \subseteq Seq(Env!Text) BY DEF EnvGiven
<1>2. ASSUME NEW k \in Keys, Env!unset_key(k) PROVE EnvOk'
  <2>1. Env!Change(<<"unset", k>>, k, Env!unsetenv(k)) BY <1>2, Zenon DEF Env!unset_key
  <2>2. Env!unsetenv(k) => ArrayStep BY UnsetIsArrayStep
  <2> QED BY <2>1, <2>2, ChangeKeepsEnv
<1>3. ASSUME NEW k \in Keys, NEW v \in Texts, Env!set(k, v) PROVE EnvOk'
  <2>1. Env!Change(<<"set", k, v>>, k, Env!setenv(k, v)) BY <1>3, Zenon DEF Env!set
  <2>2. Env!setenv(k, v) /\ Env!IsKey(k) => ArrayStep BY <1>1, SetIsArrayStep
  <2> QED BY <2>1, <2>2, ChangeKeepsEnv
<1>4. ASSUME NEW k \in Keys, NEW vs \in Lists, Env!set_list(k, vs) PROVE EnvOk'
  <2> DEFINE t == Env!EntryOfList(k, vs)
  <2>1. Env!Change(<<"set_list", k, vs>>, k, Env!setenv(Env!Key[t], Env!Value[t]))
    BY <1>4, Zenon DEF Env!set_list
  <2>2. t \in Starting(k) /\ t \in Env!Text BY <1>1, ListStarts DEF Starting
  <2>3. Env!IsKey(k) => Env!Key[t] = k BY <1>1, <2>2, KeyOfEntry
  <2>4. Env!Value[t] \in Env!Text BY <2>2, PartsTyped
  <2> HIDE DEF t
  <2>5. Env!setenv(Env!Key[t], Env!Value[t]) /\ Env!IsKey(k) => ArrayStep
    BY <1>1, <2>3, <2>4, SetIsArrayStep
  <2> QED BY <2>1, <2>5, ChangeKeepsEnv
<1>5. RestStep => EnvOk' BY RestKeepsEnv
<1> QED BY <1>2, <1>3, <1>4, <1>5, BeginKeepsEnv, NextKeepsEnv, FinishKeepsEnv, Zenon DEF EnvStep

LEMMA EnvOkVisits == ASSUME EnvGiven, EnvOk PROVE Env!VisitsEachKey
<1> DEFINE e == block[iter.at]
<1>1. SUFFICES ASSUME iter # Env!Idle, iter.pos = iter.end, windows \/ iter.steady
               PROVE  seen = [i \in DOMAIN e |-> Env!Key[e[i]]]
  BY Zenon DEF Env!VisitsEachKey
<1>2. e \in Seq(Env!Text) /\ Visited(e) BY <1>1 DEF EnvOk
<1> HIDE DEF e
<1>3. DOMAIN e = 1..Len(e) /\ Len(e) \in Nat /\ \A i \in 1..Len(e) : e[i] \in Env!Text BY <1>2
<1> DEFINE keys == [i \in 1..Len(e) |-> Env!Key[e[i]]]
<1>4. \A i \in 1..Len(e) : Env!Key[e[i]] \in Env!Text BY <1>3, PartsTyped
<1>5. keys \in Seq(Env!Text) /\ Len(keys) = Len(e) BY <1>3, <1>4
<1>6. seen \in Seq(Env!Text) /\ Len(seen) = Len(e) /\ \A i \in 1..Len(seen) : seen[i] = keys[i]
  BY <1>1, <1>2, <1>3 DEF Visited
<1> HIDE DEF keys
<1>7. seen = keys BY <1>5, <1>6, SameText
<1> QED BY <1>3, <1>7 DEF keys

\* A loop over current() visits every key once and in order, for any environment, keys, values
\* and calls made in its body that add and remove none; on Windows for any calls.
THEOREM VisitsEachKeyHolds == ASSUME EnvGiven PROVE Env!Spec => []Env!VisitsEachKey
<1>1. Env!Init => EnvOk BY EnvOkInit
<1>2. EnvOk /\ [Env!Next]_(Env!vars) => EnvOk' BY EnvOkStep, CallsAreEnvSteps
<1>3. EnvOk => Env!VisitsEachKey BY EnvOkVisits
<1> QED BY <1>1, <1>2, <1>3, PTL DEF Env!Spec
===============================================================================
