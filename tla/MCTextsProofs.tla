----------------------------- MODULE MCTextsProofs -----------------------------
(***************************************************************************)
(* The theorems of TextsProofs for the modules that the run texts is made   *)
(* of: what its values and its shells promise, beside its other topics.     *)
(***************************************************************************)
EXTENDS MCTexts, TLAPS

OnPosix == INSTANCE TextsProofs WITH
  windows <- FALSE, KeyTexts <- ValKeys, ValueTexts <- ValTexts, PairTexts <- ValPairs, ValueLists <- ValLists,
  Lines <- Cmd2Typed \cup Cmd2Lines, Typed <- Cmd2Typed, Broken <- {<<"a", " ", "\"">>, <<"a", "|">>},
  Keys <- UnixKeys, Texts <- UnixTexts, Lists <- UnixLists, Given <- UnixGiven, Inits <- UnixInits,
  Programs <- {<<"x">>}, Executables <- UnixFiles, BufLen <- 4, EnvCalls <- MaxCalls,
  SsoLen <- 3, MaxCalls <- 4
OnWindows == INSTANCE TextsProofs WITH
  windows <- TRUE, KeyTexts <- ValKeys, ValueTexts <- ValTexts, PairTexts <- ValPairs, ValueLists <- ValLists,
  Lines <- Cmd2Typed \cup Cmd2Lines, Typed <- Cmd2Typed, Broken <- {<<"a", " ", "\"">>, <<"a", "|">>},
  Keys <- WinKeys, Texts <- WinTexts, Lists <- WinLists, Given <- WinGiven, Inits <- WinInits,
  Programs <- {<<"x">>}, Executables <- WinFiles, BufLen <- 3, EnvCalls <- MaxCalls,
  SsoLen <- 3, MaxCalls <- 4

-------------------------------------------------------------------------------
(***************************************************************************)
(* The values of the run are those of TextsProofs.                         *)
(***************************************************************************)
LEMMA PosixTexts ==
  /\ \A S : ValuesPosix!Min(S) = OnPosix!Min(S)
  /\ \A S : ValuesPosix!Cardinality(S) = OnPosix!Cardinality(S)
  /\ \A t, c : ValuesPosix!Find(t, c) = OnPosix!Find(t, c)
  /\ ValuesPosix!Key = OnPosix!Key /\ ValuesPosix!Value = OnPosix!Value
  /\ \A k : ValuesPosix!Folded(k) = OnPosix!Folded(k)
  /\ \A k, v : ValuesPosix!Entry(k, v) = OnPosix!Entry(k, v)
  /\ \A k, vs : ValuesPosix!EntryOfList(k, vs) = OnPosix!EntryOfList(k, vs)
  /\ ValuesPosix!delimiter = OnPosix!delimiter /\ ValuesPosix!equality_sign = OnPosix!equality_sign
<1>1. \A S : ValuesPosix!Min(S) = OnPosix!Min(S) BY Zenon DEF ValuesPosix!Min, OnPosix!Min
<1>2. \A S : ValuesPosix!Cardinality(S) = OnPosix!Cardinality(S)
  BY Zenon DEF ValuesPosix!Cardinality, OnPosix!Cardinality
<1>3. \A t, c : ValuesPosix!Find(t, c) = OnPosix!Find(t, c)
  BY <1>1, Zenon DEF ValuesPosix!Find, OnPosix!Find, ValuesPosix!Places, OnPosix!Places
<1>4. \A t : ValuesPosix!EqualitySign(t) = OnPosix!EqualitySign(t)
  BY <1>1, Zenon DEF ValuesPosix!EqualitySign, OnPosix!EqualitySign, ValuesPosix!Places, OnPosix!Places,
        ValuesPosix!equality_sign, OnPosix!equality_sign
<1>5. ValuesPosix!Key = OnPosix!Key
  BY <1>4, Zenon DEF ValuesPosix!Key, OnPosix!Key, ValuesPosix!Text, OnPosix!Text
<1>6. ValuesPosix!Value = OnPosix!Value
  BY <1>4, Zenon DEF ValuesPosix!Value, OnPosix!Value, ValuesPosix!Text, OnPosix!Text
<1>7. \A k : ValuesPosix!Folded(k) = OnPosix!Folded(k)
  BY Zenon DEF ValuesPosix!Folded, OnPosix!Folded, ValuesPosix!to_lower, OnPosix!to_lower, ValuesPosix!Lower,
        OnPosix!Lower
<1>8. \A k, v : ValuesPosix!Entry(k, v) = OnPosix!Entry(k, v)
  BY Zenon DEF ValuesPosix!Entry, OnPosix!Entry, ValuesPosix!equality_sign, OnPosix!equality_sign
<1>9. \A k, vs : ValuesPosix!EntryOfList(k, vs) = OnPosix!EntryOfList(k, vs)
  BY Zenon DEF ValuesPosix!EntryOfList, OnPosix!EntryOfList, ValuesPosix!AppendValue, OnPosix!AppendValue,
        ValuesPosix!FoldLeft, OnPosix!FoldLeft, ValuesPosix!Last, OnPosix!Last, ValuesPosix!delimiter,
        OnPosix!delimiter, ValuesPosix!equality_sign, OnPosix!equality_sign, ValuesPosix!MapThenFoldSet,
        OnPosix!MapThenFoldSet, ValuesPosix!Max, OnPosix!Max
<1>10. ValuesPosix!delimiter = OnPosix!delimiter /\ ValuesPosix!equality_sign = OnPosix!equality_sign
  BY Zenon DEF ValuesPosix!delimiter, OnPosix!delimiter, ValuesPosix!equality_sign, OnPosix!equality_sign
<1> QED BY <1>1, <1>2, <1>3, <1>5, <1>6, <1>7, <1>8, <1>9, <1>10, Zenon

LEMMA PosixObjects ==
  /\ ValuesPosix!Live = OnPosix!Live /\ ValuesPosix!Owner = OnPosix!Owner /\ ValuesPosix!ViewOf = OnPosix!ViewOf
  /\ \A n, family : ValuesPosix!Is(n, family) = OnPosix!Is(n, family)
  /\ \A n : ValuesPosix!Owns(n) = OnPosix!Owns(n)
  /\ \A n : ValuesPosix!Base(n) = OnPosix!Base(n)
  /\ \A n : ValuesPosix!From(n) = OnPosix!From(n)
  /\ \A n : ValuesPosix!To(n) = OnPosix!To(n)
  /\ \A n : ValuesPosix!TextOf(n) = OnPosix!TextOf(n)
  /\ \A n : ValuesPosix!Without(n) = OnPosix!Without(n)
<1>1. ValuesPosix!Live = OnPosix!Live /\ ValuesPosix!Owner = OnPosix!Owner /\ ValuesPosix!ViewOf = OnPosix!ViewOf
  BY Zenon DEF ValuesPosix!Live, OnPosix!Live, ValuesPosix!Owner, OnPosix!Owner, ValuesPosix!ViewOf,
        OnPosix!ViewOf
<1>2. \A n, family : ValuesPosix!Is(n, family) = OnPosix!Is(n, family)
  BY Zenon DEF ValuesPosix!Is, OnPosix!Is, ValuesPosix!Live, OnPosix!Live, ValuesPosix!ViewOf, OnPosix!ViewOf
<1>3. \A n : ValuesPosix!Owns(n) = OnPosix!Owns(n)
  BY Zenon DEF ValuesPosix!Owns, OnPosix!Owns, ValuesPosix!Live, OnPosix!Live, ValuesPosix!Owner, OnPosix!Owner
<1>4. \A n : ValuesPosix!Base(n) = OnPosix!Base(n) BY <1>3, Zenon DEF ValuesPosix!Base, OnPosix!Base
<1>5. \A n : ValuesPosix!From(n) = OnPosix!From(n) BY <1>3, Zenon DEF ValuesPosix!From, OnPosix!From
<1>6. \A n : ValuesPosix!To(n) = OnPosix!To(n) BY <1>3, Zenon DEF ValuesPosix!To, OnPosix!To
<1>7. \A n : ValuesPosix!TextOf(n) = OnPosix!TextOf(n)
  BY <1>4, <1>5, <1>6, Zenon DEF ValuesPosix!TextOf, OnPosix!TextOf
<1>8. \A n : ValuesPosix!Without(n) = OnPosix!Without(n)
  BY Zenon DEF ValuesPosix!Without, OnPosix!Without, ValuesPosix!Owns, OnPosix!Owns, ValuesPosix!Live,
        OnPosix!Live, ValuesPosix!Owner, OnPosix!Owner
<1> QED BY <1>1, <1>2, <1>3, <1>4, <1>5, <1>6, <1>7, <1>8, Zenon

LEMMA PosixSteps == ValuesPosix!Next => OnPosix!Next
<1>1. /\ ValuesPosix!Call <=> OnPosix!Call
      /\ \A n, k, t, m : ValuesPosix!NewOwner(n, k, t, m) <=> OnPosix!NewOwner(n, k, t, m)
  BY Zenon DEF ValuesPosix!Call, OnPosix!Call, ValuesPosix!NewOwner, OnPosix!NewOwner
<1>2. /\ \A t : ValuesPosix!Single(t) <=> OnPosix!Single(t)
      /\ \A n : ValuesPosix!ListOf(n) = OnPosix!ListOf(n)
  <2>1. \A t : ValuesPosix!Single(t) <=> OnPosix!Single(t)
    BY PosixTexts, Zenon DEF ValuesPosix!Single, OnPosix!Single
  <2> QED BY <2>1, PosixObjects, Zenon DEF ValuesPosix!ListOf, OnPosix!ListOf
<1>3. \A k, vs : ValuesPosix!Meaning(k, vs) = OnPosix!Meaning(k, vs)
  BY Zenon DEF ValuesPosix!Meaning, OnPosix!Meaning, ValuesPosix!PlainKey, OnPosix!PlainKey,
        ValuesPosix!equality_sign, OnPosix!equality_sign
<1>4. \A vs : ValuesPosix!PlainList(vs) <=> OnPosix!PlainList(vs)
  BY <1>2, PosixTexts, Zenon DEF ValuesPosix!PlainList, OnPosix!PlainList, ValuesPosix!Last, OnPosix!Last
<1>5. ASSUME NEW n \in Names, ValuesPosix!make(n) PROVE OnPosix!Next
  BY <1>1, <1>2, <1>5, Zenon DEF ValuesPosix!make, OnPosix!make, OnPosix!Next
<1>6. ASSUME NEW n \in Names, ValuesPosix!clear(n) \/ ValuesPosix!destroy(n) PROVE OnPosix!Next
  BY <1>1, <1>6, PosixObjects, Zenon DEF ValuesPosix!clear, OnPosix!clear, ValuesPosix!destroy,
        OnPosix!destroy, OnPosix!Next
<1>7. ASSUME NEW n \in Names, NEW m \in Names, ValuesPosix!copy(n, m) PROVE OnPosix!Next
  BY <1>1, <1>7, PosixObjects, Zenon DEF ValuesPosix!copy, OnPosix!copy, OnPosix!Next
<1>8. ASSUME NEW n \in Names, NEW m \in Names, ValuesPosix!look(n, m) PROVE OnPosix!Next
  BY <1>1, <1>8, PosixObjects, PosixTexts DEF ValuesPosix!look, OnPosix!look, ValuesPosix!View, OnPosix!View,
        ValuesPosix!key_of, OnPosix!key_of, ValuesPosix!value_of, OnPosix!value_of, OnPosix!Next
<1>9. ASSUME NEW n \in Names, NEW m \in Names, ValuesPosix!push_back(n, m) PROVE OnPosix!Next
  BY <1>1, <1>2, <1>9, PosixObjects, PosixTexts, Zenon DEF ValuesPosix!push_back, OnPosix!push_back,
        OnPosix!Next
<1>10. ASSUME NEW n \in Names, NEW m \in Names, ValuesPosix!assign(n, m) PROVE OnPosix!Next
  BY <1>10, Zenon DEF ValuesPosix!assign, OnPosix!assign, ValuesPosix!Without, OnPosix!Without,
        ValuesPosix!Owns, OnPosix!Owns, ValuesPosix!Live, OnPosix!Live, ValuesPosix!Owner, OnPosix!Owner,
        ValuesPosix!Call, OnPosix!Call, OnPosix!Next
<1>11. ASSUME NEW n \in Names, NEW k \in ValuesPosix!Live, NEW v \in ValuesPosix!Live,
        ValuesPosix!make_pair(n, k, v) PROVE OnPosix!Next
  BY <1>1, <1>2, <1>3, <1>11, PosixObjects, PosixTexts, Zenon DEF ValuesPosix!make_pair, OnPosix!make_pair,
        OnPosix!Next
<1>12. ASSUME NEW n \in Names, NEW k \in ValuesPosix!Live, NEW vs \in ValLists, ValuesPosix!make_list(n, k,
        vs) PROVE OnPosix!Next
  BY <1>1, <1>3, <1>4, <1>12, PosixObjects, PosixTexts, Zenon DEF ValuesPosix!make_list, OnPosix!make_list,
        OnPosix!Next
<1> QED BY <1>5, <1>6, <1>7, <1>8, <1>9, <1>10, <1>11, <1>12, Zenon DEF ValuesPosix!Next

LEMMA PosixOrders == OnPosix!OrderCoherent => ValuesPosix!OrderCoherent
<1>11. \A t : ValuesPosix!Codes(t) = OnPosix!Codes(t)
  BY Zenon DEF ValuesPosix!Codes, OnPosix!Codes, ValuesPosix!Code, OnPosix!Code, ValuesPosix!Alphabet,
        OnPosix!Alphabet
<1>12. \A s, t : ValuesPosix!Differ(s, t) = OnPosix!Differ(s, t) BY Zenon DEF ValuesPosix!Differ, OnPosix!Differ
<1>13. \A s, t : ValuesPosix!Order(s, t) = OnPosix!Order(s, t)
  BY <1>12, PosixTexts, Zenon DEF ValuesPosix!Order, OnPosix!Order
<1>14. \A s, t : ValuesPosix!string_compare(s, t) = OnPosix!string_compare(s, t)
  BY <1>12, <1>13, Zenon DEF ValuesPosix!string_compare, OnPosix!string_compare
<1>15. \A s, t : ValuesPosix!cstring_compare(s, t) = OnPosix!cstring_compare(s, t)
  BY <1>12, <1>13, PosixTexts, Zenon DEF ValuesPosix!cstring_compare, OnPosix!cstring_compare,
        ValuesPosix!At, OnPosix!At
<1>1. \A s, t : ValuesPosix!CompareKeys(s, t) = OnPosix!CompareKeys(s, t)
  BY <1>11, <1>14, PosixTexts, Zenon DEF ValuesPosix!CompareKeys, OnPosix!CompareKeys
<1>2. \A s, t, own : ValuesPosix!CompareValues(s, t, own) = OnPosix!CompareValues(s, t, own)
  BY <1>11, <1>14, <1>15, Zenon DEF ValuesPosix!CompareValues, OnPosix!CompareValues
<1>3. \A s, t : ValuesPosix!ComparePairs(s, t) = OnPosix!ComparePairs(s, t)
  BY <1>1, <1>2, PosixTexts, Zenon DEF ValuesPosix!ComparePairs, OnPosix!ComparePairs
<1>4. \A n, m : ValuesPosix!compare(n, m) = OnPosix!compare(n, m)
  <2> TAKE n, m
  <2>1. ValuesPosix!Turned(n, m) = OnPosix!Turned(n, m)
    BY PosixObjects, Zenon DEF ValuesPosix!Turned, OnPosix!Turned
  <2> QED BY <1>1, <1>2, <1>3, <2>1, PosixObjects, Zenon DEF ValuesPosix!compare, OnPosix!compare
<1>5. \A n : ValuesPosix!About(n) = OnPosix!About(n)
  BY PosixObjects, PosixTexts, Zenon DEF ValuesPosix!About, OnPosix!About
<1>6. \A n : ValuesPosix!Hashed(n) = OnPosix!Hashed(n)
  BY PosixObjects, PosixTexts, Zenon DEF ValuesPosix!Hashed, OnPosix!Hashed
<1>7. \A n : ValuesPosix!hash_value(n) = OnPosix!hash_value(n)
  <2>1. \A n : ValuesPosix!UpToNul(n) = OnPosix!UpToNul(n)
    BY PosixObjects, Zenon DEF ValuesPosix!UpToNul, OnPosix!UpToNul
  <2>2. \A t : ValuesPosix!Odd(t) = OnPosix!Odd(t)
    BY Zenon DEF ValuesPosix!Odd, OnPosix!Odd, ValuesPosix!Cardinality, OnPosix!Cardinality
  <2> QED BY <2>1, <2>2, PosixObjects, PosixTexts, Zenon DEF ValuesPosix!hash_value, OnPosix!hash_value
<1> QED BY <1>4, <1>5, <1>6, <1>7, PosixObjects DEF ValuesPosix!OrderCoherent, OnPosix!OrderCoherent

LEMMA WindowsTexts ==
  /\ \A S : ValuesWindows!Min(S) = OnWindows!Min(S)
  /\ \A S : ValuesWindows!Cardinality(S) = OnWindows!Cardinality(S)
  /\ \A t, c : ValuesWindows!Find(t, c) = OnWindows!Find(t, c)
  /\ ValuesWindows!Key = OnWindows!Key /\ ValuesWindows!Value = OnWindows!Value
  /\ \A k : ValuesWindows!Folded(k) = OnWindows!Folded(k)
  /\ \A k, v : ValuesWindows!Entry(k, v) = OnWindows!Entry(k, v)
  /\ \A k, vs : ValuesWindows!EntryOfList(k, vs) = OnWindows!EntryOfList(k, vs)
  /\ ValuesWindows!delimiter = OnWindows!delimiter /\ ValuesWindows!equality_sign = OnWindows!equality_sign
<1>1. \A S : ValuesWindows!Min(S) = OnWindows!Min(S) BY Zenon DEF ValuesWindows!Min, OnWindows!Min
<1>2. \A S : ValuesWindows!Cardinality(S) = OnWindows!Cardinality(S)
  BY Zenon DEF ValuesWindows!Cardinality, OnWindows!Cardinality
<1>3. \A t, c : ValuesWindows!Find(t, c) = OnWindows!Find(t, c)
  BY <1>1, Zenon DEF ValuesWindows!Find, OnWindows!Find, ValuesWindows!Places, OnWindows!Places
<1>4. \A t : ValuesWindows!EqualitySign(t) = OnWindows!EqualitySign(t)
  BY <1>1, Zenon DEF ValuesWindows!EqualitySign, OnWindows!EqualitySign, ValuesWindows!Places,
        OnWindows!Places, ValuesWindows!equality_sign, OnWindows!equality_sign
<1>5. ValuesWindows!Key = OnWindows!Key
  BY <1>4, Zenon DEF ValuesWindows!Key, OnWindows!Key, ValuesWindows!Text, OnWindows!Text
<1>6. ValuesWindows!Value = OnWindows!Value
  BY <1>4, Zenon DEF ValuesWindows!Value, OnWindows!Value, ValuesWindows!Text, OnWindows!Text
<1>7. \A k : ValuesWindows!Folded(k) = OnWindows!Folded(k)
  BY Zenon DEF ValuesWindows!Folded, OnWindows!Folded, ValuesWindows!to_lower, OnWindows!to_lower,
        ValuesWindows!Lower, OnWindows!Lower
<1>8. \A k, v : ValuesWindows!Entry(k, v) = OnWindows!Entry(k, v)
  BY Zenon DEF ValuesWindows!Entry, OnWindows!Entry, ValuesWindows!equality_sign, OnWindows!equality_sign
<1>9. \A k, vs : ValuesWindows!EntryOfList(k, vs) = OnWindows!EntryOfList(k, vs)
  BY Zenon DEF ValuesWindows!EntryOfList, OnWindows!EntryOfList, ValuesWindows!AppendValue,
        OnWindows!AppendValue, ValuesWindows!FoldLeft, OnWindows!FoldLeft, ValuesWindows!Last,
        OnWindows!Last, ValuesWindows!delimiter, OnWindows!delimiter, ValuesWindows!equality_sign,
        OnWindows!equality_sign, ValuesWindows!MapThenFoldSet, OnWindows!MapThenFoldSet, ValuesWindows!Max,
        OnWindows!Max
<1>10. ValuesWindows!delimiter = OnWindows!delimiter /\ ValuesWindows!equality_sign = OnWindows!equality_sign
  BY Zenon DEF ValuesWindows!delimiter, OnWindows!delimiter, ValuesWindows!equality_sign,
        OnWindows!equality_sign
<1> QED BY <1>1, <1>2, <1>3, <1>5, <1>6, <1>7, <1>8, <1>9, <1>10, Zenon

LEMMA WindowsObjects ==
  /\ ValuesWindows!Live = OnWindows!Live /\ ValuesWindows!Owner = OnWindows!Owner /\ ValuesWindows!ViewOf = OnWindows!ViewOf
  /\ \A n, family : ValuesWindows!Is(n, family) = OnWindows!Is(n, family)
  /\ \A n : ValuesWindows!Owns(n) = OnWindows!Owns(n)
  /\ \A n : ValuesWindows!Base(n) = OnWindows!Base(n)
  /\ \A n : ValuesWindows!From(n) = OnWindows!From(n)
  /\ \A n : ValuesWindows!To(n) = OnWindows!To(n)
  /\ \A n : ValuesWindows!TextOf(n) = OnWindows!TextOf(n)
  /\ \A n : ValuesWindows!Without(n) = OnWindows!Without(n)
<1>1. ValuesWindows!Live = OnWindows!Live /\ ValuesWindows!Owner = OnWindows!Owner /\ ValuesWindows!ViewOf = OnWindows!ViewOf
  BY Zenon DEF ValuesWindows!Live, OnWindows!Live, ValuesWindows!Owner, OnWindows!Owner,
        ValuesWindows!ViewOf, OnWindows!ViewOf
<1>2. \A n, family : ValuesWindows!Is(n, family) = OnWindows!Is(n, family)
  BY Zenon DEF ValuesWindows!Is, OnWindows!Is, ValuesWindows!Live, OnWindows!Live, ValuesWindows!ViewOf,
        OnWindows!ViewOf
<1>3. \A n : ValuesWindows!Owns(n) = OnWindows!Owns(n)
  BY Zenon DEF ValuesWindows!Owns, OnWindows!Owns, ValuesWindows!Live, OnWindows!Live, ValuesWindows!Owner,
        OnWindows!Owner
<1>4. \A n : ValuesWindows!Base(n) = OnWindows!Base(n) BY <1>3, Zenon DEF ValuesWindows!Base, OnWindows!Base
<1>5. \A n : ValuesWindows!From(n) = OnWindows!From(n) BY <1>3, Zenon DEF ValuesWindows!From, OnWindows!From
<1>6. \A n : ValuesWindows!To(n) = OnWindows!To(n) BY <1>3, Zenon DEF ValuesWindows!To, OnWindows!To
<1>7. \A n : ValuesWindows!TextOf(n) = OnWindows!TextOf(n)
  BY <1>4, <1>5, <1>6, Zenon DEF ValuesWindows!TextOf, OnWindows!TextOf
<1>8. \A n : ValuesWindows!Without(n) = OnWindows!Without(n)
  BY Zenon DEF ValuesWindows!Without, OnWindows!Without, ValuesWindows!Owns, OnWindows!Owns,
        ValuesWindows!Live, OnWindows!Live, ValuesWindows!Owner, OnWindows!Owner
<1> QED BY <1>1, <1>2, <1>3, <1>4, <1>5, <1>6, <1>7, <1>8, Zenon

LEMMA WindowsSteps == ValuesWindows!Next => OnWindows!Next
<1>1. /\ ValuesWindows!Call <=> OnWindows!Call
      /\ \A n, k, t, m : ValuesWindows!NewOwner(n, k, t, m) <=> OnWindows!NewOwner(n, k, t, m)
  BY Zenon DEF ValuesWindows!Call, OnWindows!Call, ValuesWindows!NewOwner, OnWindows!NewOwner
<1>2. /\ \A t : ValuesWindows!Single(t) <=> OnWindows!Single(t)
      /\ \A n : ValuesWindows!ListOf(n) = OnWindows!ListOf(n)
  <2>1. \A t : ValuesWindows!Single(t) <=> OnWindows!Single(t)
    BY WindowsTexts, Zenon DEF ValuesWindows!Single, OnWindows!Single
  <2> QED BY <2>1, WindowsObjects, Zenon DEF ValuesWindows!ListOf, OnWindows!ListOf
<1>3. \A k, vs : ValuesWindows!Meaning(k, vs) = OnWindows!Meaning(k, vs)
  BY Zenon DEF ValuesWindows!Meaning, OnWindows!Meaning, ValuesWindows!PlainKey, OnWindows!PlainKey,
        ValuesWindows!equality_sign, OnWindows!equality_sign
<1>4. \A vs : ValuesWindows!PlainList(vs) <=> OnWindows!PlainList(vs)
  BY <1>2, WindowsTexts, Zenon DEF ValuesWindows!PlainList, OnWindows!PlainList, ValuesWindows!Last,
        OnWindows!Last
<1>5. ASSUME NEW n \in Names, ValuesWindows!make(n) PROVE OnWindows!Next
  BY <1>1, <1>2, <1>5, Zenon DEF ValuesWindows!make, OnWindows!make, OnWindows!Next
<1>6. ASSUME NEW n \in Names, ValuesWindows!clear(n) \/ ValuesWindows!destroy(n) PROVE OnWindows!Next
  BY <1>1, <1>6, WindowsObjects, Zenon DEF ValuesWindows!clear, OnWindows!clear, ValuesWindows!destroy,
        OnWindows!destroy, OnWindows!Next
<1>7. ASSUME NEW n \in Names, NEW m \in Names, ValuesWindows!copy(n, m) PROVE OnWindows!Next
  BY <1>1, <1>7, WindowsObjects, Zenon DEF ValuesWindows!copy, OnWindows!copy, OnWindows!Next
<1>8. ASSUME NEW n \in Names, NEW m \in Names, ValuesWindows!look(n, m) PROVE OnWindows!Next
  BY <1>1, <1>8, WindowsObjects, WindowsTexts DEF ValuesWindows!look, OnWindows!look, ValuesWindows!View,
        OnWindows!View, ValuesWindows!key_of, OnWindows!key_of, ValuesWindows!value_of, OnWindows!value_of,
        OnWindows!Next
<1>9. ASSUME NEW n \in Names, NEW m \in Names, ValuesWindows!push_back(n, m) PROVE OnWindows!Next
  BY <1>1, <1>2, <1>9, WindowsObjects, WindowsTexts, Zenon DEF ValuesWindows!push_back, OnWindows!push_back,
        OnWindows!Next
<1>10. ASSUME NEW n \in Names, NEW m \in Names, ValuesWindows!assign(n, m) PROVE OnWindows!Next
  BY <1>10, Zenon DEF ValuesWindows!assign, OnWindows!assign, ValuesWindows!Without, OnWindows!Without,
        ValuesWindows!Owns, OnWindows!Owns, ValuesWindows!Live, OnWindows!Live, ValuesWindows!Owner,
        OnWindows!Owner, ValuesWindows!Call, OnWindows!Call, OnWindows!Next
<1>11. ASSUME NEW n \in Names, NEW k \in ValuesWindows!Live, NEW v \in ValuesWindows!Live,
        ValuesWindows!make_pair(n, k, v) PROVE OnWindows!Next
  BY <1>1, <1>2, <1>3, <1>11, WindowsObjects, WindowsTexts, Zenon DEF ValuesWindows!make_pair,
        OnWindows!make_pair, OnWindows!Next
<1>12. ASSUME NEW n \in Names, NEW k \in ValuesWindows!Live, NEW vs \in ValLists, ValuesWindows!make_list(n,
        k, vs) PROVE OnWindows!Next
  BY <1>1, <1>3, <1>4, <1>12, WindowsObjects, WindowsTexts, Zenon DEF ValuesWindows!make_list,
        OnWindows!make_list, OnWindows!Next
<1> QED BY <1>5, <1>6, <1>7, <1>8, <1>9, <1>10, <1>11, <1>12, Zenon DEF ValuesWindows!Next

LEMMA WindowsOrders == OnWindows!OrderCoherent => ValuesWindows!OrderCoherent
<1>11. \A t : ValuesWindows!Codes(t) = OnWindows!Codes(t)
  BY Zenon DEF ValuesWindows!Codes, OnWindows!Codes, ValuesWindows!Code, OnWindows!Code,
        ValuesWindows!Alphabet, OnWindows!Alphabet
<1>12. \A s, t : ValuesWindows!Differ(s, t) = OnWindows!Differ(s, t)
  BY Zenon DEF ValuesWindows!Differ, OnWindows!Differ
<1>13. \A s, t : ValuesWindows!Order(s, t) = OnWindows!Order(s, t)
  BY <1>12, WindowsTexts, Zenon DEF ValuesWindows!Order, OnWindows!Order
<1>14. \A s, t : ValuesWindows!string_compare(s, t) = OnWindows!string_compare(s, t)
  BY <1>12, <1>13, Zenon DEF ValuesWindows!string_compare, OnWindows!string_compare
<1>15. \A s, t : ValuesWindows!cstring_compare(s, t) = OnWindows!cstring_compare(s, t)
  BY <1>12, <1>13, WindowsTexts, Zenon DEF ValuesWindows!cstring_compare, OnWindows!cstring_compare,
        ValuesWindows!At, OnWindows!At
<1>1. \A s, t : ValuesWindows!CompareKeys(s, t) = OnWindows!CompareKeys(s, t)
  BY <1>11, <1>14, WindowsTexts, Zenon DEF ValuesWindows!CompareKeys, OnWindows!CompareKeys
<1>2. \A s, t, own : ValuesWindows!CompareValues(s, t, own) = OnWindows!CompareValues(s, t, own)
  BY <1>11, <1>14, <1>15, Zenon DEF ValuesWindows!CompareValues, OnWindows!CompareValues
<1>3. \A s, t : ValuesWindows!ComparePairs(s, t) = OnWindows!ComparePairs(s, t)
  BY <1>1, <1>2, WindowsTexts, Zenon DEF ValuesWindows!ComparePairs, OnWindows!ComparePairs
<1>4. \A n, m : ValuesWindows!compare(n, m) = OnWindows!compare(n, m)
  <2> TAKE n, m
  <2>1. ValuesWindows!Turned(n, m) = OnWindows!Turned(n, m)
    BY WindowsObjects, Zenon DEF ValuesWindows!Turned, OnWindows!Turned
  <2> QED BY <1>1, <1>2, <1>3, <2>1, WindowsObjects, Zenon DEF ValuesWindows!compare, OnWindows!compare
<1>5. \A n : ValuesWindows!About(n) = OnWindows!About(n)
  BY WindowsObjects, WindowsTexts, Zenon DEF ValuesWindows!About, OnWindows!About
<1>6. \A n : ValuesWindows!Hashed(n) = OnWindows!Hashed(n)
  BY WindowsObjects, WindowsTexts, Zenon DEF ValuesWindows!Hashed, OnWindows!Hashed
<1>7. \A n : ValuesWindows!hash_value(n) = OnWindows!hash_value(n)
  <2>1. \A n : ValuesWindows!UpToNul(n) = OnWindows!UpToNul(n)
    BY WindowsObjects, Zenon DEF ValuesWindows!UpToNul, OnWindows!UpToNul
  <2>2. \A t : ValuesWindows!Odd(t) = OnWindows!Odd(t)
    BY Zenon DEF ValuesWindows!Odd, OnWindows!Odd, ValuesWindows!Cardinality, OnWindows!Cardinality
  <2> QED BY <2>1, <2>2, WindowsObjects, WindowsTexts, Zenon DEF ValuesWindows!hash_value, OnWindows!hash_value
<1> QED BY <1>4, <1>5, <1>6, <1>7, WindowsObjects DEF ValuesWindows!OrderCoherent, OnWindows!OrderCoherent

-------------------------------------------------------------------------------
(***************************************************************************)
(* A call of the run's shells is a step of those of TextsProofs.            *)
(***************************************************************************)
LEMMA V2PosixShells == [CmdV2Posix!Next]_<<launcher, shell, live, wanted, child, calls>> => OnPosix!ShellStep
<1>1. CmdV2Posix!Call <=> OnPosix!Cmd!Call BY Zenon DEF CmdV2Posix!Call, OnPosix!Cmd!Call
<1>2. \A o : CmdV2Posix!Moved(o) = OnPosix!Cmd!Moved(o) BY Zenon DEF CmdV2Posix!Moved, OnPosix!Cmd!Moved
<1>3. CmdV2Posix!Empty = OnPosix!Cmd!Empty BY Zenon DEF CmdV2Posix!Empty, OnPosix!Cmd!Empty
<1>4. ASSUME NEW ws, CmdV2Posix!Launch(ws) PROVE OnPosix!ShellStep
  BY <1>4 DEF CmdV2Posix!Launch, OnPosix!ShellStep
<1>5. ASSUME NEW s \in Shells, CmdV2Posix!launch_shell(s) PROVE OnPosix!ShellStep
  BY <1>5 DEF CmdV2Posix!launch_shell, CmdV2Posix!Call, OnPosix!ShellStep
<1>6. ASSUME NEW s \in Shells, NEW line, NEW m, NEW view, CmdV2Posix!parse(s, line, m,
        view) PROVE OnPosix!ShellStep
  <2>1. CmdV2Posix!Call /\ shell[s] = none /\ calls' = calls + 1 BY <1>6 DEF CmdV2Posix!parse, CmdV2Posix!Call
  <2>2. CASE UNCHANGED <<shell, live>> BY <2>1, <2>2 DEF OnPosix!ShellStep
  <2>3. CASE ~UNCHANGED <<shell, live>>
    <3>1. PICK words :
            /\ live' = live \cup {calls'}
            /\ shell' = [shell EXCEPT ![s] = [array |-> calls', words |-> words, line |-> line,
                                              view |-> view, meant |-> m]]
      BY <1>6, <2>3 DEF CmdV2Posix!parse
    <3>2. OnPosix!Parsed(s) BY <1>1, <2>1, <3>1, Zenon DEF OnPosix!Parsed
    <3> QED BY <3>2 DEF OnPosix!ShellStep
  <2> QED BY <2>2, <2>3
<1>7. ASSUME NEW s \in Shells, CmdV2Posix!default(s) \/ CmdV2Posix!destroy(s) PROVE OnPosix!ShellStep
  <2>1. OnPosix!Cmd!default(s) \/ OnPosix!Cmd!destroy(s)
    BY <1>1, <1>3, <1>7, Zenon DEF CmdV2Posix!default, OnPosix!Cmd!default, CmdV2Posix!destroy,
        OnPosix!Cmd!destroy
  <2> QED BY <2>1 DEF OnPosix!ShellStep
<1>8. ASSUME NEW s \in Shells, NEW t \in Shells, CmdV2Posix!move_construct(s, t) \/ CmdV2Posix!move_assign(s, t)
      PROVE  OnPosix!ShellStep
  <2>1. OnPosix!Cmd!move_construct(s, t) \/ OnPosix!Cmd!move_assign(s, t)
    BY <1>1, <1>2, <1>3, <1>8, Zenon DEF CmdV2Posix!move_construct, OnPosix!Cmd!move_construct,
        CmdV2Posix!move_assign, OnPosix!Cmd!move_assign
  <2> QED BY <2>1 DEF OnPosix!ShellStep
<1>9. CmdV2Posix!Next => OnPosix!ShellStep BY <1>4, <1>5, <1>6, <1>7, <1>8, Zenon DEF CmdV2Posix!Next
<1>10. UNCHANGED <<launcher, shell, live, wanted, child, calls>> => OnPosix!ShellStep BY DEF OnPosix!ShellStep
<1> QED BY <1>9, <1>10

LEMMA V2WindowsShells == [CmdV2Windows!Next]_<<launcher, shell, live, wanted, child,
        calls>> => OnPosix!ShellStep
<1>1. CmdV2Windows!Call <=> OnPosix!Cmd!Call BY Zenon DEF CmdV2Windows!Call, OnPosix!Cmd!Call
<1>2. \A o : CmdV2Windows!Moved(o) = OnPosix!Cmd!Moved(o) BY Zenon DEF CmdV2Windows!Moved, OnPosix!Cmd!Moved
<1>3. CmdV2Windows!Empty = OnPosix!Cmd!Empty BY Zenon DEF CmdV2Windows!Empty, OnPosix!Cmd!Empty
<1>4. ASSUME NEW ws, CmdV2Windows!Launch(ws) PROVE OnPosix!ShellStep
  BY <1>4 DEF CmdV2Windows!Launch, OnPosix!ShellStep
<1>5. ASSUME NEW s \in Shells, CmdV2Windows!launch_shell(s) PROVE OnPosix!ShellStep
  BY <1>5 DEF CmdV2Windows!launch_shell, CmdV2Windows!Call, OnPosix!ShellStep
<1>6. ASSUME NEW s \in Shells, NEW line, NEW m, NEW view, CmdV2Windows!parse(s, line, m,
        view) PROVE OnPosix!ShellStep
  <2>1. CmdV2Windows!Call /\ shell[s] = none /\ calls' = calls + 1
    BY <1>6 DEF CmdV2Windows!parse, CmdV2Windows!Call
  <2>2. CASE UNCHANGED <<shell, live>> BY <2>1, <2>2 DEF OnPosix!ShellStep
  <2>3. CASE ~UNCHANGED <<shell, live>>
    <3>1. PICK words :
            /\ live' = live \cup {calls'}
            /\ shell' = [shell EXCEPT ![s] = [array |-> calls', words |-> words, line |-> line,
                                              view |-> view, meant |-> m]]
      BY <1>6, <2>3 DEF CmdV2Windows!parse
    <3>2. OnPosix!Parsed(s) BY <1>1, <2>1, <3>1, Zenon DEF OnPosix!Parsed
    <3> QED BY <3>2 DEF OnPosix!ShellStep
  <2> QED BY <2>2, <2>3
<1>7. ASSUME NEW s \in Shells, CmdV2Windows!default(s) \/ CmdV2Windows!destroy(s) PROVE OnPosix!ShellStep
  <2>1. OnPosix!Cmd!default(s) \/ OnPosix!Cmd!destroy(s)
    BY <1>1, <1>3, <1>7, Zenon DEF CmdV2Windows!default, OnPosix!Cmd!default, CmdV2Windows!destroy,
        OnPosix!Cmd!destroy
  <2> QED BY <2>1 DEF OnPosix!ShellStep
<1>8. ASSUME NEW s \in Shells, NEW t \in Shells, CmdV2Windows!move_construct(s,
        t) \/ CmdV2Windows!move_assign(s, t)
      PROVE  OnPosix!ShellStep
  <2>1. OnPosix!Cmd!move_construct(s, t) \/ OnPosix!Cmd!move_assign(s, t)
    BY <1>1, <1>2, <1>3, <1>8, Zenon DEF CmdV2Windows!move_construct, OnPosix!Cmd!move_construct,
        CmdV2Windows!move_assign, OnPosix!Cmd!move_assign
  <2> QED BY <2>1 DEF OnPosix!ShellStep
<1>9. CmdV2Windows!Next => OnPosix!ShellStep BY <1>4, <1>5, <1>6, <1>7, <1>8, Zenon DEF CmdV2Windows!Next
<1>10. UNCHANGED <<launcher, shell, live, wanted, child, calls>> => OnPosix!ShellStep BY DEF OnPosix!ShellStep
<1> QED BY <1>9, <1>10

-------------------------------------------------------------------------------
(***************************************************************************)
(* The run's invariants: those of TextsProofs, each while its topic lasts.  *)
(***************************************************************************)
ShellTopics == {"commands v2 posix", "commands v2 windows"}
ShellsInv == topic \in ShellTopics => OnPosix!ShellInv

LEMMA ShellsInvariant == ASSUME OnPosix!NoneIsNoObject PROVE Spec => []ShellsInv
<1>1. Init => ShellsInv
  <2>1. CmdV2Posix!Init \/ CmdV2Windows!Init => OnPosix!ShellInv
    BY OnPosix!ShellInvInit DEF CmdV2Posix!Init, CmdV2Windows!Init
  <2> QED BY <2>1 DEF Init, ShellsInv, ShellTopics
<1>2. ShellsInv /\ [Next]_vars => ShellsInv'
  <2> SUFFICES ASSUME ShellsInv, [Next]_vars, topic' \in ShellTopics PROVE OnPosix!ShellInv'
    BY DEF ShellsInv
  <2>1. topic' = topic BY DEF Next, vars
  <2>2. OnPosix!ShellInv BY <2>1 DEF ShellsInv
  <2>3. CASE Next
    <3>1. CmdV2Posix!Next \/ CmdV2Windows!Next BY <2>1, <2>3 DEF Next, ShellTopics
    <3>2. OnPosix!ShellStep BY <3>1, V2PosixShells, V2WindowsShells
    <3> QED BY <2>2, <3>2, OnPosix!ShellInvStep
  <2>4. CASE UNCHANGED vars
    <3>1. OnPosix!ShellStep BY <2>4 DEF vars, cmd2Only, OnPosix!ShellStep
    <3> QED BY <2>2, <3>1, OnPosix!ShellInvStep
  <2> QED BY <2>3, <2>4
<1> QED BY <1>1, <1>2, PTL DEF Spec

\* Class shell on both systems: every array of words has one owner, and is freed once, for any
\* number of objects.
THEOREM ArraysOwnedHolds == ASSUME OnPosix!NoneIsNoObject PROVE Spec => []ArraysOwned
<1>1. ShellsInv => ArraysOwned
  <2>1. OnPosix!ShellInv => OnPosix!Cmd!ArraysOwned BY OnPosix!OwnedOnce
  <2>2. CmdV2Posix!ArraysOwned <=> OnPosix!Cmd!ArraysOwned
    BY Zenon DEF CmdV2Posix!ArraysOwned, OnPosix!Cmd!ArraysOwned, CmdV2Posix!Cardinality, OnPosix!Cmd!Cardinality
  <2>3. CmdV2Windows!ArraysOwned <=> OnPosix!Cmd!ArraysOwned
    BY Zenon DEF CmdV2Windows!ArraysOwned, OnPosix!Cmd!ArraysOwned, CmdV2Windows!Cardinality, OnPosix!Cmd!Cardinality
  <2> QED BY <2>1, <2>2, <2>3 DEF ShellsInv, ShellTopics, ArraysOwned
<1> QED BY <1>1, ShellsInvariant, PTL

ValuesInv ==
  /\ topic = "values posix" => OnPosix!ObjectsFit(object)
  /\ topic = "values windows" => OnWindows!ObjectsFit(object)

LEMMA ValuesInvariant == ASSUME OnPosix!TextsGiven, OnWindows!TextsGiven PROVE Spec => []ValuesInv
<1>1. Init => ValuesInv
  <2>1. ValuesPosix!Init => OnPosix!ObjectsFit(object) BY DEF ValuesPosix!Init, OnPosix!ObjectsFit
  <2>2. ValuesWindows!Init => OnWindows!ObjectsFit(object) BY DEF ValuesWindows!Init, OnWindows!ObjectsFit
  <2> QED BY <2>1, <2>2 DEF Init, ValuesInv
<1>2. ValuesInv /\ [Next]_vars => ValuesInv'
  <2> SUFFICES ASSUME ValuesInv, [Next]_vars PROVE ValuesInv' OBVIOUS
  <2>1. topic' = topic BY DEF Next, vars
  <2>2. CASE Next /\ topic = "values posix"
    <3>1. ValuesPosix!Next BY <2>2 DEF Next
    <3>2. OnPosix!Next /\ OnPosix!ObjectsFit(object) BY <3>1, <2>2, PosixSteps DEF ValuesInv
    <3>3. OnPosix!ObjectsFit(object') BY <3>2, OnPosix!CallsFit
    <3> QED BY <2>1, <2>2, <3>3 DEF ValuesInv
  <2>3. CASE Next /\ topic = "values windows"
    <3>1. ValuesWindows!Next BY <2>3 DEF Next
    <3>2. OnWindows!Next /\ OnWindows!ObjectsFit(object) BY <3>1, <2>3, WindowsSteps DEF ValuesInv
    <3>3. OnWindows!ObjectsFit(object') BY <3>2, OnWindows!CallsFit
    <3> QED BY <2>1, <2>3, <3>3 DEF ValuesInv
  <2>4. CASE topic \notin {"values posix", "values windows"} BY <2>1, <2>4 DEF ValuesInv
  <2>5. CASE UNCHANGED vars
    <3>1. object' = object BY <2>5 DEF vars
    <3> QED BY <2>1, <3>1 DEF ValuesInv
  <2> QED BY <2>2, <2>3, <2>4, <2>5
<1> QED BY <1>1, <1>2, PTL DEF Spec

\* Comparing keys, values, pairs and their views is on both systems a total order that agrees
\* with what they are about and with their hashes, for any number of objects.
THEOREM OrderCoherentHolds == ASSUME OnPosix!TextsGiven, OnWindows!TextsGiven PROVE Spec => []OrderCoherent
<1>1. ValuesInv => OrderCoherent
  <2>1. OnPosix!ObjectsFit(object) => ValuesPosix!OrderCoherent BY OnPosix!FitIsCoherent, PosixOrders
  <2>2. OnWindows!ObjectsFit(object) => ValuesWindows!OrderCoherent BY OnWindows!FitIsCoherent, WindowsOrders
  <2> QED BY <2>1, <2>2 DEF ValuesInv, OrderCoherent
<1> QED BY <1>1, ValuesInvariant, PTL
===============================================================================
