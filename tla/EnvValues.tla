------------------------------ MODULE EnvValues ------------------------------
(***************************************************************************)
(* The value types of environment:: in version 2: keys, values and pairs    *)
(* "key=value", which own a text, and their views, which lead into the text *)
(* of another object; how they are built, compared and hashed.             *)
(***************************************************************************)
EXTENDS EnvText

CONSTANTS
  Names,      \* the program's objects
  KeyTexts, ValueTexts, PairTexts,   \* what it makes them of
  ValueLists,
  MaxCalls,   \* bound: the calls it makes
  unset, none

VARIABLES
  object,     \* [Names -> an owner [kind, text, meant], a view [kind, of, from, to], or none]
  calls       \* the number of calls

vars == <<object, calls>>

Init == object = [n \in Names |-> none] /\ calls = 0

Live   == {n \in Names : object[n] # none}
Owner  == [key |-> "key", value |-> "value", pair |-> "pair"]
ViewOf == [key |-> "key_view", value |-> "value_view", pair |-> "pair_view"]
\* What an object is, whether it owns its text or not.
Is(n, family) == n \in Live /\ object[n].kind \in {family, ViewOf[family]}
Owns(n)       == n \in Live /\ object[n].kind \in DOMAIN Owner

\* Where its text is.
Base(n)   == IF Owns(n) THEN n ELSE object[n].of
From(n)   == IF Owns(n) THEN 1 ELSE object[n].from
To(n)     == IF Owns(n) THEN Len(object[n].text) ELSE object[n].to
TextOf(n) == SubSeq(object[Base(n)].text, From(n), To(n))

\* Views of an object whose text changes must not be used: the program forgets them.
Without(n) == [m \in Names |-> IF m \in Live /\ ~Owns(m) /\ object[m].of = n THEN none ELSE object[m]]

Call == calls < MaxCalls /\ calls' = calls + 1
NewOwner(n, kind, text, meant) ==
  /\ Call /\ object[n] = none
  /\ object' = [object EXCEPT ![n] = [kind |-> kind, text |-> text, meant |-> meant]]

-------------------------------------------------------------------------------
(***************************************************************************)
(* Owners.  meant is the list that a value, or the key and the list that a  *)
(* pair was built of; nothing is expected of keys that hold a '=' behind    *)
(* their first character, and of values that are themselves lists.          *)
(***************************************************************************)
Single(t)   == Find(t, delimiter) = 0
PlainKey(k) == k # <<>> /\ \A i \in 2..Len(k) : k[i] # equality_sign
\* The list constructor puts no delimiter behind a '=', so it loses an element that is empty or ends so.
PlainList(vs) == \A i \in DOMAIN vs : /\ Single(vs[i])
                                     /\ i < Len(vs) => vs[i] # <<>> /\ Last(vs[i]) # equality_sign
Meaning(k, vs) == IF PlainKey(k) /\ vs # unset THEN [key |-> k, list |-> vs] ELSE unset
ListOf(n)   == IF Owns(n) THEN object[n].meant ELSE IF Single(TextOf(n)) THEN <<TextOf(n)>> ELSE unset

make(n) ==
  \/ \E t \in KeyTexts   : NewOwner(n, "key", t, unset)
  \/ \E t \in ValueTexts : NewOwner(n, "value", t, IF Single(t) THEN <<t>> ELSE unset)
  \/ \E t \in PairTexts  : NewOwner(n, "pair", t, unset)

make_pair(n, k, v) ==
  /\ Is(k, "key") /\ Is(v, "value")
  /\ NewOwner(n, "pair", Entry(TextOf(k), TextOf(v)), Meaning(TextOf(k), ListOf(v)))

make_list(n, k, vs) ==
  /\ Is(k, "key")
  /\ NewOwner(n, "pair", EntryOfList(TextOf(k), vs),
              Meaning(TextOf(k), IF PlainList(vs) THEN vs ELSE unset))

\* key(key_view), value(value_view), key_value_pair(key_value_pair_view), and copies of owners.
copy(n, m) ==
  \E family \in DOMAIN Owner :
    Is(m, family) /\ NewOwner(n, family, TextOf(m), IF Owns(m) THEN object[m].meant ELSE unset)

\* Mutant: the first text of a list gets no delimiter behind it.
push_back_Bare(n, v) ==
  /\ Call /\ Owns(n) /\ object[n].kind = "value" /\ Is(v, "value") /\ (v # n => Base(v) # n)
  /\ LET t == object[n].text \o (IF object[n].text = <<>> THEN <<>> ELSE <<delimiter>>)
         list == IF n = v \/ unset \in {object[n].meant, ListOf(v)} THEN unset
                 ELSE object[n].meant \o ListOf(v)
     IN  object' = [Without(n) EXCEPT ![n] = [kind |-> "value", text |-> t \o (IF v = n THEN t ELSE TextOf(v)),
                                              meant |-> list]]

\* A value that is appended to itself has got its delimiter already.
push_back(n, v) ==
  /\ Call /\ Owns(n) /\ object[n].kind = "value" /\ Is(v, "value") /\ (v # n => Base(v) # n)
  /\ LET t == Append(object[n].text, delimiter)
         list == IF n = v \/ unset \in {object[n].meant, ListOf(v)} THEN unset
                 ELSE object[n].meant \o ListOf(v)
     IN  object' = [Without(n) EXCEPT ![n] = [kind |-> "value", text |-> t \o (IF v = n THEN t ELSE TextOf(v)),
                                              meant |-> list]]

\* Assignment, swap, clear and the destructor.
assign(n, m) ==
  /\ Call /\ Owns(n) /\ Owns(m) /\ object[n].kind = object[m].kind /\ n # m
  /\ \/ object' = [Without(n) EXCEPT ![n] = object[m]]
     \/ object' = [k \in Names |-> IF k \in {n, m} \/ k \notin Live \/ Owns(k) \/ object[k].of \notin {n, m}
                                   THEN [object EXCEPT ![n] = object[m], ![m] = object[n]][k] ELSE none]
clear(n) ==
  /\ Call /\ Owns(n)
  /\ object' = [Without(n) EXCEPT ![n] = [kind |-> object[n].kind, text |-> <<>>,
                                          meant |-> IF object[n].kind = "value" THEN <<<<>>>> ELSE unset]]
destroy(n) == Call /\ n \in Live /\ object' = [Without(n) EXCEPT ![n] = none]

-------------------------------------------------------------------------------
(***************************************************************************)
(* Views: of a whole object, and of the key and the value of a pair.       *)
(***************************************************************************)
View(kind, m, from, to) == [kind |-> kind, of |-> Base(m), from |-> from, to |-> to]
key_of(m)   == View("key_view", m, From(m), From(m) + Len(Key[TextOf(m)]) - 1)
value_of(m) == View("value_view", m, To(m) + 1 - Len(Value[TextOf(m)]), To(m))

look(n, m) ==
  /\ Call /\ object[n] = none
  /\ \/ \E family \in DOMAIN Owner :
          Is(m, family) /\ object' = [object EXCEPT ![n] = View(ViewOf[family], m, From(m), To(m))]
     \/ Is(m, "pair") /\ object' = [object EXCEPT ![n] = key_of(m)]
     \/ Is(m, "pair") /\ object' = [object EXCEPT ![n] = value_of(m)]

-------------------------------------------------------------------------------
(***************************************************************************)
(* Comparisons.  The characters are those of ASCII, in its order.          *)
(***************************************************************************)
Alphabet == <<".", ":", ";", "=", "A", "B", "H", "P", "X", "a", "b", "h", "p", "x">>
Code(c)  == CHOOSE i \in DOMAIN Alphabet : Alphabet[i] = c
Codes(t) == [i \in DOMAIN t |-> Code(t[i])]
At(s, i) == IF i \in DOMAIN s THEN s[i] ELSE 0

Differ(s, t) == {i \in DOMAIN s \cap DOMAIN t : s[i] # t[i]}
Order(s, t)  == LET i == Min(Differ(s, t)) IN IF s[i] < t[i] THEN -1 ELSE 1

\* compare of a string and of a string_view: the lengths decide at last.
string_compare(s, t) == IF Differ(s, t) = {} THEN Len(s) - Len(t) ELSE Order(s, t)

\* Mutant: a text that begins another one is equal to it.
cstring_compare_Prefix(s, t) == IF Differ(s, t) = {} THEN 0 ELSE Order(s, t)

\* compare of a basic_cstring_ref: there the next characters do, one of which is the NUL.
cstring_compare(s, t) ==
  IF Differ(s, t) = {} THEN LET end == Min({Len(s), Len(t)}) + 1 IN At(s, end) - At(t, end) ELSE Order(s, t)

CompareKeys(s, t)        == string_compare(Codes(Folded(s)), Codes(Folded(t)))
CompareValues(s, t, own) == IF own THEN string_compare(Codes(s), Codes(t)) ELSE cstring_compare(Codes(s), Codes(t))
\* An owner is compared with a view from the view's side, and the sign turned round.
Turned(n, m)  == Owns(n) /\ ~Owns(m)

ComparePairs(s, t) ==
  LET c == CompareKeys(Key[s], Key[t]) IN IF c # 0 THEN c ELSE CompareValues(Value[s], Value[t], FALSE)

compare(n, m) ==
  LET s == TextOf(n)  t == TextOf(m)
  IN  CASE Is(n, "key")   -> IF Turned(n, m) THEN -CompareKeys(t, s) ELSE CompareKeys(s, t)
        [] Is(n, "value") -> IF Turned(n, m) THEN -CompareValues(t, s, FALSE)
                             ELSE CompareValues(s, t, Owns(n) /\ Owns(m))
        [] Is(n, "pair")  -> ComparePairs(s, t)

(***************************************************************************)
(* hash_value goes on to the NUL behind the view, which for the key of a    *)
(* pair is that of the pair.  XOR keeps the characters that occur an odd    *)
(* number of times.                                                        *)
(***************************************************************************)
UpToNul(n) == SubSeq(object[Base(n)].text, From(n), Len(object[Base(n)].text))
Odd(t)     == {c \in {t[i] : i \in DOMAIN t} : Cardinality({i \in DOMAIN t : t[i] = c}) % 2 = 1}
hash_value(n) == Odd(IF Is(n, "key") THEN Folded(UpToNul(n)) ELSE UpToNul(n))

-------------------------------------------------------------------------------
Next ==
  \E n \in Names :
    \/ make(n) \/ clear(n) \/ destroy(n)
    \/ \E m \in Names : copy(n, m) \/ look(n, m) \/ push_back(n, m) \/ assign(n, m)
    \/ \E k \in Live, v \in Live : make_pair(n, k, v)
    \/ \E k \in Live, vs \in ValueLists : make_list(n, k, vs)

Spec == Init /\ [][Next]_vars

-------------------------------------------------------------------------------
\* What objects are about: the folded key, the value, or both.
About(n) ==
  CASE Is(n, "key")   -> Folded(TextOf(n))
    [] Is(n, "value") -> TextOf(n)
    [] Is(n, "pair")  -> <<Folded(Key[TextOf(n)]), Value[TextOf(n)]>>

\* Keys of pairs run on, and pairs are hashed with the case of their keys and with their '=',
\* which one that was cleared lacks.
Hashed(n) == CASE Is(n, "key")   -> To(n) = Len(object[Base(n)].text)
               [] Is(n, "value") -> TRUE
               [] Is(n, "pair")  -> ~windows /\ Find(TextOf(n), equality_sign) # 0

\* Objects can be sorted and looked up whether they own their text or not: comparing them is a
\* total order in which exactly those are equal that are about the same, from both sides,
\* and which have the same hash, but for the views of a pair's key and a pair without a '='.
OrderCoherent ==
  \A family \in DOMAIN Owner : \E S \in {{n \in Live : Is(n, family)}} : \A n, m \in S :
    /\ compare(n, m) = 0 <=> About(n) = About(m)
    /\ compare(n, m) < 0 <=> compare(m, n) > 0
    /\ \A k \in S : compare(n, m) <= 0 /\ compare(m, k) <= 0 => compare(n, k) <= 0
    /\ About(n) = About(m) /\ Hashed(n) /\ Hashed(m) => hash_value(n) = hash_value(m)

\* A pair gives back the key and the list it was built of, and a value the list it was built
\* of, but for an empty last element.
Trimmed(vs) == IF vs # <<>> /\ Last(vs) = <<>> THEN Front(vs) ELSE vs
PartsKept ==
  \A n \in Live : Owns(n) /\ object[n].meant # unset =>
    CASE object[n].kind = "value" -> Elements(TextOf(n)) = Trimmed(object[n].meant)
      [] object[n].kind = "pair"  -> /\ Key[TextOf(n)] = object[n].meant.key
                                     /\ Elements(Value[TextOf(n)]) = Trimmed(object[n].meant.list)
==============================================================================
