------------------------------- MODULE EnvText -------------------------------
(***************************************************************************)
(* The text of an environment: entries "key=value", lists of values with   *)
(* delimiters, and their comparison.  A text is a sequence of characters,  *)
(* and ends where its terminating NUL is.                                  *)
(***************************************************************************)
EXTENDS Integers, Sequences, FiniteSets, FiniteSetsExt, SequencesExt

CONSTANT windows    \* whether the code is compiled for Windows

equality_sign == "="
delimiter     == IF windows THEN ";" ELSE ":"

(***************************************************************************)
(* Characters.  Keys are compared without regard to case on Windows.       *)
(***************************************************************************)
Lower == [A |-> "a", B |-> "b", H |-> "h", P |-> "p", X |-> "x"]
Text == Seq(STRING)

to_lower(c) == IF windows /\ c \in DOMAIN Lower THEN Lower[c] ELSE c

\* basic_cstring_ref::find: where c is in t for the first time; 0 is npos.
Places(t, c) == {i \in DOMAIN t : t[i] = c}
Find(t, c) == LET at == Places(t, c) IN IF at = {} THEN 0 ELSE Min(at)

\* basic_cstring_ref::operator== with the traits of a key.
Folded(k)     == [i \in DOMAIN k |-> to_lower(k[i])]
SameKey(s, t) == Folded(s) = Folded(t)

-------------------------------------------------------------------------------
(***************************************************************************)
(* An entry: its key ends at the first '=', or at the second one when the  *)
(* entry starts with one.  An entry without '=' is its own key and its own *)
(* value.                                                                  *)
(***************************************************************************)
\* Mutant: the key ends at the last '='.
EqualitySign_Last(t) ==
  LET at == Places(t, equality_sign) IN IF at = {} THEN 0 ELSE Max(at)

EqualitySign(t) ==
  LET at == Places(t, equality_sign)
  IN  IF at = {} THEN 0 ELSE IF 1 \in at /\ at # {1} THEN Min(at \ {1}) ELSE Min(at)

Key[t \in Text] == LET eq == EqualitySign(t) IN IF eq = 0 THEN t ELSE SubSeq(t, 1, eq - 1)
Value[t \in Text] == SubSeq(t, EqualitySign(t) + 1, Len(t))

Entry(k, v) == k \o <<equality_sign>> \o v

\* key_value_pair(key, {values...}): no delimiter after a '='.
AppendValue(t, v) == (IF Last(t) = equality_sign THEN t ELSE Append(t, delimiter)) \o v
EntryOfList(k, vs) == FoldLeft(AppendValue, Append(k, equality_sign), vs)

-------------------------------------------------------------------------------
(***************************************************************************)
(* value_iterator: a view of what is left of the list.                     *)
(***************************************************************************)
Element(view) ==
  LET d == Find(view, delimiter) IN IF d = 0 THEN view ELSE SubSeq(view, 1, d - 1)

Advance(view) ==
  LET d == Find(view, delimiter) IN IF d = 0 THEN <<>> ELSE SubSeq(view, d + 1, Len(view))

\* A loop over the list: each step but the last leaves a shorter view.
Step(loop, c) ==
  IF loop.view = <<>> THEN loop
  ELSE [view |-> Advance(loop.view), seen |-> Append(loop.seen, Element(loop.view))]
Elements(v) == FoldLeft(Step, [view |-> v, seen |-> <<>>], v).seen

==============================================================================
