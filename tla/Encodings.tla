------------------------------ MODULE Encodings ------------------------------
(***************************************************************************)
(* Conversions between narrow texts and wide ones: conv_string of version 2, *)
(* which measures first, and convert and char_converter of version 1, which  *)
(* guess.  A wide text is a sequence of code points, a narrow one of octets; *)
(* a list of arguments is converted one by one.  Narrow texts are in UTF-8,  *)
(* but for those of version 1 on Windows: they are in a code page of the     *)
(* system, CP_ACP or CP_OEMCP, which has not every character.              *)
(***************************************************************************)
EXTENDS Integers, Sequences, SequencesExt, Functions

CONSTANTS
  windows,    \* whether the code is compiled for Windows
  Lists,      \* lists of texts of Unicode: sequences of sequences of code points
  Garbage,    \* sequences of octets of any kind
  Page,       \* the code page: [its code points -> their octets]
  MaxCalls,   \* bound: conversions in a row
  unset

VARIABLES
  meant,      \* what the texts mean, as lists of code points, or unset
  given,      \* the octets that mean nothing, or <<>>
  kind,       \* "narrow", "paged" (in the code page), "wide", or "error" once one has thrown
  texts,      \* the texts
  paged,      \* whether they have been in the code page
  last,       \* the version that made the last conversion
  calls       \* the number of conversions

vars == <<meant, given, kind, texts, paged, last, calls>>

Run(Step(_, _), base, t) == FoldLeft(LAMBDA s, c : CHOOSE x \in {Step(v, c) : v \in {s}} : TRUE, base, t)
Total(f) == FoldFunction(+, 0, f)

\* UTF-8 as Unicode defines it, for what is given to the library and expected from it.
Low(p) == 128 + (p % 64)
Utf8Of(p) ==
  CASE p < 128                -> <<p>>
    [] p >= 128 /\ p < 2048   -> <<192 + p \div 64, Low(p)>>
    [] p >= 2048 /\ p < 65536 -> <<224 + p \div 4096, Low(p \div 64), Low(p)>>
    [] p >= 65536             -> <<240 + p \div 262144, Low(p \div 4096), Low(p \div 64), Low(p)>>
Utf8(ps) == FlattenSeq([i \in DOMAIN ps |-> Utf8Of(ps[i])])

\* Texts in the code page.  What it lacks becomes a question mark for each unit of UTF-16.
Known == DOMAIN Page
Shown(ps)  == FlattenSeq([i \in DOMAIN ps |-> IF ps[i] \in Known THEN <<ps[i]>>
                                              ELSE IF ps[i] < 65536 THEN <<63>> ELSE <<63, 63>>])
InPage(ps) == LET qs == Shown(ps) IN FlattenSeq([i \in DOMAIN qs |-> Page[qs[i]]])

\* The text of octets of the code page: the octets of a character are held until it is complete.
PageStep(s, o) ==
  IF Append(s.held, o) \in Range(Page)
  THEN [out |-> Append(s.out, CHOOSE p \in Known : Page[p] = Append(s.held, o)), held |-> <<>>]
  ELSE [s EXCEPT !.held = Append(@, o)]
OfPage(os) == Run(PageStep, [out |-> <<>>, held |-> <<>>], os).out

Init ==
  /\ \/ /\ meant \in Lists /\ given = <<>>
        /\ \/ kind = "wide" /\ texts = meant
           \/ kind = "narrow" /\ texts = [i \in DOMAIN meant |-> Utf8(meant[i])]
           \/ /\ windows /\ \A i \in DOMAIN meant : Range(meant[i]) \subseteq Known
              /\ kind = "paged" /\ texts = [i \in DOMAIN meant |-> InPage(meant[i])]
     \/ ~windows /\ meant = unset /\ given \in Garbage /\ kind = "narrow" /\ texts = <<given>>
  /\ paged = (kind = "paged") /\ last = "none" /\ calls = 0

-------------------------------------------------------------------------------
(***************************************************************************)
(* Version 2 on POSIX.  Characters have up to six octets.                  *)
(***************************************************************************)
get_cont_octet_out_count(p) ==
  CASE p < 128 -> 0
    [] p >= 128 /\ p < 2048 -> 1
    [] p >= 2048 /\ p < 65536 -> 2
    [] p >= 65536 /\ p < 2097152 -> 3
    [] p >= 2097152 /\ p < 67108864 -> 4
    [] p >= 67108864 -> 5

get_octet_count(o) ==
  CASE o <= 127 -> 1
    [] o \in 192..223 -> 2
    [] o \in 224..239 -> 3
    [] o \in 240..247 -> 4
    [] o \in 248..251 -> 5
    [] OTHER -> 6

octet1_modifier_table == <<0, 192, 224, 240, 248, 252>>
invalid_leading_octet(o)    == o \in 128..191 \/ o > 253
invalid_continuing_octet(o) == o \notin 128..191

Ok(data)  == [ec |-> "ok", data |-> data]
Fails(ec) == [ec |-> ec, data |-> <<>>]

\* Mutant: characters outside the basic plane are taken to have three octets.
size_as_utf8_Basic(ps) ==
  Total([i \in DOMAIN ps |-> IF ps[i] < 128 THEN 1 ELSE IF ps[i] < 2048 THEN 2 ELSE 3])

size_as_utf8(ps) == Total([i \in DOMAIN ps |-> get_cont_octet_out_count(ps[i]) + 1])

Octets(p) ==
  LET n == get_cont_octet_out_count(p)
  IN  [i \in 1..(n + 1) |->
         IF i = 1 THEN (octet1_modifier_table[n + 1] + ((p \div 64 ^ n) % 256)) % 256
         ELSE Low(p \div 64 ^ (n + 1 - i))]

convert_to_utf8(ps, max_size) ==
  LET out == FlattenSeq([i \in DOMAIN ps |-> Octets(ps[i])])
  IN  IF Len(out) > max_size THEN Fails("insufficient_buffer") ELSE Ok(out)

\* size_as_wide counts octets, up to a character that is not complete.
MeasureStep(s, o) ==
  LET n == get_octet_count(o)
  IN  CASE s.stop -> s
        [] ~s.stop /\ s.skip > 0 -> [s EXCEPT !.skip = @ - 1, !.left = @ - 1]
        [] ~s.stop /\ s.skip = 0 ->
             IF n > s.left THEN [s EXCEPT !.stop = TRUE]
             ELSE [s EXCEPT !.size = @ + n, !.skip = n - 1, !.left = @ - 1]
size_as_wide(os) == Run(MeasureStep, [size |-> 0, skip |-> 0, left |-> Len(os), stop |-> FALSE], os).size

\* The octets of a character: needs counts those that are still to come.
StartOf(max_size, s, o) ==
  LET n == get_octet_count(o) - 1
  IN  IF Len(s.out) = max_size THEN [s EXCEPT !.ec = "insufficient_buffer"]
      ELSE IF invalid_leading_octet(o) THEN [s EXCEPT !.ec = "invalid_character"]
      ELSE IF n = 0 THEN [s EXCEPT !.out = Append(@, o)]
      ELSE [s EXCEPT !.needs = n, !.point = o - octet1_modifier_table[n + 1]]

RestOf(s, o) ==
  IF invalid_continuing_octet(o) THEN [s EXCEPT !.ec = "invalid_character"]
  ELSE IF s.needs = 1 THEN [s EXCEPT !.needs = 0, !.out = Append(@, s.point * 64 + (o - 128))]
  ELSE [s EXCEPT !.needs = @ - 1, !.point = @ * 64 + (o - 128)]

DecodeStep(max_size, s, o) ==
  IF s.ec # "ok" THEN s ELSE IF s.needs = 0 THEN StartOf(max_size, s, o) ELSE RestOf(s, o)

Decoded(max_size, os) ==
  Run(LAMBDA s, o : DecodeStep(max_size, s, o), [out |-> <<>>, needs |-> 0, point |-> 0, ec |-> "ok"], os)

convert_to_wide(os, max_size) ==
  LET s == Decoded(max_size, os)
  IN  IF s.ec = "ok" /\ s.needs > 0 THEN Fails("insufficient_buffer")
      ELSE IF s.ec # "ok" THEN Fails(s.ec) ELSE Ok(s.out)

(***************************************************************************)
(* WideCharToMultiByte and MultiByteToWideChar: they refuse an empty text,  *)
(* and a buffer that is too small.  Wide texts have one or two units for a   *)
(* code point.                                                             *)
(***************************************************************************)
PointsOf(os) == Decoded(Len(os), os).out
Units(ps)    == Total([i \in DOMAIN ps |-> IF ps[i] < 65536 THEN 1 ELSE 2])
Api(out, size, max_size) ==
  CASE size = 0 -> Fails("invalid_parameter")
    [] size # 0 /\ size > max_size  -> Fails("insufficient_buffer")
    [] size # 0 /\ size <= max_size -> Ok(out)

\* conv_string: size_as_ and convert_to_ of the platform.  An empty wide text is an error on Windows.
ToUtf8(ps) == IF windows THEN Api(Utf8(ps), Len(Utf8(ps)), Len(Utf8(ps)))
              ELSE convert_to_utf8(ps, size_as_utf8(ps))
ToWide(os) == IF windows THEN IF os = <<>> THEN Ok(<<>>) ELSE Api(PointsOf(os), Units(PointsOf(os)), Units(PointsOf(os)))
              ELSE convert_to_wide(os, size_as_wide(os))

-------------------------------------------------------------------------------
(***************************************************************************)
(* Version 1.  The buffer has 10 characters more than the narrow text, or   *)
(* twice as many as the wide one has units, but for its last.  The codecvt  *)
(* of POSIX, that of a UTF-8 locale, reports a partial conversion; that of   *)
(* Windows, windows_file_codecvt, converts to and from the code page.       *)
(***************************************************************************)
\* Mutant: the result of codecvt is not looked at.
Converted_Unchecked(out, size, max_size) == Ok(SubSeq(out, 1, IF Len(out) < max_size THEN Len(out) ELSE max_size))

Converted(out, size, max_size) ==
  IF windows THEN Api(out, size, max_size)
  ELSE IF size > max_size THEN Fails("partial") ELSE Ok(out)

convert_to_char(ps) ==
  IF windows THEN Converted(InPage(ps), Len(InPage(ps)), 2 * Units(ps) - 1)
  ELSE Converted(Utf8(ps), Len(Utf8(ps)), 2 * Len(ps) - 1)
convert_to_wchar(os) ==
  LET s == Decoded(Len(os), os)
  IN  IF windows THEN Converted(OfPage(os), Units(OfPage(os)), Len(os) + 9)
      ELSE IF s.ec # "ok" \/ s.needs > 0 THEN Fails("error")
      ELSE Converted(s.out, Len(s.out), Len(os) + 9)

\* Where char_converter finds a text: a pointer leads up to the first NUL, an array has one at its
\* end; a string has its size.
Found(form, memory) ==
  CASE form = "pointer" -> SubSeq(memory, 1, (CHOOSE i \in DOMAIN memory : memory[i] = 0 /\ \A j \in 1..i-1 : memory[j] # 0) - 1)
    [] form = "array"   -> Front(memory)
    [] form = "string"  -> memory
InMemory(form, t) == CASE form = "pointer" -> t \o <<0, 65>> [] form = "array" -> Append(t, 0) [] form = "string" -> t

-------------------------------------------------------------------------------
Converts(version, from, to, F(_)) ==
  /\ calls < MaxCalls /\ calls' = calls + 1
  /\ kind = from /\ last' = version
  /\ \E rs \in {[i \in DOMAIN texts |-> F(texts[i])]} :
       IF \A i \in DOMAIN rs : rs[i].ec = "ok"
       THEN kind' = to /\ texts' = [i \in DOMAIN rs |-> rs[i].data]
       ELSE kind' = "error" /\ texts' = <<>>
  /\ paged' = (paged \/ to = "paged")
  /\ UNCHANGED <<meant, given>>

conv_string_char  == Converts("v2", "wide", "narrow", ToUtf8)
conv_string_wchar == Converts("v2", "narrow", "wide", ToWide)

\* No text at all: front and back of an empty string are not in it, and nothing is converted.
char_converter ==
  LET char == IF windows THEN "paged" ELSE "narrow"
  IN  \E form \in {"pointer", "array", "string"} :
        \/ Converts("v1", "wide", char, LAMBDA t : convert_to_char(Found(form, InMemory(form, t))))
        \/ Converts("v1", char, "wide", LAMBDA t : convert_to_wchar(Found(form, InMemory(form, t))))
        \/ /\ <<>> \in Range(texts)
           /\ Converts("v1", "wide", char, LAMBDA t : Ok(IF windows THEN InPage(t) ELSE Utf8(t)))

Next == conv_string_char \/ conv_string_wchar \/ char_converter

Spec == Init /\ [][Next]_vars

-------------------------------------------------------------------------------
\* The octets of a narrow text are leading ones with as many others behind them as they say.
Follows(os, i, j) == i <= j /\ j < i + get_octet_count(os[i]) /\ ~invalid_leading_octet(os[i])
Shaped(os) ==
  /\ \A j \in DOMAIN os : \E i \in DOMAIN os : Follows(os, i, j)
  /\ \A i \in DOMAIN os : ~invalid_leading_octet(os[i]) =>
       /\ i + get_octet_count(os[i]) - 1 <= Len(os)
       /\ \A j \in i+1..i + get_octet_count(os[i]) - 1 : ~invalid_continuing_octet(os[j])

\* The texts mean what they meant, or an error was thrown, with one exception: version 1 on
\* Windows puts a question mark, and reports nothing, for every character that the code page
\* lacks (windows_file_codecvt asks for no error); all others are kept there too.  Version 2
\* converts every text of Unicode, but for an empty wide one on Windows; and it takes no octets
\* that are not in the shape of UTF-8.
TextKept ==
  LET mean == IF paged THEN [i \in DOMAIN meant |-> Shown(meant[i])] ELSE meant
  IN  /\ paged => windows
      /\ meant # unset =>
           CASE kind = "wide"   -> texts = mean
             [] kind = "narrow" -> texts = [i \in DOMAIN meant |-> Utf8(mean[i])]
             [] kind = "paged"  -> texts = [i \in DOMAIN meant |-> InPage(mean[i])]
             [] kind = "error"  -> last = "v1" \/ (windows /\ \E i \in DOMAIN meant : meant[i] = <<>>)
      /\ meant = unset /\ kind # "error" /\ last # "none" => Shaped(given)
==============================================================================
