------------------------------ MODULE ReportLayout ------------------------------
(***************************************************************************)
(* The arithmetic of the exported tables, app/services/report_export.py:   *)
(* how wide a column is on an A4 page (PDF) or picture (PNG), and how its  *)
(* text is broken into lines.                                              *)
(*                                                                         *)
(* A text is a sequence of characters, each as wide as CharWidth says in   *)
(* every font and place, so that a text is as wide as its characters.      *)
(* Lengths are whole units; quotients are kept as fractions, where the     *)
(* code uses floating-point numbers, until the PNG rounds them to pixels.  *)
(* A column has one cell, the widest, which is all the layout asks of it.  *)
(***************************************************************************)
EXTENDS Integers, Sequences, FiniteSetsExt, SequencesExt

CONSTANTS
  CharWidth,  \* [character -> width]
  Space,      \* the character " "
  Pdf, Png    \* measures of the two kinds of page

\* page: room for the table; least: a column's least width; unbroken: the width
\* up to which a column keeps its longest word whole; padding: both sides.
Measures == [page : Nat, least : Nat \ {0}, unbroken : Nat, padding : Nat]

ASSUME LayoutAssumption ==
  /\ CharWidth \in [DOMAIN CharWidth -> Nat \ {0}] /\ Space \in DOMAIN CharWidth
  /\ Pdf \in Measures /\ Png \in Measures

Text == Seq(DOMAIN CharWidth)
Column == [title : Text, cell : Text, weight : Nat \ {0}]

\* The columns of a report: ten at most, so that they fit on the page with
\* their longest words whole, and the least of them holds any character even
\* if rounding takes a pixel of every column from it.
Tables ==
  {columns \in Seq(Column) :
     /\ columns # <<>>
     /\ \A on \in {Pdf, Png} : /\ on.least <= on.unbroken
                               /\ Len(columns) * on.unbroken <= on.page
     /\ \A char \in DOMAIN CharWidth :
          Png.padding + CharWidth[char] + Len(columns) <= Png.least}

Total(s) == SumFunction(s)

\* A part of a text is a span of its positions, empty when the last comes
\* before the first.
Width(text, span) == SumFunction([k \in span[1] .. span[2] |-> CharWidth[text[k]]])
TextWidth(text) == Width(text, <<1, Len(text)>>)

\* str.split(): the longest runs without a space.
Words(text) ==
  {word \in (DOMAIN text) \X (DOMAIN text) :
     /\ word[1] <= word[2]
     /\ \A k \in word[1] .. word[2] : text[k] # Space
     /\ word[1] = 1 \/ text[word[1] - 1] = Space
     /\ word[2] = Len(text) \/ text[word[2] + 1] = Space}

LongestWord(text) == Max({0} \cup {Width(text, word) : word \in Words(text)})

(***************************************************************************)
(* Column widths.                                                          *)
(***************************************************************************)
Preferred(column, on) ==
  Max({on.least, TextWidth(column.title) + on.padding, TextWidth(column.cell) + on.padding})

Minimum(column, on) ==
  LET word == Max({LongestWord(column.title), LongestWord(column.cell)}) + on.padding
  IN Min({Preferred(column, on), Max({on.least, Min({on.unbroken, word})})})

PreferredWidths(columns, on) == [i \in DOMAIN columns |-> Preferred(columns[i], on)]
MinimumWidths(columns, on) == [i \in DOMAIN columns |-> Minimum(columns[i], on)]

\* Mutant of FitWidths: the columns share the page without keeping their minimum.
FitWidthsInProportion(preferred, minimum, available) ==
  [parts |-> [i \in DOMAIN preferred |-> preferred[i] * available],
   of |-> Total(preferred)]

\* _fit_widths; width i is parts[i] / of.
FitWidths(preferred, minimum, available) ==
  LET slack == available - Total(minimum)
      wanted == Total(preferred) - Total(minimum)
  IN CASE Total(preferred) <= available -> [parts |-> preferred, of |-> 1]
       [] Total(preferred) > available /\ slack <= 0 ->
            [parts |-> [i \in DOMAIN minimum |-> minimum[i] * available],
             of |-> Total(minimum)]
       [] OTHER ->
            [parts |-> [i \in DOMAIN minimum |->
                          minimum[i] * wanted + (preferred[i] - minimum[i]) * slack],
             of |-> wanted]

\* _expand_widths, to a target that is a fraction too.
ExpandWidths(widths, target, weights) ==
  LET extra == target.parts * widths.of - Total(widths.parts) * target.of
  IN IF extra <= 0 THEN widths
     ELSE [parts |-> [i \in DOMAIN widths.parts |->
                        widths.parts[i] * target.of * Total(weights) + extra * weights[i]],
           of |-> widths.of * target.of * Total(weights)]

\* TABLE_MIN_WIDTH_RATIO = 0.82.
PdfColumnWidths(columns) ==
  ExpandWidths(FitWidths(PreferredWidths(columns, Pdf), MinimumWidths(columns, Pdf), Pdf.page),
               [parts |-> 41 * Pdf.page, of |-> 50],
               [i \in DOMAIN columns |-> columns[i].weight])

\* round(): to the nearest whole number, halves to the even one.
Rounded(part, of) ==
  LET floor == part \div of
      rest == 2 * (part % of)
  IN IF rest > of \/ (rest = of /\ floor % 2 = 1) THEN floor + 1 ELSE floor

\* Mutant of Trimmed: the pixels too many are left.
TrimmedNot(widths, overflow) == widths

\* Pixels too many are taken from the last columns, which keep one each: a
\* column gives what those after it could not.
Trimmed(widths, overflow) ==
  LET After(i) == SumFunction([j \in {j \in DOMAIN widths : j > i} |-> widths[j] - 1])
  IN [i \in DOMAIN widths |->
        widths[i] - Max({0, Min({overflow - After(i), widths[i] - 1})})]

PngColumnWidths(columns) ==
  LET fitted == FitWidths(PreferredWidths(columns, Png), MinimumWidths(columns, Png), Png.page)
      widths == [i \in DOMAIN columns |-> Max({1, Rounded(fitted.parts[i], fitted.of)})]
  IN Trimmed(widths, Total(widths) - Png.page)

(***************************************************************************)
(* Wrapping.                                                               *)
(***************************************************************************)
Letters(text) == {k \in DOMAIN text : text[k] # Space}

\* The binary search for the longest beginning that fits, of one character at
\* least, of what remains of a text: where it ends.
Fitting(text, remaining, room) ==
  LET ends == remaining[1] .. remaining[2]
      search[at \in ends \X ends] ==
        LET middle == (at[1] + at[2] + 1) \div 2
        IN IF at[1] >= at[2] THEN at[1]
           ELSE IF Width(text, <<remaining[1], middle>>) <= room
                THEN search[<<middle, at[2]>>] ELSE search[<<at[1], middle - 1>>]
  IN search[remaining]

\* Mutant of Break: a line ends where the search does, in the middle of a word.
BreakAnywhere(text, remaining, room) ==
  LET low == Fitting(text, remaining, room)
  IN [line |-> <<remaining[1], low>>, next |-> low + 1]

\* One turn of the loop: a line is cut at the last space in reach, where both
\* sides are stripped, or else where it stops fitting.
Break(text, remaining, room) ==
  LET low == Fitting(text, remaining, room)
      reach == {k \in remaining[1] + 1 .. remaining[2] : text[k] = Space /\ k <= low + 1}
  IN IF reach # {}
     THEN [line |-> <<remaining[1], Max({k \in Letters(text) : k < Max(reach)})>>,
           next |-> Min({k \in Letters(text) : k > Max(reach)})]
     ELSE [line |-> <<remaining[1], low>>, next |-> low + 1]

\* What remains of the text is always an end of it.
Wrapped(text, stripped, room) ==
  LET Remaining(k) == <<k, stripped[2]>>
      after[k \in stripped[1] .. stripped[2] + 1] ==
        IF Width(text, Remaining(k)) <= room THEN <<Remaining(k)>>
        ELSE LET turn == Break(text, Remaining(k), room)
             IN <<turn.line>> \o after[turn.next]
  IN after[stripped[1]]

\* The loop of _wrap_text never ends when no text is narrow enough, not even
\* the empty one.
Endless == <<>>

\* _wrap_text of a text of one paragraph, without the spaces around it.
WrapText(text, room) ==
  CASE Letters(text) = {} -> << <<1, 0>> >>
    [] Letters(text) # {} /\ room < 0 -> Endless
    [] OTHER -> Wrapped(text, <<Min(Letters(text)), Max(Letters(text))>>, room)

PngPage(columns) ==
  LET widths == PngColumnWidths(columns)
      Lines(text, i) == WrapText(text, widths[i] - Png.padding)
  IN [widths |-> widths,
      header |-> [i \in DOMAIN columns |-> Lines(columns[i].title, i)],
      cells |-> [i \in DOMAIN columns |-> Lines(columns[i].cell, i)]]
=============================================================================
