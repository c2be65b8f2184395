---------------------------- MODULE TelegramMarkdown ----------------------------
(***************************************************************************)
(* How a run's answer becomes Telegram messages: each construct of Markdown  *)
(* renders to a segment, a text with entities that say how ranges of it are  *)
(* formatted, and the segment of the whole is cut into messages; other texts *)
(* are cut by a simpler function (telegram-markdown*.ts, chunkMessage).      *)
(*                                                                          *)
(* A text is a sequence of UTF-16 units, which the code counts and cuts at:  *)
(* "x", " ", NL, or "low", the second unit of a character that takes two.    *)
(* Ranges count from 0 and end before their end, as in the code.  The        *)
(* operators are applied as the Markdown tree is built, from the leaves up;  *)
(* the parser is a library.  The entities of a segment are a set: their      *)
(* order and repetitions of one mean nothing to Telegram.                    *)
(*                                                                          *)
(* For each unit of its text a segment also carries within, the constructs   *)
(* of Markdown it stands in, whatever the code makes of them, and formats,   *)
(* what Telegram is to show of those; Shows says how far the two may differ. *)
(***************************************************************************)
EXTENDS Naturals, Sequences, FiniteSets, SequencesExt

CONSTANTS
  NL,
  MessageLimits,   \* messageLimit
  InlineChars, InlineLines,   \* inlineCodeBlockMaxChars, inlineCodeBlockMaxLines
  Answers, Texts   \* what the properties range over: segments, and texts

Chars == {"x", " ", NL, "low"}
Types == {"bold", "italic", "strikethrough", "text_link", "code", "pre"}
Constructs == Types \cup {"empty_link", "quote", "table"}

ASSUME TextAssumption ==
  /\ MessageLimits \subseteq Nat \ {0, 1}
  /\ InlineChars \in Nat /\ InlineLines \in Nat
  /\ " " # NL /\ "x" # NL /\ "low" # NL
  /\ Texts \subseteq Seq(Chars) \ {<<>>}

Entity(type, offset, length) == [type |-> type, offset |-> offset, length |-> length]
End(e) == e.offset + e.length
IsCode(type) == type \in {"code", "pre"}
IsFormatting(type) == type \in {"bold", "italic", "strikethrough"}
IsBlank(char) == char \in {" ", NL}
Blank(text) == \A i \in 1..Len(text) : IsBlank(text[i])

\* trimStart, from a position on: where what follows the blanks begins.
SkipBlanks(text, from) ==
  CHOOSE i \in from..Len(text) :
    /\ \A j \in (from + 1)..i : IsBlank(text[j])
    /\ i = Len(text) \/ ~IsBlank(text[i + 1])

--------------------------------------------------------------------------------
\* normalizeEntities

\* By offset and the longer first.  Entities of one range are taken in an order of their
\* types (the code takes them as they were made): in the segments the renderers build they
\* stand beside each other, whatever the order.
Place(type) ==
  CASE type = "bold" -> 1 [] type = "italic" -> 2 [] type = "strikethrough" -> 3
    [] type = "text_link" -> 4 [] type = "code" -> 5 [] type = "pre" -> 6
Earlier(e, f) ==
  \/ e.offset < f.offset
  \/ e.offset = f.offset /\ e.length > f.length
  \/ e.offset = f.offset /\ e.length = f.length /\ Place(e.type) < Place(f.type)
Sorted(entities) ==
  [k \in 1..Cardinality(entities) |->
     CHOOSE e \in entities : Cardinality({f \in entities : Earlier(f, e)}) = k - 1]

Overlaps(e, f) == e.offset < End(f) /\ f.offset < End(e)
Covers(e, f) == e.offset <= f.offset /\ End(f) <= End(e)

CanContain(e, f) ==
  \/ e.type = f.type
  \/ IsFormatting(e.type) /\ ~IsCode(f.type)
  \/ ~IsFormatting(e.type) /\ IsFormatting(f.type) /\ ~IsCode(e.type)

\* classifyOverlap and entitiesCanCoexist.
CanCoexist(e, f) ==
  \/ ~Overlaps(e, f)
  \/ /\ Covers(e, f) \/ Covers(f, e)
     /\ Covers(e, f) => CanContain(e, f)
     /\ Covers(f, e) => CanContain(f, e)

Priority(type) ==
  CASE type = "text_link" -> 30
    [] type = "pre" -> 20
    [] type = "code" -> 19
    [] IsFormatting(type) -> 10

Replaces(f, e) ==
  \/ Priority(f.type) > Priority(e.type)
  \/ Priority(f.type) = Priority(e.type) /\ f.length > e.length

\* One turn of the loop: the candidate takes the place of those it replaces, up to the
\* first that it can neither stand beside nor replace, which keeps it out.
Admit(kept, f) ==
  LET conflicts == {e \in kept : ~CanCoexist(e, f)}
      blocks == {e \in conflicts : ~Replaces(f, e)}
      removed == {e \in conflicts : \A b \in blocks : Earlier(e, b)}
  IN (kept \ removed) \cup (IF blocks = {} THEN {f} ELSE {})

NormalizeEntities(entities) ==
  LET sorted == Sorted({e \in entities : e.length > 0})
      kept[k \in 0..Len(sorted)] == IF k = 0 THEN {} ELSE Admit(kept[k - 1], sorted[k])
  IN kept[Len(sorted)]

--------------------------------------------------------------------------------
\* Segments.

Segment(text, entities, formats, within) ==
  [text |-> text, entities |-> entities, formats |-> formats, within |-> within]
Each(text, set) == [i \in DOMAIN text |-> set]
Normalized(s) == [s EXCEPT !.entities = NormalizeEntities(@)]
Shift(entities, n) == {[e EXCEPT !.offset = @ + n] : e \in entities}

Plain(text) == Segment(text, {}, Each(text, {}), Each(text, {}))
NoText == Plain(<<>>)

\* What the entities of a segment or message say of each unit of its text.
FormatsOf(m) == [i \in DOMAIN m.text |-> {e.type : e \in {f \in m.entities : f.offset < i /\ i <= End(f)}}]

\* Telegram refuses entities that cross, reach beyond the text or combine code with others.
Acceptable(m) ==
  \A e, f \in m.entities :
    /\ e.length > 0 /\ End(e) <= Len(m.text)
    /\ Overlaps(e, f) => Covers(e, f) \/ Covers(f, e)
    /\ e # f /\ Overlaps(e, f) => ~IsCode(e.type)

\* How a unit that stands in these constructs may look: as they all say, with nothing added.
\* But quotes and tables may show less, code shows as code alone, the code in a link shows as
\* the link at least, and a link without an address as the text it is.
Shows(formats, within) ==
  LET code == within \cap {"code", "pre"}
      exact == within \cap {"quote", "table"} = {}
  IN /\ formats \subseteq within
     /\ exact /\ code = {} => formats = within \cap Types
     /\ exact /\ "text_link" \in within => "text_link" \in formats
     /\ exact /\ code # {} /\ within \cap {"text_link", "empty_link"} = {} => formats = code

\* A segment as the renderers below build it: its entities show what Markdown asks for, and
\* are such that Telegram takes them.
Entities == [type : Types, offset : Nat, length : Nat]
Segments == [text : Seq(Chars), entities : SUBSET Entities,
             formats : Seq(SUBSET Types), within : Seq(SUBSET Constructs)]
Rendered(s) ==
  /\ s \in Segments /\ IsFiniteSet(s.entities) /\ Acceptable(s) /\ s.formats = FormatsOf(s)
  /\ Len(s.within) = Len(s.text) /\ \A i \in DOMAIN s.text : Shows(s.formats[i], s.within[i])

ASSUME AnswersAssumption == \A s \in Answers : Rendered(s)

\* prependSegment
Prepend(prefix, s) ==
  Segment(prefix \o s.text, Shift(s.entities, Len(prefix)),
          Each(prefix, {}) \o s.formats, Each(prefix, {}) \o s.within)

\* joinSegments, which skips segments without a text.
Beside(all, s, separator) ==
  LET gap == IF Len(all.text) = 0 THEN <<>> ELSE separator
      start == Len(all.text) + Len(gap)
  IN IF Len(s.text) = 0 THEN all
     ELSE Segment(all.text \o gap \o s.text,
                  all.entities \cup Shift(s.entities, start),
                  all.formats \o Each(gap, {}) \o s.formats,
                  all.within \o Each(gap, {}) \o s.within)
Joined(segments, separator) ==
  LET joined[k \in 0..Len(segments)] ==
        IF k = 0 THEN NoText ELSE Beside(joined[k - 1], segments[k], separator)
  IN Normalized(joined[Len(segments)])

--------------------------------------------------------------------------------
\* Inline constructs (renderInline).

InlineCode(text) ==
  IF Len(text) = 0 THEN NoText
  ELSE Segment(text, {Entity("code", 0, Len(text))}, Each(text, {"code"}), Each(text, {"code"}))

\* buildWrappingEntities: the ranges between the code in the segment.
Free(s, i) ==
  i < Len(s.text) /\ \A e \in s.entities : IsCode(e.type) => i < e.offset \/ End(e) <= i
WrappingEntities(s, type) ==
  LET whole(a, b) == /\ a < b /\ \A i \in a..(b - 1) : Free(s, i)
                     /\ a > 0 => ~Free(s, a - 1)
                     /\ ~Free(s, b)
  IN {Entity(type, r[1], r[2] - r[1]) :
        r \in {q \in (0..Len(s.text)) \X (0..Len(s.text)) : whole(q[1], q[2])}}

\* wrapWithEntity, for emphasis, strong emphasis, strikethrough and headings.
Wrapped(s, type) ==
  IF Len(s.text) = 0 THEN s
  ELSE LET formats == s.formats IN
       Normalized(Segment(s.text, s.entities \cup WrappingEntities(s, type),
         [i \in DOMAIN formats |->
            IF \E c \in formats[i] : IsCode(c) THEN formats[i] ELSE formats[i] \cup {type}],
         [i \in DOMAIN s.within |-> s.within[i] \cup {type}]))

\* A link shows its url when it has no text, and its code as text.
Link(s, url) ==
  LET t == IF Len(s.text) > 0 THEN s ELSE Plain(url)
      link == IF Blank(url) THEN "empty_link" ELSE "text_link"
      entities == {e \in t.entities : ~IsCode(e.type)}
      formats == [i \in DOMAIN t.formats |-> {c \in t.formats[i] : ~IsCode(c)}]
      within == [i \in DOMAIN t.within |-> t.within[i] \cup {link}]
  IN IF Len(t.text) = 0 THEN NoText
     ELSE IF Blank(url) THEN Normalized(Segment(t.text, entities, formats, within))
     ELSE Normalized(Segment(t.text, entities \cup {Entity("text_link", 0, Len(t.text))},
                             [i \in DOMAIN formats |-> formats[i] \cup {"text_link"}], within))

Inline(segments) == Joined(segments, <<>>)      \* renderInlineChildren

--------------------------------------------------------------------------------
\* Blocks.

\* Blank blocks are left out: joinSegments skips what has no text.
Visible(segments) ==
  [i \in DOMAIN segments |-> IF Blank(segments[i].text) THEN NoText ELSE segments[i]]

\* renderCodeBlock; a long one goes as a file, and the text says so.
CodeBlock(code) ==
  LET note == <<"x">>
      text == IF Len(code) > 0 THEN code ELSE note
      lines == 1 + Cardinality({i \in DOMAIN code : code[i] = NL}) IN
  IF Len(code) > InlineChars \/ lines > InlineLines
  THEN Plain(note)
  ELSE Segment(text, {Entity("pre", 0, Len(text))}, Each(text, {"pre"}), Each(text, {"pre"}))

\* Quotes and tables take the text of what they hold and leave its entities behind.  A letter
\* is a unit of the text with what it stands in; a mark is one that the renderer adds.
Letters(s) == [i \in DOMAIN s.text |-> [char |-> s.text[i], within |-> s.within[i]]]
Marks(text) == Letters(Plain(text))
Spelled(letters, construct) ==
  Segment([i \in DOMAIN letters |-> letters[i].char], {}, Each(letters, {}),
          [i \in DOMAIN letters |-> letters[i].within \cup {construct}])

\* renderBlockquote: each line after "> ".
Quoted(s) ==
  LET quoted == [i \in DOMAIN s.text |-> <<Letters(s)[i]>> \o
                   (IF s.text[i] = NL THEN Marks(<<"x", " ">>) ELSE <<>>)]
  IN IF Len(s.text) = 0 THEN NoText
     ELSE Spelled(Marks(<<"x", " ">>) \o FlattenSeq(quoted), "quote")
Blockquote(blocks) == Quoted(Joined(Visible(blocks), <<NL>>))

\* renderList and renderListItem.
List(items) ==
  LET marked(s) == IF Len(s.text) = 0 THEN s ELSE Prepend(<<"x", " ">>, s)
  IN Joined([i \in DOMAIN items |-> marked(Joined(Visible(items[i]), <<NL>>))], <<NL>>)

\* renderTable: the cells of a row, without blanks at their ends, and bars between them.
Trimmed(s) ==
  SubSeq(Letters(s), SkipBlanks(s.text, 0) + 1, Len(s.text) - SkipBlanks(Reverse(s.text), 0))
Table(rows) ==
  LET cells(row) == [i \in DOMAIN row |-> (IF i > 1 THEN Marks(<<" ", "x", " ">>) ELSE <<>>) \o
                       Trimmed(row[i])]
  IN Joined([i \in DOMAIN rows |-> Spelled(FlattenSeq(cells(rows[i])), "table")], <<NL>>)

\* renderRoot
Root(blocks) == Joined(Visible(blocks), <<NL, NL>>)

--------------------------------------------------------------------------------
\* Messages (chunkSegmentByLength).

Smaller(a, b) == IF a < b THEN a ELSE b
Larger(a, b) == IF a > b THEN a ELSE b

\* lastIndexOf(NL, n), or 0: none that is of use.
LastBreak(text, n) ==
  LET breaks == {i \in 0..n : i < Len(text) /\ text[i + 1] = NL}
  IN IF breaks = {} THEN 0 ELSE CHOOSE i \in breaks : \A j \in breaks : j <= i

\* avoidSplittingEntityBoundary: the entities are in order, so the first that the end would
\* split moves it to where that one begins, and no later one begins before that.
AvoidSplitting(entities, start, end) ==
  LET split == {e \in entities : start < e.offset /\ e.offset < end /\ end < End(e)}
  IN IF split = {} THEN end
     ELSE CHOOSE o \in {e.offset : e \in split} : \A e \in split : o <= e.offset

\* Where the message that starts at start ends: at a unit, also inside a character of two.
EndOfChunk(s, start, limit) ==
  LET n == Len(s.text)
      full == Smaller(start + limit, n)
      break == LastBreak(s.text, full)
      end == IF full < n /\ break > start + (limit \div 3) THEN break ELSE full
      safe == AvoidSplitting(s.entities, start, end)
  IN IF safe > start THEN safe ELSE end

\* Mutant of SliceEntities: an entity that began in an earlier message is left out.
SliceOfBegun(entities, start, end) ==
  {Entity(e.type, e.offset - start, Smaller(End(e), end) - e.offset) :
     e \in {f \in entities : start <= f.offset /\ f.offset < end}}

SliceEntities(entities, start, end) ==
  LET from(e) == Larger(e.offset, start)
      to(e) == Smaller(End(e), end)
  IN {Entity(e.type, from(e) - start, to(e) - from(e)) : e \in {f \in entities : from(f) < to(f)}}

\* Each message begins where the one before ends; at the end of the text they go on there.
Cuts(t, limit) ==
  LET cut[k \in 0..Len(t.text)] == IF k = 0 THEN 0 ELSE EndOfChunk(t, cut[k - 1], limit)
  IN cut

Messages(s, limit) ==
  LET t == Normalized(s)
      cut == Cuts(t, limit)
      last == Cardinality({k \in DOMAIN cut : cut[k] < Len(t.text)})
  IN [k \in 1..last |-> [text |-> SubSeq(t.text, cut[k - 1] + 1, cut[k]),
                         entities |-> SliceEntities(t.entities, cut[k - 1], cut[k])]]

\* chunkMessage, for texts that are not Markdown: where the message that begins at start
\* ends, where the messages begin, and the messages.
SplitAt(text, start, limit) ==
  LET rest == SubSeq(text, start + 1, Len(text))
      break == LastBreak(rest, limit)
  IN IF Len(rest) <= limit THEN Len(text)
     ELSE start + (IF 3 * break > limit THEN break ELSE limit)
Begins(text, limit) ==
  LET begin[k \in 0..Len(text)] ==
        IF k = 0 THEN 0 ELSE SkipBlanks(text, SplitAt(text, begin[k - 1], limit))
  IN begin

ChunkMessage(text, limit) ==
  LET begin == Begins(text, limit)
      last == Cardinality({k \in DOMAIN begin : begin[k] < Len(text)})
  IN IF Len(text) = 0 THEN <<text>>
     ELSE [k \in 1..last |-> SubSeq(text, begin[k - 1] + 1, SplitAt(text, begin[k - 1], limit))]

--------------------------------------------------------------------------------
\* Properties.

\* The text has so many blanks in a row.
HasBlanks(text, number) ==
  \E i \in 0..(Len(text) - number) : \A j \in 1..number : IsBlank(text[i + j])

\* A cut after so many units falls between the two units of one character.
SplitsPair(text, i) == i < Len(text) /\ text[i + 1] = "low"

\* The messages of an answer are its text, cut to the limit, and show every unit of it the
\* way Markdown says (Shows), though entities are merged, dropped and cut; Telegram can show
\* each message.  A character is split only where the limit falls, or an entity begins, in
\* it.  A message is blank only at the blank end of the text, among blanks that are more than
\* a third of the limit, or before an entity that reaches beyond a third of the limit.
Faithful(s, limit) ==
  LET messages == Messages(s, limit)
      cut == Cuts(Normalized(s), limit)
      texts == [k \in DOMAIN messages |-> messages[k].text]
      shown == FlattenSeq([k \in DOMAIN messages |-> FormatsOf(messages[k])])
      third == limit \div 3
  IN /\ FlattenSeq(texts) = s.text /\ shown = s.formats
     /\ \A i \in DOMAIN s.text : Shows(shown[i], s.within[i])
     /\ \A k \in DOMAIN messages :
          /\ Len(texts[k]) \in 1..limit /\ Acceptable(messages[k])
          /\ SplitsPair(s.text, cut[k]) =>
               Len(texts[k]) = limit \/ \E e \in s.entities : e.offset = cut[k]
          /\ Blank(texts[k]) =>
               \/ k = Len(messages)
               \/ HasBlanks(s.text, third + 2)
               \/ \E e \in s.entities : e.offset = cut[k] /\ End(e) > cut[k - 1] + third + 1

\* A text loses nothing but blanks between its messages, and a character is split only where
\* the limit falls in it.
Complete(text, limit) ==
  LET messages == ChunkMessage(text, limit)
      begin == Begins(text, limit)
      end(k) == begin[k - 1] + Len(messages[k])
  IN /\ \A k \in DOMAIN messages :
          /\ Len(messages[k]) \in 1..limit /\ messages[k] = SubSeq(text, begin[k - 1] + 1, end(k))
          /\ SplitsPair(text, end(k)) => Len(messages[k]) = limit
     /\ \A k \in DOMAIN messages : k < Len(messages) => end(k) <= begin[k]
     /\ \A i \in DOMAIN text :
          IsBlank(text[i]) \/ \E k \in DOMAIN messages : begin[k - 1] < i /\ i <= end(k)

\* Both of the above for all answers and texts of the instance.
MessagesFaithful ==
  \A limit \in MessageLimits :
    (\A s \in Answers : Faithful(s, limit)) /\ (\A t \in Texts : Complete(t, limit))
================================================================================
