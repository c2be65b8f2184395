------------------------ MODULE ProgressReporterProofs ------------------------
(***************************************************************************)
(* Proofs about ProgressReporter, for any tool calls, limits and bounds.     *)
(***************************************************************************)
EXTENDS ProgressReporter, FiniteSetTheorems, TLAPS

\* The calls in ts know their lines in ls.
KnowLines(ts, ls) ==
  \A c \in DOMAIN ts :
    ts[c] # 0 => ts[c] <= Len(ls) /\ ls[ts[c]].of = c /\ ls[ts[c]].text = 0

\* The lines of ls come after k others.
After(k, ls) == \A i \in 1..Len(ls) : ls[i].no = k + i

LogTypes ==
  /\ startup \in BOOLEAN /\ added \in Nat /\ deltas \in Nat
  /\ lines \in Seq(Lines) /\ archive \in Seq(Lines) /\ sent \in Seq(Nat) /\ lost \in Nat
  /\ DOMAIN tools \subseteq Calls /\ \A c \in DOMAIN tools : tools[c] \in Nat
  /\ thinking \in [pending : BOOLEAN, open : BOOLEAN, force : BOOLEAN]

\* The lines that have left the archive, and those that have left the message.
Gone == added - (Len(archive) + Len(lines))
Before == added - Len(lines)

\* Those that wait and those of the message have consecutive numbers after them.
NumbersInv ==
  /\ Len(archive) + Len(lines) <= added
  /\ After(Gone, archive) /\ After(Before, lines)

\* The number of the last of the lines s.
Top(s) == IF Len(s) = 0 THEN 0 ELSE s[Len(s)]

\* All that have left are in the chat; that it is ahead of them, or was and went back,
\* is due to an answer that was lost.
SentInv ==
  /\ \A n \in 1..Gone : \E i \in 1..Len(sent) : sent[i] = n
  /\ \A i \in 1..Len(sent) : sent[i] <= LineBefore(sent, i) + 1
  /\ Gone <= Top(sent)
  /\ Cardinality(StepsBack(sent)) + (IF Top(sent) > Gone THEN 1 ELSE 0) <= lost

LogInv == LogTypes /\ NumbersInv /\ KnowLines(tools, lines) /\ SentInv

\* What a step may make of the lines: they are a log of n lines with those before.
GoodLog(ts, ls, n) ==
  /\ ls \in Seq(Lines) /\ n \in Nat /\ Before + Len(ls) = n
  /\ After(Before, ls) /\ KnowLines(ts, ls)

--------------------------------------------------------------------------------
\* Lines.

LEMMA LinesAreRecords ==
  /\ \A n \in Nat, o \in Calls \cup {Thinking}, t \in Nat : [no |-> n, of |-> o, text |-> t] \in Lines
  /\ \A l \in Lines : l.no \in Nat /\ l.of \in Calls \cup {Thinking} /\ l.text \in Nat
BY DEF Lines

LEMMA LogNumbers ==
  ASSUME LogInv
  PROVE  /\ Gone \in Nat /\ Before \in Nat /\ Before = Gone + Len(archive)
         /\ Len(archive) \in Nat /\ Len(lines) \in Nat /\ Len(sent) \in Nat
         /\ Before + Len(lines) = added
<1>1. /\ Len(archive) \in Nat /\ Len(lines) \in Nat /\ Len(sent) \in Nat /\ added \in Nat
      /\ Len(archive) + Len(lines) <= added
  BY DEF LogInv, LogTypes, NumbersInv
<1> QED
  BY <1>1 DEF Gone, Before

\* A line with the next number at the end of a log makes a log.
LEMMA AppendedLog ==
  ASSUME LogInv, NEW ts, NEW ls, NEW n, GoodLog(ts, ls, n), NEW l \in Lines, l.no = n + 1,
         \A c \in DOMAIN ts : ts[c] \in Nat
  PROVE  GoodLog(ts, Append(ls, l), n + 1)
<1> DEFINE new == Append(ls, l)
<1>1. ls \in Seq(Lines) /\ n \in Nat /\ Before \in Nat /\ Len(ls) \in Nat /\ Before + Len(ls) = n
  BY LogNumbers DEF GoodLog, LogInv, LogTypes
<1>2. /\ new \in Seq(Lines) /\ Len(new) = Len(ls) + 1
      /\ \A i \in 1..Len(ls) : new[i] = ls[i]
      /\ new[Len(ls) + 1] = l
  BY <1>1
<1>3. After(Before, new)
  BY <1>1, <1>2 DEF GoodLog, After
<1>4. KnowLines(ts, new)
  BY <1>1, <1>2 DEF GoodLog, KnowLines
<1> HIDE DEF new
<1> QED
  BY <1>1, <1>2, <1>3, <1>4 DEF GoodLog, new

\* Another text for a line that is of no call under way makes a log.
LEMMA RewrittenLog ==
  ASSUME LogInv, NEW ts, NEW ls, NEW n, GoodLog(ts, ls, n), NEW i \in 1..Len(ls), NEW t \in Nat,
         \A c \in DOMAIN ts : ts[c] \in Nat /\ ls[i].of # c
  PROVE  GoodLog(ts, [ls EXCEPT ![i].text = t], n)
<1> DEFINE new == [ls EXCEPT ![i].text = t]
<1>1. ls \in Seq(Lines) /\ n \in Nat /\ Before \in Nat /\ Len(ls) \in Nat /\ Before + Len(ls) = n
  BY LogNumbers DEF GoodLog, LogInv, LogTypes
<1>2. ls[i] \in Lines
  BY <1>1
<1>3. [ls[i] EXCEPT !.text = t] \in Lines /\ [ls[i] EXCEPT !.text = t].no = ls[i].no
  BY <1>2 DEF Lines
<1>4. /\ new \in Seq(Lines) /\ Len(new) = Len(ls)
      /\ \A j \in 1..Len(ls) : j # i => new[j] = ls[j]
      /\ new[i].no = ls[i].no
  BY <1>1, <1>3
<1>5. After(Before, new)
  BY <1>1, <1>4 DEF GoodLog, After
<1>6. \A c \in DOMAIN ts : ts[c] # i \/ ts[c] = 0
  BY <1>1 DEF GoodLog, KnowLines
<1>7. KnowLines(ts, new)
  BY <1>1, <1>4, <1>6 DEF GoodLog, KnowLines
<1> HIDE DEF new
<1> QED
  BY <1>1, <1>4, <1>5, <1>7 DEF GoodLog, new

\* A flush of the thinking preview.
LEMMA FlushedLog ==
  ASSUME LogInv
  PROVE  GoodLog(tools, Flushed(thinking, lines), AddedBy(thinking, lines))
<1> USE ConstantsAssumption
<1>1. GoodLog(tools, lines, added) /\ \A c \in DOMAIN tools : tools[c] \in Nat
  BY LogNumbers DEF GoodLog, LogInv, LogTypes, NumbersInv
<1>2. CASE ~thinking.pending
  BY <1>1, <1>2 DEF Flushed, AddedBy
<1>3. CASE thinking.pending /\ Replaces(thinking, lines)
  <2>1. Len(lines) \in 1..Len(lines) /\ lines[Len(lines)].of = Thinking
    BY <1>3 DEF Replaces, LogInv, LogTypes
  <2>2. \A c \in DOMAIN tools : lines[Len(lines)].of # c
    BY <2>1 DEF LogInv, LogTypes
  <2>3. deltas \in Nat
    BY DEF LogInv, LogTypes
  <2>4. GoodLog(tools, [lines EXCEPT ![Len(lines)].text = deltas], added)
    BY <1>1, <2>1, <2>2, <2>3, RewrittenLog
  <2> QED
    BY <1>3, <2>4 DEF Flushed, AddedBy
<1>4. CASE thinking.pending /\ ~Replaces(thinking, lines)
  <2> DEFINE l == [no |-> added + 1, of |-> Thinking, text |-> deltas]
  <2>1. l \in Lines /\ l.no = added + 1
    BY DEF Lines, LogInv, LogTypes
  <2>2. GoodLog(tools, Append(lines, l), added + 1)
    BY <1>1, <2>1, AppendedLog
  <2> QED
    BY <1>4, <2>2 DEF Flushed, AddedBy
<1> QED
  BY <1>2, <1>3, <1>4

--------------------------------------------------------------------------------
\* The log under each step.

LEMMA StepsCounted ==
  ASSUME NEW s \in Seq(Nat)
  PROVE  IsFiniteSet(StepsBack(s)) /\ Cardinality(StepsBack(s)) \in Nat
<1>1. StepsBack(s) \subseteq 1..Len(s) /\ Len(s) \in Nat
  BY DEF StepsBack
<1>2. IsFiniteSet(1..Len(s))
  BY <1>1, FS_Interval
<1>3. IsFiniteSet(StepsBack(s))
  BY <1>1, <1>2, FS_Subset
<1> QED
  BY <1>3, FS_CardinalityType

\* The chat, when nothing is sent and no line leaves the archive.
LEMMA SentKept ==
  ASSUME SentInv, Gone' = Gone, sent' = sent, lost \in Nat, lost' \in Nat, lost <= lost',
         sent \in Seq(Nat)
  PROVE  SentInv'
<1>1. Cardinality(StepsBack(sent)) \in Nat
  BY StepsCounted
<1>2. SentInv
  OBVIOUS
<1> DEFINE more == IF Top(sent) > Gone THEN 1 ELSE 0
<1>3. Cardinality(StepsBack(sent)) + more <= lost /\ more \in Nat
  BY DEF SentInv
<1> HIDE DEF more
<1>4. Cardinality(StepsBack(sent)) + more <= lost'
  BY <1>1, <1>3
<1> QED
  BY <1>2, <1>4 DEF SentInv, more

\* What a step must do to keep the log: the lines it leaves after those before.
LEMMA LogKept ==
  ASSUME LogInv, GoodLog(tools', lines', added'),
         startup' \in BOOLEAN, deltas' \in Nat,
         DOMAIN tools' \subseteq Calls, \A c \in DOMAIN tools' : tools'[c] \in Nat,
         thinking' \in [pending : BOOLEAN, open : BOOLEAN, force : BOOLEAN],
         UNCHANGED <<archive, sent, lost>>
  PROVE  LogInv'
<1>1. LogTypes'
  BY DEF GoodLog, LogInv, LogTypes
<1>2. /\ lines' \in Seq(Lines) /\ Len(lines') \in Nat /\ added' \in Nat
      /\ Before + Len(lines') = added' /\ After(Before, lines') /\ KnowLines(tools', lines')
  BY DEF GoodLog
<1>3. Before' = Before /\ Gone' = Gone /\ Len(archive') + Len(lines') <= added'
  BY <1>2, LogNumbers DEF Before, Gone
<1>4. NumbersInv'
  <2>1. After(Gone, archive)
    BY DEF LogInv, NumbersInv
  <2> QED
    BY <1>2, <1>3, <2>1 DEF NumbersInv, After
<1>5. SentInv'
  <2>1. SentInv /\ lost \in Nat /\ lost' = lost /\ sent' = sent /\ sent \in Seq(Nat)
    BY DEF LogInv, LogTypes
  <2>2. lost' \in Nat /\ lost <= lost' /\ Gone' = Gone
    BY <1>3, <2>1
  <2> QED
    BY <2>1, <2>2, SentKept
<1> QED
  BY <1>1, <1>2, <1>4, <1>5 DEF LogInv

LEMMA ClosedType ==
  ASSUME LogInv
  PROVE  Closed(thinking) \in [pending : BOOLEAN, open : BOOLEAN, force : BOOLEAN]
BY DEF Closed, Boundary, LogInv, LogTypes

\* Calls that are forgotten know nothing.
LEMMA FewerCalls ==
  ASSUME NEW ts, NEW us, NEW ls, NEW n, GoodLog(ts, ls, n),
         \A c \in DOMAIN us : c \in DOMAIN ts /\ us[c] = ts[c]
  PROVE  GoodLog(us, ls, n)
BY DEF GoodLog, KnowLines

LEMMA PlainEventLog ==
  ASSUME LogInv, PlainEvent \/ TerminalEvent
  PROVE  LogInv'
<1>1. /\ lines' = Flushed(thinking, lines) /\ added' = AddedBy(thinking, lines)
      /\ thinking' = Closed(thinking)
      /\ tools' = tools \/ tools' = NoTools
      /\ UNCHANGED <<startup, deltas, archive, sent, lost>>
  BY DEF PlainEvent, TerminalEvent, Event, chatVars
<1>2. \A c \in DOMAIN tools' : c \in DOMAIN tools /\ tools'[c] = tools[c]
  BY <1>1 DEF NoTools
<1>3. GoodLog(tools', lines', added')
  BY <1>1, <1>2, FlushedLog, FewerCalls
<1>4. DOMAIN tools' \subseteq Calls /\ \A c \in DOMAIN tools' : tools'[c] \in Nat
  BY <1>2 DEF LogInv, LogTypes
<1>5. startup \in BOOLEAN /\ deltas \in Nat
  BY DEF LogInv, LogTypes
<1> QED
  BY <1>1, <1>3, <1>4, <1>5, ClosedType, LogKept

\* A thinking line that goes into a log, with the number of the delta.
LEMMA ThinkingLog ==
  ASSUME LogInv, NEW th, NEW ls, NEW n, GoodLog(tools, ls, n)
  PROVE  /\ Replaces(th, ls) => GoodLog(tools, [ls EXCEPT ![Len(ls)].text = deltas + 1], n)
         /\ GoodLog(tools, Append(ls, [no |-> n + 1, of |-> Thinking, text |-> deltas + 1]), n + 1)
<1> USE ConstantsAssumption
<1>1. /\ deltas + 1 \in Nat /\ n \in Nat /\ ls \in Seq(Lines)
      /\ \A c \in DOMAIN tools : c \in Calls /\ tools[c] \in Nat
  BY DEF LogInv, LogTypes, GoodLog
<1>2. ASSUME Replaces(th, ls)
      PROVE  GoodLog(tools, [ls EXCEPT ![Len(ls)].text = deltas + 1], n)
  <2>1. Len(ls) \in 1..Len(ls) /\ ls[Len(ls)].of = Thinking
    BY <1>1, <1>2 DEF Replaces
  <2>2. \A c \in DOMAIN tools : tools[c] \in Nat /\ ls[Len(ls)].of # c
    BY <1>1, <2>1
  <2> QED
    BY <1>1, <2>1, <2>2, RewrittenLog
<1>3. GoodLog(tools, Append(ls, [no |-> n + 1, of |-> Thinking, text |-> deltas + 1]), n + 1)
  <2> DEFINE l == [no |-> n + 1, of |-> Thinking, text |-> deltas + 1]
  <2>1. l \in Lines /\ l.no = n + 1
    BY <1>1 DEF Lines
  <2> QED
    BY <1>1, <2>1, AppendedLog
<1> QED
  BY <1>2, <1>3

LEMMA ThinkingDeltaLog ==
  ASSUME LogInv, ThinkingDelta
  PROVE  LogInv'
<1> USE ConstantsAssumption
<1>1. PICK otherPart, elapsed \in BOOLEAN :
        LET part == IF otherPart THEN Boundary ELSE thinking
            before == IF otherPart THEN Flushed(thinking, lines) ELSE lines
            count == IF otherPart THEN AddedBy(thinking, lines) ELSE added
            line == [no |-> count + 1, of |-> Thinking, text |-> deltas + 1]
        IN
        /\ otherPart => thinking.open
        /\ thinking' = [pending |-> ~elapsed, open |-> TRUE, force |-> part.force /\ ~elapsed]
        /\ IF ~elapsed
           THEN lines' = before /\ added' = count
           ELSE IF Replaces(part, before)
           THEN lines' = [before EXCEPT ![Len(before)].text = deltas + 1] /\ added' = count
           ELSE lines' = Append(before, line) /\ added' = count + 1
  BY Zenon DEF ThinkingDelta
<1> DEFINE part == IF otherPart THEN Boundary ELSE thinking
           before == IF otherPart THEN Flushed(thinking, lines) ELSE lines
           count == IF otherPart THEN AddedBy(thinking, lines) ELSE added
<1>2. deltas' \in Nat /\ startup' \in BOOLEAN /\ tools' = tools /\ UNCHANGED <<archive, sent, lost>>
  <2>1. Event /\ deltas' = deltas + 1 /\ startup' = FALSE /\ UNCHANGED <<outcome, tools, calls>>
    BY Zenon DEF ThinkingDelta
  <2>2. UNCHANGED <<archive, sent, lost>>
    BY <2>1 DEF Event, chatVars
  <2>3. deltas' \in Nat
    BY <2>1 DEF LogInv, LogTypes
  <2>4. tools' = tools
    BY <2>1
  <2> QED
    BY <2>1, <2>2, <2>3, <2>4
<1>3. thinking' \in [pending : BOOLEAN, open : BOOLEAN, force : BOOLEAN]
  <2>1. part.force \in BOOLEAN
    BY DEF Boundary, LogInv, LogTypes
  <2> QED
    BY <1>1, <2>1
<1>4. GoodLog(tools, before, count)
  <2>1. GoodLog(tools, lines, added)
    BY LogNumbers DEF GoodLog, LogInv, LogTypes, NumbersInv
  <2> QED
    BY <2>1, FlushedLog
<1>5. \/ lines' = before /\ added' = count
      \/ Replaces(part, before) /\ lines' = [before EXCEPT ![Len(before)].text = deltas + 1] /\ added' = count
      \/ /\ lines' = Append(before, [no |-> count + 1, of |-> Thinking, text |-> deltas + 1])
         /\ added' = count + 1
  BY <1>1
<1> HIDE DEF part, before, count
<1>6. GoodLog(tools', lines', added')
  <2>1. /\ Replaces(part, before) =>
             GoodLog(tools, [before EXCEPT ![Len(before)].text = deltas + 1], count)
        /\ GoodLog(tools, Append(before, [no |-> count + 1, of |-> Thinking, text |-> deltas + 1]), count + 1)
    BY <1>4, ThinkingLog
  <2> QED
    BY <1>2, <1>4, <1>5, <2>1
<1>7. DOMAIN tools' \subseteq Calls /\ \A c \in DOMAIN tools' : tools'[c] \in Nat
  BY <1>2 DEF LogInv, LogTypes
<1> QED
  BY <1>2, <1>3, <1>6, <1>7, LogKept

LEMMA ToolStartLog ==
  ASSUME LogInv, NEW c \in Calls, ToolStart(c)
  PROVE  LogInv'
<1> USE ConstantsAssumption
<1> DEFINE ls == Flushed(thinking, lines)
           n == AddedBy(thinking, lines)
           l == [no |-> n + 1, of |-> c, text |-> 0]
<1>1. /\ IF Repeats(ls, l)
         THEN lines' = ls /\ added' = n
         ELSE lines' = Append(ls, l) /\ added' = n + 1
      /\ tools' = [d \in DOMAIN tools \cup {c} |->
                     IF d # c THEN tools[d] ELSE IF Repeats(ls, l) THEN 0 ELSE Len(ls) + 1]
  BY DEF ToolStart
<1>2. thinking' = Closed(thinking) /\ startup' = FALSE /\ UNCHANGED <<deltas, archive, sent, lost>>
  BY DEF ToolStart, Event, chatVars
<1>3. GoodLog(tools, ls, n) /\ ls \in Seq(Lines) /\ n \in Nat /\ Len(ls) \in Nat
  BY FlushedLog DEF GoodLog
<1>4. \A d \in DOMAIN tools : d \in Calls /\ tools[d] \in Nat
  BY DEF LogInv, LogTypes
<1>5. l \in Lines /\ l.no = n + 1 /\ l.of = c /\ l.text = 0
  BY <1>3 DEF Lines
<1>6. GoodLog(tools, Append(ls, l), n + 1)
  BY <1>3, <1>4, <1>5, AppendedLog
<1>7. DOMAIN tools' \subseteq Calls /\ \A d \in DOMAIN tools' : tools'[d] \in Nat
  BY <1>1, <1>3, <1>4
<1>8. GoodLog(tools', lines', added')
  <2>1. CASE Repeats(ls, l)
    <3>1. lines' = ls /\ added' = n /\ \A d \in DOMAIN tools' : tools'[d] # 0 => d \in DOMAIN tools /\ tools'[d] = tools[d]
      BY <1>1, <2>1
    <3> HIDE DEF ls, n, l
    <3> QED
      BY <1>3, <3>1 DEF GoodLog, KnowLines
  <2>2. CASE ~Repeats(ls, l)
    <3>1. /\ lines' = Append(ls, l) /\ added' = n + 1
          /\ \A d \in DOMAIN tools' : d # c => d \in DOMAIN tools /\ tools'[d] = tools[d]
          /\ c \in DOMAIN tools' => tools'[c] = Len(ls) + 1
      BY <1>1, <2>2
    <3> HIDE DEF ls, n
    <3>2. Len(lines') = Len(ls) + 1 /\ lines'[Len(ls) + 1] = l
      BY <1>3, <1>5, <3>1
    <3>3. KnowLines(tools', lines')
      <4> SUFFICES ASSUME NEW d \in DOMAIN tools', tools'[d] # 0
                   PROVE  /\ tools'[d] <= Len(lines')
                          /\ lines'[tools'[d]].of = d /\ lines'[tools'[d]].text = 0
        BY DEF KnowLines
      <4>1. CASE d = c
        BY <1>3, <1>5, <3>1, <3>2, <4>1
      <4>2. CASE d # c
        BY <1>6, <3>1, <4>2 DEF GoodLog, KnowLines
      <4> QED
        BY <4>1, <4>2
    <3> HIDE DEF l
    <3> QED
      BY <1>6, <3>1, <3>3 DEF GoodLog
  <2> QED
    BY <2>1, <2>2
<1> HIDE DEF ls, n, l
<1>9. startup' \in BOOLEAN /\ deltas' \in Nat
  BY <1>2 DEF LogInv, LogTypes
<1> QED
  BY <1>2, <1>7, <1>8, <1>9, ClosedType, LogKept

LEMMA ToolEndLog ==
  ASSUME LogInv, NEW c \in Calls, ToolEnd(c)
  PROVE  LogInv'
<1> USE ConstantsAssumption
<1> DEFINE ls == Flushed(thinking, lines)
           n == AddedBy(thinking, lines)
           l == [no |-> n + 1, of |-> c, text |-> 1]
           i == IF c \in DOMAIN tools THEN tools[c] ELSE 0
<1>1. /\ tools' = [d \in DOMAIN tools \ {c} |-> tools[d]]
      /\ \/ i > 0 /\ lines' = [ls EXCEPT ![i].text = 1] /\ added' = n
         \/ lines' = ls /\ added' = n
         \/ lines' = Append(ls, l) /\ added' = n + 1
  BY DEF ToolEnd
<1>2. thinking' = Closed(thinking) /\ startup' = FALSE /\ UNCHANGED <<deltas, archive, sent, lost>>
  BY DEF ToolEnd, Event, chatVars
<1>3. GoodLog(tools, ls, n) /\ ls \in Seq(Lines) /\ n \in Nat
  BY FlushedLog DEF GoodLog
<1>4. \A d \in DOMAIN tools : d \in Calls /\ tools[d] \in Nat
  BY DEF LogInv, LogTypes
<1>5. \A d \in DOMAIN tools' : d # c /\ d \in DOMAIN tools /\ tools'[d] = tools[d]
  BY <1>1
<1>6. GoodLog(tools', ls, n) /\ \A d \in DOMAIN tools' : tools'[d] \in Nat
  BY <1>3, <1>4, <1>5, FewerCalls
<1>7. l \in Lines /\ l.no = n + 1
  BY <1>3 DEF Lines
<1>8. GoodLog(tools', lines', added')
  <2>1. ASSUME i > 0, lines' = [ls EXCEPT ![i].text = 1], added' = n
        PROVE  GoodLog(tools', lines', added')
    <3>1. i \in 1..Len(ls) /\ ls[i].of = c
      BY <1>3, <1>4, <2>1 DEF GoodLog, KnowLines
    <3>2. \A d \in DOMAIN tools' : tools'[d] \in Nat /\ ls[i].of # d
      BY <1>5, <1>6, <3>1
    <3> HIDE DEF ls, n, i
    <3> QED
      BY <1>6, <2>1, <3>1, <3>2, RewrittenLog
  <2>2. ASSUME lines' = Append(ls, l), added' = n + 1
        PROVE  GoodLog(tools', lines', added')
    BY <1>6, <1>7, <2>2, AppendedLog
  <2> QED
    BY <1>1, <1>6, <2>1, <2>2
<1>9. DOMAIN tools' \subseteq Calls /\ startup' \in BOOLEAN /\ deltas' \in Nat
  BY <1>2, <1>4, <1>5 DEF LogInv, LogTypes
<1> HIDE DEF ls, n, l, i
<1> QED
  BY <1>2, <1>6, <1>8, <1>9, ClosedType, LogKept

--------------------------------------------------------------------------------
\* Lines on their way to the chat.

\* The first n lines of b go to the end of a.
LEMMA MovedLines ==
  ASSUME NEW a \in Seq(Lines), NEW b \in Seq(Lines), NEW n \in 0..Len(b), NEW k \in Nat,
         After(k, a), After(k + Len(a), b)
  PROVE  LET a2 == a \o SubSeq(b, 1, n)
             b2 == SubSeq(b, n + 1, Len(b))
         IN /\ a2 \in Seq(Lines) /\ b2 \in Seq(Lines)
            /\ Len(a2) = Len(a) + n /\ Len(b2) = Len(b) - n
            /\ After(k, a2) /\ After(k + Len(a2), b2)
            /\ \A i \in 1..Len(b2) : b2[i] = b[n + i]
<1> DEFINE a2 == a \o SubSeq(b, 1, n)
           b2 == SubSeq(b, n + 1, Len(b))
<1>1. Len(a) \in Nat /\ Len(b) \in Nat /\ n \in Nat /\ n <= Len(b)
  OBVIOUS
<1>2. /\ SubSeq(b, 1, n) \in Seq(Lines) /\ Len(SubSeq(b, 1, n)) = n
      /\ \A i \in 1..n : SubSeq(b, 1, n)[i] = b[i]
  BY <1>1
<1>3. /\ b2 \in Seq(Lines) /\ Len(b2) = Len(b) - n
      /\ \A i \in 1..Len(b2) : b2[i] = b[n + i]
  BY <1>1
<1>4. /\ a2 \in Seq(Lines) /\ Len(a2) = Len(a) + n
      /\ \A i \in 1..Len(a) : a2[i] = a[i]
      /\ \A i \in 1..n : a2[Len(a) + i] = b[i]
  BY <1>1, <1>2
<1> HIDE DEF a2, b2
<1>5. After(k, a2)
  <2> SUFFICES ASSUME NEW i \in 1..Len(a2)
               PROVE  a2[i].no = k + i
    BY DEF After
  <2>1. CASE i <= Len(a)
    <3>1. i \in 1..Len(a)
      BY <1>1, <1>4, <2>1
    <3>2. a[i].no = k + i
      BY <3>1 DEF After
    <3> QED
      BY <1>4, <3>1, <3>2
  <2>2. CASE i > Len(a)
    <3>1. PICK j \in 1..n : i = Len(a) + j
      <4>1. i - Len(a) \in 1..n
        BY <1>1, <1>4, <2>2
      <4> QED
        BY <1>1, <4>1
    <3>2. b[j].no = k + Len(a) + j
      <4>1. j \in 1..Len(b)
        BY <1>1
      <4> QED
        BY <4>1 DEF After
    <3> QED
      BY <1>1, <1>4, <3>1, <3>2
  <2> QED
    BY <1>1, <1>4, <2>1, <2>2
<1>6. After(k + Len(a2), b2)
  <2> SUFFICES ASSUME NEW i \in 1..Len(b2)
               PROVE  b2[i].no = k + Len(a2) + i
    BY DEF After
  <2>1. n + i \in 1..Len(b) /\ i \in Nat
    BY <1>1, <1>3
  <2>2. b[n + i].no = k + Len(a) + (n + i)
    BY <2>1 DEF After
  <2> QED
    BY <1>1, <1>3, <1>4, <2>1, <2>2
<1> QED
  BY <1>3, <1>4, <1>5, <1>6 DEF a2, b2

LEMMA OverflowFits ==
  ASSUME LogTypes
  PROVE  Overflow \in 0..Len(lines)
<1>1. Len(lines) \in Nat /\ Limit \in Nat
  BY ConstantsAssumption DEF LogTypes
<1>2. Height \in Nat
  <2> DEFINE s == IF startup THEN 1 ELSE 0
             f == IF phase = "failed" THEN 1 ELSE 0
  <2>1. s \in Nat /\ f \in Nat
    OBVIOUS
  <2>2. Height = Len(lines) + s + f
    BY DEF Height
  <2> HIDE DEF s, f
  <2> QED
    BY <1>1, <2>1, <2>2
<1> QED
  BY <1>1, <1>2 DEF Overflow

LEMMA FlushLog ==
  ASSUME LogInv, Flush, UNCHANGED <<startup, thinking, added, sent, lost, deltas>>
  PROVE  LogInv'
<1> DEFINE n == Overflow
<1>1. /\ lines' = SubSeq(lines, n + 1, Len(lines)) /\ archive' = archive \o SubSeq(lines, 1, n)
      /\ tools' = [c \in DOMAIN tools |-> Shifted(tools[c], n)]
  BY DEF Flush
<1>2. n \in 0..Len(lines)
  BY OverflowFits DEF LogInv
<1> HIDE DEF n
<1>3. /\ lines \in Seq(Lines) /\ archive \in Seq(Lines)
      /\ Len(lines) \in Nat /\ Len(archive) \in Nat
  BY DEF LogInv, LogTypes
<1>4. /\ archive' \in Seq(Lines) /\ lines' \in Seq(Lines)
      /\ Len(archive') = Len(archive) + n /\ Len(lines') = Len(lines) - n
      /\ After(Gone, archive') /\ After(Gone + Len(archive'), lines')
      /\ \A i \in 1..Len(lines') : lines'[i] = lines[n + i]
  <2>1. After(Gone, archive) /\ After(Gone + Len(archive), lines) /\ Gone \in Nat
    BY LogNumbers DEF LogInv, NumbersInv
  <2> DEFINE a2 == archive \o SubSeq(lines, 1, n)
             b2 == SubSeq(lines, n + 1, Len(lines))
  <2>2. /\ a2 \in Seq(Lines) /\ b2 \in Seq(Lines)
        /\ Len(a2) = Len(archive) + n /\ Len(b2) = Len(lines) - n
        /\ After(Gone, a2) /\ After(Gone + Len(a2), b2)
        /\ \A i \in 1..Len(b2) : b2[i] = lines[n + i]
    BY <1>2, <1>3, <2>1, MovedLines
  <2>3. archive' = a2 /\ lines' = b2
    BY <1>1
  <2> HIDE DEF a2, b2
  <2> QED
    BY <2>2, <2>3
<1>5. \A c \in DOMAIN tools : c \in Calls /\ tools[c] \in Nat
  BY DEF LogInv, LogTypes
<1>6. \A c \in DOMAIN tools' :
        c \in DOMAIN tools /\ tools'[c] \in Nat /\ (tools'[c] # 0 => tools[c] = tools'[c] + n)
  <2>1. DOMAIN tools' = DOMAIN tools /\ \A c \in DOMAIN tools : tools'[c] = Shifted(tools[c], n)
    BY <1>1
  <2>2. \A k \in Nat : Shifted(k, n) \in Nat /\ (Shifted(k, n) # 0 => k = Shifted(k, n) + n)
    BY <1>2, <1>3 DEF Shifted
  <2> QED
    BY <1>5, <2>1, <2>2
<1>7. KnowLines(tools', lines')
  <2> SUFFICES ASSUME NEW c \in DOMAIN tools', tools'[c] # 0
               PROVE  /\ tools'[c] <= Len(lines')
                      /\ lines'[tools'[c]].of = c /\ lines'[tools'[c]].text = 0
    BY DEF KnowLines
  <2>1. /\ tools[c] <= Len(lines) /\ lines[tools[c]].of = c /\ lines[tools[c]].text = 0
        /\ tools[c] = tools'[c] + n /\ tools'[c] \in Nat
    BY <1>2, <1>3, <1>6 DEF LogInv, KnowLines
  <2>2. tools'[c] \in 1..Len(lines')
    BY <1>2, <1>3, <1>4, <2>1
  <2>3. lines'[tools'[c]] = lines[tools[c]]
    BY <1>2, <1>3, <1>4, <2>1, <2>2
  <2> QED
    BY <2>1, <2>2, <2>3
<1>8. LogTypes'
  BY <1>4, <1>5, <1>6 DEF LogInv, LogTypes
<1>9. /\ Gone' = Gone /\ Before' = Gone + Len(archive')
      /\ Len(archive') + Len(lines') <= added'
  BY <1>2, <1>3, <1>4, LogNumbers DEF Gone, Before
<1>10. NumbersInv'
  BY <1>4, <1>9 DEF NumbersInv, After
<1>11. SentInv'
  BY <1>3, <1>9, LogNumbers, SentKept DEF LogInv, LogTypes
<1> QED
  BY <1>7, <1>8, <1>10, <1>11 DEF LogInv

LEMMA NumbersIn ==
  ASSUME NEW n \in Nat, NEW f \in [1..n -> Nat]
  PROVE  f \in Seq(Nat) /\ Len(f) = n
OBVIOUS

LEMMA NumbersAfter ==
  ASSUME NEW a \in Seq(Nat), NEW b \in Seq(Nat)
  PROVE  /\ a \o b \in Seq(Nat) /\ Len(a \o b) = Len(a) + Len(b)
         /\ \A i \in 1..Len(a) : (a \o b)[i] = a[i]
         /\ \A j \in 1..Len(b) : (a \o b)[Len(a) + j] = b[j]
OBVIOUS

\* A chunk of n lines in the chat: it steps back at most where it begins.
LEMMA SentMore ==
  ASSUME LogInv, NEW n \in 1..Len(archive), NEW t, t = sent \o FirstNumbers(n)
  PROVE  /\ t \in Seq(Nat) /\ Top(t) = Gone + n
         /\ \A i \in 1..Len(t) : t[i] <= LineBefore(t, i) + 1
         /\ \A m \in 1..(Gone + n) : \E i \in 1..Len(t) : t[i] = m
         /\ Cardinality(StepsBack(t)) <= lost
<1> DEFINE s == Len(sent)
           g == Gone
           top == Top(sent)
<1>1. /\ sent \in Seq(Nat) /\ archive \in Seq(Lines) /\ lost \in Nat
      /\ s \in Nat /\ Len(archive) \in Nat /\ g \in Nat /\ n \in Nat /\ n >= 1
  BY LogNumbers DEF LogInv, LogTypes
<1>2. /\ t \in Seq(Nat) /\ Len(t) = s + n
      /\ \A i \in 1..s : t[i] = sent[i]
      /\ \A j \in 1..n : t[s + j] = archive[j].no
  <2>1. /\ FirstNumbers(n) \in Seq(Nat) /\ Len(FirstNumbers(n)) = n
        /\ \A j \in 1..n : FirstNumbers(n)[j] = archive[j].no
    <3>1. \A j \in 1..n : archive[j].no \in Nat
      BY <1>1, LinesAreRecords
    <3>2. /\ FirstNumbers(n) \in [1..n -> Nat]
          /\ \A j \in 1..n : FirstNumbers(n)[j] = archive[j].no
      BY <3>1, Zenon DEF FirstNumbers
    <3> QED
      BY <1>1, <3>2, NumbersIn
  <2> DEFINE f == FirstNumbers(n)
  <2>2. f \in Seq(Nat) /\ Len(f) = n /\ \A j \in 1..n : f[j] = archive[j].no
    BY <2>1
  <2> HIDE DEF f
  <2>3. /\ sent \o f \in Seq(Nat) /\ Len(sent \o f) = s + n
        /\ \A i \in 1..s : (sent \o f)[i] = sent[i]
        /\ \A j \in 1..n : (sent \o f)[s + j] = f[j]
    BY <1>1, <2>2, NumbersAfter, Zenon
  <2>4. t = sent \o f
    BY DEF f
  <2> QED
    BY <2>2, <2>3, <2>4, Zenon
<1>3. \A j \in 1..n : t[s + j] = g + j
  <2>1. \A j \in 1..Len(archive) : archive[j].no = g + j
    BY DEF LogInv, NumbersInv, After
  <2> SUFFICES ASSUME NEW j \in 1..n
               PROVE  t[s + j] = g + j
    OBVIOUS
  <2>2. t[s + j] = archive[j].no /\ j \in 1..Len(archive)
    BY <1>1, <1>2
  <2> QED
    BY <2>1, <2>2
<1>6. g <= top /\ top \in Nat
  <2>1. s # 0 => sent[s] \in Nat
    BY <1>1
  <2>2. top \in Nat
    BY <2>1 DEF Top
  <2> QED
    BY <2>2 DEF LogInv, SentInv
<1>7. /\ \A i \in 1..s : sent[i] <= LineBefore(sent, i) + 1
      /\ \A m \in 1..g : \E i \in 1..s : sent[i] = m
      /\ Cardinality(StepsBack(sent)) + (IF top > g THEN 1 ELSE 0) <= lost
  BY DEF LogInv, SentInv
<1>5. LineBefore(t, s + 1) = top
  BY <1>1, <1>2 DEF LineBefore, Top
<1> DEFINE no(i) == t[i]
           before(i) == LineBefore(t, i)
<1> HIDE DEF s, g, top
<1>4. Top(t) = g + n
  <2>1. n \in 1..n /\ s + n # 0
    BY <1>1
  <2> QED
    BY <1>2, <1>3, <2>1 DEF Top
<1>8. \A i \in 1..s : LineBefore(t, i) = LineBefore(sent, i)
  <2> SUFFICES ASSUME NEW i \in 1..s
               PROVE  LineBefore(t, i) = LineBefore(sent, i)
    OBVIOUS
  <2>1. i # 1 => i - 1 \in 1..s
    BY <1>1
  <2> QED
    BY <1>2, <2>1 DEF LineBefore
<1>9. \A j \in 1..n : j # 1 => before(s + j) = g + j - 1
  <2> SUFFICES ASSUME NEW j \in 1..n, j # 1
               PROVE  before(s + j) = g + j - 1
    OBVIOUS
  <2>1. PICK k \in 1..n : j = k + 1
    <3>1. j - 1 \in 1..n /\ j = (j - 1) + 1
      BY <1>1
    <3> QED
      BY <3>1
  <2>2. s + j # 1 /\ (s + j) - 1 = s + k /\ g + j - 1 = g + k
    BY <1>1, <2>1
  <2>3. before(s + j) = t[s + k]
    BY <2>2, Zenon DEF LineBefore
  <2>4. t[s + k] = g + k
    BY <1>3
  <2> QED
    BY <2>2, <2>3, <2>4, Zenon
<1>10. /\ \A j \in 1..n : no(s + j) = g + j
       /\ before(s + 1) = top
       /\ \A i \in 1..s : no(i) = sent[i] /\ before(i) = LineBefore(sent, i)
  BY <1>2, <1>3, <1>5, <1>8
<1>13. \A i \in 1..s : no(i) <= before(i) + 1
  BY <1>7, <1>10
<1> HIDE DEF no, before
<1>14. ASSUME NEW i \in 1..(s + n)
       PROVE  /\ no(i) <= before(i) + 1
              /\ no(i) # before(i) + 1 => i \in 1..s \/ (i = s + 1 /\ top > g)
  <2>1. CASE i \in 1..s
    BY <1>13, <2>1
  <2>2. CASE i = s + 1
    <3>1. no(i) = g + 1 /\ before(i) = top
      BY <1>1, <1>10, <2>2
    <3> QED
      BY <1>1, <1>6, <2>2, <3>1
  <2>3. CASE i \notin 1..s /\ i # s + 1
    <3>1. PICK j \in 1..n : i = s + j /\ j # 1
      <4>1. i - s \in 1..n /\ i = s + (i - s) /\ i - s # 1
        BY <1>1, <2>3
      <4> QED
        BY <4>1
    <3>2. no(i) = g + j /\ before(i) = g + j - 1
      BY <1>9, <1>10, <3>1
    <3>3. no(i) = before(i) + 1 /\ no(i) \in Nat /\ before(i) \in Int
      BY <1>1, <3>2
    <3> QED
      BY <3>3
  <2> QED
    BY <2>1, <2>2, <2>3
<1>11. ASSUME NEW m \in 1..(g + n)
       PROVE  \E i \in 1..Len(t) : t[i] = m
  <2>1. CASE m \in 1..g
    <3>1. PICK i \in 1..s : sent[i] = m
      BY <1>7, <2>1
    <3>2. i \in 1..Len(t) /\ t[i] = m
      BY <1>1, <1>2, <3>1
    <3> QED
      BY <3>2
  <2>2. CASE m \notin 1..g
    <3>1. PICK j \in 1..n : m = g + j
      <4>1. m - g \in 1..n /\ m = g + (m - g)
        BY <1>1, <2>2
      <4> QED
        BY <4>1
    <3>2. s + j \in 1..Len(t) /\ t[s + j] = m
      BY <1>1, <1>2, <1>3, <3>1
    <3> QED
      BY <3>2
  <2> QED
    BY <2>1, <2>2
<1>12. Cardinality(StepsBack(t)) <= lost
  <2>1. IsFiniteSet(StepsBack(sent)) /\ Cardinality(StepsBack(sent)) \in Nat
    BY <1>1, StepsCounted
  <2>2. Cardinality(StepsBack(t)) \in Nat
    BY <1>2, StepsCounted
  <2>3. ASSUME NEW i \in StepsBack(t)
        PROVE  i \in StepsBack(sent) \/ (i = s + 1 /\ top > g)
    <3>1. i \in 1..(s + n) /\ no(i) # before(i) + 1
      BY <1>2 DEF StepsBack, no, before
    <3>2. CASE i \in 1..s
      BY <1>10, <3>1, <3>2 DEF StepsBack, s
    <3> QED
      BY <1>14, <3>1, <3>2
  <2>4. CASE top > g
    <3> DEFINE more == StepsBack(sent) \cup {s + 1}
    <3>1. StepsBack(t) \subseteq more
      BY <2>3
    <3>2. /\ IsFiniteSet(more)
          /\ Cardinality(more) = IF s + 1 \in StepsBack(sent) THEN Cardinality(StepsBack(sent))
                                 ELSE Cardinality(StepsBack(sent)) + 1
      BY <2>1, FS_AddElement
    <3> HIDE DEF more
    <3>3. Cardinality(StepsBack(t)) <= Cardinality(more)
      BY <3>1, <3>2, FS_Subset
    <3>4. Cardinality(StepsBack(sent)) + 1 <= lost
      BY <1>7, <2>4
    <3> QED
      BY <1>1, <2>1, <2>2, <3>2, <3>3, <3>4
  <2>5. CASE ~(top > g)
    <3>1. StepsBack(t) \subseteq StepsBack(sent)
      BY <2>3, <2>5
    <3>2. Cardinality(StepsBack(t)) <= Cardinality(StepsBack(sent))
      BY <2>1, <3>1, FS_Subset
    <3>3. Cardinality(StepsBack(sent)) + 0 <= lost
      BY <1>7, <2>5
    <3> QED
      BY <1>1, <2>1, <2>2, <3>2, <3>3
  <2> QED
    BY <2>4, <2>5
<1>15. \A i \in 1..Len(t) : t[i] <= LineBefore(t, i) + 1
  BY <1>2, <1>14 DEF no, before
<1> QED
  BY <1>2, <1>4, <1>11, <1>12, <1>15 DEF g

\* The steps that leave the lines and the chat alone; some forget the calls.
LEMMA LogUntouched ==
  ASSUME LogInv, UNCHANGED <<startup, lines, archive, thinking, added, sent, deltas>>,
         lost' \in {lost, lost + 1}, tools' = tools \/ tools' = NoTools
  PROVE  LogInv'
<1>1. lost \in Nat /\ lost' \in Nat /\ lost <= lost' /\ sent \in Seq(Nat)
  BY DEF LogInv, LogTypes
<1>2. Gone' = Gone /\ Before' = Before /\ Gone \in Nat
  BY LogNumbers DEF Gone, Before
<1>3. SentInv'
  BY <1>1, <1>2, SentKept DEF LogInv
<1>4. NumbersInv'
  BY <1>2 DEF LogInv, NumbersInv, After
<1>5. CASE tools' = tools
  BY <1>1, <1>3, <1>4, <1>5 DEF LogInv, LogTypes, KnowLines
<1>6. CASE tools' = NoTools
  <2>1. DOMAIN tools' = {}
    BY <1>6 DEF NoTools
  <2>2. KnowLines(tools', lines')
    BY <2>1 DEF KnowLines
  <2>3. LogTypes'
    BY <1>1, <2>1 DEF LogInv, LogTypes
  <2> QED
    BY <1>3, <1>4, <2>2, <2>3 DEF LogInv
<1> QED
  BY <1>5, <1>6

\* A chunk in the chat, whether it is taken off the archive or its answer is lost.
LEMMA ChunkLog ==
  ASSUME LogInv,
         UNCHANGED <<startup, lines, tools, thinking, added, deltas>>,
         sent' = sent \o FirstNumbers(ChunkSize),
         \/ archive' = AfterChunk /\ lost' = lost
         \/ archive' = archive /\ lost' = lost + 1
  PROVE  LogInv'
<1> DEFINE n == ChunkSize
<1>1. /\ lines \in Seq(Lines) /\ archive \in Seq(Lines) /\ sent \in Seq(Nat)
      /\ Len(lines) \in Nat /\ Len(archive) \in Nat /\ Gone \in Nat /\ lost \in Nat
      /\ added \in Nat /\ Len(archive) + Len(lines) <= added
  BY LogNumbers DEF LogInv, LogTypes, NumbersInv
<1>2. n \in 0..Len(archive)
  BY <1>1, ConstantsAssumption DEF ChunkSize
<1>3. /\ sent' = sent \o FirstNumbers(n)
      /\ \/ archive' = SubSeq(archive, n + 1, Len(archive)) /\ lost' = lost
         \/ archive' = archive /\ lost' = lost + 1
  BY DEF AfterChunk
<1> HIDE DEF n
<1>4. CASE n = 0
  <2>1. FirstNumbers(0) = <<>> /\ SubSeq(archive, 1, Len(archive)) = archive
    BY <1>1 DEF FirstNumbers
  <2>2. FirstNumbers(n) = <<>> /\ SubSeq(archive, n + 1, Len(archive)) = archive
    BY <1>4, <2>1
  <2>3. sent' = sent /\ archive' = archive
    <3>1. sent \o <<>> = sent
      BY <1>1
    <3> QED
      BY <1>3, <2>2, <3>1
  <2> QED
    BY <1>3, <2>3, LogUntouched
<1>5. CASE n # 0
  <2>1. n \in 1..Len(archive) /\ n \in Nat
    BY <1>1, <1>2, <1>5
  <2>2. /\ sent' \in Seq(Nat) /\ Top(sent') = Gone + n
        /\ \A i \in 1..Len(sent') : sent'[i] <= LineBefore(sent', i) + 1
        /\ \A m \in 1..(Gone + n) : \E i \in 1..Len(sent') : sent'[i] = m
        /\ Cardinality(StepsBack(sent')) <= lost
    BY <1>3, <2>1, SentMore
  <2>3. Cardinality(StepsBack(sent')) \in Nat
    BY <2>2, StepsCounted
  <2>4. CASE archive' = SubSeq(archive, n + 1, Len(archive)) /\ lost' = lost
    <3>1. /\ archive' \in Seq(Lines) /\ Len(archive') = Len(archive) - n
          /\ \A i \in 1..Len(archive') : archive'[i] = archive[n + i]
      BY <1>1, <2>1, <2>4
    <3>2. Gone' = Gone + n /\ Before' = Before /\ Len(archive') + Len(lines') <= added'
      BY <1>1, <2>1, <3>1 DEF Gone, Before
    <3>3. After(Gone', archive')
      <4> SUFFICES ASSUME NEW i \in 1..Len(archive')
                   PROVE  archive'[i].no = Gone + n + i
        BY <3>2 DEF After
      <4>1. n + i \in 1..Len(archive)
        BY <1>1, <2>1, <3>1
      <4>2. archive[n + i].no = Gone + (n + i)
        BY <4>1 DEF LogInv, NumbersInv, After
      <4>3. archive'[i] = archive[n + i] /\ Gone + (n + i) = Gone + n + i
        BY <1>1, <2>1, <3>1
      <4> QED
        BY <4>2, <4>3
    <3>4. NumbersInv'
      <4>1. After(Before', lines')
        BY <3>2 DEF LogInv, NumbersInv, After
      <4> QED
        BY <3>2, <3>3, <4>1 DEF NumbersInv
    <3>5. SentInv'
      <4>1. (IF Top(sent') > Gone' THEN 1 ELSE 0) = 0 /\ Gone' <= Top(sent')
        BY <1>1, <2>1, <2>2, <3>2
      <4>2. Cardinality(StepsBack(sent')) + 0 <= lost'
        BY <1>1, <2>2, <2>3, <2>4
      <4> QED
        BY <2>2, <3>2, <4>1, <4>2 DEF SentInv
    <3>6. LogTypes' /\ KnowLines(tools', lines')
      BY <2>2, <2>4, <3>1 DEF LogInv, LogTypes, KnowLines
    <3> QED
      BY <3>4, <3>5, <3>6 DEF LogInv
  <2>5. CASE archive' = archive /\ lost' = lost + 1
    <3>1. Gone' = Gone /\ Before' = Before
      BY <2>5 DEF Gone, Before
    <3>2. NumbersInv'
      BY <2>5, <3>1 DEF LogInv, NumbersInv, After
    <3>3. SentInv'
      <4>1. (IF Top(sent') > Gone' THEN 1 ELSE 0) = 1 /\ Gone' <= Top(sent')
        BY <1>1, <2>1, <2>2, <3>1
      <4>2. Cardinality(StepsBack(sent')) + 1 <= lost'
        BY <1>1, <2>2, <2>3, <2>5
      <4>3. \A m \in 1..Gone' : \E i \in 1..Len(sent') : sent'[i] = m
        <5>1. \A m \in 1..Gone : m \in 1..(Gone + n)
          BY <1>1, <2>1
        <5> QED
          BY <2>2, <3>1, <5>1
      <4> QED
        BY <2>2, <4>1, <4>2, <4>3 DEF SentInv
    <3>4. LogTypes' /\ KnowLines(tools', lines')
      BY <1>1, <2>2, <2>5 DEF LogInv, LogTypes, KnowLines
    <3> QED
      BY <3>2, <3>3, <3>4 DEF LogInv
  <2> QED
    BY <1>3, <2>4, <2>5
<1> QED
  BY <1>4, <1>5

LEMMA ChunkSentLog ==
  ASSUME LogInv, ChunkSent
  PROVE  LogInv'
<1>1. /\ sent' = sent \o FirstNumbers(ChunkSize) /\ archive' = AfterChunk /\ lost' = lost
      /\ UNCHANGED <<startup, lines, tools, thinking, added, deltas>>
  BY DEF ChunkSent, RenderKeeps
<1> QED
  BY <1>1, ChunkLog

LEMMA ChunkFailsLog ==
  ASSUME LogInv, ChunkFails
  PROVE  LogInv'
<1>1. UNCHANGED <<startup, lines, archive, tools, thinking, added, deltas>>
  BY DEF ChunkFails, RenderKeeps
<1>2. \/ sent' = sent /\ lost' = lost
      \/ sent' = sent \o FirstNumbers(ChunkSize) /\ lost' = lost + 1
  BY DEF ChunkFails
<1> QED
  BY <1>1, <1>2, LogUntouched, ChunkLog

LEMMA LogInit ==
  ASSUME Init
  PROVE  LogInv
<1>1. LogTypes
  BY DEF Init, LogTypes, NoTools, NoThinking
<1>2. NumbersInv
  BY DEF Init, NumbersInv, After, Gone, Before
<1>3. KnowLines(tools, lines)
  BY DEF Init, KnowLines, NoTools
<1>4. SentInv
  <2>1. sent = <<>> /\ lost = 0 /\ Gone = 0 /\ Len(sent) = 0
    <3>1. sent = <<>> /\ archive = <<>> /\ lines = <<>> /\ lost = 0 /\ added = 0
      BY DEF Init
    <3>2. Len(sent) = 0 /\ Len(archive) = 0 /\ Len(lines) = 0
      BY <3>1
    <3>3. added = 0
      BY DEF Init
    <3>4. Gone = 0
      BY <3>2, <3>3 DEF Gone
    <3> QED
      BY <3>1, <3>2, <3>4
  <2>2. Top(sent) = 0 /\ StepsBack(sent) = {}
    BY <2>1 DEF StepsBack, Top
  <2>3. Cardinality(StepsBack(sent)) = 0
    BY <2>2, FS_EmptySet
  <2>4. /\ \A n \in 1..Gone : \E i \in 1..Len(sent) : sent[i] = n
        /\ \A i \in 1..Len(sent) : sent[i] <= LineBefore(sent, i) + 1
    BY <2>1
  <2>5. Gone <= Top(sent) /\ Cardinality(StepsBack(sent)) + (IF Top(sent) > Gone THEN 1 ELSE 0) <= lost
    BY <2>1, <2>2, <2>3
  <2> QED
    BY <2>4, <2>5 DEF SentInv
<1> QED
  BY <1>1, <1>2, <1>3, <1>4 DEF LogInv

LEMMA LogStep ==
  ASSUME LogInv, [Next]_vars
  PROVE  LogInv'
<1>1. ASSUME Events
      PROVE  LogInv'
  <2>1. ASSUME NEW c \in Calls, ToolStart(c) \/ ToolEnd(c)
        PROVE  LogInv'
    BY <2>1, ToolStartLog, ToolEndLog
  <2> QED
    BY <1>1, <2>1, PlainEventLog, ThinkingDeltaLog DEF Events
<1>2. ASSUME TimerFires \/ FlushWhenIdle
      PROVE  LogInv'
  <2>1. UNCHANGED <<startup, thinking, added, sent, lost, deltas>>
    BY <1>2 DEF TimerFires, FlushWhenIdle, FlushKeeps, chatVars
  <2>2. CASE Flush
    BY <2>1, <2>2, FlushLog
  <2>3. CASE NoFlush
    BY <2>1, <2>3, LogUntouched DEF NoFlush
  <2> QED
    BY <1>2, <2>2, <2>3 DEF TimerFires, FlushWhenIdle
<1>3. ASSUME CallEnds
      PROVE  LogInv'
  <2>1. ASSUME EditDone \/ EditGone \/ EditLimited \/ EditFails \/ Recreated \/ RecreateFails
        PROVE  LogInv'
    <3>1. UNCHANGED <<startup, lines, archive, thinking, added, sent, lost, deltas, tools>>
      BY <2>1 DEF EditDone, EditGone, EditLimited, EditFails, Recreated, RecreateFails,
                  RenderKeeps, chatVars
    <3> QED
      BY <3>1, LogUntouched
  <2> QED
    BY <1>3, <2>1, ChunkSentLog, ChunkFailsLog DEF CallEnds
<1>4. ASSUME NEW ph, Finish(ph)
      PROVE  LogInv'
  BY <1>4, LogUntouched DEF Finish, chatVars
<1>5. ASSUME DeleteEnds \/ FinishGoesOn \/ LimitAwaited \/ Dispose \/ LimitPasses \/ UserDeletes \/ UNCHANGED vars
      PROVE  LogInv'
  <2>1. UNCHANGED <<startup, lines, archive, thinking, added, sent, lost, deltas, tools>>
    BY <1>5 DEF DeleteEnds, FinishGoesOn, LimitAwaited, Dispose, LimitPasses, UserDeletes, vars,
                logVars, chatVars
  <2> QED
    BY <2>1, LogUntouched
<1> QED
  BY <1>1, <1>2, <1>3, <1>4, <1>5 DEF Next, Finishes

--------------------------------------------------------------------------------
\* The renders.

ScreenTypes ==
  /\ phase \in {"running", "succeeded", "failed"}
  /\ outcome \in {"none", "succeeded", "failed"}
  /\ message \in {"there", "gone", "none"}
  /\ pending \in BOOLEAN /\ limited \in BOOLEAN /\ timer \in {"none", "set", "waits"}
  /\ render \in {"idle", "chunk", "edit", "recreate"}
  /\ finish \in {"no", "delete", "idle 1", "flush 1", "limit", "idle 2", "flush 2",
                 "done", "deleted"}
  /\ stopped \in BOOLEAN /\ disturbed \in BOOLEAN

\* A reporter that finishes has not stopped; one that is done has, and is still.
StopInv ==
  /\ stopped => finish \in {"no", "done", "deleted"}
  /\ finish \in {"done", "deleted"} => stopped
  /\ finish = "done" => render = "idle" /\ timer = "none"

\* Without a message nothing is rendered, and nothing leaves it.
MessageInv == message = "none" /\ finish # "deleted" => render = "idle" /\ archive = <<>>

\* What was rendered last is what the message says.
ShownInv == message = "there" /\ ~disturbed => shown = last

\* While the startup line is there, nothing was logged.
StartupInv == startup => lines = <<>> /\ archive = <<>> /\ ~thinking.pending

StartupRender == RenderOf(TRUE, <<>>, "running")

\* Until then, and without a failure, nothing is sent after the first message.
PlaceholderInv ==
  startup /\ outcome # "failed" /\ finish \in {"no", "delete"} /\ message # "none"
    => phase # "failed" /\ render = "idle" /\ last = StartupRender

\* Only such a message is deleted.
DeletedInv ==
  ~disturbed =>
    /\ finish = "delete" => startup /\ outcome # "failed" /\ message # "none"
    /\ finish = "deleted" => message = "none" /\ render = "idle"

\* The render that is last, or comes last, is that of the log and the phase as they are.
\* It comes after all that was archived.
Due == \/ render = "idle" /\ last = Rendering /\ archive = <<>>
       \/ render = "chunk"
       \/ render \in {"edit", "recreate"} /\ rendered = Rendering /\ archive = <<>>

\* A finish that nothing disturbs leads to the last render with its first flush.
FinishInv ==
  ~disturbed /\ message # "none" =>
    /\ finish # "no" => Terminal
    /\ finish = "idle 1" => pending \/ Due
    /\ finish = "flush 1" => ~pending /\ Due
    /\ finish = "done" => Due
    /\ finish \notin {"limit", "idle 2", "flush 2"}

ScreenInv ==
  /\ ScreenTypes /\ StopInv /\ MessageInv /\ ShownInv /\ StartupInv
  /\ PlaceholderInv /\ DeletedInv /\ FinishInv

IndInv == LogInv /\ ScreenInv

--------------------------------------------------------------------------------
\* The renders under each step.

LEMMA ScreenInit ==
  ASSUME Init
  PROVE  ScreenInv
<1>1. ScreenTypes /\ StopInv /\ MessageInv /\ ShownInv /\ DeletedInv /\ FinishInv
  BY DEF Init, ScreenTypes, StopInv, MessageInv, ShownInv, DeletedInv, FinishInv
<1>2. StartupInv
  BY DEF Init, StartupInv, NoThinking
<1>3. PlaceholderInv
  BY DEF Init, PlaceholderInv, StartupRender
<1> QED
  BY <1>1, <1>2, <1>3 DEF ScreenInv

\* An event disturbs a finish; it keeps the startup line only if it logs nothing.
LEMMA EventScreen ==
  ASSUME ScreenInv, Event,
         phase' \in {"running", "succeeded", "failed"},
         outcome' \in {"none", "succeeded", "failed"},
         startup' => /\ startup /\ lines' = <<>> /\ ~thinking'.pending
                     /\ outcome' # "failed" => outcome # "failed" /\ phase' \in {phase, "running", "succeeded"}
  PROVE  ScreenInv'
<1> USE DEF ScreenInv
<1>1. /\ ~stopped /\ pending' = TRUE /\ disturbed' = (disturbed \/ finish # "no")
      /\ timer' = IF render # "idle" \/ timer # "none" THEN timer
                  ELSE IF limited THEN "waits" ELSE "set"
      /\ UNCHANGED <<archive, message, shown, last, limited, render, rendered, finish, stopped>>
  BY DEF Event, ScheduleRender, chatVars
<1>2. disturbed' \in BOOLEAN /\ (disturbed' <=> disturbed \/ finish # "no")
  BY <1>1
<1>3. timer' \in {"none", "set", "waits"}
  BY <1>1 DEF ScreenTypes
<1>4. finish \notin {"done", "deleted"}
  BY <1>1 DEF StopInv
<1>5. ScreenTypes'
  BY <1>1, <1>2, <1>3 DEF ScreenTypes
<1>6. StopInv' /\ MessageInv'
  BY <1>1, <1>4 DEF StopInv, MessageInv
<1>7. ShownInv'
  BY <1>1, <1>2 DEF ShownInv
<1>8. StartupInv'
  BY <1>1 DEF StartupInv
<1>9. PlaceholderInv'
  BY <1>1 DEF PlaceholderInv
<1>10. DeletedInv' /\ FinishInv'
  BY <1>1, <1>2, <1>4 DEF DeletedInv, FinishInv
<1> QED
  BY <1>5, <1>6, <1>7, <1>8, <1>9, <1>10

LEMMA EventsScreen ==
  ASSUME IndInv, Events
  PROVE  ScreenInv'
<1> USE DEF IndInv
<1>1. ASSUME PlainEvent \/ TerminalEvent
      PROVE  ScreenInv'
  <2>1. Event /\ startup' = startup /\ thinking' = Closed(thinking) /\ lines' = Flushed(thinking, lines)
    BY <1>1 DEF PlainEvent, TerminalEvent
  <2>2. ASSUME startup
        PROVE  lines' = <<>> /\ ~thinking'.pending
    BY <2>1, <2>2 DEF ScreenInv, StartupInv, Flushed, Closed, Boundary
  <2>3. CASE PlainEvent
    <3>1. outcome' = outcome /\ (phase' = "running" \/ phase' = phase)
      BY <2>3 DEF PlainEvent
    <3> QED
      BY <2>1, <2>2, <3>1, EventScreen DEF ScreenInv, ScreenTypes
  <2>4. CASE TerminalEvent
    <3>1. outcome = "none" /\ outcome' \in {"succeeded", "failed"} /\ phase' = outcome'
      BY <2>4 DEF TerminalEvent
    <3> QED
      BY <2>1, <2>2, <3>1, EventScreen
  <2> QED
    BY <1>1, <2>3, <2>4
<1>2. ASSUME ThinkingDelta \/ \E c \in Calls : ToolStart(c) \/ ToolEnd(c)
      PROVE  ScreenInv'
  <2>1. CASE ThinkingDelta
    <3>1. Event /\ startup' = FALSE /\ phase' = "running" /\ UNCHANGED <<outcome, tools, calls>>
      BY <2>1, Zenon DEF ThinkingDelta
    <3>2. /\ phase' \in {"running", "succeeded", "failed"} /\ ~startup'
          /\ outcome' \in {"none", "succeeded", "failed"}
      BY <3>1 DEF ScreenInv, ScreenTypes
    <3>3. ScreenInv /\ Event
      BY <3>1
    <3> QED
      BY <3>2, <3>3, EventScreen, Zenon
  <2>2. CASE \E c \in Calls : ToolStart(c) \/ ToolEnd(c)
    <3>1. Event /\ startup' = FALSE /\ phase' = "running" /\ outcome' = outcome
      BY <2>2 DEF ToolStart, ToolEnd
    <3>2. /\ phase' \in {"running", "succeeded", "failed"} /\ ~startup'
          /\ outcome' \in {"none", "succeeded", "failed"}
      BY <3>1 DEF ScreenInv, ScreenTypes
    <3>3. ScreenInv /\ Event
      BY <3>1
    <3> QED
      BY <3>2, <3>3, EventScreen, Zenon
  <2> QED
    BY <1>2, <2>1, <2>2
<1> QED
  BY <1>1, <1>2 DEF Events

\* With nothing logged nothing overflows.
LEMMA FlushOfStartup ==
  ASSUME ScreenInv, startup, Flush, UNCHANGED <<startup, phase>>
  PROVE  /\ lines' = <<>> /\ archive' = <<>>
         /\ phase # "failed" /\ last = StartupRender => render' = "idle"
<1>1. lines = <<>> /\ archive = <<>> /\ Len(lines) = 0
  BY DEF ScreenInv, StartupInv
<1>2. Overflow = 0
  BY <1>1, ConstantsAssumption DEF Overflow, Height
<1>3. SubSeq(lines, Overflow + 1, Len(lines)) = <<>> /\ archive \o SubSeq(lines, 1, Overflow) = <<>>
  BY <1>1, <1>2
<1>4. lines' = <<>> /\ archive' = <<>>
  BY <1>3 DEF Flush
<1>5. ASSUME phase # "failed", last = StartupRender
      PROVE  render' = "idle"
  <2>1. ~SendsArchive(<<>>)
    BY DEF SendsArchive
  <2>2. RenderOf(startup, <<>>, phase) = last
    BY <1>5 DEF RenderOf, StartupRender, ScreenInv
  <2>3. EditOrNot(RenderOf(startup, <<>>, phase))
    BY <1>3, <2>1 DEF Flush
  <2> QED
    BY <2>2, <2>3 DEF EditOrNot
<1> QED
  BY <1>4, <1>5

LEMMA FlushDue ==
  ASSUME Flush, UNCHANGED <<startup, phase, last>>, LogTypes, Terminal
  PROVE  Due'
<1> DEFINE ls == SubSeq(lines, Overflow + 1, Len(lines))
           ar == archive \o SubSeq(lines, 1, Overflow)
<1>1. /\ lines' = ls /\ archive' = ar
      /\ IF SendsArchive(ar)
         THEN render' = "chunk" /\ rendered' = Blank
         ELSE EditOrNot(RenderOf(startup, ls, phase))
  BY DEF Flush
<1>2. Rendering' = RenderOf(startup, ls, phase)
  BY <1>1 DEF Rendering, RenderOf
<1>3. ~SendsArchive(ar) => ar = <<>>
  <2>1. ar \in Seq(Lines)
    <3>1. /\ archive \in Seq(Lines) /\ lines \in Seq(Lines) /\ Len(lines) \in Nat
      BY DEF LogTypes
    <3>2. Overflow \in 0..Len(lines)
      BY OverflowFits
    <3>3. SubSeq(lines, 1, Overflow) \in Seq(Lines)
      BY <3>1, <3>2
    <3> QED
      BY <3>1, <3>3
  <2> HIDE DEF ar
  <2>2. Len(ar) \in Nat /\ (Len(ar) = 0 => ar = <<>>)
    BY <2>1
  <2> QED
    BY <2>2 DEF SendsArchive
<1> HIDE DEF ls, ar
<1> QED
  BY <1>1, <1>2, <1>3 DEF Due, EditOrNot

LEMMA TimerFiresScreen ==
  ASSUME IndInv, TimerFires
  PROVE  ScreenInv'
<1> USE DEF IndInv, ScreenInv
<1>1. /\ timer = "set" /\ timer' = "none"
      /\ UNCHANGED <<phase, outcome, startup, thinking, message, shown, last, limited, disturbed,
                     finish, stopped>>
  BY DEF TimerFires, FlushKeeps, chatVars
<1>2. finish # "done"
  BY <1>1 DEF StopInv
<1>3. CASE Flush
  <2>1. /\ pending' = FALSE /\ message # "none" /\ render' \in {"idle", "chunk", "edit"}
        /\ ~(stopped /\ ~Terminal)
    BY <1>3 DEF Flush, MayFlush, EditOrNot
  <2>2. Terminal => Due'
    BY <1>1, <1>3, FlushDue DEF LogInv
  <2>3. startup => /\ lines' = <<>> /\ archive' = <<>>
                   /\ phase # "failed" /\ last = StartupRender => render' = "idle"
    BY <1>1, <1>3, FlushOfStartup
  <2>4. ScreenTypes' /\ StopInv' /\ MessageInv' /\ ShownInv'
    <3>1. ScreenTypes'
      BY <1>1, <2>1 DEF ScreenTypes
    <3>2. StopInv'
      BY <1>1, <1>2, <2>1 DEF StopInv
    <3>3. MessageInv' /\ ShownInv'
      BY <1>1, <2>1 DEF MessageInv, ShownInv
    <3> QED
      BY <3>1, <3>2, <3>3
  <2>5. StartupInv' /\ PlaceholderInv'
    BY <1>1, <2>3 DEF StartupInv, PlaceholderInv
  <2>6. DeletedInv'
    BY <1>1, <2>1 DEF DeletedInv
  <2>7. FinishInv'
    <3>1. Terminal' = Terminal
      BY <1>1 DEF Terminal
    <3> QED
      BY <1>1, <2>1, <2>2, <3>1 DEF FinishInv
  <2> QED
    BY <2>4, <2>5, <2>6, <2>7
<1>4. CASE NoFlush
  <2>1. UNCHANGED <<pending, lines, archive, render, rendered>>
    BY <1>4 DEF NoFlush
  <2>2. ScreenTypes' /\ StopInv' /\ MessageInv' /\ ShownInv'
    <3>1. ScreenTypes'
      <4>1. pending' \in BOOLEAN /\ render' \in {"idle", "chunk", "edit", "recreate"}
        BY <2>1 DEF ScreenTypes
      <4> QED
        BY <1>1, <4>1 DEF ScreenTypes
    <3>2. StopInv'
      BY <1>1, <1>2, <2>1 DEF StopInv
    <3>3. MessageInv' /\ ShownInv'
      BY <1>1, <2>1 DEF MessageInv, ShownInv
    <3> QED
      BY <3>1, <3>2, <3>3
  <2>3. StartupInv' /\ PlaceholderInv'
    BY <1>1, <2>1 DEF StartupInv, PlaceholderInv
  <2>4. DeletedInv' /\ FinishInv'
    BY <1>1, <2>1 DEF DeletedInv, FinishInv, Due, Rendering, Terminal
  <2> QED
    BY <2>2, <2>3, <2>4
<1> QED
  BY <1>3, <1>4 DEF TimerFires

LEMMA FlushWhenIdleScreen ==
  ASSUME IndInv, FlushWhenIdle
  PROVE  ScreenInv'
<1> USE DEF IndInv, ScreenInv
<1>1. /\ render = "idle"
      /\ \/ finish = "idle 1" /\ finish' = "flush 1"
         \/ finish = "idle 2" /\ finish' = "flush 2"
      /\ UNCHANGED <<phase, outcome, startup, thinking, message, shown, last, limited, disturbed,
                     timer, stopped>>
  BY DEF FlushWhenIdle, FlushKeeps, chatVars, Idle
<1>2. ~stopped
  BY <1>1 DEF StopInv
<1>3. finish = "idle 2" /\ ~disturbed => message = "none"
  BY DEF FinishInv
<1>4. PlaceholderInv' /\ DeletedInv'
  BY <1>1 DEF PlaceholderInv, DeletedInv
<1>5. CASE Flush
  <2>1. pending' = FALSE /\ message # "none" /\ render' \in {"idle", "chunk", "edit"}
    BY <1>5 DEF Flush, MayFlush, EditOrNot
  <2>2. Terminal => Due'
    BY <1>1, <1>5, FlushDue DEF LogInv
  <2>3. startup => lines' = <<>> /\ archive' = <<>>
    BY <1>1, <1>5, FlushOfStartup
  <2>4. ScreenTypes' /\ StopInv' /\ MessageInv' /\ ShownInv'
    BY <1>1, <1>2, <2>1 DEF ScreenTypes, StopInv, MessageInv, ShownInv
  <2>5. StartupInv'
    BY <1>1, <2>3 DEF StartupInv
  <2>6. FinishInv'
    <3>1. Terminal' = Terminal
      BY <1>1 DEF Terminal
    <3> QED
      BY <1>1, <1>3, <2>1, <2>2, <3>1 DEF FinishInv
  <2> QED
    BY <1>4, <2>4, <2>5, <2>6
<1>6. CASE NoFlush
  <2>1. UNCHANGED <<pending, lines, archive, render, rendered>> /\ ~MayFlush
    BY <1>6 DEF NoFlush
  <2>2. message # "none" => ~pending
    BY <1>1, <1>2, <2>1 DEF MayFlush
  <2>3. ScreenTypes'
    <3>1. /\ pending' \in BOOLEAN /\ render' \in {"idle", "chunk", "edit", "recreate"}
          /\ finish' \in {"flush 1", "flush 2"}
      BY <1>1, <2>1 DEF ScreenTypes
    <3> QED
      BY <1>1, <3>1 DEF ScreenTypes
  <2>4. StopInv'
    BY <1>1, <1>2 DEF StopInv
  <2>5. MessageInv' /\ ShownInv' /\ StartupInv'
    BY <1>1, <2>1 DEF MessageInv, ShownInv, StartupInv
  <2>6. FinishInv'
    BY <1>1, <1>3, <2>1, <2>2 DEF FinishInv, Due, Rendering, Terminal
  <2> QED
    BY <1>4, <2>3, <2>4, <2>5, <2>6
<1> QED
  BY <1>5, <1>6 DEF FlushWhenIdle

\* The end of a call, or of one of several, of a render.
LEMMA CallScreen ==
  ASSUME ScreenInv, RenderKeeps, render # "idle",
         render' \in {"idle", "chunk", "edit", "recreate"},
         pending' \in BOOLEAN, limited' \in BOOLEAN, timer' \in {"none", "set", "waits"},
         message' \in {"there", "gone", "none"}, message' = "none" => message = "none",
         disturbed' \in BOOLEAN, disturbed => disturbed',
         archive = <<>> => archive' = <<>>,
         ShownInv', FinishInv'
  PROVE  ScreenInv'
<1> USE DEF ScreenInv
<1>1. UNCHANGED <<phase, outcome, startup, lines, thinking, finish, stopped>>
  BY DEF RenderKeeps
<1>2. ScreenTypes'
  BY <1>1 DEF ScreenTypes
<1>3. StopInv' /\ MessageInv' /\ StartupInv'
  BY <1>1 DEF StopInv, MessageInv, StartupInv
<1>4. PlaceholderInv'
  BY <1>1 DEF PlaceholderInv, MessageInv
<1>5. DeletedInv'
  BY <1>1 DEF PlaceholderInv, DeletedInv
<1> QED
  BY <1>2, <1>3, <1>4, <1>5

LEMMA RenderEndsTypes ==
  ASSUME ScreenTypes, NEW again \in BOOLEAN, NEW lim \in BOOLEAN, RenderEnds(again, lim)
  PROVE  /\ render' = "idle" /\ pending' \in BOOLEAN /\ limited' \in BOOLEAN
         /\ timer' \in {"none", "set", "waits"}
         /\ pending => pending'
         /\ ~again => pending' = pending
<1>1. pending \in BOOLEAN /\ limited \in BOOLEAN /\ timer \in {"none", "set", "waits"}
  BY DEF ScreenTypes
<1>2. /\ render' = "idle" /\ pending' = (pending \/ again) /\ limited' = (limited \/ lim)
      /\ timer' \in {"waits", "set", timer}
  BY DEF RenderEnds
<1> QED
  BY <1>1, <1>2

LEMMA ChunkSentScreen ==
  ASSUME ScreenInv, ChunkSent
  PROVE  ScreenInv'
<1> USE DEF ScreenInv
<1>1. /\ render = "chunk" /\ RenderKeeps /\ UNCHANGED <<message, shown, last, disturbed>>
      /\ archive' = AfterChunk
      /\ \/ UNCHANGED <<render, rendered, pending, timer, limited>>
         \/ archive' = <<>> /\ Rendering = last /\ RenderEnds(FALSE, FALSE)
         \/ archive' = <<>> /\ render' = "edit" /\ rendered' = Rendering /\ UNCHANGED <<pending, timer, limited>>
  BY DEF ChunkSent
<1>2. archive = <<>> => archive' = <<>>
  <2> SUFFICES ASSUME archive = <<>>
               PROVE  archive' = <<>>
    OBVIOUS
  <2>1. Len(archive) = 0 /\ ChunkSize = 0
    BY ConstantsAssumption DEF ChunkSize
  <2> QED
    BY <1>1, <2>1 DEF AfterChunk
<1>3. /\ render' \in {"idle", "chunk", "edit", "recreate"} /\ pending' \in BOOLEAN
      /\ limited' \in BOOLEAN /\ timer' \in {"none", "set", "waits"} /\ pending' = pending
  BY <1>1, RenderEndsTypes DEF ScreenTypes
<1>4. Rendering' = Rendering /\ finish' = finish
  BY <1>1 DEF RenderKeeps, Rendering, RenderOf
<1>5. ShownInv' /\ message' \in {"there", "gone", "none"} /\ disturbed' \in BOOLEAN
  BY <1>1 DEF ShownInv, ScreenTypes
<1>6. Due'
  BY <1>1, <1>4, RenderEndsTypes DEF Due
<1>7. FinishInv'
  BY <1>1, <1>3, <1>4, <1>6 DEF FinishInv, Terminal, RenderKeeps
<1> QED
  BY <1>1, <1>2, <1>3, <1>5, <1>7, CallScreen

\* A call that fails while finish is under way disturbs it.
LEMMA FailedScreen ==
  ASSUME ScreenInv, ChunkFails \/ EditLimited \/ RecreateFails
  PROVE  ScreenInv'
<1> USE DEF ScreenInv
<1>1. /\ render # "idle" /\ RenderKeeps /\ disturbed' = (disturbed \/ finish # "no")
      /\ UNCHANGED <<archive, message, shown, last>>
  BY DEF ChunkFails, EditLimited, RecreateFails, Fault, chatVars
<1>2. \E again, lim \in BOOLEAN : RenderEnds(again, lim)
  BY DEF ChunkFails, EditLimited, RecreateFails
<1>3. /\ render' = "idle" /\ pending' \in BOOLEAN /\ limited' \in BOOLEAN
      /\ timer' \in {"none", "set", "waits"}
  BY <1>2, RenderEndsTypes
<1>4. disturbed' \in BOOLEAN /\ (disturbed' <=> disturbed \/ finish # "no") /\ finish' = finish
  BY <1>1 DEF RenderKeeps
<1>5. ShownInv' /\ FinishInv'
  BY <1>1, <1>4 DEF ShownInv, FinishInv
<1>6. message' \in {"there", "gone", "none"} /\ (message' = "none" => message = "none")
  BY <1>1 DEF ScreenTypes
<1> QED
  BY <1>1, <1>3, <1>4, <1>5, <1>6, CallScreen

LEMMA EditFailsScreen ==
  ASSUME ScreenInv, EditFails
  PROVE  ScreenInv'
<1> USE DEF ScreenInv
<1>1. /\ render # "idle" /\ RenderKeeps
      /\ \/ shown' = shown /\ disturbed' = (disturbed \/ finish # "no")
         \/ disturbed' = TRUE
      /\ RenderEnds(archive # <<>>, FALSE)
      /\ UNCHANGED <<archive, message, last>>
  BY DEF EditFails
<1>2. /\ render' = "idle" /\ pending' \in BOOLEAN /\ limited' \in BOOLEAN
      /\ timer' \in {"none", "set", "waits"}
  <2>1. (archive # <<>>) \in BOOLEAN
    OBVIOUS
  <2> QED
    BY <1>1, <2>1, RenderEndsTypes
<1>3. /\ disturbed' \in BOOLEAN /\ (disturbed \/ finish # "no" => disturbed') /\ finish' = finish
      /\ disturbed' \/ shown' = shown
  BY <1>1 DEF RenderKeeps
<1>4. ShownInv' /\ FinishInv'
  BY <1>1, <1>3 DEF ShownInv, FinishInv
<1>5. message' \in {"there", "gone", "none"} /\ (message' = "none" => message = "none")
  BY <1>1 DEF ScreenTypes
<1> QED
  BY <1>1, <1>2, <1>3, <1>4, <1>5, CallScreen

LEMMA EditDoneScreen ==
  ASSUME ScreenInv, EditDone \/ Recreated
  PROVE  ScreenInv'
<1> USE DEF ScreenInv
<1>1. /\ render \in {"edit", "recreate"} /\ RenderKeeps /\ RenderEnds(FALSE, FALSE)
      /\ shown' = rendered /\ last' = rendered /\ message' = "there"
      /\ UNCHANGED <<archive, disturbed>>
  BY DEF EditDone, Recreated
<1>2. /\ render' = "idle" /\ pending' \in BOOLEAN /\ limited' \in BOOLEAN
      /\ timer' \in {"none", "set", "waits"} /\ pending' = pending
  BY <1>1, RenderEndsTypes
<1>3. Rendering' = Rendering /\ finish' = finish
  BY <1>1 DEF RenderKeeps, Rendering, RenderOf
<1>4. ShownInv' /\ disturbed' \in BOOLEAN
  BY <1>1 DEF ShownInv, ScreenTypes
<1>5. ~disturbed => finish # "deleted" /\ message # "none"
  BY <1>1 DEF MessageInv, DeletedInv
<1>6. Due => Due'
  BY <1>1, <1>2, <1>3 DEF Due
<1>7. FinishInv'
  BY <1>1, <1>2, <1>3, <1>5, <1>6 DEF FinishInv, Terminal, RenderKeeps
<1> QED
  BY <1>1, <1>2, <1>4, <1>7, CallScreen

LEMMA EditGoneScreen ==
  ASSUME ScreenInv, EditGone
  PROVE  ScreenInv'
<1> USE DEF ScreenInv
<1>1. /\ render = "edit" /\ render' = "recreate" /\ RenderKeeps
      /\ UNCHANGED <<rendered, pending, timer, limited, archive, message, shown, last, disturbed>>
  BY DEF EditGone, chatVars
<1>2. Rendering' = Rendering /\ finish' = finish
  BY <1>1 DEF RenderKeeps, Rendering, RenderOf
<1>3. ShownInv' /\ FinishInv'
  BY <1>1, <1>2 DEF ShownInv, FinishInv, Due, Terminal, RenderKeeps
<1> QED
  BY <1>1, <1>3, CallScreen DEF ScreenTypes

LEMMA FinishScreen ==
  ASSUME ScreenInv, NEW ph \in {"succeeded", "failed"}, Finish(ph)
  PROVE  ScreenInv'
<1> USE DEF ScreenInv
<1>1. /\ finish = "no" /\ ~stopped /\ phase' = ph /\ (ph = "succeeded" => outcome # "failed")
      /\ UNCHANGED <<outcome, startup, lines, archive, thinking, message, shown, last, limited,
                     render, rendered, stopped, disturbed>>
  BY DEF Finish, chatVars
<1>2. \/ StartupOnly /\ finish' = "delete" /\ UNCHANGED <<pending, timer>>
      \/ finish' = "idle 1" /\ pending' = TRUE /\ timer' \in {timer, "waits", "set"}
  BY DEF Finish, ScheduleRender
<1>3. StartupOnly => ph = "succeeded" /\ startup /\ message # "none"
  BY <1>1 DEF StartupOnly
<1>4. ScreenTypes' /\ StopInv' /\ MessageInv' /\ ShownInv' /\ StartupInv'
  <2>1. ScreenTypes'
    BY <1>1, <1>2 DEF ScreenTypes
  <2>2. StopInv' /\ MessageInv' /\ ShownInv' /\ StartupInv'
    BY <1>1, <1>2 DEF StopInv, MessageInv, ShownInv, StartupInv
  <2> QED
    BY <2>1, <2>2
<1>5. PlaceholderInv' /\ DeletedInv'
  BY <1>1, <1>2, <1>3 DEF PlaceholderInv, DeletedInv
<1>6. FinishInv'
  BY <1>1, <1>2 DEF FinishInv, Terminal
<1> QED
  BY <1>4, <1>5, <1>6

LEMMA DeleteEndsScreen ==
  ASSUME ScreenInv, DeleteEnds
  PROVE  ScreenInv'
<1> USE DEF ScreenInv
<1>1. /\ finish = "delete" /\ finish' = "deleted" /\ message' = "none"
      /\ pending' = FALSE /\ stopped' = TRUE /\ timer' = "none"
      /\ UNCHANGED <<phase, outcome, startup, lines, archive, thinking, limited, render, rendered,
                     disturbed>>
  BY DEF DeleteEnds, logVars
<1>2. ~disturbed => render = "idle"
  BY <1>1 DEF DeletedInv, PlaceholderInv
<1>3. ScreenTypes' /\ StopInv' /\ MessageInv' /\ ShownInv'
  BY <1>1 DEF ScreenTypes, StopInv, MessageInv, ShownInv
<1>4. StartupInv' /\ PlaceholderInv' /\ DeletedInv' /\ FinishInv'
  BY <1>1, <1>2 DEF StartupInv, PlaceholderInv, DeletedInv, FinishInv
<1> QED
  BY <1>3, <1>4

LEMMA FinishGoesOnScreen ==
  ASSUME ScreenInv, FinishGoesOn \/ LimitAwaited
  PROVE  ScreenInv'
<1> USE DEF ScreenInv
<1>1. UNCHANGED <<phase, outcome, startup, lines, archive, thinking, message, shown, last,
                  pending, limited, render, rendered, disturbed>>
  BY DEF FinishGoesOn, LimitAwaited, logVars, chatVars
<1>2. \/ finish = "flush 1" /\ render = "idle" /\ pending /\ finish' = "limit"
         /\ UNCHANGED <<stopped, timer>>
      \/ finish \in {"flush 1", "flush 2"} /\ render = "idle"
         /\ finish' = "done" /\ stopped' = TRUE /\ timer' = "none"
      \/ finish = "limit" /\ finish' = "idle 2" /\ UNCHANGED <<stopped, timer>>
  BY DEF FinishGoesOn, FinishContinues, LimitAwaited
<1>3. ScreenTypes'
  <2>1. finish' \in {"limit", "idle 2", "done"}
    BY <1>2
  <2>2. stopped' \in BOOLEAN /\ timer' \in {"none", "set", "waits"}
    BY <1>2 DEF ScreenTypes
  <2> QED
    BY <1>1, <2>1, <2>2 DEF ScreenTypes
<1>4. StopInv'
  <2>1. ~stopped
    BY <1>2 DEF StopInv
  <2>2. CASE finish' = "done"
    BY <1>1, <1>2, <2>2 DEF StopInv
  <2>3. CASE finish' # "done"
    <3>1. finish' \in {"limit", "idle 2"}
      BY <1>2, <2>3
    <3>2. ~stopped'
      <4>1. stopped' = stopped
        BY <1>2, <2>3
      <4> QED
        BY <2>1, <4>1, Zenon
    <3> QED
      BY <3>1, <3>2 DEF StopInv
  <2> QED
    BY <2>2, <2>3
<1>5. MessageInv'
  BY <1>1, <1>2 DEF MessageInv
<1>6. ShownInv'
  BY <1>1 DEF ShownInv
<1>7. StartupInv' /\ PlaceholderInv' /\ DeletedInv'
  BY <1>1, <1>2 DEF StartupInv, PlaceholderInv, DeletedInv
<1>8. FinishInv'
  BY <1>1, <1>2 DEF FinishInv, Due, Rendering, Terminal
<1> QED
  BY <1>3, <1>4, <1>5, <1>6, <1>7, <1>8

LEMMA OtherScreen ==
  ASSUME ScreenInv, Dispose \/ LimitPasses \/ UserDeletes \/ UNCHANGED vars
  PROVE  ScreenInv'
<1> USE DEF ScreenInv
<1>1. UNCHANGED <<phase, outcome, startup, lines, archive, thinking, last, pending,
                  render, rendered, finish, disturbed>>
  BY DEF Dispose, LimitPasses, UserDeletes, vars, logVars, chatVars
<1>2. \/ message' = message /\ shown' = shown
      \/ message = "there" /\ message' = "gone" /\ shown' = Blank
  BY DEF Dispose, LimitPasses, UserDeletes, vars, logVars, chatVars
<1>3. \/ stopped' = stopped /\ timer' = timer /\ limited' = limited
      \/ finish = "no" /\ stopped' = TRUE /\ timer' = "none" /\ limited' = limited
      \/ stopped' = stopped /\ limited' = FALSE /\ timer' = timer
      \/ stopped' = stopped /\ limited' = FALSE /\ timer = "waits" /\ timer' = "set"
  BY DEF Dispose, LimitPasses, UserDeletes, vars, logVars, chatVars
<1>4. ScreenTypes'
  <2>1. stopped' \in BOOLEAN /\ limited' \in BOOLEAN /\ timer' \in {"none", "set", "waits"}
    BY <1>3 DEF ScreenTypes
  <2> QED
    BY <1>1, <1>2, <2>1 DEF ScreenTypes, Blank, Renders
<1>5. StopInv'
  BY <1>1, <1>3 DEF StopInv
<1>6. MessageInv' /\ ShownInv' /\ StartupInv'
  BY <1>1, <1>2 DEF MessageInv, ShownInv, StartupInv
<1>7. PlaceholderInv' /\ DeletedInv'
  BY <1>1, <1>2, <1>3 DEF PlaceholderInv, DeletedInv
<1>8. FinishInv'
  BY <1>1, <1>2 DEF FinishInv, Due, Rendering, Terminal
<1> QED
  BY <1>4, <1>5, <1>6, <1>7, <1>8

LEMMA ScreenStep ==
  ASSUME IndInv, [Next]_vars
  PROVE  ScreenInv'
<1> USE DEF IndInv
<1>1. CASE Events
  BY <1>1, EventsScreen
<1>2. CASE TimerFires
  BY <1>2, TimerFiresScreen
<1>3. CASE CallEnds
  BY <1>3, ChunkSentScreen, FailedScreen, EditFailsScreen, EditDoneScreen, EditGoneScreen
     DEF CallEnds
<1>4. CASE Finishes
  BY <1>4, FinishScreen, DeleteEndsScreen, FlushWhenIdleScreen, FinishGoesOnScreen, OtherScreen
     DEF Finishes
<1>5. CASE LimitPasses \/ UserDeletes \/ UNCHANGED vars
  BY <1>5, OtherScreen
<1> QED
  BY <1>1, <1>2, <1>3, <1>4, <1>5 DEF Next

--------------------------------------------------------------------------------
\* The theorems.

\* IndInv is inductive.
THEOREM InductiveInvariant == Spec => []IndInv
<1>1. Init => IndInv
  BY LogInit, ScreenInit DEF IndInv
<1>2. IndInv /\ [Next]_vars => IndInv'
  BY LogStep, ScreenStep DEF IndInv
<1> QED
  BY <1>1, <1>2, PTL DEF Spec

\* A tool call that ends finds its own line, whatever was archived since it began
\* (shiftTrackedToolLineIndexes).
THEOREM CallsKnowTheirLines == Spec => []ToolsKnowTheirLines
<1>1. IndInv => ToolsKnowTheirLines
  BY DEF IndInv, LogInv, KnowLines, ToolsKnowTheirLines
<1> QED
  BY <1>1, InductiveInvariant, PTL

\* No line is lost on its way to the archive messages, for any limits and failures: none is
\* left out of the chat, and lines are sent again only after an archive message whose answer
\* was lost (archiveOverflowEventLogLines, flushPendingArchiveLines).
THEOREM LinesArrive == Spec => []NoLineLost
<1>1. ASSUME IndInv
      PROVE  NoLineLost
  <2> DEFINE rest == archive \o lines
  <2>1. LogInv /\ ScreenInv
    BY <1>1 DEF IndInv
  <2>2. /\ archive \in Seq(Lines) /\ lines \in Seq(Lines) /\ added \in Nat /\ Gone \in Nat
        /\ Len(archive) \in Nat /\ Len(lines) \in Nat /\ Before = Gone + Len(archive)
        /\ Len(archive) + Len(lines) <= added
    BY <2>1, LogNumbers DEF LogInv, LogTypes, NumbersInv
  <2>3. /\ Len(rest) = Len(archive) + Len(lines)
        /\ \A i \in 1..Len(archive) : rest[i] = archive[i]
        /\ \A i \in 1..Len(lines) : rest[Len(archive) + i] = lines[i]
    BY <2>2
  <2> HIDE DEF rest
  <2>4. Len(rest) <= added /\ added - Len(rest) = Gone
    BY <2>2, <2>3 DEF Gone
  <2>5. ASSUME NEW i \in 1..Len(rest)
        PROVE  rest[i].no = Gone + i
    <3>1. CASE i \in 1..Len(archive)
      BY <2>1, <2>3, <3>1 DEF LogInv, NumbersInv, After
    <3>2. CASE i \notin 1..Len(archive)
      <4>1. PICK j \in 1..Len(lines) : i = Len(archive) + j
        <5>1. i - Len(archive) \in 1..Len(lines) /\ i = Len(archive) + (i - Len(archive))
          BY <2>2, <2>3, <3>2
        <5> QED
          BY <5>1
      <4>2. lines[j].no = Before + j
        BY <2>1, <4>1 DEF LogInv, NumbersInv, After
      <4> QED
        BY <2>2, <2>3, <4>1, <4>2
    <3> QED
      BY <3>1, <3>2
  <2>6. Cardinality(StepsBack(sent)) <= lost
    <3>1. /\ Cardinality(StepsBack(sent)) + (IF Top(sent) > Gone THEN 1 ELSE 0) <= lost
          /\ lost \in Nat /\ Cardinality(StepsBack(sent)) \in Nat
      BY <2>1, StepsCounted DEF LogInv, LogTypes, SentInv
    <3> QED
      BY <3>1
  <2>7. finish = "done" /\ ~disturbed => archive = <<>>
    BY <2>1 DEF ScreenInv, StopInv, MessageInv, FinishInv, Due
  <2>8. /\ \A n \in 1..Gone : \E i \in 1..Len(sent) : sent[i] = n
        /\ \A i \in 1..Len(sent) : sent[i] <= LineBefore(sent, i) + 1
    BY <2>1 DEF LogInv, SentInv
  <2> QED
    BY <2>4, <2>5, <2>6, <2>7, <2>8 DEF NoLineLost, rest
<1> QED
  BY <1>1, InductiveInvariant, PTL

\* A finish that nothing disturbs leaves the outcome and the log on the screen, whatever
\* render was in flight or delayed when it began (finish, flushRender).
THEOREM OutcomeIsShown == Spec => []FinalRenderShown
<1>1. IndInv => FinalRenderShown
  BY DEF IndInv, ScreenInv, StopInv, ShownInv, FinishInv, Due, FinalRenderShown
<1> QED
  BY <1>1, InductiveInvariant, PTL

\* No render comes after the deletion of a placeholder (deleteProgressMessage).
THEOREM PlaceholderStaysDeleted == Spec => []DeletedStaysDeleted
<1>1. IndInv => DeletedStaysDeleted
  BY DEF IndInv, ScreenInv, DeletedInv, DeletedStaysDeleted
<1> QED
  BY <1>1, InductiveInvariant, PTL

================================================================================
