---------------------------- MODULE ProgressReporter ----------------------------
(***************************************************************************)
(* The progress message of one run (TelegramRunProgressReporter) and the log *)
(* it shows (TelegramProgressLog): events of the run add and replace lines,  *)
(* renders edit the message one at a time, behind a timer and rate limits,   *)
(* lines that no longer fit go into messages of their own, and finish shows  *)
(* the outcome or deletes a message that never showed anything.              *)
(*                                                                          *)
(* Lengths are counted in lines.  A line has a number, in the order lines    *)
(* are added, the tool call it belongs to (or Thinking) and a version of its *)
(* text: 0 and 1 for a call that has started and ended, and for thinking the *)
(* number of its last delta.  A render is what buildProgressLines returns.   *)
(* Intervals between edits and between thinking lines pass at any time; rate *)
(* limits are kept.  The typing indicator shares nothing with the rest.      *)
(***************************************************************************)
EXTENDS Naturals, Sequences, FiniteSets

CONSTANTS
  Calls,            \* tool calls
  Label,            \* the text of each call's line
  Thinking,         \* the owner of thinking lines
  Limit,            \* messageLimit: lines of the progress message
  ChunkLines,       \* lines of one archive message
  ArchiveMin,       \* archiveFlushMinChars
  MaxInputs, MaxFaults  \* bounds: thinking deltas and calls that start, and faults

ASSUME ConstantsAssumption ==
  /\ Label \in [Calls -> STRING] /\ Thinking \notin Calls
  /\ Limit \in Nat \ {0} /\ ChunkLines \in Nat \ {0} /\ ArchiveMin \in Nat
  /\ MaxInputs \in Nat /\ MaxFaults \in Nat

VARIABLES
  phase,        \* "running" (or queued), "succeeded", "failed"
  outcome,      \* the outcome of the run that an event told, or "none"
  \* the log
  startup,      \* showStartupLine
  lines,        \* eventLogLines
  archive,      \* pendingArchiveLines
  tools,        \* toolProgressByCallId: calls to line indexes; 0 stands for null
  thinking,     \* hasPendingThinkingPreview, a preview, forceAppendNextThinkingLine
  \* the renders
  message,      \* the progress message: "there", "gone" (deleted by the user), "none"
  last,         \* lastRenderedText
  pending,      \* pendingRender
  timer,        \* renderTimer: "none", "set", "waits" (for the rate limit to pass)
  limited,      \* now < nextEditAllowedAt
  render,       \* renderInFlight: "idle", or the call flushRender awaits, "chunk",
                \* "edit" or "recreate"
  rendered,     \* the render that call sends
  finish,       \* finish: "no", what it awaits ("delete", "idle 1", "flush 1",
                \* "limit", "idle 2", "flush 2"), or how it ended: "done", "deleted"
  stopped,
  \* the chat, and history
  shown,        \* what the progress message says, Blank when the user has deleted it
  sent,         \* the lines sent in archive messages, by their numbers
  lost,         \* archive messages that were sent, and answered with an error
  added,        \* lines added to the log
  calls,        \* [Calls -> "no", "begun", "ended"]
  deltas, faults,   \* how many
  disturbed     \* since finish began an event came or a call to the Bot API failed,
                \* or at any time an edit was made that was answered with an error

logVars == <<startup, lines, archive, tools, thinking, added>>
chatVars == <<message, shown, sent, lost>>
vars == <<phase, outcome, logVars, chatVars, last, pending, timer, limited, render, rendered,
          finish, stopped, calls, deltas, faults, disturbed>>

NoThinking == [pending |-> FALSE, open |-> FALSE, force |-> FALSE]
NoTools == [c \in {} |-> 0]
Blank == [startup |-> FALSE, lines |-> <<>>, failed |-> FALSE]

\* buildProgressLines.
RenderOf(st, ls, ph) == [startup |-> st, lines |-> ls, failed |-> ph = "failed"]
Rendering == RenderOf(startup, lines, phase)

\* start has sent the first message, or failed to; then the reporter subscribes.
Init ==
  /\ phase = "running" /\ outcome = "none"
  /\ startup = TRUE /\ lines = <<>> /\ archive = <<>>
  /\ tools = NoTools /\ thinking = NoThinking
  /\ message \in {"there", "none"}
  /\ last = IF message = "there" THEN RenderOf(TRUE, <<>>, "running") ELSE Blank
  /\ shown = last
  /\ pending = FALSE /\ timer = "none" /\ limited = FALSE
  /\ render = "idle" /\ rendered = Blank
  /\ finish = "no" /\ stopped = FALSE
  /\ sent = <<>> /\ lost = 0 /\ added = 0 /\ deltas = 0 /\ faults = 0
  /\ calls = [c \in Calls |-> "no"] /\ disturbed = FALSE

--------------------------------------------------------------------------------
\* scheduleRender.  A timer that is set is left alone.
ScheduleRender ==
  /\ pending' = TRUE
  /\ timer' = IF render # "idle" \/ timer # "none" THEN timer
              ELSE IF limited THEN "waits" ELSE "set"

--------------------------------------------------------------------------------
\* The log.

Text(l) == IF l.of = Thinking THEN <<l.of, l.text>> ELSE <<Label[l.of], l.text>>

\* appendEventLogLine does not repeat the text of the last line.
Repeats(ls, l) == Len(ls) > 0 /\ Text(ls[Len(ls)]) = Text(l)

\* flushThinkingPreviewToLog on lines: the preview, if it is not in the log yet,
\* replaces the last line when that is a thinking line of the same segment.
Replaces(th, ls) == ~th.force /\ Len(ls) > 0 /\ ls[Len(ls)].of = Thinking
Flushed(th, ls) ==
  IF ~th.pending THEN ls
  ELSE IF Replaces(th, ls) THEN [ls EXCEPT ![Len(ls)].text = deltas]
  ELSE Append(ls, [no |-> added + 1, of |-> Thinking, text |-> deltas])
AddedBy(th, ls) == IF th.pending /\ ~Replaces(th, ls) THEN added + 1 ELSE added

\* markThinkingSegmentBoundary, which closeThinkingSegmentIfNeeded calls when there is
\* a preview; every event but a thinking delta begins with it.
Boundary == [pending |-> FALSE, open |-> FALSE, force |-> TRUE]
Closed(th) == IF th.pending \/ th.open THEN Boundary ELSE th

\* finish goes on before any other handler when the flush it awaits is over.
FinishContinues == finish \in {"flush 1", "flush 2"} /\ render = "idle"

MoreInputs == deltas + Cardinality({c \in Calls : calls[c] # "no"}) < MaxInputs

\* What onProgress does for every event.
Event ==
  /\ ~stopped /\ ~FinishContinues
  /\ ScheduleRender
  /\ disturbed' = (disturbed \/ finish # "no")
  /\ UNCHANGED <<archive, chatVars, last, limited, render, rendered, finish, stopped, faults>>

\* Events that add nothing; agent_end keeps an outcome, and forgets the tool calls.
PlainEvent ==
  /\ Event
  /\ lines' = Flushed(thinking, lines) /\ added' = AddedBy(thinking, lines)
  /\ thinking' = Closed(thinking)
  /\ \/ phase' = "running" /\ tools' = tools
     \/ phase' = phase /\ tools' = NoTools
  /\ UNCHANGED <<outcome, startup, calls, deltas>>

\* The run's outcome, as an event.
TerminalEvent ==
  /\ Event
  /\ outcome = "none" /\ outcome' \in {"succeeded", "failed"}
  /\ phase' = outcome'
  /\ lines' = Flushed(thinking, lines) /\ added' = AddedBy(thinking, lines)
  /\ thinking' = Closed(thinking) /\ tools' = NoTools
  /\ UNCHANGED <<startup, calls, deltas>>

\* onThinkingDelta: of another content part (a segment of its own) or of the same; the
\* preview goes into the log when the last time is long enough ago.
ThinkingDelta ==
  /\ Event
  /\ MoreInputs /\ deltas' = deltas + 1
  /\ startup' = FALSE
  /\ \E otherPart, elapsed \in BOOLEAN :
       LET part == IF otherPart THEN Boundary ELSE thinking
           before == IF otherPart THEN Flushed(thinking, lines) ELSE lines
           count == IF otherPart THEN AddedBy(thinking, lines) ELSE added
           line == [no |-> count + 1, of |-> Thinking, text |-> deltas + 1]
       IN
       /\ otherPart => thinking.open
       /\ thinking' = [pending |-> ~elapsed, open |-> TRUE, force |-> part.force /\ ~elapsed]
       /\ IF ~elapsed
          THEN lines' = before /\ added' = count
          ELSE IF Replaces(part, before)
          THEN lines' = [before EXCEPT ![Len(before)].text = deltas + 1] /\ added' = count
          ELSE lines' = Append(before, line) /\ added' = count + 1
  /\ phase' = "running" /\ UNCHANGED <<outcome, tools, calls>>

ToolStart(c) ==
  LET ls == Flushed(thinking, lines)
      n == AddedBy(thinking, lines)
      l == [no |-> n + 1, of |-> c, text |-> 0] IN
  /\ Event
  /\ MoreInputs
  /\ calls[c] = "no" /\ calls' = [calls EXCEPT ![c] = "begun"]
  /\ startup' = FALSE /\ thinking' = Closed(thinking)
  /\ IF Repeats(ls, l)
     THEN lines' = ls /\ added' = n
     ELSE lines' = Append(ls, l) /\ added' = n + 1
  /\ tools' = [d \in DOMAIN tools \cup {c} |->
                 IF d # c THEN tools[d] ELSE IF Repeats(ls, l) THEN 0 ELSE Len(ls) + 1]
  /\ phase' = "running" /\ UNCHANGED <<outcome, deltas>>

\* onToolExecutionEnd: the call's own line is replaced; without one a line is added.
ToolEnd(c) ==
  LET ls == Flushed(thinking, lines)
      n == AddedBy(thinking, lines)
      l == [no |-> n + 1, of |-> c, text |-> 1]
      i == IF c \in DOMAIN tools THEN tools[c] ELSE 0 IN
  /\ Event
  /\ calls[c] = "begun" /\ calls' = [calls EXCEPT ![c] = "ended"]
  /\ startup' = FALSE /\ thinking' = Closed(thinking)
  /\ tools' = [d \in DOMAIN tools \ {c} |-> tools[d]]
  /\ IF i > 0
     THEN lines' = [ls EXCEPT ![i].text = 1] /\ added' = n
     ELSE \E sameDuration \in BOOLEAN :
            IF sameDuration /\ Repeats(ls, l)
            THEN lines' = ls /\ added' = n
            ELSE lines' = Append(ls, l) /\ added' = n + 1
  /\ phase' = "running" /\ UNCHANGED <<outcome, deltas>>

--------------------------------------------------------------------------------
\* Renders (flushRender).

Terminal == phase \in {"succeeded", "failed"}

\* archiveOverflowEventLogLines: how many of the oldest lines go, for the rest to fit.
Height == Len(lines) + (IF startup THEN 1 ELSE 0) + (IF phase = "failed" THEN 1 ELSE 0)
Overflow == IF Height <= Limit THEN 0
            ELSE IF Height - Limit < Len(lines) THEN Height - Limit ELSE Len(lines)

\* Mutant of Shifted: the indexes stay.
NotShifted(index, n) == index

\* shiftTrackedToolLineIndexes.
Shifted(index, n) == IF index > n THEN index - n ELSE 0

SendsArchive(ar) == Len(ar) > 0 /\ (Terminal \/ Len(ar) >= ArchiveMin)

MayFlush == /\ ~(stopped /\ ~Terminal)
            /\ render = "idle" /\ pending /\ message # "none"

\* The edit, unless the message says that already.
EditOrNot(r) ==
  IF r = last
  THEN render' = "idle" /\ rendered' = Blank
  ELSE render' = "edit" /\ rendered' = r

\* flushRender up to its first await, or to its end when it sends nothing.
Flush ==
  LET n == Overflow
      ls == SubSeq(lines, n + 1, Len(lines))
      ar == archive \o SubSeq(lines, 1, n) IN
  /\ MayFlush
  /\ pending' = FALSE
  /\ lines' = ls /\ archive' = ar
  /\ tools' = [c \in DOMAIN tools |-> Shifted(tools[c], n)]
  /\ IF SendsArchive(ar)
     THEN render' = "chunk" /\ rendered' = Blank
     ELSE EditOrNot(RenderOf(startup, ls, phase))
NoFlush == ~MayFlush /\ UNCHANGED <<pending, lines, archive, tools, render, rendered>>

FlushKeeps == UNCHANGED <<phase, outcome, startup, thinking, added, chatVars, last, limited, calls,
                          deltas, faults, disturbed>>

TimerFires ==
  /\ timer = "set" /\ ~FinishContinues
  /\ timer' = "none"
  /\ Flush \/ NoFlush
  /\ FlushKeeps /\ UNCHANGED <<finish, stopped>>

\* The finally block: again says that the render is to be repeated, lim that Telegram
\* has just set a rate limit.
RenderEnds(again, lim) ==
  LET wanted == pending \/ again IN
  /\ render' = "idle" /\ rendered' = Blank
  /\ pending' = wanted /\ limited' = (limited \/ lim)
  /\ timer' = IF wanted /\ ~stopped /\ timer = "none"
              THEN IF limited' THEN "waits" ELSE "set"
              ELSE IF lim /\ timer = "waits" THEN "set" ELSE timer

RenderKeeps == UNCHANGED <<phase, outcome, startup, lines, tools, thinking, added, finish, stopped,
                           calls, deltas>>

\* The first chunk of chunkArchiveLines; the first n of the archive, by their numbers.
ChunkSize == IF Len(archive) < ChunkLines THEN Len(archive) ELSE ChunkLines
AfterChunk == SubSeq(archive, ChunkSize + 1, Len(archive))
FirstNumbers(n) == [i \in 1..n |-> archive[i].no]

\* flushPendingArchiveLines: a chunk is sent; after the last one comes the edit.
ChunkSent ==
  /\ render = "chunk"
  /\ sent' = sent \o FirstNumbers(ChunkSize) /\ archive' = AfterChunk
  /\ IF archive' # <<>>
     THEN UNCHANGED <<render, rendered, pending, timer, limited>>
     ELSE IF Rendering = last
     THEN RenderEnds(FALSE, FALSE)
     ELSE render' = "edit" /\ rendered' = Rendering /\ UNCHANGED <<pending, timer, limited>>
  /\ UNCHANGED <<message, shown, lost, last, faults, disturbed>> /\ RenderKeeps

Fault == /\ faults < MaxFaults /\ faults' = faults + 1
         /\ disturbed' = (disturbed \/ finish # "no")

\* Mutant of ChunkFails: the lines are taken off before they are sent.
ChunkFailsSpliced ==
  /\ render = "chunk" /\ Fault
  /\ \E lim \in BOOLEAN : RenderEnds(TRUE, lim)
  /\ archive' = AfterChunk
  /\ UNCHANGED <<chatVars, last>> /\ RenderKeeps

\* A chunk fails: a rate limit (after three attempts) or another error, with which it may
\* have been sent all the same.  Its lines stay in the archive.
ChunkFails ==
  /\ render = "chunk" /\ Fault
  /\ \/ /\ \E lim \in BOOLEAN : RenderEnds(TRUE, lim)
        /\ UNCHANGED <<sent, lost>>
     \/ /\ RenderEnds(TRUE, FALSE)
        /\ sent' = sent \o FirstNumbers(ChunkSize) /\ lost' = lost + 1
  /\ UNCHANGED <<archive, message, shown, last>> /\ RenderKeeps

\* The edit is made, or Telegram says that nothing would change.
EditDone ==
  /\ render = "edit" /\ message = "there"
  /\ shown' = rendered /\ last' = rendered
  /\ RenderEnds(FALSE, FALSE)
  /\ UNCHANGED <<archive, message, sent, lost, faults, disturbed>> /\ RenderKeeps

EditGone ==
  /\ render = "edit" /\ message # "there"
  /\ render' = "recreate"
  /\ UNCHANGED <<rendered, pending, timer, limited, archive, chatVars, last, faults, disturbed>>
  /\ RenderKeeps

EditLimited ==
  /\ render = "edit" /\ Fault
  /\ RenderEnds(TRUE, TRUE)
  /\ UNCHANGED <<archive, chatVars, last>> /\ RenderKeeps

\* Any other error; the edit may have been made all the same.
EditFails ==
  /\ render = "edit" /\ faults < MaxFaults /\ faults' = faults + 1
  /\ \/ shown' = shown /\ disturbed' = (disturbed \/ finish # "no")
     \/ message = "there" /\ shown' = rendered /\ disturbed' = TRUE
  /\ RenderEnds(archive # <<>>, FALSE)
  /\ UNCHANGED <<archive, message, sent, lost, last>> /\ RenderKeeps

\* recreateProgressMessage.
Recreated ==
  /\ render = "recreate"
  /\ message' = "there" /\ shown' = rendered /\ last' = rendered
  /\ RenderEnds(FALSE, FALSE)
  /\ UNCHANGED <<archive, sent, lost, faults, disturbed>> /\ RenderKeeps

RecreateFails ==
  /\ render = "recreate" /\ Fault
  /\ RenderEnds(FALSE, FALSE)
  /\ UNCHANGED <<archive, chatVars, last>> /\ RenderKeeps

--------------------------------------------------------------------------------
\* The end of the delivery.

\* Mutant of Idle: finish does not wait for a render in flight.
Always == TRUE

\* waitForRenderIdle.
Idle == render = "idle"

\* Mutant of StartupOnly: only the log is looked at.
NothingLogged == phase' = "succeeded" /\ lines = <<>> /\ message # "none"

\* shouldDeleteStartupOnlyProgressMessage.
StartupOnly ==
  phase' = "succeeded" /\ startup /\ lines = <<>> /\ ~thinking.pending /\ message # "none"

\* finishSucceeded and finishFailed, up to the first await.  The outcome is the one the
\* terminal event tells, or that the delivery itself failed.
Finish(ph) ==
  /\ finish = "no" /\ ~stopped
  /\ ph = "succeeded" => outcome # "failed"
  /\ phase' = ph /\ tools' = NoTools
  /\ IF StartupOnly
     THEN finish' = "delete" /\ UNCHANGED <<pending, timer>>
     ELSE finish' = "idle 1" /\ ScheduleRender
  /\ UNCHANGED <<outcome, startup, lines, archive, thinking, added, chatVars, last, limited,
                 render, rendered, stopped, calls, deltas, faults, disturbed>>

\* deleteProgressMessage, which ignores errors: the reporter forgets the message even when
\* it stays in the chat.
DeleteEnds ==
  /\ finish = "delete" /\ finish' = "deleted"
  /\ message' = "none" /\ last' = Blank
  /\ pending' = FALSE /\ stopped' = TRUE /\ timer' = "none"
  /\ UNCHANGED <<phase, outcome, logVars, shown, sent, lost, limited, render, rendered, calls, deltas,
                 faults, disturbed>>

FlushWhenIdle ==
  /\ finish \in {"idle 1", "idle 2"} /\ Idle
  /\ finish' = IF finish = "idle 1" THEN "flush 1" ELSE "flush 2"
  /\ Flush \/ NoFlush
  /\ FlushKeeps /\ UNCHANGED <<timer, stopped>>

\* After the flush: once more if lines are left to be sent, when the limit has passed.
FinishGoesOn ==
  /\ FinishContinues
  /\ IF finish = "flush 1" /\ pending /\ archive # <<>>
     THEN finish' = "limit" /\ UNCHANGED <<stopped, timer>>
     ELSE finish' = "done" /\ stopped' = TRUE /\ timer' = "none"
  /\ UNCHANGED <<phase, outcome, logVars, chatVars, last, pending, limited, render, rendered, calls,
                 deltas, faults, disturbed>>

LimitAwaited ==
  /\ finish = "limit" /\ ~limited
  /\ finish' = "idle 2"
  /\ UNCHANGED <<phase, outcome, logVars, chatVars, last, pending, timer, limited, render, rendered,
                 stopped, calls, deltas, faults, disturbed>>

\* dispose of a delivery that was aborted; after a finish it changes nothing.
Dispose ==
  /\ finish = "no" /\ ~stopped
  /\ stopped' = TRUE /\ timer' = "none"
  /\ UNCHANGED <<phase, outcome, logVars, chatVars, last, pending, limited, render, rendered, finish,
                 calls, deltas, faults, disturbed>>

LimitPasses ==
  /\ limited /\ ~FinishContinues /\ limited' = FALSE
  /\ timer' = IF timer = "waits" THEN "set" ELSE timer
  /\ UNCHANGED <<phase, outcome, logVars, chatVars, last, pending, render, rendered, finish, stopped,
                 calls, deltas, faults, disturbed>>

\* The user deletes the progress message.
UserDeletes ==
  /\ message = "there" /\ message' = "gone" /\ shown' = Blank
  /\ faults < MaxFaults /\ faults' = faults + 1
  /\ UNCHANGED <<phase, outcome, logVars, sent, lost, last, pending, timer, limited, render,
                 rendered, finish, stopped, calls, deltas, disturbed>>

--------------------------------------------------------------------------------
Events == \/ PlainEvent \/ TerminalEvent \/ ThinkingDelta
          \/ \E c \in Calls : ToolStart(c) \/ ToolEnd(c)

CallEnds == \/ ChunkSent \/ ChunkFails
            \/ EditDone \/ EditGone \/ EditLimited \/ EditFails
            \/ Recreated \/ RecreateFails

Finishes == \/ \E ph \in {"succeeded", "failed"} : Finish(ph)
            \/ DeleteEnds \/ FlushWhenIdle \/ FinishGoesOn \/ LimitAwaited \/ Dispose

Next == Events \/ TimerFires \/ CallEnds \/ Finishes \/ LimitPasses \/ UserDeletes

Spec == Init /\ [][Next]_vars

--------------------------------------------------------------------------------
\* Properties.

Lines == [no : Nat, of : Calls \cup {Thinking}, text : Nat]
Renders == [startup : BOOLEAN, lines : Seq(Lines), failed : BOOLEAN]

TypeOK ==
  /\ phase \in {"running", "succeeded", "failed"}
  /\ outcome \in {"none", "succeeded", "failed"}
  /\ startup \in BOOLEAN /\ added \in Nat
  /\ lines \in Seq(Lines) /\ archive \in Seq(Lines) /\ sent \in Seq(Nat) /\ lost \in Nat
  /\ DOMAIN tools \subseteq Calls /\ \A c \in DOMAIN tools : tools[c] \in Nat
  /\ thinking \in [pending : BOOLEAN, open : BOOLEAN, force : BOOLEAN]
  /\ message \in {"there", "gone", "none"}
  /\ last \in Renders /\ shown \in Renders /\ rendered \in Renders
  /\ pending \in BOOLEAN /\ limited \in BOOLEAN /\ timer \in {"none", "set", "waits"}
  /\ render \in {"idle", "chunk", "edit", "recreate"}
  /\ finish \in {"no", "delete", "idle 1", "flush 1", "limit", "idle 2", "flush 2",
                 "done", "deleted"}
  /\ stopped \in BOOLEAN /\ disturbed \in BOOLEAN
  /\ calls \in [Calls -> {"no", "begun", "ended"}] /\ deltas \in Nat /\ faults \in Nat

\* A tool that ends changes its own line and no other: the index kept for a call under
\* way is that of its line, however many lines were archived meanwhile.
ToolsKnowTheirLines ==
  \A c \in DOMAIN tools :
    tools[c] # 0 => /\ tools[c] <= Len(lines)
                    /\ lines[tools[c]].of = c /\ lines[tools[c]].text = 0

\* Where archive messages, of the lines numbered s, do not go on with the next line.
LineBefore(s, i) == IF i = 1 THEN 0 ELSE s[i - 1]
StepsBack(s) == {i \in 1..Len(s) : s[i] # LineBefore(s, i) + 1}

\* No line of the log is lost on its way from the message to the archive and the chat, also
\* when sending fails between two archive messages: those that have left the archive are in
\* the chat, the others are in their order.  In the chat none is left out: lines are only
\* sent again, from one that was sent before, and only after an archive message whose answer
\* was lost.  A finish that nothing disturbs leaves none in the archive.
NoLineLost ==
  LET rest == archive \o lines
      gone == added - Len(rest)
  IN /\ Len(rest) <= added /\ \A i \in 1..Len(rest) : rest[i].no = gone + i
     /\ \A n \in 1..gone : \E i \in 1..Len(sent) : sent[i] = n
     /\ \A i \in 1..Len(sent) : sent[i] <= LineBefore(sent, i) + 1
     /\ Cardinality(StepsBack(sent)) <= lost
     /\ finish = "done" /\ ~disturbed => archive = <<>>

\* When finish is over and nothing disturbed it, the message shows the outcome and all
\* that is left of the log, whatever render was in flight or delayed when it began.
FinalRenderShown ==
  finish = "done" /\ message = "there" /\ ~disturbed => shown = Rendering

\* A placeholder that the reporter deleted is not sent again: no render is in flight, or to come,
\* that would find the message gone and send it again.
DeletedStaysDeleted ==
  finish = "deleted" /\ ~disturbed => message # "there"
================================================================================
