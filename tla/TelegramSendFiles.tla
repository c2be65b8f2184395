---------------------------- MODULE TelegramSendFiles ----------------------------
(***************************************************************************)
(* The tool telegram_send_files of a pi session: one call of it as an        *)
(* operator on its parameters, on what the disk holds, and on the fates of   *)
(* its calls to the Bot API, and what the agent is told of what the chat got *)
(* (telegram-send-files-tool.ts, telegram-send-files-core.ts).               *)
(*                                                                          *)
(* A file is what the tool finds at a path: its state is "missing",          *)
(* "directory", "unreadable" or "file", with a size, the image type of its   *)
(* first bytes and an extension.  The fate of a call to the Bot API is "ok", *)
(* "limited" (refused with retry_after), "refused" (any other error), or     *)
(* "lost": Telegram did it, and the answer did not arrive.                   *)
(***************************************************************************)
EXTENDS Naturals, Sequences, FiniteSets

CONSTANTS
  MaxFilesPerCall, MaxCaption,   \* maxFilesPerCall, maxCaptionLength
  PhotoMax, DocumentMax,         \* telegramPhotoMaxBytes, telegramDocumentMaxBytes
  GroupMax,                      \* telegramMediaGroupMaxItems
  RetryAttempts,                 \* defaultRetryAttempts
  Requests,                      \* [given, captionMode]: parameters of calls of the tool
  Networks                       \* the fates of the calls to the Bot API, in their order

SendOrder == <<"photo", "video", "audio", "document">>
Kinds == {SendOrder[k] : k \in DOMAIN SendOrder}
GivenFiles == [kind : Kinds \cup {"auto"}, caption : Nat, state : STRING, size : Nat, mime : STRING, ext : STRING]

ASSUME SendFilesAssumption ==
  /\ MaxFilesPerCall \in Nat /\ MaxCaption \in Nat \ {0} /\ PhotoMax \in Nat /\ DocumentMax \in Nat
  /\ GroupMax \in Nat \ {0, 1} /\ RetryAttempts \in Nat \ {0}
  /\ \A request \in Requests : request.given \in Seq(GivenFiles)

--------------------------------------------------------------------------------
\* Preparation.  Captions are their lengths after trim: 0 is no caption.

CanSendAs(kind, f) ==
  \/ kind = "photo" /\ f.mime \in {"jpeg", "png", "webp"} /\ f.size <= PhotoMax
  \/ kind = "video" /\ f.ext = "mp4"
  \/ kind = "audio" /\ f.ext \in {"mp3", "m4a"}

Position(kind) == CHOOSE k \in DOMAIN SendOrder : SendOrder[k] = kind

ResolveSendKind(requested, f) ==
  LET wishes == IF requested = "auto" THEN Kinds ELSE {requested}
      possible == {kind \in wishes : CanSendAs(kind, f)}
  IN IF possible = {} THEN "document"
     ELSE CHOOSE kind \in possible : \A other \in possible : Position(kind) <= Position(other)

NormalizeCaption(length) == IF length <= MaxCaption THEN length ELSE MaxCaption

\* The checks of one file; the first file that fails one ends the call.
ErrorOf(f) ==
  CASE f.state = "missing" -> "file_not_found"
    [] f.state = "directory" -> "not_a_file"
    [] f.state \in {"file", "unreadable"} /\ f.size > DocumentMax -> "file_too_large"
    [] f.state = "unreadable" /\ f.size <= DocumentMax -> "file_unreadable"
    [] OTHER -> "none"

Prepared(i, given) ==
  [n |-> i, kind |-> ResolveSendKind(given[i].kind, given[i]), caption |-> NormalizeCaption(given[i].caption)]
Warnings(given) ==
  {<<"truncated", i>> : i \in {j \in DOMAIN given : given[j].caption > MaxCaption}}
  \cup {<<"downgraded", i>> : i \in {j \in DOMAIN given :
           given[j].kind \notin {"auto", "document", ResolveSendKind(given[j].kind, given[j])}}}

\* partitionPreparedFiles and flattenPreparedFiles: by kind, otherwise as given.
Before(p, q) == Position(p.kind) < Position(q.kind) \/ (p.kind = q.kind /\ p.n < q.n)
InSendOrder(S) ==
  [k \in 1..Cardinality(S) |-> CHOOSE p \in S : Cardinality({q \in S : Before(q, p)}) = k - 1]

ApplyCaptionMode(prepared, mode) ==
  LET captioned(i) == prepared[i].caption > 0
      kept(i) == mode # "first_only" \/ \A j \in 1..(i - 1) : ~captioned(j)
  IN [i \in DOMAIN prepared |-> [prepared[i] EXCEPT !.caption = IF kept(i) THEN @ ELSE 0]]

\* The files of a call as they are sent.
InOrder(request) ==
  ApplyCaptionMode(InSendOrder({Prepared(i, request.given) : i \in DOMAIN request.given}),
                   request.captionMode)

--------------------------------------------------------------------------------
\* Sending.  tool.calls counts calls of the Bot API and tool.attempt those for the files that
\* are sent now; tool.chat is what the calls put into the chat, and by which of them a file
\* came; tool.items and the rest is the tool's result.

NewResult(error, warnings) ==
  [calls |-> 0, attempt |-> 1, chat |-> <<>>, items |-> <<>>, sent |-> [kind \in Kinds |-> 0],
   groups |-> 0, warnings |-> warnings, error |-> error]

\* chunkBy: photos, which come first, go in groups, all else goes one by one.
EndOfBatch(prepared, start) ==
  LET photos == Cardinality({i \in DOMAIN prepared : prepared[i].kind = "photo"})
  IN IF prepared[start].kind # "photo" THEN start
     ELSE IF start + GroupMax - 1 <= photos THEN start + GroupMax - 1 ELSE photos

\* Mutant of Repeatable: a call whose answer is lost is repeated.
RepeatableIfLost(fate) == fate \in {"limited", "lost"}

\* callTelegramWithRetry repeats a call only when Telegram says when.
Repeatable(fate) == fate = "limited"

\* What a call puts into the chat, and what the tool says of it.
MessagesOf(batch, call) ==
  [i \in DOMAIN batch |-> [n |-> batch[i].n, kind |-> batch[i].kind, caption |-> batch[i].caption, call |-> call]]
ItemsOf(batch, answered) ==
  [i \in DOMAIN batch |-> [n |-> batch[i].n, kind |-> batch[i].kind, sent |-> answered]]

\* A call of the Bot API for the next files and what is made of its answer
\* (callTelegramWithRetry in sendSinglePhoto, sendPhotoGroup and sendFilesIndividually).
SendBatch(tool, prepared, fate) ==
  LET start == Len(tool.items) + 1
      batch == SubSeq(prepared, start, EndOfBatch(prepared, start))
      again == Repeatable(fate) /\ tool.attempt < RetryAttempts
      answered == fate = "ok"
  IN [tool EXCEPT
        !.calls = @ + 1,
        !.attempt = IF again THEN @ + 1 ELSE 1,
        !.chat = IF fate \in {"ok", "lost"} THEN @ \o MessagesOf(batch, tool.calls + 1) ELSE @,
        !.items = IF again THEN @ ELSE @ \o ItemsOf(batch, answered),
        !.sent[prepared[start].kind] = IF answered THEN @ + Len(batch) ELSE @,
        !.groups = IF answered /\ Len(batch) > 1 THEN @ + 1 ELSE @,
        !.error = IF again \/ answered THEN @ ELSE "telegram_api_error"]

\* The files that pass the checks are sent until a call fails for good or none is left.
Sending(tool, prepared) == tool.error = "none" /\ Len(tool.items) < Len(prepared)
GoOn(tool, prepared, fate) == IF Sending(tool, prepared) THEN SendBatch(tool, prepared, fate) ELSE tool
SendAll(prepared, warnings, network) ==
  LET last == Len(prepared) * RetryAttempts
      after[c \in 0..last] ==
        IF c = 0 THEN NewResult("none", warnings) ELSE GoOn(after[c - 1], prepared, network[c])
  IN after[last]

\* execute
Execute(request, network) ==
  LET given == request.given
      bad == {i \in DOMAIN given : ErrorOf(given[i]) # "none"}
      first == CHOOSE i \in bad : \A j \in bad : i <= j
  IN IF Len(given) \notin 1..MaxFilesPerCall THEN NewResult("invalid_input", {})
     ELSE IF bad # {} THEN NewResult(ErrorOf(given[first]), Warnings(SubSeq(given, 1, first - 1)))
     ELSE SendAll(InOrder(request), Warnings(given), network)

--------------------------------------------------------------------------------
\* Properties.

\* What the tool says of a call is what the chat got: every file at most once and in order,
\* nothing when a file fails its checks, all of them when the call succeeds, and a file that
\* is not reported as sent is in the chat only if the answer of the last call was lost.
Truthful(request, network) ==
  LET tool == Execute(request, network)
      chat == tool.chat
      told == {i \in DOMAIN tool.items : tool.items[i].sent}
      lost == tool.calls > 0 /\ network[tool.calls] = "lost"
      grouped(c) == \E i, j \in told : i # j /\ chat[i].call = c /\ chat[j].call = c
  IN /\ \A i \in told : 1..i \subseteq told
     /\ told \subseteq DOMAIN chat /\ DOMAIN chat \subseteq DOMAIN tool.items
     /\ \A i \in DOMAIN chat :
          chat[i].n = tool.items[i].n /\ (i \in told \/ (lost /\ chat[i].call = tool.calls))
     /\ \A i, j \in DOMAIN tool.items : i < j => Before(tool.items[i], tool.items[j])
     /\ \A kind \in Kinds :
          tool.sent[kind] = Cardinality({i \in told : tool.items[i].kind = kind})
     /\ tool.groups = Cardinality({c \in 1..tool.calls : grouped(c)})
     /\ tool.error = "none" => {chat[i].n : i \in told} = DOMAIN request.given
     /\ tool.error \notin {"none", "telegram_api_error"} => tool.calls = 0

\* What reaches the chat is what Telegram accepts and what was asked, or the tool says that
\* it is not: groups of photos only and of at most GroupMax, captions cut to length, and in
\* mode first_only one caption, the first there is in the order of the chat.
Presentable(request, network) ==
  LET tool == Execute(request, network)
      chat == tool.chat
      captioned == {i \in DOMAIN chat : chat[i].caption > 0}
      asked(i) == request.given[chat[i].n]
      has(i) == asked(i).caption > 0
  IN /\ \A i, j \in DOMAIN chat :
          i # j /\ chat[i].call = chat[j].call => chat[i].kind = "photo" /\ chat[j].kind = "photo"
     /\ \A i, j \in DOMAIN chat : chat[i].call = chat[j].call => j < i + GroupMax
     /\ \A i \in captioned :
          /\ chat[i].caption <= MaxCaption
          /\ chat[i].caption = asked(i).caption \/ <<"truncated", chat[i].n>> \in tool.warnings
     /\ \A i \in DOMAIN chat :
          asked(i).kind \in {"auto", chat[i].kind} \/ <<"downgraded", chat[i].n>> \in tool.warnings
     /\ captioned = {i \in DOMAIN chat :
                      has(i) /\ (request.captionMode = "first_only" => \A j \in 1..(i - 1) : ~has(j))}

\* Both of the above for all calls and networks of the instance (execute, sendPhotos,
\* sendFilesIndividually, callTelegramWithRetry).
CallsReportTruly ==
  \A request \in Requests, network \in Networks :
    Truthful(request, network) /\ Presentable(request, network)
================================================================================
