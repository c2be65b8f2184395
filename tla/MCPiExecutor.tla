----------------------------- MODULE MCPiExecutor -----------------------------
(***************************************************************************)
(* Instances of PiExecutor for TLC, with the calls of the tool its sessions *)
(* get (TelegramSendFiles); the bounds are in the cfg files.                *)
(***************************************************************************)
EXTENDS PiExecutor, TelegramSendFiles

GivenFile(kind, caption, state, size, mime, ext) ==
  [kind |-> kind, caption |-> caption, state |-> state, size |-> size, mime |-> mime, ext |-> ext]

\* Photos, one of them too large for a photo, a video that should be one, and a document.
Good == {GivenFile("auto", 0, "file", 1, "png", "png"), GivenFile("photo", 2, "file", 1, "jpeg", "mp4"),
         GivenFile("auto", 1, "file", 2, "png", "png"), GivenFile("photo", 1, "file", 2, "none", "mp4"),
         GivenFile("auto", 2, "file", 0, "none", "m4a")}
Bad == {GivenFile("auto", 2, state, 1, "png", "png") : state \in {"missing", "directory", "unreadable"}}
       \cup {GivenFile("document", 0, "file", 3, "none", "txt")}

Upto(n, S) == UNION {[1..k -> S] : k \in 0..n}
MCRequests ==
  [given : Upto(3, Good) \cup Upto(2, Good \cup Bad) \cup [1..4 -> {CHOOSE f \in Good : f.size = 1}],
   captionMode : {"per_file", "first_only"}]

\* Two of the calls do not go well.
Fates == {"ok", "limited", "refused", "lost"}
MCNetworks ==
  {[i \in 1..6 |-> IF i = a THEN x ELSE IF i = b THEN y ELSE "ok"] :
     a \in 1..3, b \in 1..4, x \in Fates, y \in Fates}

\* What the tool of a session at work reports of the files it was given is what the chat
\* received (CallsReportTruly, for the requests and networks above).
ReportsWhatWasSent == sessions # None => CallsReportTruly
================================================================================
