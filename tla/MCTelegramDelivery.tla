--------------------------- MODULE MCTelegramDelivery ---------------------------
(***************************************************************************)
(* Instances of TelegramDelivery for TLC, with the answers its messages     *)
(* (TelegramMarkdown) are checked for; the bounds are in the cfg file.      *)
(***************************************************************************)
EXTENDS TelegramDelivery, TelegramMarkdown

CONSTANTS t1, t2, r1, r2

\* A text of one thread and a task of another.
TwoThreads == r1 :> t1 @@ r2 :> t2

\* Inline Markdown: words, one of them of a character that takes two units, and code, side by
\* side, wrapped, and wrapped again.
Words == {Plain(<<"x">>), Plain(<<"x", "low">>), Plain(<<"x", " ">>), Plain(<<NL>>),
          InlineCode(<<"x">>), InlineCode(<<"x", "low">>)}
Linked(s) == \E e \in s.entities : e.type = "text_link"
Wraps(S) == {Wrapped(s, type) : s \in S, type \in {"bold", "italic"}}
            \cup {Link(s, <<"x", "x">>) : s \in {t \in S : ~Linked(t)}}
Pairs(S, T) == {Inline(<<a, b>>) : a \in S, b \in T}
Once == Wraps(Pairs(Words, Words) \cup {NoText})
Twice == Wraps(Pairs(Once, Words) \cup Pairs(Words, Once))

\* A paragraph neither begins nor ends with a blank.
Paragraphs == {s \in Twice : Len(s.text) > 0 /\ ~IsBlank(s.text[1]) /\ ~IsBlank(Last(s.text))}

\* Blocks, alone and in pairs: of cells and code, and a paragraph with a wrapped line break;
\* and links, with an address and without.
Cells == Wraps(Wraps({Inline(<<InlineCode(<<"x">>), Plain(<<"x">>)>>)}))
BrokenLine == Inline(<<Wrapped(Plain(<<"x", NL, "x">>), "bold"), Plain(<<"x", "x", "x", "x">>)>>)
Blocks ==
  {BrokenLine} \cup Cells \cup {CodeBlock(code) : code \in {<<>>, <<"x", NL, "x">>, <<"x", "x", "x", "x">>, <<" ">>}}
Links == {Link(a, url) : a \in Cells, url \in {<<" ">>, <<"x">>}}
MCAnswers ==
  Paragraphs
  \cup {Wrapped(a, "strikethrough") : a \in Links} \cup {Blockquote(<<a>>) : a \in Links}
  \cup {Root(<<a, b>>) : a \in Blocks, b \in Blocks}
  \cup UNION {{List(<<<<a, b>>, <<b>>>>), Blockquote(<<a, b>>)} : a \in Blocks, b \in Blocks}
  \cup {Table(<<<<NoText, a>>, <<a, b>>>>) : a \in Cells, b \in Cells \cup {NoText}}

MCTexts == UNION {[1..n -> Chars \ {"low"}] : n \in 1..6}
           \cup {t \o <<"x", "low">> \o u : t \in [1..2 -> Chars \ {"low"}], u \in [1..3 -> {"x", " "}]}

\* A delivery that replies sends all of an answer, in the formats its Markdown asks for, but
\* for what Shows excepts, and in messages Telegram takes (MessagesFaithful, for the answers
\* and texts above).
AnswersArriveWhole == (\E d \in Ids : stage[d] = "replying") => MessagesFaithful
================================================================================
