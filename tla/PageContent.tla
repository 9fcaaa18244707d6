---------------------------- MODULE PageContent ----------------------------
(***************************************************************************)
(* What the crawler keeps of a page: the cleaner, the text extractor and   *)
(* the hashes that tell whether a page changed (crawling/domain:           *)
(* html_cleaner.py, text_extractor.py, hashing.py), the phrases of a       *)
(* challenge page (html_validator.py) and the signs that a browser is      *)
(* needed (browser_fallback.py).                                           *)
(*                                                                         *)
(* Markup is a sequence of symbols: tags, words, and tags that a text      *)
(* spells with character references. Attributes, whitespace, titles and    *)
(* the cap on the length of a text are left out; a digest is what it was   *)
(* computed of.                                                            *)
(***************************************************************************)
EXTENDS Integers, Sequences, SequencesExt

Open(tag) == [kind |-> "open", of |-> tag]
Close(tag) == [kind |-> "close", of |-> tag]
Word(w) == [kind |-> "word", of |-> w]
Alt(w) == [kind |-> "alt", of |-> w]          \* an image with an alternative text
Spelled(tag) == [kind |-> "spelled", of |-> tag]  \* &lt;tag&gt;

Symbols == [kind : {"open", "close", "word", "alt", "spelled"}, of : STRING]

\* "ld" is a script of type application/ld+json, "pixel" a tracking pixel.
SuppressedTags == {"noscript", "svg"}
ScriptTags == {"script", "ld"}
BlockTags == {"h1", "p", "li"}
StructuralTags == {"h1", "p", "li", "a"}

-----------------------------------------------------------------------------
\* html.parser: in a script or a style all is data until its end tag; elsewhere
\* character references are decoded. An event of data holds what it will read as
\* once written down again.
EndOf(tag) == Close(IF tag \in ScriptTags THEN "script" ELSE tag)
Data(s) == [kind |-> "data", of |-> s]

RawTags == ScriptTags \cup {"style"}
NextMode(mode, s) ==
  IF mode # "none" THEN IF s = EndOf(mode) THEN "none" ELSE mode
  ELSE IF s.kind = "open" /\ s.of \in RawTags THEN s.of ELSE "none"
EventOf(mode, s) ==
  IF mode # "none" THEN IF s = EndOf(mode) THEN s ELSE Data(s)
  ELSE IF s.kind = "word" THEN Data(s)
  ELSE IF s.kind = "spelled" THEN Data(Open(s.of))
  ELSE s

\* The tag whose body the parser is in after each symbol.
Modes(markup) ==
  LET mode[n \in 0..Len(markup)] == IF n = 0 THEN "none" ELSE NextMode(mode[n - 1], markup[n])
  IN mode
Events(markup) ==
  LET mode == Modes(markup) IN [n \in DOMAIN markup |-> EventOf(mode[n - 1], markup[n])]

-----------------------------------------------------------------------------
\* The innermost open element of a tag is closed, whatever else is open.
WithoutLast(stack, tag) ==
  LET at == SelectLastInSeq(stack, LAMBDA t : t = tag)
  IN IF at = 0 THEN stack ELSE RemoveAt(stack, at)
PopAny(stack, tag) == IF stack = <<>> THEN stack ELSE Front(stack)  \* mutant: any end tag closes
Unsuppressed(stack, tag) == WithoutLast(stack, tag)

\* _Cleaner: noscript and svg are dropped with all they contain, the bodies of
\* scripts and styles too, except structured data.
CleanStep(acc, e) ==
  IF e.kind = "open" /\ e.of \in SuppressedTags THEN [acc EXCEPT !.stack = Append(acc.stack, e.of)]
  ELSE IF e.kind = "close" /\ e.of \in SuppressedTags
  THEN [acc EXCEPT !.stack = Unsuppressed(acc.stack, e.of)]
  ELSE IF acc.stack # <<>> \/ e = Open("pixel") THEN acc
  ELSE IF e.kind = "open"
  THEN [acc EXCEPT !.out = Append(acc.out, e), !.body = IF e.of \in RawTags THEN e.of ELSE acc.body]
  ELSE IF e.kind = "close"
  THEN [acc EXCEPT !.out = Append(acc.out, e),
                   !.body = IF e.of \in {"script", "style"} THEN "none" ELSE acc.body]
  ELSE IF e.kind # "data" THEN [acc EXCEPT !.out = Append(acc.out, e)]
  ELSE IF acc.body \in {"script", "style"} THEN acc
  ELSE [acc EXCEPT !.out = Append(acc.out, e.of)]

NothingOut == [out |-> <<>>, stack |-> <<>>, body |-> "none"]
Cleaned(markup) ==
  LET events == Events(markup)
      after[n \in 0..Len(markup)] == IF n = 0 THEN NothingOut ELSE CleanStep(after[n - 1], events[n])
  IN after[Len(markup)].out

-----------------------------------------------------------------------------
Emitted(blocks, words) == IF words = <<>> THEN blocks ELSE Append(blocks, words)

\* _Extractor: the words of closed blocks, an inner block as part of the outer
\* one, and the alternative texts of images.
TextStep(acc, e) ==
  IF e.kind = "open" /\ e.of \in RawTags THEN [acc EXCEPT !.skip = Append(acc.skip, EndOf(e.of))]
  ELSE IF e.kind = "close" /\ e.of \in {"script", "style"}
  THEN IF acc.skip # <<>> /\ Last(acc.skip) = e THEN [acc EXCEPT !.skip = Front(acc.skip)] ELSE acc
  ELSE IF acc.skip # <<>> THEN acc
  ELSE IF e.kind = "alt"
  THEN IF acc.tag # "none" THEN [acc EXCEPT !.buffer = Append(acc.buffer, e.of)]
       ELSE [acc EXCEPT !.blocks = Append(acc.blocks, <<e.of>>)]
  ELSE IF e.kind = "open"
  THEN IF e.of \in BlockTags /\ acc.tag = "none" THEN [acc EXCEPT !.tag = e.of, !.buffer = <<>>] ELSE acc
  ELSE IF e.kind = "close"
  THEN IF e.of = acc.tag
       THEN [acc EXCEPT !.blocks = Emitted(acc.blocks, acc.buffer), !.tag = "none", !.buffer = <<>>] ELSE acc
  ELSE IF acc.tag = "none" THEN acc ELSE [acc EXCEPT !.buffer = Append(acc.buffer, e.of.of)]

NothingRead == [blocks |-> <<>>, skip |-> <<>>, tag |-> "none", buffer |-> <<>>]
Blocks(cleaned) ==
  LET events == Events(cleaned)
      after[n \in 0..Len(cleaned)] == IF n = 0 THEN NothingRead ELSE TextStep(after[n - 1], events[n])
  IN after[Len(cleaned)].blocks

\* A block that repeats is kept twice.
Repeated(kept, block) ==
  IF Len(SelectSeq(kept, LAMBDA k : k = block)) < 2 THEN Append(kept, block) ELSE kept
TwiceAtMost(blocks) ==
  LET kept[n \in 0..Len(blocks)] == IF n = 0 THEN <<>> ELSE Repeated(kept[n - 1], blocks[n])
  IN kept[Len(blocks)]

Text(markup) == TwiceAtMost(Blocks(Cleaned(markup)))

-----------------------------------------------------------------------------
\* compute_content_hashes: the structural hash is of the tags and of the text.
Skeleton(cleaned) ==
  LET tags == SelectSeq(Events(cleaned), LAMBDA e : e.kind = "alt" \/ (e.kind = "open" /\ e.of \in StructuralTags))
  IN [i \in DOMAIN tags |-> IF tags[i].kind = "alt" THEN "img" ELSE tags[i].of]
SkeletonOnly(markup) == Skeleton(Cleaned(markup))  \* mutant: the text left out
Structure(markup) == <<Skeleton(Cleaned(markup)), Text(markup)>>

\* classify_blocked_or_challenge: a phrase anywhere in the markup, in scripts too.
IsChallenge(markup) == \E i \in DOMAIN markup : markup[i].of = "captcha"

\* detect_browser_fallback, by falling confidence.
FallbackReason(markup, minScripts) ==
  LET cleaned == Cleaned(markup)
      empty == Text(markup) = <<>>
      scripts == Len(SelectSeq(cleaned, LAMBDA s : s.kind = "open" /\ s.of \in ScriptTags))
  IN IF IsChallenge(markup) THEN "challenge_page"
     ELSE IF empty /\ Contains(cleaned, Open("shell")) THEN "client_rendered_marker"
     ELSE IF empty /\ Contains(cleaned, Open("root")) THEN "empty_html"
     ELSE IF empty /\ scripts >= minScripts THEN "insufficient_text"
     ELSE "none"

-----------------------------------------------------------------------------
\* What a reader of the page sees: every word outside scripts, styles and what is
\* only for clients without scripts.
SeenStep(acc, e) ==
  IF e.kind = "open"
  THEN IF e.of \in SuppressedTags THEN [acc EXCEPT !.stack = Append(acc.stack, e.of)]
       ELSE [acc EXCEPT !.raw = IF e.of \in RawTags THEN e.of ELSE "none"]
  ELSE IF e.kind = "close"
  THEN IF e.of \in SuppressedTags THEN [acc EXCEPT !.stack = WithoutLast(acc.stack, e.of)]
       ELSE [acc EXCEPT !.raw = "none"]
  ELSE IF acc.raw # "none" \/ acc.stack # <<>> THEN acc
  ELSE [acc EXCEPT !.words = Append(acc.words, IF e.kind = "data" THEN e.of.of ELSE e.of)]

NothingSeen == [words |-> <<>>, stack |-> <<>>, raw |-> "none"]
Seen(markup) ==
  LET events == Events(markup)
      after[n \in 0..Len(markup)] == IF n = 0 THEN NothingSeen ELSE SeenStep(after[n - 1], events[n])
  IN after[Len(markup)].words
=============================================================================
