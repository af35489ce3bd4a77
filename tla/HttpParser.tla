------------------------------ MODULE HttpParser ------------------------------
(***************************************************************************)
(* The incremental parser of HTTP requests (http_parser.hpp).  A text      *)
(* reaches it in fragments, one call of parse() each; every turn of the    *)
(* loop in parse() is a step.  parse() returns true (outcome "complete"),  *)
(* false ("partial") or leaves by an exception of std::stoi ("threw").     *)
(*                                                                         *)
(* A text is a sequence of characters.  The four that the parser looks for *)
(* are themselves, the digits and the minus sign matter to std::stoi, and  *)
(* every other character stands for a word without any of these: Post for  *)
(* "POST" and ContentLength for "Content-Length".                          *)
(***************************************************************************)
EXTENDS Integers, Sequences, SequencesExt, FiniteSetsExt

CONSTANTS Texts,    \* what may be sent
          MaxInt    \* the largest int

SP == " "   CR == "\r"   LF == "\n"   Colon == ":"
CRLF == <<CR, LF>>
Post == "POST"
ContentLength == <<"Content-Length">>
Digit == <<"0", "1", "2">>
Value(d) == (CHOOSE i \in DOMAIN Digit : Digit[i] = d) - 1

Characters == UNION {Range(t) : t \in Texts}

\* What is assumed of the constants.
Assumption == Texts \subseteq Seq(Characters)

VARIABLES text,     \* what the sender sends
          given,    \* how much of it parse() has been called with
          state,    \* state_
          buffer,   \* buffer_
          req,      \* the HttpRequest
          outcome   \* how the last parse() ended, or "parsing"

parserVars == <<text, given, state, buffer, req, outcome>>

Unread == [method |-> <<>>, path |-> <<>>, version |-> <<>>,
           headers |-> [n \in {} |-> <<>>], body |-> <<>>]

Init ==
  /\ text \in Texts
  /\ given = 0
  /\ state = "METHOD"
  /\ buffer = <<>>
  /\ req = Unread
  /\ outcome = "partial"

-------------------------------------------------------------------------------
(* What std::string and std::stoi do for the parser.                       *)

\* Where pattern occurs in s, from find() on.
Occurrences(s, pattern) ==
  {i \in DOMAIN s : IsPrefix(pattern, SubSeq(s, i, Len(s)))}
Found(s, pattern)  == Occurrences(s, pattern) # {}
Before(s, pattern) == SubSeq(s, 1, Min(Occurrences(s, pattern)) - 1)
After(s, pattern)  ==
  SubSeq(s, Min(Occurrences(s, pattern)) + Len(pattern), Len(s))

\* std::stoi: white space, a sign and digits, and whatever follows them.
Number(s) ==
  LET start  == Min({i \in 1..(Len(s) + 1) : i > Len(s) \/ s[i] \notin {SP, CR, LF}})
      signed == start <= Len(s) /\ s[start] = "-"
      first  == IF signed THEN start + 1 ELSE start
      last   == Min({i \in first..(Len(s) + 1) :
                       i > Len(s) \/ s[i] \notin Range(Digit)}) - 1
      size   == FoldLeft(LAMBDA n, d : 10 * n + Value(d), 0,
                         SubSeq(s, first, last))
  IN  [digits |-> last >= first, value |-> IF signed THEN -size ELSE size]

\* It throws when there are no digits, or more than an int holds.
Throws(s) == ~Number(s).digits \/ Number(s).value > MaxInt
                               \/ Number(s).value < -MaxInt - 1

\* size() < static_cast<size_t>(bodyLen): a negative length is a huge one.
Enough(s, length) == length \in 0..Len(s)

\* A header line: one with a colon names a value, without the space before it.
NamesValue(line) == Found(line, <<Colon>>)
NameOf(line)     == Before(line, <<Colon>>)
ValueOf(line)    == LET v == After(line, <<Colon>>)
                    IN  IF v # <<>> /\ Head(v) = SP THEN Tail(v) ELSE v

-------------------------------------------------------------------------------
(* parse().                                                                *)

\* Wrong variant: a fragment is taken for the whole.
Mut_Parse ==
  /\ outcome # "parsing"
  /\ \E n \in (given + 1)..Len(text) :
       /\ buffer' = SubSeq(text, given + 1, n)
       /\ given' = n
  /\ outcome' = "parsing"
  /\ UNCHANGED <<text, state, req>>

Parse ==
  /\ outcome # "parsing"
  /\ \E n \in (given + 1)..Len(text) :
       /\ buffer' = buffer \o SubSeq(text, given + 1, n)
       /\ given' = n
  /\ outcome' = "parsing"
  /\ UNCHANGED <<text, state, req>>

\* One of the first three states takes its word.
TakeWord(from, field, pattern, to) ==
  /\ outcome = "parsing" /\ state = from
  /\ Found(buffer, pattern)
  /\ req' = [req EXCEPT ![field] = Before(buffer, pattern)]
  /\ buffer' = After(buffer, pattern)
  /\ state' = to
  /\ UNCHANGED <<text, given, outcome>>

TakeMethod  == TakeWord("METHOD", "method", <<SP>>, "PATH")
TakePath    == TakeWord("PATH", "path", <<SP>>, "VERSION")
TakeVersion == TakeWord("VERSION", "version", CRLF, "HEADER")

\* An empty line ends the header.
EndHeader ==
  /\ outcome = "parsing" /\ state = "HEADER"
  /\ IsPrefix(CRLF, buffer)
  /\ buffer' = SubSeq(buffer, 3, Len(buffer))
  /\ state' = IF req.method = <<Post>> THEN "BODY" ELSE "DONE"
  /\ UNCHANGED <<text, given, req, outcome>>

\* A later line of the same name replaces an earlier one.
Put(headers, name, value) ==
  [n \in DOMAIN headers \cup {name} |-> IF n = name THEN value ELSE headers[n]]

TakeHeader ==
  /\ outcome = "parsing" /\ state = "HEADER"
  /\ ~IsPrefix(CRLF, buffer) /\ Found(buffer, CRLF)
  /\ buffer' = After(buffer, CRLF)
  /\ LET line == Before(buffer, CRLF)
     IN  req' = IF NamesValue(line)
                THEN [req EXCEPT !.headers = Put(@, NameOf(line), ValueOf(line))]
                ELSE req
  /\ UNCHANGED <<text, given, state, outcome>>

HasLength == ContentLength \in DOMAIN req.headers
Length    == Number(req.headers[ContentLength]).value

SkipBody ==
  /\ outcome = "parsing" /\ state = "BODY"
  /\ ~HasLength
  /\ state' = "DONE"
  /\ UNCHANGED <<text, given, buffer, req, outcome>>

TakeBody ==
  /\ outcome = "parsing" /\ state = "BODY"
  /\ HasLength /\ ~Throws(req.headers[ContentLength])
  /\ Enough(buffer, Length)
  /\ req' = [req EXCEPT !.body = SubSeq(buffer, 1, Length)]
  /\ buffer' = SubSeq(buffer, Length + 1, Len(buffer))
  /\ state' = "DONE"
  /\ UNCHANGED <<text, given, outcome>>

\* The ways out of parse().
Starved ==
  \/ state \in {"METHOD", "PATH"} /\ ~Found(buffer, <<SP>>)
  \/ state \in {"VERSION", "HEADER"} /\ ~Found(buffer, CRLF)
  \/ state = "BODY" /\ HasLength /\ ~Throws(req.headers[ContentLength])
                    /\ ~Enough(buffer, Length)

Return ==
  /\ outcome = "parsing"
  /\ outcome' \in {o \in {"partial", "complete", "threw"} :
       \/ o = "partial" /\ Starved
       \/ o = "complete" /\ state = "DONE"
       \/ o = "threw" /\ state = "BODY" /\ HasLength
                      /\ Throws(req.headers[ContentLength])}
  /\ UNCHANGED <<text, given, state, buffer, req>>

\* reset(), and a new HttpRequest; what follows in the text is the next one.
Reset ==
  /\ outcome # "parsing" /\ given > 0
  /\ state' = "METHOD"
  /\ buffer' = <<>>
  /\ req' = Unread
  /\ outcome' = "partial"
  /\ text' = SubSeq(text, given + 1, Len(text))
  /\ given' = 0

Next ==
  \/ Parse \/ TakeMethod \/ TakePath \/ TakeVersion \/ EndHeader \/ TakeHeader
  \/ SkipBody \/ TakeBody \/ Return \/ Reset

Spec == Init /\ [][Next]_parserVars

-------------------------------------------------------------------------------
(* The grammar, over the positions of a whole text: two words that end at  *)
(* a space, lines that end at a CRLF, the first empty one of which ends    *)
(* the header, and for POST as many characters as the last Content-Length  *)
(* says.                                                                   *)

Spaces(t)   == Occurrences(t, <<SP>>)
Space1(t)   == Min(Spaces(t))
Spaces2(t)  == Spaces(t) \ {Space1(t)}
Space2(t)   == Min(Spaces2(t))
TwoWords(t) == Spaces(t) # {} /\ Spaces2(t) # {}
Ends(t)     == {i \in Occurrences(t, CRLF) : i > Space2(t)}
Blanks(t)   == {i \in Ends(t) : i - 2 \in Ends(t)}

\* The line after the end i of another, and the lines up to the end e.
Line(t, i)     == SubSeq(t, i + 2, Min({j \in Ends(t) : j > i}) - 1)
Naming(t, e)   == {i \in Ends(t) : i < e /\ NamesValue(Line(t, i))}
Names(t, e)    == {NameOf(Line(t, i)) : i \in Naming(t, e)}
LastLine(t, e, n) == Max({i \in Naming(t, e) : NameOf(Line(t, i)) = n})
Headers(t, e)  == [n \in Names(t, e) |-> ValueOf(Line(t, LastLine(t, e, n)))]
Method(t)      == SubSeq(t, 1, Space1(t) - 1)
Path(t)        == SubSeq(t, Space1(t) + 1, Space2(t) - 1)
Version(t)     == SubSeq(t, Space2(t) + 1, Min(Ends(t)) - 1)
Request(t, e)  == [method |-> Method(t), path |-> Path(t), version |-> Version(t),
                   headers |-> Headers(t, e), body |-> <<>>]

\* The request without its body, what follows the header, and the body's length.
Stop(t)     == Min(Blanks(t))
Bodiless(t) == Request(t, Stop(t) - 2)
Rest(t)     == SubSeq(t, Stop(t) + 2, Len(t))
Bodied(t)   == Method(t) = <<Post>> /\ ContentLength \in Names(t, Stop(t) - 2)
Declared(t) == Headers(t, Stop(t) - 2)[ContentLength]
Size(t)     == Number(Declared(t)).value

Meaning(t) ==
  IF ~TwoWords(t) \/ Blanks(t) = {} THEN [outcome |-> "partial"]
  ELSE IF ~Bodied(t) THEN [outcome |-> "complete", req |-> Bodiless(t), rest |-> Rest(t)]
  ELSE IF Throws(Declared(t)) THEN [outcome |-> "threw"]
  ELSE IF ~Enough(Rest(t), Size(t)) THEN [outcome |-> "partial"]
  ELSE [outcome |-> "complete",
        req |-> [Bodiless(t) EXCEPT !.body = SubSeq(Rest(t), 1, Size(t))],
        rest |-> SubSeq(Rest(t), Size(t) + 1, Len(Rest(t)))]

-------------------------------------------------------------------------------
(* Properties.                                                             *)

Given    == SubSeq(text, 1, given)
Consumed == given - Len(buffer)

\* Type invariant; the buffer is the end of what was given.
TypeOK ==
  /\ text \in Seq(Characters) /\ given \in 0..Len(text)
  /\ state \in {"METHOD", "PATH", "VERSION", "HEADER", "BODY", "DONE"}
  /\ Consumed \in 0..given /\ buffer = SubSeq(Given, Consumed + 1, given)
  /\ outcome \in {"parsing", "partial", "complete", "threw"}

\* How far parse() is, in terms of the grammar.
Progress(t) ==
  /\ state = "METHOD" => Consumed = 0 /\ req = Unread
  /\ state = "PATH" =>
       Spaces(t) # {} /\ Consumed = Space1(t) /\ req = [Unread EXCEPT !.method = Method(t)]
  /\ state = "VERSION" =>
       /\ TwoWords(t) /\ Consumed = Space2(t)
       /\ req = [Unread EXCEPT !.method = Method(t), !.path = Path(t)]
  /\ state = "HEADER" =>
       /\ TwoWords(t) /\ Consumed - 1 \in Ends(t)
       /\ \A i \in Blanks(t) : i > Consumed - 1
       /\ req = Request(t, Consumed - 1)
  /\ state \in {"BODY", "DONE"} => TwoWords(t) /\ Blanks(t) # {}
  /\ state = "BODY" =>
       Method(t) = <<Post>> /\ Consumed = Stop(t) + 1 /\ req = Bodiless(t)
  /\ state = "DONE" =>
       \/ ~Bodied(t) /\ Consumed = Stop(t) + 1 /\ req = Bodiless(t)
       \/ /\ Bodied(t) /\ ~Throws(Declared(t)) /\ Size(t) \in Nat
          /\ Consumed = Stop(t) + 1 + Size(t)
          /\ req = [Bodiless(t) EXCEPT !.body = SubSeq(Rest(t), 1, Size(t))]

\* Inductive.
ParserInv ==
  /\ TypeOK
  /\ Progress(Given)
  /\ outcome = "partial" => given = 0 \/ Starved
  /\ outcome = "complete" => state = "DONE"
  /\ outcome = "threw" => state = "BODY" /\ HasLength /\ Throws(req.headers[ContentLength])

\* However the text is cut into fragments, between two spaces, inside a CRLF or in
\* the body, parse() answers what the grammar says of everything it was given: the
\* same request, nothing of what follows it consumed, no answer too early or late.
FragmentsDoNotMatter ==
  outcome # "parsing" /\ given > 0 =>
    LET m == Meaning(Given)
    IN  /\ outcome = m.outcome
        /\ outcome = "complete" => req = m.req /\ buffer = m.rest
===============================================================================
