---------------------------- MODULE ArticleText -----------------------------
(***************************************************************************)
(* An article on the wire: read up to the terminating dot, split into      *)
(* headers and body, its Message-ID brought into one form, and sent again  *)
(* to a client or a peer.                                                  *)
(***************************************************************************)
EXTENDS Scanning

CRLF == <<CR, LF>>
Dot == <<".", CR, LF>>

-----------------------------------------------------------------------------
(* read_message *)

Unstuffed(line) == IF Starts(line, <<".", ".">>) THEN Tail(line) ELSE line

\* What is read, the line being read, and what stays in the connection after
\* the terminating line.
Reader == [msg : Text, line : Text, done : BOOLEAN, after : Text]

Read(st, c) ==
    LET line == Append(st.line, c)
    IN  CASE st.done -> [st EXCEPT !.after = Append(@, c)]
          [] ~st.done /\ c # LF -> [st EXCEPT !.line = line]
          [] ~st.done /\ c = LF ->
               IF line \in {Dot, <<".", LF>>} THEN [st EXCEPT !.line = <<>>, !.done = TRUE]
               ELSE [st EXCEPT !.line = <<>>, !.msg = @ \o Unstuffed(line)]

Reading == [st \in Reader |-> [c \in Char |-> Read(st, c)]]

ReadMessage(wire) ==
    Loop(Reading, [msg |-> <<>>, line |-> <<>>, done |-> FALSE, after |-> <<>>], wire)

-----------------------------------------------------------------------------
(* parse_message *)

Failed == [ok |-> FALSE]
Blanks == {" ", "\t"}

\* The headers so far, the last of them still growing, and the name of the
\* next one.
Parser == [mode : {"line", "name", "skip", "value", "return", "blank", "body", "failed"},
           headers : Seq([name : Text, value : Text]), name : Text, body : Text]

Grown(headers, c) == [headers EXCEPT ![Len(headers)].value = Append(@, c)]

\* parse_headers: at the beginning of a line.  A blank goes on with the last
\* header, a CR must begin the blank line.
Line(st, c) ==
    CASE c \in Blanks /\ st.headers # <<>> ->
           [st EXCEPT !.mode = "skip", !.headers = Grown(@, " ")]
      [] c = CR         -> [st EXCEPT !.mode = "blank"]
      [] c \in {":", LF} -> [st EXCEPT !.mode = "failed"]
      [] OTHER          -> [st EXCEPT !.mode = "name", !.name = <<c>>]

\* parse_header_line: no line end but CRLF.
Parse(st, c) ==
    CASE st.mode = "line" -> Line(st, c)
      [] st.mode = "name" ->
           CASE c = ":" ->
                  [st EXCEPT !.mode = "skip", !.name = <<>>,
                     !.headers = Append(@, [name |-> st.name, value |-> <<>>])]
             [] c \in {CR, LF} -> [st EXCEPT !.mode = "failed"]
             [] OTHER          -> [st EXCEPT !.name = Append(@, c)]
      [] st.mode = "skip" /\ c \in Blanks -> st
      [] st.mode = "value" \/ (st.mode = "skip" /\ c \notin Blanks) ->
           CASE c = CR -> [st EXCEPT !.mode = "return"]
             [] c = LF -> [st EXCEPT !.mode = "failed"]
             [] OTHER  -> [st EXCEPT !.mode = "value", !.headers = Grown(@, c)]
      [] st.mode = "return" -> [st EXCEPT !.mode = IF c = LF THEN "line" ELSE "failed"]
      [] st.mode = "blank"  -> [st EXCEPT !.mode = IF c = LF THEN "body" ELSE "failed"]
      [] st.mode = "body"   -> [st EXCEPT !.body = Append(@, c)]
      [] st.mode = "failed" -> st

Parsing == [st \in Parser |-> [c \in Char |-> Parse(st, c)]]

ParseMessage(s) ==
    LET st == Loop(Parsing, [mode |-> "line", headers |-> <<>>, name |-> <<>>, body |-> <<>>], s)
    IN  IF st.mode = "body" THEN [ok |-> TRUE, headers |-> st.headers, body |-> st.body]
        ELSE Failed

-----------------------------------------------------------------------------
(* send_headers, send_body: HEAD, ARTICLE, BODY and transfers to peers. *)

Splitting ==
    [st \in [lines : Seq(Text), line : Text] |-> [c \in Char |->
       IF c # LF THEN [st EXCEPT !.line = Append(@, c)]
       ELSE [line |-> <<>>,
             lines |-> Append(st.lines, IF st.line # <<>> /\ Last(st.line) = CR
                                        THEN Front(st.line) ELSE st.line)]]]

\* str::lines
Lines(s) ==
    LET st == Loop(Splitting, [lines |-> <<>>, line |-> <<>>], s)
    IN  IF st.line = <<>> THEN st.lines ELSE Append(st.lines, st.line)

\* Mutant: the body is sent as it is.
StuffedNot(line) == line

Stuffed(line) == IF Starts(line, <<".">>) THEN <<".">> \o line ELSE line

SendHeaders(headers) ==
    Joined([i \in DOMAIN headers |->
              headers[i].name \o <<":", " ">> \o headers[i].value \o CRLF])

SendBody(body) ==
    LET lines == Lines(body)
    IN  Joined([i \in DOMAIN lines |-> Stuffed(lines[i]) \o CRLF])

Sent(article) == SendHeaders(article.headers) \o CRLF \o SendBody(article.body) \o Dot

-----------------------------------------------------------------------------
(* Message-IDs.  An article is kept under escape(unescape(id)). *)

Bracketed(s) == Len(s) > 1 /\ s[1] = "<" /\ Last(s) = ">"
Inner(s) == SubSeq(s, 2, Len(s) - 1)

\* The scan of unescape_message_id, inside quotes, brackets or comments, or
\* after a backslash.
Scanner == [out : Text, quotes : BOOLEAN, brackets : BOOLEAN, depth : Nat, escaped : BOOLEAN]

\* The depth of comments after c.
Nested(depth, c) ==
    IF c = "(" THEN depth + 1 ELSE IF c = ")" THEN depth - 1 ELSE depth

Scan(st, c) ==
    LET inside == st.quotes \/ st.brackets
        push == [st EXCEPT !.out = Append(@, c)]
    IN  IF st.depth > 0 THEN [st EXCEPT !.depth = Nested(@, c)]
        ELSE IF st.escaped THEN [push EXCEPT !.escaped = FALSE]
        ELSE IF c = "\"" /\ ~st.brackets THEN [st EXCEPT !.quotes = ~@]
        ELSE IF c = "[" /\ ~st.quotes THEN [push EXCEPT !.brackets = TRUE]
        ELSE IF c = "]" /\ st.brackets THEN [push EXCEPT !.brackets = FALSE]
        ELSE IF c = "\\" /\ inside THEN [st EXCEPT !.escaped = TRUE]
        ELSE IF c = "(" /\ ~inside THEN [st EXCEPT !.depth = 1]
        ELSE IF c \in Spaces /\ ~inside THEN st
        ELSE push

Unescaping == [st \in Scanner |-> [c \in Char |-> Scan(st, c)]]

Unescaped(s) ==
    Loop(Unescaping, [out |-> <<>>, quotes |-> FALSE, brackets |-> FALSE, depth |-> 0,
                      escaped |-> FALSE], s).out

unescape_message_id(id) ==
    LET s == Trim(id)
    IN  IF ~Bracketed(s) THEN s ELSE <<"<">> \o Unescaped(Inner(s)) \o <<">">>

\* Letters, digits and most punctuation; any other character makes the left
\* part a quoted string.
CONSTANT AtomChars

ASSUME AtomAssumption ==
    AtomChars \subseteq Char \ ({"\"", "\\", "(", ")", "[", "]", "<", ">", "@"} \cup Spaces)

Escaped(s, C) ==
    Joined([i \in DOMAIN s |-> IF s[i] \in C THEN <<"\\", s[i]>> ELSE <<s[i]>>])

\* Mutant: quotes are put around, but nothing in them is escaped.
EscapedLeftBare(s) ==
    IF \E i \in DOMAIN s : s[i] \notin AtomChars THEN <<"\"">> \o s \o <<"\"">> ELSE s

EscapedLeft(s) ==
    LET e == Escaped(s, {"\"", "\\"})
    IN  IF \E i \in DOMAIN s : s[i] \notin AtomChars THEN <<"\"">> \o e \o <<"\"">> ELSE e

EscapedRight(s) ==
    IF Len(s) > 1 /\ s[1] = "[" /\ Last(s) = "]"
    THEN <<"[">> \o Escaped(Inner(s), {"\\", "[", "]"}) \o <<"]">> ELSE s

escape_message_id(id) ==
    LET s == Trim(id)
        inner == Inner(s)
        at == First(inner, {"@"})
    IN  IF ~Bracketed(s) \/ at > Len(inner) THEN s
        ELSE <<"<">> \o EscapedLeft(SubSeq(inner, 1, at - 1)) \o <<"@">>
               \o EscapedRight(Rest(inner, at + 1)) \o <<">">>

\* parse_message and escape_message_id_header, one after the other.
Canonical(id) == escape_message_id(unescape_message_id(id))

=============================================================================
