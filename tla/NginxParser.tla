----------------------------- MODULE NginxParser -----------------------------
(***************************************************************************)
(* The lexer and the recursive-descent parser of nginx configurations      *)
(* (internal/config/nginx_parser.go).                                      *)
(*                                                                         *)
(* A text is a sequence of atoms: the characters the lexer tells apart,    *)
(* and atoms that stand for runs of the other ones.  A word is a sequence  *)
(* of atoms too, so a value that is put together or taken apart later      *)
(* ("weight=" and a number) is a word of several atoms.                    *)
(***************************************************************************)
EXTENDS Integers, SequencesExt

Spaces == {" ", "\n"}
Marks == {";", "{", "}"}
Quotes == {"\"", "'"}

\* The first place from p on that holds an atom of S, or the end of the text.
RECURSIVE Find(_, _, _)
Find(s, p, S) == IF p > Len(s) \/ s[p] \in S THEN p ELSE Find(s, p + 1, S)

Token(kind, val, pos) == [kind |-> kind, val |-> val, pos |-> pos]

\* Spaces and comments in front of a token.
RECURSIVE Skip(_, _)
Skip(s, p) ==
  IF p > Len(s) THEN p
  ELSE IF s[p] \in Spaces THEN Skip(s, p + 1)
  ELSE IF s[p] = "#" THEN Skip(s, Find(s, p, {"\n"}))
  ELSE p

\* Up to the closing quote or the end of the text; a backslash takes the next atom
\* as it is.
RECURSIVE quoted(_, _, _, _)
quoted(s, quote, p, val) ==
  IF p > Len(s) THEN Token("word", val, p)
  ELSE IF s[p] = quote THEN Token("word", val, p + 1)
  ELSE IF s[p] = "\\" /\ p < Len(s) THEN quoted(s, quote, p + 2, Append(val, s[p + 1]))
  ELSE quoted(s, quote, p + 1, Append(val, s[p]))

readQuoted(s, p) == quoted(s, s[p], p + 1, <<>>)

\* Variant of readWord: a comment does not end a word.
readWordOn(s, p) ==
  LET end == Find(s, p, Spaces \cup Marks) IN Token("word", SubSeq(s, p, end - 1), end)

readWord(s, p) ==
  LET end == Find(s, p, Spaces \cup Marks \cup {"#"}) IN Token("word", SubSeq(s, p, end - 1), end)

\* lexer.next at position p, and lexer.peek without the new position.
next(s, p) ==
  LET q == Skip(s, p)
  IN  IF q > Len(s) THEN Token("eof", <<>>, q)
      ELSE IF s[q] \in Marks THEN Token(s[q], <<s[q]>>, q + 1)
      ELSE IF s[q] \in Quotes THEN readQuoted(s, q)
      ELSE readWord(s, q)

Parsed(nodes, pos) == [ok |-> TRUE, nodes |-> nodes, pos |-> pos]
Failed(pos) == [ok |-> FALSE, nodes |-> <<>>, pos |-> pos]

Node(directive, args, block) == [Directive |-> directive, Args |-> args, Block |-> block]

\* Variant of closes: the end of the text closes a block.
closesAtEnd(kind) == kind \in {"}", "eof"}

\* What must stand behind the nodes of a block.
closes(kind) == kind = "}"

RECURSIVE parseBlock(_, _), parseArgs(_, _, _, _)

\* parseNode behind the directive's name: arguments until ; or { or the end.  Every
\* other token is an argument.
parseArgs(s, p, name, args) ==
  LET t == next(s, p)
      inner == parseBlock(s, t.pos)
      closing == next(s, inner.pos)
  IN  CASE t.kind = ";" -> Parsed(<<Node(name, args, <<>>)>>, t.pos)
        [] t.kind = "eof" -> Parsed(<<Node(name, args, <<>>)>>, p)
        [] t.kind = "{" ->
             IF inner.ok /\ closes(closing.kind)
             THEN Parsed(<<Node(name, args, inner.nodes)>>, closing.pos) ELSE Failed(closing.pos)
        [] OTHER -> parseArgs(s, t.pos, name, Append(args, t.val))

parseNode(s, p) ==
  LET t == next(s, p)
  IN  IF t.kind = "word" THEN parseArgs(s, t.pos, t.val, <<>>) ELSE Failed(t.pos)

\* Nodes until the end of the text or a }, which stays unread.
parseBlock(s, p) ==
  LET node == parseNode(s, p)
      rest == parseBlock(s, node.pos)
  IN  IF next(s, p).kind \in {"eof", "}"} THEN Parsed(<<>>, p)
      ELSE IF node.ok /\ rest.ok THEN Parsed(node.nodes \o rest.nodes, rest.pos)
      ELSE Failed(p)

ParseNginxFile(text) == parseBlock(text, 1)
-----------------------------------------------------------------------------
(***************************************************************************)
(* The reference for texts without quotes and comments: the words, each    *)
(* with the number of braces that are open around it.                      *)
(***************************************************************************)
Opened(s, p) == Cardinality({q \in 1..p : s[q] = "{"}) - Cardinality({q \in 1..p : s[q] = "}"})

NeverBelow(s) == \A p \in 1..Len(s) : Opened(s, p) >= 0

WordsIn(s) ==
  LET starts == SelectSeq([p \in 1..Len(s) |-> p], LAMBDA p :
                  s[p] \notin Spaces \cup Marks /\ (p = 1 \/ s[p - 1] \in Spaces \cup Marks))
  IN  [k \in 1..Len(starts) |-> 
         <<Opened(s, starts[k]), SubSeq(s, starts[k], Find(s, starts[k], Spaces \cup Marks) - 1)>>]

\* The same of a sequence of nodes.
RECURSIVE WordsOf(_, _)
WordsOf(nodes, depth) ==
  FlattenSeq([k \in 1..Len(nodes) |->
    <<<<depth, nodes[k].Directive>>>>
      \o [a \in 1..Len(nodes[k].Args) |-> <<depth, nodes[k].Args[a]>>]
      \o WordsOf(nodes[k].Block, depth + 1)])
=============================================================================
