--------------------------------- MODULE Xml ---------------------------------
(* Parsing XML documents (xml.c). The source is a sequence of lexemes, each  *)
(* a piece of text the tokenizer takes or skips as a whole; positions are    *)
(* those of lexemes. "tree" is the document that is written and parsed, and  *)
(* "content" the text of an element, by pieces.                              *)
EXTENDS Naturals, Sequences, SequencesExt

CONSTANTS ElementNames,      \* of elements and attributes
          MaxNodes,          \* bound on elements and attributes
          MaxPieces          \* bound on the pieces of the content

VARIABLES tree, content

Element(name) == [name |-> name, attribs |-> <<>>, children |-> <<>>]

RECURSIVE Size(_), Grown(_)
Size(e) == 1 + Len(e.attribs) + FoldLeft(LAMBDA n, c : n + Size(c), 0, e.children)
Grown(e) == {[e EXCEPT !.children = Append(@, Element(n))] : n \in ElementNames}
            \cup {[e EXCEPT !.attribs = Append(@, n)] : n \in ElementNames}
            \cup (IF e.children = <<>> THEN {}
                  ELSE {[e EXCEPT !.children[Len(e.children)] = c] : c \in Grown(Last(e.children))})

Pieces == {"a", " ", "&lt;", "&#65;", "&", "<![CDATA[", "]]>", "<!--", "-->"}

Init == tree \in {Element(n) : n \in ElementNames} /\ content = <<>>
Next == \/ Size(tree) < MaxNodes /\ content = <<>> /\ tree' \in Grown(tree) /\ UNCHANGED content
        \/ /\ Size(tree) = 1 /\ Len(content) < MaxPieces
           /\ (\E p \in Pieces : content' = Append(content, p)) /\ UNCHANGED tree
        \/ tree' \in {Element(n) : n \in ElementNames} /\ content' = <<>>

-----------------------------------------------------------------------------
(* Tokens. A parser p has the position, whether it is in a tag, and the last *)
(* token with its type.                                                      *)

Skipped == {" ", "<!---->"}
Literals == {"'v'", "'1.0'", "'UTF-8'"}
FirstIn(src, pos, chosen) ==
  CHOOSE q \in pos..Len(src) + 1 : /\ q > Len(src) \/ src[q] \in chosen
                                   /\ \A r \in pos..q - 1 : src[r] \notin chosen
skipSpace_XmlParser_(src, pos) == FirstIn(src, pos, Range(src) \ Skipped)

TypeInTag(lexeme) ==
  CASE lexeme = "?>" -> "headerClose" [] lexeme = "/>" -> "closeSlash" [] lexeme = ">" -> "close"
    [] lexeme \in ElementNames \cup {"xml", "version", "encoding"} -> "name"
    [] lexeme = "=" -> "assignment" [] lexeme \in Literals -> "stringLiteral" [] OTHER -> "none"
TypeOutside(lexeme) ==
  CASE lexeme = "<?" -> "headerOpen" [] lexeme = "</" -> "openSlash" [] lexeme = "<" -> "open"
    [] OTHER -> "content"

(* A piece of text outside tags goes to the next tag; nothing is taken in a  *)
(* tag that does not belong there.                                           *)
TypeAt(src, pos, inTag) ==
  IF pos > Len(src) THEN "none" ELSE IF inTag THEN TypeInTag(src[pos]) ELSE TypeOutside(src[pos])
Token(src, p, pos, type) ==
  [pos |-> IF type = "none" THEN pos
           ELSE IF type = "content" THEN FirstIn(src, pos, {"<?", "</", "<"}) ELSE pos + 1,
   start |-> pos, type |-> type, token |-> IF type = "none" THEN p.token ELSE src[pos],
   inTag |-> IF type \in {"headerOpen", "openSlash", "open"} THEN TRUE
             ELSE IF type \in {"headerClose", "closeSlash", "close"} THEN FALSE ELSE p.inTag]
TokenAt(src, p, pos) == Token(src, p, pos, TypeAt(src, pos, p.inTag))
nextToken_XmlParser_(src, p) == TokenAt(src, p, skipSpace_XmlParser_(src, p.pos))

init_XmlParser_ == [pos |-> 1, start |-> 1, type |-> "none", token |-> "", inTag |-> FALSE]

-----------------------------------------------------------------------------
(* Elements. An element's content is all that is between its tags.           *)

Failed == [ok |-> FALSE]

RECURSIVE Attributes(_, _, _), Children(_, _, _), parseTree_XmlParser_(_, _), Header(_, _)

(* Whatever token follows the "=" is the value.                              *)
Attributes(src, p, attribs) ==
  LET assignment == nextToken_XmlParser_(src, p)
      value == nextToken_XmlParser_(src, assignment)
  IN  IF p.type \in {"close", "closeSlash"} THEN [ok |-> TRUE, attribs |-> attribs, p |-> p]
      ELSE IF p.type # "name" \/ assignment.type # "assignment" THEN Failed
      ELSE Attributes(src, nextToken_XmlParser_(src, value),
                      Append(attribs, [name |-> p.token, value |-> value.token]))

(* The children up to the end tag, which must have the element's name. While *)
(* it is open the content is where it starts.                                *)
Children(src, p, elem) ==
  IF p.type = "content" THEN Children(src, nextToken_XmlParser_(src, p), elem)
  ELSE IF p.type = "open"
       THEN LET child == parseTree_XmlParser_(src, p)
            IN  IF ~child.ok THEN Failed
                ELSE Children(src, child.p, [elem EXCEPT !.children = Append(@, child.elem)])
  ELSE LET name == nextToken_XmlParser_(src, p)
           close == nextToken_XmlParser_(src, name)
       IN  IF \/ p.type # "openSlash" \/ name.type # "name" \/ name.token # elem.name
              \/ close.type # "close" THEN Failed
           ELSE [ok |-> TRUE, p |-> nextToken_XmlParser_(src, close),
                 elem |-> [elem EXCEPT !.content = SubSeq(src, @, p.start - 1)]]

parseTree_XmlParser_(src, p) ==
  LET name == nextToken_XmlParser_(src, p)
      tag == Attributes(src, nextToken_XmlParser_(src, name), <<>>)
      elem == [name |-> name.token, attribs |-> tag.attribs, children |-> <<>>]
  IN  IF p.type # "open" \/ name.type # "name" \/ ~tag.ok THEN Failed
      ELSE IF tag.p.type = "closeSlash"
           THEN [ok |-> TRUE, p |-> nextToken_XmlParser_(src, tag.p), elem |-> elem @@ ("content" :> <<>>)]
      ELSE Children(src, nextToken_XmlParser_(src, tag.p), elem @@ ("content" :> tag.p.pos))

(* The header must say what it says of version and encoding; one that does   *)
(* not end is read forever.                                                  *)
Header(src, p) ==
  LET next == nextToken_XmlParser_(src, p)
      assignment == nextToken_XmlParser_(src, next)
      value == nextToken_XmlParser_(src, assignment)
  IN  IF p.type = "headerClose" THEN [ok |-> TRUE, p |-> nextToken_XmlParser_(src, p)]
      ELSE IF next.type = "none" THEN [ok |-> FALSE, endless |-> TRUE]
      ELSE IF next.token \in {"version", "encoding"}
           THEN IF /\ assignment.type = "assignment"
                   /\ value.token = (IF next.token = "version" THEN "'1.0'" ELSE "'UTF-8'")
                THEN Header(src, value) ELSE Failed
      ELSE Header(src, next)

parse_XmlDocument(src) ==
  LET first == nextToken_XmlParser_(src, init_XmlParser_)
      name == nextToken_XmlParser_(src, first)
      header == IF first.type # "headerOpen" THEN [ok |-> TRUE, p |-> first]
                ELSE IF name.type # "name" \/ name.token # "xml" THEN Failed ELSE Header(src, name)
      root == parseTree_XmlParser_(src, header.p)
  IN  IF ~header.ok \/ ~root.ok THEN Failed ELSE IF root.p.type # "none" THEN Failed ELSE root

child_XmlElement(e, name) ==
  LET i == SelectInSeq(e.children, LAMBDA c : c.name = name)
  IN  IF i = 0 THEN <<>> ELSE <<e.children[i]>>
attribute_XmlElement(e, name) ==
  LET i == SelectInSeq(e.attribs, LAMBDA a : a.name = name)
  IN  IF i = 0 THEN <<>> ELSE <<e.attribs[i].value>>

-----------------------------------------------------------------------------
(* The text of an element: references are resolved, comments left out,       *)
(* spaces made one. A piece that has no meaning where it is stands for       *)
(* itself; a lone "&" is dropped; a character's number leaves wasSpace.      *)

RECURSIVE DecodeFrom(_, _, _)
DecodeFrom(s, isCData, wasSpace) ==
  LET piece == Head(s)
      rest == Tail(s)
      end == SelectInSeq(rest, LAMBDA q : q = "-->")
  IN  IF s = <<>> THEN <<>>
      ELSE CASE ~isCData /\ piece = "&lt;" -> <<"<">> \o DecodeFrom(rest, FALSE, FALSE)
             [] ~isCData /\ piece = "&#65;" -> <<"A">> \o DecodeFrom(rest, FALSE, wasSpace)
             [] ~isCData /\ piece = "&" -> DecodeFrom(rest, FALSE, wasSpace)
             [] ~isCData /\ piece = "<!--" ->
                  IF end = 0 THEN <<>> ELSE DecodeFrom(SubSeq(rest, end + 1, Len(rest)), FALSE, wasSpace)
             [] ~isCData /\ piece = "<![CDATA[" -> DecodeFrom(rest, TRUE, wasSpace)
             [] isCData /\ piece = "]]>" -> DecodeFrom(rest, FALSE, wasSpace)
             [] piece = " " /\ wasSpace -> DecodeFrom(rest, isCData, TRUE)
             [] OTHER -> <<piece>> \o DecodeFrom(rest, isCData, piece = " ")
decodedContent_XmlElement(s) == DecodeFrom(s, FALSE, FALSE)

-----------------------------------------------------------------------------

(* A document of the tree, with texts, comments and spaces in it or without. *)
RECURSIVE Written(_, _)
Written(e, noisy) ==
  LET attribs == FlattenSeq([i \in DOMAIN e.attribs |-> <<" ", e.attribs[i], "=", "'v'">>])
      children == FlattenSeq([i \in DOMAIN e.children |->
                                (IF noisy THEN <<" ", "1">> ELSE <<>>) \o Written(e.children[i], noisy)
                                \o (IF noisy THEN <<"<!---->">> ELSE <<>>)])
  IN  IF children = <<>> /\ ~noisy THEN <<"<", e.name>> \o attribs \o <<"/>">>
      ELSE <<"<", e.name>> \o attribs \o <<">">> \o children \o <<"</", e.name>>
           \o (IF noisy THEN <<" ">> ELSE <<>>) \o <<">">>
HeaderText == <<"<?", "xml", " ", "version", "=", "'1.0'", " ", "encoding", "=", "'UTF-8'", "?>", " ">>

RECURSIVE Parsed(_)
Parsed(e) == [name |-> e.name, attribs |-> [i \in DOMAIN e.attribs |-> e.attribs[i].name],
              children |-> [i \in DOMAIN e.children |-> Parsed(e.children[i])]]

\* The text outside comments and sections, before spaces are made one.
RECURSIVE Plain(_, _)
Plain(s, isCData) ==
  IF s = <<>> THEN <<>>
  ELSE LET rest == Tail(s)
           end == SelectInSeq(rest, LAMBDA q : q = "-->")
       IN  IF isCData THEN IF Head(s) = "]]>" THEN Plain(rest, FALSE) ELSE <<Head(s)>> \o Plain(rest, TRUE)
           ELSE CASE Head(s) = "<!--" -> IF end = 0 THEN <<>> ELSE Plain(SubSeq(rest, end + 1, Len(rest)), FALSE)
                  [] Head(s) = "<![CDATA[" -> Plain(rest, TRUE)
                  [] Head(s) = "&" -> Plain(rest, FALSE)
                  [] Head(s) = "&lt;" -> <<"<">> \o Plain(rest, FALSE)
                  [] Head(s) = "&#65;" -> <<"A">> \o Plain(rest, FALSE)
                  [] OTHER -> <<Head(s)>> \o Plain(rest, FALSE)

\* The document has the elements of e with their attributes, and the content
\* between the first tag and the last.
Has(doc, e, text) ==
  /\ doc.ok /\ Parsed(doc.elem) = e
  /\ doc.elem.content = IF text[Len(text)] = "/>" THEN <<>>
                        ELSE SubSeq(text, 1 + SelectInSeq(text, LAMBDA x : x = ">"),
                                    SelectLastInSeq(text, LAMBDA x : x = "</") - 1)
  /\ \A n \in ElementNames :
       /\ attribute_XmlElement(doc.elem, n) = (IF n \in Range(e.attribs) THEN <<"'v'">> ELSE <<>>)
       /\ child_XmlElement(doc.elem, n) # <<>> <=> \E c \in Range(e.children) : c.name = n

(* A document that was written is read with all its elements in their order  *)
(* and the content between their tags; one that lacks any of its lexemes is  *)
(* not accepted; and the text of an element is what it says, with single     *)
(* spaces. (Not when a character's number stands between spaces.)            *)
DocumentIsRead ==
  /\ content = <<>> => \A noisy \in BOOLEAN :
       LET text == Written(tree, noisy)
       IN  /\ Has(parse_XmlDocument(HeaderText \o text), tree, text) /\ parse_XmlDocument(text).ok
           /\ \A k \in DOMAIN text :
                text[k] \notin Skipped \cup {"1"} /\ (text[k] = "<" => noisy) =>
                  ~parse_XmlDocument(HeaderText \o RemoveAt(text, k)).ok
  /\ LET plain == Plain(content, FALSE)
     IN  ~(\E i \in DOMAIN content : content[i] = "&#65;" /\ i > 1 /\ " " \in Range(SubSeq(content, 1, i))) =>
           decodedContent_XmlElement(content)
             = FoldLeft(LAMBDA t, c : IF c = " " /\ t # <<>> /\ Last(t) = " " THEN t ELSE Append(t, c),
                        <<>>, plain)
=============================================================================
