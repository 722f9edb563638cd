----------------------------- MODULE LatexParser -----------------------------
(***************************************************************************)
(* What the parser finds in a LaTeX document (orchestrator/src/parser.rs): *)
(* the files it depends on and where its preamble ends.  A line is a       *)
(* sequence of backslashes, percent signs and whole commands; each counts  *)
(* as one character of its text, and every other text is like a command    *)
(* that the parser does not look for.  Names of files have no dot.         *)
(***************************************************************************)
EXTENDS Integers, SequencesExt

CONSTANTS Names,    \* of files, without extension
          Chapters, \* the lists that a document gives to \includeonly
          Sources,  \* the lists it gives to \bibliography
          MaxLength \* bound: characters of a document, with the ends of lines

Command(kind, args) == [kind |-> kind, args |-> args]

Backslash == Command("\\", <<>>)
Percent   == Command("%", <<>>)
Newline   == Command("\n", <<>>)
Begin     == Command("begin document", <<>>)

Tokens ==
  {Backslash, Percent, Begin}
    \cup {Command("include", <<n>>) : n \in Names} \cup {Command("input", <<n>>) : n \in Names}
    \cup {Command("includeonly", list) : list \in Chapters}
    \cup {Command("bibliography", list) : list \in Sources}

VARIABLE content \* the lines of the document

(* A file with the extension that a path without one is given. *)
WithExtension(name, extension) == <<name, extension>>

Elements(list) == {list[i] : i \in DOMAIN list}
First(S)       == CHOOSE i \in S : \A j \in S : i <= j

(* The places of a text, by line and column, and what stands there. *)
Places(text) == UNION {{l} \X DOMAIN text[l] : l \in DOMAIN text}
At(text, p)  == text[p[1]][p[2]]

(* captures_iter: where a command is found.  Of the order of what it finds  *)
(* only the first is used.                                                  *)
Captures(text, kind) == {p \in Places(text) : At(text, p).kind = kind}
IsBefore(p, q)       == p[1] < q[1] \/ (p[1] = q[1] /\ p[2] < q[2])
FirstPlace(places)   == CHOOSE p \in places : \A q \in places : ~IsBefore(q, p)

-----------------------------------------------------------------------------
(* strip_comments *)

(* A slip of the scan: a backslash escapes whatever follows it, another     *)
(* backslash included.                                                      *)
EscapedByAny(line) == [i \in 0 .. Len(line) |-> i > 0 /\ line[i] = Backslash]

(* The flag after each character of a line. *)
Escaped(line) ==
  LET escaped[i \in 0 .. Len(line)] == i > 0 /\ line[i] = Backslash /\ ~escaped[i - 1]
  IN escaped

CommentStarts(line) == {i \in DOMAIN line : line[i] = Percent /\ ~Escaped(line)[i - 1]}

StripLine(line) ==
  IF CommentStarts(line) = {} THEN line ELSE SubSeq(line, 1, First(CommentStarts(line)) - 1)

Stripped(text) == [l \in DOMAIN text |-> StripLine(text[l])]

(* The characters of a text, in their order. *)
Stream(text) == FlattenSeq([l \in DOMAIN text |-> Append(text[l], Newline)])

-----------------------------------------------------------------------------
(* parse *)

(* A slip of parse: a commented \includeonly counts. *)
IncludeOnlyRaw(text) == Captures(text, "includeonly")

(* The \includeonly directives found; the first is the filter. *)
IncludeOnly(text) == Captures(Stripped(text), "includeonly")

IsFiltered(text, name) ==
  /\ IncludeOnly(text) # {}
  /\ name \notin Elements(At(text, FirstPlace(IncludeOnly(text))).args)

(* \include is looked for line by line in the text with its comments. *)
Includes(text) ==
  {[path |-> At(text, p).args[1], is_filtered |-> IsFiltered(text, At(text, p).args[1]), line |-> p[1]] :
     p \in Captures(text, "include")}

Inputs(text) == {At(text, p).args[1] : p \in Captures(Stripped(text), "input")}

Bibliographies(text) ==
  {WithExtension(name, "bib") :
     name \in UNION {Elements(At(text, p).args) : p \in Captures(Stripped(text), "bibliography")}}

(* The offset of \begin{document}, in a set that is empty for None. *)
PreambleEnd(text) ==
  LET stream == Stream(Stripped(text))
      begins == {i \in DOMAIN stream : stream[i] = Begin}
  IN IF begins = {} THEN {} ELSE {First(begins) - 1}

Parse(text) ==
  [includes       |-> Includes(text),
   inputs         |-> Inputs(text),
   bibliographies |-> Bibliographies(text),
   preamble_end   |-> PreambleEnd(text)]

(* get_all_dependencies *)
AllDependencies(doc) ==
  {WithExtension(inc.path, "tex") : inc \in {i \in doc.includes : ~i.is_filtered}}
    \cup {WithExtension(name, "tex") : name \in doc.inputs}
    \cup doc.bibliographies

-----------------------------------------------------------------------------
(* A user writes the document. *)

ParserInit == content = << <<>> >>

Write(token) ==
  /\ Len(Stream(content)) <= MaxLength
  /\ content' = [content EXCEPT ![Len(content)] = Append(@, token)]

BreakLine ==
  /\ Len(Stream(content)) <= MaxLength
  /\ content' = Append(content, <<>>)

ParserNext == BreakLine \/ \E token \in Tokens : Write(token)

ParserSpec == ParserInit /\ [][ParserNext]_content

-----------------------------------------------------------------------------
(* What TeX makes of the same document *)

(* The backslashes right before a place of a line. *)
BackslashesBefore(line, i) ==
  {k \in 1 .. i - 1 : \A m \in k .. i - 1 : line[m] = Backslash}

IsEscaped(line, i) == Cardinality(BackslashesBefore(line, i)) % 2 = 1
InComment(line, i) == \E k \in 1 .. i : line[k] = Percent /\ ~IsEscaped(line, k)

(* Where a command stands outside comments, and the ones TeX executes. *)
Live(text, kind) == {p \in Captures(text, kind) : ~InComment(text[p[1]], p[2])}

Executed(text, kind) ==
  {At(text, p) : p \in {q \in Live(text, kind) : ~IsEscaped(text[q[1]], q[2])}}

Named(text, kind) == UNION {Elements(command.args) : command \in Executed(text, kind)}

FilesRead(text) ==
  {WithExtension(n, "tex") :
     n \in IF Executed(text, "includeonly") = {} THEN Named(text, "include")
           ELSE Named(text, "include") \cap Named(text, "includeonly")}
    \cup {WithExtension(n, "tex") : n \in Named(text, "input")}
    \cup {WithExtension(n, "bib") : n \in Named(text, "bibliography")}

(* Of several filters the parser takes the first and TeX the last, and the *)
(* parser finds one behind a line break \\ too.                            *)
FilterIsUsual(text) ==
  /\ \A p, q \in Live(text, "includeonly") : p = q
  /\ \A p \in Live(text, "includeonly") : ~IsEscaped(text[p[1]], p[2])

-----------------------------------------------------------------------------
(* Properties *)

(* No file is missed that TeX reads, wherever comments, escaped percent     *)
(* signs and the filter stand: a missed one would be an edit after which    *)
(* nothing is compiled.                                                     *)
NoDependencyIsMissed ==
  FilterIsUsual(content) => FilesRead(content) \subseteq AllDependencies(Parse(content))

(* strip_comments removes what TeX takes for a comment and nothing else.    *)
CommentsAreStripped ==
  \A l \in DOMAIN content : \E n \in 0 .. Len(content[l]) :
    /\ Stripped(content)[l] = SubSeq(content[l], 1, n)
    /\ \A i \in DOMAIN content[l] : i > n <=> InComment(content[l], i)

(* parser.rs: "Custom preamble end position (for .fmt generation)", and the *)
(* test that cuts the document there: the document goes on with             *)
(* \begin{document} at preamble_end.                                        *)
PreambleEndsAtBeginDocument ==
  \A end \in Parse(content).preamble_end : Stream(content)[end + 1] = Begin
=============================================================================
