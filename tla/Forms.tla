-------------------------------- MODULE Forms --------------------------------
(***************************************************************************)
(* The two parsers of multipart forms.  extract_file_from_request          *)
(* (submission.rs) returns the bytes of an uploaded file, both for the     *)
(* submission of code and for the upload of tests: it cuts the body at the *)
(* boundary the header names, and the first part that is not empty at line *)
(* breaks, drops the lines before the file and joins the rest again; both  *)
(* cuts run the loop of split_bytes_by_bytes, here one turn per step.      *)
(* parse_body_with_boundaries (problem.rs) returns the fields of the form  *)
(* on the edit page, by lines.                                             *)
(***************************************************************************)
EXTENDS SequencesExt, Integers

CONSTANTS Cr, Lf, Dash,  \* three bytes
          Letter,        \* any other byte
          Name, Description, \* stand for the headers that name a field
          Boundary,      \* the boundary of the client: a sequence of bytes
          NoBoundary,    \* the bytes of "no-boundary"
          MaxFile        \* bound on the length of a file or text

FileBytes == {Cr, Lf, Dash, Letter}

\* A header has no line breaks, so neither has a boundary.
ASSUME FormsAssumption ==
    /\ MaxFile \in Nat
    /\ Cardinality(FileBytes) = 4
    /\ Boundary \in Seq(FileBytes \ {Cr, Lf}) /\ Boundary # <<>>
    /\ NoBoundary \in Seq(Range(NoBoundary)) /\ NoBoundary \notin Seq(FileBytes)
    /\ {Name, Description} \cap FileBytes = {}

VARIABLES
    sent,   \* the file or text the client sends
    kind,   \* how: a form with a file, the edit page, or the bare bytes
    pc,
    data, splitter, i, current, parts,  \* of split_bytes_by_bytes
    got     \* what the server gets: the file, or the fields of the edit page

loop == <<data, splitter, i, current, parts>>
vars == <<sent, kind, pc, loop, got>>

LineBreak == <<Cr, Lf>>

Delimiter(boundary) == <<Dash, Dash>> \o boundary

StartsWith(s, from, prefix) == IsPrefix(prefix, SubSeq(s, from, Len(s)))

Occurs(pattern, s) == \E k \in 1..Len(s) : StartsWith(s, k, pattern)

\* join_bytes, and join of the standard library.
Join(s, by) ==
    FoldLeft(LAMBDA bytes, k : bytes \o s[k] \o (IF k = Len(s) THEN <<>> ELSE by),
             <<>>, [k \in 1..Len(s) |-> k])

\* str::split: cuts from left to right.
Cut(s, by) ==
    LET turn(a, k) ==
            IF a.skip > 0 THEN [a EXCEPT !.skip = @ - 1]
            ELSE IF StartsWith(s, k, by)
            THEN [done |-> Append(a.done, a.last), last |-> <<>>, skip |-> Len(by) - 1]
            ELSE [a EXCEPT !.last = Append(@, s[k])]
        end == FoldLeft(turn, [done |-> <<>>, last |-> <<>>, skip |-> 0],
                        [k \in 1..Len(s) |-> k])
    IN  Append(end.done, end.last)

-----------------------------------------------------------------------------
(***************************************************************************)
(* The client, a browser that shows one of the server's pages: a file has  *)
(* two headers, a text one.  The boundary is chosen not to be in the       *)
(* contents; line breaks of a text are sent as Cr Lf.                      *)
(***************************************************************************)
Field(headers, contents) ==
    Delimiter(Boundary) \o LineBreak \o Join(headers, LineBreak) \o LineBreak
      \o LineBreak \o contents \o LineBreak

Closing == Delimiter(Boundary) \o <<Dash, Dash>> \o LineBreak

FileForm(contents) == Field(<< <<Letter>>, <<Letter>> >>, contents) \o Closing

TextForm(name, description) ==
    Field(<< <<Name>> >>, name) \o
    Field(<< <<Description>> >>, Join(Cut(description, <<Lf>>), LineBreak)) \o Closing

\* The content-type header, cut at `;` and each piece at `=`.
ContentType ==
    IF kind = "file" THEN << <<"multipart/form-data">>, <<"boundary", Boundary>> >>
                     ELSE << <<"text/plain">> >>

\* The last piece that names a boundary counts.
BoundaryOf(pieces) ==
    LET named == {k \in DOMAIN pieces : Len(pieces[k]) = 2 /\ pieces[k][1] = "boundary"}
    IN  IF named = {} THEN NoBoundary ELSE pieces[Max(named)][2]

\* The loop starts on new data.
Split(bytes, by) ==
    /\ data' = bytes
    /\ splitter' = by
    /\ i' = 1
    /\ current' = <<>>
    /\ parts' = <<>>

Init ==
    /\ sent \in BoundedSeq(FileBytes, MaxFile)
    /\ kind \in {"file", "text", "bytes"}
    /\ kind # "bytes" => ~Occurs(Delimiter(Boundary), sent)
    /\ kind = "text" => ~Contains(sent, Cr)
    /\ pc = "start"
    /\ data = <<>> /\ splitter = <<>>
    /\ i = 1
    /\ current = <<>> /\ parts = <<>>
    /\ got = <<>>

Start ==
    /\ pc = "start"
    /\ kind # "text"
    /\ pc' = "split_body"
    /\ Split(IF kind = "file" THEN FileForm(sent) ELSE sent,
             Delimiter(BoundaryOf(ContentType)))
    /\ UNCHANGED <<sent, kind, got>>

-----------------------------------------------------------------------------
(***************************************************************************)
(* split_bytes_by_bytes: one turn of the loop, and its result.             *)
(***************************************************************************)
Splitting == pc \in {"split_body", "split_part"}

AtSplitter == StartsWith(data, i, splitter)

\* Mutant: the search goes on inside the splitter.
BugAfterSplitter == i + 1

AfterSplitter == i + Len(splitter)

EndPart ==
    /\ Splitting
    /\ i <= Len(data)
    /\ AtSplitter
    /\ parts' = Append(parts, current)
    /\ current' = <<>>
    /\ i' = AfterSplitter
    /\ UNCHANGED <<sent, kind, pc, data, splitter, got>>

PushByte ==
    /\ Splitting
    /\ i <= Len(data)
    /\ ~AtSplitter
    /\ current' = Append(current, data[i])
    /\ i' = i + 1
    /\ UNCHANGED <<sent, kind, pc, data, splitter, parts, got>>

AllParts == Append(parts, current)

\* Vec::pop of an empty vector does nothing.
Pop(s) == IF s = <<>> THEN s ELSE Front(s)

-----------------------------------------------------------------------------
\* Vec::retain with !is_empty().
Retain(s) ==
    FoldLeft(LAMBDA kept, part : IF part = <<>> THEN kept ELSE Append(kept, part),
             <<>>, s)

\* The parts of the body: the last is what follows the closing boundary.
FormParts == Pop(Retain(AllParts))

\* "No file in request"
NoFile ==
    /\ pc = "split_body"
    /\ i > Len(data)
    /\ FormParts = <<>>
    /\ pc' = "no_file"
    /\ UNCHANGED <<sent, kind, loop, got>>

FirstPart ==
    /\ pc = "split_body"
    /\ i > Len(data)
    /\ FormParts # <<>>
    /\ pc' = "split_part"
    /\ Split(Head(FormParts), LineBreak)
    /\ UNCHANGED <<sent, kind, got>>

\* Mutant: one line too few.
BugHeaderLines == 3

\* The rest of the boundary's line, two headers and an empty line.
HeaderLines == 4

\* Vec::remove panics when there is no such line.
FileOfPart ==
    /\ pc = "split_part"
    /\ i > Len(data)
    /\ pc' = IF Len(AllParts) < HeaderLines THEN "panicked" ELSE "done"
    /\ got' = Join(Pop(SubSeq(AllParts, HeaderLines + 1, Len(AllParts))), LineBreak)
    /\ UNCHANGED <<sent, kind, loop>>

-----------------------------------------------------------------------------
(***************************************************************************)
(* parse_body_with_boundaries.                                             *)
(***************************************************************************)
\* str::lines: a line may end in Lf or Cr Lf, and the last may be missing.
Lines(s) ==
    LET cut == Cut(s, <<Lf>>)
        line(k) == IF k < Len(cut) /\ cut[k] # <<>> /\ Last(cut[k]) = Cr
                   THEN Front(cut[k]) ELSE cut[k]
        lines == [k \in 1..Len(cut) |-> line(k)]
    IN  IF Last(lines) = <<>> THEN Front(lines) ELSE lines

\* Mutant: the empty lines between the header and the contents stay.
BugTrim(lines) ==
    LET full == {k \in DOMAIN lines : lines[k] # <<>>}
    IN  IF full = {} THEN <<>> ELSE SubSeq(lines, 1, Max(full))

\* Without the empty lines at both ends.
Trim(lines) ==
    LET full == {k \in DOMAIN lines : lines[k] # <<>>}
    IN  IF full = {} THEN <<>> ELSE SubSeq(lines, Min(full), Max(full))

\* The boundary is the first line.  An element without a named header, as the
\* one after the closing boundary, is not a field.
Fields(body) ==
    LET boundary == Lines(body)[1]
        elements == SelectSeq([k \in DOMAIN Cut(body, boundary) |->
                                  Trim(Lines(Cut(body, boundary)[k]))],
                              LAMBDA e : e # <<>> /\ e[1] \in {<<Name>>, <<Description>>})
    IN  [n \in {elements[k][1][1] : k \in DOMAIN elements} |->
            LET last == Max({k \in DOMAIN elements : elements[k][1] = <<n>>})
            IN  <<Lf>> \o Join(Trim(Tail(elements[last])), <<Lf>>)]

\* handle_problem_editing stores what it gets.
EditForm ==
    /\ pc = "start"
    /\ kind = "text"
    /\ pc' = "done"
    /\ got' = Fields(TextForm(<<Letter>>, sent))
    /\ UNCHANGED <<sent, kind, loop>>

Ended == pc \in {"done", "no_file", "panicked"}

Next ==
    \/ Start
    \/ EndPart
    \/ PushByte
    \/ NoFile
    \/ FirstPart
    \/ FileOfPart
    \/ EditForm
    \/ (Ended /\ UNCHANGED vars)

Spec == Init /\ [][Next]_vars

-----------------------------------------------------------------------------
(***************************************************************************)
(* A file sent by a form arrives byte for byte, whatever line breaks and   *)
(* pieces of the boundary it has, at its ends too; a request that is no    *)
(* such form is refused, and nothing panics.                               *)
(***************************************************************************)
FileArrives ==
    Ended /\ kind # "text" =>
        /\ pc = (IF kind = "file" THEN "done" ELSE "no_file")
        /\ kind = "file" => got = sent

(***************************************************************************)
(* In every turn of the loop the parts so far, joined again, are the bytes *)
(* read so far, and no part contains the splitter.                         *)
(***************************************************************************)
NothingIsLost ==
    Splitting => /\ Join(AllParts, splitter) = SubSeq(data, 1, i - 1)
                 /\ \A k \in DOMAIN AllParts : ~Occurs(splitter, AllParts[k])

(***************************************************************************)
(* Saving the edit page again without a change changes nothing: the text   *)
(* does not grow by the line break the server puts before it (a browser    *)
(* drops a first line break of what it shows).  The fields do not mix.     *)
(***************************************************************************)
SavedTextIsStable ==
    Ended /\ kind = "text" =>
        /\ DOMAIN got = {Name, Description}
        /\ got[Name] = <<Lf, Letter>>
        /\ Fields(TextForm(Tail(got[Name]), Tail(got[Description]))) = got
=============================================================================
