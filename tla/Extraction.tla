------------------------------ MODULE Extraction ------------------------------
(***************************************************************************)
(* extract_text (app/documents/extraction/extractors.py), as the worker    *)
(* process runs it, and build_extracted_document, as its parent does: the  *)
(* parser gives one unit of text after another (the pages of a PDF, the    *)
(* paragraphs and tables of a DOCX, the whole of a TXT), which are counted *)
(* against the limit as they come, joined into one buffer, and recorded as *)
(* the ranges where the pages fell.  A step is a unit, or a page.          *)
(***************************************************************************)
EXTENDS Integers, Sequences

CONSTANTS
    Files,          \* [type, sound, units]: what the parser makes of a file
    MaxCharacters   \* the limit handed to the worker

\* A unit is the number of its characters and of the bytes each takes; a file that is
\* not sound is encrypted, malformed, not UTF-8, or an archive shaped like a bomb.
ContentTypes == {"txt", "pdf", "docx"}
ASSUME FileAssumption ==
    /\ MaxCharacters \in Nat \ {0}
    /\ \A f \in Files : /\ f.type \in ContentTypes /\ f.sound \in BOOLEAN
                        /\ f.units \in Seq([length : Nat, width : Nat \ {0}])
                        /\ f.type = "txt" => Len(f.units) = 1

VARIABLES
    file,
    taken,          \* how many of its units have been read
    running,        \* the count that is held against the limit
    pageTexts,      \* what extract_text returns
    buffer, pages,  \* ExtractedDocument, as far as it is built
    extraction      \* "opening" | "reading" | "joining" | "done" | "refused"

extractionVars == <<file, taken, running, pageTexts, buffer, pages, extraction>>

ExtractionInit ==
    /\ file \in Files
    /\ taken = 0 /\ running = 0 /\ pageTexts = <<>>
    /\ buffer = <<>> /\ pages = <<>> /\ extraction = "opening"

\* The characters of a unit, told apart by their origin.
Text(n) == [i \in 1..file.units[n].length |-> <<n, i>>]
Separator == <<<<0, 0>>>>

Refuse == /\ extraction' = "refused"
          /\ UNCHANGED <<file, taken, running, pageTexts, buffer, pages>>

\* The guards before the parser: of an archive, and of a text file's bytes.
Guarded == file.type = "txt" => file.units[1].length * file.units[1].width <= MaxCharacters
OpenFile ==
    /\ extraction = "opening"
    /\ IF file.sound /\ Guarded
       THEN /\ extraction' = "reading"
            /\ UNCHANGED <<file, taken, running, pageTexts, buffer, pages>>
       ELSE Refuse

\* A paragraph or table without text is passed over; others go to the one page a DOCX has.
Counted(n) == IF file.type = "docx" /\ file.units[n].length > 0
              THEN file.units[n].length + Len(Separator) ELSE file.units[n].length
Extended(n) == CASE file.type # "docx" -> Append(pageTexts, Text(n))
             [] file.type = "docx" /\ Text(n) = <<>> -> pageTexts
             [] file.type = "docx" /\ Text(n) # <<>> /\ pageTexts = <<>> -> <<Text(n)>>
             [] OTHER -> <<pageTexts[1] \o Separator \o Text(n)>>
WithinLimit(n) == running + Counted(n) <= MaxCharacters
ReadUnit ==
    /\ extraction = "reading" /\ taken < Len(file.units)
    /\ IF WithinLimit(taken + 1)
       THEN /\ taken' = taken + 1
            /\ running' = running + Counted(taken')
            /\ pageTexts' = Extended(taken')
            /\ UNCHANGED <<file, buffer, pages, extraction>>
       ELSE Refuse

\* A page the parser fails on.
Unreadable ==
    /\ extraction = "reading" /\ file.type # "txt" /\ taken < Len(file.units)
    /\ Refuse

\* A DOCX without text is one empty page; a PDF without pages is refused.
EndOfFile ==
    /\ extraction = "reading" /\ taken = Len(file.units)
    /\ IF file.type = "pdf" /\ pageTexts = <<>>
       THEN Refuse
       ELSE /\ pageTexts' = IF pageTexts = <<>> THEN <<<<>>>> ELSE pageTexts
            /\ extraction' = "joining"
            /\ UNCHANGED <<file, taken, running, buffer, pages>>

\* One round of build_extracted_document: the separator belongs to the page before it.
Piece(n) == IF n = Len(pageTexts) THEN pageTexts[n] ELSE pageTexts[n] \o Separator
EndsBefore(n) == Len(buffer) + Len(pageTexts[n])                           \* mutant
EndOf(n) == Len(buffer) + Len(Piece(n))
Place ==
    LET n == Len(pages) + 1
    IN  /\ extraction = "joining" /\ n <= Len(pageTexts)
        /\ pages' = Append(pages, [number |-> n, start |-> Len(buffer), end |-> EndOf(n)])
        /\ buffer' = buffer \o Piece(n)
        /\ UNCHANGED <<file, taken, running, pageTexts, extraction>>

\* ExtractedDocument refuses ranges that do not follow each other, or do not cover it.
Contiguous ==
    /\ pages[1].start = 0 /\ pages[Len(pages)].end = Len(buffer)
    /\ \A n \in 2..Len(pages) : pages[n].start = pages[n - 1].end
Assemble ==
    /\ extraction = "joining" /\ Len(pages) = Len(pageTexts)
    /\ IF Contiguous
       THEN /\ extraction' = "done"
            /\ UNCHANGED <<file, taken, running, pageTexts, buffer, pages>>
       ELSE Refuse

ExtractionNext == OpenFile \/ ReadUnit \/ Unreadable \/ EndOfFile \/ Place \/ Assemble
ExtractionSpec == ExtractionInit /\ [][ExtractionNext]_extractionVars

\* pages_covering, for a range that is not empty.
PagesCovering(a, b) ==
    {pages[n].number : n \in {m \in 1..Len(pages) : pages[m].start < b /\ a < pages[m].end}}
-----------------------------------------------------------------------------
\* What was extracted is what the parser gave, once and in order; the pages named for a
\* span of it are those its characters came from, though pages are empty and a separator
\* stands between two of them; no file is refused once it is read to its end within the
\* limit; and the worker never holds more than the limit, of a text file not even in bytes
\* (extraction/models.py:9-14, extractors.py:10-16, 110-124).
Origin(i) == buffer[i][1]
OfPage(i) == IF file.type = "pdf" THEN Origin(i) ELSE 1
Characters == {i \in 1..Len(buffer) : buffer[i] # Separator[1]}
AllUnits == UNION {{<<n, i>> : i \in 1..file.units[n].length} : n \in 1..Len(file.units)}
PagesHoldTheirText ==
    /\ running <= MaxCharacters
    /\ extraction = "done" =>
         /\ {buffer[i] : i \in Characters} = AllUnits
         /\ \A i, j \in Characters : i < j =>
              \/ Origin(i) < Origin(j)
              \/ Origin(i) = Origin(j) /\ buffer[i][2] < buffer[j][2]
         /\ \A a, b \in Characters : a <= b =>
              {OfPage(i) : i \in Characters \cap a..b} \subseteq PagesCovering(a - 1, b)
         /\ \A a \in Characters : PagesCovering(a - 1, a) = {OfPage(a)}
    /\ extraction = "refused" => taken < Len(file.units) \/ file.units = <<>>
=============================================================================
