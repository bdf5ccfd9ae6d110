------------------------------- MODULE Tables -------------------------------
(***************************************************************************)
(* How records are found in a document: the tables of a PDF's text in        *)
(* src/utils/pdfExtractor.ts, by the rules drawn around them (lattice mode)  *)
(* or by their layout (stream mode), the simpler reading of the same text in *)
(* src/features/workflow/services/attachmentParsers.ts, and the two readings *)
(* of a worksheet, there and in src/parsers/implementations/XLSXParser.ts.   *)
(* The loops of both modes over the lines are the steps of this module; what *)
(* they have found so far is what they return if the text ends here.         *)
(***************************************************************************)
EXTENDS Integers, FiniteSets, Sequences, SequencesExt

CONSTANTS
    MaxLines,      \* bound: lines of a document
    HeaderWindow,  \* the lines among which attachmentParsers.ts looks for a header
    SheetColumns,  \* bound: columns of a worksheet
    SheetRows      \* bound: rows of a worksheet below its header

ASSUME TablesAssumption ==
    MaxLines \in Nat /\ HeaderWindow \in Nat /\ SheetColumns \in Nat /\ SheetRows \in Nat

\* What the code looks at in a line: is it a rule, how many words it has, how
\* many of them are capitalized, how many columns, is it ten characters long.
LineKinds == [
    rule   |-> [border |-> TRUE,  words |-> 1, caps |-> 0, cols |-> 1, long |-> TRUE],
    grid   |-> [border |-> TRUE,  words |-> 3, caps |-> 0, cols |-> 3, long |-> TRUE],
    header |-> [border |-> FALSE, words |-> 3, caps |-> 3, cols |-> 3, long |-> TRUE],
    row    |-> [border |-> FALSE, words |-> 3, caps |-> 0, cols |-> 3, long |-> TRUE],
    digits |-> [border |-> FALSE, words |-> 3, caps |-> 0, cols |-> 3, long |-> FALSE],
    named  |-> [border |-> FALSE, words |-> 3, caps |-> 2, cols |-> 2, long |-> TRUE],
    text   |-> [border |-> FALSE, words |-> 8, caps |-> 1, cols |-> 1, long |-> TRUE]]

VARIABLES
    docLines,       \* the lines read, by kind
    latticeIn,      \* inTable
    latticeLines,   \* extractLatticeMode's currentTable: numbers of lines
    latticeTables,  \* the tables it has closed, as sequences of records
    streamLines,    \* extractStreamMode's currentTableLines, empty while not in a table
    streamTables,
    sheet           \* a worksheet: the cells filled in each row, the first its header

tableVars == <<docLines, latticeIn, latticeLines, latticeTables, streamLines, streamTables, sheet>>

TablesInit ==
    /\ docLines = <<>>
    /\ latticeIn = FALSE /\ latticeLines = <<>> /\ latticeTables = <<>>
    /\ streamLines = <<>> /\ streamTables = <<>>
    /\ sheet = <<>>

Line(n) == LineKinds[docLines[n]]

LeastOr(S, otherwise) ==
    IF S = {} THEN otherwise ELSE CHOOSE i \in S : \A j \in S : i <= j

AtMost(a, b) == IF a <= b THEN a ELSE b

\* How many members of S, a set of numbers, are not above n.
Rank(n, S) == Cardinality({m \in S : m <= n})

\* The values of a function on a set of numbers, in the order of these.
Listed(f) ==
    [j \in 1 .. Cardinality(DOMAIN f) |->
       f[CHOOSE n \in {m \in DOMAIN f : Rank(m, DOMAIN f) = j} : TRUE]]

-----------------------------------------------------------------------------
(* The records of one table                                                 *)

MultipleWords(line) == line.words >= 3
HeaderLike(line) == MultipleWords(line) /\ line.caps >= 2

\* The lines of a table below its header, the h-th of them, that have at least two
\* and half as many columns as it; the columns that exceed it share one field.
RecordsBelow(kinds, lines, h) ==
    LET width == kinds[h].cols
        rows == {i \in h + 1 .. Len(lines) : kinds[i].cols >= 2 /\ 2 * kinds[i].cols >= width}
        record(i) == [line |-> lines[i],
                      fields |-> IF kinds[i].cols > width THEN width + 1 ELSE kinds[i].cols]
    IN IF width < 2 THEN <<>> ELSE Listed([i \in rows |-> record(i)])

Kinds(document, lines) == [i \in DOMAIN lines |-> LineKinds[document[lines[i]]]]

\* Its header is the first of three lines that looks like one, or else its first.
ProcessLatticeTable(document, lines) ==
    LET kinds == Kinds(document, lines)
        header == LeastOr({i \in 1 .. AtMost(3, Len(lines)) : HeaderLike(kinds[i])}, 1)
    IN IF Len(lines) < 2 THEN <<>> ELSE RecordsBelow(kinds, lines, header)

ProcessStreamTable(document, lines) == RecordsBelow(Kinds(document, lines), lines, 1)

\* tables with one more, if that has records.
WithTable(tables, records) == IF records = <<>> THEN tables ELSE Append(tables, records)

-----------------------------------------------------------------------------
(* The loops over the lines                                                 *)

\* A rule begins a table; the next one ends it, except one that follows at
\* once, which counts as a line of the table.
LatticeLine(document, n) ==
    LET border == LineKinds[document[n]].border
        closes == border /\ latticeLines # <<>>
    IN
    IF ~ latticeIn
    THEN /\ latticeIn' = border
         /\ UNCHANGED <<latticeLines, latticeTables>>
    ELSE /\ latticeIn' = ~ closes
         /\ latticeLines' = IF closes THEN <<>> ELSE Append(latticeLines, n)
         /\ latticeTables' =
              IF closes
              THEN WithTable(latticeTables, ProcessLatticeTable(document, latticeLines))
              ELSE latticeTables

\* Mutant: a table of two lines is enough.
LongEnough(lines) == Len(lines) >= 2

EnoughLines(lines) == Len(lines) >= 3

\* A line like a header begins a table, which goes on while lines have many words.
StreamLine(document, n) ==
    LET line == LineKinds[document[n]] IN
    CASE streamLines = <<>> ->
            /\ streamLines' = IF HeaderLike(line) THEN <<n>> ELSE <<>>
            /\ UNCHANGED streamTables
      [] streamLines # <<>> /\ MultipleWords(line) ->
            streamLines' = Append(streamLines, n) /\ UNCHANGED streamTables
      [] OTHER ->
            /\ streamLines' = <<>>
            /\ streamTables' = IF EnoughLines(streamLines)
                               THEN WithTable(streamTables, ProcessStreamTable(document, streamLines))
                               ELSE streamTables

NextLine ==
    /\ sheet = <<>> /\ Len(docLines) < MaxLines
    /\ \E kind \in DOMAIN LineKinds :
         LET document == Append(docLines, kind) IN
         /\ docLines' = document
         /\ LatticeLine(document, Len(document))
         /\ StreamLine(document, Len(document))
    /\ UNCHANGED sheet

\* What the loops have found when the text ends here.
LatticeTables == WithTable(latticeTables, ProcessLatticeTable(docLines, latticeLines))

StreamTables ==
    IF EnoughLines(streamLines)
    THEN WithTable(streamTables, ProcessStreamTable(docLines, streamLines))
    ELSE streamTables

-----------------------------------------------------------------------------
(* Confidence                                                               *)

\* Records, fields and the squared deviation of their number, all times the
\* square of the number of records, of some tables.
Measure(tables) ==
    LET fields == [i \in DOMAIN FlattenSeq(tables) |-> FlattenSeq(tables)[i].fields]
        total == FoldSeq(LAMBDA x, y : x + y, 0, fields)
        squares == FoldSeq(LAMBDA x, y : x * x + y, 0, fields)
    IN [records |-> Len(fields), fields |-> total,
        deviation |-> Len(fields) * squares - total * total]

\* calculateLatticeConfidence >= 0.7, with the root and the fractions taken
\* out: three fields a record are enough, fewer must be regular.
LatticeConfident(tables) ==
    LET m == Measure(tables)
        slack == 7 * m.fields - 12 * m.records
    IN /\ tables # <<>>
       /\ \/ m.fields >= 3 * m.records
          \/ /\ slack >= 0
             /\ 81 * m.records * m.records * m.deviation <= m.fields * m.fields * slack * slack

\* calculateStreamConfidence >= 0.7, never so of two fields a record.
StreamConfident(tables) ==
    LET m == Measure(tables)
        slack == 18 * m.fields - 43 * m.records
    IN /\ tables # <<>>
       /\ IF m.fields >= 3 * m.records
          THEN 729 * m.deviation <= 121 * m.fields * m.fields
          ELSE /\ slack >= 0
               /\ 729 * m.records * m.records * m.deviation <= m.fields * m.fields * slack * slack

\* extractTablesFromPDF in the mode "auto", its default.
ByLattice == LatticeConfident(LatticeTables)
ExtractedTables == IF ByLattice THEN LatticeTables ELSE StreamTables
Extracted == ByLattice \/ StreamConfident(StreamTables)

-----------------------------------------------------------------------------
(* attachmentParsers.ts                                                     *)

\* extractTabularDataFromPDF: one header for the whole text, and every longer
\* line of three columns below it is a record.
TabularData ==
    LET isHeader(n) == Line(n).words >= 3 /\ Line(n).caps >= 3
        header == LeastOr({n \in 1 .. AtMost(HeaderWindow, Len(docLines)) : isHeader(n)}, 1)
        isRow(n) == Line(n).long /\ Line(n).cols >= 3 /\ Line(header).cols >= 3
    IN Listed([n \in {m \in header + 1 .. Len(docLines) : isRow(m)} |-> n])

Columns == 1 .. SheetColumns

\* The records of a sheet are functions from headers, "h" with the number of
\* their column, or "c" with it for a column without one, to the column read.
\* parseXLSX: headers are numbered by the filled cells of the header row only,
\* and cells beyond their number are dropped.
ParseXLSX(header, row) ==
    LET headers == Listed([c \in header |-> c])
    IN {<<<<"h", headers[c]>>, c>> : c \in row \cap DOMAIN headers}

\* XLSXParser's processWorksheet.
ProcessWorksheet(header, row) ==
    {<<<<IF c \in header THEN "h" ELSE "c", c>>, c>> : c \in row}

\* A worksheet, instead of a text.  Empty rows make no record in either.
ReadSheet ==
    /\ docLines = <<>> /\ sheet = <<>>
    /\ sheet' \in [1 .. SheetRows + 1 -> SUBSET Columns]
    /\ UNCHANGED <<docLines, latticeIn, latticeLines, latticeTables, streamLines, streamTables>>

TablesNext == NextLine \/ ReadSheet

-----------------------------------------------------------------------------
TablesTypeOK ==
    /\ Len(docLines) <= MaxLines
    /\ latticeIn \in BOOLEAN
    /\ latticeLines # <<>> => latticeIn
    /\ \A i \in DOMAIN latticeLines : latticeLines[i] \in DOMAIN docLines
    /\ \A i \in DOMAIN streamLines : streamLines[i] \in DOMAIN docLines
    /\ \A c \in DOMAIN sheet : sheet[c] \subseteq Columns

Numbers(from, to) == [i \in 1 .. to - from + 1 |-> from + i - 1]

\* The rules of the text, and those that begin a table, every other one.
Rules == {n \in DOMAIN docLines : Line(n).border}
Opening == {n \in Rules : Rank(n, Rules) % 2 = 1}

\* The table from a rule to the next one, or to the end.
Until(n) == LeastOr({m \in Rules : m > n}, Len(docLines) + 1)
TableFrom(n) == ProcessLatticeTable(docLines, Numbers(n + 1, Until(n) - 1))

BetweenRules == Listed([n \in {m \in Opening : TableFrom(m) # <<>>} |-> TableFrom(n)])

\* The first lines of the tables that lines of many words make, and their last.
Run(i, j) == \A n \in i .. j : MultipleWords(Line(n))
Starts == {n \in DOMAIN docLines :
             HeaderLike(Line(n)) /\ ~ \E i \in 1 .. n - 1 : HeaderLike(Line(i)) /\ Run(i, n)}
RunEnd(n) ==
    LeastOr({m \in n + 1 .. Len(docLines) : ~ MultipleWords(Line(m))}, Len(docLines) + 1) - 1
TableAt(n) == ProcessStreamTable(docLines, Numbers(n, RunEnd(n)))

RunsOfWords ==
    Listed([n \in {m \in Starts : RunEnd(m) >= m + 2 /\ TableAt(m) # <<>>} |-> TableAt(n)])

\* A text that is one table between two rules, regular and under a header.
OneTable ==
    LET last == Len(docLines) IN
    /\ last >= 4 /\ Line(1).border /\ Line(last).border
    /\ \A n \in 2 .. last - 1 : /\ ~ Line(n).border
                                /\ Line(n).cols = Line(2).cols /\ Line(n).cols >= 2
    /\ HeaderLike(Line(2))

(* The two loops find exactly the tables that a look at the whole text      *)
(* finds, unless a rule follows another.  A regular table between two rules *)
(* is extracted with all its rows, whatever they contain, and the simpler   *)
(* reading agrees when it has three columns and long rows.  Both readings   *)
(* of a worksheet agree where the headers leave no column out; where they   *)
(* do not, a cell is read under another's header only behind a gap.         *)
TablesKept ==
    /\ (\A n \in 2 .. Len(docLines) : ~ (Line(n).border /\ Line(n - 1).border))
         => LatticeTables = BetweenRules
    /\ StreamTables = RunsOfWords
    /\ OneTable =>
         /\ Extracted
         /\ LET rows == FlattenSeq(ExtractedTables) IN
            /\ [i \in DOMAIN rows |-> rows[i].line] = Numbers(3, Len(docLines) - 1)
            /\ /\ docLines[2] = "header" /\ HeaderWindow >= 2 /\ ~ Line(Len(docLines)).cols >= 3
               /\ \A i \in DOMAIN rows : Line(rows[i].line).long
               => TabularData = Numbers(3, Len(docLines) - 1)
    /\ \A r \in 2 .. Len(sheet) :
         LET header == sheet[1]
             prefix(c) == \A d \in 1 .. c : d \in header
         IN /\ sheet[r] \subseteq header /\ (\A c \in header : prefix(c))
                 => ParseXLSX(header, sheet[r]) = ProcessWorksheet(header, sheet[r])
            /\ \A cell \in ParseXLSX(header, sheet[r]) \ ProcessWorksheet(header, sheet[r]) :
                 ~ prefix(cell[2])

=============================================================================
