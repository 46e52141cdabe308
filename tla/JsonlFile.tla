------------------------------ MODULE JsonlFile ------------------------------
(***************************************************************************)
(* The append-only files of jsonlStore.ts.  A file is the sequence of its  *)
(* physical lines and whether the last one lacks its newline.  A line is   *)
(* the sequence of entries JSON.parse finds in it: one, or none when the   *)
(* line does not parse.                                                    *)
(***************************************************************************)
EXTENDS Sequences, SequencesExt

NoFile == [lines |-> <<>>, torn |-> FALSE]

\* appendJsonLine: text and newline are added to whatever the file ends
\* with, so after a torn line both share one line, which does not parse.
AppendLine(f, e) ==
    IF f.torn
    THEN [lines |-> Append(Front(f.lines), <<>>), torn |-> FALSE]
    ELSE [lines |-> Append(f.lines, <<e>>), torn |-> FALSE]

\* What a file may hold when appendFileSync stops half-way: nothing new, a
\* piece of the text, or all of it but the newline.
PartlyAppended(f, e) ==
    {f} \cup
    IF f.torn
    THEN {[lines |-> Append(Front(f.lines), <<>>), torn |-> TRUE]}
    ELSE {[lines |-> Append(f.lines, l), torn |-> TRUE] : l \in {<<>>, <<e>>}}

\* rehydrateJsonLines: the entries in file order, lines that do not parse
\* skipped.
Rehydrate(f) == FlattenSeq(f.lines)

\* The same for a store that keeps them by id and writes each id once, so that
\* their order says nothing.
EntriesOf(f) == UNION {ToSet(l) : l \in ToSet(f.lines)}

\* ... or many times: Map.set makes the last line of an id win.
LinesOf(f, id) == {i \in DOMAIN f.lines : f.lines[i] # <<>> /\ f.lines[i][1].key = id}

Replay(f, id, absent) ==
    LET at == LinesOf(f, id) IN IF at = {} THEN absent ELSE f.lines[Max(at)][1].value

\* The files of lines with at most one entry, a last line that may be torn.
FileOf(Entry) ==
    {f \in [lines : Seq({<<>>} \cup {<<e>> : e \in Entry}), torn : BOOLEAN] :
        f.torn => f.lines # <<>>}

\* countPhysicalLines of auditLog.ts: lines that do not parse count too.
PhysicalLines(f) == Len(f.lines)
=============================================================================
