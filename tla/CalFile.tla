------------------------------- MODULE CalFile -------------------------------
(***************************************************************************)
(* The two files in which the backend keeps calibrations (OPT_CACHECAL),   *)
(* plustek-usbcalfile.c: <device>-coarse.cal has a line of settings for    *)
(* every source, color mode and bit depth, <device>-fine.cal a line of     *)
(* dark and one of white shading for every source, color mode and          *)
(* resolution.  A file is saved by reading what it has for other keys,     *)
(* truncating it, and writing everything anew: who is killed in between    *)
(* leaves a beginning of it.                                               *)
(*                                                                         *)
(* The coarse file fits the buffer of a FILE and is written at once; of    *)
(* the fine file, each line of which is longer, a line can be cut.         *)
(* "Type" stands for source and color mode, the prefix of a key.           *)
(***************************************************************************)
EXTENDS Integers, Sequences, SequencesExt

CONSTANTS Types, Depths, MaxDpi

ASSUME FilesAssumption == MaxDpi \in Nat \ {0}

Dpis == 1 .. MaxDpi     \* usb_get_res( optical resolution, index )

VARIABLES
    coarseFile,   \* the calibration of which the settings are, 0 for none
    fineFile,     \* lines, in order; the version line is not modelled
    pending       \* what an open, truncated file is about to get

fileVars == <<coarseFile, fineFile, pending>>

CoarseKeys == Types \X Depths
FineKeys   == Types \X Dpis

\* cut: the file ends in the middle of it.  spoiled: another was written on.
Conditions == {"whole", "cut", "spoiled"}

Idle == [what |-> "nothing"]

FilesInit ==
    /\ coarseFile = [k \in CoarseKeys |-> 0]
    /\ fineFile = <<>>
    /\ pending = Idle

-----------------------------------------------------------------------------

\* Mutant: the entry to replace is looked for without its resolution.
OtherLinesOfOtherTypes(file, key) == SelectSeq(file, LAMBDA l : l.key[1] # key[1])

\* usb_ReadOtherLines: everything but the lines with this prefix.
OtherLines(file, key) ==
    LET kept[n \in 0 .. Len(file)] ==
            IF n = 0 THEN <<>>
            ELSE IF file[n].key = key THEN kept[n - 1]
            ELSE Append(kept[n - 1], file[n])
    IN  kept[Len(file)]

\* What is written after a line without a newline becomes part of it.
Appended(lines, new) ==
    IF lines # <<>> /\ Last(lines).how = "cut"
    THEN Front(lines) \o <<[Last(lines) EXCEPT !.how = "spoiled"]>> \o Tail(new)
    ELSE lines \o new

Line(key, part, data) == [key |-> key, part |-> part, data |-> data, how |-> "whole"]

\* Mutant: any line of the type will do.
SamplesOfType(file, key, part) ==
    {l.data : l \in {m \in ToSet(file) :
                        m.key[1] = key[1] /\ m.part = part /\ m.how = "whole"}}

\* usb_ReadSamples: the values of a line, if they are all there.
Samples(file, key, part) ==
    {l.data : l \in {m \in ToSet(file) :
                        m.key = key /\ m.part = part /\ m.how = "whole"}}

\* usb_SaveFineCalData and usb_SaveCalData up to the fopen with "w+" ...
SaveFine(key, dark, white) ==
    /\ pending' = [what |-> "fine",
                   text |-> Appended(OtherLines(fineFile, key),
                                     <<Line(key, "dark", dark), Line(key, "white", white)>>)]
    /\ fineFile' = <<>>
    /\ UNCHANGED coarseFile

SaveCoarse(key, settings) ==
    /\ pending' = [what |-> "coarse", text |-> [coarseFile EXCEPT ![key] = settings]]
    /\ coarseFile' = [k \in CoarseKeys |-> 0]
    /\ UNCHANGED fineFile

\* ... and up to the fclose.
Written ==
    /\ pending # Idle
    /\ pending' = Idle
    /\ IF pending.what = "fine"
       THEN fineFile' = pending.text /\ UNCHANGED coarseFile
       ELSE coarseFile' = pending.text /\ UNCHANGED fineFile

Cut(l) == [l EXCEPT !.how = "cut"]

Beginnings(text) ==
    {SubSeq(text, 1, n) : n \in 0 .. Len(text)} \cup
    {Append(SubSeq(text, 1, n - 1), Cut(text[n])) : n \in 1 .. Len(text)}

\* The process that writes is killed.
Torn ==
    /\ pending' = Idle
    /\ fineFile' \in IF pending.what = "fine" THEN Beginnings(pending.text) ELSE {fineFile}
    /\ UNCHANGED coarseFile

-----------------------------------------------------------------------------

\* Saving the shading of one key leaves that of the others as it was.  A line
\* that was cut once may cost the new entry, never one that could be read.
OthersKept ==
    [][pending = Idle /\ pending'.what = "fine" =>
         \A k \in FineKeys, part \in {"dark", "white"} :
            \/ Samples(pending'.text, k, part) = Samples(fineFile, k, part)
            \/ k = Last(pending'.text).key]_fileVars

=============================================================================
