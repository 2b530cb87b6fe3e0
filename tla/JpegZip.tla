------------------------------- MODULE JpegZip -------------------------------
(***************************************************************************)
(* jpeg_zip: finds the archive at the end of a file, a JPEG image perhaps, *)
(* and prints the names in its central directory.                          *)
(*                                                                         *)
(* A file is its size and what lies at its positions: the two signatures   *)
(* the program looks for, the offset behind each end signature and the     *)
(* record behind each entry signature.  Four bytes that overlap the end of *)
(* the file are never a signature.                                         *)
(***************************************************************************)
EXTENDS Integers, Sequences

CONSTANTS Files,    \* the files the program may be given
          Name      \* names of archived files

SigSz == 4                     \* sizeof cd_end_signature
CD_START_OFFSET  == 16         \* in the end record
CD_END_SZ        == 22         \* its size, without the comment
FILE_NAME_OFFSET == 46         \* in an entry

\* an entry of the central directory
Entry == [name : Name, is_dir : BOOLEAN, file_name_len : Nat \ {0},
          extra_field_len : Nat, file_comment_len : Nat]

\* What is assumed of a file: where the end signatures are and the offset each end record holds,
\* where the entry signatures are and their entries, and the names its
\* archive was made of.  The record behind an end signature is whole, and the
\* central directory is not behind its end.
FilesAssumption ==
  \A f \in Files : /\ f.size \in Nat /\ f.archived \in Seq(Name)
                   /\ \A e \in DOMAIN f.ends : /\ e \in Nat /\ e + CD_END_SZ <= f.size
                                               /\ f.ends[e] \in 0..e
                   /\ \A e \in DOMAIN f.entries : /\ e \in Nat /\ e + FILE_NAME_OFFSET <= f.size
                                                  /\ f.entries[e] \in Entry
                   /\ DOMAIN f.ends \cap DOMAIN f.entries = {}

VARIABLES file,      \* the file given
          pc, pos,   \* where main is, and its position in the file
          printed    \* names printed

vars == <<file, pc, pos, printed>>

----------------------------------------------------------------------------
\* fread of four bytes gets them, and what they are
Whole(p)   == p + SigSz <= file.size
IsEnd(p)   == Whole(p) /\ p \in DOMAIN file.ends
IsEntry(p) == Whole(p) /\ p \in DOMAIN file.entries

\* fseek to the last four bytes; it fails on a shorter file
Init == /\ file \in Files
        /\ pc = "find_end"
        /\ pos = IF file.size < SigSz THEN 0 ELSE file.size - SigSz
        /\ printed = <<>>

\* the scan for the end of the central directory goes on byte by byte,
\* towards the start of the file, where fseek fails
FindEnd == /\ pc = "find_end" /\ ~IsEnd(pos)
           /\ IF Whole(pos) /\ pos > 0 THEN pos' = pos - 1 /\ UNCHANGED pc
                                       ELSE pc' = "not_zip" /\ UNCHANGED pos
           /\ UNCHANGED <<file, printed>>

\* the end is found: its record says where the directory starts
GotoStart == /\ pc = "find_end" /\ IsEnd(pos)
             /\ pos' = file.ends[pos] /\ pc' = "find_entry"
             /\ UNCHANGED <<file, printed>>

\* mutant: the scan takes four bytes at a time
FindEntry_ByFour == /\ pc = "find_entry" /\ Whole(pos) /\ ~IsEntry(pos)
                    /\ pos' = pos + SigSz
                    /\ UNCHANGED <<file, pc, printed>>

\* the offset does not count the bytes in front of the archive, so the scan
\* for the first entry goes on byte by byte from there
FindEntry == /\ pc = "find_entry" /\ Whole(pos) /\ ~IsEntry(pos)
             /\ pos' = pos + 1
             /\ UNCHANGED <<file, pc, printed>>

FoundEntry == /\ pc = "find_entry" /\ IsEntry(pos)
              /\ pc' = "entries"
              /\ UNCHANGED <<file, pos, printed>>

\* mutant: the comment of an entry is not skipped
ReadEntry_KeepComment ==
    /\ pc = "entries" /\ IsEntry(pos)
    /\ LET e == file.entries[pos]
       IN  /\ pos' = pos + FILE_NAME_OFFSET + e.file_name_len + e.extra_field_len
           /\ printed' = IF e.is_dir THEN printed ELSE Append(printed, e.name)
    /\ UNCHANGED <<file, pc>>

\* an entry: its name is printed unless it is a directory's, its tail skipped
ReadEntry == /\ pc = "entries" /\ IsEntry(pos)
             /\ LET e == file.entries[pos]
                IN  /\ pos' = pos + FILE_NAME_OFFSET
                                  + e.file_name_len + e.extra_field_len + e.file_comment_len
                    /\ printed' = IF e.is_dir THEN printed ELSE Append(printed, e.name)
             /\ UNCHANGED <<file, pc>>

\* other records between the entries and the end are passed four bytes at a time,
\* and so is the end if it is not a multiple of four bytes away
SkipOther == /\ pc = "entries" /\ Whole(pos) /\ ~IsEntry(pos) /\ ~IsEnd(pos)
             /\ pos' = pos + SigSz
             /\ UNCHANGED <<file, pc, printed>>

ReachEnd == /\ pc = "entries" /\ IsEnd(pos)
            /\ pc' = "done"
            /\ UNCHANGED <<file, pos, printed>>

\* at the end of the file fread fails, again and again: neither loop looks
ReadNothing == /\ pc \in {"find_entry", "entries"} /\ ~Whole(pos)
               /\ pc' = "looping"
               /\ UNCHANGED <<file, pos, printed>>

Next == \/ FindEnd \/ GotoStart \/ FindEntry \/ FoundEntry
        \/ ReadEntry \/ SkipOther \/ ReachEnd \/ ReadNothing

Spec == Init /\ [][Next]_vars /\ WF_vars(Next)

----------------------------------------------------------------------------
(* Properties.                                                             *)

TypeOK == /\ file \in Files
          /\ pc \in {"find_end", "find_entry", "entries", "done", "not_zip", "looping"}
          /\ pos \in 0..file.size + SigSz
          /\ printed \in Seq(Name)

\* "prints out list of ZIPped files" (README.md:1): what is printed when the
\* program ends are the files of the archive, in order, whatever lies in
\* front of it and wherever its central directory says that it starts.
ListsArchive == pc = "done" => printed = file.archived

\* A file is said not to be an archive only if no end signature is in it.
NotZipIsTrue == pc = "not_zip" => file.ends = << >>

\* Where the entry at p ends.
EntryEnd(p) == LET e == file.entries[p]
               IN  p + FILE_NAME_OFFSET + e.file_name_len + e.extra_field_len + e.file_comment_len

\* The program ends if its file is no archive, or if the end of the archive lies
\* a multiple of four bytes behind its last entry.  It looks for ever for the
\* first entry of an archive that has none (main.c:55-58), and for an end it has
\* stepped over (main.c:62-84).
Scannable == \/ file.ends = << >>
             \/ \E last \in DOMAIN file.entries, end \in DOMAIN file.ends :
                   /\ \A p \in DOMAIN file.entries : p <= last
                   /\ EntryEnd(last) <= end /\ (end - EntryEnd(last)) % SigSz = 0
Ended == pc \in {"done", "not_zip"}
EndsOnScannable == Scannable ~> Ended

\* The program ends on every archive.
EndsOnArchives == <>Ended
=============================================================================
