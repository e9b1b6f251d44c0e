------------------------------ MODULE FileStore ------------------------------
(***************************************************************************)
(* The directory of one peer (file_manager.py, class FileManager), as pure *)
(* operators on a record: the files of the single pieces and the complete  *)
(* file.  No lock protects them: every operator is one file operation.     *)
(*                                                                         *)
(* Contents are counted in pieces of equal size: the complete file is a    *)
(* sequence of slots, and a piece file holds its piece or, between its     *)
(* truncation and the write of its bytes, nothing.                         *)
(***************************************************************************)
EXTENDS Naturals, Sequences

CONSTANT NumPieces

ASSUME NumPiecesAssumption == NumPieces \in Nat \ {0}

Indices == 0 .. NumPieces - 1

Zeros   == NumPieces        \* a slot that was skipped: it reads as zero bytes
Failure == NumPieces + 1    \* a read that raises

IsDisk(d) ==
    d \in [ pieces  : SUBSET Indices,       \* piece files with their bytes
            torn    : SUBSET Indices,       \* piece files still empty
            exists  : BOOLEAN,              \* complete_path.exists()
            content : Seq(Indices \cup {Zeros}) ]

NewDisk == [pieces |-> {}, torn |-> {}, exists |-> FALSE, content |-> <<>>]

\* The complete file is there and holds every piece in its place.
Whole(d) == d.exists /\ d.content = [n \in 1 .. NumPieces |-> n - 1]

-----------------------------------------------------------------------------
(* write_piece truncates the file of the piece, then writes its bytes. *)

WriteOpened(d, i) ==
    [d EXCEPT !.pieces = @ \ {i}, !.torn = @ \cup {i}]

WriteDone(d, i) ==
    [d EXCEPT !.pieces = @ \cup {i}, !.torn = @ \ {i}]

-----------------------------------------------------------------------------
(* assemble_file truncates the complete file, then appends piece by piece, *)
(* each thread at its own offset.                                          *)

Opened(d) == [d EXCEPT !.exists = TRUE, !.content = <<>>]

\* The file with piece i written at slot n; slots it skips read as zeros.
Written(c, n, i) ==
    [m \in 1 .. (IF n >= Len(c) THEN n + 1 ELSE Len(c)) |->
        IF m = n + 1 THEN i ELSE IF m <= Len(c) THEN c[m] ELSE Zeros]

\* The bytes of a piece file are appended unchecked: an empty file adds none.
Appended(d, n, i) ==
    IF i \in d.pieces THEN [d EXCEPT !.content = Written(@, n, i)] ELSE d

-----------------------------------------------------------------------------
(* read_piece prefers the complete file and checks only the length. *)

\* Mistake: a slot that is not there yet is read as zeros.
ReadUnchecked(d, i) ==
    IF d.exists
    THEN IF i < Len(d.content) THEN d.content[i + 1] ELSE Zeros
    ELSE IF i \in d.pieces THEN i ELSE Failure

read_piece(d, i) ==
    IF d.exists
    THEN IF i < Len(d.content) THEN d.content[i + 1] ELSE Failure
    ELSE IF i \in d.pieces THEN i ELSE Failure

=============================================================================
