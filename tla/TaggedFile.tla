----------------------------- MODULE TaggedFile -----------------------------
(***************************************************************************)
(* The tagged-data key file of crypto_format.c: a 32-byte header holding  *)
(* the NUL-padded text "== <typestring>: <tag> ==", then the data.        *)
(* crypto_write_tagged_contents_to_file writes it, and                    *)
(* crypto_read_tagged_contents_from_file checks the header against a      *)
(* typestring, extracts the tag and copies the data into a caller buffer. *)
(*                                                                         *)
(* One caller writes and reads one file; another program may replace the  *)
(* file by any content (a key directory is writable by its owner).  A C   *)
(* string is a sequence of one-character strings up to its first NUL; the *)
(* data are abstracted to an identity and a length.                       *)
(***************************************************************************)
EXTENDS Integers, Sequences, SequencesExt

CONSTANTS
    HeaderLen,   \* sizeof(header): 32
    SizeMod,     \* 2^(width of size_t), scaled
    Types,       \* the typestrings the callers use (sequences of characters)
    Tags,        \* the tags written
    Datas,       \* data written: [id, len]
    OutLens,     \* data_out_len of the reads
    Foreign      \* files another program may leave: [text, clean, size, data]

VARIABLES
    file,   \* the file on disk, or NoFile
    last,   \* ghost: who wrote the file, and with what
    got     \* the outcome of the last read of the file as it now is

vars == <<file, last, got>>

NoFile == [text |-> <<>>, clean |-> TRUE, size |-> -1, data |-> [id |-> 0, len |-> 0]]

Str(s) == [i \in 1..Len(s) |-> SubSeq(s, i, i)]

NoRead == [done |-> FALSE, type |-> <<>>, out |-> 0, r |-> -1,
           tag |-> <<>>, taglen |-> 0, data |-> NoFile.data]

(***************************************************************************)
(* crypto_write_tagged_contents_to_file.  tor_snprintf of                  *)
(* "== %s: %s ==" into the 32-byte header fails (returns -1, as the check *)
(* at line 53 presumes) when the text and its NUL do not fit; then        *)
(* nothing is written.  write_chunks_to_file replaces the file through a  *)
(* temporary file: it either installs header and data or fails and       *)
(* leaves the old file.                                                   *)
(***************************************************************************)
HeaderText(t, g) == Str("== ") \o t \o Str(": ") \o g \o Str(" ==")

WriteTagged(t, g, d) ==
    /\ Len(HeaderText(t, g)) < HeaderLen
    /\ \/ /\ file' = [text |-> HeaderText(t, g), clean |-> TRUE,
                      size |-> HeaderLen + d.len, data |-> d]
          /\ last' = [who |-> "self", type |-> t, tag |-> g, data |-> d]
          /\ got' = NoRead
       \/ UNCHANGED <<file, last, got>>   \* write_chunks_to_file fails

\* The header does not fit: tor_snprintf fails and the call returns -1.
WriteTooLong(t, g, d) ==
    /\ Len(HeaderText(t, g)) >= HeaderLen
    /\ UNCHANGED vars

\* Another program writes the file.
Replace(f) ==
    /\ file' = f
    /\ last' = [who |-> "foreign", type |-> <<>>, tag |-> <<>>, data |-> f.data]
    /\ got' = NoRead

(***************************************************************************)
(* crypto_read_tagged_contents_from_file with typestring t and a buffer   *)
(* of n bytes.  A missing file, a size below 32 or above 32 + n, a prefix *)
(* that does not start with "== " and end with " ==" or is not NUL-padded,*)
(* a typestring that does not follow "== " or leaves no room, or no ": "  *)
(* after it, all give -1.  Otherwise the tag is the                       *)
(* strlen(prefix)-8-strlen(typestring) characters after ": ", a size_t    *)
(* subtraction, and the data are copied.                                  *)
(***************************************************************************)
\* Mutant of Accepts: the test for ": " after the typestring left out.
AcceptsNoColon(f, t, n) ==
    LET p == f.text IN
    /\ f.size >= HeaderLen /\ f.size <= HeaderLen + n
    /\ IsPrefix(Str("== "), p) /\ IsSuffix(Str(" =="), p) /\ f.clean
    /\ IsPrefix(t, SubSeq(p, 4, Len(p)))
    /\ 3 + Len(t) < HeaderLen

Accepts(f, t, n) ==
    LET p == f.text IN
    /\ f.size >= HeaderLen /\ f.size <= HeaderLen + n
    /\ IsPrefix(Str("== "), p) /\ IsSuffix(Str(" =="), p) /\ f.clean
    /\ IsPrefix(t, SubSeq(p, 4, Len(p)))
    /\ 3 + Len(t) < HeaderLen
    /\ IsPrefix(Str(": "), SubSeq(p, 4 + Len(t), Len(p)))

TagLen(f, t) == (Len(f.text) - 8 - Len(t)) % SizeMod

ReadOutcome(f, t, n) ==
    IF Accepts(f, t, n)
    THEN [done |-> TRUE, type |-> t, out |-> n, r |-> f.size - HeaderLen,
          taglen |-> TagLen(f, t),
          tag |-> SubSeq(f.text, 6 + Len(t),
                         IF 5 + Len(t) + TagLen(f, t) <= Len(f.text)
                         THEN 5 + Len(t) + TagLen(f, t) ELSE Len(f.text)),
          data |-> f.data]
    ELSE [NoRead EXCEPT !.done = TRUE, !.type = t, !.out = n]

ReadTagged(t, n) ==
    /\ got' = ReadOutcome(file, t, n)
    /\ UNCHANGED <<file, last>>

Init ==
    /\ file = NoFile
    /\ last = [who |-> "none", type |-> <<>>, tag |-> <<>>, data |-> NoFile.data]
    /\ got = NoRead

Next ==
    \/ \E t \in Types, g \in Tags, d \in Datas :
          WriteTagged(t, g, d) \/ WriteTooLong(t, g, d)
    \/ \E f \in Foreign : Replace(f)
    \/ \E t \in Types, n \in OutLens : ReadTagged(t, n)

Spec == Init /\ [][Next]_vars
-----------------------------------------------------------------------------
TypeOK ==
    /\ file.size \in {-1} \cup 0..(HeaderLen + 8)
    /\ Len(file.text) <= HeaderLen
    /\ last.who \in {"none", "self", "foreign"}
    /\ got.r \in -1..8 /\ got.taglen \in 0..(SizeMod - 1)

(***************************************************************************)
(* A read returns what this caller last wrote: when the file is its own   *)
(* and the read asks for the same typestring with a buffer large enough,  *)
(* it succeeds with the tag and data written; a read of its own file      *)
(* never yields another tag or other data.  This ties the header          *)
(* formatting of the write to the prefix checks and the tag arithmetic   *)
(* of the read.                                                           *)
(***************************************************************************)
ReadReturnsLastWrite ==
    got.done /\ last.who = "self" =>
      /\ (got.type = last.type /\ got.out >= last.data.len) => got.r # -1
      /\ got.r # -1 =>
           /\ got.type = last.type /\ got.tag = last.tag
           /\ got.data = last.data /\ got.r = last.data.len

(***************************************************************************)
(* The tag length handed to tor_strndup is the length of the text between *)
(* ": " and the closing " ==" of an accepted header: the size_t           *)
(* subtraction strlen(prefix)-8-strlen(typestring) does not wrap.         *)
(***************************************************************************)
TagInsideHeader ==
    got.r # -1 => 8 + Len(got.type) + got.taglen <= HeaderLen
=============================================================================
