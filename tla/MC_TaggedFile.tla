---------------------------- MODULE MC_TaggedFile ----------------------------
(***************************************************************************)
(* Bounds for TaggedFile.  The header keeps its real 32 bytes, so that    *)
(* tags of 22 and 23 characters after a one-character typestring give a  *)
(* 31-character header (fits with its NUL) and a 32-character one (does *)
(* not).  A second typestring that extends the first checks that the ": "*)
(* test keeps the types apart.  The foreign files are: the overlapping    *)
(* header "== k: ==", a header with bytes after its NUL, a file shorter  *)
(* than the header, and a full 32-character header with no NUL.           *)
(***************************************************************************)
EXTENDS TaggedFile

A(n) == [i \in 1..n |-> "a"]

MC_Types == {Str("k"), Str("kk")}
MC_Tags == {<<>>, Str(" =="), A(22), A(23)}
MC_Datas == {[id |-> 1, len |-> 1], [id |-> 2, len |-> 2]}
MC_OutLens == {1, 2}
MC_Foreign ==
    {[text |-> Str("== k: =="), clean |-> TRUE, size |-> 33, data |-> [id |-> 3, len |-> 1]],
     [text |-> Str("== kk: a =="), clean |-> FALSE, size |-> 33, data |-> [id |-> 3, len |-> 1]],
     [text |-> Str("== k: a =="), clean |-> TRUE, size |-> 31, data |-> [id |-> 3, len |-> 0]],
     [text |-> Str("== k: ") \o A(23) \o Str(" =="), clean |-> TRUE, size |-> 34,
      data |-> [id |-> 3, len |-> 2]]}
=============================================================================
