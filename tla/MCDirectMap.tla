---------------------------- MODULE MCDirectMap -----------------------------
(***************************************************************************)
(* DirectMapView for TLC: four frames, of two words that may start an      *)
(* object; a word of seven bits has room for sixteen entries of the file,  *)
(* half of them at negative offsets.                                       *)
(***************************************************************************)
EXTENDS DirectMapView, TLC

Frames4 == 0..3
TwoSlots == 0..1
TheObjects == (0 :> {0, 1}) @@ (1 :> {0}) @@ (2 :> {0}) @@ (3 :> {})

Anon == {"ANON", "MMAP"}
File == {"MMAP"}
Slab == {"SLAB", "COMPOUND"}
Huge == {"THP", "ANON", "MMAP", "COMPOUND"}
Memory(a, b, c, d) == (0 :> a) @@ (1 :> b) @@ (2 :> c) @@ (3 :> d)
TheLayouts == {Memory(Slab, Anon, Slab, File), Memory({}, Anon, Slab, Huge)}
TheUses == {{"BUDDY"}}

Range(start, count, eof, error) ==
  [kind |-> "scan", percentage |-> 75, start |-> start, count |-> count,
   stopOnEof |-> eof, stopOnError |-> error, summary |-> TRUE]
TheOptions ==
  { Range(0, 9, TRUE, FALSE), Range(6, 5, FALSE, TRUE),
    Range(14, 4, FALSE, FALSE), Range(126, 4, FALSE, FALSE),
    [Range(1, 3, FALSE, FALSE) EXCEPT !.summary = FALSE],
    [Range(0, 4, FALSE, FALSE) EXCEPT !.percentage = 0],
    [Range(0, 4, FALSE, FALSE) EXCEPT !.kind = "help"],
    [Range(0, 4, FALSE, FALSE) EXCEPT !.kind = "bad"] }
=============================================================================
