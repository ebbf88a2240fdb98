------------------------------ MODULE MCElfLoad ------------------------------
(***************************************************************************)
(* Small instances of ElfLoad for TLC: pages of four bytes and all the     *)
(* one- and two-segment images whose segments start, end and share file    *)
(* offsets in the ways that rounding tells apart.                          *)
(***************************************************************************)
EXTENDS ElfLoad

Seg(vaddr, memsz, filesz, offset, w) ==
  [type |-> "load", vaddr |-> vaddr, memsz |-> memsz, filesz |-> filesz, offset |-> offset,
   w |-> w, x |-> ~w]
Note == [type |-> "note", vaddr |-> 0, memsz |-> 3, filesz |-> 3, offset |-> 0, w |-> FALSE, x |-> FALSE]

Image(name, type, interp, entry, phdrs) ==
  [name |-> name, type |-> type, valid |-> TRUE, interp |-> interp, entry |-> entry,
   size |-> 20, phdrs |-> phdrs]

\* Code, and data in the pages behind it, as the link editor lays them out; what is
\* position-independent starts on a page.
Codes(starts) == {Seg(v, m, f, o, FALSE) : v \in starts, m \in {1, 4, 6}, f \in {1, 4, 6}, o \in {0, 5}}
Datas(code) == {Seg(PageUp(code.vaddr + code.memsz) + v, m, f, 9, TRUE) : v \in {0, 2}, m \in {1, 3}, f \in {0, 2, 3}}

SmallMains ==
  LET dyn == {Image("main", "DYN", i, c.vaddr, <<Note, c>>) : c \in Codes({0, 4}), i \in BOOLEAN}
      exec == {Image("main", "EXEC", i, c.vaddr, <<c>>) : c \in Codes({4, 5, 7}), i \in BOOLEAN}
      two == UNION {{Image("main", "DYN", i, c.vaddr, <<c, Note, d>>) : d \in Datas(c), i \in BOOLEAN} : c \in Codes({0, 4})}
      far == UNION {{Image("main", "EXEC", TRUE, c.vaddr, <<d, c>>) : d \in Datas(c)} : c \in Codes({12, 13})}
  IN dyn \cup exec \cup two \cup far

SmallInterps ==
  {Image("ld", "DYN", FALSE, 0, <<Seg(0, 6, 5, 2, FALSE)>>),
   Image("ld", "DYN", FALSE, 5, <<Seg(4, 5, 5, 0, FALSE), Seg(13, 6, 3, 6, TRUE)>>),
   [Image("ld", "DYN", FALSE, 0, <<Seg(0, 6, 5, 2, FALSE)>>) EXCEPT !.valid = FALSE]}

Stack == [start |-> 72, end |-> 80]
=============================================================================
