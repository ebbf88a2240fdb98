------------------------------- MODULE ElfLoad -------------------------------
(***************************************************************************)
(* Where src/src/kernel/process.c puts a program: the bounds of an ELF     *)
(* object, its load bias, the regions its segments become, the heap behind *)
(* them, and the bytes that mmu_handle_process_page_fault() finds there.   *)
(* The next load base is one variable for the whole kernel, without a      *)
(* lock, so the objects of two loads that run at once are registered in    *)
(* any order.  Addresses are small numbers; none of them overflows.        *)
(***************************************************************************)
EXTENDS Integers, SequencesExt, FiniteSets

CONSTANTS
  Loaders,     \* those who may load at the same time: CPUs in execve() or the shell
  Mains,       \* the programs, [name, type, valid, interp, entry, size, phdrs]
  Interps,     \* the interpreters
  PageSize,
  Stride,      \* PROCESS_ELF_LOAD_STRIDE
  CodeBase,    \* USER_CODE_BASE
  HeapLimit,   \* USER_HEAP_LIMIT
  StackRegion, \* [start, end] of the stack
  MaxRegions   \* PROCESS_VM_REGIONS_MAX

ASSUME ElfAssumption ==
  /\ PageSize > 0 /\ CodeBase % PageSize = 0 /\ Stride % PageSize = 0
  /\ HeapLimit % PageSize = 0 /\ CodeBase < HeapLimit

VARIABLES
  base,  \* process_next_elf_load_base
  load   \* each loader's process_elf_load_state, with its process

vars == <<base, load>>

AlignDown(v) == (v \div PageSize) * PageSize
AlignUp(v, a) == ((v + a - 1) \div a) * a
PageUp(v) == AlignUp(v, PageSize)

Idle == [at |-> "idle", objects |-> <<>>, regions |-> <<>>, heap |-> 0, main |-> {}, interp |-> {}]

Init ==
  /\ base = CodeBase
  /\ load = [l \in Loaders |-> Idle]

-----------------------------------------------------------------------------
(* One object                                                              *)

\* process_validate_elf_header(): identification, type, machine and the place of the
\* program headers are one flag.
ValidHeader(image) == image.valid /\ image.phdrs # <<>>

IsLoad(ph) == ph.type = "load" /\ ph.memsz # 0
Loads(image) == {ph \in Range(image.phdrs) : IsLoad(ph)}

\* process_elf_load_bounds()
HasBounds(image) == Loads(image) # {} /\ \A ph \in Loads(image) : ph.filesz <= ph.memsz
ImageStart(image) == Min({ph.vaddr : ph \in Loads(image)})
ImageEnd(image) == Max({ph.vaddr + ph.memsz : ph \in Loads(image)})
Span(image) == PageUp(ImageEnd(image) - ImageStart(image))

\* process_choose_elf_load_bias(): the base it picks, or 0 for an image that has no room,
MaxBase(image) == HeapLimit - PageSize - Span(image)
HasRoom(image) == Span(image) < HeapLimit - CodeBase /\ MaxBase(image) >= CodeBase
BaseFor(image) == IF base < CodeBase \/ base > MaxBase(image) THEN CodeBase ELSE base
\* and where the next object goes.
BaseAfter(image) ==
  LET next == BaseFor(image) + Stride IN IF next > MaxBase(image) THEN CodeBase ELSE next

LoadBias(image) ==
  IF image.type = "DYN" /\ HasRoom(image) THEN BaseFor(image) - ImageStart(image) ELSE 0

\* The base after an object, of either type.
ExecEnd(image) == ImageStart(image) + Span(image)
NextBase(image) ==
  CASE image.type = "DYN" -> IF HasRoom(image) THEN BaseAfter(image) ELSE base
    [] image.type = "EXEC" -> IF base < ExecEnd(image) THEN AlignUp(ExecEnd(image), Stride) ELSE base

-----------------------------------------------------------------------------
(* Regions                                                                 *)

\* Mutant: the file's part does not move with the start.
SegmentRegionShort(image, ph, bias) ==
  [type |-> "elf", start |-> bias + AlignDown(ph.vaddr), end |-> bias + PageUp(ph.vaddr + ph.memsz),
   image |-> image.name, offset |-> ph.offset - (ph.vaddr - AlignDown(ph.vaddr)),
   file_size |-> ph.filesz]

\* process_map_elf_segment(): the pages around a segment, from the bytes around it.
SegmentRegion(image, ph, bias) ==
  LET offset_diff == ph.vaddr - AlignDown(ph.vaddr) IN
  [type |-> "elf", start |-> bias + AlignDown(ph.vaddr), end |-> bias + PageUp(ph.vaddr + ph.memsz),
   image |-> image.name, offset |-> ph.offset - offset_diff, file_size |-> ph.filesz + offset_diff]

SegmentFits(image, ph, bias) ==
  LET r == SegmentRegion(image, ph, bias) IN
  /\ ~(ph.w /\ ph.x)
  /\ ph.filesz <= ph.memsz /\ ph.offset + ph.filesz <= image.size
  /\ r.start >= CodeBase /\ r.end <= HeapLimit /\ r.start < r.end

\* process_add_region(): a full table leaves it as it is.
AddRegion(regions, r) == IF Len(regions) >= MaxRegions THEN regions ELSE Append(regions, r)

\* The regions of an object's segments, in the order of the program headers.
SegmentRegions(image, bias) ==
  LET loads == SelectSeq(image.phdrs, IsLoad)
  IN [i \in DOMAIN loads |-> SegmentRegion(image, loads[i], bias)]

\* process_register_loaded_object(), given the base it finds: when it succeeds, and
\* what it adds to the process.
EntryInside(image) == image.entry >= ImageStart(image) /\ image.entry < ImageEnd(image)
MappedEnd(image, bias) == PageUp(bias + ImageEnd(image))
Registers(l, image, set_entry) ==
  LET bias == LoadBias(image) IN
  /\ HasBounds(image)
  /\ ~(image.type = "DYN" /\ bias = 0 /\ ImageStart(image) # 0 /\ load[l].objects # <<>>)
  /\ set_entry => EntryInside(image)
  /\ \A ph \in Loads(image) : SegmentFits(image, ph, bias)
  /\ Len(load[l].regions) + Cardinality(Loads(image)) <= MaxRegions
  /\ MappedEnd(image, bias) + PageSize <= HeapLimit

Registered(l, image, at) ==
  [load[l] EXCEPT !.at = at,
     !.objects = Append(@, [image |-> image, bias |-> LoadBias(image)]),
     !.regions = @ \o SegmentRegions(image, LoadBias(image))]

-----------------------------------------------------------------------------
(* process_create_from_elf()                                               *)

Begin(l, main, interp) ==
  /\ load[l].at = "idle"
  /\ ValidHeader(main)
  /\ base' = CodeBase
  /\ load' = [load EXCEPT ![l].at = "main", ![l].main = {main},
                          ![l].interp = IF main.interp THEN {interp} ELSE {}]

\* An object is registered or the process is given up; the base moves once the bounds
\* are known.
Register(l, image, set_entry, at) ==
  /\ base' = IF HasBounds(image) THEN NextBase(image) ELSE base
  /\ load' = [load EXCEPT ![l] =
       IF Registers(l, image, set_entry) THEN Registered(l, image, at) ELSE Idle]

RegisterMain(l) ==
  /\ load[l].at = "main"
  /\ \E main \in load[l].main :
       Register(l, main, ~main.interp, IF main.interp THEN "interp" ELSE "finish")

RegisterInterp(l) ==
  /\ load[l].at = "interp"
  /\ \E interp \in load[l].interp :
       IF ValidHeader(interp) THEN Register(l, interp, TRUE, "finish")
       ELSE load' = [load EXCEPT ![l] = Idle] /\ UNCHANGED base

\* The heap starts a guard page behind the highest object.
HeapStart(objects) ==
  Max({MappedEnd(objects[i].image, objects[i].bias) : i \in DOMAIN objects}) + PageSize

Anon(start, end) ==
  [type |-> "anon", start |-> start, end |-> end, image |-> "", offset |-> 0, file_size |-> 0]

Finish(l) ==
  /\ load[l].at = "finish"
  /\ LET heap == HeapStart(load[l].objects)
         stack == AddRegion(load[l].regions, Anon(StackRegion.start, StackRegion.end))
     IN load' = [load EXCEPT ![l].at = "loaded", ![l].heap = heap,
                             ![l].regions = AddRegion(stack, Anon(heap, HeapLimit))]
  /\ UNCHANGED base

Destroy(l) ==
  /\ load[l].at = "loaded"
  /\ load' = [load EXCEPT ![l] = Idle]
  /\ UNCHANGED base

Next ==
  \E l \in Loaders :
    \/ \E main \in Mains, interp \in Interps : Begin(l, main, interp)
    \/ RegisterMain(l) \/ RegisterInterp(l) \/ Finish(l) \/ Destroy(l)

Spec == Init /\ [][Next]_vars

-----------------------------------------------------------------------------
(* Page faults                                                             *)

\* mmu_handle_process_page_fault() takes the newest region that has the address,
RegionFor(regions, va) ==
  LET hits == {i \in DOMAIN regions : va >= regions[i].start /\ va < regions[i].end}
  IN IF hits = {} THEN {} ELSE {regions[Max(hits)]}

\* and fills a zeroed page with the part of the image that the region has of it.
Zero == <<"", 0>>
LoadedByte(r, va) ==
  LET region_offset == AlignDown(va) - r.start
      copy_len == Min({r.file_size - region_offset, PageSize})
      j == va - AlignDown(va)
  IN IF r.type = "elf" /\ region_offset < r.file_size /\ j < copy_len
     THEN <<r.image, r.offset + region_offset + j>> ELSE Zero

-----------------------------------------------------------------------------
(* Properties                                                              *)

\* What a load has built fits the tables: regions of whole pages inside the user range.
TypeOK ==
  /\ base \in CodeBase .. HeapLimit + Stride
  /\ \A l \in Loaders :
       /\ load[l].at \in {"idle", "main", "interp", "finish", "loaded"}
       /\ Len(load[l].regions) <= MaxRegions
       /\ \A i \in DOMAIN load[l].regions : LET r == load[l].regions[i] IN
            /\ r.start % PageSize = 0 /\ r.end % PageSize = 0
            /\ CodeBase <= r.start /\ r.start < r.end

Loaded == {l \in Loaders : load[l].at = "loaded"}

\* The pages that an object's segments take.
ObjectPages(o) ==
  UNION {{o.bias + va : va \in AlignDown(ph.vaddr) .. PageUp(ph.vaddr + ph.memsz) - 1} :
         ph \in Loads(o.image)}

\* Every byte of every segment is what the file has for it, and zero past the file's part.
BytesRight ==
  \A l \in Loaded : \A i \in DOMAIN load[l].objects :
    LET o == load[l].objects[i] IN
    \A ph \in Loads(o.image) : \A k \in 0 .. ph.memsz - 1 :
      \E r \in RegionFor(load[l].regions, o.bias + ph.vaddr + k) :
        LoadedByte(r, o.bias + ph.vaddr + k)
          = IF k < ph.filesz THEN <<o.image.name, ph.offset + k>> ELSE Zero

\* The heap begins behind every object with an unmapped page between.
HeapBehind ==
  \A l \in Loaded :
    /\ load[l].heap <= HeapLimit
    /\ \A i \in DOMAIN load[l].objects : \A va \in ObjectPages(load[l].objects[i]) :
         /\ va + PageSize < load[l].heap
         /\ RegionFor(load[l].regions, load[l].heap - 1) = {}

\* There are regions for the stack and the heap.
HasStackAndHeap ==
  \A l \in Loaded : \A va \in {StackRegion.start, load[l].heap} :
    va < HeapLimit \/ va = StackRegion.start => RegionFor(load[l].regions, va) # {}

\* process_create_from_elf(): a program that was loaded sees its image and its interpreter's
\* through whatever region a page fault picks, the one never mapped over the other, and has
\* a stack and a heap that no image runs into.
LoadsRight == BytesRight /\ HeapBehind /\ HasStackAndHeap
=============================================================================
