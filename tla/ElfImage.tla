------------------------------ MODULE ElfImage -------------------------------
(***************************************************************************)
(* From an ELF file to the relocated image in guest memory: what           *)
(* parser_elf.rs collects, what loader.rs writes and leaves pending, what  *)
(* the linker computes and writes.  A byte has ByteSize values and a word  *)
(* WordBytes bytes, 256 and 8 in the program.  Positions in a file count   *)
(* from 0, its bytes from 1.                                               *)
(*                                                                         *)
(* A file is [bytes, headers, sections, symbols]: program headers          *)
(* [type, offset, vaddr, filesz, memsz]; relocation sections               *)
(* [type, entries] with entries [at, symbol, kind, addend] (packed ones as *)
(* DecodePacked of PackedRelocs answers them); names of .dynsym from       *)
(* index 1 on, index 0 being reserved.  A step that may fail answers a set *)
(* of one result, or {}.                                                   *)
(***************************************************************************)
EXTENDS Integers, Sequences, SequencesExt, FiniteSetsExt

CONSTANTS ByteSize, WordBytes, ImagePage, NoSymbol

ASSUME ImageAssumption ==
  ByteSize \in Nat \ {0, 1} /\ WordBytes \in Nat \ {0} /\ ImagePage \in Nat \ {0}

Places(at) == at..at + WordBytes - 1

(* to_le_bytes, from_le_bytes.                                             *)
ByteOf(value, k) == (value \div ByteSize ^ k) % ByteSize
Number(bytes) == MapThenSumSet(LAMBDA k : bytes[k + 1] * ByteSize ^ k, 0..WordBytes - 1)
-----------------------------------------------------------------------------
(* The parser.                                                             *)

(* collect_load_segments.                                                  *)
LoadSegments(file) ==
  SortSeq(SelectSeq(file.headers, LAMBDA h : h.type = "LOAD"), LAMBDA h, g : h.vaddr < g.vaddr)

(* resolve_implicit_addend: the word the file has for that place, if all   *)
(* of it comes from the file.                                              *)
Holds(file, h, at) ==
  /\ h.filesz # 0 /\ at >= h.vaddr /\ at + WordBytes <= h.vaddr + h.filesz
  /\ h.offset + (at - h.vaddr) + WordBytes <= Len(file.bytes)

(* A word is looked for in the file at its address (mutant).               *)
ImplicitAddendUnmoved(file, at) ==
  IF at + WordBytes <= Len(file.bytes) THEN Number(SubSeq(file.bytes, at + 1, at + WordBytes)) ELSE 0

ImplicitAddend(file, at) ==
  LET segments == LoadSegments(file)
      i == SelectInSeq(segments, LAMBDA h : Holds(file, h, at))
  IN  IF i = 0 THEN 0
      ELSE LET from == segments[i].offset + (at - segments[i].vaddr)
           IN Number(SubSeq(file.bytes, from + 1, from + WordBytes))

(* collect_relocations: one kind of record for all, in the order of the    *)
(* sections.  One that cannot be read is passed over.                      *)
SectionRelocs(file, section) ==
  CASE section.type \in {"RELA", "ANDROID_RELA"} -> section.entries
    [] section.type = "REL" ->
         [i \in DOMAIN section.entries |->
            [section.entries[i] EXCEPT !.addend = ImplicitAddend(file, section.entries[i].at)]]
    [] section.type = "ANDROID_REL" ->
         [i \in DOMAIN section.entries |-> [section.entries[i] EXCEPT !.addend = 0]]
    [] section.type \in {"unreadable", "OTHER"} -> <<>>

Relocations(file) ==
  FlattenSeq([i \in DOMAIN file.sections |-> SectionRelocs(file, file.sections[i])])
-----------------------------------------------------------------------------
(* The loader.  Memory is a function of its addresses, zero when reserved. *)

(* map_one_segment: the bytes of the file, then zeros.                     *)
Written(file, bias, memory, h) ==
  IF h.filesz > 0 /\ h.offset + h.filesz > Len(file.bytes) THEN {}
  ELSE {[a \in DOMAIN memory |->
           LET k == a - bias - h.vaddr
           IN CASE k \in 0..h.filesz - 1 -> file.bytes[h.offset + k + 1]
                [] k \in h.filesz..h.memsz - 1 -> 0
                [] OTHER -> memory[a]]}

(* compute_image_footprint: to the end of the last segment, in whole pages.*)
Footprint(file) ==
  LET last == Max({0} \cup {h.vaddr + h.memsz : h \in Range(LoadSegments(file))})
  IN  ((last + ImagePage - 1) \div ImagePage) * ImagePage

Loaded(file, bias) ==
  IF LoadSegments(file) = <<>> THEN {}
  ELSE FoldLeft(LAMBDA images, h : UNION {Written(file, bias, m, h) : m \in images},
                {[a \in bias..bias + Footprint(file) - 1 |-> 0]}, LoadSegments(file))

(* build_pending_relocations: an index the table does not have, like 0, is *)
(* no symbol.                                                              *)
SymbolName(file, i) == IF i \in DOMAIN file.symbols THEN file.symbols[i] ELSE NoSymbol

Pending(file, bias) ==
  LET relocs == Relocations(file)
  IN [i \in DOMAIN relocs |->
        [to |-> bias + relocs[i].at, name |-> SymbolName(file, relocs[i].symbol),
         kind |-> relocs[i].kind, addend |-> relocs[i].addend]]
-----------------------------------------------------------------------------
(* The linker.  `scope` has the addresses of the symbols there are.        *)
WordCount == ByteSize ^ WordBytes

(* compute_patch.                                                          *)
Patch(p, bias, scope) ==
  CASE p.kind = "RELATIVE" -> {(bias + p.addend) % WordCount}
    [] p.kind \in {"GLOB_DAT", "JUMP_SLOT", "ABS64"} ->
         IF p.name = NoSymbol THEN {} ELSE {(scope[p.name] + p.addend) % WordCount}
    [] OTHER -> {}

WriteWord(memory, at, value) ==
  IF Places(at) \subseteq DOMAIN memory
    THEN {[a \in DOMAIN memory |-> IF a \in Places(at) THEN ByteOf(value, a - at) ELSE memory[a]]}
    ELSE {}

(* One turn of the loop of link_one_module: a symbol nobody has leaves the *)
(* word as it is, whatever the kind.                                       *)
Apply(memory, p, bias, scope) ==
  IF p.name # NoSymbol /\ p.name \notin DOMAIN scope
    THEN {memory}
    ELSE UNION {WriteWord(memory, p.to, value) : value \in Patch(p, bias, scope)}

Image(file, bias, scope) ==
  FoldLeft(LAMBDA images, p : UNION {Apply(m, p, bias, scope) : m \in images},
           Loaded(file, bias), Pending(file, bias))
-----------------------------------------------------------------------------
(* What the image should be, byte by byte.  `wanted` has the relocations   *)
(* with the addends they mean, wherever the file keeps them.               *)

FileByte(file, v) ==
  LET of == {h \in Range(file.headers) : h.type = "LOAD" /\ v \in h.vaddr..h.vaddr + h.filesz - 1}
  IN IF of = {} THEN 0 ELSE LET h == CHOOSE h \in of : TRUE IN file.bytes[h.offset + (v - h.vaddr) + 1]

Known(r, scope) == r.symbol = NoSymbol \/ r.symbol \in DOMAIN scope

Sound(r) ==
  r.kind = "RELATIVE" \/ (r.kind \in {"GLOB_DAT", "JUMP_SLOT", "ABS64"} /\ r.symbol # NoSymbol)

WantedByte(file, wanted, bias, scope, v) ==
  LET of == {r \in wanted : v \in Places(r.at) /\ Known(r, scope)}
  IN IF of = {} THEN FileByte(file, v)
     ELSE LET r == CHOOSE r \in of : TRUE
          IN ByteOf((IF r.kind = "RELATIVE" THEN bias ELSE scope[r.symbol]) + r.addend, v - r.at)

(***************************************************************************)
(* The relocations a linker wrote into a file come out the same whichever  *)
(* section it put them in: the loaded image is the file, moved, with each  *)
(* word the relocations name set to the address they mean, and left alone  *)
(* where there is no such symbol.  There is no module if one cannot be     *)
(* applied or the file ends inside a segment.                              *)
(***************************************************************************)
AsLinked(file, wanted, bias, scope) ==
  Image(file, bias, scope) =
    IF \/ \E r \in wanted : Known(r, scope) /\ ~Sound(r)
       \/ \E h \in Range(file.headers) : h.type = "LOAD" /\ h.offset + h.filesz > Len(file.bytes)
      THEN {}
    ELSE {[a \in bias..bias + Footprint(file) - 1 |-> WantedByte(file, wanted, bias, scope, a - bias)]}
=============================================================================
