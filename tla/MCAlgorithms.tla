---------------------------- MODULE MCAlgorithms ---------------------------
(***************************************************************************)
(* The algorithms that keep no state between calls, on bounded inputs.     *)
(* The gap search runs on all ledgers of at most three regions over a      *)
(* dozen addresses, two addresses per page (regions may start and end      *)
(* inside a page, as they do after an unaligned mprotect).  The inputs of  *)
(* the others are in `sample` and `shim`, which ride on the search of an   *)
(* empty ledger.                                                           *)
(***************************************************************************)
EXTENDS GapSearch, NativeNames, ShimDispatch, PackedRelocs, ElfImage

CONSTANTS TopAddr, TextLength

VARIABLE sample

Region(a, n) ==
  [addr |-> a, size |-> n, perms |-> {"r"}, mode |-> "Reserved", usage |-> "Stack"]

SmallRegions == {Region(a, n) : a \in 0..TopAddr, n \in {1, 2, 3}}

MCLedgers ==
  {L \in {{}} \cup {{r, s, t} : r, s, t \in SmallRegions} : Disjoint(L)}

MCArenas == {[start |-> 2, end |-> 10]}

(* All short texts, all that begin with a class, and all signatures over a *)
(* few names and types.                                                    *)
ShortTexts(length) == BoundedSeq({"a", ".", "(", ")", "I", "[", ":", "L", ";"}, length)

Texts == ShortTexts(TextLength) \cup {<<"a", ".">> \o t : t \in ShortTexts(TextLength - 1)}

Types == {[dims |-> n, of |-> t] : n \in 0..2, t \in {<<"I">>, <<"L", "a", ";">>, <<"L", "I", "L", ";">>}}

Signatures ==
  {[class |-> c, name |-> n, args |-> a, ret |-> r] :
     c \in {<<>>, <<"a">>, <<"L">>}, n \in {<<"a">>, <<"[", "V">>},
     a \in {<<>>} \cup {<<t>> : t \in Types} \cup {<<t, u>> : t, u \in Types}, r \in Types}

(* Native methods: names with underscores and digits, arguments that share *)
(* their first letters with them.                                          *)
Names == {<<"a">>, <<"_">>, <<"a", "_">>, <<"_", "1">>, <<"I">>}

ClassTexts == Names \cup {a \o <<"/">> \o b : a, b \in {<<"_">>, <<"_", "1">>}}

NativeMethods ==
  [class : ClassTexts, name : Names,
   desc : {<<"(">> \o a \o <<")", "V">> : a \in {<<>>, <<"I">>, <<"[", "I">>}}]

(* Classes of two layers with at most two functions each.                  *)
Descs == {{[name |-> "foo", argc |-> 0, types |-> ""]}, {[name |-> "foo", argc |-> 1, types |-> "I"]},
          {[name |-> "foo", argc |-> 1, types |-> "J"]}, {[name |-> "bar", argc |-> 0, types |-> ""]}}

PyFunctions == [py : {"m", "k"}, desc : {{}} \cup Descs, static : {FALSE}]
                 \cup [py : {"m", "k"}, desc : Descs, static : {TRUE}]

Layers == {l \in BoundedSeq(PyFunctions, 2) : \A i, j \in DOMAIN l : l[i].py = l[j].py => i = j}

(* Relocations, in two groups with any flags.                              *)
Relocs == [offset : {8, 29}, info : {3, 25}, addend : {0, -13}]

(* Files of two segments, in either order, the second one ending in zeros, *)
(* sharing file bytes with the first, or beyond the end of the file; two   *)
(* relocations, each in a section of any form.                             *)
Header(type, offset, vaddr, filesz, memsz) ==
  [type |-> type, offset |-> offset, vaddr |-> vaddr, filesz |-> filesz, memsz |-> memsz]

Code == Header("LOAD", 0, 0, 4, 4)

Layouts ==
  {[size |-> 7, headers |-> <<Header("LOAD", 4, 6, 3, 7), Header("DYNAMIC", 4, 8, 2, 2), Code>>],
   [size |-> 6, headers |-> <<Code, Header("LOAD", 2, 6, 4, 4)>>],
   [size |-> 6, headers |-> <<Code, Header("LOAD", 3, 6, 4, 4)>>]}

SymbolTable == <<"f", "gone">>
SymbolScope == [f |-> 11]
ImageBias == 12

(* A relocation: where, its type and index in .dynsym, its addend and form.*)
Forms == {"RELA", "REL", "ANDROID_RELA", "ANDROID_REL"}

Targets == {0, 2, 7, 10}

FirstRelocs ==
  {[at |-> a, kind |-> k[1], symbol |-> k[2], addend |-> n, form |-> f] : a \in Targets,
     k \in {<<"RELATIVE", 0>>, <<"GLOB_DAT", 1>>, <<"ABS64", 2>>, <<"JUMP_SLOT", 3>>, <<"COPY", 1>>,
            <<"COPY", 2>>}, n \in {-3, 2}, f \in Forms}

SecondRelocs == {r \in FirstRelocs : r.symbol < 2 /\ r.addend = 2 /\ r.kind # "COPY"}

(* Where the file has the word, 0 if nowhere.                              *)
FilePlace(layout, at) ==
  LET i == SelectInSeq(layout.headers, LAMBDA h : h.type = "LOAD" /\ at \in h.vaddr..h.vaddr + h.filesz - 2)
  IN  IF i = 0 THEN 0 ELSE layout.headers[i].offset + (at - layout.headers[i].vaddr) + 1

(* Without a field for it the addend is the word the file has there, and   *)
(* none where zeros will be.                                               *)
Meant(layout, r) ==
  IF r.form \in {"REL", "ANDROID_REL"} /\ FilePlace(layout, r.at) = 0 THEN 0 ELSE r.addend

(* A packed section without addends is taken only where zeros will be: of  *)
(* a word of the file the decoder says 0 and the model of a relocation     *)
(* says the word (packed.rs:28, model.rs:125).                             *)
Settled(layout, r) == r.form = "ANDROID_REL" => FilePlace(layout, r.at) = 0

Kept(layout, r) ==
  IF r.form = "REL" /\ FilePlace(layout, r.at) # 0
    THEN FilePlace(layout, r.at)..FilePlace(layout, r.at) + 1 ELSE {}

FileOf(layout, pair) ==
  [bytes |-> [i \in 1..layout.size |->
     IF \E r \in Range(pair) : i \in Kept(layout, r)
       THEN LET r == CHOOSE r \in Range(pair) : i \in Kept(layout, r)
            IN ByteOf(r.addend, i - FilePlace(layout, r.at))
       ELSE 1 + (i % 3)],
   headers |-> layout.headers, symbols |-> SymbolTable,
   sections |-> <<[type |-> "OTHER", entries |-> <<>>]>> \o [k \in DOMAIN pair |->
     [type |-> pair[k].form,
      entries |-> <<[at |-> pair[k].at, symbol |-> pair[k].symbol, kind |-> pair[k].kind,
                     addend |-> IF pair[k].form = "REL" THEN 0 ELSE pair[k].addend]>>]]]

WantedOf(layout, pair) ==
  {[at |-> r.at, kind |-> r.kind, addend |-> Meant(layout, r),
    symbol |-> IF r.symbol \in DOMAIN SymbolTable THEN SymbolTable[r.symbol] ELSE NoSymbol] :
     r \in Range(pair)}

(* A class and an instance with or without a field of a method's name.     *)
NoShim == [mro |-> <<>>, fields |-> {}]

MCShims == {NoShim} \cup [mro : {<<near, far>> : near, far \in Layers}, fields : {{}, {"foo"}}]

MCHostCalls == {"foo", "bar"} \X (0..2)

Sampled ==
  \/ \E t \in Texts : sample = <<"text", t>>
  \/ \E s \in Signatures : sample = <<"signature", s>>
  \/ \E m, other \in NativeMethods : sample = <<"native", m, other>>
  \/ \E a \in BoundedSeq(Relocs, 1), b \in BoundedSeq(Relocs, 2), f, g \in 0..15 :
       /\ WriteGroup(Zero, a, f) # {} /\ WriteGroup(IF a = <<>> THEN Zero ELSE a[1], b, g) # {}
       /\ sample = <<"relocs", a, b, f, g>>
  \/ \E l \in Layouts, r \in FirstRelocs, t \in SecondRelocs :
       /\ Settled(l, r) /\ Settled(l, t)
       /\ r.at # t.at /\ Kept(l, r) \cap Kept(l, t) = {}
       /\ sample = <<"image", l, <<r, t>>>>

MCInit ==
  /\ SearchInit
  /\ \/ sample = <<"none">> /\ shim = NoShim
     \/ /\ asked.ledger = {} /\ asked.size = 2 /\ asked.align = 2 /\ asked.hint = 0
        /\ \/ Sampled /\ shim = NoShim
           \/ sample = <<"class">> /\ ShimInit

MCNext == SearchNext /\ UNCHANGED <<sample, shim>>

MCVars == <<searchVars, sample, shim>>

MCSpec == MCInit /\ [][MCNext]_MCVars /\ WF_MCVars(MCNext)
-----------------------------------------------------------------------------
(* Decorators, the registry, guest code, Python and the symbols of a       *)
(* library name a method alike; see TextMeansOne, SignatureRead and        *)
(* NativesKeptApart.                                                       *)
DescriptorsAgree ==
  /\ sample[1] = "native" => NativesKeptApart(sample[2], sample[3])
  /\ sample[1] = "text" => TextMeansOne(sample[2])
  /\ sample[1] = "signature" => SignatureRead(sample[2])

(* Packed relocations decode to what was packed, and relocations of every  *)
(* form come to the same words in memory, where the form says which        *)
(* (Settled); see Unpacks and AsLinked.                                    *)
RelocationsApply ==
  /\ sample[1] = "relocs" => Unpacks(sample[2], sample[3], sample[4], sample[5])
  /\ sample[1] = "image" =>
       AsLinked(FileOf(sample[2], sample[3]), WantedOf(sample[2], sample[3]), ImageBias, SymbolScope)
=============================================================================
