---------------------------- MODULE PackedRelocs ---------------------------
(***************************************************************************)
(* packed.rs: the Android packed relocations, a stream of SLEB128 numbers. *)
(* A byte has Payload bits and a flag that another byte follows; numbers   *)
(* are Width bits wide and kept without a sign, i64 and u64 alike.  7 and  *)
(* 64 in the program; a smaller pair meets the same boundaries: a number   *)
(* of as many bits as the word, a last byte that does not fit in it.  Sums *)
(* wrap, as in a release build (a debug build panics on a delta below 0).  *)
(* A read answers {[value, pos]}, or {} for Truncated.                     *)
(***************************************************************************)
EXTENDS Integers, Sequences, SequencesExt, FiniteSets

CONSTANTS Payload, Width

ASSUME PackedAssumption == Payload \in Nat \ {0} /\ Width \in Nat \ {0}

Chunk == 2^Payload
Word == 2^Width
Half == 2^(Width \div 2)

(* No sign extension (mutant).                                             *)
SignExtendedNever(value, shift, last) == value

SignExtended(value, shift, last) ==
  IF shift < Width /\ last % Chunk >= Chunk \div 2 THEN value - 2^shift ELSE value

ReadSleb(data, pos) ==
  LET stop == SelectInSubSeq(data, pos, Len(data), LAMBDA b : b < Chunk)
      bits[i \in (pos - 1)..stop] ==
        IF i < pos THEN 0
        ELSE bits[i - 1] + (IF Payload * (i - pos) < Width
                              THEN (data[i] % Chunk) * 2^(Payload * (i - pos)) ELSE 0)
  IN  IF stop = 0 THEN {}
      ELSE {[value |-> SignExtended(bits[stop] % Word, Payload * (stop - pos + 1), data[stop]) % Word,
             pos |-> stop + 1]}

(* The number, or 0 without reading when the flag says it is not there.    *)
ReadIf(flag, data, pos) == IF flag THEN ReadSleb(data, pos) ELSE {[value |-> 0, pos |-> pos]}

Bit(flags, n) == (flags \div n) % 2 = 1
ByOffset(flags)  == Bit(flags, 1)
ByInfo(flags)    == Bit(flags, 2)
HasAddend(flags) == Bit(flags, 4)
ByAddend(flags)  == Bit(flags, 8)

(* r_sym and r_type; symbol 0 is none.                                     *)
Record(offset, info, addend, isRela) ==
  [offset |-> offset, symbol |-> info \div Half, type |-> info % Half,
   addend |-> IF isRela THEN addend ELSE 0]

(* `?`: what follows a read that may have failed.                          *)
Then(read, Follow(_)) == UNION {Follow(x) : x \in read}

(* One record of a group: st is [pos, offset, addend, out].                *)
ReadRecord(data, flags, g, isRela, st) ==
  Then(ReadIf(~ByOffset(flags), data, st.pos), LAMBDA o :
  Then(ReadIf(~ByInfo(flags), data, o.pos), LAMBDA i :
  Then(ReadIf(HasAddend(flags) /\ ~ByAddend(flags), data, i.pos), LAMBDA a :
    LET offset == (st.offset + (IF ByOffset(flags) THEN g.delta ELSE o.value)) % Word
        info   == IF ByInfo(flags) THEN g.info ELSE i.value
        addend == (st.addend + a.value) % Word
    IN  {[pos |-> a.pos, offset |-> offset, addend |-> addend,
          out |-> Append(st.out, Record(offset, info, addend, isRela))]})))

ReadRecords(data, flags, g, isRela, count, st) ==
  LET after[n \in 0..count] ==
        IF n = 0 THEN {st}
        ELSE Then(after[n - 1], LAMBDA s : ReadRecord(data, flags, g, isRela, s))
  IN  after[count]

(* A group: its size, which may not be negative, its flags, and what its   *)
(* records have in common.                                                 *)
ReadGroup(data, isRela, st) ==
  Then({s \in ReadSleb(data, st.pos) : s.value < Word \div 2}, LAMBDA size :
  Then(ReadSleb(data, size.pos), LAMBDA f :
  Then(ReadIf(ByOffset(f.value), data, f.pos), LAMBDA d :
  Then(ReadIf(ByInfo(f.value), data, d.pos), LAMBDA i :
  Then(ReadIf(HasAddend(f.value) /\ ByAddend(f.value), data, i.pos), LAMBDA a :
    LET common == HasAddend(f.value) /\ ByAddend(f.value)
    IN  ReadRecords(data, f.value, [delta |-> d.value, info |-> i.value], isRela, size.value,
                    [st EXCEPT !.pos = a.pos, !.addend = IF common THEN a.value ELSE @]))))))

(* Groups are read while there are fewer records than announced; after the *)
(* count comes a number nobody uses.  The magic is taken as read.          *)
DecodePacked(data, isRela) ==
  Then(ReadSleb(data, 1), LAMBDA count :
  Then(ReadSleb(data, count.pos), LAMBDA unused :
    LET groups[n \in 0..Len(data)] ==
          IF n = 0 THEN {[pos |-> unused.pos, offset |-> 0, addend |-> 0, out |-> <<>>]}
          ELSE Then(groups[n - 1], LAMBDA st :
                 IF Len(st.out) >= count.value THEN {st} ELSE ReadGroup(data, isRela, st))
    IN  {st.out : st \in groups[Len(data)]}))
-----------------------------------------------------------------------------
(* A packer: numbers in as few bytes as they need.                         *)
FitsIn(v, bytes) == v + 2^(Payload * bytes - 1) \in 0..(2^(Payload * bytes) - 1)

WriteSleb(value) ==
  LET v == IF value % Word >= Word \div 2 THEN (value % Word) - Word ELSE value % Word
      n == CHOOSE k \in 1..Width : FitsIn(v, k) /\ \A j \in 1..(k - 1) : ~FitsIn(v, j)
  IN  [k \in 1..n |-> ((v \div 2^(Payload * (k - 1))) % Chunk) + (IF k < n THEN Chunk ELSE 0)]

WriteAll(numbers) == FlattenSeq([i \in DOMAIN numbers |-> WriteSleb(numbers[i])])

(* The records of `recs` in one group after `prev`, or {} if a flag says   *)
(* that something is common which is not.  [offset, info, addend] here.    *)
WriteGroup(prev, recs, flags) ==
  LET all == <<prev>> \o recs
      delta(k) == recs[k].offset - all[k].offset
      Common(f(_)) == \A k \in DOMAIN recs : f(k) = f(1)
  IN  IF \/ recs = <<>> /\ flags # 0
         \/ ByOffset(flags) /\ ~Common(delta)
         \/ ByInfo(flags) /\ ~Common(LAMBDA k : recs[k].info)
         \/ HasAddend(flags) /\ ByAddend(flags) /\ ~Common(LAMBDA k : recs[k].addend)
         \/ ~HasAddend(flags) /\ \E k \in DOMAIN recs : recs[k].addend # prev.addend
        THEN {}
        ELSE {<<Len(recs), flags>>
          \o (IF ByOffset(flags) THEN <<delta(1)>> ELSE <<>>)
          \o (IF ByInfo(flags) THEN <<recs[1].info>> ELSE <<>>)
          \o (IF HasAddend(flags) /\ ByAddend(flags) THEN <<recs[1].addend>> ELSE <<>>)
          \o FlattenSeq([k \in DOMAIN recs |->
               (IF ByOffset(flags) THEN <<>> ELSE <<delta(k)>>)
               \o (IF ByInfo(flags) THEN <<>> ELSE <<recs[k].info>>)
               \o (IF HasAddend(flags) /\ ~ByAddend(flags)
                     THEN <<recs[k].addend - all[k].addend>> ELSE <<>>)])}

Zero == [offset |-> 0, info |-> 0, addend |-> 0]

(***************************************************************************)
(* Whatever groups a packer makes of the relocations, and whatever flags   *)
(* it gives them, decoding gives the relocations back: signs, carries from *)
(* group to group and the width of the word included; without its last     *)
(* byte the section is refused, never read as other relocations.           *)
(***************************************************************************)
Unpacks(first, second, flags1, flags2) ==
  LET recs == first \o second
      prev == IF first = <<>> THEN Zero ELSE first[Len(first)]
  IN  \A g1 \in WriteGroup(Zero, first, flags1), g2 \in WriteGroup(prev, second, flags2) :
        LET data == WriteAll(<<Len(recs), 0>> \o g1 \o g2)
        IN  /\ DecodePacked(data, TRUE) =
                 {[k \in DOMAIN recs |-> Record(recs[k].offset, recs[k].info % Word, recs[k].addend % Word, TRUE)]}
            /\ second # <<>> => DecodePacked(Front(data), TRUE) = {}
=============================================================================
