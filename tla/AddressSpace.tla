---------------------------- MODULE AddressSpace ----------------------------
(***************************************************************************)
(* The guest VMA authority, emulator/memory/src/address_space.rs: a ledger *)
(* of memory regions and the pure part of its operations (planning an      *)
(* allocation, rewriting a protected range, removing an unmapped range).   *)
(* The module has no variables.  GuestMemory puts the ledger next to the   *)
(* backend it must agree with; GapSearch runs the gap search loop.         *)
(*                                                                         *)
(* The ledger is a set of region records.  The code keeps them in a vector *)
(* sorted by address; the order is a function of the set because regions   *)
(* never overlap (NoOverlap, proved in GuestMemoryProofs).                 *)
(***************************************************************************)
EXTENDS Integers, FiniteSets, FiniteSetsExt

CONSTANTS
  PageSize,  (* addresses per page (4096 in the code)                      *)
  MaxAddr    (* the largest address, u64::MAX in the code                  *)

ASSUME PageAssumption ==
  /\ PageSize \in Nat \ {0}
  /\ MaxAddr \in Nat
  /\ (MaxAddr + 1) % PageSize = 0

Addr == 0..MaxAddr

Perms == SUBSET {"r", "w", "x"}

Modes == {"Reserved", "Dynamic"}

(* MemoryUsage, the variants some component of the runtime asks for.       *)
Usages == {"ELFImage", "AnonymousMmap", "FileMmap", "DeviceMmap", "JNIEnv",
           "Trampoline", "Stack", "Scratch"}

Regions == [addr : Addr, size : Addr \ {0}, perms : Perms,
            mode : Modes, usage : Usages]

End(r) == r.addr + r.size

AlignDown(a, align) == (a \div align) * align

AlignUp(a, align) == AlignDown(a + align - 1, align)

Aligned(a, align) == a % align = 0

(* A power of two has no odd divisor but 1.                                *)
PowerOfTwo(n) == n > 0 /\ \A d \in 2..n : n % d = 0 => d % 2 = 0

(* normalize_align accepts powers of two from a page up, which are the     *)
(* pages times a power of two.                                             *)
Normal(align) == Aligned(align, PageSize) /\ PowerOfTwo(align \div PageSize)

(* The addresses of the region, and of a whole ledger.                     *)
Span(addr, size) == addr..(addr + size - 1)

Covered(ledger) == UNION {Span(r.addr, r.size) : r \in ledger}

(* MemoryRegion::overlaps                                                  *)
Overlaps(r, addr, size) == r.addr < addr + size /\ addr < End(r)

Touched(ledger, addr, size) == {r \in ledger : Overlaps(r, addr, size)}

(* ensure_no_overlap                                                       *)
Vacant(ledger, addr, size) == \A r \in ledger : ~Overlaps(r, addr, size)

(***************************************************************************)
(* find_gap: first fit.  From `start` on, the lowest aligned address whose *)
(* range lies in the arena and touches no region; if there is none, the    *)
(* lowest one in the whole arena.  GapSearch shows that the code's cursor  *)
(* loop computes exactly this.  The result is a set with at most one       *)
(* member; the empty set is NoAvailableGap (or an overflowing alignment).  *)
(***************************************************************************)
FitsPastEnd(ledger, size, align, arena, start) ==
  {a \in Max({start, arena.start})..(arena.end - 1) :
     Aligned(a, align) /\ Vacant(ledger, a, size)}

Fits(ledger, size, align, arena, start) ==
  {a \in Max({start, arena.start})..(arena.end - size) :
     Aligned(a, align) /\ Vacant(ledger, a, size)}

Lowest(S) == IF S = {} THEN {} ELSE {Min(S)}

FirstFit(ledger, size, align, arena, hint) ==
  LET fromHint == Fits(ledger, size, align, arena, hint)
  IN  IF hint < arena.end /\ fromHint # {}
        THEN Lowest(fromHint)
        ELSE Lowest(Fits(ledger, size, align, arena, arena.start))

(***************************************************************************)
(* Requests, and plan_region: the region a request would get, as a set     *)
(* with at most one member (empty when the code returns an error).         *)
(***************************************************************************)
Reserved(addr, size, perms, usage) ==
  [mode |-> "Reserved", addr |-> addr, size |-> size, align |-> PageSize,
   perms |-> perms, usage |-> usage]

Dynamic(arena, hint, size, align, perms, usage) ==
  [mode |-> "Dynamic", arena |-> arena, hint |-> hint, size |-> size,
   align |-> align, perms |-> perms, usage |-> usage]

Placement(ledger, req, size) ==
  IF req.mode = "Reserved"
    THEN {a \in {req.addr} : Aligned(a, req.align)}
    ELSE FirstFit(ledger, size, req.align, req.arena, req.hint)

Plan(ledger, req) ==
  LET size == AlignUp(req.size, PageSize)
  IN  {[addr |-> a, size |-> size, perms |-> req.perms,
        mode |-> req.mode, usage |-> req.usage] :
         a \in {b \in Placement(ledger, req, size) \cap Addr :
                  /\ Normal(req.align) /\ req.size > 0
                  /\ b + size \in Addr
                  /\ Vacant(ledger, b, size)}}

(***************************************************************************)
(* What is left of the touched regions outside [addr, addr+size), and the  *)
(* part of them inside: the pieces rewrite_covering_range and              *)
(* remove_covering_range push onto the replacement vector.                 *)
(***************************************************************************)
Piece(r, addr, size) == [r EXCEPT !.addr = addr, !.size = size]

Below(r, addr) ==
  IF r.addr < addr THEN {Piece(r, r.addr, addr - r.addr)} ELSE {}

Above(r, end) ==
  IF end < End(r) THEN {Piece(r, end, End(r) - end)} ELSE {}

Inside(r, addr, end) ==
  LET lo == IF addr < r.addr THEN r.addr ELSE addr
      hi == IF End(r) < end THEN End(r) ELSE end
  IN  Piece(r, lo, hi - lo)

(* The whole range is covered by regions, else RangeNotMapped.             *)
FullyMapped(ledger, addr, size) ==
  addr + size \in Addr /\ Span(addr, size) \subseteq Covered(ledger)

(* Only whole regions go (mutant).                                         *)
CarveWhole(ledger, addr, size) ==
  {r \in ledger : ~(addr <= r.addr /\ End(r) <= addr + size)}

Carve(ledger, addr, size) ==
  {r \in ledger : ~Overlaps(r, addr, size)}
    \cup UNION {Below(r, addr) \cup Above(r, addr + size) :
                  r \in Touched(ledger, addr, size)}

(***************************************************************************)
(* protect gives the part of each touched region inside the range the new  *)
(* permissions.  Two ways to get it wrong (mutants): forget its mode,      *)
(* or leave the original region in place.                                  *)
(***************************************************************************)
WithPerms(r, perms) == [r EXCEPT !.perms = perms]

RewriteForgetsMode(ledger, addr, size, perms) ==
  Carve(ledger, addr, size)
    \cup {[WithPerms(Inside(r, addr, addr + size), perms)
             EXCEPT !.mode = "Reserved"] : r \in Touched(ledger, addr, size)}

RewriteKeepsOriginal(ledger, addr, size, perms) ==
  ledger \cup {WithPerms(Inside(r, addr, addr + size), perms) :
                 r \in Touched(ledger, addr, size)}

Rewrite(ledger, addr, size, perms) ==
  Carve(ledger, addr, size)
    \cup {WithPerms(Inside(r, addr, addr + size), perms) :
            r \in Touched(ledger, addr, size)}

(* No two regions share an address.                                        *)
Disjoint(ledger) ==
  \A r, s \in ledger : r # s => ~Overlaps(r, s.addr, s.size)
=============================================================================
